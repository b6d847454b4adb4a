------------------------------- MODULE DCache -------------------------------
(***************************************************************************)
(* The data-cache controller of the core, dev/rtl/core/dcache_ctrl.sv: a   *)
(* write-back, write-allocate, physically indexed cache whose tags and     *)
(* lines live in two dual-port block RAMs with registered outputs.         *)
(*                                                                         *)
(* One step of this module is one rising clock edge.  The registers of the *)
(* controller are variables; its input wires are variables too, and are    *)
(* driven by another module (DataSide for the contract of the ports).      *)
(* Every wire that enters the controller comes from a register elsewhere,  *)
(* so the controller and its environment step together and each reads the  *)
(* other's old values.                                                     *)
(*                                                                         *)
(* Abstractions: a line is NumWords words, a word is a member of Values    *)
(* (byte lanes and access sizes are not distinguished), an address is its  *)
(* tag, set and word fields, the victim among valid ways is any way (the   *)
(* replacement bits only choose it), and a register that always equals     *)
(* another one while it is read is that other one (refill_req_r, wb_addr_r,*)
(* refill_addr_r, inv_latched_*, hit_*_r).  A register that reset leaves    *)
(* alone starts at zero when it is always written before it is read.       *)
(*                                                                         *)
(* An operator whose comment begins with "Slip" is a plausible coding slip *)
(* in the definition that follows it.  Nothing uses it: it is there to be  *)
(* put in that definition's place, to see which property notices.          *)
(***************************************************************************)
EXTENDS Integers, FiniteSets

CONSTANTS NumSets, NumWays, NumWords,   \* geometry of the cache
          Tags, Values,                 \* tag fields and word contents
          ZeroTag, ZeroValue            \* the all-zero tag and word

ASSUME GeometryAssumption ==
    /\ NumSets \in Nat \ {0}
    /\ NumWays \in Nat \ {0}
    /\ NumWords \in Nat \ {0}
\* word_off, ptw_word_off, latched_word_off and active_word_off are declared as
\* wide as a set index, so a line has no more words than the cache has sets.
ASSUME WordOffsetAssumption == NumWords <= NumSets
ASSUME ZeroAssumption == ZeroTag \in Tags /\ ZeroValue \in Values

Sets  == 0 .. NumSets - 1
Ways  == 0 .. NumWays - 1
Words == 0 .. NumWords - 1

Line  == [Words -> Values]
Entry == [v : BOOLEAN, d : BOOLEAN, tag : Tags]
Addr  == [tag : Tags, set : Sets, word : Words]

LineAddr == Tags \X Sets        \* what the bus sees: the address of a line

ZeroEntry == [v |-> FALSE, d |-> FALSE, tag |-> ZeroTag]
ZeroAddr  == [tag |-> ZeroTag, set |-> 0, word |-> 0]
ZeroLine  == [w \in Words |-> ZeroValue]

States == {"IDLE", "TAG_READ", "READ_HIT", "WB_READ", "WB_SEND", "REFILL",
           "FLUSH_SCAN", "FLUSH_CHECK", "FLUSH_WB_RD", "FLUSH_WB_SD",
           "FLUSH_WB_WAIT", "FLUSH_INVALIDATE", "INV_LINE",
           "INV_LINE_WRITE", "RST_CLEAR", "DONE"}

-----------------------------------------------------------------------------
(***************************************************************************)
(* Registers of the controller.                                            *)
(***************************************************************************)
VARIABLES
    state,        \* state
    tagRam,       \* contents of the tag block RAM u_dcachet
    tagOut,       \* its port-A output register (tag_bram_douta)
    tagWr,        \* port-B write registers; no way selected = not enabled
    dataRam,      \* contents of the data block RAM u_dcached
    hitWord,      \* the word of bram_douta that READ_HIT selects
    lineOut,      \* port-B output register (bram_doutb), which drives wb_data
    isPtw,        \* is_ptw_req_r
    ptwAddr,      \* latched_ptw_addr
    miss,         \* latched_set .. latched_victim_tag
    bypass,       \* bypass_data
    cpuReady, ptwReady, ptwFault,         \* answer pulses
    wbReq,        \* wb_req_r
    flushSet, flushWay, clearSet,         \* flush_set, flush_way, invalidate_set
    flushDone, flushError, flushResume,   \* flush_done_r, flush_error_seen_r, flush_resume_invalidate_r
    mmioPending, mmioInflight, mmioOp     \* mmio_pending_r, mmio_inflight_r, mmio_*_r

(***************************************************************************)
(* Input wires, registers of the other blocks.                             *)
(***************************************************************************)
VARIABLES
    cpu,          \* cpu_req_*: the load/store unit's request
    mmuReady,     \* mmu_ready: cpu.addr is a translated, physical address
    ptw,          \* ptw_req_*: the page-table walker's request
    flushReq,     \* flush_req: fence.i or sfence.vma in progress
    amoAbort,     \* amo_abort
    refill,       \* refill_done, refill_error, refill_data
    wbAck,        \* wb_done, wb_error
    mmioAck       \* mmio_accept, mmio_valid, mmio_rdata (and the error beside it)

tagVars   == <<tagRam, tagOut, tagWr>>
dataVars  == <<dataRam, hitWord, lineOut>>
reqVars   == <<isPtw, ptwAddr, miss>>
flushVars == <<flushSet, flushWay, clearSet, flushError, flushResume>>
mmioVars  == <<mmioPending, mmioInflight, mmioOp>>
cacheVars == <<state, tagVars, dataVars, reqVars, bypass, cpuReady, ptwReady,
               ptwFault, wbReq, flushVars, flushDone, mmioVars>>
inputVars == <<cpu, mmuReady, ptw, flushReq, amoAbort, refill, wbAck, mmioAck>>

-----------------------------------------------------------------------------
(***************************************************************************)
(* The tag block RAM.  A write is registered: it is set up by one state    *)
(* and reaches the array on the next edge, so a read of the array lags it  *)
(* by one cycle.  EffTags is the array once the pending write has landed.  *)
(***************************************************************************)
NoTagWrite == [set |-> 0, ways |-> {}, entry |-> ZeroEntry]
TagWrite(s, ws, e) == [set |-> s, ways |-> ws, entry |-> e]

EffTags ==
    [s \in Sets |-> [w \in Ways |->
        IF s = tagWr.set /\ w \in tagWr.ways THEN tagWr.entry
                                             ELSE tagRam[s][w]]]

\* Slip: a request is served before its address is translated.
CacheableUntranslated == ~cpu.mmio

\* The CPU's address is known and cacheable.
Cacheable == mmuReady /\ ~cpu.mmio

\* A request is looked up in IDLE when its address is known and cacheable.
PtwLookup == /\ state = "IDLE"
             /\ ptw.valid /\ ~ptwReady /\ ~ptw.mmio
CpuLookup == /\ state = "IDLE"
             /\ ~ptw.valid
             /\ cpu.valid /\ ~cpuReady /\ Cacheable

\* Slip: port A is always enabled.
TagReadAlways == TRUE

TagReadEnabled ==
    \/ PtwLookup
    \/ CpuLookup
    \/ state \in {"FLUSH_SCAN", "INV_LINE", "INV_LINE_WRITE"}

TagReadSet ==
    CASE state = "FLUSH_SCAN" -> flushSet
      [] state \in {"INV_LINE", "INV_LINE_WRITE"} -> miss.set
      [] state = "IDLE" /\ ptw.valid /\ ~ptw.mmio -> ptw.addr.set
      [] OTHER -> cpu.addr.set

TagBram ==
    /\ tagRam' = EffTags
    /\ tagOut' = IF TagReadEnabled THEN tagRam[TagReadSet] ELSE tagOut

-----------------------------------------------------------------------------
(***************************************************************************)
(* Decoding of the tags that port A has read.                              *)
(***************************************************************************)
ActiveAddr == IF isPtw THEN ptwAddr ELSE cpu.addr

Matches(w, t) == tagOut[w].v /\ tagOut[w].tag = t
HitWays  == {w \in Ways : Matches(w, ActiveAddr.tag)}
CacheHit == HitWays # {}

Lowest(ws) == CHOOSE w \in ws : \A u \in ws : w <= u
HitWay == Lowest(HitWays)

\* The first invalid way; when all are valid, the way the PLRU bits name.
InvalidWays == {w \in Ways : ~tagOut[w].v}
Victims == IF InvalidWays # {} THEN {Lowest(InvalidWays)} ELSE Ways

\* Slip: a store hit leaves the line clean.
DirtyForgotten(e) == [v |-> TRUE, d |-> FALSE, tag |-> e.tag]

\* Slip: only the V bit of a dropped line is cleared.
DroppedStillDirty(e) == [v |-> FALSE, d |-> e.d, tag |-> e.tag]

Dirty(e) == [v |-> TRUE, d |-> TRUE, tag |-> e.tag]
Clean(t) == [v |-> TRUE, d |-> FALSE, tag |-> t]
Dropped(e) == [v |-> FALSE, d |-> FALSE, tag |-> e.tag]

\* Slip: the store is spread over the whole line.
RefillLineSpread == [w \in Words |-> IF miss.write THEN miss.data
                                                  ELSE refill.data[w]]

\* The refilled line, with the store that missed merged into it.
RefillLine == IF miss.write THEN [refill.data EXCEPT ![miss.word] = miss.data]
                            ELSE refill.data

\* What the bus bridge reads from the request outputs.
RefillReq  == state = "REFILL"
RefillAddr == <<miss.tag, miss.set>>
WbAddr     == <<miss.victimTag, miss.set>>

-----------------------------------------------------------------------------
CacheInit ==
    /\ state = "RST_CLEAR"
    /\ tagRam \in [Sets -> [Ways -> Entry]]     \* undefined at reset
    /\ tagOut = [w \in Ways |-> ZeroEntry]
    /\ tagWr = NoTagWrite
    /\ dataRam = [s \in Sets |-> [w \in Ways |-> ZeroLine]]
    /\ hitWord = ZeroValue
    /\ lineOut = ZeroLine
    /\ isPtw \in BOOLEAN                        \* not reset
    /\ ptwAddr = ZeroAddr
    /\ miss = [set |-> 0, way |-> 0, tag |-> ZeroTag, victimTag |-> ZeroTag,
               word |-> 0, write |-> FALSE, data |-> ZeroValue]
    /\ bypass = ZeroValue
    /\ cpuReady = FALSE /\ ptwReady = FALSE /\ ptwFault = FALSE
    /\ wbReq = FALSE
    /\ flushSet = 0 /\ flushWay = 0 /\ clearSet = 0
    /\ flushDone = FALSE /\ flushError = FALSE /\ flushResume = FALSE
    /\ mmioPending = FALSE /\ mmioInflight = FALSE
    /\ mmioOp = [addr |-> ZeroAddr, write |-> FALSE, data |-> ZeroValue]

-----------------------------------------------------------------------------
(***************************************************************************)
(* Defaults of the clocked block: answers are pulses, no tag write is set  *)
(* up, and an accepted device request is no longer pending but in flight.  *)
(***************************************************************************)
\* Slip: the next lookup starts at once.
AfterAnswerAtOnce == "IDLE"

\* An answer is followed by one cycle in which the tag write lands.
AfterAnswer == "DONE"

NoAnswer == /\ cpuReady' = FALSE
            /\ ptwReady' = FALSE
            /\ ptwFault' = FALSE
NoFlushDone == flushDone' = FALSE
NoTagSetup  == tagWr' = NoTagWrite

MmioAccept ==
    /\ mmioPending'  = (mmioPending /\ ~mmioAck.accept)
    /\ mmioInflight' = (mmioInflight \/ mmioAck.accept)
    /\ UNCHANGED mmioOp

-----------------------------------------------------------------------------
(***************************************************************************)
(* IDLE.  A flush goes first, then the walker, then the CPU.               *)
(***************************************************************************)
IdleDefaults ==
    /\ state = "IDLE"
    /\ wbReq' = FALSE
    /\ flushError' = (flushError /\ flushReq)
    /\ NoTagSetup /\ NoFlushDone
    /\ UNCHANGED <<dataVars, miss, clearSet>>

FlushStarts == flushReq /\ ~flushError
CpuAsks     == cpu.valid /\ ~cpuReady

\* Slip: the CPU goes before the walker that translates for it.
PtwAsksAfterCpu == ptw.valid /\ ~ptwReady /\ ~CpuAsks

PtwAsks     == ptw.valid /\ ~ptwReady

\* Slip: a request that the bus has accepted is issued again.
MmioIssueAgain == mmuReady /\ cpu.mmio /\ ~mmioAck.valid /\ ~mmioPending

MmioIssue == mmuReady /\ cpu.mmio /\ ~mmioAck.valid /\ ~mmioPending /\ ~mmioInflight

IdleFlush ==
    /\ IdleDefaults
    /\ FlushStarts
    /\ state' = "FLUSH_SCAN"
    /\ flushSet' = 0 /\ flushWay' = 0 /\ flushResume' = FALSE
    /\ NoAnswer /\ MmioAccept
    /\ UNCHANGED <<isPtw, ptwAddr, bypass>>

IdlePtw ==
    /\ IdleDefaults
    /\ ~FlushStarts /\ PtwAsks
    /\ cpuReady' = FALSE
    /\ ptwReady' = ptw.mmio
    /\ ptwFault' = ptw.mmio
    /\ state' = IF ptw.mmio THEN "IDLE" ELSE "TAG_READ"
    /\ isPtw' = (isPtw \/ ~ptw.mmio)
    /\ ptwAddr' = IF ptw.mmio THEN ptwAddr ELSE ptw.addr
    /\ MmioAccept
    /\ UNCHANGED <<bypass, flushSet, flushWay, flushResume>>

IdleCpu ==
    /\ IdleDefaults
    /\ ~FlushStarts /\ ~PtwAsks /\ CpuAsks
    /\ isPtw' = FALSE
    /\ state' = IF Cacheable THEN "TAG_READ" ELSE "IDLE"
    /\ ptwReady' = FALSE /\ ptwFault' = FALSE
    /\ LET answered == mmioAck.valid /\ (mmuReady => cpu.mmio)
       IN  /\ cpuReady' = answered
           /\ bypass' = IF answered THEN mmioAck.data ELSE bypass
           /\ mmioPending' = (MmioIssue \/ (mmioPending /\ ~mmioAck.accept))
           /\ mmioInflight' = (~answered /\ (mmioInflight \/ mmioAck.accept))
           /\ mmioOp' = IF MmioIssue THEN [addr |-> cpu.addr, write |-> cpu.write,
                                           data |-> cpu.data]
                                     ELSE mmioOp
    /\ UNCHANGED <<ptwAddr, flushSet, flushWay, flushResume>>

IdleWait ==
    /\ IdleDefaults
    /\ ~FlushStarts /\ ~PtwAsks /\ ~CpuAsks
    /\ NoAnswer /\ MmioAccept
    /\ UNCHANGED <<state, isPtw, ptwAddr, bypass, flushSet, flushWay, flushResume>>

-----------------------------------------------------------------------------
(***************************************************************************)
(* TAG_READ.  The tags of the request's set are on port A.                 *)
(***************************************************************************)
TagReadDefaults ==
    /\ state = "TAG_READ"
    /\ NoFlushDone /\ MmioAccept
    /\ UNCHANGED <<isPtw, ptwAddr, bypass, wbReq, flushVars, lineOut>>

\* The write enable of the data RAM also needs mmu_ready; the answer does not.
TagStoreHit ==
    /\ TagReadDefaults
    /\ CacheHit /\ ~isPtw /\ cpu.write
    /\ dataRam' = IF mmuReady
                  THEN [dataRam EXCEPT ![ActiveAddr.set][HitWay][ActiveAddr.word] = cpu.data]
                  ELSE dataRam
    /\ tagWr' = TagWrite(ActiveAddr.set, {HitWay}, Dirty(tagOut[HitWay]))
    /\ cpuReady' = TRUE /\ ptwReady' = FALSE /\ ptwFault' = FALSE
    /\ state' = AfterAnswer
    /\ UNCHANGED <<miss, hitWord>>

TagLoadHit ==
    /\ TagReadDefaults
    /\ CacheHit /\ (isPtw \/ ~cpu.write)
    /\ hitWord' = IF isPtw \/ mmuReady
                  THEN dataRam[ActiveAddr.set][HitWay][ActiveAddr.word]
                  ELSE hitWord
    /\ state' = "READ_HIT"
    /\ NoTagSetup /\ NoAnswer
    /\ UNCHANGED <<miss, dataRam>>

TagMiss ==
    /\ TagReadDefaults
    /\ ~CacheHit
    /\ \E w \in Victims :
         /\ miss' = [set |-> ActiveAddr.set, way |-> w, tag |-> ActiveAddr.tag,
                     victimTag |-> tagOut[w].tag, word |-> ActiveAddr.word,
                     write |-> ~isPtw /\ cpu.write, data |-> cpu.data]
         /\ state' = IF tagOut[w].d THEN "WB_READ" ELSE "REFILL"
    /\ NoTagSetup /\ NoAnswer
    /\ UNCHANGED <<dataRam, hitWord>>

ReadHit ==
    /\ state = "READ_HIT"
    /\ bypass' = hitWord
    /\ cpuReady' = ~isPtw /\ ptwReady' = isPtw /\ ptwFault' = FALSE
    /\ isPtw' = FALSE
    /\ state' = AfterAnswer
    /\ NoTagSetup /\ NoFlushDone /\ MmioAccept
    /\ UNCHANGED <<dataVars, ptwAddr, miss, wbReq, flushVars>>

-----------------------------------------------------------------------------
(***************************************************************************)
(* Write-back of a dirty victim, then the refill.                          *)
(***************************************************************************)
WbRead ==
    /\ state = "WB_READ"
    /\ lineOut' = dataRam[miss.set][miss.way]
    /\ state' = "WB_SEND"
    /\ NoTagSetup /\ NoAnswer /\ NoFlushDone /\ MmioAccept
    /\ UNCHANGED <<dataRam, hitWord, reqVars, bypass, wbReq, flushVars>>

WbSendDefaults ==
    /\ state = "WB_SEND"
    /\ NoAnswer /\ NoFlushDone /\ MmioAccept
    /\ UNCHANGED <<dataVars, reqVars, bypass, flushVars>>

WbSendWait ==
    /\ WbSendDefaults
    /\ ~amoAbort /\ ~wbAck.done
    /\ wbReq' = TRUE
    /\ NoTagSetup
    /\ UNCHANGED state

\* Aborted by a trap, or answered with a bus error: back to IDLE, no answer.
WbSendGiveUp ==
    /\ WbSendDefaults
    /\ amoAbort \/ (wbAck.done /\ wbAck.error)
    /\ wbReq' = FALSE
    /\ state' = "IDLE"
    /\ NoTagSetup

\* Slip: the error beside the end of a write-back is not looked at.
WbSendDoneUnchecked ==
    /\ WbSendDefaults
    /\ ~amoAbort /\ wbAck.done
    /\ wbReq' = FALSE
    /\ tagWr' = TagWrite(miss.set, {miss.way}, Clean(miss.victimTag))
    /\ state' = "REFILL"

WbSendDone ==
    /\ WbSendDefaults
    /\ ~amoAbort /\ wbAck.done /\ ~wbAck.error
    /\ wbReq' = FALSE
    /\ tagWr' = TagWrite(miss.set, {miss.way}, Clean(miss.victimTag))
    /\ state' = "REFILL"

RefillDefaults ==
    /\ state = "REFILL"
    /\ NoFlushDone /\ MmioAccept
    \* port B writes whenever refill_valid is up, aborted or not
    /\ dataRam' = IF refill.done /\ ~refill.error
                  THEN [dataRam EXCEPT ![miss.set][miss.way] = RefillLine]
                  ELSE dataRam
    /\ UNCHANGED <<hitWord, lineOut, ptwAddr, miss, clearSet>>

RefillFlushed ==
    /\ RefillDefaults
    /\ flushReq
    /\ state' = "FLUSH_SCAN"
    /\ flushSet' = 0 /\ flushWay' = 0
    /\ flushError' = FALSE /\ flushResume' = FALSE
    /\ NoTagSetup /\ NoAnswer
    /\ UNCHANGED <<isPtw, bypass, wbReq>>

RefillAborted ==
    /\ RefillDefaults
    /\ ~flushReq /\ amoAbort
    /\ state' = "IDLE"
    /\ wbReq' = FALSE
    /\ NoTagSetup /\ NoAnswer
    /\ UNCHANGED <<isPtw, bypass, flushSet, flushWay, flushError, flushResume>>

RefillWait ==
    /\ RefillDefaults
    /\ ~flushReq /\ ~amoAbort /\ ~refill.done
    /\ NoTagSetup /\ NoAnswer
    /\ UNCHANGED <<state, isPtw, bypass, wbReq, flushSet, flushWay, flushError, flushResume>>

\* A bus error answers the walker with a fault and the CPU not at all.
RefillFailed ==
    /\ RefillDefaults
    /\ ~flushReq /\ ~amoAbort /\ refill.done /\ refill.error
    /\ cpuReady' = FALSE /\ ptwReady' = isPtw /\ ptwFault' = isPtw
    /\ isPtw' = FALSE
    /\ state' = AfterAnswer
    /\ NoTagSetup
    /\ UNCHANGED <<bypass, wbReq, flushSet, flushWay, flushError, flushResume>>

RefillInstall ==
    /\ RefillDefaults
    /\ ~flushReq /\ ~amoAbort /\ refill.done /\ ~refill.error
    /\ bypass' = refill.data[miss.word]
    /\ cpuReady' = ~isPtw /\ ptwReady' = isPtw /\ ptwFault' = FALSE
    /\ isPtw' = FALSE
    /\ tagWr' = TagWrite(miss.set, {miss.way},
                         [v |-> TRUE, d |-> miss.write, tag |-> miss.tag])
    /\ state' = AfterAnswer
    /\ UNCHANGED <<wbReq, flushSet, flushWay, flushError, flushResume>>

-----------------------------------------------------------------------------
(***************************************************************************)
(* Flush: scan set by set and way by way, write each dirty line back, then *)
(* zero the tags.  A write-back error drops the line and goes on scanning. *)
(***************************************************************************)
FlushScan ==
    /\ state = "FLUSH_SCAN"
    /\ state' = "FLUSH_CHECK"
    /\ NoTagSetup /\ NoAnswer /\ NoFlushDone /\ MmioAccept
    /\ UNCHANGED <<dataVars, reqVars, bypass, wbReq, flushVars>>

FlushCheckDefaults ==
    /\ state = "FLUSH_CHECK"
    /\ NoTagSetup /\ NoAnswer /\ NoFlushDone /\ MmioAccept
    /\ UNCHANGED <<dataVars, isPtw, ptwAddr, bypass, wbReq, flushError, flushResume>>

FlushEntryDirty == tagOut[flushWay].v /\ tagOut[flushWay].d

FlushFindDirty ==
    /\ FlushCheckDefaults
    /\ FlushEntryDirty
    /\ miss' = [miss EXCEPT !.set = flushSet, !.way = flushWay,
                            !.victimTag = tagOut[flushWay].tag]
    /\ state' = "FLUSH_WB_RD"
    /\ UNCHANGED <<flushSet, flushWay, clearSet>>

FlushNextWay ==
    /\ FlushCheckDefaults
    /\ ~FlushEntryDirty
    /\ flushWay < NumWays - 1
    /\ flushWay' = flushWay + 1
    /\ UNCHANGED <<state, miss, flushSet, clearSet>>

FlushNextSet ==
    /\ FlushCheckDefaults
    /\ ~FlushEntryDirty
    /\ flushWay = NumWays - 1 /\ flushSet < NumSets - 1
    /\ flushSet' = flushSet + 1
    /\ flushWay' = 0
    /\ state' = "FLUSH_SCAN"
    /\ UNCHANGED <<miss, clearSet>>

FlushScanned ==
    /\ FlushCheckDefaults
    /\ ~FlushEntryDirty
    /\ flushWay = NumWays - 1 /\ flushSet = NumSets - 1
    /\ clearSet' = 0
    /\ state' = "FLUSH_INVALIDATE"
    /\ UNCHANGED <<miss, flushSet, flushWay>>

FlushWbRead ==
    /\ state = "FLUSH_WB_RD"
    /\ lineOut' = dataRam[flushSet][flushWay]
    /\ state' = "FLUSH_WB_SD"
    /\ NoTagSetup /\ NoAnswer /\ NoFlushDone /\ MmioAccept
    /\ UNCHANGED <<dataRam, hitWord, reqVars, bypass, wbReq, flushVars>>

\* Slip: the scan ends with the set of the last line written back.
AdvancePastOneSet ==
    IF miss.way = NumWays - 1
    THEN flushResume' = TRUE /\ clearSet' = 0 /\ UNCHANGED <<flushSet, flushWay>>
    ELSE /\ flushSet' = miss.set /\ flushWay' = miss.way + 1 /\ flushResume' = FALSE
         /\ UNCHANGED clearSet

\* Slip: the last way is not recognised.
AdvancePastLastWay ==
    /\ flushSet' = miss.set /\ flushWay' = miss.way + 1 /\ flushResume' = FALSE
    /\ UNCHANGED clearSet

\* Slip: the clearing does not start over at set 0.
AdvancePastNoRestart ==
    IF miss.way = NumWays - 1
    THEN IF miss.set = NumSets - 1
         THEN flushResume' = TRUE /\ UNCHANGED <<flushSet, flushWay, clearSet>>
         ELSE /\ flushSet' = miss.set + 1 /\ flushWay' = 0 /\ flushResume' = FALSE
              /\ UNCHANGED clearSet
    ELSE /\ flushSet' = miss.set /\ flushWay' = miss.way + 1 /\ flushResume' = FALSE
         /\ UNCHANGED clearSet

\* Step the scan past the line in miss: next way, next set, or nothing left.
AdvancePast ==
    IF miss.way = NumWays - 1
    THEN IF miss.set = NumSets - 1
         THEN /\ flushResume' = TRUE
              /\ clearSet' = 0
              /\ UNCHANGED <<flushSet, flushWay>>
         ELSE /\ flushSet' = miss.set + 1
              /\ flushWay' = 0
              /\ flushResume' = FALSE
              /\ UNCHANGED clearSet
    ELSE /\ flushSet' = miss.set
         /\ flushWay' = miss.way + 1
         /\ flushResume' = FALSE
         /\ UNCHANGED clearSet

FlushWbDefaults ==
    /\ state = "FLUSH_WB_SD"
    /\ NoAnswer /\ NoFlushDone /\ MmioAccept
    /\ UNCHANGED <<dataVars, reqVars, bypass>>

FlushWbWait ==
    /\ FlushWbDefaults
    /\ ~wbAck.done
    /\ wbReq' = TRUE
    /\ NoTagSetup
    /\ UNCHANGED <<state, flushVars>>

FlushWbDone ==
    /\ FlushWbDefaults
    /\ wbAck.done /\ ~wbAck.error
    /\ wbReq' = FALSE
    /\ tagWr' = TagWrite(miss.set, {miss.way}, Clean(miss.victimTag))
    /\ AdvancePast
    /\ state' = "FLUSH_WB_WAIT"
    /\ UNCHANGED flushError

FlushWbFailed ==
    /\ FlushWbDefaults
    /\ wbAck.done /\ wbAck.error
    /\ wbReq' = FALSE
    /\ flushError' = TRUE
    /\ state' = "INV_LINE"
    /\ NoTagSetup
    /\ UNCHANGED <<flushSet, flushWay, clearSet, flushResume>>

FlushWbResume ==
    /\ state = "FLUSH_WB_WAIT"
    /\ state' = IF flushResume THEN "FLUSH_INVALIDATE" ELSE "FLUSH_SCAN"
    /\ NoTagSetup /\ NoAnswer /\ NoFlushDone /\ MmioAccept
    /\ UNCHANGED <<dataVars, reqVars, bypass, wbReq, flushVars>>

FlushInvalidate ==
    /\ state = "FLUSH_INVALIDATE"
    /\ tagWr' = TagWrite(clearSet, Ways, ZeroEntry)
    /\ IF clearSet = NumSets - 1
       THEN flushDone' = TRUE /\ state' = "DONE" /\ UNCHANGED clearSet
       ELSE flushDone' = FALSE /\ clearSet' = clearSet + 1 /\ UNCHANGED state
    /\ NoAnswer /\ MmioAccept
    /\ UNCHANGED <<dataVars, reqVars, bypass, wbReq,
                   flushSet, flushWay, flushError, flushResume>>

-----------------------------------------------------------------------------
(***************************************************************************)
(* Dropping one line.  core_top leaves inv_line_req unconnected, so these  *)
(* states are only entered by a failed write-back of a flush.              *)
(***************************************************************************)
InvLine ==
    /\ state = "INV_LINE"
    /\ state' = "INV_LINE_WRITE"
    /\ NoTagSetup /\ NoAnswer /\ NoFlushDone /\ MmioAccept
    /\ UNCHANGED <<dataVars, reqVars, bypass, wbReq, flushVars>>

InvLineWrite ==
    /\ state = "INV_LINE_WRITE"
    /\ LET found == {w \in Ways : Matches(w, miss.victimTag)}
       IN  tagWr' = IF found = {} THEN NoTagWrite
                    ELSE TagWrite(miss.set, {Lowest(found)},
                                  Dropped(tagOut[Lowest(found)]))
    /\ flushError'  = FALSE
    /\ AdvancePast
    /\ state' = "FLUSH_WB_WAIT"
    /\ NoAnswer /\ NoFlushDone /\ MmioAccept
    /\ UNCHANGED <<dataVars, reqVars, bypass, wbReq>>

-----------------------------------------------------------------------------
RstClear ==
    /\ state = "RST_CLEAR"
    /\ tagWr' = TagWrite(clearSet, Ways, ZeroEntry)
    /\ IF clearSet = NumSets - 1
       THEN state' = "IDLE" /\ UNCHANGED clearSet
       ELSE clearSet' = clearSet + 1 /\ UNCHANGED state
    /\ NoAnswer /\ NoFlushDone /\ MmioAccept
    /\ UNCHANGED <<dataVars, reqVars, bypass, wbReq,
                   flushSet, flushWay, flushError, flushResume>>

Done ==
    /\ state = "DONE"
    /\ state' = "IDLE"
    /\ NoTagSetup /\ NoAnswer /\ NoFlushDone /\ MmioAccept
    /\ UNCHANGED <<dataVars, reqVars, bypass, wbReq, flushVars>>

-----------------------------------------------------------------------------
(***************************************************************************)
(* One clock edge of the controller.                                       *)
(***************************************************************************)
Control ==
    \/ IdleFlush \/ IdlePtw \/ IdleCpu \/ IdleWait
    \/ TagStoreHit \/ TagLoadHit \/ TagMiss \/ ReadHit
    \/ WbRead \/ WbSendWait \/ WbSendGiveUp \/ WbSendDone
    \/ RefillFlushed \/ RefillAborted \/ RefillWait \/ RefillFailed \/ RefillInstall
    \/ FlushScan \/ FlushFindDirty \/ FlushNextWay \/ FlushNextSet \/ FlushScanned
    \/ FlushWbRead \/ FlushWbWait \/ FlushWbDone \/ FlushWbFailed \/ FlushWbResume
    \/ FlushInvalidate \/ InvLine \/ InvLineWrite
    \/ RstClear \/ Done

CacheStep == TagBram /\ Control
=============================================================================
