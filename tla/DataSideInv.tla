---------------------------- MODULE DataSideInv ----------------------------
(***************************************************************************)
(* The inductive invariant behind the safety properties of the data        *)
(* cache's tags (NoTagCollision, UniqueLine, DirtyIsValid,                 *)
(* FlushDropsNothing, FlushedEmpty, LookupIsTranslated).  None of those is *)
(* inductive: each depends on what the controller has read so far, on the  *)
(* tag write that is under way and on how far a scan has come.  All of it  *)
(* is about the tags as they will be when the pending write has landed     *)
(* (EffTags) and holds whether or not the bus makes errors.                *)
(*                                                                         *)
(* The second half, MemoryInv, is what IsWordMemory, CleanIsCopy and       *)
(* DeviceOnce rest on: with a bus that makes no errors, whose request is   *)
(* being served, where its line and the victim's are, and what the bus is  *)
(* doing about them.                                                       *)
(***************************************************************************)
EXTENDS DataSide

\* Until the last clear of the reset scan has landed nobody asks anything.
QuietUntilBooted == ~Booted => ~cpu.valid /\ ~ptw.valid /\ ~flushReq

\* Only these states find a tag write pending, and IDLE only that of the
\* reset scan: no state that reads the tags, or is about to, is among them.
PendingStates == {"RST_CLEAR", "IDLE", "DONE", "REFILL", "FLUSH_WB_WAIT",
                  "FLUSH_INVALIDATE"}
PendingWrites == /\ tagWr.ways # {} => state \in PendingStates
                 /\ state = "IDLE" => tagWr.ways \in {{}, Ways}

\* The MMU holds a translation only when no walk is under way.
OneMmu == ~(mmuReady /\ ptw.valid)

\* Port A shows the tags of the set the state works on.
Shown == /\ state = "TAG_READ" => tagOut = EffTags[ActiveAddr.set]
         /\ state = "FLUSH_CHECK" => tagOut = EffTags[flushSet]
         /\ state = "INV_LINE_WRITE" => tagOut = EffTags[miss.set]

\* A miss is a miss until its line is installed ...
MissHolds ==
    state \in {"WB_READ", "WB_SEND", "REFILL"} =>
        \A w \in Ways : ~(EffTags[miss.set][w].v /\ EffTags[miss.set][w].tag = miss.tag)

\* ... and the line that is being written back stays where it was found.
VictimHolds ==
    state \in {"WB_READ", "WB_SEND", "FLUSH_WB_RD", "FLUSH_WB_SD",
               "INV_LINE", "INV_LINE_WRITE"} =>
        EffTags[miss.set][miss.way] = [v |-> TRUE, d |-> TRUE, tag |-> miss.victimTag]

\* A flush works on the line under its scan position, and every line before
\* that position is clean.
DrainsHere ==
    state \in {"FLUSH_WB_RD", "FLUSH_WB_SD", "INV_LINE", "INV_LINE_WRITE"} =>
        miss.set = flushSet /\ miss.way = flushWay

CleanBefore(s, w) ==
    \A t \in Sets : \A u \in Ways :
        (t < s \/ (t = s /\ u < w)) => ~EffTags[t][u].d

ScanClean ==
    /\ state \in {"FLUSH_SCAN", "FLUSH_CHECK", "FLUSH_WB_RD", "FLUSH_WB_SD",
                  "INV_LINE", "INV_LINE_WRITE"} => CleanBefore(flushSet, flushWay)
    /\ state = "FLUSH_WB_WAIT" /\ ~flushResume => CleanBefore(flushSet, flushWay)
    /\ state = "FLUSH_WB_WAIT" /\ flushResume =>
           clearSet = 0 /\ \A t \in Sets : \A u \in Ways : ~EffTags[t][u].d

\* A clearing scan has emptied the sets it has passed.
ClearedBefore ==
    state \in {"RST_CLEAR", "FLUSH_INVALIDATE"} =>
        \A t \in Sets : \A u \in Ways :
            t < clearSet => ~EffTags[t][u].v /\ ~EffTags[t][u].d

\* The whole of it, inductive relative to TypeOK.
IInv ==
    /\ QuietUntilBooted /\ PendingWrites /\ OneMmu
    /\ Shown /\ MissHolds /\ VictimHolds
    /\ DrainsHere /\ ScanClean /\ ClearedBefore
    /\ UniqueLine /\ DirtyIsValid /\ FlushDropsNothing /\ FlushedEmpty
    /\ LookupIsTranslated

\* What the runs check of it.
CacheInv == TypeOK /\ IInv

-----------------------------------------------------------------------------
Serving     == state \in {"TAG_READ", "READ_HIT", "WB_READ", "WB_SEND", "REFILL"}
Missing     == state \in {"WB_READ", "WB_SEND", "REFILL"}
WritingBack == state \in {"WB_SEND", "FLUSH_WB_SD"}
Flushing    == state \in {"FLUSH_SCAN", "FLUSH_CHECK", "FLUSH_WB_RD", "FLUSH_WB_SD",
                          "FLUSH_WB_WAIT", "FLUSH_INVALIDATE"}

\* No error is reported, none is latched, and no line is ever dropped.
NoErrors == /\ ~refill.error /\ ~wbAck.error /\ ~mmioAck.error
            /\ ~fault /\ ~flushError
            /\ state \notin {"INV_LINE", "INV_LINE_WRITE"}

\* A flush runs with the core quiet, and its request stays up until its end.
FlushAlone == /\ flushReq => ~cpu.valid /\ ~ptw.valid
              /\ Flushing => flushReq
              /\ flushDone => state = "DONE"

\* The request that is served is held up, translated and not answered, so the
\* only abort, that of a page fault, finds nobody served.
Served == /\ Serving => IF isPtw THEN ptw.valid /\ ~ptw.mmio /\ ptw.addr = ptwAddr
                                 ELSE cpu.valid /\ ~cpu.mmio /\ mmuReady
          /\ cpuReady \/ ptwReady => state \in {"IDLE", "DONE"}
          /\ amoAbort => state = "IDLE"

\* The latched miss is that of the request.
MissIsRequest ==
    Missing => /\ ActiveAddr = [tag |-> miss.tag, set |-> miss.set, word |-> miss.word]
               /\ miss.write = (~isPtw /\ cpu.write)
               /\ miss.write => miss.data = cpu.data

\* The bus writes back the line that the controller shows it, and once it has
\* reported the end main memory has that line.
WriteBackInv ==
    /\ wbReq => WritingBack
    /\ bus.op = "wb" => /\ wbReq /\ ~wbAck.done
                        /\ bus.addr = WbAddr /\ bus.line = lineOut
    /\ wbAck.done => /\ wbReq /\ waitDrop /\ bus.op = "idle"
                     /\ memory[WbAddr] = lineOut

\* A refill is for the miss, and ends with what main memory has.
RefillInv ==
    /\ bus.op = "refill" => state = "REFILL" /\ bus.addr = RefillAddr /\ ~refill.done
    /\ refill.done => /\ state = "REFILL" /\ bus.op = "idle"
                      /\ refill.data = memory[RefillAddr]

\* A device access is asked for, taken by the bus, under way, or ended; its
\* request is held up from the first to the last, and is counted once.
DevicePhase(pending, inflight, accepted, ended, onBus) ==
    /\ mmioPending = pending /\ mmioInflight = inflight
    /\ mmioAck.accept = accepted /\ mmioAck.valid = ended
    /\ (bus.op = "mmio") = onBus

NoDevice == DevicePhase(FALSE, FALSE, FALSE, FALSE, FALSE)

DeviceInv ==
    /\ \/ NoDevice
       \/ DevicePhase(TRUE,  FALSE, FALSE, FALSE, FALSE)
       \/ DevicePhase(TRUE,  FALSE, TRUE,  FALSE, TRUE)
       \/ DevicePhase(FALSE, TRUE,  FALSE, FALSE, TRUE)
       \/ DevicePhase(FALSE, TRUE,  FALSE, TRUE,  FALSE)
    /\ ~NoDevice => /\ state = "IDLE" /\ cpu.valid /\ cpu.mmio /\ mmuReady /\ ~cpuReady
                    /\ mmioOp = [addr |-> cpu.addr, write |-> cpu.write, data |-> cpu.data]
    /\ devOps = IF bus.op = "mmio" \/ mmioAck.valid \/ (cpu.valid /\ cpuReady /\ cpu.mmio)
                THEN 1 ELSE 0

\* What the data RAM has given out, to a write-back or to a read, is still what
\* it holds ...
OutputsHold == /\ WritingBack => lineOut = dataRam[miss.set][miss.way]
               /\ state = "READ_HIT" => /\ hitWord = Seen[ActiveAddr]
                                        /\ isPtw \/ ~cpu.write

\* ... and the way that a refill goes to holds nothing main memory lacks.
RoomMade == state = "REFILL" => ~EffTags[miss.set][miss.way].d

\* The whole of it, inductive relative to TypeOK and IInv without bus errors.
MemoryInv ==
    /\ NoErrors /\ FlushAlone /\ Served /\ MissIsRequest
    /\ WriteBackInv /\ RefillInv /\ DeviceInv
    /\ OutputsHold /\ RoomMade /\ CleanIsCopy
=============================================================================
