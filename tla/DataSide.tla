------------------------------ MODULE DataSide ------------------------------
(***************************************************************************)
(* The data cache with everything its ports are wired to, each neighbour   *)
(* reduced to the contract the cache relies on:                            *)
(*                                                                         *)
(*   - the load/store unit (cpu_mem.sv) holds a request steady until it is *)
(*     answered, lowers it for a cycle between requests (an atomic goes on *)
(*     from its read to its write), and withdraws it only when the access  *)
(*     traps;                                                              *)
(*   - the MMU (MMU.sv) raises mmu_ready after the walk and holds it until *)
(*     the cycle after the request is lowered;                             *)
(*   - the walker (ptw.sv) holds its request until it is answered;         *)
(*   - fence.i and sfence.vma (core_top.sv) hold flush_req, with no data   *)
(*     access under way, until flush_done;                                 *)
(*   - the bus bridge (cpu_bus_bridge.sv) does one transaction at a time   *)
(*     and reports its end with a one-cycle pulse.                         *)
(*                                                                         *)
(* BusFaults says whether the bus may answer with an error or so late that *)
(* the walker gives up waiting.                                            *)
(***************************************************************************)
EXTENDS DCache

CONSTANT BusFaults
ASSUME BusFaultsAssumption == BusFaults \in BOOLEAN

VARIABLES
    memory,       \* main memory behind the bus
    bus,          \* the transaction the bridge is doing
    waitDrop,     \* dcache_wb_wait_drop_r
    fault,        \* load/store_access_fault_r of the trap manager
    devOps        \* device accesses done for the current CPU request

sideVars == <<memory, bus, waitDrop, fault, devOps>>
vars == <<cacheVars, inputVars, sideVars>>

BusIdle == [op |-> "idle", addr |-> <<ZeroTag, 0>>, line |-> ZeroLine]
Bus == [op : {"idle", "refill", "wb", "mmio"}, addr : LineAddr, line : Line]

NoWalk   == [valid |-> FALSE, mmio |-> FALSE, addr |-> ZeroAddr]
NoRefill == [done |-> FALSE, error |-> FALSE, data |-> ZeroLine]
NoWbAck  == [done |-> FALSE, error |-> FALSE]
NoMmioAck == [accept |-> FALSE, valid |-> FALSE, error |-> FALSE, data |-> ZeroValue]

CpuRequest == [valid : BOOLEAN, mmio : BOOLEAN, write : BOOLEAN,
               addr : Addr, data : Values]
PtwRequest == [valid : BOOLEAN, mmio : BOOLEAN, addr : Addr]

SideInit ==
    /\ cpu = [valid |-> FALSE, mmio |-> FALSE, write |-> FALSE,
              addr |-> ZeroAddr, data |-> ZeroValue]
    /\ mmuReady = FALSE
    /\ ptw = NoWalk
    /\ flushReq = FALSE /\ amoAbort = FALSE
    /\ refill = NoRefill /\ wbAck = NoWbAck /\ mmioAck = NoMmioAck
    /\ memory = [a \in LineAddr |-> ZeroLine]
    /\ bus = BusIdle /\ waitDrop = FALSE
    /\ fault = FALSE /\ devOps = 0

-----------------------------------------------------------------------------
(***************************************************************************)
(* The core side.                                                          *)
(***************************************************************************)

\* The first fetch goes through the instruction cache, whose own reset scan
\* is as long; no data request can come while the last clear is landing.
Booted == ~(state = "RST_CLEAR" \/ (state = "IDLE" /\ tagWr.ways = Ways))

BusError == \/ refill.done /\ refill.error
            \/ wbAck.done /\ wbAck.error
            \/ mmioAck.valid /\ mmioAck.error

CpuIssue ==
    /\ ~cpu.valid /\ Booted /\ ~flushReq /\ ~ptw.valid
    /\ cpu' \in [valid : {TRUE}, mmio : BOOLEAN, write : BOOLEAN,
                 addr : Addr, data : Values]
    /\ cpu'.mmio => cpu'.addr = ZeroAddr
    /\ ~cpu'.write => cpu'.data = ZeroValue
    /\ fault' = (fault \/ BusError)
    /\ amoAbort' = FALSE

\* Answered: the request is lowered, or an atomic turns its read into a write.
CpuAnswered ==
    /\ cpu.valid /\ cpuReady
    /\ \/ cpu' = [cpu EXCEPT !.valid = FALSE]
       \/ ~cpu.write /\ \E x \in Values : cpu' = [cpu EXCEPT !.write = TRUE, !.data = x]
    /\ fault' = (fault \/ BusError)
    /\ amoAbort' = FALSE

\* A trap withdraws the request: a latched bus fault, or a page fault of a
\* walk that is over.  The trap clears the latched fault.
CpuTrapped ==
    /\ cpu.valid /\ ~cpuReady
    /\ fault \/ (~mmuReady /\ ~ptw.valid)
    /\ cpu' = [cpu EXCEPT !.valid = FALSE]
    /\ amoAbort' \in {FALSE, cpu.write}
    /\ fault' = FALSE

CpuHold ==
    /\ ~(cpu.valid /\ cpuReady)
    /\ fault' \in {fault \/ BusError, cpu.valid /\ (fault \/ BusError)}
    /\ amoAbort' = FALSE
    /\ UNCHANGED cpu

Cpu == CpuIssue \/ CpuAnswered \/ CpuTrapped \/ CpuHold

\* mmu_ready follows the walk, and outlives the request by one cycle.
MmuDone ==
    /\ cpu.valid /\ ~ptw.valid /\ ~mmuReady
    /\ mmuReady' = TRUE
    /\ UNCHANGED ptw

Mmu ==
    \/ MmuDone
    \/ mmuReady' = (cpu.valid /\ mmuReady) /\ UNCHANGED ptw
    \/ /\ ~ptw.valid /\ ~mmuReady /\ ~flushReq /\ Booted
       /\ ptw' \in [valid : {TRUE}, mmio : BOOLEAN, addr : Addr]
       /\ ptw'.mmio => ptw'.addr = ZeroAddr
       /\ UNCHANGED mmuReady

PtwAnswered == ptw.valid /\ ptwReady
PtwTimeout  == BusFaults /\ ptw.valid /\ ~ptwReady

Walk ==
    IF PtwAnswered
    THEN ptw' = NoWalk /\ UNCHANGED mmuReady
    ELSE \/ Mmu
         \/ PtwTimeout /\ ptw' = NoWalk /\ UNCHANGED mmuReady

\* fence.i and sfence.vma: requested with the core quiet, held until done.
Fence ==
    IF flushReq
    THEN flushReq' = ~flushDone
    ELSE flushReq' \in {FALSE, Booted /\ ~cpu.valid /\ ~cpu'.valid
                               /\ ~ptw.valid /\ ~ptw'.valid}

-----------------------------------------------------------------------------
(***************************************************************************)
(* The bus side: one transaction at a time, its end a one-cycle pulse.     *)
(***************************************************************************)
Errors == IF BusFaults THEN BOOLEAN ELSE {FALSE}

BusQuiet == refill' = NoRefill /\ wbAck' = NoWbAck
MmioQuiet == mmioAck' = NoMmioAck

\* Slip: the bridge never sees the write-back request dropped.
DropMissed == UNCHANGED waitDrop

DropSeen == waitDrop' = (waitDrop /\ wbReq)

BusWait ==
    /\ BusQuiet /\ MmioQuiet /\ DropSeen
    /\ UNCHANGED <<memory, bus>>

StartMmio ==
    /\ bus.op = "idle" /\ mmioPending /\ ~mmioAck.valid
    /\ bus' = [BusIdle EXCEPT !.op = "mmio"]
    /\ mmioAck' = [NoMmioAck EXCEPT !.accept = TRUE]
    /\ BusQuiet /\ DropSeen
    /\ UNCHANGED memory

StartWb ==
    /\ bus.op = "idle" /\ wbReq /\ ~waitDrop
    /\ bus' = [op |-> "wb", addr |-> WbAddr, line |-> lineOut]
    /\ BusQuiet /\ MmioQuiet /\ DropSeen
    /\ UNCHANGED memory

StartRefill ==
    /\ bus.op = "idle" /\ RefillReq /\ ~(refill.done /\ ~refill.error)
    /\ bus' = [op |-> "refill", addr |-> RefillAddr, line |-> ZeroLine]
    /\ BusQuiet /\ MmioQuiet /\ DropSeen
    /\ UNCHANGED memory

EndMmio ==
    /\ bus.op = "mmio"
    /\ bus' = BusIdle
    /\ \E x \in Values, e \in Errors :
         mmioAck' = [accept |-> FALSE, valid |-> TRUE, error |-> e, data |-> x]
    /\ BusQuiet /\ DropSeen
    /\ UNCHANGED memory

EndWb ==
    /\ bus.op = "wb"
    /\ bus' = BusIdle
    /\ \E e \in Errors :
         /\ wbAck' = [done |-> TRUE, error |-> e]
         /\ \/ memory' = [memory EXCEPT ![bus.addr] = bus.line]
            \/ e /\ UNCHANGED memory
    /\ waitDrop' = TRUE
    /\ refill' = NoRefill /\ MmioQuiet

EndRefill ==
    /\ bus.op = "refill"
    /\ bus' = BusIdle
    /\ \E e \in Errors :
         refill' = [done |-> TRUE, error |-> e,
                    data |-> IF e THEN ZeroLine ELSE memory[bus.addr]]
    /\ wbAck' = NoWbAck /\ MmioQuiet /\ DropSeen
    /\ UNCHANGED memory

BusStart == StartMmio \/ StartWb \/ StartRefill
BusEnd   == EndMmio \/ EndWb \/ EndRefill
BusStep  == BusWait \/ BusStart \/ BusEnd

\* Device accesses are counted for the request they are made for, up to 2.
CountDevice ==
    devOps' = IF StartMmio THEN IF devOps = 0 THEN 1 ELSE 2
              ELSE IF cpu.valid /\ ~cpuReady THEN devOps
              ELSE 0

Init == CacheInit /\ SideInit
Next == CacheStep /\ Cpu /\ Walk /\ Fence /\ BusStep /\ CountDevice

-----------------------------------------------------------------------------
(***************************************************************************)
(* Fairness.  The clock runs; the bus takes a waiting request in the end   *)
(* and ends what it started (the bridge has anti-starvation counters and a *)
(* timeout); the MMU ends a walk whose requests are answered.              *)
(***************************************************************************)
ClockRuns == WF_cacheVars(CacheStep)
BusServes == WF_bus(BusStart) /\ WF_bus(BusEnd)
MmuEnds   == SF_mmuReady(MmuDone)

Spec == Init /\ [][Next]_vars
FairSpec == Spec /\ ClockRuns /\ BusServes /\ MmuEnds

-----------------------------------------------------------------------------
MissRecord == [set : Sets, way : Ways, tag : Tags, victimTag : Tags,
               word : Words, write : BOOLEAN, data : Values]

CacheType ==
    /\ state \in States
    /\ tagRam \in [Sets -> [Ways -> Entry]]
    /\ tagOut \in [Ways -> Entry]
    /\ tagWr \in [set : Sets, ways : SUBSET Ways, entry : Entry]
    /\ dataRam \in [Sets -> [Ways -> Line]]
    /\ hitWord \in Values /\ lineOut \in Line
    /\ isPtw \in BOOLEAN /\ ptwAddr \in Addr /\ miss \in MissRecord
    /\ bypass \in Values
    /\ cpuReady \in BOOLEAN /\ ptwReady \in BOOLEAN /\ ptwFault \in BOOLEAN
    /\ wbReq \in BOOLEAN
    /\ flushSet \in Sets /\ flushWay \in Ways /\ clearSet \in Sets
    /\ flushDone \in BOOLEAN /\ flushError \in BOOLEAN /\ flushResume \in BOOLEAN
    /\ mmioPending \in BOOLEAN /\ mmioInflight \in BOOLEAN
    /\ mmioOp \in [addr : Addr, write : BOOLEAN, data : Values]

SideType ==
    /\ cpu \in CpuRequest /\ mmuReady \in BOOLEAN /\ ptw \in PtwRequest
    /\ flushReq \in BOOLEAN /\ amoAbort \in BOOLEAN
    /\ refill \in [done : BOOLEAN, error : BOOLEAN, data : Line]
    /\ wbAck \in [done : BOOLEAN, error : BOOLEAN]
    /\ mmioAck \in [accept : BOOLEAN, valid : BOOLEAN, error : BOOLEAN, data : Values]
    /\ memory \in [LineAddr -> Line]
    /\ bus \in Bus /\ waitDrop \in BOOLEAN
    /\ fault \in BOOLEAN /\ devOps \in 0 .. 2

TypeOK == CacheType /\ SideType

(***************************************************************************)
(* What the core sees: the word of an address is the word of the way that  *)
(* holds its line, and of main memory when no way does.  Before the reset  *)
(* scan is over the tags mean nothing.                                     *)
(***************************************************************************)
HoldingWays(t, s) == IF state = "RST_CLEAR" THEN {}
                     ELSE {w \in Ways : EffTags[s][w].v /\ EffTags[s][w].tag = t}

Seen == [a \in Addr |->
           LET ws == HoldingWays(a.tag, a.set)
           IN  IF ws # {} THEN dataRam[a.set][Lowest(ws)][a.word]
                          ELSE memory[<<a.tag, a.set>>][a.word]]

\* With a bus that makes no errors the cache is a memory of words: every load
\* and every page-table read gets the word last stored at its address, and a
\* store takes effect once, at the answer, whatever is evicted or flushed.
Promise == INSTANCE WordMemory WITH
    Address <- Addr, Word <- Values, mem <- Seen, req <- cpu, walk <- ptw,
    reqReady <- cpuReady, walkReady <- ptwReady, walkFault <- ptwFault,
    data <- bypass
IsWordMemory == Promise!Spec

\* The two ports of the tag RAM never meet: no set is read by port A in the
\* cycle port B writes it (the comments at S_TAG_READ and S_FLUSH_WB_SD).
NoTagCollision ==
    TagReadEnabled /\ tagWr.ways # {} => TagReadSet # tagWr.set

\* A line is held by at most one way, so the order in which the ways are
\* compared never decides which copy is read, written back or dropped.
UniqueLine ==
    state # "RST_CLEAR" =>
        \A s \in Sets : \A u, w \in Ways :
            /\ EffTags[s][u].v /\ EffTags[s][w].v
            /\ EffTags[s][u].tag = EffTags[s][w].tag
            => u = w

\* victim_dirty looks at the D bit without the V bit: that is right only if
\* no invalid entry ever carries a D bit.
DirtyIsValid ==
    state # "RST_CLEAR" =>
        \A s \in Sets : \A w \in Ways : EffTags[s][w].d => EffTags[s][w].v

\* The flush zeroes the tags only when no line is dirty any more, also after
\* a failed write-back made it drop a line and resume.
FlushDropsNothing ==
    state = "FLUSH_INVALIDATE" =>
        \A s \in Sets : \A w \in Ways : ~EffTags[s][w].d

\* When the flush reports done the cache is empty.
FlushedEmpty ==
    flushDone => \A s \in Sets : \A w \in Ways : ~EffTags[s][w].v

\* What a store left in a line stays there, under its tag and marked dirty and
\* changed by further stores only, until a write-back of the line is reported
\* good: a write-back that fails, or that a trap gives up, keeps its victim,
\* and no refill, late answer or second miss takes the way.  Only a flush gives
\* up a line, the one under its scan, when the bus refuses it.
StillDirty(s, w) ==
    /\ EffTags'[s][w] = EffTags[s][w]
    /\ dataRam'[s][w] = dataRam[s][w] \/ cpuReady'
ReportedGood(s, w) ==
    /\ wbAck.done /\ ~wbAck.error
    /\ EffTags'[s][w] = Clean(EffTags[s][w].tag) /\ dataRam'[s][w] = dataRam[s][w]
GivenUp(s, w) == state = "INV_LINE_WRITE" /\ s = flushSet /\ w = flushWay

DirtyStep ==
    \A s \in Sets : \A w \in Ways :
        state # "RST_CLEAR" /\ EffTags[s][w].d =>
            StillDirty(s, w) \/ ReportedGood(s, w) \/ GivenUp(s, w)
DirtyKept == [][DirtyStep]_vars

\* A clean line is a copy of main memory.
CleanIsCopy ==
    \A s \in Sets : \A w \in Ways :
        /\ state # "RST_CLEAR"
        /\ EffTags[s][w].v /\ ~EffTags[s][w].d
        => dataRam[s][w] = memory[<<EffTags[s][w].tag, s>>]

\* A lookup on the CPU's behalf finds the address translated: the data RAM is
\* enabled by mmu_ready, the answer is not, and an answer without the enable
\* would lose the store or return the previous read (comment in MMU.sv T_DONE).
LookupIsTranslated == state = "TAG_READ" /\ ~isPtw => mmuReady /\ ~cpu.mmio

\* Every request of the core is answered, or withdrawn by its page fault.
CoreAnswered == cpu.valid ~> (cpuReady \/ ~cpu.valid)

\* Every page-table read is answered.
WalkAnswered == ptw.valid ~> ptwReady

\* fence.i and sfence.vma do not wait for ever: a flush reports done.
FlushEnds == flushReq ~> flushDone

\* A device access is made exactly once for each request that asks for it,
\* and it is the access the core asked for.
DeviceOnce ==
    /\ devOps < 2
    /\ cpu.valid /\ cpuReady => devOps = IF cpu.mmio THEN 1 ELSE 0
    /\ bus.op = "mmio" /\ cpu.valid =>
           mmioOp = [addr |-> cpu.addr, write |-> cpu.write, data |-> cpu.data]
=============================================================================
