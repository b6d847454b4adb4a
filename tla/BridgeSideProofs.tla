-------------------------- MODULE BridgeSideProofs --------------------------
(***************************************************************************)
(* For bursts of any length over two beats, either slave and any of its    *)
(* answers: the bridge keeps the contract the data cache relies on.  With  *)
(* a slave that gives up what the watchdog gives up, it also moves whole   *)
(* lines and leaves nothing behind.                                        *)
(***************************************************************************)
EXTENDS BridgeSide, TLAPS

-----------------------------------------------------------------------------
(***************************************************************************)
(* The contract.                                                           *)
(***************************************************************************)
\* A refill that is reported done and good is reported valid as well: that is
\* what keeps its request from being granted again.
GoodRefillSeen == "dcache_refill_done" \in ack /\ "dcache_refill_error" \notin ack
                      => "dcache_refill_valid" \in ack

ContractInv == state \in States /\ GoodRefillSeen

LEMMA GrantedEligible ==
    ASSUME NEW r, Granted(r)
    PROVE  r \in req /\ Answer[r] \notin ack /\ (r = "dcache_wb" => ~waitDrop)
BY DEF Granted, Eligible

LEMMA ContractIdle ==
    ASSUME ContractInv, Idle
    PROVE  ContractInv' /\ [Contract!Next]_(Contract!busVars)
<1>1. CASE IdleWait
  BY <1>1 DEF IdleWait, IdleDefaults, DropSeen, ContractInv, GoodRefillSeen, DataOp,
              Contract!Next, Contract!Wait, Contract!MmioQuiet, Contract!WbQuiet,
              Contract!RefillQuiet, Contract!DropSeen
<1>2. CASE GrantMmioRead
  <2>1. PICK r \in Mmio : Granted(r) /\ inst' = (r = "icache_mmio")
            /\ ack' = {IF r = "icache_mmio" THEN "icache_mmio_accept" ELSE "dcache_mmio_accept"}
    BY <1>2 DEF GrantMmioRead
  <2>2. r \in req /\ (r = "dcache_mmio" => "data_valid" \notin ack)
    BY <2>1, GrantedEligible DEF Answer
  <2>3. state = "IDLE" /\ state' = "MMIO_AR" /\ DropSeen
    BY <1>2 DEF GrantMmioRead, IdleDefaults
  <2>4. CASE r = "icache_mmio"
    BY <2>1, <2>3, <2>4
       DEF DropSeen, ContractInv, GoodRefillSeen, States, DataOp, Contract!Next, Contract!Wait,
           Contract!MmioQuiet, Contract!WbQuiet, Contract!RefillQuiet, Contract!DropSeen
  <2>5. CASE r = "dcache_mmio"
    BY <2>1, <2>2, <2>3, <2>5
       DEF DropSeen, ContractInv, GoodRefillSeen, States, DataOp, Contract!Next,
           Contract!StartMmio, Contract!WbQuiet, Contract!RefillQuiet, Contract!DropSeen
  <2> QED BY <2>1, <2>4, <2>5 DEF Mmio
<1>3. CASE GrantMmioWrite
  <2>1. "dcache_mmio" \in req /\ "data_valid" \notin ack
    BY <1>3, GrantedEligible DEF GrantMmioWrite, Answer
  <2> QED BY <1>3, <2>1
       DEF GrantMmioWrite, IdleDefaults, DropSeen, ContractInv, GoodRefillSeen, States, DataOp,
           Contract!Next, Contract!StartMmio, Contract!WbQuiet, Contract!RefillQuiet,
           Contract!DropSeen
<1>4. CASE GrantRefill
  <2>1. PICK r \in Refills : Granted(r)
            /\ state' = IF r = "icache_refill" THEN "IREFILL_AR" ELSE "DREFILL_AR"
    BY <1>4 DEF GrantRefill
  <2>2. r \in req /\ (r = "dcache_refill" => "dcache_refill_valid" \notin ack)
    BY <2>1, GrantedEligible DEF Answer
  <2>3. state = "IDLE" /\ ack' = {} /\ DropSeen
    BY <1>4 DEF GrantRefill, IdleDefaults
  <2>4. CASE r = "icache_refill"
    BY <2>1, <2>3, <2>4
       DEF DropSeen, ContractInv, GoodRefillSeen, States, DataOp, Contract!Next, Contract!Wait,
           Contract!MmioQuiet, Contract!WbQuiet, Contract!RefillQuiet, Contract!DropSeen
  <2>5. CASE r = "dcache_refill"
    BY <2>1, <2>2, <2>3, <2>5
       DEF DropSeen, ContractInv, GoodRefillSeen, States, DataOp, Contract!Next,
           Contract!StartRefill, Contract!MmioQuiet, Contract!WbQuiet, Contract!RefillQuiet,
           Contract!DropSeen
  <2> QED BY <2>1, <2>4, <2>5 DEF Refills
<1>5. CASE GrantWb
  <2>1. "dcache_wb" \in req /\ ~waitDrop
    BY <1>5, GrantedEligible DEF GrantWb
  <2> QED BY <1>5, <2>1
       DEF GrantWb, IdleDefaults, DropSeen, ContractInv, GoodRefillSeen, States, DataOp,
           Contract!Next, Contract!StartWb, Contract!MmioQuiet, Contract!WbQuiet,
           Contract!RefillQuiet, Contract!DropSeen
<1> QED BY <1>1, <1>2, <1>3, <1>4, <1>5 DEF Idle

LEMMA ContractReads ==
    ASSUME ContractInv, NEW i, MmioAr(i) \/ MmioR(i) \/ RefillAr(i) \/ RefillR(i)
    PROVE  ContractInv' /\ [Contract!Next]_(Contract!busVars)
<1> USE DEF ReadDefaults, DropSeen, ContractInv, GoodRefillSeen, States, Reads, DataOp,
            Contract!Next, Contract!Wait, Contract!MmioQuiet, Contract!WbQuiet,
            Contract!RefillQuiet, Contract!DropSeen
<1>1. CASE MmioAr(i)
  <2>1. CASE i.timeout /\ ~inst
    BY <1>1, <2>1 DEF MmioAr, MmioFailed, Contract!EndMmio
  <2>2. CASE ~(i.timeout /\ ~inst)
    BY <1>1, <2>2 DEF MmioAr, MmioFailed
  <2> QED BY <2>1, <2>2
<1>2. CASE MmioR(i)
  <2>1. CASE inst
    BY <1>2, <2>1 DEF MmioR, MmioFailed
  <2>2. CASE ~inst /\ (i.timeout \/ i.r.valid)
    BY <1>2, <2>2 DEF MmioR, MmioFailed, Contract!EndMmio
  <2>3. CASE ~inst /\ ~(i.timeout \/ i.r.valid)
    BY <1>2, <2>3 DEF MmioR
  <2> QED BY <2>1, <2>2, <2>3
<1>3. CASE RefillAr(i)
  BY <1>3 DEF RefillAr
<1>4. CASE RefillR(i)
  <2>1. CASE RefillEnds(i) /\ state = "DREFILL_R"
    BY <1>4, <2>1 DEF RefillR, RefillGood, RefillFailed, Contract!EndRefill
  <2>2. CASE ~(RefillEnds(i) /\ state = "DREFILL_R")
    BY <1>4, <2>2 DEF RefillR, RefillGood, RefillFailed
  <2> QED BY <2>1, <2>2
<1> QED BY <1>1, <1>2, <1>3, <1>4

LEMMA ContractWrites ==
    ASSUME ContractInv, NEW i, MmioAwW(i) \/ MmioB(i) \/ WbAw(i) \/ WbW(i) \/ WbB(i)
    PROVE  ContractInv' /\ [Contract!Next]_(Contract!busVars)
<1> USE DEF readVars, DropSeen, ContractInv, GoodRefillSeen, States, Reads, DataOp,
            Contract!Next, Contract!Wait, Contract!MmioQuiet, Contract!WbQuiet,
            Contract!RefillQuiet, Contract!DropSeen
<1>1. CASE MmioAwW(i)
  <2>1. CASE i.timeout
    BY <1>1, <2>1 DEF MmioAwW, Contract!EndMmio
  <2>2. CASE ~i.timeout
    BY <1>1, <2>2 DEF MmioAwW
  <2> QED BY <2>1, <2>2
<1>2. CASE MmioB(i)
  <2>1. CASE i.timeout \/ i.b.valid
    BY <1>2, <2>1 DEF MmioB, Contract!EndMmio
  <2>2. CASE ~(i.timeout \/ i.b.valid)
    BY <1>2, <2>2 DEF MmioB
  <2> QED BY <2>1, <2>2
<1>3. CASE WbAw(i)
  BY <1>3 DEF WbAw
<1>4. CASE WbW(i)
  <2>1. CASE i.timeout
    BY <1>4, <2>1 DEF WbW, WbFailed, Contract!EndWb
  <2>2. CASE ~i.timeout
    BY <1>4, <2>2 DEF WbW
  <2> QED BY <2>1, <2>2
<1>5. CASE WbB(i)
  <2>1. CASE i.timeout \/ i.b.valid
    BY <1>5, <2>1 DEF WbB, WbAnswer, WbFailed, Contract!EndWb
  <2>2. CASE ~(i.timeout \/ i.b.valid)
    BY <1>5, <2>2 DEF WbB
  <2> QED BY <2>1, <2>2
<1> QED BY <1>1, <1>2, <1>3, <1>4, <1>5

\* The bridge refines DataBus: whatever the instruction cache does, whenever
\* the watchdog fires and whatever the slave answers, even late, the data
\* cache sees the transactions DataSide assumes.
THEOREM BridgeKeepsContract == Spec => KeepsContract
<1>1. Init => ContractInv /\ Contract!Init
  BY DEF Init, BridgeInit, ContractInv, GoodRefillSeen, States, DataOp, Contract!Init
<1>2. ContractInv /\ [Next]_vars => ContractInv' /\ [Contract!Next]_(Contract!busVars)
  <2> SUFFICES ASSUME ContractInv, [Next]_vars
               PROVE  ContractInv' /\ [Contract!Next]_(Contract!busVars)
    OBVIOUS
  <2>1. CASE UNCHANGED vars
    BY <2>1 DEF vars, bridgeVars, readVars, ContractInv, GoodRefillSeen, DataOp, Contract!busVars
  <2>2. ASSUME NEW i \in Wires, BridgeStep(i)
        PROVE  ContractInv' /\ [Contract!Next]_(Contract!busVars)
    BY <2>2, ContractIdle, ContractReads, ContractWrites DEF BridgeStep
  <2> QED BY <2>1, <2>2 DEF Next, Edge
<1> QED BY <1>1, <1>2, PTL DEF Spec, KeepsContract, Contract!Spec

-----------------------------------------------------------------------------
(***************************************************************************)
(* What the slave holds, state by state.                                   *)
(***************************************************************************)
Read(n, l, e) == [len |-> n, left |-> l, error |-> e, own |-> TRUE]
Burst(n) == [own |-> TRUE, beats |-> [k \in 1 .. n |-> k - 1]]

NoReads == reads = <<>> /\ ~arvalid
\* The slave will take the address, or has l of n beats to send.
Reading(n) == \/ arvalid /\ reads = <<>>
              \/ ~arvalid /\ \E l \in 1 .. n, e \in BOOLEAN : reads = <<Read(n, l, e)>>
\* The beats received stand in their places.
Filled == /\ reads = <<>> => beat = 0
          /\ reads # <<>> => beat = IF reads[1].error THEN 0 ELSE NumBeats - reads[1].left
          /\ \A b \in Beats : b < beat => line[b] = b

ReadInv ==
    /\ state \notin Reads => NoReads
    /\ state = "MMIO_R" => Reading(1)
    /\ state \in {"IREFILL_AR", "DREFILL_AR"} => beat = 0
    /\ state \in {"IREFILL_R", "DREFILL_R"} => Reading(NumBeats) /\ Filled

NoWrites == addrs = 0 /\ filling = NoBurst /\ bursts = <<>> /\ ~awvalid /\ ~wvalid
\* Address and first beat are up; only "ram" takes the one before the other.
Offering == /\ filling = NoBurst /\ bursts = <<>> /\ ~wDone
            /\ awvalid <=> wvalid
            /\ wvalid => wdata = 0
            /\ addrs = IF awDone THEN 1 ELSE 0
            /\ awDone => awvalid /\ slave = "ram"
Sending == /\ ~awvalid /\ wvalid /\ addrs = 1 /\ bursts = <<>>
           /\ beat \in 1 .. NumBeats - 1 /\ wdata = beat /\ filling = Burst(beat)
           /\ wlast <=> beat = NumBeats - 1
Sent(n) == ~awvalid /\ ~wvalid /\ addrs = 1 /\ filling = NoBurst /\ bursts = <<Burst(n)>>

WriteInv ==
    /\ state \notin {"MMIO_AW_W", "MMIO_B", "WB_AW", "WB_W", "WB_B"} => NoWrites
    /\ state = "MMIO_AW_W" => Offering /\ (wvalid => wlast)
    /\ state = "WB_AW" => Offering /\ (wvalid => ~wlast)
    /\ state = "WB_W" => Sending
    /\ state = "MMIO_B" => Sent(1)
    /\ state = "WB_B" => Sent(NumBeats)

BridgeInv == /\ BridgeType /\ slave \in Slaves /\ foreign \in BOOLEAN
             /\ ReadInv /\ WriteInv /\ WholeLines

-----------------------------------------------------------------------------
LEMMA Sizes == NumBeats \in Nat /\ NumBeats > 2 /\ MaxOpen \in Nat /\ MaxOpen > 0
BY BeatsAssumption, MaxOpenAssumption

LEMMA WiresTyped ==
    ASSUME NEW i \in Wires
    PROVE  /\ i.timeout \in BOOLEAN /\ (i.timeout => state \in Watched)
           /\ i.arready = arready /\ i.awready = awready /\ i.wready = wready
           /\ i.r \in OfferedBeats /\ i.b \in OfferedResponses
BY DEF Wires

\* An empty slave offers nothing and takes an address.
LEMMA ReadsQuiet ==
    ASSUME ~LateAnswers, NEW i \in Wires, SlaveReads(i), reads = <<>>
    PROVE  /\ ~i.r.valid
           /\ ~arvalid \/ i.timeout => reads' = <<>>
           /\ arvalid /\ ~i.timeout =>
                 \E e \in BOOLEAN : reads' = <<Read(BurstLen, BurstLen, e)>>
<1>1. i.r = NoBeat /\ i.arready
  BY WiresTyped, Sizes DEF OfferedBeats, arready
<1>2. ReadsServed(i) = <<>> /\ ~i.r.valid
  BY <1>1 DEF ReadsServed, NoBeat
<1>3. CASE arvalid /\ ~i.timeout
  <2>1. PICK e \in BOOLEAN :
            reads' = Append(<<>>, [len |-> BurstLen, left |-> BurstLen, error |-> e, own |-> TRUE])
    BY <1>1, <1>2, <1>3 DEF SlaveReads
  <2>2. \A x : Append(<<>>, x) = <<x>>
    OBVIOUS
  <2> QED BY <1>2, <1>3, <2>1, <2>2 DEF Read
<1>4. CASE ~arvalid \/ i.timeout
  BY <1>2, <1>4 DEF SlaveReads
<1> QED BY <1>2, <1>3, <1>4

LEMMA LeftChanged ==
    ASSUME NEW n, NEW l, NEW e, NEW x
    PROVE  [Read(n, l, e) EXCEPT !.left = x] = Read(n, x, e)
<1>1. ASSUME NEW own
      PROVE  [[len |-> n, left |-> l, error |-> e, own |-> own] EXCEPT !.left = x]
                 = [len |-> n, left |-> x, error |-> e, own |-> own]
  OBVIOUS
<1> QED BY <1>1 DEF Read

LEMMA BeatFields ==
    ASSUME NEW h, NEW x, x = [valid |-> TRUE, last |-> h.left = 1, error |-> h.error,
                              beat |-> h.len - h.left]
    PROVE  x.last = (h.left = 1) /\ x.error = h.error /\ x.beat = h.len - h.left
OBVIOUS

LEMMA ReadsServedOne ==
    ASSUME ~LateAnswers, NEW i \in Wires, SlaveReads(i), ~arvalid,
           NEW n \in Nat, NEW l \in 1 .. n, NEW e \in BOOLEAN, reads = <<Read(n, l, e)>>
    PROVE  /\ i.timeout => reads' = <<>>
           /\ i.r.valid => (i.r.last <=> l = 1) /\ (i.r.error <=> e) /\ i.r.beat = n - l
           /\ ~i.timeout /\ ~i.r.valid => reads' = reads
           /\ ~i.timeout /\ i.r.valid =>
                  reads' = IF l = 1 THEN <<>> ELSE <<Read(n, l - 1, e)>>
<1>1. Head(reads) = Read(n, l, e) /\ Tail(reads) = <<>> /\ reads[1] = Read(n, l, e)
  OBVIOUS
<1>2. i.r.valid => (i.r.last <=> l = 1) /\ (i.r.error <=> e) /\ i.r.beat = n - l
  <2> SUFFICES ASSUME i.r.valid
               PROVE  (i.r.last <=> l = 1) /\ (i.r.error <=> e) /\ i.r.beat = n - l
    OBVIOUS
  <2>1. i.r # NoBeat
    BY DEF NoBeat
  <2>2. i.r = [valid |-> TRUE, last |-> Head(reads).left = 1, error |-> Head(reads).error,
               beat |-> Head(reads).len - Head(reads).left]
    BY <2>1, WiresTyped DEF OfferedBeats
  <2>3. Head(reads).left = l /\ Head(reads).error = e /\ Head(reads).len = n
    BY <1>1 DEF Read
  <2>4. /\ i.r.last = (Head(reads).left = 1) /\ i.r.error = Head(reads).error
        /\ i.r.beat = Head(reads).len - Head(reads).left
    BY <2>2, BeatFields
  <2> QED BY <2>3, <2>4
<1>3. [reads EXCEPT ![1].left = @ - 1] = <<Read(n, l - 1, e)>>
  <2>1. \A x, y : [<<x>> EXCEPT ![1] = y] = <<y>>
    OBVIOUS
  <2>2. [Read(n, l, e) EXCEPT !.left = @ - 1] = Read(n, l - 1, e)
    <3>1. Read(n, l, e).left = l
      BY DEF Read
    <3>2. [Read(n, l, e) EXCEPT !.left = l - 1] = Read(n, l - 1, e)
      BY LeftChanged
    <3> QED BY <3>1, <3>2, Zenon
  <2>3. [reads EXCEPT ![1].left = @ - 1] = [reads EXCEPT ![1] = [reads[1] EXCEPT !.left = @ - 1]]
    OBVIOUS
  <2> QED BY <1>1, <2>1, <2>2, <2>3
<1>4. reads' = IF ~i.timeout THEN ReadsServed(i) ELSE <<>>
  BY DEF SlaveReads
<1> QED BY <1>1, <1>2, <1>3, <1>4 DEF ReadsServed

\* A slave that owes no write and is sent none stays so.
LEMMA WritesQuiet ==
    ASSUME ~LateAnswers, NEW i \in Wires, SlaveWrites(i), NoWrites
    PROVE  addrs' = 0 /\ filling' = NoBurst /\ bursts' = <<>> /\ landed' = landed /\ ~i.b.valid
<1>1. i.b = NoResponse
  BY WiresTyped DEF NoWrites, OfferedResponses
<1> QED BY <1>1 DEF NoWrites, NoResponse, SlaveWrites

\* The watchdog clears the slave of writes.
LEMMA WritesGivenUp ==
    ASSUME ~LateAnswers, NEW i, SlaveWrites(i), i.timeout
    PROVE  addrs' = 0 /\ filling' = NoBurst /\ bursts' = <<>>
BY DEF SlaveWrites

LEMMA BurstGrows ==
    ASSUME NEW n \in Nat
    PROVE  [Burst(n) EXCEPT !.beats = Append(@, n)] = Burst(n + 1)
<1> DEFINE s == [k \in 1 .. n |-> k - 1]
<1>1. s \in Seq(Int) /\ Len(s) = n
  OBVIOUS
<1>2. Append(s, n) = [k \in 1 .. n + 1 |-> k - 1]
  BY <1>1
<1>3. ASSUME NEW a, NEW b, NEW c
      PROVE  [[own |-> a, beats |-> b] EXCEPT !.beats = c] = [own |-> a, beats |-> c]
  OBVIOUS
<1>4. [Burst(n) EXCEPT !.beats = Append(@, n)] = [Burst(n) EXCEPT !.beats = Append(s, n)]
  BY DEF Burst
<1>5. ASSUME NEW c PROVE [Burst(n) EXCEPT !.beats = c] = [own |-> TRUE, beats |-> c]
  BY <1>3 DEF Burst
<1>6. Burst(n + 1) = [own |-> TRUE, beats |-> Append(s, n)]
  BY <1>2 DEF Burst
<1> HIDE DEF s
<1> QED BY <1>4, <1>5, <1>6

LEMMA NoBurstIsEmpty == NoBurst = Burst(0)
<1>1. [k \in 1 .. 0 |-> k - 1] = <<>>
  OBVIOUS
<1> QED BY <1>1 DEF NoBurst, Burst

\* The address and the first beat: "fifo" takes both, "ram" the address first.
LEMMA OfferTaken ==
    ASSUME ~LateAnswers, NEW i \in Wires, SlaveWrites(i), Offering, slave \in Slaves, ~i.timeout
    PROVE  /\ landed' = landed
           /\ ~awvalid => ~AwTaken(i) /\ ~WTaken(i)
                          /\ addrs' = 0 /\ filling' = NoBurst /\ bursts' = <<>>
           /\ awvalid => AwTaken(i) /\ addrs' = 1
           /\ awvalid /\ ~WTaken(i) => /\ slave = "ram" /\ ~awDone
                                       /\ filling' = NoBurst /\ bursts' = <<>>
           /\ WTaken(i) /\ wlast => filling' = NoBurst /\ bursts' = <<Burst(1)>>
           /\ WTaken(i) /\ ~wlast => filling' = Burst(1) /\ bursts' = <<>>
<1>1. ~i.b.valid
  BY WiresTyped DEF Offering, OfferedResponses, NoResponse
<1>2. slave = "fifo" \/ slave = "ram"
  BY SlavesAssumption
<1>3. slave = "fifo" => i.wready /\ (addrs = 0 => i.awready)
  BY WiresTyped, Sizes DEF Offering, awready, wready
<1>4. slave = "ram" => (i.wready <=> addrs = 1) /\ (i.awready <=> addrs = 0)
  <2>1. slave = "ram" => (wready <=> addrs = 1) /\ (awready <=> addrs = 0)
    BY DEF Offering, awready, wready
  <2>2. (i.wready <=> wready) /\ (i.awready <=> awready)
    BY WiresTyped
  <2> QED BY <2>1, <2>2
<1>5. WTaken(i) => [filling EXCEPT !.beats = Append(@, wdata)] = Burst(1)
  <2>1. [Burst(0) EXCEPT !.beats = Append(@, 0)] = Burst(1)
    <3>1. 0 \in Nat /\ 0 + 1 = 1
      OBVIOUS
    <3> QED BY <3>1, BurstGrows
  <2> QED BY <2>1, NoBurstIsEmpty DEF WTaken, Offering
<1>6. \A x : Append(<<>>, x) = <<x>>
  OBVIOUS
<1>7. addrs' = addrs + (IF awvalid /\ i.awready THEN 1 ELSE 0)
  BY <1>1 DEF SlaveWrites, Offering
<1>8. WTaken(i) <=> wvalid /\ i.wready
  BY DEF WTaken, Offering
<1>9. /\ ~WTaken(i) => filling' = NoBurst /\ bursts' = <<>>
      /\ WTaken(i) /\ wlast => filling' = NoBurst /\ bursts' = <<Burst(1)>>
      /\ WTaken(i) /\ ~wlast => filling' = Burst(1) /\ bursts' = <<>>
  BY <1>1, <1>5, <1>6, <1>8 DEF SlaveWrites, Offering
<1>10. landed' = landed
  BY <1>1 DEF SlaveWrites
<1> QED BY <1>2, <1>3, <1>4, <1>7, <1>8, <1>9, <1>10 DEF Offering, AwTaken

LEMMA BeatTaken ==
    ASSUME ~LateAnswers, NEW i \in Wires, SlaveWrites(i), Sending, slave \in Slaves, ~i.timeout
    PROVE  /\ i.wready /\ addrs' = 1 /\ landed' = landed
           /\ wlast => filling' = NoBurst /\ bursts' = <<Burst(beat + 1)>>
           /\ ~wlast => filling' = Burst(beat + 1) /\ bursts' = <<>>
<1>1. ~i.b.valid
  BY WiresTyped DEF Sending, OfferedResponses, NoResponse
<1>2. i.wready
  <2>1. wready
    BY SlavesAssumption, Sizes DEF Sending, wready
  <2> QED BY <2>1, WiresTyped
<1>3. [filling EXCEPT !.beats = Append(@, wdata)] = Burst(beat + 1)
  <2>1. beat \in Nat /\ wdata = beat /\ filling = Burst(beat)
    BY Sizes DEF Sending
  <2> QED BY <2>1, BurstGrows
<1>4. \A x : Append(<<>>, x) = <<x>>
  OBVIOUS
<1>5. addrs' = 1 /\ landed' = landed
  BY <1>1 DEF SlaveWrites, Sending
<1>6. wlast => filling' = NoBurst /\ bursts' = <<Burst(beat + 1)>>
  BY <1>1, <1>2, <1>3, <1>4 DEF SlaveWrites, Sending
<1>7. ~wlast => filling' = Burst(beat + 1) /\ bursts' = <<>>
  BY <1>1, <1>2, <1>3 DEF SlaveWrites, Sending
<1> QED BY <1>2, <1>5, <1>6, <1>7

LEMMA BurstAnswered ==
    ASSUME ~LateAnswers, NEW i \in Wires, SlaveWrites(i), NEW n, Sent(n), ~i.timeout
    PROVE  /\ ~i.b.valid => addrs' = 1 /\ filling' = NoBurst /\ bursts' = bursts /\ landed' = landed
           /\ i.b.valid => /\ addrs' = 0 /\ filling' = NoBurst /\ bursts' = <<>>
                           /\ landed' = Burst(n).beats
<1>1. Head(bursts) = Burst(n) /\ Tail(bursts) = <<>>
  BY DEF Sent
<1> QED BY <1>1 DEF SlaveWrites, Sent

-----------------------------------------------------------------------------
(***************************************************************************)
(* The steps.                                                              *)
(***************************************************************************)
Holds == ReadInv /\ WriteInv /\ WholeLines

LEMMA StepIdle ==
    ASSUME ~LateAnswers, BridgeInv, NEW i \in Wires, Slave(i), Idle
    PROVE  Holds'
<1>1. state = "IDLE" /\ ~i.timeout
  BY WiresTyped DEF Idle, IdleWait, GrantMmioRead, GrantMmioWrite, GrantRefill, GrantWb,
                    IdleDefaults, Watched, Reads
<1>2. reads' = <<>> /\ addrs' = 0 /\ filling' = NoBurst /\ bursts' = <<>>
  BY <1>1, ReadsQuiet, WritesQuiet
     DEF BridgeInv, ReadInv, WriteInv, NoReads, Reads, Slave
<1>3. ~arvalid' /\ ~awvalid' /\ ~wvalid'
  BY DEF Idle, IdleWait, GrantMmioRead, GrantMmioWrite, GrantRefill, GrantWb, IdleDefaults
<1>4. NoReads' /\ NoWrites'
  BY <1>2, <1>3 DEF NoReads, NoWrites
<1>5. /\ state' \in {"IDLE", "MMIO_AR", "MMIO_AW_W", "IREFILL_AR", "DREFILL_AR", "WB_AW"}
      /\ state' \in {"IREFILL_AR", "DREFILL_AR"} => beat' = 0
      /\ state' \in {"MMIO_AW_W", "WB_AW"} => ~awDone' /\ ~wDone'
  BY <1>1 DEF Idle, IdleWait, GrantMmioRead, GrantMmioWrite, GrantRefill, GrantWb,
              FreshHandshakes
<1>6. ReadInv'
  BY <1>4, <1>5 DEF ReadInv, Reads
<1>7. Offering' \/ state' \notin {"MMIO_AW_W", "WB_AW"}
  BY <1>2, <1>3, <1>5 DEF Offering
<1>8. WriteInv'
  BY <1>3, <1>4, <1>5, <1>7 DEF WriteInv
<1>9. ack' \subseteq {"icache_mmio_accept", "dcache_mmio_accept"}
  BY DEF Idle, IdleWait, GrantMmioRead, GrantMmioWrite, GrantRefill, GrantWb
<1>10. WholeLines'
  BY <1>9 DEF WholeLines
<1> QED BY <1>6, <1>8, <1>10 DEF Holds

\* A read leaves the write side alone.
LEMMA ReadsLeaveWrites ==
    ASSUME ~LateAnswers, BridgeInv, NEW i \in Wires, Slave(i),
           state \notin {"MMIO_AW_W", "MMIO_B", "WB_AW", "WB_W", "WB_B"},
           state' \notin {"MMIO_AW_W", "MMIO_B", "WB_AW", "WB_W", "WB_B"},
           UNCHANGED writeVars
    PROVE  WriteInv'
<1>1. addrs' = 0 /\ filling' = NoBurst /\ bursts' = <<>>
  BY WritesQuiet DEF BridgeInv, WriteInv, Slave
<1>2. ~awvalid' /\ ~wvalid'
  BY DEF BridgeInv, WriteInv, NoWrites, writeVars
<1> QED BY <1>1, <1>2 DEF WriteInv, NoWrites

LEMMA StepMmioAr ==
    ASSUME ~LateAnswers, BridgeInv, NEW i \in Wires, Slave(i), MmioAr(i)
    PROVE  Holds'
<1>1. reads = <<>> /\ ~arvalid /\ i.arready
  <2>1. reads = <<>> /\ ~arvalid
    BY DEF BridgeInv, ReadInv, NoReads, MmioAr, Reads
  <2>2. arready
    BY <2>1, Sizes DEF arready
  <2> QED BY <2>1, <2>2, WiresTyped
<1>2. reads' = <<>>
  BY <1>1, ReadsQuiet DEF Slave
<1>3. state' = (IF i.timeout THEN "IDLE" ELSE "MMIO_R") /\ arvalid' = ~i.timeout
  BY <1>1 DEF MmioAr
<1>4. ReadInv'
  BY <1>2, <1>3, WiresTyped DEF ReadInv, NoReads, Reading, Reads
<1>5. WriteInv'
  BY <1>3, ReadsLeaveWrites DEF MmioAr, ReadDefaults
<1>6. WholeLines'
  BY DEF MmioAr, MmioFailed, WholeLines
<1> QED BY <1>4, <1>5, <1>6 DEF Holds

LEMMA StepMmioR ==
    ASSUME ~LateAnswers, BridgeInv, NEW i \in Wires, Slave(i), MmioR(i)
    PROVE  Holds'
<1>1. state = "MMIO_R" /\ Reading(1) /\ ~arvalid'
  BY DEF BridgeInv, ReadInv, MmioR
<1>2. SlaveReads(i)
  BY DEF Slave
<1>3. /\ state' \in {"MMIO_R", "MMIO_AR", "IDLE"}
      /\ state' = "MMIO_R" => ~i.timeout /\ ~i.r.valid
      /\ state' # "MMIO_R" => i.timeout \/ i.r.valid
  BY DEF MmioR
<1>4. ASSUME arvalid, reads = <<>> PROVE ReadInv'
  <2>1. ~i.r.valid
    BY <1>2, <1>4, ReadsQuiet
  <2>2. CASE i.timeout
    <3>1. reads' = <<>>
      BY <1>2, <1>4, <2>2, ReadsQuiet
    <3> QED BY <1>1, <1>3, <2>2, <3>1 DEF ReadInv, NoReads, Reads
  <2>3. CASE ~i.timeout
    <3>1. PICK e \in BOOLEAN : reads' = <<Read(1, 1, e)>>
      BY <1>1, <1>2, <1>4, <2>3, ReadsQuiet DEF BurstLen
    <3>2. state' = "MMIO_R"
      BY <1>3, <2>1, <2>3
    <3> QED BY <1>1, <3>1, <3>2 DEF ReadInv, Reading, Reads
  <2> QED BY <2>2, <2>3
<1>5. ASSUME ~arvalid, NEW l \in 1 .. 1, NEW e \in BOOLEAN, reads = <<Read(1, l, e)>>
      PROVE  ReadInv'
  <2>1. /\ i.timeout => reads' = <<>>
        /\ ~i.timeout /\ ~i.r.valid => reads' = reads
        /\ ~i.timeout /\ i.r.valid => reads' = <<>>
    BY <1>2, <1>5, ReadsServedOne
  <2>2. CASE i.timeout \/ i.r.valid
    BY <1>1, <1>3, <2>1, <2>2 DEF ReadInv, NoReads, Reads
  <2>3. CASE ~(i.timeout \/ i.r.valid)
    BY <1>1, <1>3, <1>5, <2>1, <2>3 DEF ReadInv, Reading, Reads
  <2> QED BY <2>2, <2>3
<1>6. ReadInv'
  BY <1>1, <1>4, <1>5 DEF Reading
<1>7. WriteInv'
  BY <1>1, <1>3, ReadsLeaveWrites DEF MmioR, ReadDefaults
<1>8. WholeLines'
  BY DEF MmioR, MmioFailed, WholeLines
<1> QED BY <1>6, <1>7, <1>8 DEF Holds

LEMMA StepRefillAr ==
    ASSUME ~LateAnswers, BridgeInv, NEW i \in Wires, Slave(i), RefillAr(i)
    PROVE  Holds'
<1>1. state \in {"IREFILL_AR", "DREFILL_AR"} /\ reads = <<>> /\ ~arvalid /\ beat = 0
  BY DEF BridgeInv, ReadInv, NoReads, RefillAr, Reads
<1>2. i.arready
  <2>1. arready
    BY <1>1, Sizes DEF arready
  <2> QED BY <2>1, WiresTyped
<1>3. reads' = <<>>
  BY <1>1, ReadsQuiet DEF Slave
<1>4. state' \in {"IREFILL_R", "DREFILL_R"} /\ arvalid' /\ beat' = 0
  BY <1>1, <1>2 DEF RefillAr
<1>5. ReadInv'
  <2>1. \A b \in Beats : ~(b < 0)
    BY Sizes DEF Beats
  <2> QED BY <1>3, <1>4, <2>1 DEF ReadInv, Reading, Filled, Reads
<1>6. WriteInv'
  BY <1>1, <1>4, ReadsLeaveWrites DEF RefillAr, ReadDefaults
<1>7. WholeLines'
  BY DEF RefillAr, WholeLines
<1> QED BY <1>5, <1>6, <1>7 DEF Holds

\* The first cycle of a refill, in which the slave takes the address.
LEMMA RefillTaken ==
    ASSUME ~LateAnswers, BridgeInv, NEW i \in Wires, Slave(i), RefillR(i),
           arvalid, reads = <<>>
    PROVE  ReadInv' /\ WholeLines'
<1>1. state \in {"IREFILL_R", "DREFILL_R"} /\ ~arvalid' /\ ~i.r.valid /\ SlaveReads(i)
  BY ReadsQuiet DEF RefillR, Slave
<1>2. beat = 0 /\ beat' = 0 /\ line' = line
  BY <1>1 DEF RefillR, BridgeInv, ReadInv, Filled
<1>3. WholeLines'
  BY <1>1 DEF RefillR, RefillEnds, RefillGood, RefillFailed, WholeLines
<1>4. CASE i.timeout
  <2>1. reads' = <<>> /\ state' = "IDLE"
    BY <1>1, <1>4, ReadsQuiet DEF RefillR, RefillEnds
  <2> QED BY <1>1, <1>3, <2>1 DEF ReadInv, NoReads, Reads
<1>5. CASE ~i.timeout
  <2>1. PICK e \in BOOLEAN : reads' = <<Read(NumBeats, NumBeats, e)>>
    BY <1>1, <1>5, ReadsQuiet DEF BurstLen
  <2>2. state' = state
    BY <1>1, <1>5 DEF RefillR, RefillEnds
  <2>3. reads' # <<>> /\ reads'[1].left = NumBeats
    BY <2>1 DEF Read
  <2>4. Filled'
    BY <1>2, <2>3, Sizes DEF Filled, Beats
  <2>5. Reading(NumBeats)'
    BY <1>1, <2>1, Sizes DEF Reading
  <2> QED BY <1>1, <1>3, <2>2, <2>4, <2>5 DEF ReadInv, Reads
<1> QED BY <1>4, <1>5

\* A later cycle, with l beats to come.
LEMMA RefillBeat ==
    ASSUME ~LateAnswers, BridgeInv, NEW i \in Wires, Slave(i), RefillR(i), ~arvalid,
           NEW l \in 1 .. NumBeats, NEW e \in BOOLEAN, reads = <<Read(NumBeats, l, e)>>
    PROVE  ReadInv' /\ WholeLines'
<1>1. state \in {"IREFILL_R", "DREFILL_R"} /\ ~arvalid' /\ SlaveReads(i)
  BY DEF RefillR, Slave
<1>2. /\ i.timeout => reads' = <<>>
      /\ i.r.valid => (i.r.last <=> l = 1) /\ (i.r.error <=> e) /\ i.r.beat = NumBeats - l
      /\ ~i.timeout /\ ~i.r.valid => reads' = reads
      /\ ~i.timeout /\ i.r.valid => reads' = IF l = 1 THEN <<>> ELSE <<Read(NumBeats, l - 1, e)>>
  BY <1>1, ReadsServedOne, Sizes
<1>3. reads # <<>> /\ reads[1].left = l /\ reads[1].error = e
  BY DEF Read
<1>4. Filled
  BY <1>1 DEF BridgeInv, ReadInv
<1>5. beat = IF e THEN 0 ELSE NumBeats - l
  BY <1>3, <1>4 DEF Filled
<1>6. CASE i.timeout
  <2>1. reads' = <<>> /\ state' = "IDLE"
    BY <1>2, <1>6 DEF RefillR, RefillEnds
  <2>2. WholeLines'
    BY <1>6 DEF RefillR, RefillEnds, RefillFailed, WholeLines
  <2> QED BY <1>1, <2>1, <2>2 DEF ReadInv, NoReads, Reads
<1>7. CASE ~i.timeout /\ ~i.r.valid
  <2>1. UNCHANGED <<reads, state, beat, line>> /\ ack' = {}
    BY <1>2, <1>7 DEF RefillR, RefillEnds
  <2>2. WholeLines'
    BY <2>1 DEF WholeLines
  <2> QED BY <1>1, <1>4, <2>1, <2>2 DEF ReadInv, Reading, Filled, Reads
<1>8. CASE ~i.timeout /\ i.r.valid /\ l = 1
  <2>1. reads' = <<>> /\ state' = "IDLE"
    BY <1>2, <1>8 DEF RefillR, RefillEnds
  <2>2. CASE e
    BY <1>1, <1>2, <1>8, <2>1, <2>2
       DEF RefillR, RefillEnds, RefillFailed, WholeLines, ReadInv, NoReads, Reads
  <2>3. CASE ~e
    <3>1. beat = NumBeats - 1 /\ line' = [line EXCEPT ![beat] = NumBeats - 1]
      BY <1>2, <1>5, <1>8, <2>3 DEF RefillR
    <3>2. \A b \in Beats : b < beat \/ b = beat
      BY <3>1, Sizes DEF Beats
    <3>3. line' = [b \in Beats |-> b]
      BY <1>4, <3>1, <3>2, Sizes DEF Filled, BridgeInv, BridgeType
    <3>4. "dcache_wb_valid" \notin ack'
      BY DEF RefillR, RefillGood, RefillFailed
    <3> QED BY <1>1, <2>1, <3>3, <3>4 DEF WholeLines, ReadInv, NoReads, Reads
  <2> QED BY <2>2, <2>3
<1>9. CASE ~i.timeout /\ i.r.valid /\ l # 1
  <2>1. reads' = <<Read(NumBeats, l - 1, e)>> /\ state' = state /\ ack' = {}
    BY <1>2, <1>9 DEF RefillR, RefillEnds
  <2>2. reads' # <<>> /\ reads'[1].left = l - 1 /\ reads'[1].error = e
    BY <2>1 DEF Read
  <2>3. Reading(NumBeats)'
    BY <1>1, <1>9, <2>1, Sizes DEF Reading
  <2>4. Filled'
    <3>1. CASE e
      <4>1. beat' = 0
        BY <1>2, <1>5, <1>9, <3>1 DEF RefillR
      <4> QED BY <2>2, <3>1, <4>1, Sizes DEF Filled, Beats
    <3>2. CASE ~e
      <4>1. line' = [line EXCEPT ![beat] = beat] /\ beat' = (beat + 1) % NumBeats
        BY <1>2, <1>5, <1>9, <3>2 DEF RefillR
      <4>2. beat' = NumBeats - (l - 1) /\ beat' = beat + 1
        BY <1>5, <1>9, <3>2, <4>1, Sizes
      <4>3. \A b \in Beats : b < beat' => line'[b] = b
        BY <1>4, <4>1, <4>2, Sizes DEF Filled, Beats, BridgeInv, BridgeType
      <4> QED BY <2>2, <3>2, <4>2, <4>3 DEF Filled
    <3> QED BY <3>1, <3>2
  <2>5. WholeLines'
    BY <2>1 DEF WholeLines
  <2> QED BY <1>1, <2>1, <2>3, <2>4, <2>5 DEF ReadInv, Reads
<1> QED BY <1>6, <1>7, <1>8, <1>9

LEMMA StepRefillR ==
    ASSUME ~LateAnswers, BridgeInv, NEW i \in Wires, Slave(i), RefillR(i)
    PROVE  Holds'
<1>1. state \in {"IREFILL_R", "DREFILL_R"} /\ Reading(NumBeats)
  BY DEF RefillR, BridgeInv, ReadInv
<1>2. ReadInv' /\ WholeLines'
  BY <1>1, RefillTaken, RefillBeat DEF Reading
<1>3. WriteInv'
  BY <1>1, ReadsLeaveWrites DEF RefillR, ReadDefaults
<1> QED BY <1>2, <1>3 DEF Holds

\* A write leaves the read side alone.
LEMMA WritesLeaveReads ==
    ASSUME ~LateAnswers, BridgeInv, NEW i \in Wires, Slave(i),
           state \in {"MMIO_AW_W", "MMIO_B", "WB_AW", "WB_W", "WB_B"},
           state' \in {"MMIO_AW_W", "MMIO_B", "WB_AW", "WB_W", "WB_B", "IDLE"},
           UNCHANGED readVars
    PROVE  ReadInv'
<1>1. reads = <<>> /\ ~arvalid
  BY DEF BridgeInv, ReadInv, NoReads, Reads
<1>2. reads' = <<>> /\ ~arvalid'
  BY <1>1, ReadsQuiet DEF Slave, readVars
<1> QED BY <1>2 DEF ReadInv, NoReads, Reads

LEMMA StepMmioAwW ==
    ASSUME ~LateAnswers, BridgeInv, NEW i \in Wires, Slave(i), MmioAwW(i)
    PROVE  Holds'
<1>1. state = "MMIO_AW_W" /\ Offering /\ (wvalid => wlast) /\ slave \in Slaves
  BY DEF MmioAwW, BridgeInv, WriteInv
<1>2. SlaveWrites(i) /\ slave' = slave
  BY DEF Slave
<1>3. WholeLines'
  BY DEF MmioAwW, WholeLines
<1>4. CASE i.timeout
  <2>1. state' = "IDLE" /\ ~awvalid' /\ ~wvalid'
    BY <1>4 DEF MmioAwW
  <2> QED BY <1>1, <1>2, <1>3, <1>4, <2>1, WritesGivenUp, WritesLeaveReads
          DEF MmioAwW, Holds, WriteInv, NoWrites
<1>5. CASE ~i.timeout /\ ~(awvalid /\ WTaken(i))
  <2>1. ~WTaken(i) /\ filling' = NoBurst /\ bursts' = <<>>
    BY <1>1, <1>2, <1>5, OfferTaken
  <2>2. state' = "MMIO_AW_W" /\ awvalid' /\ wvalid' /\ wdata' = 0 /\ wlast' /\ ~wDone'
        /\ awDone' = AwTaken(i)
    BY <1>1, <1>5, <2>1 DEF MmioAwW, Offering
  <2>3. /\ AwTaken(i) => slave = "ram"
        /\ addrs' = IF AwTaken(i) THEN 1 ELSE 0
    BY <1>1, <1>2, <1>5, <2>1, OfferTaken
  <2>4. Offering'
    BY <1>2, <2>1, <2>2, <2>3 DEF Offering
  <2> QED BY <1>1, <1>3, <2>2, <2>4, WritesLeaveReads DEF MmioAwW, Holds, WriteInv
<1>6. CASE ~i.timeout /\ awvalid /\ WTaken(i)
  <2>1. wlast
    BY <1>1, <1>6 DEF Offering
  <2>2. AwTaken(i) /\ addrs' = 1 /\ filling' = NoBurst /\ bursts' = <<Burst(1)>>
    BY <1>1, <1>2, <1>6, <2>1, OfferTaken
  <2>3. state' = "MMIO_B" /\ ~awvalid' /\ ~wvalid'
    BY <1>6, <2>2 DEF MmioAwW
  <2>4. Sent(1)'
    BY <2>2, <2>3 DEF Sent, Burst
  <2> QED BY <1>1, <1>3, <2>3, <2>4, WritesLeaveReads DEF MmioAwW, Holds, WriteInv
<1> QED BY <1>4, <1>5, <1>6

LEMMA StepMmioB ==
    ASSUME ~LateAnswers, BridgeInv, NEW i \in Wires, Slave(i), MmioB(i)
    PROVE  Holds'
<1>1. state = "MMIO_B" /\ Sent(1) /\ SlaveWrites(i)
  BY DEF MmioB, BridgeInv, WriteInv, Slave
<1>2. ~awvalid' /\ ~wvalid'
  BY <1>1 DEF MmioB, writeVars, Sent
<1>3. WholeLines'
  BY DEF MmioB, WholeLines
<1>4. CASE i.timeout \/ i.b.valid
  <2>1. addrs' = 0 /\ filling' = NoBurst /\ bursts' = <<>> /\ state' = "IDLE"
    BY <1>1, <1>4, WritesGivenUp, BurstAnswered DEF MmioB
  <2> QED BY <1>1, <1>2, <1>3, <2>1, WritesLeaveReads DEF MmioB, Holds, WriteInv, NoWrites
<1>5. CASE ~(i.timeout \/ i.b.valid)
  <2>1. addrs' = 1 /\ filling' = NoBurst /\ bursts' = <<Burst(1)>> /\ state' = "MMIO_B"
    BY <1>1, <1>5, BurstAnswered DEF MmioB, Sent
  <2>2. Sent(1)'
    BY <1>2, <2>1 DEF Sent, Burst
  <2> QED BY <1>1, <1>3, <2>1, <2>2, WritesLeaveReads DEF MmioB, Holds, WriteInv
<1> QED BY <1>4, <1>5

LEMMA StepWbAw ==
    ASSUME ~LateAnswers, BridgeInv, NEW i \in Wires, Slave(i), WbAw(i)
    PROVE  Holds'
<1>1. state = "WB_AW" /\ Offering /\ (wvalid => ~wlast) /\ slave \in Slaves /\ ~i.timeout
  BY WiresTyped DEF WbAw, BridgeInv, WriteInv, Watched, Reads
<1>2. SlaveWrites(i) /\ slave' = slave
  BY DEF Slave
<1>3. WholeLines'
  BY DEF WbAw, WholeLines
<1>4. CASE ~(awvalid /\ WTaken(i))
  <2>1. ~WTaken(i) /\ filling' = NoBurst /\ bursts' = <<>>
    BY <1>1, <1>2, <1>4, OfferTaken
  <2>2. /\ AwTaken(i) => slave = "ram" /\ ~awDone
        /\ addrs' = IF AwTaken(i) THEN 1 ELSE 0
    BY <1>1, <1>2, <1>4, <2>1, OfferTaken
  <2>3. ~awDone
    BY <1>1, <1>2, <1>4, <2>1, OfferTaken DEF Offering
  <2>4. state' = "WB_AW" /\ awvalid' /\ wvalid' /\ wdata' = 0 /\ ~wlast' /\ ~wDone'
        /\ awDone' = AwTaken(i)
    BY <1>1, <2>1, <2>3 DEF WbAw, Offering
  <2>5. Offering'
    BY <1>2, <2>1, <2>2, <2>4 DEF Offering
  <2> QED BY <1>1, <1>3, <2>4, <2>5, WritesLeaveReads DEF WbAw, Holds, WriteInv
<1>5. CASE awvalid /\ WTaken(i)
  <2>1. ~wlast
    BY <1>1, <1>5 DEF Offering
  <2>2. AwTaken(i) /\ addrs' = 1 /\ filling' = Burst(1) /\ bursts' = <<>>
    BY <1>1, <1>2, <1>5, <2>1, OfferTaken
  <2>3. state' = "WB_W" /\ ~awvalid' /\ wvalid' /\ wdata' = 1 /\ beat' = 1 /\ ~wlast'
    BY <1>5, <2>2 DEF WbAw
  <2>4. Sending'
    BY <2>2, <2>3, Sizes DEF Sending, Burst
  <2> QED BY <1>1, <1>3, <2>3, <2>4, WritesLeaveReads DEF WbAw, Holds, WriteInv
<1> QED BY <1>4, <1>5

LEMMA StepWbW ==
    ASSUME ~LateAnswers, BridgeInv, NEW i \in Wires, Slave(i), WbW(i)
    PROVE  Holds'
<1>1. state = "WB_W" /\ Sending /\ slave \in Slaves /\ SlaveWrites(i)
  BY DEF WbW, BridgeInv, WriteInv, Slave
<1>2. WholeLines'
  BY DEF WbW, WbFailed, WholeLines
<1>3. CASE i.timeout
  <2>1. state' = "IDLE" /\ ~awvalid' /\ ~wvalid'
    BY <1>3 DEF WbW
  <2> QED BY <1>1, <1>2, <1>3, <2>1, WritesGivenUp, WritesLeaveReads
          DEF WbW, Holds, WriteInv, NoWrites
<1>4. CASE ~i.timeout /\ wlast
  <2>1. addrs' = 1 /\ filling' = NoBurst /\ bursts' = <<Burst(beat + 1)>> /\ i.wready
    BY <1>1, <1>4, BeatTaken
  <2>2. state' = "WB_B" /\ ~awvalid' /\ ~wvalid'
    BY <1>1, <1>4, <2>1 DEF WbW, Sending
  <2>3. beat + 1 = NumBeats
    BY <1>1, <1>4, Sizes DEF Sending
  <2>4. Sent(NumBeats)'
    BY <2>1, <2>2, <2>3 DEF Sent, Burst
  <2> QED BY <1>1, <1>2, <2>2, <2>4, WritesLeaveReads DEF WbW, Holds, WriteInv
<1>5. CASE ~i.timeout /\ ~wlast
  <2>1. addrs' = 1 /\ filling' = Burst(beat + 1) /\ bursts' = <<>> /\ i.wready
    BY <1>1, <1>5, BeatTaken
  <2>2. beat \in 1 .. NumBeats - 2 /\ (beat + 1) % NumBeats = beat + 1
    BY <1>1, <1>5, Sizes DEF Sending
  <2>3. /\ state' = "WB_W" /\ ~awvalid' /\ wvalid' /\ wdata' = beat + 1 /\ beat' = beat + 1
        /\ wlast' <=> beat = NumBeats - 2
    BY <1>1, <1>5, <2>1, <2>2 DEF WbW, Sending, LastFollows
  <2>4. Sending'
    BY <2>1, <2>2, <2>3, Sizes DEF Sending, Burst
  <2> QED BY <1>1, <1>2, <2>3, <2>4, WritesLeaveReads DEF WbW, Holds, WriteInv
<1> QED BY <1>3, <1>4, <1>5

LEMMA StepWbB ==
    ASSUME ~LateAnswers, BridgeInv, NEW i \in Wires, Slave(i), WbB(i)
    PROVE  Holds'
<1>1. state = "WB_B" /\ Sent(NumBeats) /\ SlaveWrites(i)
  BY DEF WbB, BridgeInv, WriteInv, Slave
<1>2. ~awvalid' /\ ~wvalid'
  BY <1>1 DEF WbB, writeVars, Sent
<1>3. CASE i.timeout \/ i.b.valid
  <2>1. addrs' = 0 /\ filling' = NoBurst /\ bursts' = <<>> /\ state' = "IDLE"
    BY <1>1, <1>3, WritesGivenUp, BurstAnswered DEF WbB
  <2>2. ~i.timeout => landed' = WholeBurst
    BY <1>1, <1>3, BurstAnswered DEF Burst, WholeBurst
  <2>3. WholeLines'
    BY <1>3, <2>2 DEF WbB, WbAnswer, WbFailed, WholeLines, WholeBurst
  <2> QED BY <1>1, <1>2, <2>1, <2>3, WritesLeaveReads DEF WbB, Holds, WriteInv, NoWrites
<1>4. CASE ~(i.timeout \/ i.b.valid)
  <2>1. addrs' = 1 /\ filling' = NoBurst /\ bursts' = <<Burst(NumBeats)>> /\ state' = "WB_B"
    BY <1>1, <1>4, BurstAnswered DEF WbB, Sent
  <2>2. Sent(NumBeats)'
    BY <1>2, <2>1 DEF Sent, Burst
  <2>3. WholeLines'
    BY <1>4 DEF WbB, WholeLines
  <2> QED BY <1>1, <2>1, <2>2, <2>3, WritesLeaveReads DEF WbB, Holds, WriteInv
<1> QED BY <1>3, <1>4

-----------------------------------------------------------------------------
(***************************************************************************)
(* Types.                                                                  *)
(***************************************************************************)
LEMMA TurnsCounted ==
    ASSUME BridgeType
    PROVE  NoTurn \in Turn /\ WbCounted \in Turn /\ RefillCounted \in Turn
<1>1. NoTurn \in Turn
  BY DEF NoTurn, Turn
<1>2. ASSUME NEW t \in Turn PROVE CountedUp(t) \in Turn /\ [t EXCEPT !.starve = 0] \in Turn
  BY DEF CountedUp, Turn
<1> QED BY <1>1, <1>2 DEF WbCounted, RefillCounted, BridgeType

LEMMA TypeIdle ==
    ASSUME BridgeType, Idle
    PROVE  BridgeType' \/ req' \notin SUBSET Requests
<1>1. wbTurn' \in Turn /\ refillTurn' \in Turn
  BY TurnsCounted DEF Idle, IdleWait, GrantMmioRead, GrantMmioWrite, GrantRefill, GrantWb,
                      IdleDefaults
<1>2. /\ arvalid' = FALSE /\ awvalid' = FALSE /\ wvalid' = FALSE /\ UNCHANGED <<wdata, wlast>>
      /\ waitDrop' = (waitDrop /\ "dcache_wb" \in req)
  BY DEF Idle, IdleWait, GrantMmioRead, GrantMmioWrite, GrantRefill, GrantWb, IdleDefaults,
         DropSeen
<1>3. /\ state' \in States /\ ack' \subseteq Pulses
      /\ inst' \in BOOLEAN /\ awDone' \in BOOLEAN /\ wDone' \in BOOLEAN
  BY DEF Idle, IdleWait, GrantMmioRead, GrantMmioWrite, GrantRefill, GrantWb, BridgeType,
         States, Pulses, FreshHandshakes
<1>4. beat' \in Beats /\ line' \in [Beats -> Beats \cup {Blank}]
  BY Sizes DEF Idle, IdleWait, GrantMmioRead, GrantMmioWrite, GrantRefill, GrantWb, BridgeType,
               Beats
<1> QED BY <1>1, <1>2, <1>3, <1>4 DEF BridgeType

LEMMA TypeReads ==
    ASSUME BridgeType, NEW i \in Wires, i.r.valid => i.r.beat \in Beats,
           MmioAr(i) \/ MmioR(i) \/ RefillAr(i) \/ RefillR(i)
    PROVE  BridgeType' \/ req' \notin SUBSET Requests
<1>1. i.timeout \in BOOLEAN
  BY WiresTyped
<1>2. UNCHANGED <<inst, wbTurn, refillTurn, awvalid, wvalid, wdata, wlast, awDone, wDone>>
      /\ waitDrop' = (waitDrop /\ "dcache_wb" \in req)
  BY DEF MmioAr, MmioR, RefillAr, RefillR, ReadDefaults, DropSeen, writeVars, turnVars
<1>3. state' \in States /\ arvalid' \in BOOLEAN
  BY <1>1 DEF MmioAr, MmioR, RefillAr, RefillR, BridgeType, States, Reads
<1>4. ack' \subseteq Pulses
  BY DEF MmioAr, MmioR, RefillAr, RefillR, MmioFailed, RefillGood, RefillFailed, Pulses
<1>5. beat' \in Beats
  BY Sizes DEF MmioAr, MmioR, RefillAr, RefillR, BridgeType, Beats
<1>6. line' \in [Beats -> Beats \cup {Blank}]
  BY DEF MmioAr, MmioR, RefillAr, RefillR, BridgeType
<1> QED BY <1>2, <1>3, <1>4, <1>5, <1>6 DEF BridgeType

LEMMA TypeWrites ==
    ASSUME BridgeType, NEW i \in Wires,
           MmioAwW(i) \/ MmioB(i) \/ WbAw(i) \/ WbW(i) \/ WbB(i)
    PROVE  BridgeType' \/ req' \notin SUBSET Requests
<1>1. UNCHANGED <<inst, arvalid, line, wbTurn, refillTurn>>
  BY DEF MmioAwW, MmioB, WbAw, WbW, WbB, readVars, turnVars
<1>2. state' \in States /\ ack' \subseteq Pulses /\ waitDrop' \in BOOLEAN
  BY DEF MmioAwW, MmioB, WbAw, WbW, WbB, DropSeen, WbAnswer, WbFailed, BridgeType, States, Pulses
<1>3. awvalid' \in BOOLEAN /\ wvalid' \in BOOLEAN /\ wlast' \in BOOLEAN
  BY DEF MmioAwW, MmioB, WbAw, WbW, WbB, writeVars, LastFollows, BridgeType
<1>4. awDone' \in BOOLEAN /\ wDone' \in BOOLEAN
  BY WiresTyped DEF MmioAwW, MmioB, WbAw, WbW, WbB, writeVars, AwTaken, WTaken, BridgeType
<1>5. wdata' \in Beats /\ beat' \in Beats
  <2>1. 0 \in Beats /\ 1 \in Beats /\ \A b \in Beats : (b + 1) % NumBeats \in Beats
    BY Sizes DEF Beats
  <2> QED BY <2>1 DEF MmioAwW, MmioB, WbAw, WbW, WbB, writeVars, BridgeType
<1> QED BY <1>1, <1>2, <1>3, <1>4, <1>5 DEF BridgeType

LEMMA RequestsTyped ==
    ASSUME req \subseteq Requests, Caches
    PROVE  req' \subseteq Requests
BY DEF Caches

\* A beat the slave offers has its number within the burst.
LEMMA BeatNumbered ==
    ASSUME ~LateAnswers, BridgeInv, NEW i \in Wires, Slave(i), i.r.valid
    PROVE  i.r.beat \in Beats
<1>1. SlaveReads(i)
  BY DEF Slave
<1>2. reads # <<>>
  BY <1>1, ReadsQuiet
<1>3. ~arvalid /\ \E n \in {1, NumBeats} : \E l \in 1 .. n, e \in BOOLEAN : reads = <<Read(n, l, e)>>
  BY <1>2 DEF BridgeInv, BridgeType, ReadInv, NoReads, Reading, Reads
<1>4. PICK n \in {1, NumBeats} : \E l \in 1 .. n, e \in BOOLEAN : reads = <<Read(n, l, e)>>
  BY <1>3
<1>5. PICK l \in 1 .. n, e \in BOOLEAN : reads = <<Read(n, l, e)>>
  BY <1>4
<1>6. i.r.beat = n - l
  BY <1>1, <1>3, <1>5, ReadsServedOne, Sizes
<1> QED BY <1>6, Sizes DEF Beats

LEMMA SlaveTyped ==
    ASSUME slave \in Slaves, NEW i, Slave(i)
    PROVE  slave' \in Slaves /\ foreign' \in BOOLEAN
BY DEF Slave, Owner

-----------------------------------------------------------------------------
(***************************************************************************)
(* The invariant.                                                          *)
(***************************************************************************)
LEMMA BridgeInvInit ==
    ASSUME Init
    PROVE  BridgeInv
<1>1. BridgeType
  <2>1. wbTurn \in Turn /\ refillTurn \in Turn
    BY DEF Init, BridgeInit, NoTurn, Turn
  <2>2. beat \in Beats /\ wdata \in Beats /\ line \in [Beats -> Beats \cup {Blank}]
    BY Sizes DEF Init, BridgeInit, Beats
  <2> QED BY <2>1, <2>2 DEF Init, BridgeInit, BridgeType, States
<1>2. ReadInv
  BY DEF Init, BridgeInit, ReadInv, NoReads, Reads
<1>3. WriteInv
  BY DEF Init, BridgeInit, WriteInv, NoWrites
<1>4. WholeLines
  BY DEF Init, BridgeInit, WholeLines
<1> QED BY <1>1, <1>2, <1>3, <1>4 DEF BridgeInv, Init

LEMMA BridgeInvStutter ==
    ASSUME BridgeInv, UNCHANGED vars
    PROVE  BridgeInv'
<1> USE DEF vars, bridgeVars, readVars, writeVars, turnVars, slaveVars
<1>1. BridgeType' /\ (slave \in Slaves)' /\ (foreign \in BOOLEAN)' /\ WholeLines'
  BY DEF BridgeInv, BridgeType, WholeLines
<1>2. ReadInv'
  BY DEF BridgeInv, ReadInv, NoReads, Reading, Filled
<1>3. WriteInv'
  BY DEF BridgeInv, WriteInv, NoWrites, Offering, Sending, Sent
<1> QED BY <1>1, <1>2, <1>3 DEF BridgeInv

LEMMA BridgeInvEdge ==
    ASSUME ~LateAnswers, BridgeInv, NEW i \in Wires, Edge(i)
    PROVE  BridgeInv'
<1>1. BridgeStep(i) /\ Slave(i) /\ Caches
  BY DEF Edge
<1>2. BridgeType'
  BY <1>1, RequestsTyped, BeatNumbered, TypeIdle, TypeReads, TypeWrites
     DEF BridgeStep, BridgeInv, BridgeType
<1>3. Holds'
  BY <1>1, StepIdle, StepMmioAr, StepMmioR, StepRefillAr, StepRefillR, StepMmioAwW, StepMmioB,
     StepWbAw, StepWbW, StepWbB DEF BridgeStep
<1>4. (slave \in Slaves)' /\ (foreign \in BOOLEAN)'
  BY <1>1, SlaveTyped DEF BridgeInv
<1> QED BY <1>2, <1>3, <1>4 DEF Holds, BridgeInv

LEMMA BridgeInvariant ==
    ASSUME ~LateAnswers
    PROVE  Spec => []BridgeInv
<1>1. Init => BridgeInv
  BY BridgeInvInit
<1>2. BridgeInv /\ [Next]_vars => BridgeInv'
  BY BridgeInvStutter, BridgeInvEdge DEF Next
<1> QED BY <1>1, <1>2, PTL DEF Spec

-----------------------------------------------------------------------------
(***************************************************************************)
(* The theorems, for a slave that gives up what the watchdog gives up.     *)
(***************************************************************************)
\* Whenever the bridge is idle, every address, beat and answer of what it did
\* before is gone from the slave and from its own outputs.
THEOREM IdleLeavesNothing ==
    ASSUME ~LateAnswers
    PROVE  Spec => []NothingLeft
<1>1. BridgeInv => NothingLeft
  BY DEF BridgeInv, ReadInv, NoReads, Reads, WriteInv, NoWrites, NothingLeft
<1> QED BY <1>1, BridgeInvariant, PTL

\* A line that cpu_bus_bridge.sv reports as moved has been moved whole, each
\* beat once and in its place, whatever the length of the burst.
THEOREM LinesMoveWhole ==
    ASSUME ~LateAnswers
    PROVE  Spec => []WholeLines
<1>1. BridgeInv => WholeLines
  BY DEF BridgeInv
<1> QED BY <1>1, BridgeInvariant, PTL

\* Every register of the bridge and of the slave keeps its type; BridgeInv adds
\* that at most one transaction of each kind is open in the slave.
THEOREM BridgeTypeCorrect ==
    ASSUME ~LateAnswers
    PROVE  Spec => []TypeOK
<1>1. ASSUME BridgeInv
      PROVE  (\A k \in DOMAIN reads : reads[k] \in Open) /\ Len(reads) <= MaxOpen
  <2>1. reads = <<>> \/ \E n \in {1, NumBeats} : \E l \in 1 .. n, e \in BOOLEAN :
            reads = <<Read(n, l, e)>>
    BY <1>1 DEF BridgeInv, BridgeType, ReadInv, NoReads, Reading, Reads, States
  <2>2. ASSUME NEW n \in {1, NumBeats}, NEW l \in 1 .. n, NEW e \in BOOLEAN
        PROVE  Read(n, l, e) \in Open
    BY <2>2, Sizes DEF Read, Open
  <2>3. \A x : Len(<<x>>) = 1 /\ DOMAIN <<x>> = {1} /\ <<x>>[1] = x
    OBVIOUS
  <2> QED BY <2>1, <2>2, <2>3, Sizes
<1>2. ASSUME BridgeInv
      PROVE  Len(bursts) <= MaxOpen /\ addrs \in 0 .. MaxOpen
  <2>1. (bursts = <<>> \/ \E x : bursts = <<x>>) /\ addrs \in {0, 1}
    BY <1>2 DEF BridgeInv, BridgeType, WriteInv, NoWrites, Offering, Sending, Sent
  <2> QED BY <2>1, Sizes
<1>3. BridgeInv => TypeOK
  BY <1>1, <1>2 DEF BridgeInv, TypeOK
<1> QED BY <1>3, BridgeInvariant, PTL
=============================================================================
