----------------------------- MODULE BridgeSide -----------------------------
(***************************************************************************)
(* The bus bridge between the two caches that ask it and the bus it asks.  *)
(*                                                                         *)
(* A cache raises and withdraws its requests as it likes, but lowers one   *)
(* that has been answered.  The bus behind the bridge is one of the two    *)
(* slaves the repository puts there:                                       *)
(*   "fifo"  Axi_CDC, which always has room for a whole transaction, in    *)
(*           front of the crossbar (dev/rtl/system_top.sv);                *)
(*   "ram"   axi_wrap_ram, which takes an address only when it is idle and *)
(*           the beats of a write only after its address.                  *)
(* Either answers in order, after any time, and a transaction fails as a   *)
(* whole.  LateAnswers says whether a transaction that the watchdog has    *)
(* given up still goes on in the slave; without it, it is gone.            *)
(***************************************************************************)
EXTENDS BusBridge

CONSTANTS Slaves,       \* the kinds of slave considered
          LateAnswers,
          MaxOpen       \* bound on the transactions open in the slave
ASSUME SlavesAssumption == Slaves \subseteq {"fifo", "ram"} /\ Slaves # {}
ASSUME LateAnswersAssumption == LateAnswers \in BOOLEAN
ASSUME MaxOpenAssumption == MaxOpen \in Nat \ {0}

VARIABLES
    slave,      \* which slave it is
    reads,      \* reads it has accepted: beats still to send, failure, whose
    addrs,      \* write addresses it has accepted and not answered
    filling,    \* the burst of write beats it is receiving
    bursts,     \* the complete bursts it has not answered
    landed,     \* the beats of the last burst it has answered
    foreign     \* what the bridge took last belonged to a transaction given up

slaveVars == <<slave, reads, addrs, filling, bursts, landed, foreign>>
vars == <<req, bridgeVars, slaveVars>>

NoBurst == [own |-> TRUE, beats |-> <<>>]

Init ==
    /\ BridgeInit
    /\ req = {}
    /\ slave \in Slaves
    /\ reads = <<>> /\ addrs = 0
    /\ filling = NoBurst /\ bursts = <<>> /\ landed = <<>>
    /\ foreign = FALSE

-----------------------------------------------------------------------------
(***************************************************************************)
(* The wires of the slave in one cycle.                                    *)
(***************************************************************************)
arready == IF slave = "fifo" THEN Len(reads) < MaxOpen ELSE reads = <<>>
awready == IF slave = "fifo" THEN addrs < MaxOpen ELSE addrs = 0
wready  == IF slave = "fifo" THEN Len(bursts) < MaxOpen ELSE addrs > 0 /\ bursts = <<>>

NoBeat     == [valid |-> FALSE, last |-> FALSE, error |-> FALSE, beat |-> Blank]
NoResponse == [valid |-> FALSE, error |-> FALSE]

\* A beat may be there when the slave has one, a response when it owes one.
OfferedBeats ==
    {NoBeat} \cup
    IF reads = <<>> \/ ~rready THEN {}
    ELSE {[valid |-> TRUE, last |-> Head(reads).left = 1, error |-> Head(reads).error,
           beat |-> Head(reads).len - Head(reads).left]}
OfferedResponses ==
    {NoResponse} \cup
    IF addrs = 0 \/ bursts = <<>> \/ ~bready THEN {}
    ELSE [valid : {TRUE}, error : BOOLEAN]

Wires ==
    [arready : {arready}, awready : {awready}, wready : {wready},
     r : OfferedBeats, b : OfferedResponses,
     moved : IF state = "MMIO_R" /\ inst THEN BOOLEAN ELSE {FALSE},
     timeout : IF state \in Watched THEN BOOLEAN ELSE {FALSE}]

-----------------------------------------------------------------------------
(***************************************************************************)
(* What the slave does with the cycle.                                     *)
(***************************************************************************)
BurstLen == IF state \in {"MMIO_AR", "MMIO_R"} THEN 1 ELSE NumBeats

ReadsServed(i) ==
    IF ~i.r.valid THEN reads
    ELSE IF i.r.last THEN Tail(reads)
    ELSE [reads EXCEPT ![1].left = @ - 1]

Disowned(x) == [x EXCEPT !.own = FALSE]
AllDisowned(s) == [k \in DOMAIN s |-> Disowned(s[k])]

SlaveReads(i) ==
    \E error \in BOOLEAN :
        LET asked == arvalid /\ i.arready
            open  == IF asked
                     THEN Append(ReadsServed(i), [len |-> BurstLen, left |-> BurstLen,
                                                  error |-> error, own |-> TRUE])
                     ELSE ReadsServed(i)
        IN  /\ ~asked => ~error
            /\ reads' = IF ~i.timeout THEN open
                        ELSE IF LateAnswers THEN AllDisowned(open) ELSE <<>>

SlaveWrites(i) ==
    LET asked    == awvalid /\ i.awready
        sent     == wvalid /\ i.wready
        burst    == [filling EXCEPT !.beats = Append(@, wdata)]
        answered == IF i.b.valid THEN Tail(bursts) ELSE bursts
        partial  == IF ~sent THEN filling ELSE IF wlast THEN NoBurst ELSE burst
        full     == IF sent /\ wlast THEN Append(answered, burst) ELSE answered
        open     == addrs + (IF asked THEN 1 ELSE 0) - (IF i.b.valid THEN 1 ELSE 0)
    IN  /\ landed' = IF i.b.valid THEN Head(bursts).beats ELSE landed
        /\ IF ~i.timeout THEN filling' = partial /\ bursts' = full /\ addrs' = open
           ELSE IF LateAnswers
           THEN /\ filling' = IF partial = NoBurst THEN NoBurst ELSE Disowned(partial)
                /\ bursts' = AllDisowned(full)
                /\ addrs' = open
           ELSE filling' = NoBurst /\ bursts' = <<>> /\ addrs' = 0

Owner(i) ==
    foreign' = IF i.r.valid THEN ~Head(reads).own
               ELSE IF i.b.valid THEN ~Head(bursts).own ELSE FALSE

Slave(i) == SlaveReads(i) /\ SlaveWrites(i) /\ Owner(i) /\ UNCHANGED slave

\* The caches: an answered request falls, and one other may rise or fall.
Ends == [icache_mmio |-> "icache_mmio_accept", dcache_mmio |-> "dcache_mmio_accept",
         dcache_wb |-> "dcache_wb_done", icache_refill |-> "icache_refill_valid",
         dcache_refill |-> "dcache_refill_done"]
Answered == {r \in req : Ends[r] \in ack}

Caches ==
    \/ req' = req \ Answered
    \/ \E r \in Requests \ Answered :
         req' = IF r \in req THEN (req \ Answered) \ {r} ELSE (req \ Answered) \cup {r}

Edge(i) == BridgeStep(i) /\ Slave(i) /\ Caches
Next == \E i \in Wires : Edge(i)

(***************************************************************************)
(* Fairness: the clock runs, and the watchdog counter reaches its last     *)
(* value in the end in a state that is not left.                           *)
(***************************************************************************)
ClockRuns     == WF_vars(Next)
WatchdogFires == WF_state(\E i \in Wires : i.timeout /\ Edge(i))

Spec == Init /\ [][Next]_vars
FairSpec == Spec /\ ClockRuns /\ WatchdogFires

-----------------------------------------------------------------------------
Open == [own : BOOLEAN, error : BOOLEAN, len : {1, NumBeats}, left : 1 .. NumBeats]

Turn == [starve : 0 .. 3, boost : BOOLEAN]

BridgeType ==
    /\ req \subseteq Requests
    /\ state \in States /\ inst \in BOOLEAN
    /\ arvalid \in BOOLEAN /\ awvalid \in BOOLEAN /\ wvalid \in BOOLEAN
    /\ wdata \in Beats /\ wlast \in BOOLEAN
    /\ awDone \in BOOLEAN /\ wDone \in BOOLEAN
    /\ beat \in Beats /\ line \in [Beats -> Beats \cup {Blank}]
    /\ ack \subseteq Pulses /\ waitDrop \in BOOLEAN
    /\ wbTurn \in Turn /\ refillTurn \in Turn

TypeOK ==
    /\ BridgeType
    /\ slave \in Slaves
    /\ \A k \in DOMAIN reads : reads[k] \in Open
    /\ Len(reads) <= MaxOpen /\ Len(bursts) <= MaxOpen /\ addrs \in 0 .. MaxOpen
    /\ foreign \in BOOLEAN

(***************************************************************************)
(* The bridge keeps the contract that DataSide assumes of the bus.         *)
(***************************************************************************)
DataOp ==
    CASE state \in {"DREFILL_AR", "DREFILL_R"} -> "refill"
      [] state \in {"WB_AW", "WB_W", "WB_B"} -> "wb"
      [] state \in {"MMIO_AR", "MMIO_R"} /\ ~inst -> "mmio"
      [] state \in {"MMIO_AW_W", "MMIO_B"} -> "mmio"
      [] OTHER -> "idle"

Contract == INSTANCE DataBus WITH
    mmioReq <- "dcache_mmio" \in req, wbReq <- "dcache_wb" \in req,
    refillReq <- "dcache_refill" \in req,
    op <- DataOp, waitDrop <- waitDrop,
    mmioAccept <- "dcache_mmio_accept" \in ack, mmioValid <- "data_valid" \in ack,
    mmioError <- "data_valid" \in ack /\ "dcache_error" \in ack,
    wbDone <- "dcache_wb_done" \in ack, wbError <- "dcache_wb_error" \in ack,
    refillDone <- "dcache_refill_done" \in ack, refillError <- "dcache_refill_error" \in ack

\* Whatever the instruction cache does and whenever the watchdog fires, the
\* data cache sees one transaction at a time, started by a request of its own
\* and ended by one pulse of the right kind.
KeepsContract == Contract!Spec

WholeBurst == [k \in 1 .. NumBeats |-> k - 1]

\* A write-back that is reported good has put every beat of its line on the
\* bus once and in order, and a refill that is reported good has received
\* every beat of its line, each in its place.
WholeLines ==
    /\ "dcache_wb_valid" \in ack => landed = WholeBurst
    /\ "dcache_refill_valid" \in ack => line = [b \in Beats |-> b]
    /\ "icache_refill_valid" \in ack /\ "icache_error" \notin ack => line = [b \in Beats |-> b]

\* When the bridge is idle it has left nothing behind in the slave: no second
\* address, no beat too many, no answer that the next transaction would take.
NothingLeft ==
    state = "IDLE" =>
        /\ reads = <<>> /\ addrs = 0 /\ filling = NoBurst /\ bursts = <<>>
        /\ ~arvalid /\ ~awvalid /\ ~wvalid

\* An answer the bridge takes belongs to the transaction it is doing: "This is
\* safe: rvalid/bvalid only come after we initiated the transaction" (comment
\* at the end of cpu_bus_bridge.sv).
OwnAnswer == ~foreign

\* However the others ask, a write-back and an instruction refill get through:
\* that is what the two counters of IDLE are for.  (Not so a data refill or a
\* device access, which an instruction side that never rests can pass over for
\* ever; the core does not fetch while a data access waits.)
Served(r) == r \in req ~> (r \notin req \/ Ends[r] \in ack)
NoStarvation == Served("dcache_wb") /\ Served("icache_refill")
=============================================================================
