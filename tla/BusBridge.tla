----------------------------- MODULE BusBridge -----------------------------
(***************************************************************************)
(* The bus bridge of the core, dev/rtl/core/cpu_bus_bridge.sv: it takes    *)
(* the requests of the instruction cache and of the data cache one at a    *)
(* time and carries each out as an AXI4 transaction of a single beat (a    *)
(* device access) or of a whole line (a refill or a write-back).           *)
(*                                                                         *)
(* One step is one rising clock edge.  Every action takes the wires the    *)
(* bus drives in that cycle as its argument i:                             *)
(*   i.arready, i.awready, i.wready   the ready wires of the slave         *)
(*   i.r, i.b                         its read beat and write response     *)
(*   i.moved    the instruction cache now asks for another address than    *)
(*              the one being read (icache_mmio_addr # addr_r)             *)
(*   i.timeout  the watchdog counter stands at its last value.             *)
(* The counter itself is left out: it runs freely, is cleared on entry to  *)
(* every state that looks at it, and a slave may be arbitrarily slow, so   *)
(* i.timeout may hold in any cycle spent in one of those states.           *)
(*                                                                         *)
(* Abstractions: addresses, sizes, byte lanes, the constant AXI signals and *)
(* dcache_error_is_store (the kind of access, told with an error) are left *)
(* out; a beat is represented by its number within its line, so that       *)
(* wb_shift_reg, shifted once per beat, is beat itself.                    *)
(*                                                                         *)
(* An operator whose comment begins with "Slip" is a plausible coding slip *)
(* in the definition that follows it; nothing uses it.                     *)
(***************************************************************************)
EXTENDS Integers, Sequences

CONSTANT NumBeats       \* words of a line, beats of a burst
ASSUME BeatsAssumption == NumBeats \in Nat /\ NumBeats > 2

Beats == 0 .. NumBeats - 1
Blank == NumBeats       \* a word of refill_shift_reg that holds no beat

Reads  == {"MMIO_R", "IREFILL_R", "DREFILL_R"}
States == Reads \cup {"IDLE", "MMIO_AR", "MMIO_AW_W", "MMIO_B",
                      "IREFILL_AR", "DREFILL_AR", "WB_AW", "WB_W", "WB_B"}

\* The states that look at the watchdog: not the address states of a burst.
Watched == Reads \cup {"MMIO_AR", "MMIO_AW_W", "MMIO_B", "WB_W", "WB_B"}

Requests == {"icache_mmio", "dcache_mmio", "dcache_wb", "icache_refill", "dcache_refill"}
Mmio     == {"icache_mmio", "dcache_mmio"}
Refills  == {"icache_refill", "dcache_refill"}

Pulses == {"icache_mmio_accept", "dcache_mmio_accept", "inst_valid", "data_valid",
           "icache_refill_valid", "dcache_refill_valid", "dcache_refill_done",
           "dcache_refill_error", "dcache_wb_valid", "dcache_wb_done",
           "dcache_wb_error", "icache_error", "dcache_error"}

VARIABLES
    req,                        \* the request wires that are up
    state,
    inst,                       \* is_inst_r
    arvalid, awvalid, wvalid,
    wdata, wlast,               \* the beat on the W channel
    awDone, wDone,              \* aw_hs_done_r, w_hs_done_r
    beat,                       \* beat_cnt
    line,                       \* refill_shift_reg
    ack,                        \* the answer pulses that are up
    waitDrop,                   \* dcache_wb_wait_drop_r
    wbTurn, refillTurn          \* wb_starve_cnt_r, wb_boost_r; the same for refills

readVars   == <<inst, arvalid, line>>
writeVars  == <<awvalid, wvalid, wdata, wlast, awDone, wDone>>
turnVars   == <<wbTurn, refillTurn>>
bridgeVars == <<state, readVars, writeVars, beat, ack, waitDrop, turnVars>>

NoTurn == [starve |-> 0, boost |-> FALSE]

BridgeInit ==
    /\ state = "IDLE" /\ inst = FALSE
    /\ arvalid = FALSE /\ awvalid = FALSE /\ wvalid = FALSE
    /\ wdata = 0 /\ wlast = TRUE
    /\ awDone = FALSE /\ wDone = FALSE
    /\ beat = 0 /\ line = [b \in Beats |-> Blank]
    /\ ack = {} /\ waitDrop = FALSE
    /\ wbTurn = NoTurn /\ refillTurn = NoTurn

\* The write-back request has to fall once before the next one is taken.
DropSeen == waitDrop' = (waitDrop /\ "dcache_wb" \in req)

rready == state \in Reads
bready == state \in {"MMIO_B", "WB_B"}

-----------------------------------------------------------------------------
(***************************************************************************)
(* Arbitration.  In IDLE each of the two counters counts the cycles its    *)
(* requests have been passed over and, after the fourth, boosts them.      *)
(***************************************************************************)
Asked(rs) == req \cap rs # {}

\* Slip: the boost comes one cycle late.
CountedUpLate(t) == IF t.starve = 4 THEN [starve |-> 0, boost |-> TRUE]
                                    ELSE [t EXCEPT !.starve = t.starve + 1]

CountedUp(t) == IF t.starve = 3 THEN [starve |-> 0, boost |-> TRUE]
                                ELSE [t EXCEPT !.starve = t.starve + 1]

WbCounted ==
    IF "dcache_wb" \notin req THEN NoTurn
    ELSE IF ~Asked(Mmio) THEN [wbTurn EXCEPT !.starve = 0]
    ELSE IF wbTurn.boost THEN wbTurn ELSE CountedUp(wbTurn)

RefillCounted ==
    IF ~Asked(Refills) THEN NoTurn
    ELSE IF refillTurn.boost THEN refillTurn
    ELSE IF Asked(Mmio \cup {"dcache_wb"}) THEN CountedUp(refillTurn)
    ELSE NoTurn

\* The pulse that says a request has just been answered, so that what is
\* still up of it in this cycle is not taken for another one.
Answer == [icache_mmio |-> "inst_valid", dcache_mmio |-> "data_valid",
           dcache_wb |-> "dcache_wb_valid", icache_refill |-> "icache_refill_valid",
           dcache_refill |-> "dcache_refill_valid"]

\* Slip: a write-back is taken again before its request has fallen.
EligibleAtOnce == {r \in req : Answer[r] \notin ack}

Eligible == {r \in req : Answer[r] \notin ack /\ (r = "dcache_wb" => ~waitDrop)}

RefillBoosted == Asked(Refills) /\ refillTurn.boost

\* Slip: the boost of the refills is never used.
PriorityUnboosted == <<"icache_mmio", "dcache_mmio", "dcache_wb", "icache_refill", "dcache_refill">>

\* Requests in the order in which IDLE considers them.
Priority ==
    IF RefillBoosted THEN <<"icache_refill", "dcache_refill">>
    ELSE IF wbTurn.boost
    THEN <<"dcache_wb", "icache_mmio", "dcache_mmio", "icache_refill", "dcache_refill">>
    ELSE <<"icache_mmio", "dcache_mmio", "dcache_wb", "icache_refill", "dcache_refill">>

Granted(r) == \E k \in DOMAIN Priority :
    /\ Priority[k] = r /\ r \in Eligible
    /\ \A j \in 1 .. k - 1 : Priority[j] \notin Eligible

IdleDefaults ==
    /\ state = "IDLE"
    /\ arvalid' = FALSE /\ awvalid' = FALSE /\ wvalid' = FALSE
    /\ DropSeen
    /\ wbTurn' = IF Granted("dcache_wb") THEN NoTurn ELSE WbCounted
    /\ refillTurn' = IF RefillBoosted \/ Granted("icache_refill") \/ Granted("dcache_refill")
                     THEN NoTurn ELSE RefillCounted
    /\ UNCHANGED <<wdata, wlast>>

IdleWait ==
    /\ IdleDefaults
    /\ \A r \in Requests : ~Granted(r)
    /\ ack' = {}
    /\ UNCHANGED <<state, inst, line, awDone, wDone, beat>>

GrantMmioRead ==
    /\ IdleDefaults
    /\ \E r \in Mmio :
         /\ Granted(r)
         /\ inst' = (r = "icache_mmio")
         /\ ack' = {IF r = "icache_mmio" THEN "icache_mmio_accept" ELSE "dcache_mmio_accept"}
    /\ state' = "MMIO_AR"
    /\ UNCHANGED <<line, awDone, wDone, beat>>

GrantMmioWrite ==
    /\ IdleDefaults
    /\ Granted("dcache_mmio")
    /\ inst' = FALSE
    /\ ack' = {"dcache_mmio_accept"}
    /\ awDone' = FALSE /\ wDone' = FALSE
    /\ state' = "MMIO_AW_W"
    /\ UNCHANGED <<line, beat>>

GrantRefill ==
    /\ IdleDefaults
    /\ \E r \in Refills :
         /\ Granted(r)
         /\ state' = IF r = "icache_refill" THEN "IREFILL_AR" ELSE "DREFILL_AR"
    /\ beat' = 0 /\ line' = [b \in Beats |-> Blank]
    /\ ack' = {}
    /\ UNCHANGED <<inst, awDone, wDone>>

\* Slip: the handshakes of the previous write are still noted.
FreshHandshakesKept == UNCHANGED <<awDone, wDone>>

FreshHandshakes == awDone' = FALSE /\ wDone' = FALSE

GrantWb ==
    /\ IdleDefaults
    /\ Granted("dcache_wb")
    /\ beat' = 0
    /\ FreshHandshakes
    /\ ack' = {}
    /\ state' = "WB_AW"
    /\ UNCHANGED <<inst, line>>

Idle == IdleWait \/ GrantMmioRead \/ GrantMmioWrite \/ GrantRefill \/ GrantWb

-----------------------------------------------------------------------------
(***************************************************************************)
(* Reads.  The address states leave when arready is up, whether or not     *)
(* arvalid, which they set one cycle later, is up as well.                 *)
(***************************************************************************)
MmioFailed == IF inst THEN {"inst_valid", "icache_error"} ELSE {"data_valid", "dcache_error"}

ReadDefaults ==
    /\ DropSeen
    /\ UNCHANGED <<writeVars, turnVars>>

MmioAr(i) ==
    /\ state = "MMIO_AR"
    /\ ReadDefaults
    /\ arvalid' = ~i.timeout
    /\ state' = IF i.timeout THEN "IDLE" ELSE IF i.arready THEN "MMIO_R" ELSE state
    /\ ack' = IF i.timeout THEN MmioFailed ELSE {}
    /\ UNCHANGED <<inst, beat, line>>

\* An instruction word for an address that is no longer asked for is dropped,
\* and the read starts over if there is still a request.
MmioR(i) ==
    /\ state = "MMIO_R"
    /\ ReadDefaults
    /\ arvalid' = FALSE
    /\ LET stale == i.r.valid /\ inst /\ i.moved
       IN  /\ state' = IF i.timeout \/ (i.r.valid /\ ~stale) THEN "IDLE"
                       ELSE IF ~stale THEN state
                       ELSE IF "icache_mmio" \in req THEN "MMIO_AR" ELSE "IDLE"
           /\ ack' = IF i.timeout THEN MmioFailed
                     ELSE IF ~i.r.valid \/ stale THEN {}
                     ELSE IF i.r.error THEN MmioFailed
                     ELSE IF inst THEN {"inst_valid"} ELSE {"data_valid"}
    /\ UNCHANGED <<inst, beat, line>>

RefillAr(i) ==
    /\ state \in {"IREFILL_AR", "DREFILL_AR"}
    /\ ReadDefaults
    /\ arvalid' = TRUE
    /\ state' = IF ~i.arready THEN state
                ELSE IF state = "IREFILL_AR" THEN "IREFILL_R" ELSE "DREFILL_R"
    /\ ack' = {}
    /\ UNCHANGED <<inst, beat, line>>

RefillFailed == IF state = "IREFILL_R" THEN {"icache_refill_valid", "icache_error"}
                ELSE {"dcache_refill_done", "dcache_refill_error", "dcache_error"}
RefillGood   == IF state = "IREFILL_R" THEN {"icache_refill_valid"}
                ELSE {"dcache_refill_valid", "dcache_refill_done"}

\* Slip: the refill ends with the first beat that carries an error.
RefillEndsAtError(i) == i.timeout \/ (i.r.valid /\ (i.r.last \/ i.r.error))

RefillEnds(i) == i.timeout \/ (i.r.valid /\ i.r.last)

\* A beat with an error is dropped; the burst is received to its end.
RefillR(i) ==
    /\ state \in {"IREFILL_R", "DREFILL_R"}
    /\ ReadDefaults
    /\ arvalid' = FALSE
    /\ LET good == ~i.timeout /\ i.r.valid /\ ~i.r.error
       IN  /\ line' = IF good THEN [line EXCEPT ![beat] = i.r.beat] ELSE line
           /\ beat' = IF good /\ ~i.r.last THEN (beat + 1) % NumBeats ELSE beat
           /\ state' = IF RefillEnds(i) THEN "IDLE" ELSE state
           /\ ack' = IF ~RefillEnds(i) THEN {} ELSE IF good THEN RefillGood ELSE RefillFailed
    /\ UNCHANGED inst

-----------------------------------------------------------------------------
(***************************************************************************)
(* Writes.  Address and first beat are offered together, and each          *)
(* handshake is noted until both are over.                                 *)
(***************************************************************************)
AwTaken(i) == awDone \/ (awvalid /\ i.awready)
WTaken(i)  == wDone \/ (wvalid /\ i.wready)

MmioAwW(i) ==
    LET over == i.timeout \/ (AwTaken(i) /\ WTaken(i))
    IN  /\ state = "MMIO_AW_W"
        /\ DropSeen
        /\ awDone' = AwTaken(i) /\ wDone' = WTaken(i)
        /\ awvalid' = (~over /\ (awvalid \/ ~awDone))
        /\ wvalid' = (~over /\ (wvalid \/ ~wDone))
        /\ wdata' = IF wDone THEN wdata ELSE 0
        /\ wlast' = (wlast \/ ~wDone)
        /\ state' = IF i.timeout THEN "IDLE" ELSE IF over THEN "MMIO_B" ELSE state
        /\ ack' = IF i.timeout THEN {"data_valid", "dcache_error"} ELSE {}
        /\ UNCHANGED <<readVars, beat, turnVars>>

MmioB(i) ==
    /\ state = "MMIO_B"
    /\ DropSeen
    /\ state' = IF i.timeout \/ i.b.valid THEN "IDLE" ELSE state
    /\ ack' = IF i.timeout \/ (i.b.valid /\ i.b.error) THEN {"data_valid", "dcache_error"}
              ELSE IF i.b.valid THEN {"data_valid"} ELSE {}
    /\ UNCHANGED <<readVars, writeVars, beat, turnVars>>

WbAw(i) ==
    LET over == AwTaken(i) /\ WTaken(i)
    IN  /\ state = "WB_AW"
        /\ DropSeen
        /\ awDone' = AwTaken(i) /\ wDone' = WTaken(i)
        /\ awvalid' = (~over /\ ~awDone)
        /\ wvalid' = (over \/ ~wDone)
        /\ wdata' = IF over THEN 1 ELSE IF wDone THEN wdata ELSE 0
        /\ wlast' = (~over /\ wDone /\ wlast)
        /\ beat' = IF over THEN 1 ELSE beat
        /\ state' = IF over THEN "WB_W" ELSE state
        /\ ack' = {}
        /\ UNCHANGED <<readVars, turnVars>>

WbFailed == {"dcache_wb_done", "dcache_wb_error", "dcache_error"}

\* Slip: the last beat is announced one beat late.
LastFollowsLate == beat = NumBeats - 1

\* The beat after this one is the last.
LastFollows == beat = NumBeats - 2

WbW(i) ==
    LET sent == ~i.timeout /\ wvalid /\ i.wready
    IN  /\ state = "WB_W"
        /\ awvalid' = FALSE
        /\ wvalid' = (wvalid /\ ~i.timeout /\ ~(sent /\ wlast))
        /\ wdata' = IF sent /\ ~wlast THEN (beat + 1) % NumBeats ELSE wdata
        /\ wlast' = IF sent /\ ~wlast THEN LastFollows ELSE wlast
        /\ beat' = IF sent /\ ~wlast THEN (beat + 1) % NumBeats ELSE beat
        /\ state' = IF i.timeout THEN "IDLE" ELSE IF sent /\ wlast THEN "WB_B" ELSE state
        /\ ack' = IF i.timeout THEN WbFailed ELSE {}
        /\ IF i.timeout THEN waitDrop' = TRUE ELSE DropSeen
        /\ UNCHANGED <<readVars, awDone, wDone, turnVars>>

WbAnswer(i) == IF i.timeout \/ i.b.error THEN WbFailed
               ELSE {"dcache_wb_valid", "dcache_wb_done"}

WbB(i) ==
    LET over == i.timeout \/ i.b.valid
    IN  /\ state = "WB_B"
        /\ state' = IF over THEN "IDLE" ELSE state
        /\ ack' = IF over THEN WbAnswer(i) ELSE {}
        /\ IF over THEN waitDrop' = TRUE ELSE DropSeen
        /\ UNCHANGED <<readVars, writeVars, beat, turnVars>>

\* One clock edge of the bridge.
BridgeStep(i) ==
    \/ Idle
    \/ MmioAr(i) \/ MmioR(i) \/ RefillAr(i) \/ RefillR(i)
    \/ MmioAwW(i) \/ MmioB(i) \/ WbAw(i) \/ WbW(i) \/ WbB(i)
=============================================================================
