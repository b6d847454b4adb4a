------------------------------ MODULE MCBridge ------------------------------
(***************************************************************************)
(* BridgeSide for TLC.  A payload register keeps its last value for as     *)
(* long as nobody reads it; LiveState shows TLC such a register only while *)
(* some state may still read it.                                           *)
(***************************************************************************)
EXTENDS BridgeSide

Live(c, x) == IF c THEN <<x>> ELSE <<>>

Refilling == state \in {"IREFILL_AR", "IREFILL_R", "DREFILL_AR", "DREFILL_R"}
Writing   == state \in {"MMIO_AW_W", "WB_AW", "WB_W"}
Refilled  == ack \cap {"icache_refill_valid", "dcache_refill_valid"} # {}

LiveState ==
    <<req, state, arvalid, awvalid, wvalid, ack, waitDrop, wbTurn, refillTurn,
      Live(state \in {"MMIO_AR", "MMIO_R"}, inst),
      Live(wvalid, <<wdata, wlast>>),
      Live(Writing, <<awDone, wDone>>),
      Live(Refilling \/ Writing, beat),
      Live(Refilling \/ Refilled, line),
      slave, reads, addrs, filling, bursts, foreign,
      Live("dcache_wb_valid" \in ack, landed)>>
=============================================================================
