----------------------------- MODULE MCDataSide -----------------------------
(***************************************************************************)
(* DataSide for TLC.  Block-RAM outputs, latches and payloads keep their   *)
(* last value for as long as nobody reads them; LiveState shows TLC such a *)
(* register only while some state may still read it, so that states that   *)
(* differ in dead values alone are explored once.  What a register is      *)
(* masked by is where the module reads it.                                 *)
(***************************************************************************)
EXTENDS DataSideInv, TLC

Live(c, x) == IF c THEN <<x>> ELSE <<>>

LookingUp == state \in {"TAG_READ"}
Scanning  == state \in {"FLUSH_SCAN", "FLUSH_CHECK", "FLUSH_WB_RD",
                        "FLUSH_WB_SD", "FLUSH_WB_WAIT", "INV_LINE", "INV_LINE_WRITE"}
Draining  == state \in {"FLUSH_WB_RD", "FLUSH_WB_SD", "INV_LINE", "INV_LINE_WRITE"}
Clearing  == state \in {"RST_CLEAR", "FLUSH_INVALIDATE", "FLUSH_WB_WAIT"}

LiveControl ==
    <<state, tagRam, tagWr, cpuReady, ptwReady, ptwFault, wbReq,
      flushDone, flushError, mmioPending, mmioInflight,
      Live(state \in {"TAG_READ", "FLUSH_CHECK", "INV_LINE_WRITE"}, tagOut),
      Live(Serving, isPtw),
      Live(LookingUp /\ isPtw, ptwAddr),
      Live(Missing, <<miss.set, miss.way, miss.tag, miss.victimTag, miss.word>>),
      Live(Missing /\ miss.write, miss.data),
      Live(Draining, <<miss.set, miss.way, miss.victimTag>>),
      Live(Scanning, <<flushSet, flushWay, flushResume>>),
      Live(Clearing, clearSet),
      Live(mmioPending \/ (bus.op = "mmio" /\ cpu.valid), mmioOp)>>

LiveInputs ==
    <<cpu.valid, Live(cpu.valid \/ (LookingUp /\ ~isPtw), cpu),
      mmuReady, Live(ptw.valid, ptw), flushReq, amoAbort,
      refill.done, refill.error, wbAck, mmioAck.accept, mmioAck.valid, mmioAck.error>>

LiveSide ==
    <<bus.op, Live(bus.op \in {"refill", "wb"}, bus.addr), waitDrop, fault, devOps>>

LiveData ==
    <<dataRam, memory,
      Live(state = "READ_HIT", hitWord),
      Live(state \in {"WB_SEND", "FLUSH_WB_SD"}, lineOut),
      Live((cpuReady /\ cpu.valid /\ ~cpu.write) \/ (ptwReady /\ ~ptwFault), bypass),
      Live(refill.done /\ ~refill.error, refill.data),
      Live(mmioAck.valid, mmioAck.data),
      Live(bus.op = "wb", bus.line)>>

LiveState == <<LiveControl, LiveInputs, LiveSide, LiveData>>

(***************************************************************************)
(* With one word per line a store overwrites the whole line, so what a     *)
(* clean line holds, and what memory holds, never gets into a dirty one:   *)
(* a property that is about tags and dirty lines only is checked under a   *)
(* view that leaves the rest out.                                          *)
(***************************************************************************)
StoredData ==
    [s \in Sets |-> [w \in Ways |-> Live(EffTags[s][w].d, dataRam[s][w])]]

DirtyState == <<LiveControl, LiveInputs, LiveSide, StoredData>>

\* Tags are only ever compared, so tags other than the all-zero one may swap.
TagSymmetry == Permutations(Tags \ {ZeroTag})

\* Explore only what happens while the CPU accesses memory; the walker may
\* still ask for a device address.
CpuInMemory == ~cpu.mmio

\* Explore only stores of a word that main memory does not begin with, so that
\* what a refill would put over a store shows.
StoresShow == cpu.write => cpu.data # ZeroValue
=============================================================================
