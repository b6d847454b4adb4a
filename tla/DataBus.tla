------------------------------ MODULE DataBus ------------------------------
(***************************************************************************)
(* What the bus bridge promises the data cache: it does one transaction at *)
(* a time, starts none that is not asked for, and ends each with exactly   *)
(* one pulse, of the right kind, that says whether it failed.  A           *)
(* write-back request has to fall before another write-back is started.    *)
(*                                                                         *)
(* These are the bus actions of DataSide, without the lines they carry:    *)
(* what DataSide takes for granted of the bus is what is stated here.      *)
(***************************************************************************)
VARIABLES
    mmioReq, wbReq, refillReq,      \* the requests of the data cache
    op,                             \* "idle", or the transaction under way
    waitDrop,
    mmioAccept, mmioValid, mmioError,
    wbDone, wbError,
    refillDone, refillError

busVars == <<op, waitDrop, mmioAccept, mmioValid, mmioError,
             wbDone, wbError, refillDone, refillError>>

MmioQuiet   == ~mmioAccept' /\ ~mmioValid' /\ ~mmioError'
WbQuiet     == ~wbDone' /\ ~wbError'
RefillQuiet == ~refillDone' /\ ~refillError'
DropSeen    == waitDrop' = (waitDrop /\ wbReq)

Init ==
    /\ op = "idle" /\ ~waitDrop
    /\ ~mmioAccept /\ ~mmioValid /\ ~mmioError
    /\ ~wbDone /\ ~wbError /\ ~refillDone /\ ~refillError

Wait ==
    /\ op' = op
    /\ MmioQuiet /\ WbQuiet /\ RefillQuiet /\ DropSeen

StartMmio ==
    /\ op = "idle" /\ mmioReq /\ ~mmioValid
    /\ op' = "mmio"
    /\ mmioAccept' /\ ~mmioValid' /\ ~mmioError'
    /\ WbQuiet /\ RefillQuiet /\ DropSeen

StartWb ==
    /\ op = "idle" /\ wbReq /\ ~waitDrop
    /\ op' = "wb"
    /\ MmioQuiet /\ WbQuiet /\ RefillQuiet /\ DropSeen

StartRefill ==
    /\ op = "idle" /\ refillReq /\ ~(refillDone /\ ~refillError)
    /\ op' = "refill"
    /\ MmioQuiet /\ WbQuiet /\ RefillQuiet /\ DropSeen

EndMmio ==
    /\ op = "mmio"
    /\ op' = "idle"
    /\ mmioValid' /\ ~mmioAccept'
    /\ WbQuiet /\ RefillQuiet /\ DropSeen

EndWb ==
    /\ op = "wb"
    /\ op' = "idle"
    /\ wbDone' /\ waitDrop'
    /\ MmioQuiet /\ RefillQuiet

EndRefill ==
    /\ op = "refill"
    /\ op' = "idle"
    /\ refillDone'
    /\ MmioQuiet /\ WbQuiet /\ DropSeen

Next == \/ Wait
        \/ StartMmio \/ StartWb \/ StartRefill
        \/ EndMmio \/ EndWb \/ EndRefill

Spec == Init /\ [][Next]_busVars
=============================================================================
