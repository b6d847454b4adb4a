-------------------------- MODULE WordMemoryProofs --------------------------
(***************************************************************************)
(* The data cache is a memory of words: for a cache of any geometry, any   *)
(* tags and words, over a bus that makes no errors, DataSide implements    *)
(* WordMemory, a clean line is a copy of main memory, and every device     *)
(* access is made once.                                                    *)
(*                                                                         *)
(* The invariant is MemoryInv of DataSideInv.  First what the neighbours   *)
(* and the controller do to a request that is being served (CoreStep),     *)
(* then the bus and the device accesses (LinesStep, DeviceStep), then the  *)
(* contents: what each action that touches a tag, a line or main memory    *)
(* does to Seen (ContentsStep, OutputsStep).  AnswerStep is the            *)
(* refinement: every answer is that of a memory of words.                  *)
(***************************************************************************)
EXTENDS DataSideProofs

-----------------------------------------------------------------------------
(***************************************************************************)
(* Requests.                                                               *)
(***************************************************************************)
\* What the neighbours do when the bus makes no errors: nobody withdraws a
\* translated request or a walk, and a flush is asked for with the core quiet.
LEMMA CalmNeighbours ==
    ASSUME ~BusFaults, TypeOK, MemoryInv, Next
    PROVE  /\ ~refill'.error /\ ~wbAck'.error /\ ~mmioAck'.error /\ ~fault'
           /\ cpu.valid /\ mmuReady /\ ~cpuReady => cpu' = cpu
           /\ ptw.valid /\ ~ptwReady => ptw' = ptw
           /\ amoAbort' => cpu.valid /\ ~cpuReady /\ ~mmuReady /\ ~ptw.valid
           /\ flushReq' => ~cpu'.valid /\ ~ptw'.valid
           /\ flushReq /\ ~flushDone => flushReq'
<1> USE DEF TypeOK, CacheType, SideType, CpuRequest, PtwRequest, MemoryInv, NoErrors, FlushAlone
<1>1. ~BusError
  BY DEF BusError
<1>2. Cpu /\ Walk /\ Fence /\ BusStep
  BY DEF Next
<1>3. ~refill'.error /\ ~wbAck'.error /\ ~mmioAck'.error
  <2> USE DEF BusQuiet, MmioQuiet, NoRefill, NoWbAck, NoMmioAck, Errors
  <2>1. CASE BusWait
    BY <2>1 DEF BusWait
  <2>2. CASE StartMmio
    BY <2>2 DEF StartMmio
  <2>3. CASE StartWb
    BY <2>3 DEF StartWb
  <2>4. CASE StartRefill
    BY <2>4 DEF StartRefill
  <2>5. CASE EndMmio
    BY <2>5 DEF EndMmio
  <2>6. CASE EndWb
    BY <2>6 DEF EndWb
  <2>7. CASE EndRefill
    BY <2>7 DEF EndRefill
  <2> QED BY <1>2, <2>1, <2>2, <2>3, <2>4, <2>5, <2>6, <2>7 DEF BusStep, BusStart, BusEnd
<1>4. /\ ~fault'
      /\ cpu.valid /\ mmuReady /\ ~cpuReady => cpu' = cpu
      /\ amoAbort' => cpu.valid /\ ~cpuReady /\ ~mmuReady /\ ~ptw.valid
      /\ flushReq /\ ~cpu.valid => ~cpu'.valid
  BY <1>1, <1>2 DEF Cpu, CpuIssue, CpuAnswered, CpuTrapped, CpuHold
<1>5. /\ ptw.valid /\ ~ptwReady => ptw' = ptw
      /\ flushReq /\ ~ptw.valid => ~ptw'.valid
  BY <1>2 DEF Walk, Mmu, MmuDone, PtwAnswered, PtwTimeout, NoWalk
<1>6. /\ flushReq' => ~cpu'.valid /\ ~ptw'.valid
      /\ flushReq /\ ~flushDone => flushReq'
  BY <1>2, <1>4, <1>5 DEF Fence
<1> QED BY <1>3, <1>4, <1>5, <1>6

-----------------------------------------------------------------------------
\* A clock edge takes up a request that is translated, keeps the one it serves
\* until it answers, and starts a flush only when nobody is served.
LEMMA CoreStep ==
    ASSUME ~BusFaults, TypeOK, IInv, MemoryInv, Next
    PROVE  /\ ~flushError' /\ state' \notin {"INV_LINE", "INV_LINE_WRITE"}
           /\ FlushAlone' /\ Served' /\ MissIsRequest'
<1>1. /\ cpu.valid /\ mmuReady /\ ~cpuReady => cpu' = cpu /\ mmuReady'
      /\ ptw.valid /\ ~ptwReady => ptw' = ptw
      /\ amoAbort' => cpu.valid /\ ~cpuReady /\ ~mmuReady /\ ~ptw.valid
      /\ flushReq' => ~cpu'.valid /\ ~ptw'.valid
      /\ flushReq /\ ~flushDone => flushReq'
      /\ ~(mmuReady /\ ptw.valid) /\ (~Booted => ~cpu.valid)
  BY CalmNeighbours, NeighboursStep DEF IInv, OneMmu, QuietUntilBooted
<1>2. Control
  BY DEF Next, CacheStep
<1> USE DEF TypeOK, CacheType, SideType, MissRecord, CpuRequest, PtwRequest, Addr,
            MemoryInv, NoErrors, FlushAlone, Served, MissIsRequest, Serving, Missing,
            Flushing, Booted, ActiveAddr, NoAnswer, NoFlushDone, reqVars, flushVars
<1>3. CASE IdleFlush
  BY <1>3, <1>1 DEF IdleFlush, IdleDefaults, FlushStarts
<1>4. CASE IdlePtw
  BY <1>4, <1>1 DEF IdlePtw, IdleDefaults, PtwAsks
<1>5. CASE IdleCpu
  BY <1>5, <1>1 DEF IdleCpu, IdleDefaults, CpuAsks, PtwAsks, Cacheable
<1>6. CASE IdleWait
  BY <1>6, <1>1 DEF IdleWait, IdleDefaults
<1>7. CASE TagStoreHit
  BY <1>7, <1>1 DEF TagStoreHit, TagReadDefaults, AfterAnswer
<1>8. CASE TagLoadHit
  BY <1>8, <1>1 DEF TagLoadHit, TagReadDefaults
<1>9. CASE TagMiss
  BY <1>9, <1>1 DEF TagMiss, TagReadDefaults
<1>10. CASE ReadHit
  BY <1>10, <1>1 DEF ReadHit, AfterAnswer
<1>11. CASE WbRead
  BY <1>11, <1>1 DEF WbRead
<1>12. CASE WbSendWait
  BY <1>12, <1>1 DEF WbSendWait, WbSendDefaults
<1>13. CASE WbSendGiveUp
  BY <1>13, <1>1 DEF WbSendGiveUp, WbSendDefaults
<1>14. CASE WbSendDone
  BY <1>14, <1>1 DEF WbSendDone, WbSendDefaults
<1>15. CASE RefillFlushed
  BY <1>15, <1>1 DEF RefillFlushed, RefillDefaults
<1>16. CASE RefillAborted
  BY <1>16, <1>1 DEF RefillAborted, RefillDefaults
<1>17. CASE RefillWait
  BY <1>17, <1>1 DEF RefillWait, RefillDefaults
<1>18. CASE RefillFailed
  BY <1>18, <1>1 DEF RefillFailed, RefillDefaults, AfterAnswer
<1>19. CASE RefillInstall
  BY <1>19, <1>1 DEF RefillInstall, RefillDefaults, AfterAnswer
<1>20. CASE FlushScan
  BY <1>20, <1>1 DEF FlushScan
<1>21. CASE FlushFindDirty
  BY <1>21, <1>1 DEF FlushFindDirty, FlushCheckDefaults
<1>22. CASE FlushNextWay
  BY <1>22, <1>1 DEF FlushNextWay, FlushCheckDefaults
<1>23. CASE FlushNextSet
  BY <1>23, <1>1 DEF FlushNextSet, FlushCheckDefaults
<1>24. CASE FlushScanned
  BY <1>24, <1>1 DEF FlushScanned, FlushCheckDefaults
<1>25. CASE FlushWbRead
  BY <1>25, <1>1 DEF FlushWbRead
<1>26. CASE FlushWbWait
  BY <1>26, <1>1 DEF FlushWbWait, FlushWbDefaults
<1>27. CASE FlushWbDone
  BY <1>27, <1>1 DEF FlushWbDone, FlushWbDefaults
<1>28. CASE FlushWbFailed
  BY <1>28, <1>1 DEF FlushWbFailed, FlushWbDefaults
<1>29. CASE FlushWbResume
  BY <1>29, <1>1 DEF FlushWbResume
<1>30. CASE FlushInvalidate
  BY <1>30, <1>1 DEF FlushInvalidate
<1>31. CASE InvLine
  BY <1>31, <1>1 DEF InvLine
<1>32. CASE InvLineWrite
  BY <1>32, <1>1 DEF InvLineWrite
<1>33. CASE RstClear
  BY <1>33, <1>1 DEF RstClear
<1>34. CASE Done
  BY <1>34, <1>1 DEF Done
<1> QED BY <1>2, <1>3, <1>4, <1>5, <1>6, <1>7, <1>8, <1>9, <1>10, <1>11, <1>12, <1>13,
           <1>14, <1>15, <1>16, <1>17, <1>18, <1>19, <1>20, <1>21, <1>22, <1>23, <1>24,
           <1>25, <1>26, <1>27, <1>28, <1>29, <1>30, <1>31, <1>32, <1>33, <1>34
        DEF Control

-----------------------------------------------------------------------------
(***************************************************************************)
(* The bus.                                                                *)
(***************************************************************************)
\* The controller holds a request to the bus, and what goes with it, from its
\* first cycle to the answer.
LEMMA HoldsRequest ==
    ASSUME TypeOK, MemoryInv, Next
    PROVE  /\ wbReq' => WritingBack'
           /\ WritingBack /\ ~wbAck.done =>
                  wbReq' /\ UNCHANGED <<state, miss, lineOut, hitWord>>
           /\ state = "REFILL" /\ ~refill.done => UNCHANGED <<state, miss>>
<1>1. /\ wbReq => (WritingBack /\ ~amoAbort) \/ state = "IDLE"
      /\ Serving => ~flushReq /\ ~amoAbort
  BY DEF MemoryInv, WriteBackInv, Served, FlushAlone, Serving, WritingBack
<1>2. Control
  BY DEF Next, CacheStep
<1> USE DEF TypeOK, CacheType, WritingBack, Serving, dataVars, reqVars, MemoryInv,
             WriteBackInv, Served
<1>3. CASE IdleFlush
  BY <1>3, <1>1 DEF IdleFlush, IdleDefaults
<1>4. CASE IdlePtw
  BY <1>4, <1>1 DEF IdlePtw, IdleDefaults
<1>5. CASE IdleCpu
  BY <1>5, <1>1 DEF IdleCpu, IdleDefaults
<1>6. CASE IdleWait
  BY <1>6, <1>1 DEF IdleWait, IdleDefaults
<1>7. CASE TagStoreHit
  BY <1>7, <1>1 DEF TagStoreHit, TagReadDefaults
<1>8. CASE TagLoadHit
  BY <1>8, <1>1 DEF TagLoadHit, TagReadDefaults
<1>9. CASE TagMiss
  BY <1>9, <1>1 DEF TagMiss, TagReadDefaults
<1>10. CASE ReadHit
  BY <1>10, <1>1 DEF ReadHit
<1>11. CASE WbRead
  BY <1>11, <1>1 DEF WbRead
<1>12. CASE WbSendWait
  BY <1>12, <1>1 DEF WbSendWait, WbSendDefaults
<1>13. CASE WbSendGiveUp
  BY <1>13, <1>1 DEF WbSendGiveUp, WbSendDefaults
<1>14. CASE WbSendDone
  BY <1>14, <1>1 DEF WbSendDone, WbSendDefaults
<1>15. CASE RefillFlushed
  BY <1>15, <1>1 DEF RefillFlushed, RefillDefaults
<1>16. CASE RefillAborted
  BY <1>16, <1>1 DEF RefillAborted, RefillDefaults
<1>17. CASE RefillWait
  BY <1>17, <1>1 DEF RefillWait, RefillDefaults
<1>18. CASE RefillFailed
  BY <1>18, <1>1 DEF RefillFailed, RefillDefaults
<1>19. CASE RefillInstall
  BY <1>19, <1>1 DEF RefillInstall, RefillDefaults
<1>20. CASE FlushScan
  BY <1>20, <1>1 DEF FlushScan
<1>21. CASE FlushFindDirty
  BY <1>21, <1>1 DEF FlushFindDirty, FlushCheckDefaults
<1>22. CASE FlushNextWay
  BY <1>22, <1>1 DEF FlushNextWay, FlushCheckDefaults
<1>23. CASE FlushNextSet
  BY <1>23, <1>1 DEF FlushNextSet, FlushCheckDefaults
<1>24. CASE FlushScanned
  BY <1>24, <1>1 DEF FlushScanned, FlushCheckDefaults
<1>25. CASE FlushWbRead
  BY <1>25, <1>1 DEF FlushWbRead
<1>26. CASE FlushWbWait
  BY <1>26, <1>1 DEF FlushWbWait, FlushWbDefaults
<1>27. CASE FlushWbDone
  BY <1>27, <1>1 DEF FlushWbDone, FlushWbDefaults
<1>28. CASE FlushWbFailed
  BY <1>28, <1>1 DEF FlushWbFailed, FlushWbDefaults
<1>29. CASE FlushWbResume
  BY <1>29, <1>1 DEF FlushWbResume
<1>30. CASE FlushInvalidate
  BY <1>30, <1>1 DEF FlushInvalidate
<1>31. CASE InvLine
  BY <1>31, <1>1 DEF InvLine
<1>32. CASE InvLineWrite
  BY <1>32, <1>1 DEF InvLineWrite
<1>33. CASE RstClear
  BY <1>33, <1>1 DEF RstClear
<1>34. CASE Done
  BY <1>34, <1>1 DEF Done
<1> QED BY <1>2, <1>3, <1>4, <1>5, <1>6, <1>7, <1>8, <1>9, <1>10, <1>11, <1>12, <1>13,
           <1>14, <1>15, <1>16, <1>17, <1>18, <1>19, <1>20, <1>21, <1>22, <1>23, <1>24,
           <1>25, <1>26, <1>27, <1>28, <1>29, <1>30, <1>31, <1>32, <1>33, <1>34
        DEF Control

\* Main memory changes at the end of a write-back, by the line written back.
LEMMA MemoryChange ==
    ASSUME ~BusFaults, MemoryInv, Next
    PROVE  \/ memory' = memory
           \/ bus.op = "wb" /\ memory' = [memory EXCEPT ![WbAddr] = lineOut]
BY DEF Next, BusStep, BusStart, BusEnd, BusWait, StartMmio, StartWb, StartRefill, EndMmio,
       EndWb, EndRefill, Errors, MemoryInv, WriteBackInv

\* A write-back and a refill keep to the line of the miss they are for.
LEMMA LinesStep ==
    ASSUME ~BusFaults, TypeOK, MemoryInv, Next
    PROVE  WriteBackInv' /\ RefillInv'
<1>1. /\ wbReq' => WritingBack'
      /\ WritingBack /\ ~wbAck.done => wbReq' /\ UNCHANGED <<state, miss, lineOut>>
      /\ state = "REFILL" /\ ~refill.done => UNCHANGED <<state, miss>>
  BY HoldsRequest
<1>2. WriteBackInv /\ RefillInv /\ ~refill.error
  BY DEF MemoryInv, NoErrors
<1> USE <1>1, <1>2 DEF WriteBackInv, RefillInv, WbAddr, RefillAddr
<1> USE DEF BusQuiet, MmioQuiet, DropSeen, NoRefill, NoWbAck, BusIdle
<1>3. CASE BusWait
  BY <1>3 DEF BusWait
<1>4. CASE StartMmio
  BY <1>4 DEF StartMmio
<1>5. CASE StartWb
  BY <1>5 DEF StartWb
<1>6. CASE StartRefill
  BY <1>6 DEF StartRefill, RefillReq
<1>7. CASE EndMmio
  BY <1>7 DEF EndMmio
<1>8. CASE EndWb
  <2>1. bus.op = "wb" /\ wbAck'.done /\ ~refill'.done /\ bus'.op = "idle" /\ waitDrop'
    BY <1>8 DEF EndWb
  <2>2. memory' = [memory EXCEPT ![bus.addr] = bus.line]
    BY <1>8 DEF EndWb, Errors
  <2>3. bus.addr \in DOMAIN memory
    BY DEF TypeOK, SideType, Bus
  <2> QED BY <2>1, <2>2, <2>3
<1>9. CASE EndRefill
  <2>1. /\ bus.op = "refill" /\ refill'.done /\ ~wbAck'.done /\ bus'.op = "idle"
        /\ memory' = memory /\ refill'.data = memory[bus.addr]
    BY <1>9 DEF EndRefill, Errors
  <2> QED BY <2>1
<1> QED BY <1>3, <1>4, <1>5, <1>6, <1>7, <1>8, <1>9 DEF Next, BusStep, BusStart, BusEnd

\* A device access begins with a request in IDLE, holds the controller there,
\* and ends with its answer.
LEMMA DeviceControl ==
    ASSUME TypeOK, IInv, MemoryInv, Next
    PROVE  /\ NoDevice =>
                  /\ ~mmioInflight'
                  /\ mmioPending' =>
                         /\ state' = "IDLE" /\ cpu.valid /\ cpu.mmio /\ mmuReady
                         /\ ~cpuReady /\ ~cpuReady'
                         /\ mmioOp' = [addr |-> cpu.addr, write |-> cpu.write, data |-> cpu.data]
                  /\ cpuReady' => ~cpu.mmio
           /\ ~NoDevice =>
                  /\ state' = "IDLE" /\ cpuReady' = mmioAck.valid
                  /\ ~mmioAck.valid => mmioOp' = mmioOp
                  /\ mmioPending' = (mmioPending /\ ~mmioAck.accept)
                  /\ mmioInflight' = (~mmioAck.valid /\ (mmioInflight \/ mmioAck.accept))
           /\ cpuReady' => cpu.valid /\ ~cpuReady
<1>1. MemoryInv /\ ~(mmuReady /\ ptw.valid)
  BY DEF IInv, OneMmu
<1>2. /\ ~NoDevice => /\ state = "IDLE" /\ cpu.valid /\ cpu.mmio /\ mmuReady /\ ~cpuReady
                      /\ ~ptw.valid /\ ~flushReq
                      /\ ~(mmioPending /\ mmioInflight) /\ (mmioAck.valid => ~mmioPending)
                      /\ (mmioPending \/ mmioInflight)
      /\ NoDevice => ~mmioPending /\ ~mmioInflight /\ ~mmioAck.accept /\ ~mmioAck.valid
      /\ Serving /\ ~isPtw => cpu.valid /\ ~cpu.mmio
      /\ cpuReady => state \in {"IDLE", "DONE"}
  BY <1>1 DEF MemoryInv, DeviceInv, NoDevice, DevicePhase, FlushAlone, Served
<1>3. Control
  BY DEF Next, CacheStep
<1> USE DEF TypeOK, CacheType, Serving, NoAnswer, MmioAccept
<1>4. CASE IdleFlush
  BY <1>4, <1>2 DEF IdleFlush, IdleDefaults, FlushStarts
<1>5. CASE IdlePtw
  BY <1>5, <1>2 DEF IdlePtw, IdleDefaults, PtwAsks
<1>6. CASE IdleCpu
  <2> DEFINE answered == mmioAck.valid /\ (mmuReady => cpu.mmio)
  <2>1. /\ cpu.valid /\ ~cpuReady /\ state = "IDLE"
        /\ state' = IF Cacheable THEN "TAG_READ" ELSE "IDLE"
        /\ cpuReady' = answered
        /\ mmioPending' = (MmioIssue \/ (mmioPending /\ ~mmioAck.accept))
        /\ mmioInflight' = (~answered /\ (mmioInflight \/ mmioAck.accept))
        /\ mmioOp' = IF MmioIssue THEN [addr |-> cpu.addr, write |-> cpu.write, data |-> cpu.data]
                                  ELSE mmioOp
    BY <1>6 DEF IdleCpu, IdleDefaults, CpuAsks
  <2>2. CASE NoDevice
    <3>1. ~answered
      BY <1>2, <2>2
    <3>2. ~mmioInflight' /\ ~cpuReady' /\ (mmioPending' => MmioIssue)
      BY <1>2, <2>1, <2>2, <3>1
    <3> QED BY <2>1, <2>2, <3>2 DEF MmioIssue, Cacheable
  <2>3. CASE ~NoDevice
    <3>1. answered = mmioAck.valid /\ ~Cacheable /\ ~MmioIssue
      <4>1. (mmuReady => cpu.mmio) /\ ~Cacheable /\ ~MmioIssue
        BY <1>2, <2>3 DEF MmioIssue, Cacheable
      <4>2. mmioAck.valid \in BOOLEAN
        BY DEF SideType
      <4> QED BY <4>1, <4>2
    <3> QED BY <1>2, <2>1, <2>3, <3>1
  <2> QED BY <2>2, <2>3
<1>7. CASE IdleWait
  BY <1>7, <1>2 DEF IdleWait, IdleDefaults, CpuAsks, PtwAsks, FlushStarts
<1>8. CASE TagStoreHit
  BY <1>8, <1>2 DEF TagStoreHit, TagReadDefaults
<1>9. CASE TagLoadHit
  BY <1>9, <1>2 DEF TagLoadHit, TagReadDefaults
<1>10. CASE TagMiss
  BY <1>10, <1>2 DEF TagMiss, TagReadDefaults
<1>11. CASE ReadHit
  BY <1>11, <1>2 DEF ReadHit
<1>12. CASE WbRead
  BY <1>12, <1>2 DEF WbRead
<1>13. CASE WbSendWait
  BY <1>13, <1>2 DEF WbSendWait, WbSendDefaults
<1>14. CASE WbSendGiveUp
  BY <1>14, <1>2 DEF WbSendGiveUp, WbSendDefaults
<1>15. CASE WbSendDone
  BY <1>15, <1>2 DEF WbSendDone, WbSendDefaults
<1>16. CASE RefillFlushed
  BY <1>16, <1>2 DEF RefillFlushed, RefillDefaults
<1>17. CASE RefillAborted
  BY <1>17, <1>2 DEF RefillAborted, RefillDefaults
<1>18. CASE RefillWait
  BY <1>18, <1>2 DEF RefillWait, RefillDefaults
<1>19. CASE RefillFailed
  BY <1>19, <1>2 DEF RefillFailed, RefillDefaults
<1>20. CASE RefillInstall
  BY <1>20, <1>2 DEF RefillInstall, RefillDefaults
<1>21. CASE FlushScan
  BY <1>21, <1>2 DEF FlushScan
<1>22. CASE FlushFindDirty
  BY <1>22, <1>2 DEF FlushFindDirty, FlushCheckDefaults
<1>23. CASE FlushNextWay
  BY <1>23, <1>2 DEF FlushNextWay, FlushCheckDefaults
<1>24. CASE FlushNextSet
  BY <1>24, <1>2 DEF FlushNextSet, FlushCheckDefaults
<1>25. CASE FlushScanned
  BY <1>25, <1>2 DEF FlushScanned, FlushCheckDefaults
<1>26. CASE FlushWbRead
  BY <1>26, <1>2 DEF FlushWbRead
<1>27. CASE FlushWbWait
  BY <1>27, <1>2 DEF FlushWbWait, FlushWbDefaults
<1>28. CASE FlushWbDone
  BY <1>28, <1>2 DEF FlushWbDone, FlushWbDefaults
<1>29. CASE FlushWbFailed
  BY <1>29, <1>2 DEF FlushWbFailed, FlushWbDefaults
<1>30. CASE FlushWbResume
  BY <1>30, <1>2 DEF FlushWbResume
<1>31. CASE FlushInvalidate
  BY <1>31, <1>2 DEF FlushInvalidate
<1>32. CASE InvLine
  BY <1>32, <1>2 DEF InvLine
<1>33. CASE InvLineWrite
  BY <1>33, <1>2 DEF InvLineWrite
<1>34. CASE RstClear
  BY <1>34, <1>2 DEF RstClear
<1>35. CASE Done
  BY <1>35, <1>2 DEF Done
<1> QED BY <1>3, <1>4, <1>5, <1>6, <1>7, <1>8, <1>9, <1>10, <1>11, <1>12, <1>13, <1>14,
           <1>15, <1>16, <1>17, <1>18, <1>19, <1>20, <1>21, <1>22, <1>23, <1>24, <1>25,
           <1>26, <1>27, <1>28, <1>29, <1>30, <1>31, <1>32, <1>33, <1>34, <1>35
        DEF Control

\* Each device access goes through its phases once, and is counted once.
LEMMA DeviceStep ==
    ASSUME ~BusFaults, TypeOK, IInv, MemoryInv, Next
    PROVE  DeviceInv'
<1>1. /\ NoDevice =>
                  /\ ~mmioInflight'
                  /\ mmioPending' =>
                         /\ state' = "IDLE" /\ cpu.valid /\ cpu.mmio /\ mmuReady
                         /\ ~cpuReady /\ ~cpuReady'
                         /\ mmioOp' = [addr |-> cpu.addr, write |-> cpu.write, data |-> cpu.data]
                  /\ cpuReady' => ~cpu.mmio
      /\ ~NoDevice =>
                  /\ state' = "IDLE" /\ cpuReady' = mmioAck.valid
                  /\ ~mmioAck.valid => mmioOp' = mmioOp
                  /\ mmioPending' = (mmioPending /\ ~mmioAck.accept)
                  /\ mmioInflight' = (~mmioAck.valid /\ (mmioInflight \/ mmioAck.accept))
      /\ cpuReady' => cpu.valid /\ ~cpuReady
  BY DeviceControl
<1>2. /\ cpu.valid /\ mmuReady /\ ~cpuReady => cpu' = cpu /\ mmuReady'
      /\ cpu.valid => cpu'.mmio = cpu.mmio
  BY CalmNeighbours, NeighboursStep
<1>3. DeviceInv /\ devOps \in {0, 1}
  BY DEF MemoryInv, DeviceInv
<1> USE DEF DeviceInv, NoDevice, DevicePhase, MmioQuiet, NoMmioAck, BusIdle
<1>4. CASE StartMmio
  <2>1. /\ DevicePhase(TRUE, FALSE, FALSE, FALSE, FALSE) /\ ~NoDevice /\ devOps = 0
        /\ mmioAck'.accept = TRUE /\ mmioAck'.valid = FALSE /\ bus'.op = "mmio"
    BY <1>3, <1>4 DEF StartMmio
  <2>2. /\ state' = "IDLE" /\ cpu' = cpu /\ mmuReady' /\ ~cpuReady' /\ mmioOp' = mmioOp
        /\ mmioPending' = TRUE /\ mmioInflight' = FALSE /\ cpu.valid /\ cpu.mmio
    BY <1>1, <1>2, <1>3, <2>1
  <2>3. devOps' = 1
    BY <1>4, <2>1 DEF Next, CountDevice
  <2> QED BY <1>3, <2>1, <2>2, <2>3
<1>5. CASE EndMmio
  <2>1. /\ bus.op = "mmio" /\ ~NoDevice /\ devOps = 1 /\ ~mmioAck.valid
        /\ mmioAck'.accept = FALSE /\ mmioAck'.valid = TRUE /\ bus'.op = "idle"
    BY <1>3, <1>5 DEF EndMmio
  <2>2. /\ state' = "IDLE" /\ cpu' = cpu /\ mmuReady' /\ ~cpuReady' /\ mmioOp' = mmioOp
        /\ mmioPending' = FALSE /\ mmioInflight' = TRUE /\ cpu.valid /\ cpu.mmio
    BY <1>1, <1>2, <1>3, <2>1
  <2>3. devOps' = 1
    BY <1>3, <1>5, <2>1 DEF Next, CountDevice, StartMmio
  <2> QED BY <1>3, <2>1, <2>2, <2>3
<1>6. CASE BusWait \/ StartWb \/ StartRefill \/ EndWb \/ EndRefill
  <2>1. /\ mmioAck'.accept = FALSE /\ mmioAck'.valid = FALSE
        /\ (bus'.op = "mmio") = (bus.op = "mmio")
    BY <1>6 DEF BusWait, StartWb, StartRefill, EndWb, EndRefill
  <2>2. devOps' = IF cpu.valid /\ ~cpuReady THEN devOps ELSE 0
    BY <2>1 DEF Next, CountDevice, StartMmio
  <2>3. CASE NoDevice
    BY <1>1, <1>2, <1>3, <2>1, <2>2, <2>3
  <2>4. CASE ~NoDevice /\ mmioAck.valid
    BY <1>1, <1>2, <1>3, <2>1, <2>2, <2>4
  <2>5. CASE ~NoDevice /\ ~mmioAck.valid
    BY <1>1, <1>2, <1>3, <2>1, <2>2, <2>5
  <2> QED BY <2>3, <2>4, <2>5
<1> QED BY <1>4, <1>5, <1>6 DEF Next, BusStep, BusStart, BusEnd

-----------------------------------------------------------------------------
(***************************************************************************)
(* The contents.                                                           *)
(***************************************************************************)
\* Way w will hold the line of address a.
Holds(a, w) == EffTags[a.set][w].v /\ EffTags[a.set][w].tag = a.tag

\* What is seen at an address is the word in any way that holds its line, and
\* that of main memory when there is none.
SeenIsWord ==
    /\ Seen \in [Addr -> Values]
    /\ \A a \in Addr : \A w \in Ways : Holds(a, w) => Seen[a] = dataRam[a.set][w][a.word]
    /\ \A a \in Addr : (\A w \in Ways : ~Holds(a, w)) =>
           Seen[a] = memory[<<a.tag, a.set>>][a.word]

\* With no line in two ways it does not matter which way the choice takes.
LEMMA WordSeen == TypeOK /\ UniqueLine /\ state # "RST_CLEAR" => SeenIsWord
<1> SUFFICES ASSUME TypeOK, UniqueLine, state # "RST_CLEAR" PROVE SeenIsWord
  OBVIOUS
<1> DEFINE W(a) == HoldingWays(a.tag, a.set)
<1>1. \A a \in Addr : W(a) = {w \in Ways : Holds(a, w)}
  BY DEF HoldingWays, Holds
<1>2. \A a \in Addr : a.set \in Sets /\ a.tag \in Tags /\ a.word \in Words
  BY DEF Addr
<1>3. Seen = [a \in Addr |-> IF W(a) # {} THEN dataRam[a.set][Lowest(W(a))][a.word]
                                          ELSE memory[<<a.tag, a.set>>][a.word]]
  BY DEF Seen
<1> HIDE DEF W
<1>4. \A a \in Addr : W(a) # {} => Lowest(W(a)) \in W(a) /\ Lowest(W(a)) \in Ways
  BY <1>1, LowestIsIn
<1>5. \A a \in Addr : \A w \in W(a) : w = Lowest(W(a))
  BY <1>1, <1>2, <1>4 DEF Holds, UniqueLine
<1>6. \A a \in Addr : /\ W(a) # {} => dataRam[a.set][Lowest(W(a))][a.word] \in Values
                      /\ memory[<<a.tag, a.set>>][a.word] \in Values
  BY <1>2, <1>4 DEF TypeOK, CacheType, SideType, Line, LineAddr
<1>7. Seen \in [Addr -> Values]
  BY <1>3, <1>6
<1>8. \A a \in Addr : \A w \in Ways : Holds(a, w) => Seen[a] = dataRam[a.set][w][a.word]
  BY <1>1, <1>3, <1>5
<1>9. \A a \in Addr : (\A w \in Ways : ~Holds(a, w)) =>
          Seen[a] = memory[<<a.tag, a.set>>][a.word]
  BY <1>1, <1>3
<1> QED BY <1>7, <1>8, <1>9 DEF SeenIsWord

\* The same after the step.
LEMMA WordSeenNext ==
    (TypeOK /\ UniqueLine /\ state # "RST_CLEAR")' => SeenIsWord'
BY WordSeen, PTL

\* While a line is written back it is held by a dirty way, and main memory
\* changes nowhere else.
LEMMA MemoryUnder ==
    ASSUME ~BusFaults, TypeOK, IInv, MemoryInv, Next
    PROVE  \A t \in Tags : \A s \in Sets :
              \/ memory'[<<t, s>>] = memory[<<t, s>>]
              \/ \E w \in Ways : EffTags[s][w] = [v |-> TRUE, d |-> TRUE, tag |-> t]
<1>1. CASE memory' = memory
  BY <1>1
<1>2. CASE bus.op = "wb" /\ memory' = [memory EXCEPT ![WbAddr] = lineOut]
  <2>1. WritingBack
    BY <1>2 DEF MemoryInv, WriteBackInv
  <2>2. /\ miss.set \in Sets /\ miss.way \in Ways
        /\ EffTags[miss.set][miss.way] = [v |-> TRUE, d |-> TRUE, tag |-> miss.victimTag]
    BY <2>1, VictimIsDirty DEF WritingBack
  <2>3. SUFFICES ASSUME NEW t \in Tags, NEW s \in Sets, <<t, s>> # WbAddr
                 PROVE  memory'[<<t, s>>] = memory[<<t, s>>]
    BY <2>2 DEF WbAddr
  <2> QED BY <1>2, <2>3 DEF TypeOK, SideType, LineAddr
<1> QED BY <1>1, <1>2, MemoryChange

\* A step that drops no line, adds none and writes none leaves every word, and
\* the copies of clean lines, as they are.
LEMMA ContentsKept ==
    ASSUME ~BusFaults, TypeOK, TypeOK', IInv, IInv', MemoryInv, Next,
           state # "RST_CLEAR", state' # "RST_CLEAR", dataRam' = dataRam,
           \A s \in Sets : \A w \in Ways :
              /\ EffTags'[s][w].v = EffTags[s][w].v
              /\ EffTags'[s][w].tag = EffTags[s][w].tag
    PROVE  Seen' = Seen
<1>1. SeenIsWord /\ SeenIsWord'
  BY WordSeen, WordSeenNext DEF IInv
<1>2. ASSUME NEW a \in Addr
      PROVE  Seen'[a] = Seen[a]
  <2>1. a.set \in Sets /\ a.tag \in Tags
    BY DEF Addr
  <2>2. \A w \in Ways : Holds(a, w)' = Holds(a, w)
    BY <2>1 DEF Holds
  <2>3. CASE \E w \in Ways : Holds(a, w)
    BY <1>1, <2>2, <2>3 DEF SeenIsWord
  <2>4. CASE \A w \in Ways : ~Holds(a, w)
    <3>1. memory'[<<a.tag, a.set>>] = memory[<<a.tag, a.set>>]
      <4>1. ~\E w \in Ways : EffTags[a.set][w] = [v |-> TRUE, d |-> TRUE, tag |-> a.tag]
        BY <2>4 DEF Holds
      <4> QED BY <2>1, <4>1, MemoryUnder
    <3> QED BY <1>1, <2>2, <2>4, <3>1 DEF SeenIsWord
  <2> QED BY <2>3, <2>4
<1> QED BY <1>1, <1>2 DEF SeenIsWord

\* A line that was clean and is left alone stays a copy of main memory.
LEMMA CopyKept ==
    ASSUME ~BusFaults, TypeOK, IInv, MemoryInv, Next, state # "RST_CLEAR",
           NEW s \in Sets, NEW w \in Ways, EffTags'[s][w] = EffTags[s][w],
           EffTags[s][w].v, ~EffTags[s][w].d, dataRam'[s][w] = dataRam[s][w]
    PROVE  dataRam'[s][w] = memory'[<<EffTags'[s][w].tag, s>>]
<1> DEFINE t == EffTags[s][w].tag
<1>1. t \in Tags
  BY EffTagsType DEF Entry
<1>2. ~\E u \in Ways : EffTags[s][u] = [v |-> TRUE, d |-> TRUE, tag |-> t]
  BY DEF IInv, UniqueLine
<1>3. memory'[<<t, s>>] = memory[<<t, s>>]
  BY <1>1, <1>2, MemoryUnder
<1> QED BY <1>3 DEF MemoryInv, CleanIsCopy

\* A step that changes neither tags nor lines.
LEMMA NothingMoved ==
    ASSUME ~BusFaults, TypeOK, TypeOK', IInv, IInv', MemoryInv, Next,
           state # "RST_CLEAR", state' # "RST_CLEAR", dataRam' = dataRam, NoTagSetup
    PROVE  EffTags' = EffTags /\ Seen' = Seen /\ CleanIsCopy'
<1>1. EffTags' = EffTags
  BY NoSetupKeepsTags DEF Next, CacheStep
<1>2. Seen' = Seen
  BY <1>1, ContentsKept
<1>3. CleanIsCopy'
  BY <1>1, CopyKept DEF CleanIsCopy
<1> QED BY <1>1, <1>2, <1>3

\* A store hit changes the word it is for, in the line it marks dirty.
LEMMA StoreHitStores ==
    ASSUME ~BusFaults, TypeOK, TypeOK', IInv, IInv', MemoryInv, Next, TagStoreHit
    PROVE  /\ cpu.valid /\ ~cpu.mmio /\ ~cpuReady
           /\ Seen' = [Seen EXCEPT ![cpu.addr] = cpu.data]
           /\ CleanIsCopy'
<1>1. /\ state = "TAG_READ" /\ ~isPtw /\ CacheHit /\ ActiveAddr = cpu.addr /\ state' = "DONE"
      /\ cpu.valid /\ ~cpu.mmio /\ mmuReady /\ ~cpuReady /\ tagOut = EffTags[cpu.addr.set]
  BY DEF TagStoreHit, TagReadDefaults, AfterAnswer, ActiveAddr, MemoryInv, Served, Serving,
         IInv, Shown
<1>a. cpu.addr \in Addr /\ HitWay \in Ways /\ Holds(cpu.addr, HitWay)
  BY <1>1, HitWayIsHit DEF TypeOK, SideType, CpuRequest, HitWays, Matches, Holds
<1>b. PICK b \in Addr, w0 \in Ways : b = cpu.addr /\ w0 = HitWay
  BY <1>a
<1> DEFINE s0 == b.set
<1>2. /\ b \in Addr /\ s0 \in Sets /\ b.word \in Words /\ b.tag \in Tags /\ cpu.data \in Values
      /\ w0 \in Ways /\ Holds(b, w0)
  BY <1>a, <1>b DEF TypeOK, SideType, CpuRequest, Addr
<1>3. /\ dataRam' = [dataRam EXCEPT ![s0][w0][b.word] = cpu.data]
      /\ tagWr' = TagWrite(s0, {w0}, Dirty(EffTags[s0][w0]))
  BY <1>1, <1>b DEF TagStoreHit
<1>4. Written(s0, w0, Dirty(EffTags[s0][w0]))
  BY <1>2, <1>3, OneWritten DEF Next, CacheStep
<1>5. SeenIsWord /\ SeenIsWord'
  BY <1>1, WordSeen, WordSeenNext DEF IInv
<1>6. \A a \in Addr : \A w \in Ways : Holds(a, w)' = Holds(a, w)
  <2> SUFFICES ASSUME NEW a \in Addr, NEW w \in Ways
               PROVE  Holds(a, w)' = Holds(a, w)
    OBVIOUS
  <2>1. a.set \in Sets
    BY DEF Addr
  <2>2. /\ EffTags'[a.set][w].tag = EffTags[a.set][w].tag
        /\ EffTags'[a.set][w].v = EffTags[a.set][w].v
    <3>1. EffTags[a.set][w] \in Entry
      BY <2>1, EffTagsType
    <3>2. CASE a.set = s0 /\ w = w0
      <4>1. EffTags'[a.set][w] = Dirty(EffTags[a.set][w]) /\ EffTags[a.set][w].v
        BY <1>2, <1>4, <2>1, <3>2 DEF Written, Holds
      <4> QED BY <3>1, <4>1 DEF Entry, Dirty
    <3>3. CASE ~(a.set = s0 /\ w = w0)
      BY <1>4, <2>1, <3>3 DEF Written
    <3> QED BY <3>2, <3>3
  <2> QED BY <2>2 DEF Holds
<1>7. ASSUME NEW a \in Addr
      PROVE  Seen'[a] = IF a = b THEN cpu.data ELSE Seen[a]
  <2>1. a.set \in Sets /\ a.tag \in Tags /\ a.word \in Words
    BY DEF Addr
  <2>2. CASE a = b
    <3>1. dataRam'[s0][w0][b.word] = cpu.data
      BY <1>2, <1>3 DEF TypeOK, CacheType, Line
    <3>2. Holds(b, w0)'
      BY <1>2, <1>6
    <3>3. Seen'[b] = dataRam'[b.set][w0][b.word]
      BY <1>2, <1>5, <3>2 DEF SeenIsWord
    <3> QED BY <2>2, <3>1, <3>3
  <2>3. CASE a # b /\ \E w \in Ways : Holds(a, w)
    <3>1. PICK w \in Ways : Holds(a, w)
      BY <2>3
    <3>2. dataRam'[a.set][w][a.word] = dataRam[a.set][w][a.word]
      <4>1. CASE a.set = s0 /\ w = w0 /\ a.word = b.word
        <5>1. a.tag = b.tag
          BY <1>2, <3>1, <4>1 DEF Holds
        <5>2. a = b
          BY <1>2, <4>1, <5>1 DEF Addr
        <5> QED BY <2>3, <5>2
      <4>2. CASE ~(a.set = s0 /\ w = w0 /\ a.word = b.word)
        BY <1>2, <1>3, <2>1, <4>2 DEF TypeOK, CacheType, Line
      <4> QED BY <4>1, <4>2
    <3> QED BY <1>5, <1>6, <2>3, <3>1, <3>2 DEF SeenIsWord
  <2>4. CASE \A w \in Ways : ~Holds(a, w)
    <3>1. ~\E w \in Ways : EffTags[a.set][w] = [v |-> TRUE, d |-> TRUE, tag |-> a.tag]
      BY <2>4 DEF Holds
    <3>2. memory'[<<a.tag, a.set>>] = memory[<<a.tag, a.set>>]
      BY <2>1, <3>1, MemoryUnder
    <3>3. a # b
      BY <1>2, <2>4
    <3> QED BY <1>5, <1>6, <2>4, <3>2, <3>3 DEF SeenIsWord
  <2> QED BY <2>2, <2>3, <2>4
<1>8. Seen' = [Seen EXCEPT ![b] = cpu.data]
  BY <1>5, <1>7 DEF SeenIsWord
<1>9. CleanIsCopy'
  <2> SUFFICES ASSUME NEW s \in Sets, NEW w \in Ways,
                      EffTags'[s][w].v, ~EffTags'[s][w].d
               PROVE  dataRam'[s][w] = memory'[<<EffTags'[s][w].tag, s>>]
    BY DEF CleanIsCopy
  <2>1. ~(s = s0 /\ w = w0)
    BY <1>2, <1>4 DEF Written, Dirty
  <2>2. EffTags'[s][w] = EffTags[s][w]
    BY <1>4, <2>1 DEF Written
  <2>3. dataRam'[s][w] = dataRam[s][w]
    BY <1>2, <1>3, <2>1 DEF TypeOK, CacheType
  <2> QED BY <1>1, <2>2, <2>3, CopyKept
<1> QED BY <1>1, <1>8, <1>9, <1>b

\* The write-back of a victim, on a miss or in a flush, leaves every word as it
\* is: the line that is marked clean is the one main memory has by now.
LEMMA WrittenBack ==
    ASSUME ~BusFaults, TypeOK, TypeOK', IInv, IInv', MemoryInv, Next,
           state \in {"WB_SEND", "FLUSH_WB_SD"}, state' # "RST_CLEAR", wbAck.done,
           tagWr' = TagWrite(miss.set, {miss.way}, Clean(miss.victimTag)), dataRam' = dataRam
    PROVE  /\ Seen' = Seen
           /\ CleanIsCopy'
           /\ EffTags'[miss.set][miss.way] = Clean(miss.victimTag)
<1>1. /\ miss.set \in Sets /\ miss.way \in Ways /\ state # "RST_CLEAR"
      /\ EffTags[miss.set][miss.way] = [v |-> TRUE, d |-> TRUE, tag |-> miss.victimTag]
  BY VictimIsDirty
<1>2. Written(miss.set, miss.way, Clean(miss.victimTag))
  BY <1>1, OneWritten DEF Next, CacheStep
<1>3. Seen' = Seen
  <2>1. \A s \in Sets : \A w \in Ways :
           /\ EffTags'[s][w].v = EffTags[s][w].v
           /\ EffTags'[s][w].tag = EffTags[s][w].tag
    <3> SUFFICES ASSUME NEW s \in Sets, NEW w \in Ways
                 PROVE  /\ EffTags'[s][w].v = EffTags[s][w].v
                        /\ EffTags'[s][w].tag = EffTags[s][w].tag
      OBVIOUS
    <3>1. CASE s = miss.set /\ w = miss.way
      <4>1. EffTags'[s][w] = Clean(miss.victimTag)
        BY <1>2, <3>1 DEF Written
      <4>2. EffTags[s][w] = [v |-> TRUE, d |-> TRUE, tag |-> miss.victimTag]
        BY <1>1, <3>1
      <4> QED BY <4>1, <4>2 DEF Clean
    <3>2. CASE ~(s = miss.set /\ w = miss.way)
      BY <1>2, <3>2 DEF Written
    <3> QED BY <3>1, <3>2
  <2> QED BY <1>1, <2>1, ContentsKept
<1>4. CleanIsCopy'
  <2> SUFFICES ASSUME NEW s \in Sets, NEW w \in Ways,
                      EffTags'[s][w].v, ~EffTags'[s][w].d
               PROVE  dataRam'[s][w] = memory'[<<EffTags'[s][w].tag, s>>]
    BY DEF CleanIsCopy
  <2>1. CASE s = miss.set /\ w = miss.way
    <3>1. memory' = memory /\ memory[<<miss.victimTag, miss.set>>] = lineOut
      BY MemoryChange DEF MemoryInv, WriteBackInv, WbAddr
    <3>2. lineOut = dataRam[miss.set][miss.way]
      BY DEF MemoryInv, OutputsHold, WritingBack
    <3>3. EffTags'[s][w].tag = miss.victimTag
      BY <1>2, <2>1 DEF Written, Clean
    <3> QED BY <2>1, <3>1, <3>2, <3>3
  <2>2. CASE ~(s = miss.set /\ w = miss.way)
    <3>1. EffTags'[s][w] = EffTags[s][w]
      BY <1>2, <2>2 DEF Written
    <3> QED BY <1>1, <3>1, CopyKept
  <2> QED BY <2>1, <2>2
<1>5. EffTags'[miss.set][miss.way] = Clean(miss.victimTag)
  BY <1>1, <1>2 DEF Written
<1> QED BY <1>3, <1>4, <1>5

\* The refill brings in the word that was seen, and the store that missed.
LEMMA InstallStores ==
    ASSUME ~BusFaults, TypeOK, TypeOK', IInv, IInv', MemoryInv, Next, RefillInstall
    PROVE  /\ refill.data[miss.word] = Seen[ActiveAddr]
           /\ Seen' = IF miss.write THEN [Seen EXCEPT ![ActiveAddr] = miss.data] ELSE Seen
           /\ CleanIsCopy'
<1> DEFINE b == ActiveAddr
           entry == [v |-> TRUE, d |-> miss.write, tag |-> miss.tag]
<1>1. /\ state = "REFILL" /\ state' = "DONE" /\ refill.done /\ ~refill.error
      /\ dataRam' = [dataRam EXCEPT ![miss.set][miss.way] = RefillLine]
      /\ tagWr' = TagWrite(miss.set, {miss.way}, entry)
  BY DEF RefillInstall, RefillDefaults, AfterAnswer
<1>2. /\ miss \in MissRecord /\ miss.set \in Sets /\ miss.way \in Ways
      /\ miss.word \in Words /\ miss.tag \in Tags /\ miss.write \in BOOLEAN
      /\ refill.data \in Line
  BY DEF TypeOK, CacheType, SideType, MissRecord
<1>3. /\ b = [tag |-> miss.tag, set |-> miss.set, word |-> miss.word] /\ b \in Addr
      /\ refill.data = memory[<<miss.tag, miss.set>>] /\ memory' = memory
      /\ ~EffTags[miss.set][miss.way].d
  BY <1>1, ActiveAddrType, MemoryChange
     DEF MemoryInv, MissIsRequest, Missing, RefillInv, RefillAddr, RoomMade
<1>4. \A w \in Ways : ~(EffTags[miss.set][w].v /\ EffTags[miss.set][w].tag = miss.tag)
  BY <1>1 DEF IInv, MissHolds
<1>5. Written(miss.set, miss.way, entry)
  BY <1>1, <1>2, OneWritten DEF Next, CacheStep
<1>6. SeenIsWord /\ SeenIsWord'
  BY <1>1, WordSeen, WordSeenNext DEF IInv
<1>7. PICK a0 \in Addr : a0 = b
  BY <1>3
<1>8. RefillLine \in Line /\ Seen[a0] = refill.data[miss.word]
  <2>1. \A w \in Ways : ~Holds(a0, w)
    BY <1>3, <1>4, <1>7 DEF Holds
  <2> QED BY <1>3, <1>6, <1>7, <2>1, RefillLineType DEF SeenIsWord
<1> HIDE DEF b
<1>9. ASSUME NEW a \in Addr
      PROVE  Seen'[a] = IF miss.write /\ a = a0 THEN miss.data ELSE Seen[a]
  <2>1. a.set \in Sets /\ a.tag \in Tags /\ a.word \in Words
    BY DEF Addr
  <2>2. CASE a.set = miss.set /\ a.tag = miss.tag
    <3>1. EffTags'[a.set][miss.way] = entry
      BY <1>2, <1>5, <2>2 DEF Written
    <3>2. PICK w0 \in Ways : w0 = miss.way
      BY <1>2
    <3>3. Holds(a, w0)'
      BY <2>2, <3>1, <3>2 DEF Holds
    <3>4. Seen'[a] = dataRam'[a.set][w0][a.word]
      BY <1>6, <3>3 DEF SeenIsWord
    <3>5. dataRam'[a.set][w0] = RefillLine
      BY <1>1, <1>2, <2>2, <3>2 DEF TypeOK, CacheType
    <3>6. Seen[a] = refill.data[a.word]
      <4>1. \A w \in Ways : ~Holds(a, w)
        BY <1>4, <2>2 DEF Holds
      <4> QED BY <1>3, <1>6, <2>2, <4>1 DEF SeenIsWord
    <3>7. a = a0 <=> a.word = miss.word
      BY <1>3, <1>7, <2>2 DEF Addr
    <3>8. RefillLine[a.word] = IF miss.write /\ a.word = miss.word THEN miss.data
                                                                 ELSE refill.data[a.word]
      BY <1>2, <2>1 DEF RefillLine, Line
    <3> QED BY <3>4, <3>5, <3>6, <3>7, <3>8
  <2>3. CASE ~(a.set = miss.set /\ a.tag = miss.tag) /\ \E w \in Ways : Holds(a, w)
    <3>1. PICK w \in Ways : Holds(a, w)
      BY <2>3
    <3>2. a # a0
      BY <1>3, <1>7, <2>3
    <3>3. CASE a.set = miss.set /\ w = miss.way
      \* the way that makes room held a clean line
      <4>1. Seen[a] = dataRam[a.set][w][a.word]
        BY <1>6, <3>1 DEF SeenIsWord
      <4>2. dataRam[a.set][w] = memory[<<a.tag, a.set>>]
        BY <1>1, <1>3, <2>1, <3>1, <3>3 DEF MemoryInv, CleanIsCopy, Holds
      <4>3. \A u \in Ways : ~Holds(a, u)'
        <5> SUFFICES ASSUME NEW u \in Ways, Holds(a, u)' PROVE FALSE
          OBVIOUS
        <5>1. EffTags'[a.set][u].v /\ EffTags'[a.set][u].tag = a.tag
          BY DEF Holds
        <5>2. u # w
          BY <1>5, <2>1, <2>3, <3>3, <5>1 DEF Written
        <5>3. EffTags'[a.set][u] = EffTags[a.set][u]
          BY <1>5, <2>1, <3>3, <5>2 DEF Written
        <5> QED BY <1>1, <2>1, <3>1, <5>1, <5>2, <5>3 DEF IInv, UniqueLine, Holds
      <4>4. Seen'[a] = memory'[<<a.tag, a.set>>][a.word]
        BY <1>6, <4>3 DEF SeenIsWord
      <4> QED BY <1>3, <3>2, <4>1, <4>2, <4>4
    <3>4. CASE ~(a.set = miss.set /\ w = miss.way)
      <4>1. EffTags'[a.set][w] = EffTags[a.set][w]
        BY <1>5, <2>1, <3>4 DEF Written
      <4>2. Holds(a, w)'
        BY <3>1, <4>1 DEF Holds
      <4>3. dataRam'[a.set][w] = dataRam[a.set][w]
        BY <1>1, <1>2, <2>1, <3>4 DEF TypeOK, CacheType
      <4>4. Seen'[a] = dataRam'[a.set][w][a.word] /\ Seen[a] = dataRam[a.set][w][a.word]
        BY <1>6, <3>1, <4>2 DEF SeenIsWord
      <4> QED BY <3>2, <4>3, <4>4
    <3> QED BY <3>3, <3>4
  <2>4. CASE ~(a.set = miss.set /\ a.tag = miss.tag) /\ \A w \in Ways : ~Holds(a, w)
    <3>1. \A w \in Ways : ~Holds(a, w)'
      <4> SUFFICES ASSUME NEW w \in Ways, Holds(a, w)' PROVE FALSE
        OBVIOUS
      <4>1. EffTags'[a.set][w].v /\ EffTags'[a.set][w].tag = a.tag
        BY DEF Holds
      <4>2. EffTags'[a.set][w] = EffTags[a.set][w]
        BY <1>5, <2>1, <2>4, <4>1 DEF Written
      <4> QED BY <2>4, <4>1, <4>2 DEF Holds
    <3>2. a # a0
      BY <1>3, <1>7, <2>4
    <3> QED BY <1>3, <1>6, <2>4, <3>1, <3>2 DEF SeenIsWord
  <2> QED BY <2>2, <2>3, <2>4
<1>10. Seen' = IF miss.write THEN [Seen EXCEPT ![a0] = miss.data] ELSE Seen
  BY <1>6, <1>9 DEF SeenIsWord
<1>11. CleanIsCopy'
  <2> SUFFICES ASSUME NEW s \in Sets, NEW w \in Ways,
                      EffTags'[s][w].v, ~EffTags'[s][w].d
               PROVE  dataRam'[s][w] = memory'[<<EffTags'[s][w].tag, s>>]
    BY DEF CleanIsCopy
  <2>1. CASE s = miss.set /\ w = miss.way
    <3>1. EffTags'[s][w] = entry
      BY <1>5, <2>1 DEF Written
    <3>2. ~miss.write /\ EffTags'[s][w].tag = miss.tag
      BY <3>1
    <3>3. dataRam'[s][w] = refill.data
      BY <1>1, <1>2, <2>1, <3>2 DEF RefillLine, TypeOK, CacheType
    <3> QED BY <1>3, <2>1, <3>2, <3>3
  <2>2. CASE ~(s = miss.set /\ w = miss.way)
    <3>1. EffTags'[s][w] = EffTags[s][w]
      BY <1>5, <2>2 DEF Written
    <3>2. dataRam'[s][w] = dataRam[s][w]
      BY <1>1, <1>2, <2>2 DEF TypeOK, CacheType
    <3> QED BY <1>1, <3>1, <3>2, CopyKept
  <2> QED BY <2>1, <2>2
<1> QED BY <1>7, <1>8, <1>10, <1>11 DEF b

\* A flush zeroes tags only when no line is dirty: what was seen in a line it
\* drops is in main memory.
LEMMA InvalidateKeeps ==
    ASSUME ~BusFaults, TypeOK, TypeOK', IInv, IInv', MemoryInv, Next, FlushInvalidate
    PROVE  Seen' = Seen /\ CleanIsCopy'
<1>1. state = "FLUSH_INVALIDATE" /\ state' # "RST_CLEAR" /\ dataRam' = dataRam
  BY DEF FlushInvalidate, dataVars
<1>2. \A s \in Sets : \A w \in Ways : ~EffTags[s][w].d
  BY <1>1 DEF IInv, FlushDropsNothing
<1>3. \A s \in Sets : \A w \in Ways :
         EffTags'[s][w].v => EffTags'[s][w] = EffTags[s][w]
  BY ClearedHere DEF Zeroed, ZeroEntry
<1>4. SeenIsWord /\ SeenIsWord'
  BY <1>1, WordSeen, WordSeenNext DEF IInv
<1>5. \A t \in Tags : \A s \in Sets : memory'[<<t, s>>] = memory[<<t, s>>]
  <2>1. \A t \in Tags : \A s \in Sets :
           ~\E w \in Ways : EffTags[s][w] = [v |-> TRUE, d |-> TRUE, tag |-> t]
    <3> SUFFICES ASSUME NEW t \in Tags, NEW s \in Sets, NEW w \in Ways,
                        EffTags[s][w] = [v |-> TRUE, d |-> TRUE, tag |-> t]
                 PROVE  FALSE
      OBVIOUS
    <3>1. EffTags[s][w].d
      OBVIOUS
    <3> QED BY <1>2, <3>1
  <2>2. \A t \in Tags : \A s \in Sets :
           \/ memory'[<<t, s>>] = memory[<<t, s>>]
           \/ \E w \in Ways : EffTags[s][w] = [v |-> TRUE, d |-> TRUE, tag |-> t]
    BY MemoryUnder
  <2>3. ASSUME NEW t \in Tags, NEW s \in Sets
        PROVE  memory'[<<t, s>>] = memory[<<t, s>>]
    <3>1. ~\E w \in Ways : EffTags[s][w] = [v |-> TRUE, d |-> TRUE, tag |-> t]
      BY <2>1
    <3> QED BY <2>2, <3>1
  <2> QED BY <2>3
<1>6. ASSUME NEW a \in Addr
      PROVE  Seen'[a] = Seen[a]
  <2>1. a.set \in Sets /\ a.tag \in Tags
    BY DEF Addr
  <2>2. Seen[a] = memory[<<a.tag, a.set>>][a.word]
    <3>1. CASE \E w \in Ways : Holds(a, w)
      <4>1. PICK w \in Ways : Holds(a, w)
        BY <3>1
      <4>2. dataRam[a.set][w] = memory[<<a.tag, a.set>>]
        BY <1>1, <1>2, <2>1, <4>1 DEF MemoryInv, CleanIsCopy, Holds
      <4> QED BY <1>4, <4>1, <4>2 DEF SeenIsWord
    <3>2. CASE \A w \in Ways : ~Holds(a, w)
      BY <1>4, <3>2 DEF SeenIsWord
    <3> QED BY <3>1, <3>2
  <2>3. CASE \E w \in Ways : Holds(a, w)'
    <3>1. PICK w \in Ways : Holds(a, w)'
      BY <2>3
    <3>2. EffTags'[a.set][w].v /\ EffTags'[a.set][w].tag = a.tag
      BY <3>1 DEF Holds
    <3>3. Holds(a, w)
      BY <1>3, <2>1, <3>2 DEF Holds
    <3>4. Seen'[a] = dataRam'[a.set][w][a.word] /\ Seen[a] = dataRam[a.set][w][a.word]
      BY <1>4, <3>1, <3>3 DEF SeenIsWord
    <3> QED BY <1>1, <3>4
  <2>4. CASE \A w \in Ways : ~Holds(a, w)'
    BY <1>4, <1>5, <2>1, <2>2, <2>4 DEF SeenIsWord
  <2> QED BY <2>3, <2>4
<1>7. Seen' = Seen
  BY <1>4, <1>6 DEF SeenIsWord
<1>8. CleanIsCopy'
  <2> SUFFICES ASSUME NEW s \in Sets, NEW w \in Ways,
                      EffTags'[s][w].v, ~EffTags'[s][w].d
               PROVE  dataRam'[s][w] = memory'[<<EffTags'[s][w].tag, s>>]
    BY DEF CleanIsCopy
  <2> QED BY <1>1, <1>3, CopyKept
<1> QED BY <1>7, <1>8

\* The reset scan leaves every tag invalid, and until it ends they count for
\* nothing.
LEMMA ResetKeeps ==
    ASSUME ~BusFaults, TypeOK, TypeOK', IInv, IInv', MemoryInv, Next, RstClear
    PROVE  Seen' = Seen /\ CleanIsCopy'
<1>1. state = "RST_CLEAR" /\ dataRam' = dataRam
  BY DEF RstClear, dataVars
<1>2. memory' = memory
  BY <1>1, MemoryChange DEF MemoryInv, WriteBackInv, WritingBack
<1>3. \A a \in Addr : a.set \in Sets
  BY DEF Addr
<1>4. Seen = [a \in Addr |-> memory[<<a.tag, a.set>>][a.word]]
  BY <1>1 DEF Seen, HoldingWays
<1>5. CASE state' = "RST_CLEAR"
  <2>1. Seen' = [a \in Addr |-> memory'[<<a.tag, a.set>>][a.word]]
    BY <1>5 DEF Seen, HoldingWays
  <2> QED BY <1>2, <1>4, <1>5, <2>1 DEF CleanIsCopy
<1>6. CASE state' # "RST_CLEAR"
  <2>1. clearSet = NumSets - 1
    BY <1>1, <1>6 DEF RstClear
  <2>2. \A s \in Sets : s <= NumSets - 1
    BY GeometryAssumption DEF Sets
  <2>3. \A s \in Sets : \A w \in Ways : ~EffTags'[s][w].v
    BY <2>1, <2>2, ClearedHere
  <2>4. SeenIsWord'
    BY <1>6, WordSeenNext DEF IInv
  <2>5. \A a \in Addr : \A w \in Ways : ~Holds(a, w)'
    BY <1>3, <2>3 DEF Holds
  <2>6. \A a \in Addr : Seen'[a] = memory'[<<a.tag, a.set>>][a.word]
    BY <2>4, <2>5 DEF SeenIsWord
  <2>7. Seen' = Seen
    BY <1>2, <1>4, <2>4, <2>6 DEF SeenIsWord
  <2>8. CleanIsCopy'
    BY <2>3 DEF CleanIsCopy
  <2> QED BY <2>7, <2>8
<1> QED BY <1>5, <1>6

-----------------------------------------------------------------------------
(***************************************************************************)
(* The step.                                                               *)
(***************************************************************************)
\* Nothing but a store changes what is seen, and clean lines stay copies.
LEMMA ContentsStep ==
    ASSUME ~BusFaults, TypeOK, TypeOK', IInv, IInv', MemoryInv, Next
    PROVE  /\ CleanIsCopy'
           /\ TagStoreHit \/ RefillInstall \/ Seen' = Seen
<1>1. /\ Serving => ~flushReq /\ ~amoAbort
      /\ ~refill.error /\ ~wbAck.error /\ state \notin {"INV_LINE", "INV_LINE_WRITE"}
  BY DEF MemoryInv, NoErrors, Served, FlushAlone, Serving
<1>2. state # "RST_CLEAR" /\ state' # "RST_CLEAR" /\ dataRam' = dataRam /\ NoTagSetup
         => CleanIsCopy' /\ Seen' = Seen
  BY NothingMoved
<1>3. Control
  BY DEF Next, CacheStep
<1> USE DEF Serving, dataVars, AfterAnswer
<1>4. CASE IdleFlush
  BY <1>4, <1>2 DEF IdleFlush, IdleDefaults
<1>5. CASE IdlePtw
  BY <1>5, <1>2 DEF IdlePtw, IdleDefaults
<1>6. CASE IdleCpu
  BY <1>6, <1>2 DEF IdleCpu, IdleDefaults
<1>7. CASE IdleWait
  BY <1>7, <1>2 DEF IdleWait, IdleDefaults
<1>8. CASE TagStoreHit
  BY <1>8, StoreHitStores
<1>9. CASE TagLoadHit
  BY <1>9, <1>2 DEF TagLoadHit, TagReadDefaults
<1>10. CASE TagMiss
  BY <1>10, <1>2 DEF TagMiss, TagReadDefaults
<1>11. CASE ReadHit
  BY <1>11, <1>2 DEF ReadHit
<1>12. CASE WbRead
  BY <1>12, <1>2 DEF WbRead
<1>13. CASE WbSendWait
  BY <1>13, <1>2 DEF WbSendWait, WbSendDefaults
<1>14. CASE WbSendGiveUp
  BY <1>14, <1>1 DEF WbSendGiveUp, WbSendDefaults
<1>15. CASE WbSendDone
  BY <1>15, WrittenBack DEF WbSendDone, WbSendDefaults
<1>16. CASE RefillFlushed
  BY <1>16, <1>1 DEF RefillFlushed, RefillDefaults
<1>17. CASE RefillAborted
  BY <1>17, <1>1 DEF RefillAborted, RefillDefaults
<1>18. CASE RefillWait
  BY <1>18, <1>2 DEF RefillWait, RefillDefaults
<1>19. CASE RefillFailed
  BY <1>19, <1>1 DEF RefillFailed, RefillDefaults
<1>20. CASE RefillInstall
  BY <1>20, InstallStores
<1>21. CASE FlushScan
  BY <1>21, <1>2 DEF FlushScan
<1>22. CASE FlushFindDirty
  BY <1>22, <1>2 DEF FlushFindDirty, FlushCheckDefaults
<1>23. CASE FlushNextWay
  BY <1>23, <1>2 DEF FlushNextWay, FlushCheckDefaults
<1>24. CASE FlushNextSet
  BY <1>24, <1>2 DEF FlushNextSet, FlushCheckDefaults
<1>25. CASE FlushScanned
  BY <1>25, <1>2 DEF FlushScanned, FlushCheckDefaults
<1>26. CASE FlushWbRead
  BY <1>26, <1>2 DEF FlushWbRead
<1>27. CASE FlushWbWait
  BY <1>27, <1>2 DEF FlushWbWait, FlushWbDefaults
<1>28. CASE FlushWbDone
  BY <1>28, WrittenBack DEF FlushWbDone, FlushWbDefaults
<1>29. CASE FlushWbFailed
  BY <1>29, <1>1 DEF FlushWbFailed, FlushWbDefaults
<1>30. CASE FlushWbResume
  BY <1>30, <1>2 DEF FlushWbResume
<1>31. CASE FlushInvalidate
  BY <1>31, InvalidateKeeps
<1>32. CASE InvLine
  BY <1>32, <1>1 DEF InvLine
<1>33. CASE InvLineWrite
  BY <1>33, <1>1 DEF InvLineWrite
<1>34. CASE RstClear
  BY <1>34, ResetKeeps
<1>35. CASE Done
  BY <1>35, <1>2 DEF Done
<1> QED BY <1>3, <1>4, <1>5, <1>6, <1>7, <1>8, <1>9, <1>10, <1>11, <1>12, <1>13, <1>14,
           <1>15, <1>16, <1>17, <1>18, <1>19, <1>20, <1>21, <1>22, <1>23, <1>24, <1>25,
           <1>26, <1>27, <1>28, <1>29, <1>30, <1>31, <1>32, <1>33, <1>34, <1>35
        DEF Control

\* A read or a write-back is given what the data RAM holds, and a refill goes
\* to a way whose line main memory has.
LEMMA OutputsStep ==
    ASSUME ~BusFaults, TypeOK, TypeOK', IInv, IInv', MemoryInv, Next
    PROVE  OutputsHold' /\ RoomMade'
<1>1. /\ Serving => /\ ~flushReq /\ ~amoAbort
                    /\ isPtw \/ (cpu' = cpu /\ mmuReady)
      /\ ~refill.error /\ ~wbAck.error /\ state \notin {"INV_LINE", "INV_LINE_WRITE"}
  BY CalmNeighbours DEF MemoryInv, NoErrors, Served, FlushAlone, Serving
<1>2. TagStoreHit \/ RefillInstall \/ Seen' = Seen
  BY ContentsStep
<1>3. Control
  BY DEF Next, CacheStep
<1> USE DEF Serving, dataVars, reqVars, AfterAnswer
<1>4. CASE IdleFlush
  BY <1>4 DEF OutputsHold, RoomMade, WritingBack, MemoryInv, IdleFlush, IdleDefaults
<1>5. CASE IdlePtw
  BY <1>5 DEF OutputsHold, RoomMade, WritingBack, MemoryInv, IdlePtw, IdleDefaults
<1>6. CASE IdleCpu
  BY <1>6 DEF OutputsHold, RoomMade, WritingBack, MemoryInv, IdleCpu, IdleDefaults
<1>7. CASE IdleWait
  BY <1>7 DEF OutputsHold, RoomMade, WritingBack, MemoryInv, IdleWait, IdleDefaults
<1>8. CASE TagStoreHit
  BY <1>8 DEF OutputsHold, RoomMade, WritingBack, MemoryInv, TagStoreHit, TagReadDefaults
<1>9. CASE TagLoadHit
  <2>1. /\ state = "TAG_READ" /\ state' = "READ_HIT" /\ CacheHit /\ (isPtw \/ ~cpu.write)
        /\ Seen' = Seen /\ hitWord' = dataRam[ActiveAddr.set][HitWay][ActiveAddr.word]
    BY <1>1, <1>2, <1>9
    DEF TagLoadHit, TagReadDefaults, TagStoreHit, RefillInstall, RefillDefaults
  <2>2. /\ isPtw' = isPtw /\ ptwAddr' = ptwAddr /\ (~isPtw => cpu' = cpu)
    BY <1>1, <1>9 DEF TagLoadHit, TagReadDefaults
  <2>3. ActiveAddr' = ActiveAddr /\ ActiveAddr \in Addr
    BY <2>2, ActiveAddrType DEF ActiveAddr
  <2>4. HitWay \in Ways /\ tagOut = EffTags[ActiveAddr.set] /\ HitWay \in HitWays
    BY <2>1, HitWayIsHit DEF IInv, Shown
  <2>5. Holds(ActiveAddr, HitWay)
    BY <2>4 DEF HitWays, Matches, Holds
  <2>6. Seen[ActiveAddr] = dataRam[ActiveAddr.set][HitWay][ActiveAddr.word]
    BY <2>1, <2>3, <2>4, <2>5, WordSeen DEF IInv, SeenIsWord
  <2> QED BY <2>1, <2>2, <2>3, <2>6 DEF OutputsHold, RoomMade, WritingBack
<1>10. CASE TagMiss
  <2>1. state = "TAG_READ" /\ state' \in {"WB_READ", "REFILL"} /\ EffTags' = EffTags
    BY <1>10, NoSetupKeepsTags DEF TagMiss, TagReadDefaults, Next, CacheStep
  <2>2. state' = "REFILL" => ~tagOut[miss'.way].d /\ miss'.set = ActiveAddr.set
    BY <1>10 DEF TagMiss
  <2>3. tagOut = EffTags[ActiveAddr.set]
    BY <2>1 DEF IInv, Shown
  <2> QED BY <2>1, <2>2, <2>3 DEF OutputsHold, RoomMade, WritingBack
<1>11. CASE ReadHit
  BY <1>11 DEF OutputsHold, RoomMade, WritingBack, MemoryInv, ReadHit
<1>12. CASE WbRead
  BY <1>12 DEF OutputsHold, RoomMade, WritingBack, MemoryInv, WbRead
<1>13. CASE WbSendWait
  BY <1>13 DEF OutputsHold, RoomMade, WritingBack, MemoryInv, WbSendWait, WbSendDefaults
<1>14. CASE WbSendGiveUp
  BY <1>14, <1>1 DEF WbSendGiveUp, WbSendDefaults
<1>15. CASE WbSendDone
  <2>1. /\ state = "WB_SEND" /\ state' = "REFILL" /\ wbAck.done
        /\ dataRam' = dataRam /\ miss' = miss
        /\ tagWr' = TagWrite(miss.set, {miss.way}, Clean(miss.victimTag))
    BY <1>15 DEF WbSendDone, WbSendDefaults, dataVars, reqVars
  <2>2. EffTags'[miss.set][miss.way] = Clean(miss.victimTag)
    BY <2>1, WrittenBack
  <2> QED BY <2>1, <2>2 DEF OutputsHold, RoomMade, WritingBack, Clean
<1>16. CASE RefillFlushed
  BY <1>16, <1>1 DEF RefillFlushed, RefillDefaults
<1>17. CASE RefillAborted
  BY <1>17, <1>1 DEF RefillAborted, RefillDefaults
<1>18. CASE RefillWait
  <2>1. EffTags' = EffTags /\ state = "REFILL" /\ state' = "REFILL" /\ miss' = miss
    BY <1>18, NoSetupKeepsTags DEF RefillWait, RefillDefaults, Next, CacheStep
  <2> QED BY <2>1 DEF OutputsHold, RoomMade, WritingBack, MemoryInv
<1>19. CASE RefillFailed
  BY <1>19, <1>1 DEF RefillFailed, RefillDefaults
<1>20. CASE RefillInstall
  BY <1>20 DEF OutputsHold, RoomMade, WritingBack, MemoryInv, RefillInstall, RefillDefaults
<1>21. CASE FlushScan
  BY <1>21 DEF OutputsHold, RoomMade, WritingBack, MemoryInv, FlushScan
<1>22. CASE FlushFindDirty
  BY <1>22 DEF OutputsHold, RoomMade, WritingBack, MemoryInv, FlushFindDirty, FlushCheckDefaults
<1>23. CASE FlushNextWay
  BY <1>23 DEF OutputsHold, RoomMade, WritingBack, MemoryInv, FlushNextWay, FlushCheckDefaults
<1>24. CASE FlushNextSet
  BY <1>24 DEF OutputsHold, RoomMade, WritingBack, MemoryInv, FlushNextSet, FlushCheckDefaults
<1>25. CASE FlushScanned
  BY <1>25 DEF OutputsHold, RoomMade, WritingBack, MemoryInv, FlushScanned, FlushCheckDefaults
<1>26. CASE FlushWbRead
  <2>1. /\ state' = "FLUSH_WB_SD" /\ lineOut' = dataRam[flushSet][flushWay]
        /\ dataRam' = dataRam /\ miss' = miss /\ state = "FLUSH_WB_RD"
    BY <1>26 DEF FlushWbRead, reqVars
  <2>2. miss.set = flushSet /\ miss.way = flushWay
    BY <2>1 DEF IInv, DrainsHere
  <2> QED BY <2>1, <2>2 DEF OutputsHold, RoomMade, WritingBack
<1>27. CASE FlushWbWait
  BY <1>27 DEF OutputsHold, RoomMade, WritingBack, MemoryInv, FlushWbWait, FlushWbDefaults
<1>28. CASE FlushWbDone
  BY <1>28 DEF OutputsHold, RoomMade, WritingBack, MemoryInv, FlushWbDone, FlushWbDefaults
<1>29. CASE FlushWbFailed
  BY <1>29, <1>1 DEF FlushWbFailed, FlushWbDefaults
<1>30. CASE FlushWbResume
  BY <1>30 DEF OutputsHold, RoomMade, WritingBack, MemoryInv, FlushWbResume
<1>31. CASE FlushInvalidate
  BY <1>31 DEF OutputsHold, RoomMade, WritingBack, MemoryInv, FlushInvalidate
<1>32. CASE InvLine
  BY <1>32, <1>1 DEF InvLine
<1>33. CASE InvLineWrite
  BY <1>33, <1>1 DEF InvLineWrite
<1>34. CASE RstClear
  BY <1>34 DEF OutputsHold, RoomMade, WritingBack, MemoryInv, RstClear
<1>35. CASE Done
  BY <1>35 DEF OutputsHold, RoomMade, WritingBack, MemoryInv, Done
<1> QED BY <1>3, <1>4, <1>5, <1>6, <1>7, <1>8, <1>9, <1>10, <1>11, <1>12, <1>13, <1>14,
           <1>15, <1>16, <1>17, <1>18, <1>19, <1>20, <1>21, <1>22, <1>23, <1>24, <1>25,
           <1>26, <1>27, <1>28, <1>29, <1>30, <1>31, <1>32, <1>33, <1>34, <1>35
        DEF Control

\* Every step of the data side is a step of the memory of words: an answer is
\* a load, a store, a device access or a page-table read, and a step without
\* an answer changes no word.
LEMMA AnswerStep ==
    ASSUME ~BusFaults, TypeOK, TypeOK', IInv, IInv', MemoryInv, Next
    PROVE  Promise!Next
<1>1. /\ Serving => /\ ~flushReq /\ ~amoAbort /\ ~cpuReady /\ ~ptwReady
                    /\ isPtw => ptw.valid /\ ~ptw.mmio /\ ptw.addr = ptwAddr
                    /\ ~isPtw => cpu.valid /\ ~cpu.mmio
      /\ ~refill.error /\ ~wbAck.error /\ state \notin {"INV_LINE", "INV_LINE_WRITE"}
      /\ isPtw \in BOOLEAN /\ cpu.write \in BOOLEAN /\ miss.write \in BOOLEAN
      /\ ptw.mmio \in BOOLEAN
  BY DEF MemoryInv, NoErrors, Served, FlushAlone, Serving, TypeOK, CacheType, SideType,
         MissRecord, CpuRequest, PtwRequest
<1>2. \/ state = "TAG_READ" /\ CacheHit /\ ~isPtw /\ cpu.write
      \/ state = "REFILL" /\ refill.done
      \/ Seen' = Seen
  BY ContentsStep DEF TagStoreHit, TagReadDefaults, RefillInstall, RefillDefaults
<1>3. Control
  BY DEF Next, CacheStep
<1> USE DEF Serving
<1>4. CASE IdleFlush
  BY <1>4, <1>2 DEF NoAnswer, Promise!Next, Promise!Quiet, IdleFlush, IdleDefaults
<1>5. CASE IdlePtw
  <2>1. /\ ptw.valid /\ ~ptwReady /\ ptwReady' = ptw.mmio /\ ptwFault' = ptw.mmio
        /\ ~cpuReady' /\ Seen' = Seen
    BY <1>1, <1>2, <1>5
    DEF IdlePtw, IdleDefaults, PtwAsks, TagStoreHit, TagReadDefaults, RefillInstall,
        RefillDefaults
  <2> QED BY <2>1 DEF Promise!Next, Promise!Quiet, Promise!Walk
<1>6. CASE IdleCpu
  <2>1. /\ cpu.valid /\ ~cpuReady /\ ~ptwReady' /\ ptwFault' = FALSE /\ Seen' = Seen
        /\ cpuReady' => mmioAck.valid
    BY <1>1, <1>2, <1>6
    DEF IdleCpu, IdleDefaults, CpuAsks, TagStoreHit, TagReadDefaults, RefillInstall,
        RefillDefaults
  <2>2. mmioAck.valid => cpu.mmio
    BY DEF MemoryInv, DeviceInv, NoDevice, DevicePhase
  <2> QED BY <2>1, <2>2 DEF Promise!Next, Promise!Quiet, Promise!Device, Promise!AnswerCore
<1>7. CASE IdleWait
  BY <1>7, <1>2 DEF NoAnswer, Promise!Next, Promise!Quiet, IdleWait, IdleDefaults
<1>8. CASE TagStoreHit
  <2>1. /\ cpu.valid /\ ~cpu.mmio /\ ~cpuReady
        /\ Seen' = [Seen EXCEPT ![cpu.addr] = cpu.data]
    BY <1>8, StoreHitStores
  <2>2. cpu.write /\ cpuReady' /\ ~ptwReady' /\ ~ptwFault'
    BY <1>8 DEF TagStoreHit
  <2> QED BY <2>1, <2>2 DEF Promise!Next, Promise!Store, Promise!AnswerCore
<1>9. CASE TagLoadHit
  BY <1>9, <1>2 DEF NoAnswer, Promise!Next, Promise!Quiet, TagLoadHit, TagReadDefaults
<1>10. CASE TagMiss
  BY <1>10, <1>2 DEF NoAnswer, Promise!Next, Promise!Quiet, TagMiss, TagReadDefaults
<1>11. CASE ReadHit
  <2>1. /\ state = "READ_HIT" /\ bypass' = hitWord /\ cpuReady' = ~isPtw /\ ptwReady' = isPtw
        /\ ptwFault' = FALSE /\ Seen' = Seen
    BY <1>1, <1>2, <1>11
    DEF ReadHit, TagStoreHit, TagReadDefaults, RefillInstall, RefillDefaults
  <2>2. hitWord = Seen[ActiveAddr] /\ (isPtw \/ ~cpu.write)
    BY <2>1 DEF MemoryInv, OutputsHold
  <2>3. CASE isPtw
    BY <1>1, <2>1, <2>2, <2>3 DEF ActiveAddr, Promise!Next, Promise!Walk
  <2>4. CASE ~isPtw
    BY <1>1, <2>1, <2>2, <2>4 DEF ActiveAddr, Promise!Next, Promise!Load, Promise!AnswerCore
  <2> QED BY <2>3, <2>4
<1>12. CASE WbRead
  BY <1>12, <1>2 DEF NoAnswer, Promise!Next, Promise!Quiet, WbRead
<1>13. CASE WbSendWait
  BY <1>13, <1>2 DEF NoAnswer, Promise!Next, Promise!Quiet, WbSendWait, WbSendDefaults
<1>14. CASE WbSendGiveUp
  BY <1>14, <1>1 DEF WbSendGiveUp, WbSendDefaults
<1>15. CASE WbSendDone
  BY <1>15, <1>2 DEF NoAnswer, Promise!Next, Promise!Quiet, WbSendDone, WbSendDefaults
<1>16. CASE RefillFlushed
  BY <1>16, <1>1 DEF RefillFlushed, RefillDefaults
<1>17. CASE RefillAborted
  BY <1>17, <1>1 DEF RefillAborted, RefillDefaults
<1>18. CASE RefillWait
  BY <1>18, <1>2 DEF NoAnswer, Promise!Next, Promise!Quiet, RefillWait, RefillDefaults
<1>19. CASE RefillFailed
  BY <1>19, <1>1 DEF RefillFailed, RefillDefaults
<1>20. CASE RefillInstall
  <2>1. /\ state = "REFILL" /\ bypass' = refill.data[miss.word]
        /\ cpuReady' = ~isPtw /\ ptwReady' = isPtw /\ ptwFault' = FALSE
    BY <1>20 DEF RefillInstall, RefillDefaults
  <2>2. /\ refill.data[miss.word] = Seen[ActiveAddr]
        /\ Seen' = IF miss.write THEN [Seen EXCEPT ![ActiveAddr] = miss.data] ELSE Seen
    BY <1>20, InstallStores
  <2>3. miss.write = (~isPtw /\ cpu.write) /\ (miss.write => miss.data = cpu.data)
    BY <2>1 DEF MemoryInv, MissIsRequest, Missing
  <2>4. CASE isPtw
    BY <1>1, <2>1, <2>2, <2>3, <2>4 DEF ActiveAddr, Promise!Next, Promise!Walk
  <2>5. CASE ~isPtw /\ cpu.write
    BY <1>1, <2>1, <2>2, <2>3, <2>5
    DEF ActiveAddr, Promise!Next, Promise!Store, Promise!AnswerCore
  <2>6. CASE ~isPtw /\ ~cpu.write
    BY <1>1, <2>1, <2>2, <2>3, <2>6
    DEF ActiveAddr, Promise!Next, Promise!Load, Promise!AnswerCore
  <2> QED BY <2>4, <2>5, <2>6
<1>21. CASE FlushScan
  BY <1>21, <1>2 DEF NoAnswer, Promise!Next, Promise!Quiet, FlushScan
<1>22. CASE FlushFindDirty
  BY <1>22, <1>2 DEF NoAnswer, Promise!Next, Promise!Quiet, FlushFindDirty, FlushCheckDefaults
<1>23. CASE FlushNextWay
  BY <1>23, <1>2 DEF NoAnswer, Promise!Next, Promise!Quiet, FlushNextWay, FlushCheckDefaults
<1>24. CASE FlushNextSet
  BY <1>24, <1>2 DEF NoAnswer, Promise!Next, Promise!Quiet, FlushNextSet, FlushCheckDefaults
<1>25. CASE FlushScanned
  BY <1>25, <1>2 DEF NoAnswer, Promise!Next, Promise!Quiet, FlushScanned, FlushCheckDefaults
<1>26. CASE FlushWbRead
  BY <1>26, <1>2 DEF NoAnswer, Promise!Next, Promise!Quiet, FlushWbRead
<1>27. CASE FlushWbWait
  BY <1>27, <1>2 DEF NoAnswer, Promise!Next, Promise!Quiet, FlushWbWait, FlushWbDefaults
<1>28. CASE FlushWbDone
  BY <1>28, <1>2 DEF NoAnswer, Promise!Next, Promise!Quiet, FlushWbDone, FlushWbDefaults
<1>29. CASE FlushWbFailed
  BY <1>29, <1>1 DEF FlushWbFailed, FlushWbDefaults
<1>30. CASE FlushWbResume
  BY <1>30, <1>2 DEF NoAnswer, Promise!Next, Promise!Quiet, FlushWbResume
<1>31. CASE FlushInvalidate
  BY <1>31, <1>2 DEF NoAnswer, Promise!Next, Promise!Quiet, FlushInvalidate
<1>32. CASE InvLine
  BY <1>32, <1>1 DEF InvLine
<1>33. CASE InvLineWrite
  BY <1>33, <1>1 DEF InvLineWrite
<1>34. CASE RstClear
  BY <1>34, <1>2 DEF NoAnswer, Promise!Next, Promise!Quiet, RstClear
<1>35. CASE Done
  BY <1>35, <1>2 DEF NoAnswer, Promise!Next, Promise!Quiet, Done
<1> QED BY <1>3, <1>4, <1>5, <1>6, <1>7, <1>8, <1>9, <1>10, <1>11, <1>12, <1>13, <1>14,
           <1>15, <1>16, <1>17, <1>18, <1>19, <1>20, <1>21, <1>22, <1>23, <1>24, <1>25,
           <1>26, <1>27, <1>28, <1>29, <1>30, <1>31, <1>32, <1>33, <1>34, <1>35
        DEF Control

-----------------------------------------------------------------------------
\* MemoryInv holds at reset ...
LEMMA InitMemory == Init => MemoryInv
<1> SUFFICES ASSUME Init PROVE MemoryInv
  OBVIOUS
<1> USE DEF Init, CacheInit, SideInit
<1>1. NoErrors /\ FlushAlone /\ Served /\ MissIsRequest
  BY DEF NoErrors, FlushAlone, Served, MissIsRequest, Serving, Missing, Flushing,
         NoRefill, NoWbAck, NoMmioAck
<1>2. WriteBackInv /\ RefillInv /\ OutputsHold /\ RoomMade /\ CleanIsCopy
  BY DEF WriteBackInv, RefillInv, OutputsHold, RoomMade, CleanIsCopy, WritingBack,
         BusIdle, NoWbAck, NoRefill
<1>3. DeviceInv
  BY DEF DeviceInv, NoDevice, DevicePhase, NoMmioAck, BusIdle
<1> QED BY <1>1, <1>2, <1>3 DEF MemoryInv

\* ... and every step keeps it, when the bus makes no errors.
LEMMA StepMemory ==
    ASSUME ~BusFaults, TypeOK, TypeOK', IInv, IInv', MemoryInv, Next
    PROVE  MemoryInv'
<1>1. NoErrors'
  BY CalmNeighbours, CoreStep DEF NoErrors
<1>2. FlushAlone' /\ Served' /\ MissIsRequest'
  BY CoreStep
<1>3. WriteBackInv' /\ RefillInv'
  BY LinesStep
<1>4. DeviceInv'
  BY DeviceStep
<1>5. OutputsHold' /\ RoomMade' /\ CleanIsCopy'
  BY OutputsStep, ContentsStep
<1> QED BY <1>1, <1>2, <1>3, <1>4, <1>5 DEF MemoryInv

\* Stuttering keeps it.
LEMMA StutterMemory == MemoryInv /\ UNCHANGED vars => MemoryInv'
<1> SUFFICES ASSUME MemoryInv, UNCHANGED vars PROVE MemoryInv'
  OBVIOUS
<1> USE DEF vars, cacheVars, inputVars, sideVars, tagVars, dataVars, reqVars, flushVars,
             mmioVars
<1>1. EffTags' = EffTags /\ Seen' = Seen /\ ActiveAddr' = ActiveAddr
  BY DEF EffTags, Seen, HoldingWays, ActiveAddr
<1>2. NoErrors' /\ FlushAlone' /\ Served' /\ MissIsRequest'
  BY <1>1 DEF MemoryInv, NoErrors, FlushAlone, Served, MissIsRequest, Serving, Missing, Flushing
<1>3. WriteBackInv' /\ RefillInv' /\ DeviceInv'
  BY DEF MemoryInv, WriteBackInv, RefillInv, DeviceInv, NoDevice, DevicePhase, WritingBack,
         WbAddr, RefillAddr
<1>4. OutputsHold' /\ RoomMade' /\ CleanIsCopy'
  BY <1>1 DEF MemoryInv, OutputsHold, RoomMade, CleanIsCopy, WritingBack
<1> QED BY <1>2, <1>3, <1>4 DEF MemoryInv

\* Stuttering of the data side is stuttering of the memory of words.
LEMMA StutterPromise == UNCHANGED vars => UNCHANGED Promise!memVars
BY DEF vars, cacheVars, inputVars, sideVars, tagVars, dataVars, Promise!memVars, Seen,
       HoldingWays, EffTags

\* At reset every address has a word and nobody asks or is answered.
LEMMA InitPromise == Init => Promise!Init
<1> SUFFICES ASSUME Init PROVE Promise!Init
  OBVIOUS
<1>1. Seen = [a \in Addr |-> memory[<<a.tag, a.set>>][a.word]]
  BY DEF Init, CacheInit, Seen, HoldingWays
<1>2. \A a \in Addr : memory[<<a.tag, a.set>>][a.word] \in Values
  BY InitType DEF TypeOK, SideType, LineAddr, Line, Addr
<1>3. Seen \in [Addr -> Values]
  BY <1>1, <1>2
<1> QED BY <1>3 DEF Init, CacheInit, SideInit, NoWalk, Promise!Init

\* The whole invariant: whose request is served, where its line and the
\* victim's are and what the bus is doing about them, at every moment.
THEOREM MemoryInvariant == ASSUME ~BusFaults PROVE Spec => []MemoryInv
<1>1. TypeOK /\ TypeOK' /\ IInv /\ IInv' /\ MemoryInv /\ [Next]_vars => MemoryInv'
  BY StepMemory, StutterMemory
<1>2. Spec => []TypeOK /\ []IInv
  BY Invariant, PTL DEF CacheInv
<1> QED BY <1>1, <1>2, InitMemory, PTL DEF Spec

\* Over a bus that makes no errors a clean line is a copy of main memory, so
\* that dropping it, by eviction or by a flush, loses nothing.
THEOREM CleanLinesAreCopies == ASSUME ~BusFaults PROVE Spec => []CleanIsCopy
<1>1. MemoryInv => CleanIsCopy
  BY DEF MemoryInv
<1> QED BY <1>1, MemoryInvariant, PTL

\* Over a bus that makes no errors every device access is made exactly once
\* for the request that asks for it, and is the access the core asked for.
THEOREM DeviceAccessedOnce == ASSUME ~BusFaults PROVE Spec => []DeviceOnce
<1>1. MemoryInv => DeviceOnce
  BY DEF MemoryInv, DeviceInv, NoDevice, DevicePhase, DeviceOnce
<1> QED BY <1>1, MemoryInvariant, PTL

\* The data cache with all its neighbours implements a memory of words: every
\* load and page-table read returns the word last stored at its address, and a
\* store takes effect once, at its answer, whatever misses, evictions,
\* write-backs and flushes are under way.
THEOREM CacheIsWordMemory == ASSUME ~BusFaults PROVE Spec => IsWordMemory
<1>1. Init => Promise!Init
  BY InitPromise
<1>2. TypeOK /\ TypeOK' /\ IInv /\ IInv' /\ MemoryInv /\ [Next]_vars
         => [Promise!Next]_(Promise!memVars)
  BY AnswerStep, StutterPromise
<1>3. Spec => []TypeOK /\ []IInv /\ []MemoryInv
  BY Invariant, MemoryInvariant, PTL DEF CacheInv
<1> QED BY <1>1, <1>2, <1>3, PTL DEF Spec, IsWordMemory, Promise!Spec
=============================================================================
