--------------------------- MODULE DataSideProofs ---------------------------
(***************************************************************************)
(* Theorems about DataSide, for a cache of any geometry, any tags and      *)
(* words, over a bus with or without errors.                               *)
(*                                                                         *)
(* First the types (TypeCorrect), one step per variable of the neighbours  *)
(* and one per action of the controller.  Then the inductive invariant     *)
(* IInv of DataSideInv (Invariant): what a clock edge does to the tags as  *)
(* they will be (EffTags), one lemma for each action that writes a tag,    *)
(* and StepInvariant, which joins them.  The safety properties that the    *)
(* runs check are its corollaries.  DirtyLinesKept, about steps, needs one *)
(* more invariant beside it (RoomIsMade): a refill goes to a clean way.    *)
(***************************************************************************)
EXTENDS DataSideInv, WellFoundedInduction, TLAPS

\* The priority encoder picks one of the ways it is given.
LEMMA LowestIsIn ==
    ASSUME NEW ws \in SUBSET Ways, ws # {}
    PROVE  Lowest(ws) \in ws
<1> DEFINE R == {p \in Nat \X Nat : p[1] < p[2]}
<1>1. IsWellFoundedOn(R, Nat)
  BY NatLessThanWellFounded DEF OpToRel
<1>2. ws \subseteq Nat
  BY GeometryAssumption DEF Ways
<1>3. PICK x \in ws : \A y \in ws : ~(<<y, x>> \in R)
  BY <1>1, <1>2, WFMin, Zenon
<1>4. ASSUME NEW y \in ws
      PROVE  x <= y
  <2>1. x \in Nat /\ y \in Nat
    BY <1>2
  <2>2. y < x => <<y, x>> \in R
    BY <2>1
  <2>3. ~(y < x)
    BY <1>3, <2>2, Zenon
  <2>4. QED
    BY <2>1, <2>3
<1>5. QED
  BY <1>4 DEF Lowest

-----------------------------------------------------------------------------
\* The values that reset loads into the registers have their types.
LEMMA ZeroTypes ==
    /\ ZeroEntry \in Entry
    /\ ZeroAddr \in Addr
    /\ ZeroLine \in Line
    /\ NoTagWrite \in [set : Sets, ways : SUBSET Ways, entry : Entry]
    /\ 0 \in Sets /\ 0 \in Ways /\ 0 \in Words
BY GeometryAssumption, ZeroAssumption
   DEF ZeroEntry, ZeroAddr, ZeroLine, NoTagWrite, Entry, Addr, Line, Sets, Ways, Words

\* Reset, with any contents of the tag RAM, satisfies the types.
LEMMA InitType == Init => TypeOK
<1> SUFFICES ASSUME Init PROVE TypeOK
  OBVIOUS
<1>1. CacheType
  BY ZeroTypes, ZeroAssumption DEF Init, CacheInit, CacheType, States, MissRecord
<1>2. cpu \in CpuRequest /\ ptw \in PtwRequest
  BY ZeroTypes, ZeroAssumption DEF Init, SideInit, NoWalk, CpuRequest, PtwRequest
<1>3. /\ refill \in [done : BOOLEAN, error : BOOLEAN, data : Line]
      /\ wbAck \in [done : BOOLEAN, error : BOOLEAN]
      /\ mmioAck \in [accept : BOOLEAN, valid : BOOLEAN, error : BOOLEAN, data : Values]
  BY ZeroTypes, ZeroAssumption DEF Init, SideInit, NoRefill, NoWbAck, NoMmioAck
<1>4. memory \in [LineAddr -> Line] /\ bus \in Bus
  BY ZeroTypes, ZeroAssumption DEF Init, SideInit, BusIdle, Bus, LineAddr
<1>5. /\ mmuReady \in BOOLEAN /\ flushReq \in BOOLEAN /\ amoAbort \in BOOLEAN
      /\ waitDrop \in BOOLEAN /\ fault \in BOOLEAN
  BY Zenon DEF Init, SideInit
<1>6. devOps \in 0 .. 2
  BY DEF Init, SideInit
<1>7. QED
  BY <1>1, <1>2, <1>3, <1>4, <1>5, <1>6 DEF TypeOK, SideType

\* A step of the neighbours (load/store unit, MMU, walker, fence, bus)
\* keeps the types of the wires they drive and of main memory.
LEMMA SideStepType == TypeOK /\ Next => SideType'
<1> SUFFICES ASSUME TypeOK, Next PROVE SideType'
  OBVIOUS
<1>1. cpu' \in CpuRequest /\ amoAbort' \in BOOLEAN /\ fault' \in BOOLEAN
  <2> USE DEF TypeOK, SideType, CpuRequest, BusError
  <2>1. CASE CpuIssue
    BY <2>1 DEF CpuIssue
  <2>2. CASE CpuAnswered
    BY <2>2 DEF CpuAnswered
  <2>3. CASE CpuTrapped
    BY <2>3 DEF CpuTrapped
  <2>4. CASE CpuHold
    BY <2>4 DEF CpuHold
  <2>5. QED
    BY <2>1, <2>2, <2>3, <2>4 DEF Next, Cpu
<1>2. ptw' \in PtwRequest /\ mmuReady' \in BOOLEAN
  <2> USE DEF TypeOK, SideType, PtwRequest
  <2>1. NoWalk \in PtwRequest
    BY ZeroTypes DEF NoWalk
  <2>2. CASE Mmu
    BY <2>2 DEF Mmu, MmuDone, CpuRequest
  <2>3. CASE ptw' = NoWalk /\ UNCHANGED mmuReady
    BY <2>1, <2>3
  <2>4. QED
    BY <2>2, <2>3 DEF Next, Walk
<1>3. flushReq' \in BOOLEAN
  BY DEF TypeOK, CacheType, SideType, Next, Fence
<1>4. /\ memory' \in [LineAddr -> Line] /\ bus' \in Bus /\ waitDrop' \in BOOLEAN
      /\ refill' \in [done : BOOLEAN, error : BOOLEAN, data : Line]
      /\ wbAck' \in [done : BOOLEAN, error : BOOLEAN]
      /\ mmioAck' \in [accept : BOOLEAN, valid : BOOLEAN, error : BOOLEAN, data : Values]
  <2> USE DEF Bus, LineAddr, BusIdle, NoRefill, NoWbAck, NoMmioAck, BusQuiet, MmioQuiet, DropSeen
  <2>0. \A e \in Errors : e \in BOOLEAN
    BY DEF Errors
  <2>1. CASE BusWait
    BY <2>1, ZeroTypes, ZeroAssumption DEF BusWait, TypeOK, CacheType, SideType
  <2>2. CASE StartMmio
    <3>1. bus' = [op |-> "mmio", addr |-> <<ZeroTag, 0>>, line |-> ZeroLine]
          /\ mmioAck' = [accept |-> TRUE, valid |-> FALSE, error |-> FALSE, data |-> ZeroValue]
      BY <2>2 DEF StartMmio
    <3>2. bus' \in Bus
      <4>1. <<ZeroTag, 0>> \in Tags \X Sets /\ ZeroLine \in Line
        BY ZeroTypes, ZeroAssumption
      <4>2. QED
        BY <3>1, <4>1
    <3>3. mmioAck' \in [accept : BOOLEAN, valid : BOOLEAN, error : BOOLEAN, data : Values]
      BY <3>1, ZeroAssumption
    <3>4. QED
      BY <2>2, <3>2, <3>3, ZeroTypes, ZeroAssumption DEF StartMmio, TypeOK, CacheType, SideType
  <2>3. CASE StartWb
    BY <2>3, ZeroTypes, ZeroAssumption
       DEF StartWb, TypeOK, CacheType, SideType, WbAddr, MissRecord
  <2>4. CASE StartRefill
    BY <2>4, ZeroTypes, ZeroAssumption
       DEF StartRefill, TypeOK, CacheType, SideType, RefillAddr, MissRecord
  <2>5. CASE EndMmio
    BY <2>0, <2>5, ZeroTypes, ZeroAssumption DEF EndMmio, TypeOK, CacheType, SideType
  <2>6. CASE EndWb
    <3>1. PICK e \in Errors :
             /\ wbAck' = [done |-> TRUE, error |-> e]
             /\ \/ memory' = [memory EXCEPT ![bus.addr] = bus.line]
                \/ e /\ UNCHANGED memory
      BY <2>6 DEF EndWb
    <3>2. memory' \in [LineAddr -> Line]
      BY <3>1 DEF TypeOK, SideType
    <3>3. bus' \in Bus
      BY <2>6, ZeroTypes, ZeroAssumption DEF EndWb
    <3>4. QED
      BY <2>0, <2>6, <3>1, <3>2, <3>3, ZeroTypes, ZeroAssumption
         DEF EndWb, TypeOK, SideType
  <2>7. CASE EndRefill
    BY <2>0, <2>7, ZeroTypes, ZeroAssumption DEF EndRefill, TypeOK, CacheType, SideType
  <2>8. QED
    BY <2>1, <2>2, <2>3, <2>4, <2>5, <2>6, <2>7 DEF Next, BusStep, BusStart, BusEnd
<1>5. devOps' \in 0 .. 2
  BY DEF TypeOK, SideType, Next, CountDevice
<1>6. QED
  BY <1>1, <1>2, <1>3, <1>4, <1>5 DEF SideType

-----------------------------------------------------------------------------
\* The tags with the pending write landed are an array of entries.
LEMMA EffTagsType == TypeOK => EffTags \in [Sets -> [Ways -> Entry]]
BY DEF TypeOK, CacheType, EffTags

\* The address of port A is a set of the cache.
LEMMA TagReadSetType == TypeOK => TagReadSet \in Sets
BY DEF TypeOK, CacheType, SideType, TagReadSet, MissRecord, PtwRequest, CpuRequest, Addr

\* The address that is looked up, the CPU's or the walker's, is an address.
LEMMA ActiveAddrType == TypeOK => ActiveAddr \in Addr
BY DEF TypeOK, CacheType, SideType, ActiveAddr, CpuRequest

\* On a hit, the way that is used is one whose tag matches.
LEMMA HitWayIsHit == CacheHit => HitWay \in HitWays /\ HitWay \in Ways
BY LowestIsIn DEF CacheHit, HitWay, HitWays

\* The victim of a miss is a way of the cache.
LEMMA VictimsAreWays == Victims \subseteq Ways
<1>1. InvalidWays # {} => Lowest(InvalidWays) \in Ways
  BY LowestIsIn DEF InvalidWays
<1>2. QED
  BY <1>1 DEF Victims

\* Stepping the flush past a line stays inside the cache: the last way
\* and the last set are recognised.
LEMMA AdvancePastType ==
    ASSUME TypeOK, AdvancePast
    PROVE  flushSet' \in Sets /\ flushWay' \in Ways /\ clearSet' \in Sets
           /\ flushResume' \in BOOLEAN
<1>1. /\ miss.set \in Sets /\ miss.way \in Ways
      /\ flushSet \in Sets /\ flushWay \in Ways /\ clearSet \in Sets
  BY DEF TypeOK, CacheType, MissRecord
<1>2. CASE miss.way = NumWays - 1 /\ miss.set = NumSets - 1
  BY <1>1, <1>2, ZeroTypes DEF AdvancePast
<1>3. CASE miss.way = NumWays - 1 /\ miss.set # NumSets - 1
  <2>1. miss.set + 1 \in Sets
    BY <1>1, <1>3, GeometryAssumption DEF Sets
  <2>2. QED
    BY <1>1, <1>3, <2>1, ZeroTypes DEF AdvancePast
<1>4. CASE miss.way # NumWays - 1
  <2>1. miss.way + 1 \in Ways
    BY <1>1, <1>4, GeometryAssumption DEF Ways
  <2>2. QED
    BY <1>1, <1>4, <2>1 DEF AdvancePast
<1>5. QED
  BY <1>2, <1>3, <1>4

\* The refilled line, with the missing store merged in, is a line.
LEMMA RefillLineType == TypeOK => RefillLine \in Line
BY DEF TypeOK, CacheType, SideType, RefillLine, MissRecord, Line

\* The write of the data RAM in REFILL keeps its type.
LEMMA RefillDataType ==
    TypeOK /\ RefillDefaults => dataRam' \in [Sets -> [Ways -> Line]]
BY RefillLineType DEF TypeOK, CacheType, RefillDefaults, MissRecord

\* A clock edge of the controller keeps the types of its registers.
LEMMA CacheStepType == TypeOK /\ CacheStep => CacheType'
<1> SUFFICES ASSUME TypeOK, CacheStep PROVE CacheType'
  OBVIOUS
<1>1. tagRam' \in [Sets -> [Ways -> Entry]] /\ tagOut' \in [Ways -> Entry]
  BY EffTagsType, TagReadSetType DEF CacheStep, TagBram, TypeOK, CacheType
<1> USE ZeroTypes DEF TypeOK, CacheType, SideType, States, NoAnswer, NoTagSetup, NoFlushDone,
        MmioAccept, dataVars, reqVars, flushVars
<1>2. CASE IdleFlush
  BY <1>1, <1>2, ZeroAssumption, GeometryAssumption DEF IdleFlush, IdleDefaults
<1>3. CASE IdlePtw
  BY <1>1, <1>3, ZeroAssumption, GeometryAssumption DEF IdlePtw, IdleDefaults, PtwRequest
<1>4. CASE IdleCpu
  BY <1>1, <1>4, ZeroAssumption, GeometryAssumption DEF IdleCpu, IdleDefaults, CpuRequest
<1>5. CASE IdleWait
  BY <1>1, <1>5, ZeroAssumption, GeometryAssumption DEF IdleWait, IdleDefaults
<1>6. CASE TagStoreHit
  <2>1. HitWay \in Ways /\ ActiveAddr.set \in Sets /\ ActiveAddr.word \in Words
    BY <1>6, HitWayIsHit, ActiveAddrType DEF TagStoreHit, Addr
  <2>2. cpu.data \in Values
    BY DEF CpuRequest
  <2>3. dataRam' \in [Sets -> [Ways -> Line]]
    BY <1>6, <2>1, <2>2 DEF TagStoreHit, Line
  <2>4. tagWr' \in [set : Sets, ways : SUBSET Ways, entry : Entry]
    BY <1>6, <2>1 DEF TagStoreHit, TagWrite, Dirty, Entry
  <2>5. QED
    BY <1>1, <1>6, <2>3, <2>4 DEF TagStoreHit, TagReadDefaults, AfterAnswer
<1>7. CASE TagLoadHit
  <2>1. HitWay \in Ways /\ ActiveAddr.set \in Sets /\ ActiveAddr.word \in Words
    BY <1>7, HitWayIsHit, ActiveAddrType DEF TagLoadHit, Addr
  <2>2. hitWord' \in Values
    BY <1>7, <2>1 DEF TagLoadHit, Line
  <2>3. QED
    BY <1>1, <1>7, <2>2 DEF TagLoadHit, TagReadDefaults
<1>8. CASE TagMiss
  <2>1. miss' \in MissRecord
    BY <1>8, VictimsAreWays, ActiveAddrType
       DEF TagMiss, Addr, Entry, MissRecord, CpuRequest
  <2>2. state' \in States
    BY <1>8 DEF TagMiss
  <2>3. QED
    BY <1>1, <1>8, <2>1, <2>2 DEF TagMiss, TagReadDefaults
<1>9. CASE ReadHit
  BY <1>1, <1>9, ZeroAssumption, GeometryAssumption DEF ReadHit, AfterAnswer
<1>10. CASE WbRead
  <2>1. lineOut' \in Line
    BY <1>10 DEF WbRead, MissRecord
  <2>2. QED
    BY <1>1, <1>10, <2>1 DEF WbRead
<1>11. CASE WbSendWait
  BY <1>1, <1>11, ZeroAssumption, GeometryAssumption DEF WbSendWait, WbSendDefaults
<1>12. CASE WbSendGiveUp
  BY <1>1, <1>12, ZeroAssumption, GeometryAssumption DEF WbSendGiveUp, WbSendDefaults
<1>13. CASE WbSendDone
  BY <1>1, <1>13, ZeroAssumption, GeometryAssumption DEF WbSendDone, WbSendDefaults, MissRecord, TagWrite, Clean, Entry
<1>14. CASE RefillFlushed
  <2>1. dataRam' \in [Sets -> [Ways -> Line]]
    BY <1>14, RefillDataType DEF RefillFlushed
  <2>2. QED
    BY <1>1, <1>14, <2>1 DEF RefillFlushed, RefillDefaults
<1>15. CASE RefillAborted
  <2>1. dataRam' \in [Sets -> [Ways -> Line]]
    BY <1>15, RefillDataType DEF RefillAborted
  <2>2. QED
    BY <1>1, <1>15, <2>1 DEF RefillAborted, RefillDefaults
<1>16. CASE RefillWait
  BY <1>1, <1>16, ZeroAssumption, GeometryAssumption DEF RefillWait, RefillDefaults
<1>17. CASE RefillFailed
  BY <1>1, <1>17, ZeroAssumption, GeometryAssumption DEF RefillFailed, RefillDefaults, AfterAnswer
<1>18. CASE RefillInstall
  BY <1>1, <1>18, ZeroAssumption, GeometryAssumption, RefillLineType DEF RefillInstall, RefillDefaults, AfterAnswer, TagWrite, MissRecord, Entry, Line
<1>19. CASE FlushScan
  BY <1>1, <1>19, ZeroAssumption, GeometryAssumption DEF FlushScan
<1>20. CASE FlushFindDirty
  <2>1. tagOut[flushWay].tag \in Tags
    BY DEF Entry
  <2>2. miss' \in MissRecord
    BY <1>20, <2>1 DEF FlushFindDirty, MissRecord
  <2>3. QED
    BY <1>1, <1>20, <2>2 DEF FlushFindDirty, FlushCheckDefaults
<1>21. CASE FlushNextWay
  <2>1. flushWay' \in Ways
    BY <1>21, GeometryAssumption DEF FlushNextWay, Ways
  <2>2. QED
    BY <1>1, <1>21, <2>1 DEF FlushNextWay, FlushCheckDefaults
<1>22. CASE FlushNextSet
  <2>1. flushSet' \in Sets
    BY <1>22, GeometryAssumption DEF FlushNextSet, Sets
  <2>2. QED
    BY <1>1, <1>22, <2>1 DEF FlushNextSet, FlushCheckDefaults
<1>23. CASE FlushScanned
  BY <1>1, <1>23, ZeroAssumption, GeometryAssumption DEF FlushScanned, FlushCheckDefaults
<1>24. CASE FlushWbRead
  <2>1. lineOut' \in Line
    BY <1>24 DEF FlushWbRead
  <2>2. QED
    BY <1>1, <1>24, <2>1 DEF FlushWbRead
<1>25. CASE FlushWbWait
  BY <1>1, <1>25, ZeroAssumption, GeometryAssumption DEF FlushWbWait, FlushWbDefaults
<1>26. CASE FlushWbDone
  BY <1>1, <1>26, ZeroAssumption, GeometryAssumption, AdvancePastType DEF FlushWbDone, FlushWbDefaults, TagWrite, Clean, MissRecord, Entry
<1>27. CASE FlushWbFailed
  BY <1>1, <1>27, ZeroAssumption, GeometryAssumption DEF FlushWbFailed, FlushWbDefaults
<1>28. CASE FlushWbResume
  BY <1>1, <1>28, ZeroAssumption, GeometryAssumption DEF FlushWbResume
<1>29. CASE FlushInvalidate
  <2>1. clearSet' \in Sets
    BY <1>29, GeometryAssumption DEF FlushInvalidate, Sets
  <2>2. tagWr' \in [set : Sets, ways : SUBSET Ways, entry : Entry]
    BY <1>29 DEF FlushInvalidate, TagWrite
  <2>3. QED
    BY <1>1, <1>29, <2>1, <2>2 DEF FlushInvalidate
<1>30. CASE InvLine
  BY <1>1, <1>30, ZeroAssumption, GeometryAssumption DEF InvLine
<1>31. CASE InvLineWrite
  <2>1. tagWr' \in [set : Sets, ways : SUBSET Ways, entry : Entry]
    <3> DEFINE found == {w \in Ways : Matches(w, miss.victimTag)}
    <3>1. found # {} => Lowest(found) \in Ways
      <4>1. found \in SUBSET Ways
        OBVIOUS
      <4>2. found # {} => Lowest(found) \in found
        BY <4>1, LowestIsIn
      <4>3. QED
        BY <4>1, <4>2
    <3>2. CASE found = {}
      BY <1>31, <3>2 DEF InvLineWrite
    <3>3. CASE found # {}
      BY <1>31, <3>1, <3>3 DEF InvLineWrite, TagWrite, Dropped, Entry, MissRecord
    <3>4. QED
      BY <3>2, <3>3
  <2>2. AdvancePast
    BY <1>31 DEF InvLineWrite
  <2>3. QED
    BY <1>1, <1>31, <2>1, <2>2, AdvancePastType DEF InvLineWrite
<1>32. CASE RstClear
  <2>1. clearSet' \in Sets
    BY <1>32, GeometryAssumption DEF RstClear, Sets
  <2>2. tagWr' \in [set : Sets, ways : SUBSET Ways, entry : Entry]
    BY <1>32 DEF RstClear, TagWrite
  <2>3. QED
    BY <1>1, <1>32, <2>1, <2>2 DEF RstClear
<1>33. CASE Done
  BY <1>1, <1>33, ZeroAssumption, GeometryAssumption DEF Done
<1>34. QED
  BY <1>2, <1>3, <1>4, <1>5, <1>6, <1>7, <1>8, <1>9, <1>10, <1>11, <1>12, <1>13, <1>14, <1>15, <1>16, <1>17, <1>18, <1>19, <1>20, <1>21, <1>22, <1>23, <1>24, <1>25, <1>26, <1>27, <1>28, <1>29, <1>30, <1>31, <1>32, <1>33 DEF CacheStep, Control

\* The types hold when nothing changes.
LEMMA StutterType == TypeOK /\ UNCHANGED vars => TypeOK'
BY DEF TypeOK, CacheType, SideType, vars, cacheVars, inputVars, sideVars,
       tagVars, dataVars, reqVars, flushVars, mmioVars

\* Every register and wire keeps its type: the set and way counters never
\* leave the cache, whatever the bus answers.
THEOREM TypeCorrect == Spec => []TypeOK
<1>1. Init => TypeOK
  BY InitType
<1>2. TypeOK /\ [Next]_vars => TypeOK'
  BY CacheStepType, SideStepType, StutterType DEF Next, TypeOK
<1>3. QED
  BY <1>1, <1>2, PTL DEF Spec

-----------------------------------------------------------------------------
\* A clock edge changes the tags, as they will be, by the write it sets up.
LEMMA EffTagsStep ==
    ASSUME TypeOK, TypeOK', TagBram
    PROVE  \A s \in Sets : \A w \in Ways :
              EffTags'[s][w] = IF s = tagWr'.set /\ w \in tagWr'.ways
                               THEN tagWr'.entry ELSE EffTags[s][w]
BY DEF TypeOK, CacheType, TagBram, EffTags

\* A clock edge that sets up no tag write changes no tag.
LEMMA NoSetupKeepsTags ==
    ASSUME TypeOK, TypeOK', TagBram, NoTagSetup
    PROVE  EffTags' = EffTags
<1>1. tagWr'.ways = {}
  BY DEF NoTagSetup, NoTagWrite
<1>2. EffTags' = tagRam'
  BY <1>1 DEF EffTags, TypeOK, CacheType
<1>3. QED
  BY <1>2 DEF TagBram

\* With no write pending the array is what the tags will be.
LEMMA SettledTags ==
    ASSUME TypeOK, tagWr.ways = {}
    PROVE  EffTags = tagRam
BY DEF TypeOK, CacheType, EffTags

\* The invariant holds at reset.
LEMMA InitInvariant == Init => IInv
<1> SUFFICES ASSUME Init PROVE IInv
  OBVIOUS
<1>1. state = "RST_CLEAR" /\ clearSet = 0 /\ tagWr.ways = {} /\ ~flushDone
  BY DEF Init, CacheInit, NoTagWrite
<1>2. ~cpu.valid /\ ~ptw.valid /\ ~flushReq /\ ~mmuReady
  BY DEF Init, SideInit, NoWalk
<1>3. QED
  BY <1>1, <1>2
     DEF IInv, QuietUntilBooted, PendingWrites, PendingStates, OneMmu, Shown, MissHolds,
         VictimHolds, DrainsHere, ScanClean, ClearedBefore, UniqueLine, DirtyIsValid,
         FlushDropsNothing, FlushedEmpty, LookupIsTranslated, Sets

\* What the steps of the neighbours keep for the controller.
LEMMA NeighboursStep ==
    ASSUME TypeOK, IInv, Next
    PROVE  /\ cpu.valid => cpu'.addr = cpu.addr /\ cpu'.mmio = cpu.mmio
           /\ cpu.valid /\ mmuReady => mmuReady'
           /\ OneMmu'
           /\ ~Booted => ~cpu'.valid /\ ~ptw'.valid /\ ~flushReq'
<1> USE DEF TypeOK, SideType, Next, CpuRequest, PtwRequest
<1>1. cpu.valid => cpu'.addr = cpu.addr /\ cpu'.mmio = cpu.mmio
  BY DEF Cpu, CpuIssue, CpuAnswered, CpuTrapped, CpuHold
<1>2. OneMmu' /\ (cpu.valid /\ mmuReady => mmuReady')
  BY DEF IInv, OneMmu, Walk, Mmu, MmuDone, PtwAnswered, PtwTimeout, NoWalk
<1>3. ASSUME ~Booted
      PROVE  ~cpu'.valid /\ ~ptw'.valid /\ ~flushReq'
  <2>1. ~cpu.valid /\ ~ptw.valid /\ ~flushReq
    BY <1>3 DEF IInv, QuietUntilBooted
  <2>2. ~cpu'.valid
    BY <1>3, <2>1 DEF Cpu, CpuIssue, CpuAnswered, CpuTrapped, CpuHold
  <2>3. ~ptw'.valid
    BY <1>3, <2>1 DEF Walk, Mmu, MmuDone, PtwAnswered, PtwTimeout, NoWalk
  <2>4. ~flushReq'
    BY <1>3, <2>1 DEF Fence
  <2>5. QED
    BY <2>2, <2>3, <2>4
<1>4. QED
  BY <1>1, <1>2, <1>3

\* Once the line in miss is clean, the scan may go on behind it.
LEMMA AdvancedScan ==
    ASSUME TypeOK, AdvancePast, state' = "FLUSH_WB_WAIT",
           \A t \in Sets : \A u \in Ways :
              t < miss.set \/ (t = miss.set /\ u <= miss.way) => ~EffTags'[t][u].d
    PROVE  ScanClean'
<1>1. miss.set \in Sets /\ miss.way \in Ways
  BY DEF TypeOK, CacheType, MissRecord
<1>2. CASE miss.way = NumWays - 1 /\ miss.set = NumSets - 1
  <2>1. \A t \in Sets : \A u \in Ways : ~EffTags'[t][u].d
    BY <1>1, <1>2, GeometryAssumption DEF Sets, Ways
  <2>2. flushResume' = TRUE /\ clearSet' = 0
    BY <1>2 DEF AdvancePast
  <2>3. QED
    BY <2>1, <2>2 DEF ScanClean
<1>3. CASE miss.way = NumWays - 1 /\ miss.set # NumSets - 1
  <2>1. flushSet' = miss.set + 1 /\ flushWay' = 0 /\ flushResume' = FALSE
    BY <1>3 DEF AdvancePast
  <2>2. CleanBefore(flushSet, flushWay)'
    BY <1>1, <1>3, <2>1, GeometryAssumption DEF CleanBefore, Sets, Ways
  <2>3. QED
    BY <2>1, <2>2 DEF ScanClean
<1>4. CASE miss.way # NumWays - 1
  <2>1. flushSet' = miss.set /\ flushWay' = miss.way + 1 /\ flushResume' = FALSE
    BY <1>4 DEF AdvancePast
  <2>2. CleanBefore(flushSet, flushWay)'
    BY <1>1, <1>4, <2>1, GeometryAssumption DEF CleanBefore, Sets, Ways
  <2>3. QED
    BY <2>1, <2>2 DEF ScanClean
<1>5. QED
  BY <1>2, <1>3, <1>4

\* What a tag write does, once it has landed, to the rest of the invariant.
Written(s0, w0, e) ==
    \A s \in Sets : \A w \in Ways :
        EffTags'[s][w] = IF s = s0 /\ w = w0 THEN e ELSE EffTags[s][w]

Zeroed(s0) ==
    \A s \in Sets : \A w \in Ways :
        EffTags'[s][w] = IF s = s0 THEN ZeroEntry ELSE EffTags[s][w]

\* Setting up a write of one way writes that entry and no other.
LEMMA OneWritten ==
    ASSUME TypeOK, TypeOK', TagBram,
           NEW s0 \in Sets, NEW w0 \in Ways, NEW e, tagWr' = TagWrite(s0, {w0}, e)
    PROVE  Written(s0, w0, e)
<1>1. tagWr'.set = s0 /\ tagWr'.ways = {w0} /\ tagWr'.entry = e
  BY DEF TagWrite
<1>2. \A s \in Sets : \A w \in Ways :
          EffTags'[s][w] = IF s = tagWr'.set /\ w \in tagWr'.ways
                           THEN tagWr'.entry ELSE EffTags[s][w]
  BY EffTagsStep, Zenon
<1>3. \A w : w \in tagWr'.ways <=> w = w0
  BY <1>1
<1>4. ASSUME NEW s \in Sets, NEW w \in Ways
      PROVE  EffTags'[s][w] = IF s = s0 /\ w = w0 THEN e ELSE EffTags[s][w]
  <2>1. EffTags'[s][w] = IF s = tagWr'.set /\ w \in tagWr'.ways
                         THEN tagWr'.entry ELSE EffTags[s][w]
    BY <1>2, Zenon
  <2>2. QED
    BY <1>1, <1>3, <2>1
<1>5. QED
  BY <1>4, Zenon DEF Written

\* Setting up a clear of a set empties that set and touches no other.
LEMMA SetZeroed ==
    ASSUME TypeOK, TypeOK', TagBram,
           NEW s0 \in Sets, tagWr' = TagWrite(s0, Ways, ZeroEntry)
    PROVE  Zeroed(s0)
<1>1. tagWr'.set = s0 /\ tagWr'.ways = Ways /\ tagWr'.entry = ZeroEntry
  BY DEF TagWrite
<1>2. QED
  BY <1>1, EffTagsStep DEF Zeroed

\* Writing an entry keeps lines unique and invalid entries clean when the
\* new entry, if valid, has the tag of the valid entry it replaces.
LEMMA RewrittenInPlace ==
    ASSUME NEW s0 \in Sets, NEW w0 \in Ways, NEW e, Written(s0, w0, e),
           UniqueLine, DirtyIsValid, state # "RST_CLEAR",
           e.v => EffTags[s0][w0].v /\ EffTags[s0][w0].tag = e.tag, e.d => e.v
    PROVE  UniqueLine' /\ DirtyIsValid'
<1>1. \A s \in Sets : \A w \in Ways :
         /\ EffTags'[s][w].v => EffTags[s][w].v /\ EffTags'[s][w].tag = EffTags[s][w].tag
         /\ EffTags'[s][w].d => EffTags'[s][w].v
  BY DEF Written, DirtyIsValid
<1>2. UniqueLine'
  BY <1>1 DEF UniqueLine
<1>3. DirtyIsValid'
  BY <1>1 DEF DirtyIsValid
<1>4. QED
  BY <1>2, <1>3

\* A clean entry at the scan position extends the clean part by that position.
LEMMA CleanedHere ==
    ASSUME NEW s0 \in Sets, NEW w0 \in Ways, NEW e, Written(s0, w0, e), ~e.d,
           CleanBefore(s0, w0)
    PROVE  \A t \in Sets : \A u \in Ways :
              t < s0 \/ (t = s0 /\ u <= w0) => ~EffTags'[t][u].d
BY DEF Written, CleanBefore, Sets, Ways

\* A store hit marks the way it hit dirty and duplicates no line.
LEMMA TagStoreHitKeeps ==
    ASSUME TypeOK, TypeOK', IInv, Next, TagStoreHit
    PROVE  UniqueLine' /\ DirtyIsValid'
<1>1. /\ HitWay \in Ways /\ tagOut[HitWay].v
      /\ ActiveAddr.set \in Sets /\ tagOut = EffTags[ActiveAddr.set]
  BY HitWayIsHit, ActiveAddrType
     DEF TagStoreHit, TagReadDefaults, HitWays, Matches, Addr, IInv, Shown
<1>2. Written(ActiveAddr.set, HitWay, Dirty(tagOut[HitWay]))
  BY <1>1, OneWritten DEF Next, CacheStep, TagStoreHit
<1>3. UniqueLine /\ DirtyIsValid /\ state # "RST_CLEAR"
  BY DEF IInv, TagStoreHit, TagReadDefaults
<1>4. QED
  BY <1>1, <1>2, <1>3, RewrittenInPlace DEF Dirty

\* The line a write-back was for, in the miss path and in the flush.
LEMMA VictimIsDirty ==
    ASSUME TypeOK, IInv, state \in {"WB_SEND", "FLUSH_WB_SD", "INV_LINE_WRITE"}
    PROVE  /\ miss.set \in Sets /\ miss.way \in Ways
           /\ EffTags[miss.set][miss.way] = [v |-> TRUE, d |-> TRUE, tag |-> miss.victimTag]
           /\ UniqueLine /\ DirtyIsValid /\ state # "RST_CLEAR"
BY DEF TypeOK, CacheType, MissRecord, IInv, VictimHolds

\* The write-back of a victim leaves the victim clean in its way, and the
\* line that missed is still absent.
LEMMA WbSendDoneKeeps ==
    ASSUME TypeOK, TypeOK', IInv, Next, WbSendDone
    PROVE  UniqueLine' /\ DirtyIsValid' /\ MissHolds'
<1>1. /\ miss.set \in Sets /\ miss.way \in Ways /\ miss' = miss
      /\ EffTags[miss.set][miss.way] = [v |-> TRUE, d |-> TRUE, tag |-> miss.victimTag]
      /\ UniqueLine /\ DirtyIsValid /\ state # "RST_CLEAR"
  BY VictimIsDirty DEF WbSendDone, WbSendDefaults, reqVars
<1>2. Written(miss.set, miss.way, Clean(miss.victimTag))
  BY <1>1, OneWritten DEF Next, CacheStep, WbSendDone
<1>3. UniqueLine' /\ DirtyIsValid'
  BY <1>1, <1>2, RewrittenInPlace DEF Clean
<1>4. MissHolds
  BY DEF IInv
<1>5. MissHolds'
  BY <1>1, <1>2, <1>4 DEF MissHolds, Written, Clean, WbSendDone, WbSendDefaults
<1>6. QED
  BY <1>3, <1>5

\* The refilled line is new to its set, so it stays unique.
LEMMA RefillInstallKeeps ==
    ASSUME TypeOK, TypeOK', IInv, Next, RefillInstall
    PROVE  UniqueLine' /\ DirtyIsValid'
<1> DEFINE e == [v |-> TRUE, d |-> miss.write, tag |-> miss.tag]
<1>1. miss.set \in Sets /\ miss.way \in Ways
  BY DEF TypeOK, CacheType, MissRecord
<1>2. Written(miss.set, miss.way, e)
  BY <1>1, OneWritten DEF Next, CacheStep, RefillInstall
<1>3. UniqueLine /\ DirtyIsValid /\ state # "RST_CLEAR"
  BY DEF IInv, RefillInstall, RefillDefaults
<1>4. \A w \in Ways : EffTags[miss.set][w].v => EffTags[miss.set][w].tag # e.tag
  BY DEF IInv, MissHolds, RefillInstall, RefillDefaults
<1>5. e.v
  OBVIOUS
<1> HIDE DEF e
<1>6. UniqueLine'
  BY <1>2, <1>3, <1>4 DEF Written, UniqueLine
<1>7. DirtyIsValid'
  BY <1>2, <1>3, <1>5 DEF Written, DirtyIsValid
<1>8. QED
  BY <1>6, <1>7

\* A line that the flush wrote back is clean, and the scan goes on behind it.
LEMMA FlushWbDoneKeeps ==
    ASSUME TypeOK, TypeOK', IInv, Next, FlushWbDone
    PROVE  UniqueLine' /\ DirtyIsValid' /\ ScanClean'
<1>1. /\ miss.set \in Sets /\ miss.way \in Ways
      /\ EffTags[miss.set][miss.way] = [v |-> TRUE, d |-> TRUE, tag |-> miss.victimTag]
      /\ UniqueLine /\ DirtyIsValid /\ state # "RST_CLEAR"
  BY VictimIsDirty DEF FlushWbDone, FlushWbDefaults
<1>2. Written(miss.set, miss.way, Clean(miss.victimTag))
  BY <1>1, OneWritten DEF Next, CacheStep, FlushWbDone
<1>3. UniqueLine' /\ DirtyIsValid'
  BY <1>1, <1>2, RewrittenInPlace DEF Clean
<1>4. CleanBefore(miss.set, miss.way)
  BY DEF IInv, DrainsHere, ScanClean, FlushWbDone, FlushWbDefaults
<1>5. \A t \in Sets : \A u \in Ways :
         t < miss.set \/ (t = miss.set /\ u <= miss.way) => ~EffTags'[t][u].d
  BY <1>1, <1>2, <1>4, CleanedHere DEF Clean
<1>6. ScanClean'
  BY <1>5, AdvancedScan DEF FlushWbDone
<1>7. QED
  BY <1>3, <1>6

\* Dropping a line whose write-back failed finds it in its way, and writes
\* that way only.
LEMMA InvLineDrops ==
    ASSUME TypeOK, TypeOK', IInv, Next, InvLineWrite
    PROVE  Written(miss.set, miss.way, Dropped(tagOut[miss.way]))
<1> DEFINE found == {w \in Ways : Matches(w, miss.victimTag)}
<1>1. /\ miss.set \in Sets /\ miss.way \in Ways
      /\ EffTags[miss.set][miss.way] = [v |-> TRUE, d |-> TRUE, tag |-> miss.victimTag]
      /\ UniqueLine /\ state # "RST_CLEAR"
  BY VictimIsDirty DEF InvLineWrite
<1>2. tagOut = EffTags[miss.set]
  BY DEF InvLineWrite, IInv, Shown
<1>3. found = {miss.way}
  BY <1>1, <1>2 DEF Matches, UniqueLine
<1>4. Lowest(found) = miss.way
  BY <1>1, <1>3, LowestIsIn
<1>5. tagWr' = TagWrite(miss.set, {miss.way}, Dropped(tagOut[miss.way]))
  BY <1>3, <1>4 DEF InvLineWrite
<1>6. QED
  BY <1>1, <1>5, OneWritten DEF Next, CacheStep

\* A line whose write-back failed is dropped, D bit included, and the scan
\* goes on behind it.
LEMMA InvLineWriteKeeps ==
    ASSUME TypeOK, TypeOK', IInv, Next, InvLineWrite
    PROVE  UniqueLine' /\ DirtyIsValid' /\ ScanClean'
<1>1. /\ miss.set \in Sets /\ miss.way \in Ways
      /\ EffTags[miss.set][miss.way] = [v |-> TRUE, d |-> TRUE, tag |-> miss.victimTag]
      /\ UniqueLine /\ DirtyIsValid /\ state # "RST_CLEAR"
  BY VictimIsDirty DEF InvLineWrite
<1>2. tagOut = EffTags[miss.set]
  BY DEF InvLineWrite, IInv, Shown
<1>3. Written(miss.set, miss.way, Dropped(tagOut[miss.way]))
  BY InvLineDrops
<1>4. UniqueLine' /\ DirtyIsValid'
  BY <1>1, <1>2, <1>3, RewrittenInPlace DEF Dropped
<1>5. CleanBefore(miss.set, miss.way)
  BY DEF IInv, DrainsHere, ScanClean, InvLineWrite
<1>6. \A t \in Sets : \A u \in Ways :
         t < miss.set \/ (t = miss.set /\ u <= miss.way) => ~EffTags'[t][u].d
  BY <1>1, <1>3, <1>5, CleanedHere DEF Dropped
<1>7. ScanClean'
  BY <1>6, AdvancedScan DEF InvLineWrite
<1>8. QED
  BY <1>4, <1>7

\* A step of a clearing scan empties the set it is at.
LEMMA ClearedHere ==
    ASSUME TypeOK, TypeOK', IInv, Next, FlushInvalidate \/ RstClear
    PROVE  /\ clearSet \in Sets /\ Zeroed(clearSet)
           /\ \A t \in Sets : \A u \in Ways :
                 t <= clearSet => ~EffTags'[t][u].v /\ ~EffTags'[t][u].d
<1>1. clearSet \in Sets
  BY DEF TypeOK, CacheType
<1>2. Zeroed(clearSet)
  BY <1>1, SetZeroed DEF Next, CacheStep, FlushInvalidate, RstClear
<1>3. ClearedBefore /\ state \in {"RST_CLEAR", "FLUSH_INVALIDATE"}
  BY DEF IInv, FlushInvalidate, RstClear
<1>4. ~ZeroEntry.v /\ ~ZeroEntry.d
  BY DEF ZeroEntry
<1>5. \A t \in Sets : \A u \in Ways :
         t <= clearSet => ~EffTags'[t][u].v /\ ~EffTags'[t][u].d
  <2> TAKE t \in Sets
  <2> TAKE u \in Ways
  <2> HAVE t <= clearSet
  <2>1. CASE t = clearSet
    BY <1>2, <1>4, <2>1 DEF Zeroed
  <2>2. CASE t < clearSet
    BY <1>1, <1>2, <1>3, <2>2 DEF Zeroed, ClearedBefore, Sets
  <2>3. QED
    BY <1>1, <2>1, <2>2 DEF Sets
<1>6. QED
  BY <1>1, <1>2, <1>5

\* While the flush zeroes the tags nothing is dirty, and when it reports
\* done everything is empty.
LEMMA FlushInvalidateKeeps ==
    ASSUME TypeOK, TypeOK', IInv, Next, FlushInvalidate
    PROVE  /\ UniqueLine' /\ DirtyIsValid' /\ FlushDropsNothing'
           /\ FlushedEmpty' /\ ClearedBefore'
<1>1. /\ UniqueLine /\ DirtyIsValid /\ FlushDropsNothing
      /\ state = "FLUSH_INVALIDATE"
  BY DEF IInv, FlushInvalidate
<1>2. clearSet \in Sets /\ Zeroed(clearSet)
  BY ClearedHere
<1>3. ~ZeroEntry.v /\ ~ZeroEntry.d
  BY DEF ZeroEntry
<1>4. \A s \in Sets : \A w \in Ways :
         /\ ~EffTags'[s][w].d
         /\ EffTags'[s][w].v => EffTags'[s][w] = EffTags[s][w]
  BY <1>1, <1>2, <1>3 DEF Zeroed, FlushDropsNothing
<1>5. UniqueLine'
  BY <1>1, <1>4 DEF UniqueLine
<1>6. DirtyIsValid' /\ FlushDropsNothing'
  BY <1>4 DEF DirtyIsValid, FlushDropsNothing
<1>7. CASE clearSet = NumSets - 1
  <2>1. \A t \in Sets : \A u \in Ways : ~EffTags'[t][u].v
    BY <1>7, ClearedHere, GeometryAssumption DEF Sets
  <2>2. state' = "DONE"
    BY <1>7 DEF FlushInvalidate
  <2>3. QED
    BY <1>5, <1>6, <2>1, <2>2 DEF FlushedEmpty, ClearedBefore
<1>8. CASE clearSet # NumSets - 1
  <2>1. clearSet' = clearSet + 1 /\ ~flushDone'
    BY <1>8 DEF FlushInvalidate
  <2>2. ClearedBefore'
    BY <1>2, <2>1, ClearedHere DEF ClearedBefore, Sets
  <2>3. QED
    BY <1>5, <1>6, <2>1, <2>2 DEF FlushedEmpty
<1>9. QED
  BY <1>7, <1>8

\* The reset scan ends with an empty cache, whatever the RAM held.
LEMMA RstClearKeeps ==
    ASSUME TypeOK, TypeOK', IInv, Next, RstClear
    PROVE  UniqueLine' /\ DirtyIsValid' /\ ClearedBefore'
<1>1. CASE clearSet = NumSets - 1
  <2>1. \A t \in Sets : \A u \in Ways : ~EffTags'[t][u].v /\ ~EffTags'[t][u].d
    BY <1>1, ClearedHere, GeometryAssumption DEF Sets
  <2>2. QED
    BY <2>1 DEF UniqueLine, DirtyIsValid, ClearedBefore
<1>2. CASE clearSet # NumSets - 1
  <2>1. clearSet' = clearSet + 1 /\ state' = "RST_CLEAR" /\ clearSet \in Sets
    BY <1>2, ClearedHere DEF RstClear
  <2>2. ClearedBefore'
    BY <2>1, ClearedHere DEF ClearedBefore, Sets
  <2>3. QED
    BY <2>1, <2>2 DEF UniqueLine, DirtyIsValid
<1>3. QED
  BY <1>1, <1>2

\* Every clock edge keeps the invariant.
LEMMA StepInvariant == TypeOK /\ TypeOK' /\ IInv /\ Next => IInv'
<1> SUFFICES ASSUME TypeOK, TypeOK', IInv, Next PROVE IInv'
  OBVIOUS
<1>1. /\ cpu.valid => cpu'.addr = cpu.addr /\ cpu'.mmio = cpu.mmio
      /\ cpu.valid /\ mmuReady => mmuReady'
      /\ OneMmu'
      /\ ~Booted => ~cpu'.valid /\ ~ptw'.valid /\ ~flushReq'
  BY NeighboursStep
<1>2. TagBram /\ Control
  BY DEF Next, CacheStep
<1>3. NoTagSetup => EffTags' = EffTags /\ tagWr'.ways = {} /\ tagWr'.ways # Ways
  BY <1>2, NoSetupKeepsTags, ZeroTypes DEF NoTagSetup, NoTagWrite
<1>5. EffTags \in [Sets -> [Ways -> Entry]]
  BY EffTagsType
<1>6. tagWr.ways = {} => tagOut' = IF TagReadEnabled THEN EffTags[TagReadSet] ELSE tagOut
  BY <1>2, SettledTags DEF TagBram
<1> USE DEF IInv, QuietUntilBooted, Booted, PendingWrites, PendingStates, OneMmu, Shown, MissHolds,
        VictimHolds, DrainsHere, CleanBefore, ScanClean, ClearedBefore, UniqueLine, DirtyIsValid,
        FlushDropsNothing, FlushedEmpty, LookupIsTranslated,
        NoFlushDone, dataVars, reqVars, flushVars
<1>7. CASE IdleFlush
  <2>1. CleanBefore(0, 0)'
    BY GeometryAssumption DEF Sets, Ways
  <2>2. QED
    BY <1>1, <1>3, <1>7, <2>1 DEF IdleFlush, IdleDefaults
<1>8. CASE IdlePtw
  <2>1. CASE ptw.mmio
    BY <1>1, <1>3, <1>8, <2>1 DEF IdlePtw, IdleDefaults
  <2>2. CASE ~ptw.mmio
    <3>1. tagWr.ways = {} /\ state = "IDLE" /\ PtwLookup
      BY <1>8, <2>2 DEF IdlePtw, IdleDefaults, PtwAsks, PtwLookup
    <3>2. tagOut' = EffTags[ptw.addr.set]
      BY <1>6, <2>2, <3>1 DEF TagReadEnabled, TagReadSet, PtwLookup
    <3>3. ActiveAddr' = ptw.addr
      BY <1>8, <2>2 DEF IdlePtw, ActiveAddr, TypeOK, CacheType
    <3>4. QED
      BY <1>1, <1>3, <1>8, <2>2, <3>2, <3>3 DEF IdlePtw, IdleDefaults
  <2>3. QED
    BY <2>1, <2>2
<1>9. CASE IdleCpu
  <2>1. CASE ~Cacheable
    BY <1>1, <1>3, <1>9, <2>1 DEF IdleCpu, IdleDefaults
  <2>2. CASE Cacheable
    <3>1. tagWr.ways = {} /\ state = "IDLE" /\ CpuLookup /\ cpu.valid
      BY <1>9, <2>2 DEF IdleCpu, IdleDefaults, CpuAsks, CpuLookup, Cacheable
    <3>2. tagOut' = EffTags[cpu.addr.set]
      BY <1>6, <3>1 DEF TagReadEnabled, TagReadSet, PtwLookup, CpuLookup
    <3>3. ActiveAddr' = cpu.addr
      BY <1>1, <1>9, <3>1 DEF IdleCpu, ActiveAddr
    <3>4. mmuReady' /\ ~cpu'.mmio
      BY <1>1, <2>2, <3>1 DEF Cacheable
    <3>5. QED
      BY <1>1, <1>3, <1>9, <2>2, <3>2, <3>3, <3>4 DEF IdleCpu, IdleDefaults
  <2>3. QED
    BY <2>1, <2>2
<1>10. CASE IdleWait
  BY <1>1, <1>3, <1>6, <1>10 DEF IdleWait, IdleDefaults
<1>11. CASE TagStoreHit
  BY <1>1, <1>11, TagStoreHitKeeps DEF TagStoreHit, TagReadDefaults, AfterAnswer
<1>12. CASE TagLoadHit
  BY <1>1, <1>3, <1>6, <1>12 DEF TagLoadHit, TagReadDefaults
<1>13. CASE TagMiss
  <2>1. PICK w \in Victims :
           /\ miss' = [set |-> ActiveAddr.set, way |-> w, tag |-> ActiveAddr.tag,
                       victimTag |-> tagOut[w].tag, word |-> ActiveAddr.word,
                       write |-> ~isPtw /\ cpu.write, data |-> cpu.data]
           /\ state' = IF tagOut[w].d THEN "WB_READ" ELSE "REFILL"
    BY <1>13 DEF TagMiss
  <2>2. /\ tagOut = EffTags[ActiveAddr.set] /\ ActiveAddr.set \in Sets
        /\ w \in Ways /\ tagOut[w] \in Entry
    BY <1>5, <1>13, VictimsAreWays, ActiveAddrType DEF TagMiss, TagReadDefaults, Addr
  <2>3. /\ EffTags' = EffTags /\ tagWr'.ways = {} /\ state = "TAG_READ" /\ ~flushDone'
    BY <1>3, <1>13 DEF TagMiss, TagReadDefaults
  <2>4. MissHolds'
    BY <2>1, <2>2, <2>3, <1>13 DEF TagMiss, CacheHit, HitWays, Matches
  <2>5. VictimHolds'
    BY <2>1, <2>2, <2>3 DEF Entry
  <2>6. QED
    BY <1>1, <2>1, <2>3, <2>4, <2>5
<1>14. CASE ReadHit
  BY <1>1, <1>3, <1>6, <1>14 DEF ReadHit, AfterAnswer
<1>15. CASE WbRead
  BY <1>1, <1>3, <1>6, <1>15 DEF WbRead
<1>16. CASE WbSendWait
  BY <1>1, <1>3, <1>6, <1>16 DEF WbSendWait, WbSendDefaults
<1>17. CASE WbSendGiveUp
  BY <1>1, <1>3, <1>6, <1>17 DEF WbSendGiveUp, WbSendDefaults
<1>18. CASE WbSendDone
  BY <1>1, <1>18, WbSendDoneKeeps DEF WbSendDone, WbSendDefaults
<1>19. CASE RefillFlushed
  <2>1. CleanBefore(0, 0)'
    BY GeometryAssumption DEF Sets, Ways
  <2>2. QED
    BY <1>1, <1>3, <1>19, <2>1 DEF RefillFlushed, RefillDefaults
<1>20. CASE RefillAborted
  BY <1>1, <1>3, <1>6, <1>20 DEF RefillAborted, RefillDefaults
<1>21. CASE RefillWait
  BY <1>1, <1>3, <1>6, <1>21 DEF RefillWait, RefillDefaults
<1>22. CASE RefillFailed
  BY <1>1, <1>3, <1>6, <1>22 DEF RefillFailed, RefillDefaults, AfterAnswer
<1>23. CASE RefillInstall
  BY <1>1, <1>23, RefillInstallKeeps DEF RefillInstall, RefillDefaults, AfterAnswer
<1>24. CASE FlushScan
  <2>1. tagOut' = EffTags[flushSet]
    BY <1>6, <1>24 DEF FlushScan, TagReadEnabled, TagReadSet
  <2>2. QED
    BY <1>1, <1>3, <1>24, <2>1 DEF FlushScan
<1>25. CASE FlushFindDirty
  <2>1. tagOut = EffTags[flushSet] /\ tagOut[flushWay] \in Entry
    BY <1>25 DEF FlushFindDirty, FlushCheckDefaults, TypeOK, CacheType
  <2>2. tagOut[flushWay] = [v |-> TRUE, d |-> TRUE, tag |-> tagOut[flushWay].tag]
    BY <1>25, <2>1 DEF FlushFindDirty, FlushEntryDirty, Entry
  <2>3. miss'.set = flushSet /\ miss'.way = flushWay /\ miss'.victimTag = tagOut[flushWay].tag
    BY <1>25 DEF FlushFindDirty, TypeOK, CacheType, MissRecord
  <2>4. QED
    BY <1>1, <1>3, <1>25, <2>1, <2>2, <2>3 DEF FlushFindDirty, FlushCheckDefaults
<1>26. CASE FlushNextWay
  <2>1. ~EffTags[flushSet][flushWay].d /\ flushSet \in Sets /\ flushWay \in Ways
    BY <1>5, <1>26 DEF FlushNextWay, FlushCheckDefaults, FlushEntryDirty, TypeOK, CacheType
  <2>2. CleanBefore(flushSet, flushWay + 1)
    BY <1>26, <2>1, GeometryAssumption DEF FlushNextWay, FlushCheckDefaults, Sets, Ways
  <2>3. tagOut' = EffTags[flushSet]
    BY <1>6, <1>26 DEF FlushNextWay, FlushCheckDefaults, TagReadEnabled, PtwLookup, CpuLookup
  <2>4. QED
    BY <1>1, <1>3, <1>26, <2>2, <2>3 DEF FlushNextWay, FlushCheckDefaults
<1>27. CASE FlushNextSet
  <2>1. ~EffTags[flushSet][flushWay].d /\ flushSet \in Sets /\ flushWay \in Ways
    BY <1>5, <1>27 DEF FlushNextSet, FlushCheckDefaults, FlushEntryDirty, TypeOK, CacheType
  <2>2. CleanBefore(flushSet + 1, 0)
    BY <1>27, <2>1, GeometryAssumption DEF FlushNextSet, FlushCheckDefaults, Sets, Ways
  <2>3. QED
    BY <1>1, <1>3, <1>27, <2>2 DEF FlushNextSet, FlushCheckDefaults
<1>28. CASE FlushScanned
  <2>1. ~EffTags[flushSet][flushWay].d /\ flushSet \in Sets /\ flushWay \in Ways
    BY <1>5, <1>28 DEF FlushScanned, FlushCheckDefaults, FlushEntryDirty, TypeOK, CacheType
  <2>2. \A t \in Sets : \A u \in Ways : ~EffTags[t][u].d /\ ~(t < 0)
    BY <1>28, <2>1, GeometryAssumption DEF FlushScanned, FlushCheckDefaults, Sets, Ways
  <2>3. QED
    BY <1>1, <1>3, <1>28, <2>2 DEF FlushScanned, FlushCheckDefaults
<1>29. CASE FlushWbRead
  BY <1>1, <1>3, <1>6, <1>29 DEF FlushWbRead
<1>30. CASE FlushWbWait
  BY <1>1, <1>3, <1>6, <1>30 DEF FlushWbWait, FlushWbDefaults
<1>31. CASE FlushWbDone
  BY <1>1, <1>31, FlushWbDoneKeeps DEF FlushWbDone, FlushWbDefaults
<1>32. CASE FlushWbFailed
  BY <1>1, <1>3, <1>6, <1>32 DEF FlushWbFailed, FlushWbDefaults
<1>33. CASE FlushWbResume
  <2>1. flushResume => \A t \in Sets : ~(t < clearSet)
    BY <1>33 DEF FlushWbResume, Sets
  <2>2. QED
    BY <1>1, <1>3, <1>33, <2>1 DEF FlushWbResume
<1>34. CASE FlushInvalidate
  <2>1. state' \in {"DONE", "FLUSH_INVALIDATE"}
    BY <1>34 DEF FlushInvalidate
  <2>2. QED
    BY <1>1, <1>34, <2>1, FlushInvalidateKeeps
<1>35. CASE InvLine
  <2>1. tagOut' = EffTags[miss.set]
    BY <1>6, <1>35 DEF InvLine, TagReadEnabled, TagReadSet
  <2>2. QED
    BY <1>1, <1>3, <1>35, <2>1 DEF InvLine
<1>36. CASE InvLineWrite
  BY <1>1, <1>36, InvLineWriteKeeps DEF InvLineWrite
<1>37. CASE RstClear
  <2>1. state' \in {"IDLE", "RST_CLEAR"} /\ ~Booted /\ ~flushDone' /\ tagWr'.ways = Ways
    BY <1>37 DEF RstClear, TagWrite
  <2>2. QED
    BY <1>1, <1>37, <2>1, RstClearKeeps
<1>38. CASE Done
  BY <1>1, <1>3, <1>6, <1>38 DEF Done
<1>39. QED
  BY <1>2, <1>7, <1>8, <1>9, <1>10, <1>11, <1>12, <1>13, <1>14, <1>15, <1>16, <1>17, <1>18, <1>19, <1>20, <1>21, <1>22, <1>23, <1>24, <1>25, <1>26, <1>27, <1>28, <1>29, <1>30, <1>31, <1>32, <1>33, <1>34, <1>35, <1>36, <1>37, <1>38 DEF Control

\* The invariant holds when nothing changes.
LEMMA StutterInvariant == IInv /\ UNCHANGED vars => IInv'
<1> SUFFICES ASSUME IInv, UNCHANGED vars PROVE IInv'
  OBVIOUS
<1> USE DEF vars, cacheVars, inputVars, tagVars, reqVars, flushVars
<1>1. EffTags' = EffTags /\ ActiveAddr' = ActiveAddr /\ Booted' = Booted
  BY DEF EffTags, ActiveAddr, Booted
<1>2. QuietUntilBooted' /\ PendingWrites' /\ OneMmu' /\ LookupIsTranslated'
  BY <1>1 DEF IInv, QuietUntilBooted, PendingWrites, OneMmu, LookupIsTranslated
<1>3. Shown' /\ MissHolds' /\ VictimHolds' /\ DrainsHere'
  BY <1>1 DEF IInv, Shown, MissHolds, VictimHolds, DrainsHere
<1>4. ScanClean' /\ ClearedBefore'
  BY <1>1 DEF IInv, CleanBefore, ScanClean, ClearedBefore
<1>5. UniqueLine' /\ DirtyIsValid' /\ FlushDropsNothing' /\ FlushedEmpty'
  BY <1>1 DEF IInv, UniqueLine, DirtyIsValid, FlushDropsNothing, FlushedEmpty
<1>6. QED
  BY <1>2, <1>3, <1>4, <1>5 DEF IInv

\* The invariant holds in every reachable state of a cache of any geometry,
\* over a bus with or without errors.
THEOREM Invariant == Spec => []CacheInv
<1>1. Init => IInv
  BY InitInvariant
<1>2. TypeOK /\ TypeOK' /\ IInv /\ [Next]_vars => IInv'
  BY StepInvariant, StutterInvariant
<1>3. TypeOK /\ IInv => CacheInv
  BY DEF CacheInv
<1>4. QED
  BY <1>1, <1>2, <1>3, TypeCorrect, PTL DEF Spec

-----------------------------------------------------------------------------
\* No line is ever held by two ways.
THEOREM LinesUnique == Spec => []UniqueLine
BY Invariant, PTL DEF CacheInv, IInv

\* No invalid entry carries a D bit, so victim_dirty may look at D alone.
THEOREM DirtyLinesValid == Spec => []DirtyIsValid
BY Invariant, PTL DEF CacheInv, IInv

\* A flush zeroes the tags only when every dirty line has been written back
\* (or dropped because the bus refused it): fence.i loses no store.
THEOREM FlushKeepsStores == Spec => []FlushDropsNothing
BY Invariant, PTL DEF CacheInv, IInv

\* A flush that reports done leaves no valid line.
THEOREM FlushEmpties == Spec => []FlushedEmpty
BY Invariant, PTL DEF CacheInv, IInv

\* A lookup for the CPU always has a translated, cacheable address.
THEOREM LookupsTranslated == Spec => []LookupIsTranslated
BY Invariant, PTL DEF CacheInv, IInv

\* Port A never reads the tag set that port B is writing.
THEOREM PortsNeverMeet == Spec => []NoTagCollision
<1>1. CacheInv => NoTagCollision
  <2> SUFFICES ASSUME TypeOK, IInv, TagReadEnabled, tagWr.ways # {} PROVE FALSE
    BY DEF NoTagCollision, CacheInv
  <2>1. state \in PendingStates /\ (state = "IDLE" => tagWr.ways = Ways)
    BY DEF IInv, PendingWrites
  <2>2. state = "IDLE" /\ (ptw.valid \/ cpu.valid)
    BY <2>1 DEF PendingStates, TagReadEnabled, PtwLookup, CpuLookup
  <2>3. QED
    BY <2>1, <2>2 DEF IInv, QuietUntilBooted, Booted
<1>2. QED
  BY <1>1, Invariant, PTL

-----------------------------------------------------------------------------
\* A step that sets up no tag write and leaves the data RAM alone keeps every
\* line as it is.
LEMMA QuietStep ==
    ASSUME TypeOK, TypeOK', TagBram, NoTagSetup, UNCHANGED dataRam
    PROVE  DirtyStep
BY NoSetupKeepsTags DEF DirtyStep, StillDirty

\* The states of the miss path and of the flush that only read.
LEMMA ReadingStep ==
    ASSUME TypeOK, TypeOK', TagBram,
           \/ IdleFlush \/ IdlePtw \/ IdleCpu \/ IdleWait
           \/ TagLoadHit \/ TagMiss \/ ReadHit
           \/ WbRead \/ WbSendWait \/ WbSendGiveUp
           \/ FlushScan \/ FlushFindDirty \/ FlushNextWay \/ FlushNextSet \/ FlushScanned
           \/ FlushWbRead \/ FlushWbWait \/ FlushWbFailed \/ FlushWbResume
           \/ InvLine \/ Done
    PROVE  DirtyStep
<1>1. NoTagSetup /\ UNCHANGED dataRam
  BY DEF IdleFlush, IdlePtw, IdleCpu, IdleWait, IdleDefaults, TagLoadHit, TagMiss,
         TagReadDefaults, ReadHit, WbRead, WbSendWait, WbSendGiveUp, WbSendDefaults,
         FlushScan, FlushFindDirty, FlushNextWay, FlushNextSet, FlushScanned,
         FlushCheckDefaults, FlushWbRead, FlushWbWait, FlushWbFailed, FlushWbDefaults,
         FlushWbResume, InvLine, Done, dataVars
<1>2. QED
  BY <1>1, QuietStep

\* A store hit changes the word of a line that stays dirty, and is answered.
LEMMA StoreHitStep ==
    ASSUME TypeOK, TypeOK', IInv, Next, TagStoreHit
    PROVE  DirtyStep
<1>1. /\ HitWay \in Ways /\ ActiveAddr.set \in Sets
      /\ tagOut = EffTags[ActiveAddr.set] /\ state # "RST_CLEAR"
  BY HitWayIsHit, ActiveAddrType
     DEF TagStoreHit, TagReadDefaults, HitWays, Matches, Addr, IInv, Shown
<1>2. Written(ActiveAddr.set, HitWay, Dirty(tagOut[HitWay]))
  BY <1>1, OneWritten DEF Next, CacheStep, TagStoreHit
<1>3. SUFFICES ASSUME NEW s \in Sets, NEW w \in Ways, EffTags[s][w].d
               PROVE  EffTags'[s][w] = EffTags[s][w]
  BY DEF DirtyStep, StillDirty, TagStoreHit
<1>4. EffTags[s][w].v /\ EffTags[s][w] \in Entry
  BY <1>1, <1>3, EffTagsType DEF IInv, DirtyIsValid
<1>5. Dirty(EffTags[s][w]) = EffTags[s][w]
  BY <1>3, <1>4 DEF Dirty, Entry
<1>6. QED
  BY <1>1, <1>2, <1>5 DEF Written

\* Writing back a line leaves it clean in its way, and every other as it is.
LEMMA WrittenBackStep ==
    ASSUME TypeOK, TypeOK', IInv, Next, WbSendDone \/ FlushWbDone
    PROVE  DirtyStep
<1>1. /\ miss.set \in Sets /\ miss.way \in Ways
      /\ EffTags[miss.set][miss.way] = [v |-> TRUE, d |-> TRUE, tag |-> miss.victimTag]
  BY VictimIsDirty DEF WbSendDone, WbSendDefaults, FlushWbDone, FlushWbDefaults
<1>2. Written(miss.set, miss.way, Clean(miss.victimTag))
  BY <1>1, OneWritten DEF Next, CacheStep, WbSendDone, FlushWbDone
<1>3. wbAck.done /\ ~wbAck.error /\ UNCHANGED dataRam
  BY DEF WbSendDone, WbSendDefaults, FlushWbDone, FlushWbDefaults, dataVars
<1>4. SUFFICES ASSUME NEW s \in Sets, NEW w \in Ways, EffTags[s][w].d
               PROVE  StillDirty(s, w) \/ ReportedGood(s, w)
  BY DEF DirtyStep
<1>5. CASE s = miss.set /\ w = miss.way
  BY <1>1, <1>2, <1>3, <1>5 DEF Written, ReportedGood
<1>6. CASE ~(s = miss.set /\ w = miss.way)
  BY <1>2, <1>3, <1>6 DEF Written, StillDirty
<1>7. QED
  BY <1>5, <1>6

\* Whatever a refill does, it does to its way, which is clean.
LEMMA RefillStep ==
    ASSUME TypeOK, TypeOK', Next, RoomMade,
           \/ RefillFlushed \/ RefillAborted \/ RefillWait
           \/ RefillFailed \/ RefillInstall
    PROVE  DirtyStep
<1>1. state = "REFILL" /\ RefillDefaults
  BY DEF RefillFlushed, RefillAborted, RefillWait, RefillFailed, RefillInstall, RefillDefaults
<1>2. /\ miss.set \in Sets /\ miss.way \in Ways
      /\ ~EffTags[miss.set][miss.way].d
  BY <1>1 DEF RoomMade, TypeOK, CacheType, MissRecord
<1>3. SUFFICES ASSUME NEW s \in Sets, NEW w \in Ways, ~(s = miss.set /\ w = miss.way)
               PROVE  StillDirty(s, w)
  BY <1>2 DEF DirtyStep
<1>4. dataRam'[s][w] = dataRam[s][w]
  BY <1>1, <1>2, <1>3 DEF RefillDefaults, TypeOK, CacheType
<1>5. CASE RefillInstall
  <2> DEFINE e == [v |-> TRUE, d |-> miss.write, tag |-> miss.tag]
  <2>1. Written(miss.set, miss.way, e)
    BY <1>2, <1>5, OneWritten DEF Next, CacheStep, RefillInstall
  <2>2. QED
    BY <1>3, <1>4, <2>1 DEF Written, StillDirty
<1>6. CASE ~RefillInstall
  <2>1. NoTagSetup
    BY <1>6 DEF RefillFlushed, RefillAborted, RefillWait, RefillFailed
  <2>2. QED
    BY <1>4, <2>1, NoSetupKeepsTags DEF Next, CacheStep, StillDirty
<1>7. QED
  BY <1>5, <1>6

\* A flush drops the line under its scan and no other.
LEMMA DropStep ==
    ASSUME TypeOK, TypeOK', IInv, Next, InvLineWrite
    PROVE  DirtyStep
<1>1. /\ miss.set \in Sets /\ miss.way \in Ways
      /\ miss.set = flushSet /\ miss.way = flushWay
      /\ state = "INV_LINE_WRITE" /\ UNCHANGED dataRam
  BY VictimIsDirty DEF InvLineWrite, IInv, DrainsHere, dataVars
<1>2. Written(miss.set, miss.way, Dropped(tagOut[miss.way]))
  BY InvLineDrops
<1>3. SUFFICES ASSUME NEW s \in Sets, NEW w \in Ways
               PROVE  StillDirty(s, w) \/ GivenUp(s, w)
  BY DEF DirtyStep
<1>4. CASE s = miss.set /\ w = miss.way
  BY <1>1, <1>4 DEF GivenUp
<1>5. CASE ~(s = miss.set /\ w = miss.way)
  BY <1>1, <1>2, <1>5 DEF Written, StillDirty
<1>6. QED
  BY <1>4, <1>5

\* Every step of the cache and its neighbours keeps the dirty lines.
LEMMA EveryDirtyStep ==
    ASSUME TypeOK, TypeOK', IInv, RoomMade, Next
    PROVE  DirtyStep
<1>1. TagBram /\ Control
  BY DEF Next, CacheStep
<1>2. CASE FlushInvalidate
  BY <1>2 DEF FlushInvalidate, IInv, FlushDropsNothing, DirtyStep
<1>3. CASE RstClear
  BY <1>3 DEF RstClear, DirtyStep
<1>4. QED
  BY <1>1, <1>2, <1>3, ReadingStep, StoreHitStep, WrittenBackStep, RefillStep, DropStep
     DEF Control

\* A refill begins when its way is clean, and its way stays clean.
LEMMA RoomIsMade == Spec => []RoomMade
<1>1. Init => RoomMade
  BY DEF Init, CacheInit, RoomMade
<1>2. ASSUME TypeOK, TypeOK', IInv, RoomMade, Next
      PROVE  RoomMade'
  <2>1. TagBram /\ Control
    BY <1>2 DEF Next, CacheStep
  <2>2. CASE TagMiss
    <3>1. PICK w \in Victims :
             /\ miss' = [set |-> ActiveAddr.set, way |-> w, tag |-> ActiveAddr.tag,
                         victimTag |-> tagOut[w].tag, word |-> ActiveAddr.word,
                         write |-> ~isPtw /\ cpu.write, data |-> cpu.data]
             /\ state' = IF tagOut[w].d THEN "WB_READ" ELSE "REFILL"
      BY <2>2 DEF TagMiss
    <3>2. tagOut = EffTags[ActiveAddr.set] /\ EffTags' = EffTags
      BY <1>2, <2>1, <2>2, NoSetupKeepsTags DEF TagMiss, TagReadDefaults, IInv, Shown
    <3>3. QED
      BY <3>1, <3>2 DEF RoomMade
  <2>3. CASE WbSendDone
    <3>1. /\ miss.set \in Sets /\ miss.way \in Ways /\ miss' = miss
      BY <1>2, <2>3, VictimIsDirty DEF WbSendDone, WbSendDefaults, reqVars
    <3>2. Written(miss.set, miss.way, Clean(miss.victimTag))
      BY <1>2, <2>3, <3>1, OneWritten DEF Next, CacheStep, WbSendDone
    <3>3. QED
      BY <3>1, <3>2 DEF RoomMade, Written, Clean
  <2>4. CASE RefillWait
    BY <1>2, <2>1, <2>4, NoSetupKeepsTags DEF RefillWait, RefillDefaults, RoomMade
  <2>5. CASE ~(TagMiss \/ WbSendDone \/ RefillWait)
    <3>1. state' # "REFILL"
      BY <2>1, <2>5
         DEF Control, IdleFlush, IdlePtw, IdleCpu, IdleWait, IdleDefaults, TagStoreHit,
             TagLoadHit, ReadHit, WbRead, WbSendWait, WbSendGiveUp, WbSendDefaults,
             RefillFlushed, RefillAborted, RefillFailed, RefillInstall, AfterAnswer,
             FlushScan, FlushFindDirty, FlushNextWay, FlushNextSet, FlushScanned,
             FlushCheckDefaults, FlushWbRead, FlushWbWait, FlushWbDone, FlushWbFailed,
             FlushWbDefaults, FlushWbResume, FlushInvalidate, InvLine, InvLineWrite,
             RstClear, Done
    <3>2. QED
      BY <3>1 DEF RoomMade
  <2>6. QED
    BY <2>2, <2>3, <2>4, <2>5
<1>3. ASSUME RoomMade, UNCHANGED vars
      PROVE  RoomMade'
  BY <1>3 DEF RoomMade, EffTags, vars, cacheVars, tagVars, reqVars
<1>4. CacheInv /\ CacheInv' /\ RoomMade /\ [Next]_vars => RoomMade'
  BY <1>2, <1>3 DEF CacheInv
<1>5. QED
  BY <1>1, <1>4, Invariant, PTL DEF Spec

\* A line that a store made dirty stays in its way, dirty and with what was
\* stored, until a write-back of it is reported good; a bus error on the way,
\* or a trap, loses no store.  Only a flush gives up the line under its scan.
THEOREM DirtyLinesKept == Spec => DirtyKept
<1>1. CacheInv /\ CacheInv' /\ RoomMade /\ [Next]_vars => [DirtyStep]_vars
  BY EveryDirtyStep DEF CacheInv
<1>2. QED
  BY <1>1, Invariant, RoomIsMade, PTL DEF Spec, DirtyKept
=============================================================================
