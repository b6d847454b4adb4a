------------------------ MODULE VivadoSessionProofs ------------------------
(***************************************************************************)
(* For any number of sessions, objects, processes and permits, and with or *)
(* without the assumption Settled: the permits are conserved, every live   *)
(* Vivado has one, and the sessions keep to the pool.                      *)
(***************************************************************************)
EXTENDS VivadoSession, FiniteSetTheorems, TLAPS

Holders == {o \in Objects : held[o]}

\* A call that is on its way is one of an object that has been made.
CallsBorn == \A o \in Objects : call[o].pc # "idle" => Born(o)
\* It has a command of its own.
CallsNamed == \A o \in Objects : call[o].pc # "idle" => call[o].cmd \in Cmds
\* What an object has a handle of was started once.
HandlesBorn == \A o \in Objects : handle[o] # None => proc[handle[o]] # "unborn"
\* A call that is about to start a process has none that lives: nothing but
\* the call itself can change that.
StartsWithout == \A o \in Objects : call[o].pc = "start" => ~Runs(o)
RunsWithPermit == \A o \in Objects : Runs(o) => held[o]
LiveHasHandle == \A p \in Pids : proc[p] = "live" => \E o \in Objects : handle[o] = p

LifeInv == HandlesBorn /\ StartsWithout /\ RunsWithPermit /\ LiveHasHandle

SessionInv == TypeOK /\ PermitsConserved /\ CallsNamed /\ CallsBorn /\ LifeInv

-----------------------------------------------------------------------------
(***************************************************************************)
(* Permits.                                                                *)
(***************************************************************************)
LEMMA Constants ==
    /\ MaxConcurrent \in Nat \ {0} /\ MaxLines \in Nat /\ IsFiniteSet(Objects)
    /\ None \notin Pids /\ None \notin Cmds /\ None \notin Objects /\ None \notin Sessions
BY SessionAssumption, SessionFinite

LEMMA HoldersFinite == IsFiniteSet(Holders) /\ Cardinality(Holders) \in Nat
<1>1. Holders \in SUBSET Objects
  BY DEF Holders
<1>2. IsFiniteSet(Holders)
  BY <1>1, Constants, FS_Subset
<1> QED BY <1>2, FS_CardinalityType

PermitsTyped == sem \in 0..MaxConcurrent /\ held \in [Objects -> BOOLEAN]

\* A permit that is held comes back, one that is not does not.
LEMMA ReleaseConserves ==
    ASSUME PermitsTyped, PermitsConserved, NEW o \in Objects, Released(o)
    PROVE  PermitsTyped' /\ PermitsConserved'
<1>1. Holders' = Holders \ {o}
  BY DEF Holders, Released, PermitsTyped
<1>2. Cardinality(Holders \ {o}) = IF o \in Holders THEN Cardinality(Holders) - 1
                                   ELSE Cardinality(Holders)
  BY HoldersFinite, FS_RemoveElement
<1>3. o \in Holders <=> held[o]
  BY DEF Holders
<1>4. Cardinality(Holders \ {o}) \in Nat
  BY HoldersFinite, FS_RemoveElement, FS_CardinalityType
<1>5. sem + Cardinality(Holders) = MaxConcurrent
  BY DEF PermitsConserved, Holders
<1>6. sem' + Cardinality(Holders') = MaxConcurrent
  BY <1>1, <1>2, <1>3, <1>5, HoldersFinite, Constants DEF Released, PermitsTyped
<1>7. sem' \in 0..MaxConcurrent
  BY <1>1, <1>4, <1>6, HoldersFinite, Constants DEF Released, PermitsTyped
<1> QED BY <1>6, <1>7 DEF Released, PermitsTyped, PermitsConserved, Holders

\* What Start does to the permits.
LEMMA AcquireConserves ==
    ASSUME PermitsTyped, PermitsConserved, NEW o \in Objects, Permitted(o),
           sem' = (IF held[o] THEN sem ELSE sem - 1),
           held' = [held EXCEPT ![o] = TRUE]
    PROVE  PermitsTyped' /\ PermitsConserved'
<1>1. Holders' = Holders \cup {o}
  BY DEF Holders, PermitsTyped
<1>2. Cardinality(Holders \cup {o}) = IF o \in Holders THEN Cardinality(Holders)
                                      ELSE Cardinality(Holders) + 1
  BY HoldersFinite, FS_AddElement
<1>3. o \in Holders <=> held[o]
  BY DEF Holders
<1>4. sem + Cardinality(Holders) = MaxConcurrent
  BY DEF PermitsConserved, Holders
<1>5. sem' + Cardinality(Holders') = MaxConcurrent
  BY <1>1, <1>2, <1>3, <1>4, HoldersFinite, Constants DEF PermitsTyped
<1>6. sem' \in 0..MaxConcurrent
  BY Constants DEF PermitsTyped, Permitted
<1> QED BY <1>5, <1>6 DEF PermitsTyped, PermitsConserved, Holders

LEMMA SameConserves ==
    ASSUME PermitsTyped, PermitsConserved, UNCHANGED <<sem, held>>
    PROVE  PermitsTyped' /\ PermitsConserved'
BY DEF PermitsTyped, PermitsConserved

\* Every step takes one permit, gives one back, or leaves them alone.
LEMMA PermitStep ==
    ASSUME [Next]_vars
    PROVE  \/ UNCHANGED <<sem, held>>
           \/ \E o \in Objects : Released(o)
           \/ \E o \in Objects : /\ Permitted(o)
                                 /\ sem' = (IF held[o] THEN sem ELSE sem - 1)
                                 /\ held' = [held EXCEPT ![o] = TRUE]
<1>1. CASE UNCHANGED vars
  BY <1>1 DEF vars
<1>2. ASSUME NEW s \in Sessions, CreateSession(s) \/ LoadSession(s) \/ DestroySession(s)
      PROVE  UNCHANGED <<sem, held>>
  BY <1>2 DEF CreateSession, LoadSession, DestroySession, NewObject
<1>3. ASSUME NEW o \in Objects, Ask(o)
      PROVE  UNCHANGED <<sem, held>>
  BY <1>3 DEF Ask
<1>4. ASSUME NEW o \in Objects, StopVivado(o) \/ StopAfterTimeout(o) \/ StartFailed(o)
      PROVE  Released(o)
  BY <1>4 DEF StopVivado, StopAfterTimeout, StartFailed, Stopped
<1>5. ASSUME NEW o \in Objects, Start(o)
      PROVE  /\ Permitted(o)
             /\ sem' = (IF held[o] THEN sem ELSE sem - 1)
             /\ held' = [held EXCEPT ![o] = TRUE]
  BY <1>5 DEF Start
<1>6. ASSUME NEW o \in Objects,
             \/ StartRefused(o) \/ WriteFails(o) \/ Write(o)
             \/ CollectLine(o) \/ Answer(o) \/ Timeout(o)
      PROVE  UNCHANGED <<sem, held>>
  BY <1>6 DEF StartRefused, WriteFails, Write, CollectLine, Answer, Timeout
<1>7. ASSUME NEW p \in Pids,
             \/ \E kind \in {"text", "error"} : Emit(p, kind)
             \/ EmitMarker(p) \/ Crash(p) \/ OrphanEnds(p) \/ Reads(p)
      PROVE  UNCHANGED <<sem, held>>
  BY <1>7 DEF Emit, EmitMarker, Crash, OrphanEnds, Ends, Reads, ReadLine, PutLine, EndOfFile
<1> QED BY <1>1, <1>2, <1>3, <1>4, <1>5, <1>6, <1>7 DEF Next, Step

LEMMA PermitsInit == Init => PermitsTyped /\ PermitsConserved
<1> SUFFICES ASSUME Init PROVE PermitsTyped /\ PermitsConserved
  OBVIOUS
<1>1. {o \in Objects : held[o]} = {}
  BY DEF Init
<1>2. Cardinality({o \in Objects : held[o]}) = 0
  BY <1>1, FS_EmptySet
<1> QED BY <1>2, Constants DEF Init, PermitsTyped, PermitsConserved

LEMMA PermitsNext == PermitsTyped /\ PermitsConserved /\ [Next]_vars => PermitsTyped' /\ PermitsConserved'
BY PermitStep, SameConserves, ReleaseConserves, AcquireConserves

LEMMA PermitsAlways == Spec => [](PermitsTyped /\ PermitsConserved)
BY PermitsInit, PermitsNext, PTL DEF Spec

\* The permits left and the objects that hold one always add up to the limit,
\* through starts that fail, timeouts, crashes and restarts (Session.start_vivado
\* and stop_vivado), however many there are.
THEOREM PermitsKept == Spec => []PermitsConserved
BY PermitsAlways, PTL

-----------------------------------------------------------------------------
(***************************************************************************)
(* The pool.                                                               *)
(***************************************************************************)
\* The instance has a Cardinality of its own.
LEMMA PoolCardinality == \A S : Pool!Cardinality(S) = Cardinality(S)
BY DEF Pool!Cardinality, Cardinality, Pool!IsFiniteSet, IsFiniteSet

LEMMA PoolStep ==
    ASSUME PermitsTyped, PermitsConserved, [Next]_vars
    PROVE  [Pool!Next]_Holders
<1>1. CASE UNCHANGED <<sem, held>>
  BY <1>1 DEF Holders
<1>2. ASSUME NEW o \in Objects, Released(o)
      PROVE  [Pool!Next]_Holders
  <2>1. Holders' = Holders \ {o}
    BY <1>2 DEF Holders, Released, PermitsTyped
  <2>2. CASE o \in Holders
    BY <2>1, <2>2 DEF Pool!Next, Pool!Give, Holders
  <2>3. CASE o \notin Holders
    BY <2>1, <2>3
  <2> QED BY <2>2, <2>3
<1>3. ASSUME NEW o \in Objects, Permitted(o), held' = [held EXCEPT ![o] = TRUE]
      PROVE  [Pool!Next]_Holders
  <2>1. Holders' = Holders \cup {o}
    BY <1>3 DEF Holders, PermitsTyped
  <2>2. CASE o \in Holders
    BY <2>1, <2>2
  <2>3. CASE o \notin Holders
    <3>1. sem > 0 /\ sem + Cardinality(Holders) = MaxConcurrent
      BY <1>3, <2>3 DEF Permitted, Holders, PermitsConserved
    <3>2. Cardinality(Holders) < MaxConcurrent
      BY <3>1, HoldersFinite, Constants DEF PermitsTyped
    <3> QED BY <2>1, <2>3, <3>2, PoolCardinality DEF Pool!Next, Pool!Take, Holders
  <2> QED BY <2>2, <2>3
<1> QED BY <1>1, <1>2, <1>3, PermitStep

\* The sessions implement the pool (threading.Semaphore(max_concurrent)): the
\* objects that hold a permit change one at a time and never exceed the limit.
THEOREM SessionsKeepToPool == Spec => KeepsToPool
<1>1. Init => Pool!Init
  BY DEF Init, Pool!Init
<1>2. PermitsTyped /\ PermitsConserved /\ [Next]_vars => [Pool!Next]_{o \in Objects : held[o]}
  BY PoolStep DEF Holders
<1> QED BY <1>1, <1>2, PermitsAlways, PTL DEF Spec, KeepsToPool, Pool!Spec

-----------------------------------------------------------------------------
(***************************************************************************)
(* Types.                                                                  *)
(***************************************************************************)
LEMMA LineFacts ==
    /\ \A c \in Cmds : Marker(c) \in Line
    /\ \A c \in Cmds, kind \in {"text", "error"} : [cmd |-> c, kind |-> kind] \in Line
    /\ Idle \in Calls /\ NoResult \in Results /\ Gone \in Readers
    /\ \A c \in CmdOrNone, kind \in {"refused", "failed", "raised", "timeout"} :
          Result(kind, c) \in Results
BY DEF Marker, Line, Idle, Calls, NoResult, Results, Gone, Readers, Result, CmdOrNone

LEMMA SavedTyped ==
    ASSUME TypeOK, NEW o \in Objects, Born(o),
           NEW pid \in Pids \cup {None}, NEW busy \in BOOLEAN, Saved(o, pid, busy)
    PROVE  disk' \in [Sessions -> [there : BOOLEAN, pid : Pids \cup {None}, busy : BOOLEAN]]
BY DEF TypeOK, Saved

LEMMA GotoTyped ==
    ASSUME TypeOK, NEW o \in Objects, NEW pc \in {"idle", "start", "write", "read", "stop"}, Goto(o, pc)
    PROVE  call' \in [Objects -> Calls]
<1>1. call \in [Objects -> Calls]
  BY DEF TypeOK
<1>2. [call[o] EXCEPT !.pc = pc] \in Calls
  BY <1>1 DEF Calls
<1> QED BY <1>1, <1>2 DEF Goto

LEMMA FinishTyped ==
    ASSUME TypeOK, NEW o \in Objects, NEW r \in Results, Finish(o, r)
    PROVE  call' \in [Objects -> Calls] /\ result' \in [Objects -> Results]
BY LineFacts DEF TypeOK, Finish

LEMMA TypeObjects ==
    ASSUME TypeOK, NEW s \in Sessions, CreateSession(s) \/ LoadSession(s) \/ DestroySession(s)
    PROVE  TypeOK'
<1>1. Unborn # {} => NextObject \in Objects
  BY DEF Unborn, NextObject
<1>2. CASE CreateSession(s)
  BY <1>1, <1>2 DEF CreateSession, NewObject, procVars, TypeOK
<1>3. CASE LoadSession(s)
  BY <1>1, <1>3 DEF LoadSession, NewObject, procVars, TypeOK
<1>4. CASE DestroySession(s)
  BY <1>4 DEF DestroySession, NoFile, procVars, TypeOK
<1> QED BY <1>2, <1>3, <1>4

LEMMA TypeAsk ==
    ASSUME TypeOK, NEW o \in Objects, Ask(o)
    PROVE  TypeOK'
<1>1. (CHOOSE c \in Unused : TRUE) \in Cmds
  BY DEF Ask, Unused
<1>2. call' \in [Objects -> Calls]
  BY <1>1 DEF Ask, TypeOK, Calls, CmdOrNone
<1>3. result' \in [Objects -> Results]
  BY LineFacts DEF Ask, TypeOK
<1> QED BY <1>2, <1>3 DEF Ask, metaVars, procVars, TypeOK

LEMMA CallCmd == ASSUME TypeOK, NEW o \in Objects PROVE call[o].cmd \in CmdOrNone
BY DEF TypeOK, Calls

LEMMA TypeStart ==
    ASSUME TypeOK, CallsBorn, PermitsTyped', NEW o \in Objects, StartRefused(o) \/ StartFailed(o) \/ Start(o)
    PROVE  TypeOK'
<1>1. CASE StartRefused(o)
  BY <1>1, CallCmd, LineFacts, FinishTyped DEF StartRefused, metaVars, procVars, TypeOK
<1>2. CASE StartFailed(o)
  BY <1>2, CallCmd, LineFacts, FinishTyped DEF StartFailed, metaVars, procVars, TypeOK, PermitsTyped
<1>3. CASE Start(o)
  <2>1. PICK p \in Pids : /\ handle' = [handle EXCEPT ![o] = p]
                          /\ known' = [known EXCEPT ![o] = p]
                          /\ proc' = [proc EXCEPT ![p] = "live"]
                          /\ reader' = [reader EXCEPT ![p] = [on |-> p, line |-> <<>>, owner |-> o]]
                          /\ Saved(o, p, FALSE)
    BY <1>3 DEF Start, UnbornPids
  <2>2. Born(o)
    BY <1>3 DEF CallsBorn, Start
  <2>3. reader' \in [Pids -> Readers]
    BY <2>1 DEF TypeOK, Readers
  <2>4. queue' \in [Objects -> Seq(Line)]
    BY <1>3 DEF Start, FreshQueue, TypeOK
  <2>5. call' \in [Objects -> Calls]
    BY <1>3, GotoTyped DEF Start
  <2>6. disk' \in [Sessions -> [there : BOOLEAN, pid : Pids \cup {None}, busy : BOOLEAN]]
    BY <2>1, <2>2, SavedTyped
  <2>7. handle' \in [Objects -> Pids \cup {None}] /\ known' \in [Objects -> Pids \cup {None}]
    BY <2>1 DEF TypeOK
  <2>8. proc' \in [Pids -> {"unborn", "live", "orphaned", "dead"}]
    BY <2>1 DEF TypeOK
  <2> QED BY <1>3, <2>3, <2>4, <2>5, <2>6, <2>7, <2>8 DEF Start, TypeOK, PermitsTyped
<1> QED BY <1>1, <1>2, <1>3

LEMMA TypeWrite ==
    ASSUME TypeOK, CallsBorn, CallsNamed, NEW o \in Objects, WriteFails(o) \/ Write(o)
    PROVE  TypeOK'
<1>1. known[o] \in Pids \cup {None} /\ Born(o) /\ call[o].cmd \in Cmds
  BY DEF TypeOK, CallsBorn, CallsNamed, WriteFails, Write
<1>2. CASE WriteFails(o)
  BY <1>1, <1>2, CallCmd, LineFacts, FinishTyped, SavedTyped DEF WriteFails, procVars, TypeOK
<1>3. CASE Write(o)
  <2>2. handle[o] \in Pids /\ stdin[handle[o]] \in Seq(Cmds)
    BY <1>3 DEF Write, Runs, TypeOK
  <2>3. Append(stdin[handle[o]], call[o].cmd) \in Seq(Cmds)
    BY <1>1, <2>2
  <2>1. stdin' \in [Pids -> Seq(Cmds)]
    BY <1>3, <2>2, <2>3 DEF Write, TypeOK
  <2> QED BY <1>1, <1>3, <2>1, GotoTyped, SavedTyped DEF Write, TypeOK
<1> QED BY <1>2, <1>3

LEMMA QueueTaken ==
    ASSUME TypeOK, NEW o \in Objects, TakeLine(o)
    PROVE  queue' \in [Objects -> Seq(Line)] /\ Head(queue[o]) \in Line
<1>1. queue[o] \in Seq(Line) /\ queue[o] # <<>>
  BY DEF TypeOK, TakeLine
<1>2. Tail(queue[o]) \in Seq(Line) /\ Head(queue[o]) \in Line
  BY <1>1
<1> QED BY <1>2 DEF TypeOK, TakeLine

LEMMA TypeCollect ==
    ASSUME TypeOK, CallsBorn, NEW o \in Objects, CollectLine(o) \/ Answer(o) \/ Timeout(o)
    PROVE  TypeOK'
<1>1. known[o] \in Pids \cup {None} /\ Born(o) /\ call[o] \in Calls
  BY DEF TypeOK, CallsBorn, CollectLine, Answer, Timeout, TakeLine
<1>2. CASE CollectLine(o)
  <2>1. Append(call[o].lines, Head(queue[o])) \in Seq(Line)
    BY <1>1, <1>2, QueueTaken DEF CollectLine, Calls
  <2>3. [call[o] EXCEPT !.lines = Append(@, Head(queue[o]))] \in Calls
    BY <1>1, <2>1 DEF Calls
  <2>2. call' \in [Objects -> Calls]
    BY <1>2, <2>3 DEF CollectLine, TypeOK
  <2> QED BY <1>2, <2>2, QueueTaken DEF CollectLine, metaVars, procVars, TypeOK
<1>3. CASE Answer(o)
  <2>1. [kind |-> "done", cmd |-> call[o].cmd, lines |-> call[o].lines,
         ok |-> NoError(call[o].lines)] \in Results
    BY <1>1 DEF Calls, Results, NoError
  <2>2. call' \in [Objects -> Calls] /\ result' \in [Objects -> Results]
    BY <1>3, <2>1, FinishTyped DEF Answer
  <2> QED BY <1>1, <1>3, <2>2, QueueTaken, SavedTyped DEF Answer, procVars, TypeOK
<1>4. CASE Timeout(o)
  BY <1>1, <1>4, GotoTyped, SavedTyped DEF Timeout, procVars, TypeOK
<1> QED BY <1>2, <1>3, <1>4

LEMMA EndedTyped ==
    ASSUME TypeOK, NEW p, Ended(p)
    PROVE  /\ proc' \in [Pids -> {"unborn", "live", "orphaned", "dead"}]
           /\ stdin' \in [Pids -> Seq(Cmds)]
<1>1. proc' \in [Pids -> {"unborn", "live", "orphaned", "dead"}]
  BY DEF Ended, TypeOK
<1>2. << >> \in Seq(Cmds)
  OBVIOUS
<1>3. stdin' \in [Pids -> Seq(Cmds)]
  BY <1>2 DEF Ended, TypeOK
<1> QED BY <1>1, <1>3

LEMMA TypeStop ==
    ASSUME TypeOK, CallsBorn, PermitsTyped', NEW o \in Objects, StopAfterTimeout(o) \/ StopVivado(o)
    PROVE  TypeOK'
<1>1. Stopped(o) /\ Born(o)
  BY DEF StopAfterTimeout, StopVivado, CallsBorn
<1>2. proc' \in [Pids -> {"unborn", "live", "orphaned", "dead"}] /\ stdin' \in [Pids -> Seq(Cmds)]
  <2>1. CASE Ended(handle[o])
    BY <2>1, EndedTyped
  <2>2. CASE proc' = [proc EXCEPT ![handle[o]] = "orphaned"] /\ UNCHANGED stdin
    BY <2>2 DEF TypeOK
  <2> QED BY <1>1, <2>1, <2>2 DEF Stopped
<1>3. disk' \in [Sessions -> [there : BOOLEAN, pid : Pids \cup {None}, busy : BOOLEAN]]
  BY <1>1, SavedTyped DEF Stopped
<1>4. call' \in [Objects -> Calls] /\ result' \in [Objects -> Results]
  BY CallCmd, LineFacts, FinishTyped DEF StopAfterTimeout, StopVivado, TypeOK
<1> QED BY <1>1, <1>2, <1>3, <1>4 DEF Stopped, TypeOK, PermitsTyped

LEMMA TypeProcess ==
    ASSUME TypeOK, NEW p \in Pids,
           \/ \E kind \in {"text", "error"} : Emit(p, kind)
           \/ EmitMarker(p) \/ Crash(p) \/ OrphanEnds(p)
    PROVE  TypeOK'
<1>0. Busy(p) => Current(p) \in Cmds /\ Tail(stdin[p]) \in Seq(Cmds)
  <2>1. stdin[p] \in Seq(Cmds)
    BY DEF TypeOK
  <2> QED BY <2>1 DEF Busy, Current
<1>1. ASSUME NEW kind \in {"text", "error"}, Emit(p, kind)
      PROVE  TypeOK'
  <2>1. [cmd |-> Current(p), kind |-> kind] \in Line /\ Current(p) \in Cmds
    BY <1>0, <1>1, LineFacts DEF Emit
  <2>2. pipe' \in [Pids -> Seq(Line)] /\ printed' \in [Cmds -> Seq(Line)]
    BY <1>1, <2>1 DEF Emit, TypeOK
  <2> QED BY <1>1, <2>2 DEF Emit, metaVars, TypeOK
<1>2. CASE EmitMarker(p)
  <2>1. pipe' \in [Pids -> Seq(Line)] /\ stdin' \in [Pids -> Seq(Cmds)]
    BY <1>0, <1>2, LineFacts DEF EmitMarker, TypeOK
  <2> QED BY <1>2, <2>1 DEF EmitMarker, metaVars, TypeOK
<1>3. CASE Crash(p) \/ OrphanEnds(p)
  BY <1>3, EndedTyped DEF Crash, OrphanEnds, Ends, metaVars, TypeOK
<1> QED BY <1>1, <1>2, <1>3

LEMMA TypeReader ==
    ASSUME TypeOK, NEW r \in Pids, Reads(r)
    PROVE  TypeOK'
<1>0. reader[r] \in Readers
  BY DEF TypeOK
<1>1. CASE ReadLine(r)
  <2>0. reader[r] \in [on : Pids, line : Seq(Line), owner : Objects]
    BY <1>0, <1>1 DEF ReadLine, Waiting, Readers
  <2>1. reader[r].on \in Pids
    BY <2>0
  <2>2. pipe[reader[r].on] \in Seq(Line) /\ pipe[reader[r].on] # <<>>
    BY <1>1, <2>1 DEF ReadLine, TypeOK
  <2>3. Head(pipe[reader[r].on]) \in Line /\ Tail(pipe[reader[r].on]) \in Seq(Line)
    BY <2>2
  <2>5. <<Head(pipe[reader[r].on])>> \in Seq(Line)
    BY <2>3
  <2>6. reader' = [reader EXCEPT ![r] = [reader[r] EXCEPT !.line = <<Head(pipe[reader[r].on])>>]]
    BY <1>1 DEF ReadLine
  <2>7. [reader[r] EXCEPT !.line = <<Head(pipe[reader[r].on])>>] \in Readers
    BY <2>0, <2>5 DEF Readers
  <2>4. reader' \in [Pids -> Readers] /\ pipe' \in [Pids -> Seq(Line)]
    BY <1>1, <2>1, <2>3, <2>6, <2>7 DEF ReadLine, TypeOK
  <2> QED BY <1>1, <2>4 DEF ReadLine, metaVars, TypeOK
<1>2. CASE PutLine(r)
  <2>0. reader[r] \in [on : Pids, line : Seq(Line), owner : Objects] /\ reader[r].line # <<>>
    BY <1>0, <1>2 DEF PutLine, Readers
  <2>1. Head(reader[r].line) \in Line
    BY <2>0
  <2>3. reader[r].owner \in Objects
    BY <2>0
  <2>5. queue[reader[r].owner] \in Seq(Line)
    BY <2>3 DEF TypeOK
  <2>6. Append(queue[reader[r].owner], Head(reader[r].line)) \in Seq(Line)
    BY <2>1, <2>5
  <2>2. queue' \in [Objects -> Seq(Line)]
    BY <1>2, <2>3, <2>6 DEF PutLine, TypeOK
  <2>4. reader' \in [Pids -> Readers]
    BY <1>2, <2>3, LineFacts DEF PutLine, Readers, TypeOK
  <2> QED BY <1>2, <2>2, <2>4 DEF PutLine, metaVars, procVars, TypeOK
<1>3. CASE EndOfFile(r)
  BY <1>3, LineFacts DEF EndOfFile, metaVars, procVars, TypeOK
<1> QED BY <1>1, <1>2, <1>3 DEF Reads

LEMMA TypeInit == Init => TypeOK
<1> SUFFICES ASSUME Init PROVE TypeOK
  OBVIOUS
<1>1. \A S : << >> \in Seq(S)
  OBVIOUS
<1>2. PermitsTyped
  BY PermitsInit
<1>3. /\ queue \in [Objects -> Seq(Line)] /\ stdin \in [Pids -> Seq(Cmds)]
      /\ pipe \in [Pids -> Seq(Line)] /\ printed \in [Cmds -> Seq(Line)]
  BY <1>1 DEF Init
<1>4. /\ call \in [Objects -> Calls] /\ result \in [Objects -> Results]
      /\ reader \in [Pids -> Readers]
  BY LineFacts DEF Init
<1>5. disk \in [Sessions -> [there : BOOLEAN, pid : Pids \cup {None}, busy : BOOLEAN]]
  BY DEF Init, NoFile
<1> QED BY <1>2, <1>3, <1>4, <1>5 DEF Init, TypeOK, PermitsTyped

LEMMA TypeNext ==
    ASSUME TypeOK, CallsNamed, CallsBorn, PermitsTyped', [Next]_vars
    PROVE  TypeOK'
<1>1. CASE UNCHANGED vars
  BY <1>1 DEF vars, TypeOK
<1>2. ASSUME NEW s \in Sessions, CreateSession(s) \/ LoadSession(s) \/ DestroySession(s)
      PROVE  TypeOK'
  BY <1>2, TypeObjects
<1>3. ASSUME NEW o \in Objects, Ask(o) \/ Step(o) \/ StopVivado(o)
      PROVE  TypeOK'
  BY <1>3, TypeAsk, TypeStart, TypeWrite, TypeCollect, TypeStop DEF Step
<1>4. ASSUME NEW p \in Pids,
             \/ \E kind \in {"text", "error"} : Emit(p, kind)
             \/ EmitMarker(p) \/ Crash(p) \/ OrphanEnds(p) \/ Reads(p)
      PROVE  TypeOK'
  BY <1>4, TypeProcess, TypeReader
<1> QED BY <1>1, <1>2, <1>3, <1>4 DEF Next

-----------------------------------------------------------------------------
(***************************************************************************)
(* Calls.                                                                  *)
(***************************************************************************)
\* A step either leaves the calls alone, or puts one on an object that has
\* been made, or takes one on: its command stays, or it ends.
CallsFollow ==
    \A o \in Objects :
        \/ call'[o].pc = "idle"
        \/ call[o].pc # "idle" /\ call'[o].cmd = call[o].cmd
                               /\ (call'[o].pc = "start" => call[o].pc = "start")
        \/ Born(o) /\ call'[o].cmd \in Cmds /\ (call'[o].pc = "start" => ~Runs(o))

LEMMA GotoFollows ==
    ASSUME TypeOK, NEW o \in Objects, NEW pc \in {"write", "read", "stop"},
           call[o].pc # "idle", Goto(o, pc)
    PROVE  CallsFollow
BY DEF TypeOK, Calls, Goto, CallsFollow

LEMMA FinishFollows ==
    ASSUME TypeOK, NEW o \in Objects, NEW r, Finish(o, r)
    PROVE  CallsFollow
BY DEF TypeOK, Calls, Finish, Idle, CallsFollow

LEMMA SameFollows == ASSUME UNCHANGED call PROVE CallsFollow
BY DEF CallsFollow

LEMMA AskFollows ==
    ASSUME TypeOK, NEW o \in Objects, Ask(o)
    PROVE  CallsFollow
<1>1. (CHOOSE c \in Unused : TRUE) \in Cmds
  BY DEF Ask, Unused
<1>2. call'[o].pc = "start" => ~Runs(o)
  BY DEF Ask, IsAlive, Runs, TypeOK
<1>3. call'[o].cmd \in Cmds /\ Born(o)
  BY <1>1 DEF Ask, TypeOK
<1>4. \A x \in Objects \ {o} : call'[x] = call[x]
  BY DEF Ask, TypeOK
<1> QED BY <1>2, <1>3, <1>4 DEF CallsFollow

LEMMA CallsFollowNext ==
    ASSUME TypeOK, [Next]_vars
    PROVE  CallsFollow
<1>1. CASE UNCHANGED vars
  BY <1>1, SameFollows DEF vars
<1>2. ASSUME NEW s \in Sessions, CreateSession(s) \/ LoadSession(s) \/ DestroySession(s)
      PROVE  CallsFollow
  BY <1>2, SameFollows DEF CreateSession, LoadSession, DestroySession, NewObject
<1>3. ASSUME NEW o \in Objects, Ask(o) \/ StopVivado(o)
      PROVE  CallsFollow
  BY <1>3, AskFollows, SameFollows DEF StopVivado
<1>4. ASSUME NEW o \in Objects, StartRefused(o) \/ StartFailed(o) \/ WriteFails(o) \/ Answer(o)
                                \/ StopAfterTimeout(o)
      PROVE  CallsFollow
  BY <1>4, FinishFollows DEF StartRefused, StartFailed, WriteFails, Answer, StopAfterTimeout
<1>5. ASSUME NEW o \in Objects, Start(o) \/ Write(o) \/ Timeout(o)
      PROVE  CallsFollow
  BY <1>5, GotoFollows DEF Start, Write, Timeout
<1>6. ASSUME NEW o \in Objects, CollectLine(o)
      PROVE  CallsFollow
  BY <1>6 DEF CollectLine, TakeLine, TypeOK, Calls, CallsFollow
<1>7. ASSUME NEW p \in Pids,
             \/ \E kind \in {"text", "error"} : Emit(p, kind)
             \/ EmitMarker(p) \/ Crash(p) \/ OrphanEnds(p) \/ Reads(p)
      PROVE  CallsFollow
  BY <1>7, SameFollows
     DEF Emit, EmitMarker, Crash, OrphanEnds, Ends, Reads, ReadLine, PutLine, EndOfFile
<1> QED BY <1>1, <1>2, <1>3, <1>4, <1>5, <1>6, <1>7 DEF Next, Step

\* An object that has been made stays.
LEMMA BornStays ==
    ASSUME TypeOK, [Next]_vars, NEW o \in Objects, Born(o)
    PROVE  Born(o)'
<1>1. CASE UNCHANGED of
  BY <1>1 DEF Born
<1>2. ASSUME NEW s \in Sessions, CreateSession(s) \/ LoadSession(s)
      PROVE  Born(o)'
  BY <1>2, Constants DEF CreateSession, LoadSession, NewObject, Born, TypeOK
<1>3. \/ UNCHANGED of
      \/ \E s \in Sessions : CreateSession(s) \/ LoadSession(s)
  BY DEF vars, Next, Step, metaVars, DestroySession, Ask, StartRefused, StartFailed, Start,
         WriteFails, Write, CollectLine, Answer, Timeout, StopAfterTimeout, StopVivado, Stopped,
         Emit, EmitMarker, Crash, OrphanEnds, Ends, Reads, ReadLine, PutLine, EndOfFile
<1> QED BY <1>1, <1>2, <1>3

LEMMA CallsNext ==
    ASSUME TypeOK, CallsNamed, CallsBorn, [Next]_vars
    PROVE  CallsNamed' /\ CallsBorn'
BY CallsFollowNext, BornStays DEF CallsFollow, CallsNamed, CallsBorn

-----------------------------------------------------------------------------
(***************************************************************************)
(* Processes and permits.                                                  *)
(***************************************************************************)
LEMMA LifeSame ==
    ASSUME LifeInv, CallsFollow, UNCHANGED <<handle, held, proc>>
    PROVE  LifeInv'
<1>1. \A o \in Objects : Runs(o)' = Runs(o)
  BY DEF Runs
<1>2. StartsWithout'
  BY <1>1 DEF LifeInv, CallsFollow, StartsWithout
<1> QED BY <1>1, <1>2 DEF LifeInv, HandlesBorn, RunsWithPermit, LiveHasHandle

LEMMA LifeStartFailed ==
    ASSUME TypeOK, LifeInv, CallsFollow, NEW o \in Objects, StartFailed(o)
    PROVE  LifeInv'
<1>1. ~Runs(o) /\ UNCHANGED <<handle, proc>>
  BY DEF StartFailed, procVars, LifeInv, StartsWithout
<1>2. \A x \in Objects : Runs(x)' = Runs(x)
  BY <1>1 DEF Runs
<1>3. \A x \in Objects \ {o} : held'[x] = held[x]
  BY DEF StartFailed, Released, TypeOK
<1>4. RunsWithPermit'
  BY <1>1, <1>2, <1>3 DEF LifeInv, RunsWithPermit
<1>5. StartsWithout'
  BY <1>2 DEF LifeInv, CallsFollow, StartsWithout
<1> QED BY <1>1, <1>4, <1>5 DEF LifeInv, HandlesBorn, LiveHasHandle

\* The object had no process that lives, and nobody has the new one.
LEMMA LifeStart ==
    ASSUME TypeOK, LifeInv, NEW o \in Objects, Start(o)
    PROVE  LifeInv'
<1>1. PICK p \in Pids : /\ proc[p] = "unborn"
                        /\ handle' = [handle EXCEPT ![o] = p]
                        /\ proc' = [proc EXCEPT ![p] = "live"]
  BY DEF Start, UnbornPids
<1>2. ~Runs(o)
  BY DEF Start, LifeInv, StartsWithout
<1>3. handle'[o] = p /\ proc'[p] = "live" /\ held'[o]
  BY <1>1 DEF Start, TypeOK
<1>4. \A x \in Objects \ {o} :
          handle'[x] = handle[x] /\ held'[x] = held[x] /\ call'[x] = call[x]
  BY <1>1 DEF Start, Goto, TypeOK
<1>5. \A q \in Pids \ {p} : proc'[q] = proc[q]
  BY <1>1 DEF TypeOK
<1>6. \A x \in Objects \ {o} : handle[x] # p /\ Runs(x)' = Runs(x)
  <2> SUFFICES ASSUME NEW x \in Objects \ {o} PROVE handle[x] # p /\ Runs(x)' = Runs(x)
    OBVIOUS
  <2>1. handle[x] # p
    BY <1>1, Constants DEF LifeInv, HandlesBorn
  <2>2. handle[x] \in Pids \cup {None}
    BY DEF TypeOK
  <2> QED BY <1>4, <1>5, <2>1, <2>2 DEF Runs
<1>7. call'[o].pc = "write"
  BY DEF Start, Goto, TypeOK, Calls
<1>8. HandlesBorn'
  <2> SUFFICES ASSUME NEW x \in Objects, handle'[x] # None PROVE proc'[handle'[x]] # "unborn"
    BY DEF HandlesBorn
  <2>1. CASE x = o
    BY <1>3, <2>1
  <2>2. CASE x # o
    <3>1. handle'[x] = handle[x] /\ handle[x] # p
      BY <1>4, <1>6, <2>2
    <3>2. handle[x] \in Pids
      BY <3>1 DEF TypeOK
    <3> QED BY <1>5, <3>1, <3>2 DEF LifeInv, HandlesBorn
  <2> QED BY <2>1, <2>2
<1>9. StartsWithout'
  BY <1>4, <1>6, <1>7 DEF LifeInv, StartsWithout
<1>10. RunsWithPermit'
  BY <1>3, <1>4, <1>6 DEF LifeInv, RunsWithPermit
<1>11. LiveHasHandle'
  <2> SUFFICES ASSUME NEW q \in Pids, proc'[q] = "live" PROVE \E x \in Objects : handle'[x] = q
    BY DEF LiveHasHandle
  <2>1. CASE q = p
    BY <1>3, <2>1
  <2>2. CASE q # p
    <3>1. PICK x \in Objects : handle[x] = q
      BY <1>5, <2>2 DEF LifeInv, LiveHasHandle
    <3>2. x # o
      BY <1>2, <1>5, <2>2, <3>1, Constants DEF Runs
    <3> QED BY <1>4, <3>1, <3>2
  <2> QED BY <2>1, <2>2
<1> QED BY <1>8, <1>9, <1>10, <1>11 DEF LifeInv

\* A process stops to live: a step on p that makes nothing else live.
LEMMA LifeStopped ==
    ASSUME TypeOK, LifeInv, CallsFollow, NEW o \in Objects, Stopped(o)
    PROVE  LifeInv'
<1>1. \A q \in Pids : proc'[q] \in {proc[q], "dead", "orphaned"}
  BY DEF Stopped, Ended, TypeOK
<1>2. handle[o] # None => proc'[handle[o]] # "live"
  BY DEF Stopped, Ended, TypeOK
<1>3. handle'[o] = None
  BY DEF Stopped, TypeOK
<1>4. \A x \in Objects \ {o} : handle'[x] = handle[x] /\ held'[x] = held[x]
  BY DEF Stopped, Released, TypeOK
<1>5. \A x \in Objects : Runs(x)' => x # o /\ Runs(x)
  <2> SUFFICES ASSUME NEW x \in Objects, Runs(x)' PROVE x # o /\ Runs(x)
    OBVIOUS
  <2>1. x # o
    BY <1>3 DEF Runs
  <2>2. handle[x] \in Pids
    BY <1>4, <2>1 DEF Runs, TypeOK
  <2> QED BY <1>1, <1>4, <2>1, <2>2 DEF Runs
<1>6. HandlesBorn'
  <2> SUFFICES ASSUME NEW x \in Objects, handle'[x] # None PROVE proc'[handle'[x]] # "unborn"
    BY DEF HandlesBorn
  <2>1. handle'[x] = handle[x] /\ handle[x] \in Pids /\ proc[handle[x]] # "unborn"
    BY <1>3, <1>4 DEF LifeInv, HandlesBorn, TypeOK
  <2> QED BY <1>1, <2>1
<1>7. StartsWithout' /\ RunsWithPermit'
  BY <1>4, <1>5 DEF LifeInv, StartsWithout, RunsWithPermit, CallsFollow
<1>8. LiveHasHandle'
  <2> SUFFICES ASSUME NEW q \in Pids, proc'[q] = "live" PROVE \E x \in Objects : handle'[x] = q
    BY DEF LiveHasHandle
  <2>1. PICK x \in Objects : handle[x] = q
    BY <1>1 DEF LifeInv, LiveHasHandle
  <2>2. x # o
    BY <1>2, <2>1, Constants
  <2> QED BY <1>4, <2>1, <2>2
<1> QED BY <1>6, <1>7, <1>8 DEF LifeInv

LEMMA LifeEnds ==
    ASSUME TypeOK, LifeInv, NEW p \in Pids, Ends(p)
    PROVE  LifeInv'
<1>1. \A q \in Pids : proc'[q] \in {proc[q], "dead"}
  BY DEF Ends, Ended, TypeOK
<1>2. UNCHANGED <<handle, held, call>>
  BY DEF Ends
<1>3. \A x \in Objects : Runs(x)' => Runs(x)
  BY <1>1, <1>2 DEF Runs, TypeOK
<1>4. HandlesBorn'
  <2> SUFFICES ASSUME NEW x \in Objects, handle'[x] # None PROVE proc'[handle'[x]] # "unborn"
    BY DEF HandlesBorn
  <2>1. handle'[x] = handle[x] /\ handle[x] \in Pids /\ proc[handle[x]] # "unborn"
    BY <1>2 DEF LifeInv, HandlesBorn, TypeOK
  <2> QED BY <1>1, <2>1
<1>5. StartsWithout' /\ RunsWithPermit'
  BY <1>2, <1>3 DEF LifeInv, StartsWithout, RunsWithPermit
<1>6. LiveHasHandle'
  BY <1>1, <1>2 DEF LifeInv, LiveHasHandle
<1> QED BY <1>4, <1>5, <1>6 DEF LifeInv

LEMMA LifeNext ==
    ASSUME TypeOK, LifeInv, [Next]_vars
    PROVE  LifeInv'
<1>0. CallsFollow
  BY CallsFollowNext
<1>1. CASE UNCHANGED vars
  BY <1>0, <1>1, LifeSame DEF vars
<1>2. ASSUME NEW s \in Sessions, CreateSession(s) \/ LoadSession(s) \/ DestroySession(s)
      PROVE  LifeInv'
  BY <1>0, <1>2, LifeSame DEF CreateSession, LoadSession, DestroySession, NewObject, procVars
<1>3. ASSUME NEW o \in Objects,
             \/ Ask(o) \/ StartRefused(o) \/ WriteFails(o) \/ Write(o)
             \/ CollectLine(o) \/ Answer(o) \/ Timeout(o)
      PROVE  LifeInv'
  BY <1>0, <1>3, LifeSame
     DEF Ask, StartRefused, WriteFails, Write, CollectLine, Answer, Timeout, procVars
<1>4. ASSUME NEW o \in Objects, StopVivado(o) \/ StopAfterTimeout(o) \/ StartFailed(o) \/ Start(o)
      PROVE  LifeInv'
  BY <1>0, <1>4, LifeStopped, LifeStartFailed, LifeStart DEF StopVivado, StopAfterTimeout
<1>5. ASSUME NEW p \in Pids,
             (\E kind \in {"text", "error"} : Emit(p, kind)) \/ EmitMarker(p) \/ Reads(p)
      PROVE  LifeInv'
  BY <1>0, <1>5, LifeSame
     DEF Emit, EmitMarker, Reads, ReadLine, PutLine, EndOfFile, procVars
<1>6. ASSUME NEW p \in Pids, Crash(p) \/ OrphanEnds(p)
      PROVE  LifeInv'
  BY <1>6, LifeEnds DEF Crash, OrphanEnds
<1> QED BY <1>1, <1>2, <1>3, <1>4, <1>5, <1>6 DEF Next, Step

-----------------------------------------------------------------------------
LEMMA SessionInvInit == Init => SessionInv
<1> SUFFICES ASSUME Init PROVE SessionInv
  OBVIOUS
<1>1. TypeOK /\ PermitsConserved
  BY TypeInit, PermitsInit
<1>2. CallsNamed /\ CallsBorn
  BY DEF Init, Idle, CallsNamed, CallsBorn
<1>3. LifeInv
  BY DEF Init, Idle, LifeInv, HandlesBorn, StartsWithout, RunsWithPermit, LiveHasHandle, Runs
<1> QED BY <1>1, <1>2, <1>3 DEF SessionInv

LEMMA SessionInvNext == SessionInv /\ [Next]_vars => SessionInv'
<1> SUFFICES ASSUME SessionInv, [Next]_vars PROVE SessionInv'
  OBVIOUS
<1>1. PermitsTyped' /\ PermitsConserved'
  BY PermitsNext DEF SessionInv, TypeOK, PermitsTyped
<1>2. TypeOK'
  BY <1>1, TypeNext DEF SessionInv
<1>3. CallsNamed' /\ CallsBorn'
  BY CallsNext DEF SessionInv
<1>4. LifeInv'
  BY LifeNext DEF SessionInv
<1> QED BY <1>1, <1>2, <1>3, <1>4 DEF SessionInv

LEMMA SessionInvAlways == Spec => []SessionInv
BY SessionInvInit, SessionInvNext, PTL DEF Spec

\* The permit counter, the objects, the processes and their lines keep their
\* types; above all the counter stays between 0 and max_concurrent.
THEOREM TypeCorrect == Spec => []TypeOK
<1>1. SessionInv => TypeOK
  BY DEF SessionInv
<1> QED BY <1>1, SessionInvAlways, PTL

\* Every live Vivado is the process of an object that holds a permit: nothing
\* start_vivado, stop_vivado, a timeout, a crash or a reloaded session does
\* leaves one running outside the limit.
THEOREM LivePermitted == Spec => []LiveHasPermit
<1>1. SessionInv => LiveHasPermit
  <2> SUFFICES ASSUME SessionInv, NEW p \in Pids, proc[p] = "live"
               PROVE  \E o \in Objects : handle[o] = p /\ held[o]
    BY DEF LiveHasPermit
  <2>1. PICK o \in Objects : handle[o] = p
    BY DEF SessionInv, LifeInv, LiveHasHandle
  <2>2. Runs(o)
    BY <2>1, Constants DEF Runs
  <2> QED BY <2>1, <2>2 DEF SessionInv, LifeInv, RunsWithPermit
<1> QED BY <1>1, SessionInvAlways, PTL
=============================================================================
