--------------------------- MODULE BatchRunProofs ---------------------------
(***************************************************************************)
(* For any number of tasks, operations, permits and sessions, with any     *)
(* policy and any plan: no worker is ever denied a Vivado, the exit code   *)
(* tells what was done, and a failure spares the rounds after it.  And for *)
(* any plan that names no sessions: none in use is evicted or holds two    *)
(* Vivados, and none of an earlier round is left.                          *)
(***************************************************************************)
EXTENDS BatchRun, Integers, FiniteSetTheorems, TLAPS

Fields  == {"pc", "session", "known", "ok", "retried", "begun", "good"}
Fresh   == {"later", "queued", "list", "evict", "make", "find"}
Started == {"op", "run", "busy", "stop"}
Refusals == {"cancelled", "raised", "limit", "notfound"}
Kinds    == Refusals \cup {"none", "skipped", "ran"}
Outcomes == [kind : Kinds, ok : BOOLEAN, xfail : BOOLEAN]

TypeInv ==
    /\ plan \in Plans /\ main \in {"start", "collect", "done"} /\ round \in Nat \ {0}
    /\ DOMAIN w = Tasks
    /\ \A t \in Tasks : /\ DOMAIN w[t] = Fields
                        /\ w[t].pc \in Pcs /\ w[t].ok \in BOOLEAN
                        /\ w[t].begun \in 0..Ops /\ w[t].good \in Nat
    /\ proc \in [Tasks -> {"none", "live", "dead"}] /\ held \in [Tasks -> BOOLEAN]
    /\ result \in [Tasks -> Outcomes]

\* Before the round of a task nothing has happened to it, after it all has.
RoundInv == \A t \in Tasks :
    /\ RoundOf(t) < round => w[t].pc = "collected"
    /\ RoundOf(t) > round \/ (main = "start" /\ RoundOf(t) = round) => w[t].pc = "later"
    /\ main # "collect" => w[t].pc \in {"later", "collected"}

\* Where a worker stands, its counters, and its verdict agree.
CountsAgree(t) ==
    /\ w[t].pc \in Fresh => w[t].begun = 0 /\ w[t].good = 0
    /\ w[t].pc = "later" => w[t].session = NoName
    /\ w[t].pc = "op" => w[t].begun = w[t].good /\ w[t].begun < Ops
    /\ w[t].pc \in {"run", "busy"} => w[t].begun = w[t].good + 1
    /\ w[t].pc = "stop" /\ w[t].ok => w[t].good = Ops
VerdictAgrees(t) ==
    /\ w[t].pc \notin {"returned", "collected"} => ~result[t].ok /\ ~result[t].xfail
    /\ result[t].ok => w[t].good = Ops
    /\ result[t].xfail => t \in ExpectedFail /\ result[t].kind = "ran"
CountInv == \A t \in Tasks : CountsAgree(t) /\ VerdictAgrees(t)

\* A permit is held for a process, and a process is that of a worker that has
\* a session.
Holders   == {t \in Tasks : held[t]}
WorkInv   == \A t \in Tasks :
    /\ held[t] => proc[t] # "none"
    /\ proc[t] # "none" => w[t].pc \in Started
PermitInv == /\ sem \in Nat /\ sem + Cardinality(Holders) = MaxConcurrent
             /\ Cardinality(Active) <= MaxConcurrent

\* A round that follows an unexpected result is not started.
CalmInv == plan.policy # "continue" =>
    /\ main = "start" => \A t \in Tasks : RoundOf(t) < round /\ Unexpected(result[t])
                                              => halted /\ RoundOf(t) = round - 1
    /\ main = "collect" => \A t \in Tasks : RoundOf(t) < round => ~Unexpected(result[t])

BatchInv == TypeInv /\ RoundInv /\ CountInv /\ WorkInv /\ PermitInv /\ CalmInv /\ SparesLater

-----------------------------------------------------------------------------
LEMMA Sizes ==
    /\ N \in Nat \ {0} /\ Ops \in Nat \ {0} /\ MaxParallel \in Nat \ {0}
    /\ MaxConcurrent \in Nat \ {0} /\ MaxSessions \in Nat \ {0}
    /\ ExpectedFail \subseteq Tasks
BY BatchAssumption DEF Tasks

LEMMA TasksFinite == IsFiniteSet(Tasks) /\ \A S \in SUBSET Tasks :
                        IsFiniteSet(S) /\ Cardinality(S) \in Nat
<1>1. IsFiniteSet(Tasks)
  BY Sizes, FS_Interval DEF Tasks
<1> QED BY <1>1, FS_Subset, FS_CardinalityType

LEMMA RoundsAreNumbers == Rounds \in Int /\ \A t \in Tasks : RoundOf(t) \in Int
BY Sizes DEF Rounds, RoundOf, Tasks

LEMMA OneRound == ~ManyRounds => Rounds = 1
BY DEF Rounds

-----------------------------------------------------------------------------
(***************************************************************************)
(* What the helpers do to a worker.                                        *)
(***************************************************************************)
Becomes(t, pc, session, ok, begun, good) ==
    /\ DOMAIN w' = Tasks
    /\ \A s \in Tasks \ {t} : w'[s] = w[s]
    /\ DOMAIN w'[t] = Fields
    /\ w'[t].pc = pc /\ w'[t].session = session /\ w'[t].ok = ok
    /\ w'[t].begun = begun /\ w'[t].good = good

LEMMA GotoBecomes ==
    ASSUME TypeInv, NEW t \in Tasks, NEW pc, Goto(t, pc)
    PROVE  Becomes(t, pc, w[t].session, w[t].ok, w[t].begun, w[t].good)
BY DEF TypeInv, Goto, Becomes, Fields

LEMMA AttachBecomes ==
    ASSUME TypeInv, NEW t \in Tasks, NEW s, NEW pid, Attach(t, s, pid)
    PROVE  Becomes(t, "op", s, w[t].ok, w[t].begun, w[t].good)
BY DEF TypeInv, Attach, Becomes, Fields

LEMMA FailsBecomes ==
    ASSUME TypeInv, NEW t \in Tasks, Fails(t)
    PROVE  Becomes(t, "stop", w[t].session, FALSE, w[t].begun, w[t].good)
BY DEF TypeInv, Fails, Gives, Becomes, Fields

LEMMA BeginOpBecomes ==
    ASSUME TypeInv, NEW t \in Tasks, BeginOp(t)
    PROVE  Becomes(t, "run", w[t].session, w[t].ok, w[t].begun + 1, w[t].good)
<1> DEFINE b == w[t].begun + 1
<1>1. w' = [w EXCEPT ![t] = [w[t] EXCEPT !.pc = "run", !.retried = FALSE, !.begun = b]]
  BY DEF TypeInv, BeginOp
<1> HIDE DEF b
<1>2. Becomes(t, "run", w[t].session, w[t].ok, b, w[t].good)
  BY <1>1 DEF TypeInv, Becomes, Fields
<1> QED BY <1>2 DEF b

LEMMA StartBecomes ==
    ASSUME TypeInv, NEW t \in Tasks, StartVivado(t)
    PROVE  Becomes(t, "busy", w[t].session, w[t].ok, w[t].begun, w[t].good)
BY DEF TypeInv, StartVivado, Becomes, Fields

LEMMA RestartBecomes ==
    ASSUME TypeInv, NEW t \in Tasks, Restart(t)
    PROVE  Becomes(t, "run", w[t].session, w[t].ok, w[t].begun, w[t].good)
BY DEF TypeInv, Restart, Becomes, Fields

LEMMA CompletedBecomes ==
    ASSUME TypeInv, NEW t \in Tasks, Completed(t)
    PROVE  Becomes(t, IF w[t].begun = Ops THEN "stop" ELSE "op",
                   w[t].session, w[t].ok, w[t].begun, w[t].good + 1)
<1> DEFINE g  == w[t].good + 1
           pc == IF w[t].begun = Ops THEN "stop" ELSE "op"
<1>1. w' = [w EXCEPT ![t] = [w[t] EXCEPT !.good = g, !.pc = pc]]
  BY DEF TypeInv, Completed
<1> HIDE DEF g, pc
<1>2. Becomes(t, pc, w[t].session, w[t].ok, w[t].begun, g)
  BY <1>1 DEF TypeInv, Becomes, Fields
<1> QED BY <1>2 DEF g, pc

-----------------------------------------------------------------------------
(***************************************************************************)
(* A step of one worker.                                                   *)
(***************************************************************************)
OthersKept(t) == \A s \in Tasks \ {t} :
    w'[s] = w[s] /\ held'[s] = held[s] /\ proc'[s] = proc[s] /\ result'[s] = result[s]

Permits(h) == IF h THEN 1 ELSE 0

Effect(t) ==
    /\ UNCHANGED caller /\ TypeInv' /\ OthersKept(t)
    /\ w[t].pc \notin {"later", "returned", "collected"}
    /\ w'[t].pc \notin {"later", "queued", "collected"}
    /\ w[t].pc = "queued" => Cardinality(Active) < MaxWorkers
    /\ CountsAgree(t)' /\ VerdictAgrees(t)'
    /\ held'[t] => proc'[t] # "none"
    /\ proc'[t] # "none" => w'[t].pc \in Started
    /\ sem' \in Nat /\ sem' = sem + Permits(held[t]) - Permits(held'[t])

LEMMA PermitsStay ==
    ASSUME PermitInv, NEW t, UNCHANGED <<sem, held>>
    PROVE  sem' \in Nat /\ sem' = sem + Permits(held[t]) - Permits(held'[t])
<1>1. sem' = sem /\ sem \in Nat /\ Permits(held'[t]) = Permits(held[t])
      /\ Permits(held[t]) \in {0, 1}
  BY DEF PermitInv, Permits
<1> QED BY <1>1

LEMMA UnsuccessfulFields ==
    ASSUME NEW kind \in Kinds
    PROVE  LET r == Unsuccessful(kind)
           IN  r \in Outcomes /\ r.ok = FALSE /\ r.xfail = FALSE /\ r.kind = kind
BY DEF Unsuccessful, Outcomes

\* Without a session: to the next step, to a session, or back with nothing.
LEMMA EffectGoto ==
    ASSUME TypeInv, CountInv, WorkInv, PermitInv, NEW t \in Tasks, w[t].pc \in Fresh \ {"later"},
           w[t].pc = "queued" => Cardinality(Active) < MaxWorkers,
           NEW pc \in {"list", "evict", "make", "find"}, Goto(t, pc),
           UNCHANGED <<caller, sem, proc, held, result>>
    PROVE  Effect(t)
<1>1. Becomes(t, pc, w[t].session, w[t].ok, w[t].begun, w[t].good)
  BY GotoBecomes
<1>2. TypeInv'
  BY <1>1 DEF TypeInv, Becomes, caller, Pcs
<1>3. CountsAgree(t)' /\ VerdictAgrees(t)'
  BY <1>1 DEF CountInv, CountsAgree, VerdictAgrees, Becomes, Fresh
<1>4. ~held[t] /\ proc[t] = "none"
  BY DEF WorkInv, Fresh, Started, TypeInv
<1> QED BY <1>1, <1>2, <1>3, <1>4, PermitsStay DEF Effect, OthersKept, Becomes, Fresh

LEMMA EffectReturn ==
    ASSUME TypeInv, CountInv, WorkInv, PermitInv, NEW t \in Tasks, w[t].pc \in Fresh \ {"later"},
           w[t].pc = "queued" => Cardinality(Active) < MaxWorkers,
           NEW kind \in Refusals, Return(t, Unsuccessful(kind)),
           UNCHANGED <<caller, sem, proc, held>>
    PROVE  Effect(t)
<1>1. Becomes(t, "returned", w[t].session, w[t].ok, w[t].begun, w[t].good)
  BY GotoBecomes DEF Return
<1>2. /\ result' \in [Tasks -> Outcomes] /\ \A s \in Tasks \ {t} : result'[s] = result[s]
      /\ ~result'[t].ok /\ ~result'[t].xfail
  BY UnsuccessfulFields DEF Return, TypeInv, Kinds
<1>3. TypeInv'
  BY <1>1, <1>2 DEF TypeInv, Becomes, caller, Pcs
<1>4. CountsAgree(t)' /\ VerdictAgrees(t)'
  BY <1>1, <1>2 DEF CountsAgree, VerdictAgrees, Becomes, Fresh
<1>5. ~held[t] /\ proc[t] = "none"
  BY DEF WorkInv, Fresh, Started, TypeInv
<1> QED BY <1>1, <1>2, <1>3, <1>4, <1>5, PermitsStay DEF Effect, OthersKept, Becomes, Fresh

LEMMA EffectAttach ==
    ASSUME TypeInv, CountInv, WorkInv, PermitInv, NEW t \in Tasks, w[t].pc \in {"make", "find"},
           NEW s, NEW pid, Attach(t, s, pid), UNCHANGED <<caller, sem, proc, held, result>>
    PROVE  Effect(t)
<1>1. Becomes(t, "op", s, w[t].ok, w[t].begun, w[t].good)
  BY AttachBecomes
<1>2. TypeInv'
  BY <1>1 DEF TypeInv, Becomes, caller, Pcs
<1>3. CountsAgree(t)' /\ VerdictAgrees(t)'
  BY <1>1, Sizes DEF CountInv, CountsAgree, VerdictAgrees, Becomes, Fresh
<1>4. ~held[t] /\ proc[t] = "none"
  BY DEF WorkInv, Started, TypeInv
<1> QED BY <1>1, <1>2, <1>3, <1>4, PermitsStay DEF Effect, OthersKept, Becomes

LEMMA EffectBefore ==
    ASSUME TypeInv, CountInv, WorkInv, PermitInv, NEW t \in Tasks,
           \/ BeginTask(t) \/ CancelTask(t)
           \/ ListSessions(t) \/ ListRaises(t) \/ Evict(t) \/ DiskFull(t) \/ MakeSession(t)
           \/ FindSession(t)
    PROVE  Effect(t)
<1> USE DEF vivado
<1>1. CASE BeginTask(t)
  <2>1. w[t].pc = "queued" /\ Cardinality(Active) < MaxWorkers
    BY <1>1 DEF BeginTask, NextInLine
  <2>2. PICK pc \in {"list", "find"} : Goto(t, pc)
    BY <1>1 DEF BeginTask
  <2> QED BY <1>1, <2>1, <2>2, EffectGoto DEF BeginTask, Fresh
<1>2. CASE CancelTask(t)
  BY <1>2, EffectReturn DEF Refusals, CancelTask, NextInLine, Fresh
<1>3. CASE ListSessions(t)
  <2>1. PICK pc \in {"evict", "make"} : Goto(t, pc)
    BY <1>3 DEF ListSessions
  <2> QED BY <1>3, <2>1, EffectGoto DEF ListSessions, Fresh
<1>4. CASE ListRaises(t)
  BY <1>4, EffectReturn DEF Refusals, ListRaises, Fresh
<1>5. CASE Evict(t)
  BY <1>5, EffectReturn, EffectGoto DEF Refusals, Evict, Fresh
<1>6. CASE DiskFull(t)
  BY <1>6, EffectReturn DEF Refusals, DiskFull, Fresh
<1>7. CASE MakeSession(t)
  BY <1>7, EffectAttach DEF MakeSession
<1>8. CASE FindSession(t)
  BY <1>8, EffectAttach, EffectGoto, EffectReturn DEF Refusals, FindSession, Fresh
<1> QED BY <1>1, <1>2, <1>3, <1>4, <1>5, <1>6, <1>7, <1>8

\* With a session.
LEMMA EffectOps ==
    ASSUME TypeInv, CountInv, WorkInv, PermitInv, NEW t \in Tasks,
           CancelOps(t) \/ BeginOp(t) \/ UseVivado(t) \/ NotOurs(t) \/ OpSucceeds(t) \/ OpFails(t)
    PROVE  Effect(t)
<1> USE DEF vivado
<1>1. UNCHANGED <<caller, sem, proc, held, result>>
  BY DEF CancelOps, BeginOp, UseVivado, NotOurs, OpSucceeds, OpFails
<1>2. w[t].pc \in {"op", "run", "busy"} /\ ~result[t].ok /\ ~result[t].xfail
  BY DEF CancelOps, BeginOp, UseVivado, NotOurs, OpSucceeds, OpFails, CountInv, VerdictAgrees
<1>3. ASSUME NEW pc \in Started, NEW ok \in BOOLEAN, NEW begun \in 0..Ops, NEW good \in Nat,
             Becomes(t, pc, w[t].session, ok, begun, good),
             pc = "op" => begun = good /\ begun < Ops,
             pc \in {"run", "busy"} => begun = good + 1,
             pc = "stop" /\ ok => good = Ops
      PROVE  Effect(t)
  <2>1. TypeInv'
    BY <1>1, <1>3 DEF TypeInv, Becomes, caller, Pcs, Started
  <2>2. CountsAgree(t)' /\ VerdictAgrees(t)'
    BY <1>1, <1>2, <1>3 DEF CountsAgree, VerdictAgrees, Becomes, Fresh, Started
  <2> QED BY <1>1, <1>2, <1>3, <2>1, <2>2, PermitsStay
          DEF Effect, OthersKept, Becomes, WorkInv, Started
<1>4. w[t].begun \in 0..Ops /\ w[t].good \in Nat /\ w[t].ok \in BOOLEAN /\ Ops \in Nat
  BY Sizes DEF TypeInv
<1>5. CountsAgree(t)
  BY DEF CountInv
<1>6. CASE CancelOps(t) \/ NotOurs(t) \/ OpFails(t)
  <2>1. Becomes(t, "stop", w[t].session, FALSE, w[t].begun, w[t].good)
    BY <1>6, FailsBecomes DEF CancelOps, NotOurs, OpFails
  <2> QED BY <1>3, <1>4, <2>1 DEF Started
<1>7. CASE BeginOp(t)
  <2>1. w[t].begun = w[t].good /\ w[t].begun < Ops
    BY <1>5, <1>7 DEF CountsAgree, BeginOp
  <2>2. w[t].begun + 1 \in 0..Ops
    BY <1>4, <2>1
  <2> QED BY <1>3, <1>4, <1>7, <2>1, <2>2, BeginOpBecomes DEF Started
<1>8. CASE UseVivado(t)
  <2>1. w[t].begun = w[t].good + 1
    BY <1>5, <1>8 DEF CountsAgree, UseVivado
  <2>2. Becomes(t, "busy", w[t].session, w[t].ok, w[t].begun, w[t].good)
    BY <1>8, GotoBecomes DEF UseVivado
  <2> QED BY <1>3, <1>4, <2>1, <2>2 DEF Started
<1>9. CASE OpSucceeds(t)
  <2>1. w[t].begun = w[t].good + 1
    BY <1>5, <1>9 DEF CountsAgree, OpSucceeds
  <2>2. Becomes(t, IF w[t].begun = Ops THEN "stop" ELSE "op",
                w[t].session, w[t].ok, w[t].begun, w[t].good + 1)
    BY <1>9, CompletedBecomes DEF OpSucceeds
  <2>3. CASE w[t].begun = Ops
    BY <1>3, <1>4, <2>1, <2>2, <2>3 DEF Started
  <2>4. CASE w[t].begun # Ops
    BY <1>3, <1>4, <2>1, <2>2, <2>4 DEF Started
  <2> QED BY <2>3, <2>4
<1> QED BY <1>6, <1>7, <1>8, <1>9

\* What changes a process.
LEMMA StopOwnGives ==
    ASSUME TypeInv, WorkInv, PermitInv, NEW t \in Tasks, StopOwn(t)
    PROVE  /\ proc' \in [Tasks -> {"none", "live", "dead"}] /\ held' \in [Tasks -> BOOLEAN]
           /\ \A s \in Tasks \ {t} : held'[s] = held[s] /\ proc'[s] = proc[s]
           /\ proc'[t] = "none" /\ ~held'[t]
           /\ sem' \in Nat /\ sem' = sem + Permits(held[t])
<1>1. CASE proc[t] = "none"
  BY <1>1 DEF StopOwn, vivado, TypeInv, WorkInv, PermitInv, Permits
<1>2. CASE proc[t] # "none"
  <2>1. proc' = [proc EXCEPT ![t] = "none"] /\ held' = [held EXCEPT ![t] = FALSE]
        /\ sem' = IF held[t] THEN sem + 1 ELSE sem
    BY <1>2 DEF StopOwn, Released
  <2> QED BY <2>1 DEF TypeInv, PermitInv, Permits
<1> QED BY <1>1, <1>2

LEMMA EffectStart ==
    ASSUME TypeInv, CountInv, WorkInv, PermitInv, NEW t \in Tasks,
           StartFailed(t) \/ StartVivado(t) \/ VivadoDies(t)
    PROVE  Effect(t)
<1>1. UNCHANGED <<caller, result>> /\ w[t].pc \in Started /\ t \in DOMAIN held
  BY DEF StartFailed, StartVivado, VivadoDies, TypeInv, WorkInv, Started
<1>2. CASE StartFailed(t)
  <2>1. Becomes(t, "stop", w[t].session, FALSE, w[t].begun, w[t].good) /\ w[t].pc = "run"
    BY <1>2, FailsBecomes DEF StartFailed
  <2>2. /\ held' \in [Tasks -> BOOLEAN] /\ ~held'[t] /\ proc' = proc
        /\ \A s \in Tasks \ {t} : held'[s] = held[s]
        /\ sem' \in Nat /\ sem' = sem + Permits(held[t])
    BY <1>2 DEF StartFailed, TypeInv, PermitInv, Permits
  <2>3. TypeInv'
    BY <1>1, <2>1, <2>2 DEF TypeInv, Becomes, caller, Pcs
  <2>4. CountsAgree(t)' /\ VerdictAgrees(t)'
    BY <1>1, <2>1 DEF CountInv, CountsAgree, VerdictAgrees, Becomes, Fresh
  <2> QED BY <1>1, <2>1, <2>2, <2>3, <2>4 DEF Effect, OthersKept, Becomes, Started, Permits,
                                                PermitInv
<1>3. CASE StartVivado(t)
  <2>1. Becomes(t, "busy", w[t].session, w[t].ok, w[t].begun, w[t].good) /\ w[t].pc = "run"
    BY <1>3, StartBecomes DEF StartVivado
  <2>2. /\ held' \in [Tasks -> BOOLEAN] /\ held'[t]
        /\ proc' \in [Tasks -> {"none", "live", "dead"}] /\ proc'[t] = "live"
        /\ \A s \in Tasks \ {t} : held'[s] = held[s] /\ proc'[s] = proc[s]
        /\ sem' \in Nat /\ sem' = sem + Permits(held[t]) - 1
    BY <1>3 DEF StartVivado, Permit, TypeInv, PermitInv, Permits
  <2>3. TypeInv'
    BY <1>1, <2>1, <2>2 DEF TypeInv, Becomes, caller, Pcs
  <2>4. CountsAgree(t)' /\ VerdictAgrees(t)'
    BY <1>1, <2>1 DEF CountInv, CountsAgree, VerdictAgrees, Becomes, Fresh
  <2> QED BY <1>1, <2>1, <2>2, <2>3, <2>4 DEF Effect, OthersKept, Becomes, Started, Permits
<1>4. CASE VivadoDies(t)
  <2>1. /\ proc' \in [Tasks -> {"none", "live", "dead"}] /\ proc'[t] = "dead"
        /\ \A s \in Tasks \ {t} : proc'[s] = proc[s]
        /\ UNCHANGED <<sem, held, w>>
    BY <1>4 DEF VivadoDies, TypeInv
  <2>2. TypeInv'
    BY <1>1, <2>1 DEF TypeInv, caller
  <2>3. CountsAgree(t)' /\ VerdictAgrees(t)'
    BY <1>1, <2>1 DEF CountInv, CountsAgree, VerdictAgrees
  <2> QED BY <1>1, <2>1, <2>2, <2>3, PermitsStay DEF Effect, OthersKept, Started
<1> QED BY <1>2, <1>3, <1>4

LEMMA VerdictFields ==
    ASSUME NEW t \in Tasks
    PROVE  /\ Verdict(t).kind = "ran" /\ Verdict(t).ok = w[t].ok
           /\ Verdict(t).xfail <=> t \in ExpectedFail
<1>1. ASSUME NEW a, NEW b, NEW c
      PROVE  LET r == [kind |-> a, ok |-> b, xfail |-> c]
             IN  r.kind = a /\ r.ok = b /\ r.xfail = c
  OBVIOUS
<1>2. /\ Verdict(t).kind = "ran" /\ Verdict(t).ok = w[t].ok
      /\ Verdict(t).xfail = (t \in ExpectedFail)
  BY <1>1 DEF Verdict
<1> QED BY <1>2

LEMMA EffectStop ==
    ASSUME TypeInv, CountInv, WorkInv, PermitInv, NEW t \in Tasks, Restart(t) \/ StopVivado(t)
    PROVE  Effect(t)
<1>1. UNCHANGED caller /\ StopOwn(t)
  BY DEF Restart, StopVivado
<1>2. CASE Restart(t)
  <2>1. /\ Becomes(t, "run", w[t].session, w[t].ok, w[t].begun, w[t].good)
        /\ w[t].pc = "busy" /\ result' = result
    BY <1>2, RestartBecomes DEF Restart
  <2>2. TypeInv'
    BY <1>1, <2>1, StopOwnGives DEF TypeInv, Becomes, caller, Pcs
  <2>3. CountsAgree(t)' /\ VerdictAgrees(t)'
    BY <2>1 DEF CountInv, CountsAgree, VerdictAgrees, Becomes, Fresh
  <2> QED BY <1>1, <2>1, <2>2, <2>3, StopOwnGives DEF Effect, OthersKept, Becomes, Permits
<1>3. CASE StopVivado(t)
  <2>1. /\ Becomes(t, "returned", w[t].session, w[t].ok, w[t].begun, w[t].good)
        /\ w[t].pc = "stop"
    BY <1>3, GotoBecomes DEF StopVivado, Return
  <2>2. /\ result' \in [Tasks -> Outcomes] /\ \A s \in Tasks \ {t} : result'[s] = result[s]
        /\ result'[t] = Verdict(t)
    BY <1>3 DEF StopVivado, Return, Verdict, Outcomes, Kinds, TypeInv
  <2>3. TypeInv'
    BY <1>1, <2>1, <2>2, StopOwnGives DEF TypeInv, Becomes, caller, Pcs
  <2>4. CountsAgree(t)' /\ VerdictAgrees(t)'
    <3>1. w[t].ok => w[t].good = Ops
      BY <2>1 DEF CountInv, CountsAgree
    <3>2. result'[t].kind = "ran" /\ result'[t].ok = w[t].ok
          /\ (result'[t].xfail <=> t \in ExpectedFail)
      BY <2>2, VerdictFields
    <3> QED BY <2>1, <3>1, <3>2 DEF CountsAgree, VerdictAgrees, Becomes, Fresh
  <2> QED BY <1>1, <2>1, <2>2, <2>3, <2>4, StopOwnGives DEF Effect, OthersKept, Becomes, Permits
<1> QED BY <1>2, <1>3

LEMMA EffectWorks ==
    ASSUME TypeInv, CountInv, WorkInv, PermitInv, NEW t \in Tasks, Works(t) \/ VivadoDies(t)
    PROVE  Effect(t)
BY EffectBefore, EffectOps, EffectStart, EffectStop DEF Works

-----------------------------------------------------------------------------
(***************************************************************************)
(* The invariant: steps of the workers.                                    *)
(***************************************************************************)
LEMMA RoundsFixed ==
    ASSUME UNCHANGED plan
    PROVE  ManyRounds' = ManyRounds /\ Rounds' = Rounds /\ \A t \in Tasks : RoundOf(t)' = RoundOf(t)
BY DEF RoundOf, ManyRounds, Rounds

LEMMA MaxWorkersBound == MaxWorkers \in Nat /\ MaxWorkers <= MaxConcurrent
<1>1. Cardinality(InRound) \in Nat
  BY TasksFinite DEF InRound
<1>2. Parallel \in Nat
  BY <1>1, Sizes DEF Parallel, Min2
<1> QED BY <1>2, Sizes DEF MaxWorkers, AtLeast1, Min2

\* A worker that moves is one of the round under way.
LEMMA MovesInRound ==
    ASSUME TypeInv, RoundInv, NEW t \in Tasks, w[t].pc \notin {"later", "collected"}
    PROVE  main = "collect" /\ RoundOf(t) = round
<1>1. main = "collect" /\ ~(RoundOf(t) < round) /\ ~(RoundOf(t) > round)
  BY DEF RoundInv
<1> QED BY <1>1, RoundsAreNumbers DEF TypeInv

LEMMA PermitsMove ==
    ASSUME TypeInv, TypeInv', PermitInv, NEW t \in Tasks, OthersKept(t),
           sem' \in Nat, sem' = sem + Permits(held[t]) - Permits(held'[t])
    PROVE  sem' + Cardinality(Holders') = MaxConcurrent
<1>1. IsFiniteSet(Holders) /\ Cardinality(Holders) \in Nat
  BY TasksFinite DEF Holders
<1>2. sem \in Nat /\ sem + Cardinality(Holders) = MaxConcurrent /\ MaxConcurrent \in Nat
  BY Sizes DEF PermitInv
<1>3. t \in Holders <=> held[t]
  BY DEF Holders
<1>4. CASE held'[t]
  <2>1. Holders' = Holders \cup {t}
    BY <1>4 DEF Holders, OthersKept, TypeInv
  <2>2. Cardinality(Holders') = IF held[t] THEN Cardinality(Holders) ELSE Cardinality(Holders) + 1
    BY <1>1, <1>3, <2>1, FS_AddElement
  <2> QED BY <1>1, <1>2, <1>4, <2>2 DEF Permits
<1>5. CASE ~held'[t]
  <2>1. Holders' = Holders \ {t}
    BY <1>5 DEF Holders, OthersKept, TypeInv
  <2>2. Cardinality(Holders') = IF held[t] THEN Cardinality(Holders) - 1 ELSE Cardinality(Holders)
    BY <1>1, <1>3, <2>1, FS_RemoveElement
  <2> QED BY <1>1, <1>2, <1>5, <2>2 DEF Permits
<1> QED BY <1>4, <1>5

LEMMA FewStayActive ==
    ASSUME TypeInv, PermitInv, NEW t \in Tasks, Effect(t)
    PROVE  Cardinality(Active') <= MaxConcurrent
<1>1. Active' \subseteq Active \cup {t} /\ Active \in SUBSET Tasks /\ Active' \in SUBSET Tasks
  BY DEF Active, Effect, OthersKept
<1>2. /\ IsFiniteSet(Active) /\ Cardinality(Active) \in Nat
      /\ IsFiniteSet(Active') /\ Cardinality(Active') \in Nat
  BY <1>1, TasksFinite
<1>3. IsFiniteSet(Active \cup {t})
      /\ Cardinality(Active \cup {t}) = IF t \in Active THEN Cardinality(Active)
                                        ELSE Cardinality(Active) + 1
  BY <1>2, FS_AddElement
<1>4. Cardinality(Active') <= Cardinality(Active \cup {t})
  BY <1>1, <1>3, FS_Subset
<1>5. t \in Active \/ Cardinality(Active) < MaxWorkers
  BY DEF Active, Effect
<1>6. Cardinality(Active) <= MaxConcurrent /\ MaxConcurrent \in Nat
  BY Sizes DEF PermitInv
<1> QED BY <1>2, <1>3, <1>4, <1>5, <1>6, MaxWorkersBound

LEMMA WorkerKeeps ==
    ASSUME BatchInv, NEW t \in Tasks, Effect(t)
    PROVE  BatchInv'
<1>1. main = "collect" /\ RoundOf(t) = round
  BY MovesInRound DEF BatchInv, Effect
<1>2. /\ plan' = plan /\ main' = main /\ round' = round /\ halted' = halted
      /\ \A s \in Tasks : RoundOf(s)' = RoundOf(s)
  BY RoundsFixed DEF Effect, caller
<1>3. TypeInv'
  BY DEF Effect
<1>4. RoundInv'
  BY <1>1, <1>2 DEF BatchInv, RoundInv, Effect, OthersKept, TypeInv
<1>5. CountInv'
  <2>1. ASSUME NEW s \in Tasks \ {t} PROVE CountsAgree(s)' /\ VerdictAgrees(s)'
    BY DEF BatchInv, CountInv, CountsAgree, VerdictAgrees, Effect, OthersKept
  <2> QED BY <2>1 DEF CountInv, Effect
<1>6. WorkInv'
  BY DEF BatchInv, WorkInv, Effect, OthersKept
<1>7. PermitInv'
  BY <1>3, PermitsMove, FewStayActive DEF BatchInv, PermitInv, Effect
<1>8. CalmInv'
  <2>1. \A s \in Tasks : RoundOf(s) < round => result'[s] = result[s]
    BY <1>1, RoundsAreNumbers DEF Effect, OthersKept, BatchInv, TypeInv
  <2> QED BY <1>1, <1>2, <2>1 DEF CalmInv, BatchInv, Unexpected
<1>9. SparesLater'
  BY <1>1, <1>2 DEF SparesLater
<1> QED BY <1>3, <1>4, <1>5, <1>6, <1>7, <1>8, <1>9 DEF BatchInv

-----------------------------------------------------------------------------
(***************************************************************************)
(* The invariant: steps of the caller.                                     *)
(***************************************************************************)
\* With no worker at work no permit is out.
LEMMA NobodyActive ==
    ASSUME \A t \in Tasks : w[t].pc \in {"later", "queued", "returned", "collected"}
    PROVE  Cardinality(Active) = 0
<1>1. Active = {}
  BY DEF Active
<1> QED BY <1>1, FS_EmptySet

LEMMA StartRoundKeeps ==
    ASSUME BatchInv, StartRound
    PROVE  BatchInv'
<1> USE DEF BatchInv
<1>1. /\ main = "start" /\ main' = "collect" /\ ~halted
      /\ UNCHANGED <<plan, round, halted, sem, proc, held, result>>
      /\ \A t \in Tasks : RoundOf(t)' = RoundOf(t)
  BY RoundsFixed DEF StartRound, vivado
<1>2. \A t \in InRound : w[t].pc = "later"
  BY <1>1 DEF RoundInv, InRound
<1>3. /\ DOMAIN w' = Tasks
      /\ \A t \in Tasks \ InRound : w'[t] = w[t]
      /\ \A t \in InRound : /\ DOMAIN w'[t] = Fields
                            /\ w'[t].pc = "queued" /\ w'[t].ok = w[t].ok
                            /\ w'[t].begun = w[t].begun /\ w'[t].good = w[t].good
  BY DEF StartRound, InRound, TypeInv, Fields
<1>4. TypeInv'
  BY <1>1, <1>3 DEF TypeInv, Pcs, InRound
<1>5. RoundInv'
  <2>1. \A t \in InRound : ~(RoundOf(t) < round) /\ ~(RoundOf(t) > round)
    BY RoundsAreNumbers DEF InRound, TypeInv
  <2>2. \A t \in Tasks \ InRound : w'[t] = w[t]
    BY <1>3
  <2> QED BY <1>1, <2>1, <2>2 DEF RoundInv
<1>6. CountInv'
  <2>1. ASSUME NEW t \in Tasks PROVE CountsAgree(t)' /\ VerdictAgrees(t)'
    <3>1. CASE t \in InRound
      BY <1>1, <1>2, <1>3, <3>1 DEF CountInv, CountsAgree, VerdictAgrees, Fresh
    <3>2. CASE t \notin InRound
      BY <1>1, <1>3, <3>2 DEF CountInv, CountsAgree, VerdictAgrees
    <3> QED BY <3>1, <3>2
  <2> QED BY <2>1 DEF CountInv
<1>7. WorkInv'
  BY <1>1, <1>2, <1>3 DEF WorkInv, Started
<1>8. PermitInv'
  <2>1. \A t \in Tasks : w'[t].pc \in {"later", "queued", "returned", "collected"}
    BY <1>1, <1>3 DEF RoundInv
  <2>2. Active' = {}
    BY <2>1 DEF Active
  <2>3. Cardinality(Active') <= MaxConcurrent
    BY <2>2, FS_EmptySet, Sizes
  <2> QED BY <1>1, <2>3 DEF PermitInv, Holders
<1>9. CalmInv' /\ SparesLater'
  BY <1>1 DEF CalmInv, SparesLater
<1> QED BY <1>4, <1>5, <1>6, <1>7, <1>8, <1>9

LEMMA SkipRoundsKeeps ==
    ASSUME BatchInv, SkipRounds
    PROVE  BatchInv'
<1> USE DEF BatchInv
<1>1. /\ main = "start" /\ main' = "done"
      /\ UNCHANGED <<plan, round, sem, w, proc, held>>
      /\ \A t \in Tasks : RoundOf(t)' = RoundOf(t)
  BY RoundsFixed DEF SkipRounds, vivado
<1>2. \A t \in Tasks : IF RoundOf(t) >= round
                       THEN result'[t] \in Outcomes /\ ~result'[t].ok /\ ~result'[t].xfail
                       ELSE result'[t] = result[t]
  <2>1. "skipped" \in Kinds
    BY DEF Kinds
  <2> QED BY <2>1, UnsuccessfulFields DEF SkipRounds
<1>3. result' \in [Tasks -> Outcomes]
  BY <1>2 DEF SkipRounds, TypeInv
<1>4. TypeInv' /\ RoundInv' /\ WorkInv' /\ CalmInv'
  BY <1>1, <1>3 DEF TypeInv, RoundInv, WorkInv, CalmInv
<1>5. CountInv'
  <2>1. ASSUME NEW t \in Tasks PROVE CountsAgree(t)' /\ VerdictAgrees(t)'
    BY <1>1, <1>2 DEF CountInv, CountsAgree, VerdictAgrees
  <2> QED BY <2>1 DEF CountInv
<1>6. PermitInv'
  BY <1>1 DEF PermitInv, Holders, Active
<1>7. SparesLater'
  <2> SUFFICES ASSUME plan.policy # "continue", NEW s \in Tasks, NEW t \in Tasks,
                      RoundOf(s) < RoundOf(t), Unexpected(result'[s])
               PROVE  w[t].begun = 0 /\ w[t].session = NoName
    BY <1>1 DEF SparesLater
  <2>1. RoundOf(s) \in Int /\ RoundOf(t) \in Int /\ round \in Int
    BY RoundsAreNumbers DEF TypeInv
  <2>2. CASE RoundOf(t) < round
    <3>1. RoundOf(s) < round /\ Unexpected(result[s])
      BY <1>2, <2>1, <2>2
    <3>2. RoundOf(s) = round - 1
      BY <1>1, <3>1 DEF CalmInv
    <3> QED BY <2>1, <2>2, <3>2
  <2>3. CASE ~(RoundOf(t) < round)
    <3>1. w[t].pc = "later"
      BY <1>1, <2>1, <2>3 DEF RoundInv
    <3> QED BY <3>1 DEF CountInv, CountsAgree, Fresh
  <2> QED BY <2>2, <2>3
<1> QED BY <1>4, <1>5, <1>6, <1>7

LEMMA EndRoundKeeps ==
    ASSUME BatchInv, EndRound
    PROVE  BatchInv'
<1> USE DEF BatchInv
<1>1. /\ main = "collect" /\ halted' = (ManyRounds /\ (halted \/ StopsRounds))
      /\ UNCHANGED <<plan, sem, w, proc, held, result>>
      /\ \A t \in Tasks : RoundOf(t)' = RoundOf(t)
  BY RoundsFixed DEF EndRound
<1>2. \A t \in Tasks : RoundOf(t) = round => w[t].pc = "collected"
  BY DEF EndRound, Collected, InRound
<1>3. \A t \in Tasks : RoundOf(t) \in Int
  BY RoundsAreNumbers
<1>4. round \in Nat \ {0} /\ Rounds \in Int
  BY RoundsAreNumbers DEF TypeInv
<1>5. CountInv' /\ WorkInv' /\ PermitInv'
  BY <1>1 DEF CountInv, CountsAgree, VerdictAgrees, WorkInv, PermitInv, Holders, Active
<1>6. CASE round < Rounds
  <2>1. main' = "start" /\ round' = round + 1
    BY <1>6 DEF EndRound
  <2>2. TypeInv' /\ SparesLater'
    BY <1>1, <1>4, <2>1 DEF TypeInv, SparesLater
  <2>3. RoundInv'
    <3> SUFFICES ASSUME NEW t \in Tasks
                 PROVE  /\ RoundOf(t) < round + 1 => w[t].pc = "collected"
                        /\ RoundOf(t) > round => w[t].pc = "later"
      BY <1>1, <1>3, <1>4, <2>1 DEF RoundInv
    <3> QED BY <1>2, <1>3, <1>4 DEF RoundInv
  <2>4. CalmInv'
    <3> SUFFICES ASSUME plan.policy # "continue", NEW t \in Tasks,
                        RoundOf(t) < round + 1, Unexpected(result[t])
                 PROVE  halted' /\ RoundOf(t) = round
      BY <1>1, <1>3, <1>4, <2>1 DEF CalmInv
    <3>1. RoundOf(t) = round
      BY <1>1, <1>3, <1>4 DEF CalmInv
    <3>2. StopsRounds
      BY <3>1 DEF StopsRounds, InRound
    <3>3. ManyRounds
      BY <1>4, <1>6, OneRound
    <3> QED BY <1>1, <3>1, <3>2, <3>3
  <2> QED BY <1>5, <2>2, <2>3, <2>4
<1>7. CASE ~(round < Rounds)
  <2>1. main' = "done" /\ round' = round
    BY <1>7 DEF EndRound
  <2>2. TypeInv' /\ CalmInv'
    BY <1>1, <2>1 DEF TypeInv, CalmInv
  <2>3. \A t \in Tasks : w[t].pc = "collected" \/ (RoundOf(t) > round /\ w[t].pc = "later")
    BY <1>2, <1>3, <1>4 DEF RoundInv
  <2>4. RoundInv'
    BY <1>1, <2>1, <2>3 DEF RoundInv
  <2>5. SparesLater'
    <3> SUFFICES ASSUME plan.policy # "continue", NEW s \in Tasks, NEW t \in Tasks,
                        RoundOf(s) < RoundOf(t), Unexpected(result[s])
                 PROVE  w[t].begun = 0 /\ w[t].session = NoName
      BY <1>1 DEF SparesLater
    <3>1. ~(RoundOf(s) < round)
      BY <1>1 DEF CalmInv
    <3>2. w[t].pc = "later"
      BY <1>3, <1>4, <3>1 DEF RoundInv
    <3> QED BY <3>2 DEF CountInv, CountsAgree, Fresh
  <2> QED BY <1>5, <2>2, <2>4, <2>5
<1> QED BY <1>6, <1>7

LEMMA CollectKeeps ==
    ASSUME BatchInv, NEW t \in Tasks, Collect(t)
    PROVE  BatchInv'
<1> USE DEF BatchInv
<1>1. /\ main = "collect" /\ w[t].pc = "returned"
      /\ UNCHANGED <<plan, main, round, halted, sem, proc, held, result>>
      /\ \A s \in Tasks : RoundOf(s)' = RoundOf(s)
  BY RoundsFixed DEF Collect, vivado
<1>2. RoundOf(t) = round
  BY <1>1, MovesInRound
<1>3. Becomes(t, "collected", w[t].session, w[t].ok, w[t].begun, w[t].good)
  BY GotoBecomes DEF Collect, Goto
<1>4. TypeInv'
  BY <1>1, <1>3 DEF TypeInv, Becomes, Pcs
<1>5. RoundInv'
  BY <1>1, <1>2, <1>3 DEF RoundInv, Becomes, TypeInv
<1>6. CountInv'
  <2>1. ASSUME NEW s \in Tasks PROVE CountsAgree(s)' /\ VerdictAgrees(s)'
    <3>1. CASE s = t
      BY <1>1, <1>3, <3>1 DEF CountInv, CountsAgree, VerdictAgrees, Becomes, Fresh
    <3>2. CASE s # t
      BY <1>1, <1>3, <3>2 DEF CountInv, CountsAgree, VerdictAgrees, Becomes
    <3> QED BY <3>1, <3>2
  <2> QED BY <2>1 DEF CountInv
<1>7. WorkInv'
  BY <1>1, <1>3 DEF WorkInv, Becomes, Started
<1>8. PermitInv'
  <2>1. Active' = Active
    BY <1>1, <1>3 DEF Active, Becomes
  <2> QED BY <1>1, <2>1 DEF PermitInv, Holders
<1>9. CalmInv' /\ SparesLater'
  BY <1>1 DEF CalmInv, SparesLater
<1> QED BY <1>4, <1>5, <1>6, <1>7, <1>8, <1>9

-----------------------------------------------------------------------------
LEMMA BatchInvInit ==
    ASSUME Init
    PROVE  BatchInv
<1>1. /\ DOMAIN w = Tasks
      /\ \A t \in Tasks : /\ DOMAIN w[t] = Fields
                          /\ w[t].pc = "later" /\ w[t].session = NoName /\ w[t].ok = TRUE
                          /\ w[t].begun = 0 /\ w[t].good = 0
  BY DEF Init, Asleep, Fields
<1>2. /\ result \in [Tasks -> Outcomes]
      /\ \A t \in Tasks : ~result[t].ok /\ ~result[t].xfail
  BY DEF Init, NoResult, Unsuccessful, Outcomes, Kinds
<1>3. TypeInv
  <2>1. plan \in Plans /\ main \in {"start", "collect", "done"} /\ round \in Nat \ {0}
    BY DEF Init
  <2>2. 0 \in 0..Ops /\ 0 \in Nat /\ TRUE \in BOOLEAN /\ "later" \in Pcs
    BY Sizes DEF Pcs
  <2>3. \A t \in Tasks : /\ DOMAIN w[t] = Fields
                         /\ w[t].pc \in Pcs /\ w[t].ok \in BOOLEAN
                         /\ w[t].begun \in 0..Ops /\ w[t].good \in Nat
    BY <1>1, <2>2, Zenon
  <2>4. proc \in [Tasks -> {"none", "live", "dead"}]
    BY DEF Init
  <2>5. held \in [Tasks -> BOOLEAN]
    BY DEF Init
  <2> QED BY <1>1, <1>2, <2>1, <2>3, <2>4, <2>5 DEF TypeInv
<1>4. \A t \in Tasks : RoundOf(t) \in Nat \ {0}
  BY Sizes DEF RoundOf, Tasks
<1>5. RoundInv
  BY <1>1, <1>4 DEF Init, RoundInv
<1>6. CountInv
  BY <1>1, <1>2 DEF CountInv, CountsAgree, VerdictAgrees, Fresh
<1>7. WorkInv
  BY DEF Init, WorkInv
<1>8. PermitInv
  <2>1. Cardinality(Active) = 0
    BY <1>1, NobodyActive
  <2>2. Holders = {}
    BY DEF Init, Holders
  <2> QED BY <2>1, <2>2, FS_EmptySet, Sizes DEF Init, PermitInv
<1>9. CalmInv /\ SparesLater
  BY <1>4 DEF Init, CalmInv, SparesLater
<1> QED BY <1>3, <1>5, <1>6, <1>7, <1>8, <1>9 DEF BatchInv

LEMMA BatchInvNext ==
    ASSUME BatchInv, [Next]_vars
    PROVE  BatchInv'
<1>1. CASE UNCHANGED vars
  BY <1>1 DEF vars, BatchInv, TypeInv, RoundInv, RoundOf, ManyRounds, CountInv, CountsAgree,
              VerdictAgrees, WorkInv, PermitInv, Holders, Active, CalmInv, SparesLater
<1>2. CASE Main
  BY <1>2, StartRoundKeeps, SkipRoundsKeeps, EndRoundKeeps, CollectKeeps DEF Main
<1>3. ASSUME NEW t \in Tasks, Works(t) \/ VivadoDies(t)
      PROVE  BatchInv'
  BY <1>3, EffectWorks, WorkerKeeps DEF BatchInv
<1> QED BY <1>1, <1>2, <1>3 DEF Next

LEMMA BatchInvariant == Spec => []BatchInv
BY BatchInvInit, BatchInvNext, PTL DEF Spec

-----------------------------------------------------------------------------
\* A worker that needs a Vivado gets a permit at once: min(max_parallel,
\* max_concurrent) workers never want more than there are, through restarts,
\* crashes and failed starts.
THEOREM NoneDenied == Spec => []NeverDenied
<1>1. ASSUME BatchInv, NEW t \in Tasks, w[t].pc = "run", ~held[t]
      PROVE  sem > 0
  <2>1. Holders \in SUBSET Active /\ t \in Active /\ t \notin Holders /\ Active \in SUBSET Tasks
    BY <1>1 DEF BatchInv, WorkInv, Started, Holders, Active
  <2>2. IsFiniteSet(Active) /\ Cardinality(Active) \in Nat /\ Cardinality(Holders) \in Nat
    BY <2>1, TasksFinite DEF Holders
  <2>3. Cardinality(Holders) # Cardinality(Active) /\ Cardinality(Holders) <= Cardinality(Active)
    BY <2>1, <2>2, FS_Subset
  <2>4. sem \in Nat /\ sem + Cardinality(Holders) = MaxConcurrent
        /\ Cardinality(Active) <= MaxConcurrent /\ MaxConcurrent \in Nat
    BY <1>1, Sizes DEF BatchInv, PermitInv
  <2> QED BY <2>2, <2>3, <2>4
<1>2. BatchInv => NeverDenied
  BY <1>1 DEF NeverDenied, Permit
<1> QED BY <1>2, BatchInvariant, PTL

\* Exit code 0 of -batch means that every task has done all its operations, but
\* for those marked expected_fail, however it was cancelled, evicted or raised.
THEOREM ExitCodeHonest == Spec => []ExitHonest
<1>1. BatchInv => ExitHonest
  BY DEF BatchInv, CountInv, VerdictAgrees, ExitHonest, ExitCode, Unexpected
<1> QED BY <1>1, BatchInvariant, PTL

\* With fail-fast or stop-accepting no task of a round after an unexpected
\* failure begins an operation or gets a session.
THEOREM LaterSpared == Spec => []SparesLater
<1>1. BatchInv => SparesLater
  BY DEF BatchInv
<1> QED BY <1>1, BatchInvariant, PTL

\* When execute() returns, every Vivado the batch started is stopped and every
\* permit is back.
THEOREM BatchGivesBack == Spec => []AllGivenBack
<1>1. ASSUME BatchInv, main = "done"
      PROVE  sem = MaxConcurrent /\ \A t \in Tasks : proc[t] = "none" /\ ~held[t]
  <2>1. \A t \in Tasks : proc[t] = "none" /\ ~held[t]
    BY <1>1 DEF BatchInv, RoundInv, WorkInv, Started
  <2>2. Holders = {}
    BY <2>1 DEF Holders
  <2>3. Cardinality(Holders) = 0
    BY <2>2, FS_EmptySet
  <2> QED BY <1>1, <2>1, <2>3, Sizes DEF BatchInv, PermitInv
<1>2. BatchInv => AllGivenBack
  BY <1>1 DEF AllGivenBack
<1> QED BY <1>2, BatchInvariant, PTL

-----------------------------------------------------------------------------
(***************************************************************************)
(* The sessions of a plan that names none: each task has one of its own.   *)
(***************************************************************************)
Own(t) == IF plan.create THEN NewName(t) ELSE OldName(t)

\* The list of the sessions.
ListInv ==
    /\ OnDisk \subseteq Names /\ DOMAIN pidOf = OnDisk
    /\ \A s \in OnDisk : disk[s] \subseteq OnDisk \ {s} /\ pidOf[s] \in Tasks \cup {NoPid, Stranger}

\* What a batch has made is of this round, and younger than what it has found.
Young(t) == NewName(t) \in OnDisk =>
    /\ plan.create /\ w[t].session = NewName(t) /\ RoundOf(t) = round
    /\ OldNames \cap OnDisk \subseteq disk[NewName(t)]

\* Where a worker stands and which session it has.
Place(t) ==
    /\ w[t].pc \in {"list", "evict", "make"} => plan.create
    /\ w[t].pc = "find" => ~plan.create
    /\ w[t].session \in {NoName, Own(t)}
    /\ w[t].pc \in Fresh => w[t].session = NoName
    /\ w[t].pc \in Started => w[t].session = Own(t) /\ Own(t) \in OnDisk
    /\ result[t].kind = "raised" => w[t].pc \in {"returned", "collected"} /\ w[t].session = NoName
    /\ victims[t] \subseteq OldNames
    /\ w[t].good <= w[t].begun

\* The worker knows whose pid its session records.
Knows(t) ==
    /\ w[t].pc \in Started => pidOf[Own(t)] = w[t].known
    /\ proc[t] # "none" => w[t].known = t

SessionInv ==
    /\ round <= Rounds /\ DOMAIN victims = Tasks /\ ListInv
    /\ \A t \in Tasks : Young(t) /\ Place(t) /\ Knows(t)

LEMMA NamesDiffer ==
    ASSUME NEW t \in Tasks
    PROVE  /\ NewName(t) \notin OldNames /\ NewName(t) # NoName /\ OldName(t) # NoName
           /\ NewName(t) \in Names /\ NoName \notin Names
           /\ \A s \in Tasks : NewName(s) = NewName(t) => s = t
           /\ \A s \in Tasks : OldName(s) = OldName(t) => s = t
BY DEF NewName, OldName, OldNames, NoName, Names

LEMMA OwnDiffers ==
    ASSUME NEW t \in Tasks, NEW s \in Tasks \ {t}
    PROVE  Own(s) # Own(t)
BY NamesDiffer DEF Own

LEMMA PlanNamesNone ==
    ASSUME ~NamedSessions, TypeInv, NEW t \in Tasks
    PROVE  /\ plan.home[t] \in {OldName(t), NoName}
           /\ plan.create => plan.home[t] = NoName /\ Made(t) = NewName(t)
<1>1. /\ plan.create => plan.home = [s \in Tasks |-> NoName]
      /\ \A s \in Tasks : plan.home[s] \in {OldName(s), NoName}
  BY DEF TypeInv, Plans
<1> QED BY <1>1 DEF Made

-----------------------------------------------------------------------------
(***************************************************************************)
(* What eviction takes.                                                    *)
(***************************************************************************)
LEMMA NamesFinite == \A S \in SUBSET Names : IsFiniteSet(S) /\ Cardinality(S) \in Nat
<1> DEFINE old == [i \in 1..Olds |-> OldName(i)]
           new == [t \in Tasks |-> NewName(t)]
<1>1. IsFiniteSet(1..Olds)
  BY BatchAssumption, FS_Interval
<1>2. old \in Surjection(1..Olds, OldNames)
  BY DEF Surjection, OldNames
<1>3. IsFiniteSet(OldNames)
  BY <1>1, <1>2, FS_Surjection
<1>4. new \in Surjection(Tasks, {NewName(t) : t \in Tasks})
  BY DEF Surjection
<1>5. IsFiniteSet({NewName(t) : t \in Tasks})
  BY <1>4, TasksFinite, FS_Surjection
<1>6. IsFiniteSet(Names)
  BY <1>3, <1>5, FS_Union DEF Names
<1> QED BY <1>6, FS_Subset, FS_CardinalityType

\* A round of new sessions has no more tasks than there may be sessions.
LEMMA RoundFits ==
    ASSUME TypeInv, plan.create
    PROVE  Cardinality(InRound) <= MaxSessions
<1>1. CASE ManyRounds
  <2> DEFINE first == (round - 1) * MaxSessions + 1
             last  == (round - 1) * MaxSessions + MaxSessions
  <2>1. first \in Int /\ last \in Int /\ last - first + 1 = MaxSessions
    BY Sizes DEF TypeInv
  <2>2. ASSUME NEW t \in InRound PROVE t \in first .. last
    <3>1. t \in Nat \ {0} /\ (t - 1) \div MaxSessions = round - 1
      BY <1>1, <2>2, Sizes DEF InRound, RoundOf, Tasks, TypeInv
    <3>2. ASSUME NEW a \in Nat, NEW b \in Nat \ {0}
          PROVE  b * (a \div b) <= a /\ a < b * (a \div b) + b
      OBVIOUS
    <3>3. t - 1 \in Nat /\ round - 1 \in Nat
      BY <3>1 DEF TypeInv
    <3>4. MaxSessions * (round - 1) <= t - 1 /\ t - 1 < MaxSessions * (round - 1) + MaxSessions
      BY <3>1, <3>2, <3>3, Sizes
    <3> QED BY <3>1, <3>3, <3>4, Sizes
  <2> HIDE DEF first, last
  <2>3. IsFiniteSet(first .. last) /\ Cardinality(first .. last) <= MaxSessions
    <3>1. first <= last /\ MaxSessions \in Nat
      BY <2>1, Sizes
    <3>2. /\ IsFiniteSet(first .. last)
          /\ Cardinality(first .. last) = IF first > last THEN 0 ELSE last - first + 1
      BY <2>1, FS_Interval
    <3> QED BY <2>1, <3>1, <3>2
  <2>4. InRound \in SUBSET (first .. last) /\ InRound \in SUBSET Tasks
    BY <2>2 DEF InRound
  <2>5. Cardinality(InRound) <= Cardinality(first .. last)
    BY <2>3, <2>4, FS_Subset
  <2>6. Cardinality(InRound) \in Nat /\ Cardinality(first .. last) \in Nat
    BY <2>3, <2>4, TasksFinite, FS_CardinalityType
  <2> QED BY <2>3, <2>5, <2>6, Sizes
<1>2. CASE ~ManyRounds
  <2>1. N <= MaxSessions
    BY <1>2, Sizes DEF ManyRounds
  <2>2. InRound \in SUBSET Tasks /\ Cardinality(Tasks) = N
    BY Sizes, FS_Interval DEF InRound, Tasks
  <2>3. Cardinality(InRound) <= Cardinality(Tasks)
    BY <2>2, TasksFinite, FS_Subset
  <2>4. Cardinality(InRound) \in Nat
    BY <2>2, TasksFinite
  <2> QED BY <2>1, <2>2, <2>3, <2>4, Sizes
<1> QED BY <1>1, <1>2

\* The oldest sessions, so many that one more fits, are from before the batch:
\* the sessions of the round's other tasks are too few.
LEMMA EvictsOld ==
    ASSUME TypeInv, RoundInv, SessionInv, NEW t \in InRound, plan.create, w[t].session = NoName
    PROVE  ToEvict \subseteq OldNames
<1> DEFINE news == {NewName(u) : u \in InRound \ {t}}
           olds == OldNames \cap OnDisk
           new  == [u \in InRound \ {t} |-> NewName(u)]
<1>1. IsFiniteSet(InRound \ {t}) /\ Cardinality(InRound \ {t}) = Cardinality(InRound) - 1
  <2>1. InRound \in SUBSET Tasks
    BY DEF InRound
  <2> QED BY <2>1, TasksFinite, FS_RemoveElement
<1>2. new \in Surjection(InRound \ {t}, news)
  BY DEF Surjection
<1>3. IsFiniteSet(news) /\ Cardinality(news) <= Cardinality(InRound \ {t})
  BY <1>1, <1>2, FS_Surjection
<1>4. OnDisk \in SUBSET Names /\ olds \in SUBSET Names
  BY DEF SessionInv, ListInv
<1>5. OnDisk \subseteq olds \cup news
  <2> SUFFICES ASSUME NEW s \in OnDisk, s \notin OldNames PROVE s \in news
    OBVIOUS
  <2>1. PICK u \in Tasks : s = NewName(u)
    BY <1>4 DEF Names
  <2>2. w[u].session = NewName(u) /\ RoundOf(u) = round
    BY <2>1 DEF SessionInv, Young
  <2>3. u # t
    BY <2>2, NamesDiffer
  <2> QED BY <2>1, <2>2, <2>3 DEF InRound
<1> HIDE DEF news, olds, new
<1>6. /\ IsFiniteSet(olds \cup news)
      /\ Cardinality(olds \cup news) <= Cardinality(olds) + Cardinality(news)
  <2>1. IsFiniteSet(olds) /\ Cardinality(olds) \in Nat /\ Cardinality(news) \in Nat
    BY <1>3, <1>4, NamesFinite, FS_CardinalityType
  <2>2. IsFiniteSet(olds \cap news)
    BY <2>1, FS_Intersection
  <2>3. Cardinality(olds \cap news) \in Nat
    BY <2>2, FS_CardinalityType
  <2>4. /\ IsFiniteSet(olds \cup news)
        /\ Cardinality(olds \cup news) = Cardinality(olds) + Cardinality(news)
                                             - Cardinality(olds \cap news)
    BY <1>3, <2>1, FS_Union
  <2> QED BY <2>1, <2>3, <2>4
<1>7. Cardinality(OnDisk) <= Cardinality(olds \cup news)
  BY <1>5, <1>6, FS_Subset
<1>8. Cardinality(OnDisk) + 1 - MaxSessions <= Cardinality(olds)
  <2>1. Cardinality(OnDisk) \in Nat /\ Cardinality(olds) \in Nat /\ Cardinality(news) \in Nat
        /\ Cardinality(olds \cup news) \in Nat /\ Cardinality(InRound \ {t}) \in Nat
    BY <1>1, <1>3, <1>4, <1>6, NamesFinite, FS_CardinalityType
  <2>2. Cardinality(InRound) <= MaxSessions /\ Cardinality(InRound) \in Nat
    BY RoundFits, TasksFinite DEF InRound
  <2> QED BY <1>1, <1>3, <1>6, <1>7, <2>1, <2>2, Sizes
<1> SUFFICES ASSUME NEW s \in ToEvict, s \notin OldNames PROVE FALSE
  OBVIOUS
<1>9. s \in OnDisk /\ Cardinality(disk[s]) < Cardinality(OnDisk) + 1 - MaxSessions
  BY DEF ToEvict, Oldest
<1>10. PICK u \in Tasks : s = NewName(u)
  BY <1>4, <1>9 DEF Names
<1>11. olds \subseteq disk[s] /\ disk[s] \in SUBSET Names
  BY <1>4, <1>9, <1>10 DEF SessionInv, Young, ListInv, olds
<1>12. Cardinality(olds) <= Cardinality(disk[s])
  BY <1>11, NamesFinite, FS_Subset
<1>13. Cardinality(OnDisk) \in Nat /\ Cardinality(olds) \in Nat /\ Cardinality(disk[s]) \in Nat
  BY <1>4, <1>11, NamesFinite
<1> QED BY <1>8, <1>9, <1>12, <1>13, Sizes

-----------------------------------------------------------------------------
(***************************************************************************)
(* The sessions: steps of the workers.                                     *)
(***************************************************************************)
LEMMA SomeSteps ==
    ASSUME TypeInv, NEW t \in Tasks
    PROVE  /\ \A pc : Goto(t, pc) => w'[t].known = w[t].known
           /\ Fails(t) => w'[t].known = w[t].known
           /\ \A s, pid : Attach(t, s, pid) => w'[t].known = pid
<1>1. t \in DOMAIN w /\ "known" \in DOMAIN w[t]
  BY DEF TypeInv, Fields
<1>2. \A pc : Goto(t, pc) => w'[t] = [w[t] EXCEPT !.pc = pc]
  BY <1>1 DEF Goto
<1>3. Fails(t) => w'[t] = [w[t] EXCEPT !.pc = "stop", !.ok = FALSE]
  BY <1>1 DEF Fails, Gives
<1>4. \A s, pid : Attach(t, s, pid) =>
                     w'[t] = [w[t] EXCEPT !.pc = "op", !.session = s, !.known = pid]
  BY <1>1 DEF Attach
<1>5. \A pc : Goto(t, pc) => w'[t].known = w[t].known
  BY <1>1, <1>2
<1>6. Fails(t) => w'[t].known = w[t].known
  BY <1>1, <1>3
<1>7. \A s, pid : Attach(t, s, pid) => w'[t].known = pid
  BY <1>1, <1>4
<1> QED BY <1>5, <1>6, <1>7

LEMMA BeginKnows ==
    ASSUME TypeInv, NEW t \in Tasks, BeginOp(t)
    PROVE  w'[t].known = w[t].known
<1> DEFINE b == w[t].begun + 1
<1>1. w' = [w EXCEPT ![t] = [w[t] EXCEPT !.pc = "run", !.retried = FALSE, !.begun = b]]
  BY DEF TypeInv, BeginOp
<1> HIDE DEF b
<1>2. t \in DOMAIN w /\ "known" \in DOMAIN w[t]
  BY DEF TypeInv, Fields
<1> QED BY <1>1, <1>2, Zenon

LEMMA CompletedKnows ==
    ASSUME TypeInv, NEW t \in Tasks, Completed(t)
    PROVE  w'[t].known = w[t].known
<1> DEFINE g  == w[t].good + 1
           pc == IF w[t].begun = Ops THEN "stop" ELSE "op"
<1>1. w' = [w EXCEPT ![t] = [w[t] EXCEPT !.good = g, !.pc = pc]]
  BY DEF TypeInv, Completed
<1> HIDE DEF g, pc
<1>2. t \in DOMAIN w /\ "known" \in DOMAIN w[t]
  BY DEF TypeInv, Fields
<1> QED BY <1>1, <1>2, Zenon

LEMMA StartKnows ==
    ASSUME TypeInv, NEW t \in Tasks
    PROVE  /\ StartVivado(t) => w'[t].known = t
           /\ Restart(t) => w'[t].known = NoPid
<1>1. t \in DOMAIN w /\ "known" \in DOMAIN w[t]
  BY DEF TypeInv, Fields
<1>2. StartVivado(t) => w'[t] = [w[t] EXCEPT !.pc = "busy", !.known = t]
  BY <1>1 DEF StartVivado
<1>3. Restart(t) => w'[t] = [w[t] EXCEPT !.pc = "run", !.retried = TRUE, !.known = NoPid]
  BY <1>1 DEF Restart
<1> QED BY <1>1, <1>2, <1>3

\* What a worker does leaves the sessions of the others alone.
Spared(t) == \A s \in Tasks \ {t} :
    /\ victims'[s] = victims[s]
    /\ Own(s) \in OnDisk => Own(s) \in OnDisk' /\ pidOf'[Own(s)] = pidOf[Own(s)]
    /\ NewName(s) \in OnDisk' => /\ NewName(s) \in OnDisk
                                 /\ OldNames \cap OnDisk' \subseteq disk'[NewName(s)]

LEMMA SparesOthers ==
    ASSUME SessionInv, NEW t \in Tasks, Effect(t), Spared(t), DOMAIN victims' = Tasks, ListInv',
           Young(t)', Place(t)', Knows(t)'
    PROVE  SessionInv'
<1>1. /\ plan' = plan /\ round' = round /\ Rounds' = Rounds
      /\ \A s \in Tasks : RoundOf(s)' = RoundOf(s) /\ Own(s)' = Own(s)
  BY DEF Effect, caller, Rounds, RoundOf, ManyRounds, Own
<1>2. ASSUME NEW s \in Tasks \ {t}
      PROVE  Young(s)' /\ Place(s)' /\ Knows(s)'
  <2>1. w'[s] = w[s] /\ proc'[s] = proc[s] /\ result'[s] = result[s]
    BY DEF Effect, OthersKept
  <2>2. Young(s) /\ Place(s) /\ Knows(s)
    BY DEF SessionInv
  <2>3. Young(s)'
    BY <1>1, <2>1, <2>2 DEF Young, Spared
  <2>4. Place(s)'
    BY <1>1, <2>1, <2>2 DEF Place, Spared
  <2>5. Knows(s)'
    BY <1>1, <2>1, <2>2 DEF Knows, Place, Spared, Started
  <2> QED BY <2>3, <2>4, <2>5
<1>3. round' <= Rounds'
  BY <1>1 DEF SessionInv
<1> QED BY <1>2, <1>3 DEF SessionInv

\* Steps that leave the list alone.
LEMMA ListKept ==
    ASSUME SessionInv, NEW t \in Tasks, Effect(t), UNCHANGED <<disk, pidOf>>,
           DOMAIN victims' = Tasks, \A s \in Tasks \ {t} : victims'[s] = victims[s],
           w'[t].session = w[t].session \/ w[t].session = NoName,
           Place(t)', Knows(t)'
    PROVE  SessionInv'
<1>1. Spared(t)
  BY DEF Spared, SessionInv, Young, OnDisk
<1>2. ListInv'
  BY DEF SessionInv, ListInv, OnDisk
<1>3. plan' = plan /\ round' = round /\ RoundOf(t)' = RoundOf(t)
  BY DEF Effect, caller, RoundOf, ManyRounds
<1>4. Young(t)'
  <2>1. w[t].session = NewName(t) => w'[t].session = w[t].session
    BY NamesDiffer
  <2> QED BY <1>3, <2>1 DEF SessionInv, Young, OnDisk
<1> QED BY <1>1, <1>2, <1>4, SparesOthers

LEMMA BeforeKeeps ==
    ASSUME ~NamedSessions, BatchInv, SessionInv, NEW t \in Tasks, Effect(t),
           \/ BeginTask(t) \/ CancelTask(t) \/ ListSessions(t) \/ ListRaises(t) \/ DiskFull(t)
    PROVE  SessionInv'
<1> USE DEF BatchInv, vivado, SessionInv
<1>1. UNCHANGED <<disk, pidOf, proc>> /\ plan' = plan
  BY DEF BeginTask, CancelTask, ListSessions, ListRaises, DiskFull, caller
<1>2. w[t].pc \in Fresh /\ w[t].session = NoName /\ proc[t] = "none"
  BY DEF BeginTask, NextInLine, CancelTask, ListSessions, ListRaises, DiskFull, Place, Fresh,
         WorkInv, Started
<1>3. w[t].good = 0 /\ w[t].begun = 0 /\ result[t].kind # "raised"
  BY <1>2 DEF CountInv, CountsAgree, Place, Fresh
<1>4. ASSUME NEW pc, Goto(t, pc), pc \in {"list", "find", "evict", "make", "returned"},
             pc \in {"list", "evict", "make"} => plan.create,
             pc = "find" => ~plan.create,
             result'[t].kind = "raised" => pc = "returned",
             DOMAIN victims' = Tasks,
             \A s \in Tasks \ {t} : victims'[s] = victims[s], victims'[t] \subseteq OldNames
      PROVE  SessionInv'
  <2>1. Becomes(t, pc, NoName, w[t].ok, 0, 0)
    BY <1>2, <1>3, <1>4, GotoBecomes
  <2>2. Place(t)'
    BY <1>1, <1>4, <2>1 DEF Place, Becomes, Own, Fresh, Started
  <2>3. Knows(t)'
    BY <1>1, <1>2, <1>4, <2>1 DEF Knows, Started, Becomes
  <2>4. w'[t].session = w[t].session
    BY <1>2, <2>1 DEF Becomes
  <2> QED BY <1>1, <1>4, <2>2, <2>3, <2>4, ListKept
<1>5. DOMAIN victims = Tasks /\ victims[t] \subseteq OldNames
  BY DEF Place
<1>6. t \in DOMAIN result
  BY DEF TypeInv
<1>7. CASE BeginTask(t)
  <2>1. plan.create => plan.home[t] = NoName
    BY PlanNamesNone
  <2> QED BY <1>3, <1>4, <1>5, <1>7, <2>1 DEF BeginTask
<1>8. CASE CancelTask(t)
  BY <1>4, <1>5, <1>8 DEF CancelTask, Return
<1>9. CASE ListSessions(t)
  <2>1. plan.create /\ RoundOf(t) = round
    BY <1>9, MovesInRound DEF Effect, ListSessions, Place
  <2>2. ToEvict \subseteq OldNames
    BY <1>2, <2>1, EvictsOld DEF InRound
  <2>3. CASE Full
    <3>1. victims' = [victims EXCEPT ![t] = ToEvict] /\ Goto(t, "evict") /\ result' = result
      BY <1>9, <2>3 DEF ListSessions
    <3> QED BY <1>3, <1>4, <1>5, <2>1, <2>2, <3>1
  <2>4. CASE ~Full
    <3>1. victims' = victims /\ Goto(t, "make") /\ result' = result
      BY <1>9, <2>4 DEF ListSessions
    <3> QED BY <1>3, <1>4, <1>5, <2>1, <3>1
  <2> QED BY <2>3, <2>4
<1>10. CASE ListRaises(t)
  <2>1. victims' = [victims EXCEPT ![t] = {}] /\ Goto(t, "returned")
    BY <1>10 DEF ListRaises, Return
  <2> QED BY <1>4, <1>5, <2>1
<1>11. CASE DiskFull(t)
  BY <1>4, <1>5, <1>11 DEF DiskFull, Return
<1> QED BY <1>7, <1>8, <1>9, <1>10, <1>11

LEMMA EvictKeeps ==
    ASSUME BatchInv, SessionInv, NEW t \in Tasks, Effect(t), Evict(t)
    PROVE  SessionInv'
<1> USE DEF BatchInv, SessionInv
<1>1. /\ plan.create /\ plan' = plan /\ proc' = proc /\ w[t].session = NoName
      /\ victims[t] \subseteq OldNames /\ proc[t] = "none"
  BY DEF Evict, Place, Fresh, caller, WorkInv, Started
<1>2. /\ OnDisk' = OnDisk \ victims[t]
      /\ \A s \in OnDisk' : disk'[s] = disk[s] \ victims[t]
  BY DEF Evict, Without, OnDisk
<1>3. /\ DOMAIN pidOf' = OnDisk \ victims[t]
      /\ \A s \in OnDisk' : pidOf'[s] = pidOf[s]
  <2>1. pidOf' = [s \in DOMAIN pidOf \cap (DOMAIN pidOf \ victims[t]) |-> pidOf[s]]
    BY DEF Evict, PidsWithout, Restrict
  <2> QED BY <1>2, <2>1 DEF ListInv
<1>4. victims' = [victims EXCEPT ![t] = {}]
  BY DEF Evict
<1>5. ListInv'
  BY <1>2, <1>3 DEF ListInv
<1>6. Spared(t)
  <2> SUFFICES ASSUME NEW s \in Tasks \ {t}
               PROVE  /\ victims'[s] = victims[s]
                      /\ Own(s) \in OnDisk => Own(s) \in OnDisk' /\ pidOf'[Own(s)] = pidOf[Own(s)]
                      /\ NewName(s) \in OnDisk' => /\ NewName(s) \in OnDisk
                                         /\ OldNames \cap OnDisk' \subseteq disk'[NewName(s)]
    BY DEF Spared
  <2>1. Own(s) = NewName(s) /\ NewName(s) \notin victims[t]
    BY <1>1, NamesDiffer DEF Own
  <2>2. Young(s)
    OBVIOUS
  <2> QED BY <1>2, <1>3, <1>4, <2>1, <2>2 DEF Young
<1>7. NewName(t) \notin OnDisk'
  BY <1>1, <1>2, NamesDiffer DEF Young
<1>8. PICK pc \in {"returned", "make"} : Goto(t, pc)
  BY DEF Evict, Return
<1>9. Becomes(t, pc, NoName, w[t].ok, 0, 0)
  <2>1. w[t].good = 0 /\ w[t].begun = 0
    BY DEF CountInv, CountsAgree, Fresh, Evict
  <2> QED BY <1>1, <1>8, <2>1, GotoBecomes
<1>10. result'[t].kind = "raised" => pc = "returned"
  <2>1. pc = "make" => result' = result
    <3>1. pc = "make" => w'[t].pc = "make"
      BY <1>9 DEF Becomes
    <3>2. ~Full' => result' = result
      BY DEF Evict
    <3>3. Full' => Goto(t, "returned")
      BY DEF Evict, Return
    <3>4. Goto(t, "returned") => w'[t].pc = "returned"
      BY GotoBecomes DEF Becomes
    <3> QED BY <3>1, <3>2, <3>3, <3>4
  <2> QED BY <2>1 DEF Place, Evict
<1>11. Place(t)'
  BY <1>1, <1>4, <1>9, <1>10 DEF Place, Becomes, Own, Fresh, Started, TypeInv
<1>12. Knows(t)'
  BY <1>1, <1>9 DEF Knows, Started, Becomes
<1> QED BY <1>4, <1>5, <1>6, <1>7, <1>11, <1>12, SparesOthers DEF Young

\* The use of a session.
LEMMA TouchedList ==
    ASSUME ListInv, NEW s \in Names, disk' = Touched(s)
    PROVE  /\ OnDisk' = OnDisk \cup {s} /\ OnDisk' \subseteq Names
           /\ disk'[s] = OnDisk \ {s}
           /\ \A x \in OnDisk \ {s} : disk'[x] = disk[x] \ {s}
           /\ \A x \in OnDisk' : disk'[x] \subseteq OnDisk' \ {x}
<1>1. /\ OnDisk' = OnDisk \cup {s}
      /\ disk'[s] = OnDisk \ {s}
      /\ \A x \in OnDisk \ {s} : disk'[x] = disk[x] \ {s}
  BY DEF Touched, OnDisk
<1> QED BY <1>1 DEF ListInv

LEMMA MakeKeeps ==
    ASSUME ~NamedSessions, BatchInv, SessionInv, NEW t \in Tasks, Effect(t), MakeSession(t)
    PROVE  SessionInv'
<1> USE DEF BatchInv, SessionInv
<1>1. /\ plan.create /\ plan' = plan /\ proc' = proc /\ w[t].session = NoName
      /\ proc[t] = "none" /\ victims' = victims /\ result' = result /\ round' = round
  BY DEF MakeSession, Place, Fresh, caller, WorkInv, Started
<1>2. Made(t) = NewName(t) /\ NewName(t) \in Names /\ Own(t) = NewName(t)
  BY <1>1, PlanNamesNone, NamesDiffer DEF Own
<1>3. NewName(t) \notin OnDisk
  BY <1>1, NamesDiffer DEF Young
<1>4. disk' = Touched(NewName(t))
  BY <1>2 DEF MakeSession
<1>5. /\ OnDisk' = OnDisk \cup {NewName(t)} /\ OnDisk' \subseteq Names
      /\ disk'[NewName(t)] = OnDisk
      /\ \A x \in OnDisk : disk'[x] = disk[x] \ {NewName(t)}
      /\ \A x \in OnDisk' : disk'[x] \subseteq OnDisk' \ {x}
  <2>1. OnDisk \ {NewName(t)} = OnDisk
    BY <1>3
  <2>2. ListInv
    OBVIOUS
  <2> HIDE DEF SessionInv
  <2> QED BY <1>2, <1>4, <2>1, <2>2, TouchedList
<1>6. /\ DOMAIN pidOf' = OnDisk' /\ pidOf'[NewName(t)] = NoPid
      /\ \A x \in OnDisk : pidOf'[x] = pidOf[x]
  BY <1>2, <1>3, <1>5 DEF MakeSession, ListInv
<1>7. ListInv'
  BY <1>5, <1>6 DEF ListInv
<1>8. Spared(t)
  <2>1. \A s \in Tasks \ {t} : NewName(s) # NewName(t)
    BY NamesDiffer
  <2>2. NewName(t) \notin OldNames
    BY NamesDiffer
  <2> QED BY <1>1, <1>5, <1>6, <2>1, <2>2 DEF Spared, Young
<1>9. Attach(t, NewName(t), NoPid)
  BY <1>2 DEF MakeSession
<1>10. Becomes(t, "op", NewName(t), w[t].ok, 0, 0)
  <2>1. w[t].good = 0 /\ w[t].begun = 0
    BY DEF CountInv, CountsAgree, Fresh, MakeSession
  <2> QED BY <1>9, <2>1, AttachBecomes
<1>11. w'[t].known = NoPid
  BY <1>9, SomeSteps
<1>12. Own(t)' = NewName(t)
  BY <1>1, <1>2 DEF Own
<1>13. Place(t)'
  <2>1. result[t].kind # "raised"
    BY DEF Place, MakeSession
  <2> QED BY <1>1, <1>5, <1>10, <1>12, <2>1 DEF Place, Becomes, Fresh, Started
<1>14. Knows(t)'
  BY <1>1, <1>6, <1>11, <1>12 DEF Knows
<1>15. Young(t)'
  <2>1. RoundOf(t)' = round
    BY <1>1, MovesInRound DEF MakeSession, RoundOf, ManyRounds
  <2> QED BY <1>1, <1>5, <1>10, <2>1, NamesDiffer DEF Young, Becomes
<1> QED BY <1>1, <1>7, <1>8, <1>13, <1>14, <1>15, SparesOthers

LEMMA FindKeeps ==
    ASSUME ~NamedSessions, BatchInv, SessionInv, NEW t \in Tasks, Effect(t), FindSession(t)
    PROVE  SessionInv'
<1> USE DEF BatchInv, SessionInv, vivado
<1>1. /\ ~plan.create /\ plan' = plan /\ proc' = proc /\ w[t].session = NoName
      /\ proc[t] = "none" /\ victims' = victims /\ UNCHANGED <<disk, pidOf>>
  BY DEF FindSession, Place, Fresh, caller, WorkInv, Started
<1>2. w[t].good = 0 /\ w[t].begun = 0 /\ result[t].kind # "raised"
  BY DEF CountInv, CountsAgree, Fresh, FindSession, Place
<1>3. Own(t) = OldName(t) /\ Own(t)' = OldName(t)
  BY <1>1 DEF Own
<1>4. CASE plan.home[t] \in OnDisk
  <2>1. plan.home[t] = OldName(t)
    BY <1>4, PlanNamesNone, NamesDiffer DEF ListInv
  <2>2. Attach(t, OldName(t), pidOf[OldName(t)]) /\ result' = result
    BY <1>4, <2>1 DEF FindSession
  <2>3. Becomes(t, "op", OldName(t), w[t].ok, 0, 0) /\ w'[t].known = pidOf[OldName(t)]
    BY <1>2, <2>2, AttachBecomes, SomeSteps
  <2>4. OnDisk' = OnDisk
    BY <1>1 DEF OnDisk
  <2>5. Place(t)'
    BY <1>1, <1>2, <1>3, <1>4, <2>1, <2>2, <2>3, <2>4 DEF Place, Becomes, Fresh, Started
  <2>6. Knows(t)'
    BY <1>1, <1>3, <2>3 DEF Knows
  <2> QED BY <1>1, <2>5, <2>6, ListKept
<1>5. CASE plan.home[t] \notin OnDisk
  <2>1. Goto(t, "returned")
    BY <1>1, <1>5 DEF FindSession, Return
  <2>2. Becomes(t, "returned", NoName, w[t].ok, 0, 0)
    BY <1>1, <1>2, <2>1, GotoBecomes
  <2>3. Place(t)'
    BY <1>1, <1>3, <2>2 DEF Place, Becomes, Fresh, Started
  <2>4. Knows(t)'
    BY <1>1, <2>2 DEF Knows, Started, Becomes
  <2> QED BY <1>1, <2>3, <2>4, ListKept
<1> QED BY <1>4, <1>5

\* Steps of the operations that record nothing, or the use of the session only.
LEMMA OpsKeep ==
    ASSUME BatchInv, SessionInv, NEW t \in Tasks, Effect(t),
           \/ CancelOps(t) \/ BeginOp(t) \/ StartFailed(t) \/ UseVivado(t) \/ NotOurs(t)
           \/ OpSucceeds(t) \/ OpFails(t) \/ VivadoDies(t)
    PROVE  SessionInv'
<1> USE DEF BatchInv, SessionInv, vivado
<1>1. /\ w[t].pc \in Started /\ plan' = plan /\ victims' = victims
      /\ result' = result /\ pidOf' = pidOf
      /\ (proc'[t] # "none" => proc[t] # "none")
  BY DEF CancelOps, BeginOp, StartFailed, UseVivado, NotOurs, OpSucceeds, OpFails, VivadoDies,
         caller, TypeInv, WorkInv, Started
<1>2. w[t].session = Own(t) /\ Own(t) \in OnDisk /\ Own(t)' = Own(t)
      /\ pidOf[Own(t)] = w[t].known /\ result[t].kind # "raised"
      /\ Own(t) \in {NewName(t), OldName(t)} /\ (plan.create => Own(t) = NewName(t))
  BY <1>1 DEF Place, Knows, Own, Started
<1>3. /\ w'[t].session = w[t].session /\ w'[t].known = w[t].known
      /\ w'[t].good \in Nat /\ w'[t].begun \in Nat /\ w'[t].good <= w'[t].begun
  <2>1. w[t].good \in Nat /\ w[t].begun \in Nat /\ w[t].good <= w[t].begun
    BY Sizes DEF TypeInv, Place
  <2>2. CASE VivadoDies(t)
    BY <2>1, <2>2 DEF VivadoDies
  <2>3. CASE UseVivado(t)
    BY <2>1, <2>3, GotoBecomes, SomeSteps DEF UseVivado, Becomes
  <2>4. CASE BeginOp(t)
    BY <2>1, <2>4, BeginOpBecomes, BeginKnows DEF Becomes
  <2>5. CASE OpSucceeds(t)
    <3>1. w[t].begun = w[t].good + 1
      BY <2>5 DEF OpSucceeds, CountInv, CountsAgree
    <3> QED BY <2>1, <2>5, <3>1, CompletedBecomes, CompletedKnows DEF Becomes, OpSucceeds
  <2>6. CASE Fails(t)
    BY <2>1, <2>6, FailsBecomes, SomeSteps DEF Becomes
  <2> QED BY <2>2, <2>3, <2>4, <2>5, <2>6 DEF CancelOps, StartFailed, NotOurs, OpFails
<1>4. w'[t].pc \in Started
  <2>1. CASE VivadoDies(t)
    BY <1>1, <2>1 DEF VivadoDies
  <2>2. CASE UseVivado(t)
    BY <2>2, GotoBecomes DEF UseVivado, Becomes, Started
  <2>3. CASE BeginOp(t)
    BY <2>3, BeginOpBecomes DEF Becomes, Started
  <2>4. CASE OpSucceeds(t)
    BY <2>4, CompletedBecomes DEF Becomes, OpSucceeds, Started
  <2>5. CASE Fails(t)
    BY <2>5, FailsBecomes DEF Becomes, Started
  <2> QED BY <2>1, <2>2, <2>3, <2>4, <2>5 DEF CancelOps, StartFailed, NotOurs, OpFails
<1>5. ASSUME Own(t) \in OnDisk'
      PROVE  Place(t)' /\ Knows(t)'
  <2>1. Place(t)'
    BY <1>1, <1>2, <1>3, <1>4, <1>5 DEF Place, Fresh, Started
  <2>2. Knows(t)'
    BY <1>1, <1>2, <1>3 DEF Knows
  <2> QED BY <2>1, <2>2
<1>6. CASE disk' = disk
  <2>1. Own(t) \in OnDisk'
    BY <1>2, <1>6 DEF OnDisk
  <2> QED BY <1>1, <1>3, <1>5, <1>6, <2>1, ListKept
<1>7. CASE disk' = Touched(w[t].session)
  <2>1. Own(t) \in Names /\ ListInv
    BY <1>2 DEF ListInv
  <2>2. /\ OnDisk' = OnDisk \cup {Own(t)} /\ OnDisk' \subseteq Names
        /\ disk'[Own(t)] = OnDisk \ {Own(t)}
        /\ \A x \in OnDisk \ {Own(t)} : disk'[x] = disk[x] \ {Own(t)}
        /\ \A x \in OnDisk' : disk'[x] \subseteq OnDisk' \ {x}
    <3> HIDE DEF SessionInv
    <3> QED BY <1>2, <1>7, <2>1, TouchedList
  <2>3. OnDisk' = OnDisk
    BY <1>2, <2>2
  <2>4. ListInv'
    BY <1>1, <2>1, <2>2, <2>3 DEF ListInv
  <2>5. \A s \in Tasks : NewName(s) \in OnDisk => OldNames \cap OnDisk' \subseteq disk'[NewName(s)]
    <3> SUFFICES ASSUME NEW s \in Tasks, NewName(s) \in OnDisk
                 PROVE  OldNames \cap OnDisk \subseteq disk'[NewName(s)]
      BY <2>3
    <3>1. Own(t) = NewName(t) /\ Own(t) \notin OldNames
      BY <1>2, NamesDiffer DEF Young
    <3>2. OldNames \cap OnDisk \subseteq disk[NewName(s)]
      BY DEF Young
    <3>3. CASE NewName(s) = Own(t)
      BY <2>2, <3>1, <3>3
    <3>4. CASE NewName(s) # Own(t)
      BY <2>2, <3>1, <3>2, <3>4
    <3> QED BY <3>3, <3>4
  <2>6. Spared(t)
    <3>1. \A s \in Tasks : Own(s) \in OnDisk => Own(s) \in OnDisk' /\ pidOf'[Own(s)] = pidOf[Own(s)]
      BY <1>1, <2>3
    <3> QED BY <1>1, <2>3, <2>5, <3>1 DEF Spared
  <2>7. Young(t)'
    <3>1. RoundOf(t)' = RoundOf(t) /\ round' = round
      BY DEF Effect, caller, RoundOf, ManyRounds
    <3> QED BY <1>1, <1>3, <2>3, <2>5, <3>1 DEF Young
  <2> QED BY <1>1, <1>2, <1>5, <2>3, <2>4, <2>6, <2>7, SparesOthers
<1> QED BY <1>6, <1>7 DEF CancelOps, BeginOp, StartFailed, UseVivado, NotOurs, OpSucceeds, OpFails,
                          VivadoDies

\* What is recorded in the worker's own session concerns no other.
LEMMA RecordSpares ==
    ASSUME SessionInv, NEW t \in Tasks, Own(t) \in OnDisk, w[t].session = Own(t),
           NEW pid \in Tasks \cup {NoPid, Stranger}, SaveMeta(t, pid), UNCHANGED <<disk, victims>>
    PROVE  Spared(t) /\ ListInv' /\ pidOf'[Own(t)] = pid
<1>1. DOMAIN pidOf' = OnDisk /\ pidOf'[Own(t)] = pid
      /\ \A s \in OnDisk : s # Own(t) => pidOf'[s] = pidOf[s]
  BY DEF SaveMeta, SessionInv, ListInv
<1>2. OnDisk' = OnDisk
  BY DEF OnDisk
<1>3. ListInv'
  BY <1>1, <1>2 DEF SessionInv, ListInv
<1>4. Spared(t)
  BY <1>1, <1>2, OwnDiffers DEF Spared, SessionInv, Young
<1> QED BY <1>1, <1>3, <1>4

LEMMA VivadoKeeps ==
    ASSUME BatchInv, SessionInv, NEW t \in Tasks, Effect(t),
           StartVivado(t) \/ Restart(t) \/ StopVivado(t)
    PROVE  SessionInv'
<1> USE DEF BatchInv, SessionInv
<1>1. /\ w[t].pc \in {"run", "busy", "stop"} /\ plan' = plan /\ victims' = victims
      /\ disk' = disk /\ round' = round /\ OnDisk' = OnDisk
      /\ RoundOf(t)' = RoundOf(t)
  BY DEF StartVivado, Restart, StopVivado, caller, OnDisk, RoundOf, ManyRounds
<1>2. w[t].session = Own(t) /\ Own(t) \in OnDisk /\ Own(t)' = Own(t) /\ result[t].kind # "raised"
  BY <1>1 DEF Place, Own, Started
<1>3. w'[t].session = w[t].session /\ w'[t].good <= w'[t].begun
  <2>1. w[t].good <= w[t].begun
    BY DEF Place
  <2> QED BY <2>1, StartBecomes, RestartBecomes, GotoBecomes
          DEF Becomes, StopVivado, Return
<1>4. ASSUME Spared(t), ListInv', w'[t].pc \in Started \cup {"returned"},
             result'[t].kind # "raised", Knows(t)'
      PROVE  SessionInv'
  <2>1. Place(t)'
    BY <1>1, <1>2, <1>3, <1>4 DEF Place, Fresh, Started
  <2>2. Young(t)'
    BY <1>1, <1>3 DEF Young
  <2> QED BY <1>1, <1>4, <2>1, <2>2, SparesOthers
<1>5. CASE StartVivado(t)
  <2>1. SaveMeta(t, t) /\ result' = result
    BY <1>5 DEF StartVivado
  <2>2. Spared(t) /\ ListInv' /\ pidOf'[Own(t)] = t
    BY <1>1, <1>2, <2>1, RecordSpares
  <2>3. w'[t].known = t /\ w'[t].pc = "busy"
    BY <1>5, StartKnows, StartBecomes DEF Becomes
  <2>4. Knows(t)'
    BY <1>2, <2>2, <2>3 DEF Knows
  <2> QED BY <1>2, <1>4, <2>1, <2>2, <2>3, <2>4 DEF Started
<1>6. ASSUME StopOwn(t)
      PROVE  /\ Spared(t) /\ ListInv' /\ proc'[t] = "none"
             /\ proc[t] # "none" => pidOf'[Own(t)] = NoPid
  <2>1. CASE proc[t] = "none"
    <3>1. pidOf' = pidOf /\ proc' = proc
      BY <1>6, <2>1 DEF StopOwn, vivado
    <3>2. Spared(t)
      BY <1>1, <3>1 DEF Spared, Young
    <3>3. ListInv'
      BY <1>1, <3>1 DEF ListInv
    <3> QED BY <2>1, <3>1, <3>2, <3>3
  <2>2. CASE proc[t] # "none"
    <3>1. SaveMeta(t, NoPid) /\ proc' = [proc EXCEPT ![t] = "none"]
      BY <1>6, <2>2 DEF StopOwn
    <3> QED BY <1>1, <1>2, <2>2, <3>1, RecordSpares DEF TypeInv
  <2> QED BY <2>1, <2>2
<1>7. CASE Restart(t)
  <2>1. StopOwn(t) /\ result' = result /\ proc[t] # "none"
    BY <1>7 DEF Restart
  <2>2. w'[t].known = NoPid /\ w'[t].pc = "run"
    BY <1>7, StartKnows, RestartBecomes DEF Becomes
  <2>3. Knows(t)'
    BY <1>2, <1>6, <2>1, <2>2 DEF Knows
  <2> QED BY <1>2, <1>4, <1>6, <2>1, <2>2, <2>3 DEF Started
<1>8. CASE StopVivado(t)
  <2>1. StopOwn(t) /\ Return(t, Verdict(t))
    BY <1>8 DEF StopVivado
  <2>2. w'[t].pc = "returned"
    BY <2>1, GotoBecomes DEF Becomes, Return
  <2>3. result'[t].kind = "ran"
    BY <2>1, VerdictFields DEF Return, TypeInv
  <2>4. Knows(t)'
    BY <1>6, <2>1, <2>2 DEF Knows, Started
  <2> QED BY <1>4, <1>6, <2>1, <2>2, <2>3, <2>4
<1> QED BY <1>5, <1>7, <1>8

LEMMA WorkKeeps ==
    ASSUME ~NamedSessions, BatchInv, SessionInv, NEW t \in Tasks, Works(t) \/ VivadoDies(t)
    PROVE  SessionInv'
<1>1. Effect(t)
  BY EffectWorks DEF BatchInv
<1> QED BY <1>1, BeforeKeeps, EvictKeeps, MakeKeeps, FindKeeps, OpsKeep, VivadoKeeps DEF Works

-----------------------------------------------------------------------------
(***************************************************************************)
(* The sessions: steps of the caller.                                      *)
(***************************************************************************)
LEMMA CallerKeeps ==
    ASSUME BatchInv, SessionInv, UNCHANGED <<plan, round, disk, pidOf, victims, proc>>,
           DOMAIN w' = Tasks,
           \A t \in Tasks :
              /\ w'[t].session = w[t].session /\ w'[t].good = w[t].good /\ w'[t].begun = w[t].begun
              /\ \/ w'[t].pc = w[t].pc
                 \/ w[t].pc = "later" /\ w'[t].pc = "queued"
                 \/ w[t].pc = "returned" /\ w'[t].pc = "collected"
              /\ w'[t].pc \in Started => w'[t].known = w[t].known
              /\ proc[t] # "none" => w'[t].known = w[t].known
              /\ result'[t].kind = "raised" => result[t].kind = "raised"
    PROVE  SessionInv'
<1> USE DEF SessionInv
<1>1. /\ Rounds' = Rounds /\ OnDisk' = OnDisk
      /\ \A t \in Tasks : RoundOf(t)' = RoundOf(t) /\ Own(t)' = Own(t)
  BY DEF Rounds, RoundOf, ManyRounds, Own, OnDisk
<1>2. ListInv'
  BY <1>1 DEF ListInv
<1>3. ASSUME NEW t \in Tasks
      PROVE  Young(t)' /\ Place(t)' /\ Knows(t)'
  <2>1. Young(t)'
    BY <1>1 DEF Young
  <2>2. Place(t)'
    BY <1>1 DEF Place, Fresh, Started
  <2>3. Knows(t)'
    BY <1>1 DEF Knows, Started
  <2> QED BY <2>1, <2>2, <2>3
<1> QED BY <1>1, <1>2, <1>3

LEMMA MainKeeps ==
    ASSUME BatchInv, SessionInv, StartRound \/ SkipRounds \/ \E t \in Tasks : Collect(t)
    PROVE  SessionInv'
<1> USE DEF vivado
<1>1. CASE StartRound
  <2>1. \A t \in InRound : w[t].pc = "later"
    BY <1>1 DEF BatchInv, RoundInv, InRound, StartRound
  <2>2. /\ DOMAIN w' = Tasks
        /\ \A t \in Tasks \ InRound : w'[t] = w[t]
        /\ \A t \in InRound : /\ w'[t].pc = "queued" /\ w'[t].known = w[t].known
                              /\ w'[t].session = w[t].session
                              /\ w'[t].begun = w[t].begun /\ w'[t].good = w[t].good
    BY <1>1 DEF StartRound, InRound, BatchInv, TypeInv, Fields
  <2> QED BY <1>1, <2>1, <2>2, CallerKeeps DEF StartRound
<1>2. CASE SkipRounds
  <2>1. \A t \in Tasks : result'[t].kind = "raised" => result[t].kind = "raised"
    BY <1>2, UnsuccessfulFields DEF SkipRounds, Kinds
  <2> QED BY <1>2, <2>1, CallerKeeps DEF SkipRounds, BatchInv, TypeInv
<1>3. ASSUME NEW t \in Tasks, Collect(t) PROVE SessionInv'
  <2>1. Becomes(t, "collected", w[t].session, w[t].ok, w[t].begun, w[t].good)
        /\ w'[t].known = w[t].known
    BY <1>3, GotoBecomes, SomeSteps DEF Collect, Goto, BatchInv
  <2> QED BY <1>3, <2>1, CallerKeeps DEF Collect, Becomes
<1> QED BY <1>1, <1>2, <1>3

LEMMA EndKeeps ==
    ASSUME ~NamedSessions, BatchInv, SessionInv, EndRound
    PROVE  SessionInv'
<1> USE DEF SessionInv
<1>1. CASE ~(round < Rounds)
  <2>1. UNCHANGED <<plan, round, disk, pidOf, victims, proc, w, result>>
    BY <1>1 DEF EndRound
  <2> QED BY <2>1, CallerKeeps DEF BatchInv, TypeInv
<1>2. CASE round < Rounds
  <2>1. /\ plan' = plan /\ round' = round + 1 /\ UNCHANGED <<w, victims, proc, result>>
        /\ disk' = Without(Named) /\ pidOf' = PidsWithout(Named) /\ main = "collect"
    BY <1>2 DEF EndRound
  <2>2. plan.create /\ ManyRounds
    BY <1>2, OneRound DEF ManyRounds, BatchInv, TypeInv
  <2>3. /\ Rounds' = Rounds
        /\ \A t \in Tasks : RoundOf(t)' = RoundOf(t) /\ Own(t)' = Own(t)
    BY <2>1 DEF Rounds, RoundOf, ManyRounds, Own
  <2>4. /\ OnDisk' = OnDisk \ Named
        /\ \A s \in OnDisk' : disk'[s] = disk[s] \ Named
    BY <2>1 DEF Without, OnDisk
  <2>5. /\ DOMAIN pidOf' = OnDisk \ Named
        /\ \A s \in OnDisk' : pidOf'[s] = pidOf[s]
    <3>1. pidOf' = [s \in DOMAIN pidOf \cap (DOMAIN pidOf \ Named) |-> pidOf[s]]
      BY <2>1 DEF PidsWithout, Restrict
    <3> QED BY <2>4, <3>1 DEF ListInv
  <2>6. ListInv'
    BY <2>4, <2>5 DEF ListInv
  <2>7. \A t \in Tasks : NewName(t) \notin OnDisk'
    <3> SUFFICES ASSUME NEW t \in Tasks, NewName(t) \in OnDisk
                 PROVE  NewName(t) \in Named
      BY <2>4
    <3>1. w[t].session # NoName /\ t \in InRound
      BY NamesDiffer DEF Young, InRound
    <3>2. result[t].kind # "raised"
      BY <3>1 DEF Place
    <3>3. Made(t) = NewName(t)
      BY <2>2, PlanNamesNone DEF BatchInv
    <3> QED BY <3>1, <3>2, <3>3 DEF Named
  <2>8. ASSUME NEW t \in Tasks
        PROVE  Young(t)' /\ Place(t)' /\ Knows(t)'
    <3>1. w[t].pc \in {"later", "collected"}
      <4>1. RoundOf(t) = round => w[t].pc = "collected"
        BY DEF EndRound, Collected, InRound
      <4>2. RoundOf(t) \in Int /\ round \in Int
        BY RoundsAreNumbers DEF BatchInv, TypeInv
      <4> QED BY <4>1, <4>2 DEF BatchInv, RoundInv
    <3>2. Young(t)'
      BY <2>7 DEF Young
    <3>3. Place(t)'
      BY <2>1, <2>3, <3>1 DEF Place, Started
    <3>4. Knows(t)'
      BY <2>1, <3>1 DEF Knows, Started
    <3> QED BY <3>2, <3>3, <3>4
  <2>9. round' <= Rounds'
    BY <1>2, <2>1, <2>3, RoundsAreNumbers DEF BatchInv, TypeInv
  <2> QED BY <2>1, <2>6, <2>8, <2>9
<1> QED BY <1>1, <1>2

-----------------------------------------------------------------------------
LEMMA SessionInvInit ==
    ASSUME Init
    PROVE  SessionInv
<1>1. round <= Rounds
  <2>1. CASE ManyRounds
    <3>1. ASSUME NEW a \in Nat, NEW b \in Nat \ {0}, b <= a
          PROVE  1 <= a \div b
      <4>1. a \div b \in Int /\ a < b * (a \div b) + b
        OBVIOUS
      <4>2. \A q \in Int : q <= 0 => b * q <= 0
        OBVIOUS
      <4>3. \A q \in Int : b * q \in Int
        OBVIOUS
      <4>4. ~(a \div b <= 0)
        <5>1. PICK q \in Int : q = a \div b
          BY <4>1
        <5>2. a < b * q + b /\ (q <= 0 => b * q <= 0) /\ b * q \in Int
          BY <4>1, <4>2, <4>3, <5>1
        <5> QED BY <3>1, <5>1, <5>2
      <4> QED BY <4>1, <4>4
    <3>2. N + MaxSessions - 1 \in Nat /\ MaxSessions <= N + MaxSessions - 1
      BY Sizes
    <3> QED BY <2>1, <3>1, <3>2, Sizes DEF Rounds, Init
  <2>2. CASE ~ManyRounds
    BY <2>2, OneRound DEF Init
  <2> QED BY <2>1, <2>2
<1>2. OnDisk = OldNames
  BY DEF Init, OnDisk
<1>3. ASSUME NEW i \in 1..Olds
      PROVE  OldName(i)[2] = i /\ disk[OldName(i)] \subseteq OldNames \ {OldName(i)}
  <2>1. OldName(i)[2] = i /\ OldName(i) \in OldNames
    BY DEF OldName, OldNames
  <2>2. disk[OldName(i)] = {OldName(j) : j \in 1..i - 1}
    BY <2>1 DEF Init
  <2>3. ASSUME NEW j \in 1..i - 1
        PROVE  OldName(j) \in OldNames /\ OldName(j) # OldName(i)
    <3>1. j \in 1..Olds /\ j # i
      BY BatchAssumption
    <3>2. OldName(j)[2] = j
      BY DEF OldName
    <3> QED BY <2>1, <3>1, <3>2 DEF OldNames
  <2> QED BY <2>1, <2>2, <2>3
<1>4. ListInv
  <2>1. \A s \in OldNames : disk[s] \subseteq OldNames \ {s}
    BY <1>3 DEF OldNames
  <2>2. pidOf \in [OldNames -> {NoPid, Stranger}]
    BY DEF Init
  <2> QED BY <1>2, <2>1, <2>2 DEF ListInv, Names
<1>5. DOMAIN victims = Tasks
  BY DEF Init
<1>6. ASSUME NEW t \in Tasks
      PROVE  Young(t) /\ Place(t) /\ Knows(t)
  <2>1. w[t].pc = "later" /\ w[t].session = NoName /\ w[t].begun = 0 /\ w[t].good = 0
        /\ victims[t] = {} /\ proc[t] = "none" /\ result[t] = NoResult
    BY DEF Init, Asleep
  <2>2. NoResult.kind = "none"
    BY UnsuccessfulFields DEF NoResult, Kinds
  <2> QED BY <1>2, <2>1, <2>2, NamesDiffer DEF Young, Place, Knows, Fresh, Started
<1> QED BY <1>1, <1>4, <1>5, <1>6 DEF SessionInv

LEMMA SessionInvNext ==
    ASSUME ~NamedSessions, BatchInv, SessionInv, [Next]_vars
    PROVE  SessionInv'
<1>1. CASE UNCHANGED vars
  BY <1>1 DEF vars, SessionInv, ListInv, Young, Place, Knows, Own, OnDisk, Rounds, RoundOf,
              ManyRounds
<1>2. CASE Main
  BY <1>2, MainKeeps, EndKeeps DEF Main
<1>3. ASSUME NEW t \in Tasks, Works(t) \/ VivadoDies(t)
      PROVE  SessionInv'
  BY <1>3, WorkKeeps
<1> QED BY <1>1, <1>2, <1>3 DEF Next

\* The inductive invariant of the sessions: what the list holds, which session
\* each worker has, whose pid is recorded there, and which may be evicted.
THEOREM SessionsInvariant ==
    ASSUME ~NamedSessions
    PROVE  Spec => []SessionInv
<1>1. Init => SessionInv
  BY SessionInvInit
<1>2. BatchInv /\ SessionInv /\ [Next]_vars => SessionInv'
  BY SessionInvNext
<1> QED BY <1>1, <1>2, BatchInvariant, PTL DEF Spec

\* Every list, name, pid, counter and worker has its type.
THEOREM TypeCorrect ==
    ASSUME ~NamedSessions
    PROVE  Spec => []TypeOK
<1>1. BatchInv /\ SessionInv => TypeOK
  <2> SUFFICES ASSUME BatchInv, SessionInv PROVE TypeOK
    OBVIOUS
  <2>1. round \in 1..Rounds
    BY RoundsAreNumbers DEF BatchInv, TypeInv, SessionInv
  <2>2. sem \in 0..MaxConcurrent
    <3>1. Cardinality(Holders) \in Nat
      BY TasksFinite DEF Holders
    <3> QED BY <3>1, Sizes DEF BatchInv, PermitInv
  <2>3. \A t \in Tasks : w[t].pc \in Pcs /\ w[t].good <= w[t].begun /\ w[t].begun <= Ops
    BY Sizes DEF BatchInv, TypeInv, SessionInv, Place
  <2> QED BY <2>1, <2>2, <2>3 DEF TypeOK, BatchInv, TypeInv, SessionInv, ListInv
<1> QED BY <1>1, BatchInvariant, SessionsInvariant, PTL

\* create_session never evicts the session of a worker, although the lists the
\* workers evict from are out of date.
THEOREM NoneInUseEvicted ==
    ASSUME ~NamedSessions
    PROVE  Spec => []EvictsNoneInUse
<1>1. BatchInv /\ SessionInv => EvictsNoneInUse
  BY DEF BatchInv, TypeInv, SessionInv, Place, EvictsNoneInUse, Active, Pcs, Fresh, Started
<1> QED BY <1>1, BatchInvariant, SessionsInvariant, PTL

\* A finished batch has given everything back, and no session of an earlier
\* round is left: also not one whose task failed, timed out or was refused.
THEOREM BatchLeavesNothing ==
    ASSUME ~NamedSessions
    PROVE  Spec => []NothingLeft
<1>1. SessionInv /\ AllGivenBack => NothingLeft
  BY RoundsAreNumbers DEF SessionInv, Young, NothingLeft
<1> QED BY <1>1, BatchGivesBack, SessionsInvariant, PTL

\* No Vivado is started in a session in which another one runs.
THEOREM OneVivadoEach ==
    ASSUME ~NamedSessions
    PROVE  Spec => OneVivadoPerSession
<1>1. ASSUME BatchInv, SessionInv, [Next]_vars, NEW t \in Tasks, proc[t] # "live", proc'[t] = "live"
      PROVE  ~PidAlive(pidOf[w[t].session])
  <2>1. StartVivado(t)
    <3>1. PICK s \in Tasks : Works(s) \/ VivadoDies(s)
      BY <1>1 DEF Next, Main, vars, vivado, StartRound, SkipRounds, EndRound, Collect
    <3>2. s = t
      BY <1>1, <3>1, EffectWorks DEF BatchInv, Effect, OthersKept
    <3>3. ~StopOwn(t)
      BY <1>1, StopOwnGives DEF BatchInv
    <3> QED BY <1>1, <3>1, <3>2, <3>3
            DEF Works, BeginTask, CancelTask, ListSessions, ListRaises, Evict, DiskFull,
                MakeSession, FindSession, CancelOps, BeginOp, StartFailed, UseVivado, NotOurs,
                OpSucceeds, OpFails, Restart, StopVivado, VivadoDies, vivado, BatchInv, TypeInv
  <2>2. pidOf[w[t].session] = w[t].known /\ (proc[t] # "none" => w[t].known = t)
    BY <1>1, <2>1 DEF StartVivado, SessionInv, Place, Knows, Started
  <2>3. ~PidAlive(t)
    BY <1>1, Sizes DEF PidAlive, Stranger, Tasks
  <2> QED BY <2>1, <2>2, <2>3 DEF StartVivado, IsAlive
<1>2. BatchInv /\ SessionInv /\ [Next]_vars =>
          [\A t \in Tasks : proc[t] # "live" /\ proc'[t] = "live"
                               => ~PidAlive(pidOf[w[t].session])]_vars
  BY <1>1
<1> QED BY <1>2, BatchInvariant, SessionsInvariant, PTL DEF Spec, OneVivadoPerSession
=============================================================================
