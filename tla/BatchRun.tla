------------------------------ MODULE BatchRun ------------------------------
(***************************************************************************)
(* BatchExecutor.execute of tools/vivado_core/batch.py on the sessions of  *)
(* tools/vivado_core/session.py: rounds of tasks, a pool of worker threads *)
(* that each create or find a session, run the operations in it and stop   *)
(* its Vivado, eviction of the least recently used sessions, the three     *)
(* error policies, and the report.                                         *)
(*                                                                         *)
(* A command to Vivado is one step here; VivadoSession has its detail.     *)
(***************************************************************************)
EXTENDS Naturals, FiniteSets, Functions

CONSTANTS
    N,              \* tasks of the batch
    Ops,            \* operations per task
    ExpectedFail,   \* tasks marked expected_fail
    MaxParallel,    \* max_parallel of the batch
    MaxConcurrent,  \* limits.max_concurrent
    MaxSessions,    \* limits.max_sessions
    Olds,           \* sessions there were before the batch
    NamedSessions   \* may a plan name sessions, the same one twice or with create?
ASSUME BatchAssumption ==
    /\ {N, Ops, MaxParallel, MaxConcurrent, MaxSessions} \subseteq Nat \ {0}
    /\ Olds \in Nat /\ ExpectedFail \subseteq 1..N
    /\ NamedSessions \in BOOLEAN

Tasks == 1..N
NewName(t) == <<"new", t>>
OldName(i) == <<"old", i>>
OldNames   == {OldName(i) : i \in 1..Olds}
NoName     == <<"none", 0>>

\* A recorded vivado_pid: none, that of a task's process, or that of a Vivado
\* that an earlier command left running.
NoPid    == 0
Stranger == N + 1

VARIABLES
    plan,       \* policy, create, home (the session a task uses)
    main,       \* the caller: at the start of a round, collecting, or done
    round,
    disk,       \* the sessions there are, each with those whose last use is earlier
    pidOf,      \* vivado_pid in each session's .session.yaml
    sem,        \* permits left
    w,          \* each task's worker
    victims,    \* sessions the worker's cleanup() has chosen
    proc,       \* each task's own Vivado: "none", "live" or "dead"
    held,       \* does its session object hold a permit?
    cancel,     \* the cancel event of the round
    halted,     \* a result of an earlier round stops the next ones
    result      \* each task's TaskResult, when its future is done

vars == <<plan, main, round, disk, pidOf, sem, w, victims, proc, held, cancel, halted, result>>
vivado == <<sem, pidOf, proc, held>>
caller == <<plan, main, round, cancel, halted>>

Policies == {"continue", "fail-fast", "stop-accepting"}
Unsuccessful(kind) == [kind |-> kind, ok |-> FALSE, xfail |-> FALSE]
NoResult == Unsuccessful("none")

\* begun and good count the operations a task started and completed.
Asleep == [pc |-> "later", session |-> NoName, known |-> NoPid, ok |-> TRUE,
           retried |-> FALSE, begun |-> 0, good |-> 0]

\* The tasks and options of vivado_cli -batch or -batch-plan.  home is the
\* session a plan names for a task, or the one that is there for it.
Plans ==
    {p \in [policy : Policies, create : BOOLEAN,
            home : [Tasks -> OldNames \cup {NoName}]] :
        NamedSessions \/
            /\ p.create => p.home = [t \in Tasks |-> NoName]
            /\ \A t \in Tasks : p.home[t] \in {OldName(t), NoName}}

Init ==
    /\ plan \in Plans
    /\ main = "start" /\ round = 1
    /\ disk = [s \in OldNames |-> {OldName(j) : j \in 1..s[2] - 1}]
    /\ pidOf \in {f \in [OldNames -> {NoPid, Stranger}] :
                     \A i \in 2..Olds : f[OldName(i)] = NoPid}
    /\ sem = MaxConcurrent
    /\ w = [t \in Tasks |-> Asleep]
    /\ victims = [t \in Tasks |-> {}]
    /\ proc = [t \in Tasks |-> "none"] /\ held = [t \in Tasks |-> FALSE]
    /\ cancel = FALSE /\ halted = FALSE
    /\ result = [t \in Tasks |-> NoResult]

-----------------------------------------------------------------------------
(***************************************************************************)
(* Rounds.                                                                 *)
(***************************************************************************)
ManyRounds == plan.create /\ N > MaxSessions
Rounds     == IF ManyRounds THEN (N + MaxSessions - 1) \div MaxSessions ELSE 1
RoundOf(t) == IF ManyRounds THEN (t - 1) \div MaxSessions + 1 ELSE 1
InRound    == {t \in Tasks : RoundOf(t) = round}

AtLeast1(n) == IF n = 0 THEN 1 ELSE n
Min2(a, b)  == IF a < b THEN a ELSE b
Parallel    == IF ManyRounds THEN Min2(MaxParallel, Cardinality(InRound)) ELSE MaxParallel
\* Slip: the limit on processes does not limit the workers.
MaxWorkersAsked == AtLeast1(Parallel)
MaxWorkers  == AtLeast1(Min2(Parallel, MaxConcurrent))

StartRound ==
    /\ main = "start" /\ ~halted
    /\ main' = "collect"
    /\ cancel' = FALSE
    /\ w' = [t \in Tasks |-> IF t \in InRound THEN [w[t] EXCEPT !.pc = "queued"] ELSE w[t]]
    /\ UNCHANGED <<plan, round, halted, disk, victims, vivado, result>>

SkipRounds ==
    /\ main = "start" /\ halted
    /\ main' = "done"
    /\ result' = [t \in Tasks |-> IF RoundOf(t) >= round THEN Unsuccessful("skipped") ELSE result[t]]
    /\ UNCHANGED <<plan, round, cancel, halted, disk, w, victims, vivado>>

Unexpected(r) == ~r.ok /\ ~r.xfail

\* Slip: a future that raises is never taken.
CollectAnswered(t) ==
    /\ main = "collect" /\ w[t].pc = "returned" /\ result[t].kind # "raised"
    /\ w' = [w EXCEPT ![t].pc = "collected"]
    /\ cancel' = (cancel \/ (plan.policy = "fail-fast" /\ Unexpected(result[t])))
    /\ UNCHANGED <<plan, main, round, halted, disk, victims, vivado, result>>
Collect(t) ==
    /\ main = "collect" /\ w[t].pc = "returned"
    /\ w' = [w EXCEPT ![t].pc = "collected"]
    /\ cancel' = (cancel \/ (plan.policy = "fail-fast" /\ Unexpected(result[t])))
    /\ UNCHANGED <<plan, main, round, halted, disk, victims, vivado, result>>

Collected   == \A t \in InRound : w[t].pc = "collected"
\* Slip: only the last result of a round is looked at.
StopsRoundsByLast ==
    plan.policy # "continue" /\ \E t \in InRound : t + 1 \notin InRound /\ Unexpected(result[t])
StopsRounds == plan.policy # "continue" /\ \E t \in InRound : Unexpected(result[t])

\* The session the task gets when it is made for it.
Made(t) == IF plan.home[t] = NoName THEN NewName(t) ELSE plan.home[t]

\* A result made from an exception of the worker names the session of the plan,
\* if that names one.
\* Slip: the sessions of failed tasks stay.
NamedOfSuccessful == {Made(t) : t \in {s \in InRound : result[s].ok}}
Named == {Made(t) : t \in {s \in InRound :
                               result[s].kind # "raised" \/ plan.home[s] # NoName}}

\* destroy_session: the directory goes; the fresh object has nothing to stop.
OnDisk == DOMAIN disk
Without(names) == [s \in OnDisk \ names |-> disk[s] \ names]
PidsWithout(names) == Restrict(pidOf, DOMAIN pidOf \ names)

EndRound ==
    /\ main = "collect" /\ Collected
    /\ halted' = (ManyRounds /\ (halted \/ StopsRounds))
    /\ IF round < Rounds
       THEN /\ main' = "start" /\ round' = round + 1
            /\ disk' = Without(Named) /\ pidOf' = PidsWithout(Named)
       ELSE main' = "done" /\ UNCHANGED <<round, disk, pidOf>>
    /\ UNCHANGED <<plan, cancel, sem, w, victims, proc, held, result>>

-----------------------------------------------------------------------------
(***************************************************************************)
(* A worker: cancelled before it starts, or with a session.                *)
(***************************************************************************)
Goto(t, pc) == w' = [w EXCEPT ![t].pc = pc]
Return(t, r) == Goto(t, "returned") /\ result' = [result EXCEPT ![t] = r]

Active == {t \in Tasks : w[t].pc \notin {"later", "queued", "returned", "collected"}}

NextInLine(t) ==
    /\ w[t].pc = "queued" /\ \A s \in Tasks : w[s].pc = "queued" => t <= s
    /\ Cardinality(Active) < MaxWorkers

BeginTask(t) ==
    /\ NextInLine(t)
    /\ ~cancel
    /\ Goto(t, IF plan.create /\ plan.home[t] = NoName THEN "list" ELSE "find")
    /\ UNCHANGED <<caller, disk, victims, vivado, result>>

CancelTask(t) ==
    /\ NextInLine(t)
    /\ cancel
    /\ Return(t, Unsuccessful("cancelled"))
    /\ UNCHANGED <<caller, disk, victims, vivado>>

\* create_session: the list it takes, the oldest it evicts, the list it takes
\* again.
\* Slip: the order of the list is wrong.
Newest(n) == {s \in OnDisk : Cardinality(OnDisk \ disk[s]) <= n}
Oldest(n) == {s \in OnDisk : Cardinality(disk[s]) < n}
Full      == Cardinality(OnDisk) >= MaxSessions
ToEvict   == Oldest(Cardinality(OnDisk) + 1 - MaxSessions)

ListSessions(t) ==
    /\ w[t].pc = "list"
    /\ IF Full
       THEN victims' = [victims EXCEPT ![t] = ToEvict] /\ Goto(t, "evict")
       ELSE Goto(t, "make") /\ UNCHANGED victims
    /\ UNCHANGED <<caller, disk, vivado, result>>

\* A listing that meets a directory another worker is removing raises; so does
\* the sum of the sizes.
ListRaises(t) ==
    /\ w[t].pc \in {"list", "evict", "make"}
    /\ \E s \in Tasks \ {t} : w[s].pc = "evict"
    /\ Return(t, Unsuccessful("raised"))
    /\ victims' = [victims EXCEPT ![t] = {}]
    /\ UNCHANGED <<caller, disk, vivado>>

Evict(t) ==
    /\ w[t].pc = "evict"
    /\ disk' = Without(victims[t]) /\ pidOf' = PidsWithout(victims[t])
    /\ victims' = [victims EXCEPT ![t] = {}]
    /\ IF Full' THEN Return(t, Unsuccessful("limit"))
       ELSE Goto(t, "make") /\ UNCHANGED result
    /\ UNCHANGED <<caller, sem, proc, held>>

DiskFull(t) ==
    /\ w[t].pc = "make"
    /\ Return(t, Unsuccessful("limit"))
    /\ UNCHANGED <<caller, disk, victims, vivado>>

\* The last use of s is now: update_last_used, or the creation.
Touched(s) == [x \in OnDisk \cup {s} |-> IF x = s THEN OnDisk \ {s} ELSE disk[x] \ {s}]

Attach(t, s, pid) == w' = [w EXCEPT ![t] = [@ EXCEPT !.pc = "op", !.session = s, !.known = pid]]

MakeSession(t) ==
    /\ w[t].pc = "make"
    /\ disk' = Touched(Made(t))
    /\ pidOf' = [s \in DOMAIN pidOf \cup {Made(t)} |->
                    IF s = Made(t) THEN NoPid ELSE pidOf[s]]
    /\ Attach(t, Made(t), NoPid)
    /\ UNCHANGED <<caller, victims, sem, proc, held, result>>

FindSession(t) ==
    /\ w[t].pc = "find"
    /\ IF plan.home[t] \in OnDisk
       THEN Attach(t, plan.home[t], pidOf[plan.home[t]]) /\ UNCHANGED result
       ELSE IF plan.create THEN Goto(t, "list") /\ UNCHANGED result
       ELSE Return(t, Unsuccessful("notfound"))
    /\ UNCHANGED <<caller, disk, victims, vivado>>

-----------------------------------------------------------------------------
(***************************************************************************)
(* The operations.                                                         *)
(***************************************************************************)
Gives(t, ok) == w' = [w EXCEPT ![t] = [@ EXCEPT !.pc = "stop", !.ok = ok]]
Fails(t)     == Gives(t, FALSE)

CancelOps(t) ==
    /\ w[t].pc = "op" /\ cancel
    /\ Fails(t)
    /\ UNCHANGED <<caller, disk, victims, vivado, result>>

BeginOp(t) ==
    /\ w[t].pc = "op" /\ ~cancel
    /\ w' = [w EXCEPT ![t] = [@ EXCEPT !.pc = "run", !.retried = FALSE, !.begun = w[t].begun + 1]]
    /\ UNCHANGED <<caller, disk, victims, vivado, result>>

\* is_alive: of the own process, or else of the recorded pid.
PidAlive(pid) == pid = Stranger \/ (pid \in Tasks /\ proc[pid] = "live")
\* Slip: the recorded pid is forgotten.
IsAliveOwn(t) == proc[t] = "live"
IsAlive(t) == IF proc[t] # "none" THEN proc[t] = "live" ELSE PidAlive(w[t].known)

Permit(t) == held[t] \/ sem > 0

\* There is no permit left, or Popen raises, which gives a permit back.
StartFailed(t) ==
    /\ w[t].pc = "run" /\ ~IsAlive(t)
    /\ sem' = IF held[t] THEN sem + 1 ELSE sem
    /\ held' = [held EXCEPT ![t] = FALSE]
    /\ Fails(t)
    /\ UNCHANGED <<caller, disk, victims, pidOf, proc, result>>

\* save_meta puts the session's record back, with the object's pid.
SaveMeta(t, pid) ==
    pidOf' = [s \in DOMAIN pidOf \cup {w[t].session} |->
                 IF s = w[t].session THEN pid ELSE pidOf[s]]

StartVivado(t) ==
    /\ w[t].pc = "run" /\ ~IsAlive(t) /\ Permit(t)
    /\ sem' = IF held[t] THEN sem ELSE sem - 1
    /\ held' = [held EXCEPT ![t] = TRUE]
    /\ proc' = [proc EXCEPT ![t] = "live"]
    /\ SaveMeta(t, t)
    /\ w' = [w EXCEPT ![t] = [@ EXCEPT !.pc = "busy", !.known = t]]
    /\ UNCHANGED <<caller, disk, victims, result>>

UseVivado(t) ==
    /\ w[t].pc = "run" /\ proc[t] = "live"
    /\ Goto(t, "busy")
    /\ UNCHANGED <<caller, disk, victims, vivado, result>>

\* The recorded process lives but is not this object's: execute() asserts.
NotOurs(t) ==
    /\ w[t].pc = "run" /\ proc[t] = "none" /\ IsAlive(t)
    /\ Fails(t)
    /\ UNCHANGED <<caller, disk, victims, vivado, result>>

\* Vivado may end at any time; the object keeps its permit until it is stopped
\* or started again.
VivadoDies(t) ==
    /\ proc[t] = "live"
    /\ proc' = [proc EXCEPT ![t] = "dead"]
    /\ UNCHANGED <<caller, disk, victims, sem, pidOf, held, w, result>>

\* Slip: one operation more than there are.
CompletedOneMore(t) ==
    w' = [w EXCEPT ![t] = [@ EXCEPT !.good = w[t].good + 1,
                                    !.pc = IF w[t].begun > Ops THEN "stop" ELSE "op"]]
Completed(t) ==
    w' = [w EXCEPT ![t] = [@ EXCEPT !.good = w[t].good + 1,
                                    !.pc = IF w[t].begun = Ops THEN "stop" ELSE "op"]]

OpSucceeds(t) ==
    /\ w[t].pc = "busy" /\ proc[t] = "live"
    /\ Completed(t)
    /\ disk' = Touched(w[t].session)
    /\ UNCHANGED <<caller, victims, vivado, result>>

\* It reports failure, raises, or times out: a timeout has stopped Vivado, which
\* the stop at the end would do as well.
OpFails(t) ==
    /\ w[t].pc = "busy"
    /\ Fails(t)
    /\ disk' = Touched(w[t].session)
    /\ UNCHANGED <<caller, victims, vivado, result>>

\* stop_vivado: without a process of its own the object does nothing.
Released(t) == sem' = (IF held[t] THEN sem + 1 ELSE sem) /\ held' = [held EXCEPT ![t] = FALSE]
StopOwn(t) ==
    IF proc[t] = "none" THEN UNCHANGED vivado
    ELSE proc' = [proc EXCEPT ![t] = "none"] /\ SaveMeta(t, NoPid) /\ Released(t)

\* sim(), the last operation, stops Vivado and runs the simulation again in a
\* new one, once.
Restart(t) ==
    /\ w[t].pc = "busy" /\ proc[t] = "live" /\ ~w[t].retried
    /\ w[t].begun = Ops
    /\ StopOwn(t)
    /\ w' = [w EXCEPT ![t] = [@ EXCEPT !.pc = "run", !.retried = TRUE, !.known = NoPid]]
    /\ UNCHANGED <<caller, disk, victims, result>>

\* Slip: one good operation makes a good task.
VerdictAny(t) == [kind |-> "ran", ok |-> w[t].good > 0, xfail |-> t \in ExpectedFail]
Verdict(t)    == [kind |-> "ran", ok |-> w[t].ok, xfail |-> t \in ExpectedFail]

StopVivado(t) ==
    /\ w[t].pc = "stop"
    /\ StopOwn(t)
    /\ Return(t, Verdict(t))
    /\ UNCHANGED <<caller, disk, victims>>

-----------------------------------------------------------------------------
Works(t) ==
    \/ BeginTask(t) \/ CancelTask(t)
    \/ ListSessions(t) \/ ListRaises(t) \/ Evict(t) \/ DiskFull(t) \/ MakeSession(t)
    \/ FindSession(t)
    \/ CancelOps(t) \/ BeginOp(t)
    \/ StartFailed(t) \/ StartVivado(t) \/ UseVivado(t) \/ NotOurs(t)
    \/ OpSucceeds(t) \/ OpFails(t) \/ Restart(t)
    \/ StopVivado(t)

Main == StartRound \/ SkipRounds \/ EndRound \/ \E t \in Tasks : Collect(t)

Next == Main \/ \E t \in Tasks : Works(t) \/ VivadoDies(t)

\* The caller and the workers are threads that run; every command ends, if only
\* by its timeout.
Fairness == WF_vars(Main) /\ \A t \in Tasks : WF_vars(Works(t))
Spec == Init /\ [][Next]_vars
FairSpec == Spec /\ Fairness

-----------------------------------------------------------------------------
Pcs == {"later", "queued", "list", "evict", "make", "find", "op", "run", "busy", "stop",
        "returned", "collected"}
Names == OldNames \cup {NewName(t) : t \in Tasks}

TypeOK ==
    /\ main \in {"start", "collect", "done"} /\ round \in 1..Rounds
    /\ OnDisk \subseteq Names /\ DOMAIN pidOf = OnDisk
    /\ \A s \in OnDisk : disk[s] \subseteq OnDisk \ {s}
    /\ \A s \in DOMAIN pidOf : pidOf[s] \in Tasks \cup {NoPid, Stranger}
    /\ sem \in 0..MaxConcurrent
    /\ \A t \in Tasks : w[t].pc \in Pcs /\ w[t].good <= w[t].begun /\ w[t].begun <= Ops
    /\ proc \in [Tasks -> {"none", "live", "dead"}] /\ held \in [Tasks -> BOOLEAN]

\* A batch that is alone never meets the limit on processes: it has no more
\* workers than permits, and each worker gives its permit back before the next
\* task takes its place, through restarts, crashes and failed starts.
NeverDenied ==
    \A t \in Tasks : w[t].pc = "run" /\ ~IsAlive(t) => Permit(t)

\* No Vivado is started in a session where another one runs, be it another
\* worker's or one that an earlier command has left.  (Another worker's only
\* where a plan gives two tasks one session, which needs NamedSessions.)
OneVivadoPerSession ==
    [][\A t \in Tasks : proc[t] # "live" /\ proc'[t] = "live"
                            => ~PidAlive(pidOf[w[t].session])]_vars

\* Eviction takes the least recently used: never a session a worker is using,
\* although the workers list, evict and create at the same time from lists that
\* are out of date.
EvictsNoneInUse ==
    \A t \in Active : w[t].session # NoName => w[t].session \in OnDisk

\* Exit code 0 means that every task has done all its operations, but for those
\* marked expected_fail, which ran and did not all succeed.
ExitCode == IF \A t \in Tasks : ~Unexpected(result[t]) THEN 0 ELSE 1
ExitHonest ==
    main = "done" /\ ExitCode = 0 =>
        \A t \in Tasks : \/ w[t].good = Ops
                         \/ t \in ExpectedFail /\ result[t].kind = "ran"

\* After an unexpected failure the other policies than continue run no task of
\* a later round, whichever result of the round came last.
SparesLater ==
    main = "done" /\ plan.policy # "continue" =>
        \A s, t \in Tasks : RoundOf(s) < RoundOf(t) /\ Unexpected(result[s])
                              => w[t].begun = 0 /\ w[t].session = NoName

\* A finished batch has no process left and all its permits back, and of the
\* sessions it made only those of its last round.
AllGivenBack ==
    main = "done" => sem = MaxConcurrent /\ \A t \in Tasks : proc[t] = "none" /\ ~held[t]
NothingLeft ==
    /\ AllGivenBack
    /\ main = "done" => \A t \in Tasks : RoundOf(t) < round => NewName(t) \notin OnDisk

\* The batch ends, whatever its commands do.
BatchEnds == <>(main = "done")
=============================================================================
