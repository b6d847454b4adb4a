--------------------------- MODULE VivadoSession ---------------------------
(***************************************************************************)
(* The Session objects of tools/vivado_core/session.py and what they run:  *)
(* Vivado processes with a pipe for their commands and one for their       *)
(* output, the reader threads that move the output into a queue, and the   *)
(* semaphore that limits the processes.                                    *)
(*                                                                         *)
(* An object is what Session(...) returns; several may stand for the same  *)
(* session, that is for the same directory and the same .session.yaml.     *)
(* Calls on one object follow each other.  A line of output is the command *)
(* it belongs to and its kind; the kind "end" is the end marker execute()  *)
(* has Vivado print.                                                       *)
(*                                                                         *)
(* Killing Vivado leaves what it has spawned (xelab, xsim) to end in its   *)
(* own time: such a process is orphaned, its pipe stays open and may still *)
(* carry lines.  Settled is an assumption about the machine, not something *)
(* the code ensures: before an object spawns its next process, what is     *)
(* left of the last one has ended and its reader has reached the end of    *)
(* the pipe.                                                               *)
(***************************************************************************)
EXTENDS Naturals, Sequences, FiniteSets, Functions

CONSTANTS
    Sessions,       \* directories under project/
    Objects,        \* identities of Session objects
    Pids,           \* identities of Vivado processes
    Cmds,           \* identities of commands
    None,           \* no object, no process, no command, no session
    MaxConcurrent,  \* limits.max_concurrent
    MaxLines,       \* bound on the lines one command prints before its marker
    Settled
ASSUME SessionAssumption ==
    /\ MaxConcurrent \in Nat \ {0}
    /\ MaxLines \in Nat
    /\ Settled \in BOOLEAN
    /\ None \notin Sessions \cup Objects \cup Pids \cup Cmds
ASSUME SessionFinite == IsFiniteSet(Objects)

VARIABLES
    sem,        \* permits left in _concurrent_sem
    of,         \* the session each object stands for
    handle,     \* _process
    held,       \* _sem_held
    known,      \* meta.vivado_pid
    queue,      \* _stdout_q
    disk,       \* .session.yaml: there, its vivado_pid, its status is "busy"
    proc,       \* each process: unborn, live, orphaned or dead
    stdin,      \* commands written to it and not finished
    pipe,       \* lines it has printed that no reader has taken
    reader,     \* what the reader thread started with it does
    call,       \* the call in progress on an object
    result,     \* what the last call on it returned
    printed     \* every line a command has printed (history)

procVars == <<proc, stdin, pipe, printed>>
metaVars == <<of, known, disk>>
vars == <<sem, of, handle, held, known, queue, disk, proc, stdin, pipe,
          reader, call, result, printed>>

Line     == [cmd : Cmds, kind : {"text", "error", "end"}]
Marker(c) == [cmd |-> c, kind |-> "end"]
Idle     == [pc |-> "idle", cmd |-> None, lines |-> <<>>]
NoResult == [kind |-> "none", cmd |-> None, lines |-> <<>>, ok |-> FALSE]
\* A reader is blocked on the pipe "on", or holds the line it has taken.
Gone     == [on |-> None, line |-> <<>>, owner |-> None]
NoFile   == [there |-> FALSE, pid |-> None, busy |-> FALSE]

Result(kind, c) == [kind |-> kind, cmd |-> c, lines |-> <<>>, ok |-> FALSE]

Init ==
    /\ sem = MaxConcurrent
    /\ of = [o \in Objects |-> None] /\ handle = [o \in Objects |-> None]
    /\ held = [o \in Objects |-> FALSE] /\ known = [o \in Objects |-> None]
    /\ queue = [o \in Objects |-> <<>>]
    /\ disk = [s \in Sessions |-> NoFile]
    /\ proc = [p \in Pids |-> "unborn"]
    /\ stdin = [p \in Pids |-> <<>>] /\ pipe = [p \in Pids |-> <<>>]
    /\ reader = [p \in Pids |-> Gone]
    /\ call = [o \in Objects |-> Idle]
    /\ result = [o \in Objects |-> NoResult]
    /\ printed = [c \in Cmds |-> <<>>]

-----------------------------------------------------------------------------
IsAlive(o) ==
    IF handle[o] # None THEN proc[handle[o]] = "live"
    ELSE known[o] # None /\ proc[known[o]] = "live"

Runs(o) == handle[o] # None /\ proc[handle[o]] = "live"

Born(o) == of[o] # None

\* save_meta: the directory comes back if it was removed meanwhile.
Saved(o, pid, busy) ==
    disk' = [disk EXCEPT ![of[o]] = [there |-> TRUE, pid |-> pid, busy |-> busy]]

Finish(o, r) == call' = [call EXCEPT ![o] = Idle] /\ result' = [result EXCEPT ![o] = r]
Goto(o, pc)  == call' = [call EXCEPT ![o].pc = pc]

\* The readers that would put what they read into the queue of o.
ReadersOf(o) == {p \in Pids : reader[p] # Gone /\ reader[p].owner = o}

-----------------------------------------------------------------------------
(***************************************************************************)
(* Objects.                                                                *)
(***************************************************************************)
NewObject(o, s, pid) ==
    /\ of' = [of EXCEPT ![o] = s]
    /\ known' = [known EXCEPT ![o] = pid]
    /\ UNCHANGED <<sem, handle, held, queue, procVars, reader, call, result>>

Unborn == {o \in Objects : of[o] = None}
NextObject == CHOOSE o \in Unborn : TRUE

CreateSession(s) ==
    /\ Unborn # {}
    /\ ~disk[s].there
    /\ disk' = [disk EXCEPT ![s] = [there |-> TRUE, pid |-> None, busy |-> FALSE]]
    /\ NewObject(NextObject, s, None)

\* A front end takes a fresh object for a session that exists.
LoadSession(s) ==
    /\ Unborn # {}
    /\ disk[s].there
    /\ NewObject(NextObject, s, disk[s].pid)
    /\ UNCHANGED disk

\* destroy_session works on a fresh object, whose _process is None: nothing
\* is stopped, the directory goes.
DestroySession(s) ==
    /\ disk[s].there
    /\ disk' = [disk EXCEPT ![s] = NoFile]
    /\ UNCHANGED <<sem, of, handle, held, known, queue, procVars, reader, call, result>>

-----------------------------------------------------------------------------
(***************************************************************************)
(* execute(), with the start and the stop it makes.                        *)
(***************************************************************************)
\* Markers are unique: a command is new as long as nothing anywhere is its own.
LinesAbout(o) == Range(queue[o]) \cup Range(call[o].lines) \cup Range(result[o].lines)
LinesFrom(p)  == Range(pipe[p]) \cup Range(reader[p].line)
Seen ==
    (UNION {Range(stdin[p]) \cup {l.cmd : l \in LinesFrom(p)} : p \in Pids})
    \cup (UNION {{call[o].cmd, result[o].cmd} \cup {l.cmd : l \in LinesAbout(o)} : o \in Objects})
Unused == {c \in Cmds : printed[c] = <<>> /\ c \notin Seen}

Ask(o) ==
    /\ Born(o) /\ call[o].pc = "idle" /\ Unused # {}
    /\ call' = [call EXCEPT ![o] =
                  [pc |-> IF IsAlive(o) THEN "write" ELSE "start",
                   cmd |-> CHOOSE c \in Unused : TRUE, lines |-> <<>>]]
    /\ result' = [result EXCEPT ![o] = NoResult]
    /\ UNCHANGED <<sem, handle, held, metaVars, queue, procVars, reader>>

\* Slip: the permits are not counted at all.
PermittedAlways(o) == TRUE
Permitted(o) == held[o] \/ sem > 0

StartRefused(o) ==
    /\ call[o].pc = "start"
    /\ ~Permitted(o)
    /\ Finish(o, Result("refused", call[o].cmd))
    /\ UNCHANGED <<sem, handle, held, metaVars, queue, procVars, reader>>

\* Slip: a permit that is not held is given back.
ReleasedAlways(o) == sem' = sem + 1 /\ held' = [held EXCEPT ![o] = FALSE]
\* Slip: the permit is forgotten, not given back.
ReleasedNot(o) == sem' = sem /\ held' = [held EXCEPT ![o] = FALSE]
Released(o) == sem' = (IF held[o] THEN sem + 1 ELSE sem) /\ held' = [held EXCEPT ![o] = FALSE]

MayPopen(o) == Settled => ReadersOf(o) = {}

\* Popen raises: the permit, whenever it was taken, goes back.
StartFailed(o) ==
    /\ call[o].pc = "start"
    /\ Permitted(o)
    /\ MayPopen(o)
    /\ Released(o)
    /\ Finish(o, Result("failed", call[o].cmd))
    /\ UNCHANGED <<handle, metaVars, queue, procVars, reader>>

\* Slip: the queue of the process before is kept.
FreshQueueNot(o) == queue' = queue
FreshQueue(o) == queue' = [queue EXCEPT ![o] = <<>>]

UnbornPids == {p \in Pids : proc[p] = "unborn"}

Start(o) ==
    /\ call[o].pc = "start"
    /\ Permitted(o)
    /\ MayPopen(o)
    /\ disk[of[o]].there     \* the directory it is started in
    /\ UnbornPids # {}
    /\ LET p == CHOOSE q \in UnbornPids : TRUE IN
         /\ handle' = [handle EXCEPT ![o] = p]
         /\ known' = [known EXCEPT ![o] = p]
         /\ proc' = [proc EXCEPT ![p] = "live"]
         /\ reader' = [reader EXCEPT ![p] = [on |-> p, line |-> <<>>, owner |-> o]]
         /\ Saved(o, p, FALSE)
    /\ sem' = IF held[o] THEN sem ELSE sem - 1
    /\ held' = [held EXCEPT ![o] = TRUE]
    /\ FreshQueue(o)
    /\ Goto(o, "write")
    /\ UNCHANGED <<of, stdin, pipe, printed, result>>

\* Status "busy" is on disk before the handle is looked at.  An object that
\* was loaded while another one's process lives has none; a process that has
\* died since the check breaks the pipe.  Neither puts the status back.
WriteFails(o) ==
    /\ call[o].pc = "write"
    /\ ~Runs(o)
    /\ Saved(o, known[o], TRUE)
    /\ Finish(o, Result("raised", call[o].cmd))
    /\ UNCHANGED <<sem, of, handle, held, known, queue, procVars, reader>>

Write(o) ==
    /\ call[o].pc = "write"
    /\ Runs(o)
    /\ Saved(o, known[o], TRUE)
    /\ stdin' = [stdin EXCEPT ![handle[o]] = Append(@, call[o].cmd)]
    /\ Goto(o, "read")
    /\ UNCHANGED <<sem, of, handle, held, known, queue, proc, pipe, printed, reader, result>>

TakeLine(o) ==
    /\ call[o].pc = "read"
    /\ queue[o] # <<>>
    /\ queue' = [queue EXCEPT ![o] = Tail(@)]

CollectLine(o) ==
    /\ TakeLine(o)
    /\ Head(queue[o]) # Marker(call[o].cmd)
    /\ call' = [call EXCEPT ![o].lines = Append(@, Head(queue[o]))]
    /\ UNCHANGED <<sem, handle, held, metaVars, procVars, reader, result>>

NoError(lines) == \A i \in DOMAIN lines : lines[i].kind # "error"

Answer(o) ==
    /\ TakeLine(o)
    /\ Head(queue[o]) = Marker(call[o].cmd)
    /\ Saved(o, known[o], FALSE)
    /\ Finish(o, [kind |-> "done", cmd |-> call[o].cmd, lines |-> call[o].lines,
                  ok |-> NoError(call[o].lines)])
    /\ UNCHANGED <<sem, of, handle, held, known, procVars, reader>>

\* Slip: the wait for a line has no timeout.
TimeoutOnLine(o) ==
    /\ call[o].pc = "read" /\ queue[o] # <<>>
    /\ Saved(o, known[o], FALSE)
    /\ Goto(o, "stop")
    /\ UNCHANGED <<sem, of, handle, held, known, queue, procVars, reader, result>>
Timeout(o) ==
    /\ call[o].pc = "read"
    /\ Saved(o, known[o], FALSE)
    /\ Goto(o, "stop")
    /\ UNCHANGED <<sem, of, handle, held, known, queue, procVars, reader, result>>

\* Slip: the process is let go of and lives on.
EndedNot(p) == UNCHANGED <<proc, stdin>>
Ended(p) == proc' = [proc EXCEPT ![p] = "dead"] /\ stdin' = [stdin EXCEPT ![p] = <<>>]

\* stop_vivado on an object that has a handle: quit, wait, kill; the handle
\* and the permit go.  Killed in the middle of a command, Vivado may leave
\* the children that run it.
Stopped(o) ==
    LET p == handle[o] IN
    /\ \/ Ended(p)
       \/ Runs(o) /\ stdin[p] # <<>>
          /\ proc' = [proc EXCEPT ![p] = "orphaned"] /\ UNCHANGED stdin
    /\ handle' = [handle EXCEPT ![o] = None]
    /\ known' = [known EXCEPT ![o] = None]
    /\ Released(o)
    /\ Saved(o, None, FALSE)
    /\ UNCHANGED <<of, queue, pipe, printed, reader>>

\* Slip: the process is kept for the next command.
StopAfterTimeoutNot(o) ==
    /\ call[o].pc = "stop"
    /\ Finish(o, Result("timeout", call[o].cmd))
    /\ UNCHANGED <<sem, handle, held, metaVars, queue, procVars, reader>>
StopAfterTimeout(o) ==
    /\ call[o].pc = "stop"
    /\ Stopped(o)
    /\ Finish(o, Result("timeout", call[o].cmd))

\* The caller's own stop_vivado between two commands (a batch worker's last
\* step, sim()'s restart).
StopVivado(o) ==
    /\ Born(o) /\ call[o].pc = "idle" /\ handle[o] # None
    /\ Stopped(o)
    /\ UNCHANGED <<call, result>>

-----------------------------------------------------------------------------
(***************************************************************************)
(* The process and the readers.                                            *)
(***************************************************************************)
Busy(p) == stdin[p] # <<>>
Current(p) == Head(stdin[p])

Emit(p, kind) ==
    /\ Busy(p)
    /\ Len(printed[Current(p)]) < MaxLines
    /\ LET line == [cmd |-> Current(p), kind |-> kind] IN
         /\ pipe' = [pipe EXCEPT ![p] = Append(@, line)]
         /\ printed' = [printed EXCEPT ![Current(p)] = Append(@, line)]
    /\ UNCHANGED <<sem, handle, held, metaVars, queue, proc, stdin, reader, call, result>>

EmitMarker(p) ==
    /\ Busy(p) /\ proc[p] = "live"
    /\ pipe' = [pipe EXCEPT ![p] = Append(@, Marker(Current(p)))]
    /\ stdin' = [stdin EXCEPT ![p] = Tail(@)]
    /\ UNCHANGED <<sem, handle, held, metaVars, queue, proc, printed, reader, call, result>>

Ends(p) == Ended(p) /\ UNCHANGED <<sem, handle, held, metaVars, queue, pipe, printed,
                                    reader, call, result>>
Crash(p)     == proc[p] = "live" /\ Ends(p)
OrphanEnds(p) == proc[p] = "orphaned" /\ Ends(p)

Waiting(r) == reader[r] # Gone /\ reader[r].line = <<>>

ReadLine(r) ==
    /\ Waiting(r)
    /\ LET p == reader[r].on IN
         /\ pipe[p] # <<>>
         /\ reader' = [reader EXCEPT ![r].line = <<Head(pipe[p])>>]
         /\ pipe' = [pipe EXCEPT ![p] = Tail(@)]
    /\ UNCHANGED <<sem, handle, held, metaVars, queue, proc, stdin, printed, call, result>>

\* The line goes into whatever queue the object has by now, and the loop goes
\* on with whatever process it has by now; with none, the thread dies.
PutLine(r) ==
    /\ reader[r] # Gone /\ reader[r].line # <<>>
    /\ LET o == reader[r].owner IN
         /\ queue' = [queue EXCEPT ![o] = Append(@, Head(reader[r].line))]
         /\ reader' = [reader EXCEPT ![r] =
                         IF handle[o] = None THEN Gone
                         ELSE [on |-> handle[o], line |-> <<>>, owner |-> o]]
    /\ UNCHANGED <<sem, handle, held, metaVars, procVars, call, result>>

\* The end of the pipe ends the thread; nothing tells execute().
EndOfFile(r) ==
    /\ Waiting(r)
    /\ proc[reader[r].on] = "dead" /\ pipe[reader[r].on] = <<>>
    /\ reader' = [reader EXCEPT ![r] = Gone]
    /\ UNCHANGED <<sem, handle, held, metaVars, queue, procVars, call, result>>

-----------------------------------------------------------------------------
Step(o) ==
    \/ StartRefused(o) \/ StartFailed(o) \/ Start(o)
    \/ WriteFails(o) \/ Write(o)
    \/ CollectLine(o) \/ Answer(o)
    \/ Timeout(o) \/ StopAfterTimeout(o)

Reads(r) == ReadLine(r) \/ PutLine(r) \/ EndOfFile(r)

Next ==
    \/ \E s \in Sessions : CreateSession(s) \/ LoadSession(s) \/ DestroySession(s)
    \/ \E o \in Objects : Ask(o) \/ Step(o) \/ StopVivado(o)
    \/ \E p \in Pids : \/ \E kind \in {"text", "error"} : Emit(p, kind)
                       \/ EmitMarker(p) \/ Crash(p) \/ OrphanEnds(p) \/ Reads(p)

Spec == Init /\ [][Next]_vars

\* Threads that can run do run; a wait with a timeout ends; what a killed Vivado
\* leaves ends.  A live Vivado owes nothing, and nobody has to ask.
Fairness == /\ \A o \in Objects : WF_vars(Step(o))
            /\ \A p \in Pids : WF_vars(Reads(p)) /\ WF_vars(OrphanEnds(p))
FairSpec == Spec /\ Fairness

-----------------------------------------------------------------------------
CmdOrNone == Cmds \cup {None}
Calls   == [pc : {"idle", "start", "write", "read", "stop"}, cmd : CmdOrNone, lines : Seq(Line)]
Results == [kind : {"none", "refused", "failed", "raised", "done", "timeout"},
            cmd : CmdOrNone, lines : Seq(Line), ok : BOOLEAN]
Readers == {Gone} \cup [on : Pids, line : Seq(Line), owner : Objects]
\* The counter of permits, the objects, the processes and what travels between
\* them have the types their uses assume.
TypeOK ==
    /\ sem \in 0..MaxConcurrent
    /\ of \in [Objects -> Sessions \cup {None}]
    /\ handle \in [Objects -> Pids \cup {None}]
    /\ known \in [Objects -> Pids \cup {None}]
    /\ held \in [Objects -> BOOLEAN]
    /\ disk \in [Sessions -> [there : BOOLEAN, pid : Pids \cup {None}, busy : BOOLEAN]]
    /\ proc \in [Pids -> {"unborn", "live", "orphaned", "dead"}]
    /\ queue \in [Objects -> Seq(Line)]
    /\ call \in [Objects -> Calls] /\ result \in [Objects -> Results]
    /\ stdin \in [Pids -> Seq(Cmds)] /\ pipe \in [Pids -> Seq(Line)]
    /\ reader \in [Pids -> Readers] /\ printed \in [Cmds -> Seq(Line)]

\* Every live Vivado is the process of an object that holds a permit, whatever
\* was reloaded, destroyed, timed out or crashed meanwhile: the number of
\* processes is bounded because each has a permit of its own, and a process
\* nobody can stop any more keeps the permit it was started with.
LiveHasPermit ==
    \A p \in Pids : proc[p] = "live" => \E o \in Objects : handle[o] = p /\ held[o]

\* The permits are conserved through starts that fail, timeouts and restarts.
PermitsConserved == sem + Cardinality({o \in Objects : held[o]}) = MaxConcurrent

\* No command is ever written to a process that has not answered the one before:
\* a command that timed out took its process with it.
OneAtATime == \A p \in Pids : Len(stdin[p]) <= 1

\* A finished command returned all the lines it printed, in order, and none of
\* another command; so its verdict is about itself.
OwnOutput ==
    \A o \in Objects : result[o].kind = "done" =>
        /\ result[o].lines = printed[result[o].cmd]
        /\ result[o].ok <=> NoError(printed[result[o].cmd])

\* What ExecuteResult.success documents: "True if the command completed without
\* a Vivado-reported error".  It is the verdict half of OwnOutput.
VerdictIsOwn ==
    \A o \in Objects :
        result[o].kind = "done" => (result[o].ok <=> NoError(printed[result[o].cmd]))

\* Every call ends, with an answer or without, however the process behaves.
CommandEnds == \A o \in Objects : call[o].pc # "idle" ~> call[o].pc = "idle"

Pool == INSTANCE PermitPool WITH Users <- Objects, Limit <- MaxConcurrent,
                                 holders <- {o \in Objects : held[o]}
KeepsToPool == Pool!Spec
=============================================================================
