------------------------- MODULE SessionOutputProofs -------------------------
(***************************************************************************)
(* A command that is answered returns what it printed: all of it, in       *)
(* order, and nothing of another command.  For any number of sessions,     *)
(* objects, processes and commands and outputs of any length, with the     *)
(* assumption Settled (what a stopped Vivado leaves has ended before its   *)
(* object starts the next).                                                *)
(*                                                                         *)
(* What a call has collected, what waits in its queue, what the reader     *)
(* holds and what is in the pipe make one sequence, Stream.  A step moves  *)
(* a line along it or adds one at its end, and then the command has        *)
(* printed that line.                                                      *)
(***************************************************************************)
EXTENDS SessionOrderProofs, SequenceTheorems

\* The lines on their way to the call on o, and with those it has collected.
Coming(o) == queue[o] \o (reader[handle[o]].line \o pipe[handle[o]])
Stream(o) == call[o].lines \o Coming(o)

\* They are what the command has printed so far, or all of it and the marker.
Answering(o) ==
    LET c == call[o].cmd IN
    \/ Stream(o) = printed[c]
    \/ Stream(o) = Append(printed[c], Marker(c)) /\ \A p \in Pids : ~WaitsAt(c, p)

\* A reader stays with its process, which is that of its owner or of nobody.
ReadersKeep == \A r \in Pids : reader[r] # Gone =>
                   /\ reader[r].on = r /\ Len(reader[r].line) <= 1
                   /\ handle[reader[r].owner] \in {r, None}
OwnReader == \A o \in Objects : handle[o] # None =>
                 reader[handle[o]] = Gone \/ reader[handle[o]].owner = o
UnbornMute == \A p \in Pids : proc[p] = "unborn" => pipe[p] = <<>>
\* A call that reads has a process, and its command waits at no other.
ReadsItsOwn == \A o \in Objects : call[o].pc = "read" =>
                   /\ handle[o] # None /\ Answering(o)
                   /\ \A p \in Pids : WaitsAt(call[o].cmd, p) => p = handle[o]
\* Between commands nothing is on its way.
Quiet(o) == queue[o] = <<>> /\ reader[handle[o]].line = <<>> /\ pipe[handle[o]] = <<>>
QuietBetween == \A o \in Objects :
                    handle[o] # None /\ call[o].pc \in {"idle", "start", "write"} => Quiet(o)
NotPrintedYet == \A o \in Objects : call[o].pc \in {"start", "write"} =>
                     printed[call[o].cmd] = <<>> /\ call[o].lines = <<>>
NoMarkerPrinted == \A c \in Cmds : \A i \in 1 .. Len(printed[c]) : printed[c][i].kind # "end"
\* A command that was answered is not asked again and prints nothing more.
Past(o) == /\ result[o].cmd \in Cmds
           /\ \A x \in Objects : call[x].cmd # result[o].cmd
           /\ \A p \in Pids : ~WaitsAt(result[o].cmd, p)
PastForGood == \A o \in Objects : result[o].kind = "done" => Past(o)

OutputInv == /\ ReadersKeep /\ OwnReader /\ UnbornMute /\ ReadsItsOwn /\ QuietBetween
             /\ NotPrintedYet /\ NoMarkerPrinted /\ PastForGood /\ OwnOutput

-----------------------------------------------------------------------------
(***************************************************************************)
(* Sequences of lines.                                                     *)
(***************************************************************************)
LEMMA HeadTail ==
    ASSUME NEW t \in Seq(Line), t # <<>>
    PROVE  <<Head(t)>> \o Tail(t) = t /\ <<>> \o t = t
<1>1. Head(t) \in Line /\ Tail(t) \in Seq(Line) /\ <<Head(t)>> \in Seq(Line)
  OBVIOUS
<1>2. Len(<<Head(t)>> \o Tail(t)) = Len(t)
  BY <1>1
<1>3. \A i \in 1 .. Len(t) : (<<Head(t)>> \o Tail(t))[i] = t[i]
  BY <1>1
<1>4. <<Head(t)>> \o Tail(t) \in Seq(Line)
  BY <1>1
<1> QED BY <1>2, <1>3, <1>4, SeqEqual, ConcatEmptySeq

LEMMA ConcatLines ==
    ASSUME NEW s \in Seq(Line), NEW t \in Seq(Line)
    PROVE  s \o t \in Seq(Line)
OBVIOUS

\* Names for the equations, so that no prover rewrites with them.
Regroups(s, t, u) == (s \o t) \o u = s \o (t \o u)
Passes(s, h, v, u) == (s \o h) \o (v \o u) = s \o ((h \o v) \o u)

LEMMA Associates ==
    ASSUME NEW s \in Seq(Line), NEW t \in Seq(Line), NEW u \in Seq(Line)
    PROVE  Regroups(s, t, u)
BY ConcatAssociative DEF Regroups

LEMMA RegroupsTwice ==
    ASSUME NEW s \in Seq(Line), NEW h \in Seq(Line), NEW v \in Seq(Line), NEW u \in Seq(Line)
    PROVE  Passes(s, h, v, u)
<1>1. v \o u \in Seq(Line)
  BY ConcatLines
<1>2. Regroups(s, h, v \o u)
  BY <1>1, Associates, Zenon
<1>3. Regroups(h, v, u)
  BY Associates, Zenon
<1> QED BY <1>2, <1>3, Zenon DEF Regroups, Passes

\* The first of t goes to the end of s.
LEMMA Shift ==
    ASSUME NEW s \in Seq(Line), NEW t \in Seq(Line), t # <<>>, NEW u \in Seq(Line)
    PROVE  Append(s, Head(t)) \o (Tail(t) \o u) = s \o (t \o u)
<1>1. Head(t) \in Line /\ Tail(t) \in Seq(Line) /\ <<Head(t)>> \in Seq(Line)
  OBVIOUS
<1>2. Append(s, Head(t)) = s \o <<Head(t)>>
  BY <1>1, AppendIsConcat
<1>3. <<Head(t)>> \o Tail(t) = t
  BY HeadTail
<1>4. Passes(s, <<Head(t)>>, Tail(t), u)
  BY <1>1, RegroupsTwice, Zenon
<1> QED BY <1>2, <1>3, <1>4, Zenon DEF Passes

\* A line is added at the end.
LEMMA Grow ==
    ASSUME NEW s \in Seq(Line), NEW t \in Seq(Line), NEW e \in Line
    PROVE  s \o Append(t, e) = Append(s \o t, e)
<1>1. <<e>> \in Seq(Line) /\ s \o t \in Seq(Line)
  OBVIOUS
<1>2. Append(t, e) = t \o <<e>> /\ Append(s \o t, e) = (s \o t) \o <<e>>
  BY <1>1, AppendIsConcat
<1> QED BY <1>1, <1>2, ConcatAssociative

Lacks(d, m) == \A i \in 1 .. Len(d) : d[i] # m

\* Where the marker comes first, the lines before it are all the lines.
LEMMA Cut ==
    ASSUME NEW l \in Seq(Line), NEW q \in Seq(Line), NEW d \in Seq(Line), NEW m \in Line,
           q # <<>>, Head(q) = m, Lacks(d, m),
           l \o q = d \/ l \o q = Append(d, m)
    PROVE  l = d /\ q = <<m>>
<1>1. Len(l) \in Nat /\ Len(q) \in Nat /\ Len(q) > 0 /\ q[1] = m
  OBVIOUS
<1>2. (l \o q)[Len(l) + 1] = m /\ Len(l \o q) = Len(l) + Len(q)
  BY <1>1
<1>3. Len(d) \in Nat
  OBVIOUS
<1>4. l \o q # d
  <2> SUFFICES ASSUME l \o q = d PROVE FALSE
    OBVIOUS
  <2>1. Len(d) = Len(l) + Len(q) /\ d[Len(l) + 1] = m
    BY <1>2
  <2>2. Len(l) + 1 \in 1 .. Len(d)
    BY <1>1, <1>3, <2>1
  <2> QED BY <2>1, <2>2 DEF Lacks
<1>5. l \o q = Append(d, m) /\ Len(Append(d, m)) = Len(d) + 1
  <2>1. Len(Append(d, m)) = Len(d) + 1
    OBVIOUS
  <2> QED BY <1>4, <2>1, Zenon
<1>6. \A i \in 1 .. Len(d) : Append(d, m)[i] # m
  <2> SUFFICES ASSUME NEW i \in 1 .. Len(d) PROVE Append(d, m)[i] # m
    OBVIOUS
  <2>1. Append(d, m)[i] = d[i]
    OBVIOUS
  <2> QED BY <1>3, <2>1 DEF Lacks
<1>7. Len(l) = Len(d) /\ Len(q) = 1
  <2>1. Len(l) + Len(q) = Len(d) + 1 /\ Append(d, m)[Len(l) + 1] = m
    BY <1>2, <1>5
  <2>2. ~(Len(l) + 1 <= Len(d))
    BY <1>1, <1>3, <1>6, <2>1
  <2>3. \A x, y, z \in Nat : x + y = z + 1 /\ y > 0 /\ ~(x + 1 <= z) => x = z /\ y = 1
    OBVIOUS
  <2> QED BY <1>1, <1>3, <2>1, <2>2, <2>3, Zenon
<1>8. q = <<m>>
  BY <1>1, <1>7
<1>9. \A i \in 1 .. Len(l) : l[i] = d[i]
  <2> SUFFICES ASSUME NEW i \in 1 .. Len(l) PROVE l[i] = d[i]
    OBVIOUS
  <2>1. (l \o q)[i] = l[i]
    BY <1>1
  <2>2. Append(d, m)[i] = d[i]
    BY <1>7
  <2> QED BY <1>5, <2>1, <2>2
<1> QED BY <1>7, <1>8, <1>9, SeqEqual

LEMMA HeadStays ==
    ASSUME NEW s \in Seq(Line), s # <<>>, NEW t \in Seq(Line)
    PROVE  s \o t \in Seq(Line) /\ s \o t # <<>> /\ Head(s \o t) = Head(s)
<1>1. s \o t \in Seq(Line) /\ Len(s \o t) = Len(s) + Len(t) /\ Len(s) \in Nat \ {0} /\ Len(t) \in Nat
  OBVIOUS
<1>2. Len(s \o t) > 0 /\ (s \o t)[1] = s[1]
  BY <1>1
<1> QED BY <1>1, <1>2

\* A sequence of one line has it in its first part that is not empty.
LEMMA Lone ==
    ASSUME NEW s \in Seq(Line), s # <<>>, NEW t \in Seq(Line), NEW u \in Seq(Line), NEW m,
           s \o (t \o u) = <<m>>
    PROVE  Tail(s) = <<>> /\ t = <<>> /\ u = <<>>
<1>1. Len(s) \in Nat \ {0} /\ Len(t) \in Nat /\ Len(u) \in Nat
  OBVIOUS
<1>2. t \o u \in Seq(Line) /\ Len(t \o u) = Len(t) + Len(u)
  OBVIOUS
<1>3. Len(s \o (t \o u)) = Len(s) + (Len(t) + Len(u))
  <2>1. \A v \in Seq(Line) : Len(s \o v) = Len(s) + Len(v)
    OBVIOUS
  <2> QED BY <1>2, <2>1
<1>4. \A x \in Nat \ {0} : \A y, z \in Nat : x + (y + z) = 1 => x = 1 /\ y = 0 /\ z = 0
  OBVIOUS
<1>5. Len(s) = 1 /\ Len(t) = 0 /\ Len(u) = 0
  BY <1>1, <1>3, <1>4
<1> QED BY <1>5

-----------------------------------------------------------------------------
(***************************************************************************)
(* What the steps have in common.                                          *)
(***************************************************************************)
LEMMA OutputTypes ==
    ASSUME TypeOK, NEW o \in Objects
    PROVE  /\ call[o].lines \in Seq(Line) /\ queue[o] \in Seq(Line) /\ call[o].cmd \in CmdOrNone
           /\ \A p \in Pids : reader[p].line \in Seq(Line) /\ pipe[p] \in Seq(Line)
           /\ \A c \in Cmds : printed[c] \in Seq(Line)
<1>1. \A p \in Pids : reader[p].line \in Seq(Line)
  <2> SUFFICES ASSUME NEW p \in Pids PROVE reader[p].line \in Seq(Line)
    OBVIOUS
  <2>1. reader[p] \in Readers
    BY DEF TypeOK
  <2>2. <<>> \in Seq(Line)
    OBVIOUS
  <2>3. CASE reader[p] = Gone
    BY <2>2, <2>3 DEF Gone
  <2>4. CASE reader[p] \in [on : Pids, line : Seq(Line), owner : Objects]
    BY <2>4
  <2> QED BY <2>1, <2>3, <2>4 DEF Readers
<1> QED BY <1>1 DEF TypeOK, Calls

\* What waits anywhere waited there before, or is written by the step.
StdinKept == \A c : \A p \in Pids : WaitsAt(c, p)' => WaitsAt(c, p)

LEMMA StdinSame == ASSUME UNCHANGED stdin PROVE StdinKept
BY DEF StdinKept, WaitsAt

\* Output moves, calls stay: the parts of OutputInv about calls hold if the
\* streams of those that read do, and nothing reaches the others.
LEMMA FlowStep ==
    ASSUME TypeOK, CallsNamed, OrderInv, OutputInv,
           UNCHANGED <<call, handle, result>>, StdinKept,
           ReadersKeep', OwnReader', UnbornMute', NoMarkerPrinted',
           \A c \in Cmds : printed'[c] = printed[c] \/ \E p \in Pids : WaitsAt(c, p),
           \A o \in Objects : call[o].pc = "read" => Answering(o)',
           \A o \in Objects : handle[o] # None /\ call[o].pc \in {"idle", "start", "write"} => Quiet(o)'
    PROVE  OutputInv'
<1>1. ReadsItsOwn'
  BY DEF OutputInv, ReadsItsOwn, StdinKept
<1>2. QuietBetween'
  BY DEF QuietBetween
<1>3. NotPrintedYet'
  BY DEF OutputInv, NotPrintedYet, OrderInv, Unwritten, CallsNamed
<1>4. PastForGood'
  BY DEF OutputInv, PastForGood, Past, StdinKept
<1>5. OwnOutput'
  BY DEF OutputInv, OwnOutput, PastForGood, Past
<1> QED BY <1>1, <1>2, <1>3, <1>4, <1>5 DEF OutputInv

\* Nothing moves: a call takes a command that is new, ends or stops, a process
\* is let go of.
CallTurns(o) ==
    \/ call'[o] = call[o] /\ (call[o].pc = "read" => handle'[o] = handle[o])
    \/ call'[o].pc = "stop" /\ call'[o].cmd = call[o].cmd
    \/ call'[o].pc = "idle" /\ call'[o].cmd = None
       /\ (handle'[o] # None => call[o].pc \in {"start", "write"})
    \/ /\ call[o].pc = "idle" /\ call'[o].pc \in {"start", "write"}
       /\ call'[o].cmd \in Unused /\ call'[o].lines = <<>>

LEMMA ResultSeen == \A o \in Objects : result[o].cmd \in Seen
<1> DEFINE OfObject(x) == {call[x].cmd, result[x].cmd} \cup {l.cmd : l \in LinesAbout(x)}
           OfObjects == UNION {OfObject(x) : x \in Objects}
<1>1. OfObjects \subseteq Seen
  BY DEF Seen
<1>2. \A x \in Objects : OfObject(x) \subseteq OfObjects
  <2> HIDE DEF OfObject
  <2> QED OBVIOUS
<1>3. \A x \in Objects : result[x].cmd \in OfObject(x)
  OBVIOUS
<1> HIDE DEF OfObject, OfObjects
<1> QED BY <1>1, <1>2, <1>3

LEMMA TurnStep ==
    ASSUME TypeOK, CallsNamed, OrderInv, OutputInv,
           UNCHANGED <<queue, pipe, reader, printed>>, StdinKept,
           \A o \in Objects : /\ CallTurns(o) /\ handle'[o] \in {handle[o], None}
                              /\ result'[o] = result[o] \/ result'[o].kind # "done",
           \A p \in Pids : proc'[p] = "unborn" => proc[p] = "unborn"
    PROVE  OutputInv'
<1>1. ReadersKeep'
  <2> SUFFICES ASSUME NEW r \in Pids, reader[r] # Gone
               PROVE  /\ reader[r].on = r /\ Len(reader[r].line) <= 1
                      /\ handle'[reader[r].owner] \in {r, None}
    BY DEF ReadersKeep, Gone
  <2>1. reader[r].owner \in Objects
    BY DEF TypeOK, Readers
  <2> QED BY <2>1 DEF OutputInv, ReadersKeep
<1>2. OwnReader' /\ UnbornMute' /\ NoMarkerPrinted'
  BY DEF OutputInv, OwnReader, UnbornMute, NoMarkerPrinted, Gone
<1>3. ReadsItsOwn'
  <2> SUFFICES ASSUME NEW o \in Objects, call'[o].pc = "read"
               PROVE  /\ handle'[o] # None /\ Answering(o)'
                      /\ \A p \in Pids : WaitsAt(call[o].cmd, p)' => p = handle'[o]
    BY DEF ReadsItsOwn
  <2>1. call'[o] = call[o] /\ handle'[o] = handle[o]
    BY DEF CallTurns
  <2>2. Stream(o)' = Stream(o)
    BY <2>1 DEF Stream, Coming
  <2>3. call[o].pc = "read"
    BY <2>1
  <2>4. Answering(o)'
    BY <2>1, <2>2, <2>3 DEF Answering, OutputInv, ReadsItsOwn, StdinKept
  <2> QED BY <2>1, <2>3, <2>4 DEF OutputInv, ReadsItsOwn, StdinKept
<1>4. QuietBetween'
  <2> SUFFICES ASSUME NEW o \in Objects, handle'[o] # None, call'[o].pc \in {"idle", "start", "write"}
               PROVE  Quiet(o)'
    BY DEF QuietBetween
  <2>1. handle'[o] = handle[o]
    OBVIOUS
  <2>2. call[o].pc \in {"idle", "start", "write"}
    BY DEF CallTurns
  <2> QED BY <2>1, <2>2 DEF OutputInv, QuietBetween, Quiet
<1>5. NotPrintedYet'
  BY DEF OutputInv, NotPrintedYet, CallTurns, Unused
<1>6. PastForGood'
  <2> SUFFICES ASSUME NEW o \in Objects, result'[o].kind = "done"
               PROVE  Past(o)'
    BY DEF PastForGood
  <2>1. result'[o] = result[o] /\ Past(o)
    BY DEF OutputInv, PastForGood
  <2>2. \A x \in Objects : call'[x].cmd # result[o].cmd
    BY <2>1, ResultSeen, Constants DEF CallTurns, Unused, Past
  <2> QED BY <2>1, <2>2 DEF Past, StdinKept
<1>7. OwnOutput'
  BY DEF OutputInv, OwnOutput
<1> QED BY <1>1, <1>2, <1>3, <1>4, <1>5, <1>6, <1>7 DEF OutputInv

LEMMA OutputSame ==
    ASSUME TypeOK, CallsNamed, OrderInv, OutputInv,
           UNCHANGED <<handle, queue, stdin, pipe, reader, call, result, printed, proc>>
    PROVE  OutputInv'
BY StdinSame, TurnStep DEF CallTurns

LEMMA OutputAsk ==
    ASSUME TypeOK, CallsNamed, OrderInv, OutputInv, NEW o \in Objects, Ask(o)
    PROVE  OutputInv'
<1>1. \A x \in Objects : CallTurns(x)
  BY DEF Ask, TypeOK, CallTurns
<1>2. \A x \in Objects : result'[x] = result[x] \/ result'[x].kind # "done"
  BY DEF Ask, TypeOK, NoResult
<1> QED BY <1>1, <1>2, StdinSame, TurnStep DEF Ask, procVars

\* A call ends without an answer, and the process stays as it is.
LEMMA OutputFails ==
    ASSUME TypeOK, CallsNamed, OrderInv, OutputInv, NEW o \in Objects,
           StartRefused(o) \/ StartFailed(o) \/ WriteFails(o)
    PROVE  OutputInv'
<1>1. PICK k \in {"refused", "failed", "raised"} : Finish(o, Result(k, call[o].cmd))
  BY DEF StartRefused, StartFailed, WriteFails
<1>2. \A x \in Objects : CallTurns(x)
  BY <1>1 DEF StartRefused, StartFailed, WriteFails, Finish, TypeOK, Idle, CallTurns, procVars
<1>3. \A x \in Objects : result'[x] = result[x] \/ result'[x].kind # "done"
  BY <1>1 DEF Finish, TypeOK, Result
<1> QED BY <1>2, <1>3, StdinSame, TurnStep DEF StartRefused, StartFailed, WriteFails, procVars

LEMMA OutputTimeout ==
    ASSUME TypeOK, CallsNamed, OrderInv, OutputInv, NEW o \in Objects, Timeout(o)
    PROVE  OutputInv'
<1>1. \A x \in Objects : CallTurns(x)
  BY DEF Timeout, Goto, TypeOK, Calls, CallTurns
<1> QED BY <1>1, StdinSame, TurnStep DEF Timeout, procVars

LEMMA OutputStopped ==
    ASSUME TypeOK, CallsNamed, OrderInv, OutputInv, NEW o \in Objects,
           StopAfterTimeout(o) \/ StopVivado(o)
    PROVE  OutputInv'
<1>1. Stopped(o)
  BY DEF StopAfterTimeout, StopVivado
<1>2. handle'[o] = None /\ \A x \in Objects \ {o} : handle'[x] = handle[x]
  BY <1>1 DEF Stopped, TypeOK
<1>3. StdinKept /\ \A p \in Pids : proc'[p] = "unborn" => proc[p] = "unborn"
  <2>1. \A p \in Pids : stdin'[p] = stdin[p] \/ stdin'[p] = <<>>
    BY <1>1 DEF Stopped, Ended, TypeOK
  <2> QED BY <1>1, <2>1, RangeEmpty DEF Stopped, Ended, TypeOK, StdinKept, WaitsAt
<1>4. \A x \in Objects : /\ CallTurns(x)
                         /\ result'[x] = result[x] \/ result'[x].kind # "done"
  <2>1. CASE StopAfterTimeout(o)
    BY <1>2, <2>1 DEF StopAfterTimeout, Finish, TypeOK, Idle, Result, CallTurns
  <2>2. CASE StopVivado(o)
    BY <1>2, <2>2 DEF StopVivado, CallTurns
  <2> QED BY <2>1, <2>2
<1> QED BY <1>1, <1>2, <1>3, <1>4, TurnStep DEF Stopped

LEMMA OutputEnds ==
    ASSUME TypeOK, CallsNamed, OrderInv, OutputInv, NEW p \in Pids, Ends(p)
    PROVE  OutputInv'
<1>1. StdinKept /\ \A q \in Pids : proc'[q] = "unborn" => proc[q] = "unborn"
  <2>1. \A q \in Pids : stdin'[q] = stdin[q] \/ stdin'[q] = <<>>
    BY DEF Ends, Ended, TypeOK
  <2> QED BY <2>1, RangeEmpty DEF Ends, Ended, TypeOK, StdinKept, WaitsAt
<1> QED BY <1>1, TurnStep DEF Ends, CallTurns

-----------------------------------------------------------------------------
(***************************************************************************)
(* The steps of a call that begin and end its stream.                      *)
(***************************************************************************)
\* The new process has printed nothing, and the new queue is empty; with
\* Settled no old reader is left to fill it.
LEMMA OutputStart ==
    ASSUME TypeOK, LifeInv, CallsNamed, OrderInv, OutputInv, Settled, NEW o \in Objects, Start(o)
    PROVE  OutputInv'
<1>1. PICK p \in UnbornPids :
          /\ handle' = [handle EXCEPT ![o] = p]
          /\ proc' = [proc EXCEPT ![p] = "live"]
          /\ reader' = [reader EXCEPT ![p] = [on |-> p, line |-> <<>>, owner |-> o]]
  BY DEF Start
<1>2. p \in Pids /\ proc[p] = "unborn" /\ pipe[p] = <<>>
  BY DEF UnbornPids, OutputInv, UnbornMute
<1>3. handle'[o] = p /\ \A x \in Objects \ {o} : handle'[x] = handle[x] /\ handle[x] # p
  BY <1>1, <1>2, Constants DEF TypeOK, LifeInv, HandlesBorn
<1>4. UNCHANGED <<stdin, pipe, printed, result>> /\ StdinKept
  BY StdinSame DEF Start
<1>5. queue'[o] = <<>> /\ \A x \in Objects \ {o} : queue'[x] = queue[x]
  BY DEF Start, FreshQueue, TypeOK
<1>6. /\ reader'[p].line = <<>> /\ reader'[p].on = p /\ reader'[p].owner = o
      /\ \A q \in Pids \ {p} : reader'[q] = reader[q]
  BY <1>1, <1>2 DEF TypeOK
<1>7. /\ call[o].pc = "start" /\ call'[o].pc = "write" /\ call'[o].cmd = call[o].cmd
      /\ call'[o].lines = call[o].lines
      /\ \A x \in Objects \ {o} : call'[x] = call[x]
  BY DEF Start, Goto, TypeOK, Calls
<1>8. \A r \in Pids : reader[r] # Gone => reader[r].owner # o
  BY DEF Start, MayPopen, ReadersOf
<1>9. ReadersKeep'
  <2> SUFFICES ASSUME NEW r \in Pids, reader'[r] # Gone
               PROVE  /\ reader'[r].on = r /\ Len(reader'[r].line) <= 1
                      /\ handle'[reader'[r].owner] \in {r, None}
    BY DEF ReadersKeep, Gone
  <2>1. CASE r = p
    BY <1>3, <1>6, <2>1
  <2>2. CASE r # p
    <3>1. reader'[r] = reader[r] /\ reader[r] # Gone
      BY <1>6, <2>2 DEF Gone
    <3>2. reader[r].owner \in Objects \ {o}
      BY <1>8, <3>1 DEF TypeOK, Readers
    <3> QED BY <1>3, <3>1, <3>2 DEF OutputInv, ReadersKeep
  <2> QED BY <2>1, <2>2
<1>10. OwnReader'
  <2> SUFFICES ASSUME NEW x \in Objects, handle'[x] # None
               PROVE  reader'[handle'[x]] = Gone \/ reader'[handle'[x]].owner = x
    BY DEF OwnReader, Gone
  <2>1. CASE x = o
    BY <1>3, <1>6, <2>1
  <2>2. CASE x # o
    <3>1. handle'[x] = handle[x] /\ handle[x] \in Pids \ {p}
      BY <1>3, <2>2 DEF TypeOK
    <3> QED BY <1>6, <3>1 DEF OutputInv, OwnReader
  <2> QED BY <2>1, <2>2
<1>11. UnbornMute' /\ NoMarkerPrinted'
  BY <1>1, <1>4 DEF OutputInv, UnbornMute, NoMarkerPrinted, TypeOK
<1>12. \A x \in Objects \ {o} : handle[x] # None =>
           /\ handle'[x] = handle[x] /\ queue'[x] = queue[x]
           /\ reader'[handle[x]] = reader[handle[x]] /\ pipe'[handle[x]] = pipe[handle[x]]
  BY <1>3, <1>4, <1>5, <1>6 DEF TypeOK
<1>13. ReadsItsOwn'
  <2> SUFFICES ASSUME NEW x \in Objects, call'[x].pc = "read"
               PROVE  /\ handle'[x] # None /\ Answering(x)'
                      /\ \A q \in Pids : WaitsAt(call[x].cmd, q)' => q = handle'[x]
    BY DEF ReadsItsOwn
  <2>1. x \in Objects \ {o} /\ call'[x] = call[x] /\ handle[x] # None
    BY <1>7 DEF OutputInv, ReadsItsOwn
  <2>2. Stream(x)' = Stream(x)
    BY <1>12, <2>1 DEF Stream, Coming
  <2>3. Answering(x)'
    BY <1>4, <2>1, <2>2 DEF Answering, OutputInv, ReadsItsOwn, StdinKept
  <2> QED BY <1>4, <1>12, <2>1, <2>3 DEF OutputInv, ReadsItsOwn, StdinKept
<1>14. QuietBetween'
  <2> SUFFICES ASSUME NEW x \in Objects, handle'[x] # None, call'[x].pc \in {"idle", "start", "write"}
               PROVE  Quiet(x)'
    BY DEF QuietBetween
  <2>1. CASE x = o
    BY <1>2, <1>3, <1>4, <1>5, <1>6, <2>1 DEF Quiet
  <2>2. CASE x # o
    <3>1. handle[x] # None /\ call[x].pc \in {"idle", "start", "write"}
      BY <1>3, <1>7, <2>2
    <3> QED BY <1>12, <2>2, <3>1 DEF OutputInv, QuietBetween, Quiet
  <2> QED BY <2>1, <2>2
<1>15. NotPrintedYet' /\ PastForGood' /\ OwnOutput'
  <2>1. \A x \in Objects : call'[x].cmd = call[x].cmd /\ call'[x].lines = call[x].lines
    BY <1>7
  <2>2. NotPrintedYet'
    BY <1>4, <1>7, <2>1 DEF OutputInv, NotPrintedYet
  <2>3. PastForGood'
    BY <1>4, <2>1 DEF OutputInv, PastForGood, Past, StdinKept
  <2> QED BY <1>4, <2>2, <2>3 DEF OutputInv, OwnOutput
<1> QED BY <1>9, <1>10, <1>11, <1>13, <1>14, <1>15 DEF OutputInv

\* The command starts with an empty stream.
LEMMA OutputWrite ==
    ASSUME TypeOK, CallsNamed, OrderInv, OutputInv, NEW o \in Objects, Write(o)
    PROVE  OutputInv'
<1>0. PICK c, p : c = call[o].cmd /\ p = handle[o]
  OBVIOUS
<1>1. /\ call[o].pc = "write" /\ call'[o].pc = "read" /\ call'[o].cmd = c
      /\ call'[o].lines = call[o].lines
      /\ \A x \in Objects \ {o} : call'[x] = call[x]
  BY <1>0 DEF Write, Goto, TypeOK, Calls
<1>2. c \in Cmds /\ p \in Pids /\ stdin[p] = <<>>
  BY <1>0, <1>1 DEF Write, Runs, TypeOK, CallsNamed, OrderInv, InHand
<1>3. UNCHANGED <<handle, proc, queue, pipe, reader, printed, result>>
  BY DEF Write
<1>4. \A d : \A q \in Pids : WaitsAt(d, q)' => WaitsAt(d, q) \/ (d = c /\ q = p)
  <2>1. stdin'[p] = <<c>> /\ \A q \in Pids \ {p} : stdin'[q] = stdin[q]
    <3>1. stdin'[p] = Append(<<>>, c)
      BY <1>0, <1>2 DEF Write, TypeOK
    <3> QED BY <1>0, <3>1 DEF Write, TypeOK
  <2> QED BY <1>2, <2>1, RangeOne DEF WaitsAt
<1>5. ReadersKeep' /\ OwnReader' /\ UnbornMute' /\ NoMarkerPrinted'
  BY <1>3 DEF OutputInv, ReadersKeep, OwnReader, UnbornMute, NoMarkerPrinted, Gone
<1>6. ReadsItsOwn'
  <2> SUFFICES ASSUME NEW x \in Objects, call'[x].pc = "read"
               PROVE  /\ handle'[x] # None /\ Answering(x)'
                      /\ \A q \in Pids : WaitsAt(call[x].cmd, q)' => q = handle'[x]
    BY DEF ReadsItsOwn
  <2>1. CASE x = o
    <3>1. Quiet(o) /\ printed[c] = <<>> /\ call[o].lines = <<>>
      BY <1>0, <1>1, <1>2, Constants DEF OutputInv, QuietBetween, NotPrintedYet
    <3>2. Stream(o)' = printed'[c]
      BY <1>1, <1>3, <3>1 DEF Quiet, Stream, Coming
    <3>3. \A q \in Pids : ~WaitsAt(c, q)
      BY <1>0, <1>1 DEF OrderInv, Unwritten
    <3> QED BY <1>0, <1>1, <1>2, <1>3, <1>4, <2>1, <3>2, <3>3, Constants DEF Answering
  <2>2. CASE x # o
    <3>1. call'[x] = call[x] /\ call[x].cmd # c
      BY <1>0, <1>1, <1>2, <2>2, Constants DEF OrderInv, CmdsApart
    <3>2. Stream(x)' = Stream(x)
      BY <1>3, <3>1 DEF Stream, Coming
    <3>3. \A q \in Pids : WaitsAt(call[x].cmd, q)' => WaitsAt(call[x].cmd, q)
      BY <1>4, <3>1
    <3>4. Answering(x)'
      BY <1>3, <3>1, <3>2, <3>3 DEF Answering, OutputInv, ReadsItsOwn
    <3> QED BY <1>3, <3>1, <3>3, <3>4 DEF OutputInv, ReadsItsOwn
  <2> QED BY <2>1, <2>2
<1>7. QuietBetween' /\ NotPrintedYet'
  BY <1>1, <1>3 DEF OutputInv, QuietBetween, Quiet, NotPrintedYet
<1>8. PastForGood' /\ OwnOutput'
  <2>1. \A x \in Objects : call'[x].cmd = call[x].cmd
    BY <1>0, <1>1
  <2>2. PastForGood'
    BY <1>0, <1>3, <1>4, <2>1 DEF OutputInv, PastForGood, Past
  <2> QED BY <1>3, <2>2 DEF OutputInv, OwnOutput
<1> QED BY <1>5, <1>6, <1>7, <1>8 DEF OutputInv

\* A line goes from the queue to those collected.
LEMMA OutputCollect ==
    ASSUME TypeOK, CallsNamed, OrderInv, OutputInv, NEW o \in Objects, CollectLine(o)
    PROVE  OutputInv'
<1>1. /\ call[o].pc = "read" /\ call'[o].pc = "read" /\ call'[o].cmd = call[o].cmd
      /\ call'[o].lines = Append(call[o].lines, Head(queue[o]))
      /\ \A x \in Objects \ {o} : call'[x] = call[x]
  BY DEF CollectLine, TakeLine, TypeOK, Calls
<1>2. /\ queue[o] # <<>> /\ queue'[o] = Tail(queue[o])
      /\ \A x \in Objects \ {o} : queue'[x] = queue[x]
  BY DEF CollectLine, TakeLine, TypeOK
<1>3. UNCHANGED <<handle, proc, stdin, pipe, reader, printed, result>> /\ StdinKept
  BY StdinSame DEF CollectLine, procVars
<1>4. ReadersKeep' /\ OwnReader' /\ UnbornMute' /\ NoMarkerPrinted'
  BY <1>3 DEF OutputInv, ReadersKeep, OwnReader, UnbornMute, NoMarkerPrinted, Gone
<1>5. \A x \in Objects : call[x].pc = "read" => Stream(x)' = Stream(x)
  <2> SUFFICES ASSUME NEW x \in Objects, call[x].pc = "read" PROVE Stream(x)' = Stream(x)
    OBVIOUS
  <2>1. handle[x] \in Pids
    BY DEF OutputInv, ReadsItsOwn, TypeOK
  <2>2. CASE x = o
    <3>1. PICK u \in Seq(Line) : u = reader[handle[o]].line \o pipe[handle[o]]
      <4>1. reader[handle[o]].line \in Seq(Line) /\ pipe[handle[o]] \in Seq(Line)
        BY <2>1, <2>2, OutputTypes
      <4> QED BY <4>1, ConcatProperties
    <3>2. Append(call[o].lines, Head(queue[o])) \o (Tail(queue[o]) \o u)
              = call[o].lines \o (queue[o] \o u)
      <4>1. call[o].lines \in Seq(Line) /\ queue[o] \in Seq(Line)
        BY OutputTypes
      <4> QED BY <1>2, <4>1, Shift
    <3> QED BY <1>1, <1>2, <1>3, <2>2, <3>1, <3>2 DEF Stream, Coming
  <2>3. CASE x # o
    BY <1>1, <1>2, <1>3, <2>3 DEF Stream, Coming
  <2> QED BY <2>2, <2>3
<1>6. \A x \in Objects : call'[x].pc = call[x].pc /\ call'[x].cmd = call[x].cmd
  BY <1>1
<1>7. ReadsItsOwn'
  BY <1>3, <1>5, <1>6 DEF OutputInv, ReadsItsOwn, Answering, StdinKept
<1>8. QuietBetween' /\ NotPrintedYet'
  BY <1>1, <1>2, <1>3 DEF OutputInv, QuietBetween, Quiet, NotPrintedYet
<1>9. PastForGood' /\ OwnOutput'
  BY <1>3, <1>6 DEF OutputInv, PastForGood, Past, StdinKept, OwnOutput
<1> QED BY <1>4, <1>7, <1>8, <1>9 DEF OutputInv

\* The marker is the last line: what has been collected is all there was, and
\* nothing is left on the way.
LEMMA OutputAnswer ==
    ASSUME TypeOK, CallsNamed, OrderInv, OutputInv, NEW o \in Objects, Answer(o)
    PROVE  OutputInv'
<1>0. PICK c, p : c = call[o].cmd /\ p = handle[o]
  OBVIOUS
<1>1. /\ call[o].pc = "read" /\ queue[o] # <<>> /\ Head(queue[o]) = Marker(c)
      /\ call' = [call EXCEPT ![o] = Idle]
      /\ result' = [result EXCEPT ![o] =
                      [kind |-> "done", cmd |-> c, lines |-> call[o].lines,
                       ok |-> NoError(call[o].lines)]]
  BY <1>0 DEF Answer, TakeLine, Finish
<1>2. c \in Cmds /\ p \in Pids
  BY <1>0, <1>1 DEF CallsNamed, OutputInv, ReadsItsOwn, TypeOK
<1>3. queue'[o] = Tail(queue[o]) /\ \A x \in Objects \ {o} : queue'[x] = queue[x]
  BY DEF Answer, TakeLine, TypeOK
<1>4. UNCHANGED <<handle, proc, stdin, pipe, reader, printed>> /\ StdinKept
  BY StdinSame DEF Answer, procVars
<1>5. call[o].lines = printed[c] /\ Coming(o) = <<Marker(c)>>
  <2>1. reader[p].line \in Seq(Line) /\ pipe[p] \in Seq(Line) /\ queue[o] \in Seq(Line)
        /\ call[o].lines \in Seq(Line) /\ printed[c] \in Seq(Line) /\ Marker(c) \in Line
    BY <1>2, OutputTypes, LineFacts
  <2>2. PICK u \in Seq(Line) : u = reader[p].line \o pipe[p]
    BY <2>1, ConcatProperties
  <2>3. Coming(o) = queue[o] \o u
    BY <1>0, <2>2 DEF Coming
  <2>4. queue[o] \o u \in Seq(Line) /\ queue[o] \o u # <<>> /\ Head(queue[o] \o u) = Marker(c)
    BY <1>1, <2>1, HeadStays
  <2>5. Lacks(printed[c], Marker(c))
    BY <1>2 DEF OutputInv, NoMarkerPrinted, Marker, Lacks
  <2>6. Stream(o) = printed[c] \/ Stream(o) = Append(printed[c], Marker(c))
    BY <1>0, <1>1 DEF OutputInv, ReadsItsOwn, Answering
  <2>7. Stream(o) = call[o].lines \o (queue[o] \o u)
    BY <2>3 DEF Stream
  <2>8. PICK l, q, d, m : l = call[o].lines /\ q = queue[o] \o u /\ d = printed[c] /\ m = Marker(c)
    OBVIOUS
  <2>9. l = d /\ q = <<m>>
    <3>1. l \in Seq(Line) /\ q \in Seq(Line) /\ d \in Seq(Line) /\ m \in Line
      BY <2>1, <2>4, <2>8
    <3>2. q # <<>> /\ Head(q) = m /\ Lacks(d, m)
      BY <2>4, <2>5, <2>8
    <3>3. l \o q = d \/ l \o q = Append(d, m)
      BY <2>6, <2>7, <2>8
    <3> QED BY <3>1, <3>2, <3>3, Cut
  <2> QED BY <2>3, <2>8, <2>9
<1>6. Quiet(o)'
  <2>1. reader[p].line \in Seq(Line) /\ pipe[p] \in Seq(Line) /\ queue[o] \in Seq(Line)
    BY <1>2, OutputTypes
  <2>2. queue[o] \o (reader[p].line \o pipe[p]) = <<Marker(c)>>
    BY <1>0, <1>5 DEF Coming
  <2>3. PICK s, t, u, m : s = queue[o] /\ t = reader[p].line /\ u = pipe[p] /\ m = Marker(c)
    OBVIOUS
  <2>4. Tail(s) = <<>> /\ t = <<>> /\ u = <<>>
    <3>1. s \in Seq(Line) /\ t \in Seq(Line) /\ u \in Seq(Line) /\ s # <<>>
      BY <1>1, <2>1, <2>3
    <3>2. s \o (t \o u) = <<m>>
      BY <2>2, <2>3
    <3> QED BY <3>1, <3>2, Lone
  <2> QED BY <1>0, <1>3, <1>4, <2>3, <2>4 DEF Quiet
<1>7. \A q \in Pids : ~WaitsAt(c, q)
  <2>1. Out(c)
    BY <1>0, <1>1, OutOfQueue DEF Answer, procVars
  <2> QED BY <1>2, <2>1 DEF OrderInv, MarkersPast
<1>8. call'[o] = Idle /\ \A x \in Objects \ {o} : call'[x] = call[x]
  BY <1>1 DEF TypeOK
<1>9. ReadersKeep' /\ OwnReader' /\ UnbornMute' /\ NoMarkerPrinted'
  BY <1>4 DEF OutputInv, ReadersKeep, OwnReader, UnbornMute, NoMarkerPrinted, Gone
<1>10. ReadsItsOwn'
  <2>0. Idle.pc # "read"
    BY DEF Idle
  <2>1. \A x \in Objects : call'[x].pc = "read" => x # o /\ call'[x] = call[x]
    BY <1>8, <2>0
  <2>2. \A x \in Objects \ {o} : Stream(x)' = Stream(x)
    BY <1>3, <1>4, <1>8 DEF Stream, Coming
  <2> QED BY <1>4, <2>1, <2>2 DEF OutputInv, ReadsItsOwn, Answering, StdinKept
<1>11. QuietBetween' /\ NotPrintedYet'
  BY <1>3, <1>4, <1>6, <1>8 DEF Idle, OutputInv, QuietBetween, Quiet, NotPrintedYet
<1>12. \A x \in Objects : call'[x].cmd # c /\ call'[x].cmd \in {call[x].cmd, None}
  BY <1>0, <1>2, <1>8, Constants DEF Idle, OrderInv, CmdsApart
<1>13. /\ result'[o].cmd = c /\ result'[o].lines = printed[c]
       /\ result'[o].ok = NoError(printed[c])
       /\ \A x \in Objects \ {o} : result'[x] = result[x]
  BY <1>1, <1>5 DEF TypeOK
<1>14. PastForGood'
  <2> SUFFICES ASSUME NEW x \in Objects, result'[x].kind = "done" PROVE Past(x)'
    BY DEF PastForGood
  <2>1. CASE x = o
    BY <1>2, <1>4, <1>7, <1>12, <1>13, <2>1 DEF Past, StdinKept
  <2>2. CASE x # o
    BY <1>4, <1>12, <1>13, <2>2, Constants DEF OutputInv, PastForGood, Past, StdinKept
  <2> QED BY <2>1, <2>2
<1>15. OwnOutput'
  BY <1>4, <1>13 DEF OutputInv, OwnOutput
<1> QED BY <1>9, <1>10, <1>11, <1>14, <1>15 DEF OutputInv

-----------------------------------------------------------------------------
(***************************************************************************)
(* The steps of processes and readers.                                     *)
(***************************************************************************)
\* Where a process has a command, its object reads, and it is that command.
LEMMA BusyIsRead ==
    ASSUME TypeOK, OrderInv, OutputInv, NEW p \in Pids, Busy(p),
           NEW o \in Objects, handle[o] = p
    PROVE  call[o].pc \in {"read", "stop"} /\ stdin[p] = <<call[o].cmd>>
           /\ Current(p) = call[o].cmd
<1>1. handle[o] # None /\ stdin[p] # <<>>
  BY Constants DEF Busy
<1>2. call[o].pc \in {"read", "stop"} /\ stdin[p] = <<call[o].cmd>>
  BY <1>1 DEF OrderInv, InHand
<1> QED BY <1>2 DEF Current

LEMMA BusyElsewhere ==
    ASSUME TypeOK, OrderInv, OutputInv, NEW p \in Pids, Busy(p),
           NEW o \in Objects, handle[o] # None, call[o].pc \in {"idle", "start", "write"}
    PROVE  handle[o] \in Pids \ {p}
<1>1. handle[o] \in Pids
  BY DEF TypeOK
<1>2. handle[o] # p
  BY BusyIsRead
<1> QED BY <1>1, <1>2

\* The process of an object puts out a line.
LEMMA StreamGrows ==
    ASSUME TypeOK, NEW p \in Pids, NEW o \in Objects, handle[o] = p, NEW e \in Line,
           pipe'[p] = Append(pipe[p], e), UNCHANGED <<handle, queue, reader, call>>
    PROVE  Stream(o)' = Append(Stream(o), e)
<1>1. PICK l, q, r, u \in Seq(Line) : /\ l = call[o].lines /\ q = queue[o]
                                      /\ r = reader[p].line /\ u = pipe[p]
  BY OutputTypes
<1>2. r \o u \in Seq(Line) /\ q \o (r \o u) \in Seq(Line)
  BY <1>1
<1>3. r \o Append(u, e) = Append(r \o u, e)
  BY Grow
<1>4. q \o Append(r \o u, e) = Append(q \o (r \o u), e)
  BY <1>2, Grow
<1>5. l \o Append(q \o (r \o u), e) = Append(l \o (q \o (r \o u)), e)
  BY <1>2, Grow
<1>6. Stream(o)' = l \o (q \o (r \o Append(u, e))) /\ Stream(o) = l \o (q \o (r \o u))
  BY <1>1 DEF Stream, Coming
<1> QED BY <1>3, <1>4, <1>5, <1>6

\* What stays of a stream to whose parts nothing happens.
LEMMA StreamSame ==
    ASSUME NEW o \in Objects, UNCHANGED <<call, handle>>, queue'[o] = queue[o],
           reader'[handle[o]] = reader[handle[o]], pipe'[handle[o]] = pipe[handle[o]]
    PROVE  Stream(o)' = Stream(o) /\ (Quiet(o) => Quiet(o)')
BY DEF Stream, Coming, Quiet

\* A line of text is added to the stream of the call and to what its command
\* has printed.
LEMMA OutputEmit ==
    ASSUME TypeOK, CallsNamed, OrderInv, OutputInv,
           NEW p \in Pids, NEW kind \in {"text", "error"}, Emit(p, kind)
    PROVE  OutputInv'
<1>0. PICK c, e : c = Current(p) /\ e = [cmd |-> c, kind |-> kind]
  OBVIOUS
<1>1. Busy(p) /\ stdin[p] \in Seq(Cmds) /\ stdin[p] # <<>>
  BY DEF TypeOK, Emit, Busy
<1>2. c \in Cmds /\ e \in Line /\ WaitsAt(c, p)
  <2>1. c \in Cmds /\ WaitsAt(c, p)
    BY <1>0, <1>1, RangeTail DEF Current, WaitsAt
  <2> QED BY <1>0, <2>1, LineFacts
<1>3. /\ pipe'[p] = Append(pipe[p], e) /\ \A q \in Pids \ {p} : pipe'[q] = pipe[q]
      /\ printed'[c] = Append(printed[c], e) /\ \A d \in Cmds \ {c} : printed'[d] = printed[d]
  BY <1>0, <1>2 DEF TypeOK, Emit
<1>4. UNCHANGED <<handle, queue, proc, stdin, reader, call, result>> /\ StdinKept
  BY StdinSame DEF Emit
<1>5. ReadersKeep' /\ OwnReader'
  BY <1>4 DEF OutputInv, ReadersKeep, OwnReader, Gone
<1>6. UnbornMute'
  BY <1>1, <1>3, <1>4 DEF OrderInv, UnbornEmpty, OutputInv, UnbornMute
<1>7. NoMarkerPrinted'
  <2> SUFFICES ASSUME NEW d \in Cmds, NEW i \in 1 .. Len(printed'[d])
               PROVE  printed'[d][i].kind # "end"
    BY DEF NoMarkerPrinted
  <2>1. CASE d = c
    <3>1. printed[c] \in Seq(Line)
      BY <1>2 DEF TypeOK
    <3>2. i \in 1 .. Len(printed[c]) + 1 /\ Len(printed[c]) \in Nat
      BY <1>2, <1>3, <2>1, <3>1, AppendProperties
    <3>3. CASE i \in 1 .. Len(printed[c])
      <4>1. printed'[c][i] = printed[c][i]
        BY <1>2, <1>3, <3>1, <3>3, AppendProperties
      <4> QED BY <1>2, <2>1, <3>3, <4>1 DEF OutputInv, NoMarkerPrinted
    <3>4. CASE i = Len(printed[c]) + 1
      <4>1. printed'[c][i] = e
        BY <1>2, <1>3, <3>1, <3>4, AppendProperties
      <4> QED BY <1>0, <2>1, <4>1
    <3> QED BY <3>2, <3>3, <3>4
  <2>2. CASE d # c
    BY <1>3, <2>2 DEF OutputInv, NoMarkerPrinted
  <2> QED BY <2>1, <2>2
<1>8. ASSUME NEW o \in Objects, call[o].pc = "read" PROVE Answering(o)'
  <2>1. handle[o] \in Pids /\ call[o].cmd \in Cmds
    BY <1>8 DEF OutputInv, ReadsItsOwn, TypeOK, CallsNamed
  <2>2. CASE handle[o] = p
    <3>1. call[o].cmd = c
      BY <1>0, <1>1, <2>2, BusyIsRead
    <3>2. Stream(o) = printed[c]
      BY <1>2, <1>8, <3>1 DEF OutputInv, ReadsItsOwn, Answering
    <3>3. Stream(o)' = Append(Stream(o), e)
      BY <1>2, <1>3, <1>4, <2>2, StreamGrows
    <3> QED BY <1>3, <1>4, <3>1, <3>2, <3>3 DEF Answering
  <2>3. CASE handle[o] # p
    <3>1. Stream(o)' = Stream(o)
      BY <1>3, <1>4, <2>1, <2>3, StreamSame
    <3>2. call[o].cmd # c
      BY <1>2, <1>8, <2>3 DEF OutputInv, ReadsItsOwn
    <3> QED BY <1>3, <1>4, <1>8, <2>1, <3>1, <3>2 DEF Answering, OutputInv, ReadsItsOwn, StdinKept
  <2> QED BY <2>2, <2>3
<1>9. ASSUME NEW o \in Objects, handle[o] # None, call[o].pc \in {"idle", "start", "write"}
      PROVE  Quiet(o)'
  <2>1. handle[o] \in Pids \ {p}
    BY <1>1, <1>9, BusyElsewhere
  <2> QED BY <1>3, <1>4, <1>9, <2>1, StreamSame DEF OutputInv, QuietBetween
<1>10. \A d \in Cmds : printed'[d] = printed[d] \/ \E q \in Pids : WaitsAt(d, q)
  BY <1>2, <1>3
<1> QED BY <1>4, <1>5, <1>6, <1>7, <1>8, <1>9, <1>10, FlowStep

\* The marker ends the stream.
LEMMA OutputEmitMarker ==
    ASSUME TypeOK, CallsNamed, OrderInv, OutputInv, NEW p \in Pids, EmitMarker(p)
    PROVE  OutputInv'
<1>0. PICK c, e : c = Current(p) /\ e = Marker(c)
  OBVIOUS
<1>1. Busy(p) /\ stdin[p] \in Seq(Cmds) /\ stdin[p] # <<>> /\ Len(stdin[p]) <= 1
  BY DEF TypeOK, EmitMarker, Busy, OrderInv, OneAtATime
<1>2. c \in Cmds /\ e \in Line /\ WaitsAt(c, p)
  <2>1. c \in Cmds /\ WaitsAt(c, p)
    BY <1>0, <1>1, RangeTail DEF Current, WaitsAt
  <2> QED BY <1>0, <2>1, LineFacts
<1>3. pipe'[p] = Append(pipe[p], e) /\ \A q \in Pids \ {p} : pipe'[q] = pipe[q]
  BY <1>0 DEF TypeOK, EmitMarker
<1>4. UNCHANGED <<handle, queue, proc, reader, call, result, printed>>
  BY DEF EmitMarker
<1>5. \A d : \A q \in Pids : WaitsAt(d, q)' => WaitsAt(d, q) /\ q # p
  <2>1. Tail(stdin[p]) = <<>>
    BY <1>1
  <2>2. stdin'[p] = <<>> /\ \A q \in Pids \ {p} : stdin'[q] = stdin[q]
    BY <2>1 DEF EmitMarker, TypeOK
  <2> QED BY <2>2, RangeEmpty DEF WaitsAt
<1>6. ReadersKeep' /\ OwnReader' /\ NoMarkerPrinted'
  BY <1>4 DEF OutputInv, ReadersKeep, OwnReader, NoMarkerPrinted, Gone
<1>7. UnbornMute'
  BY <1>1, <1>3, <1>4 DEF OrderInv, UnbornEmpty, OutputInv, UnbornMute
<1>8. ASSUME NEW o \in Objects, call[o].pc = "read" PROVE Answering(o)'
  <2>1. handle[o] \in Pids
    BY <1>8 DEF OutputInv, ReadsItsOwn, TypeOK
  <2>2. CASE handle[o] = p
    <3>1. call[o].cmd = c
      BY <1>0, <1>1, <2>2, BusyIsRead
    <3>2. Stream(o) = printed[c]
      BY <1>2, <1>8, <3>1 DEF OutputInv, ReadsItsOwn, Answering
    <3>3. Stream(o)' = Append(Stream(o), e)
      BY <1>2, <1>3, <1>4, <2>2, StreamGrows
    <3>4. \A q \in Pids : ~WaitsAt(c, q)'
      BY <1>2, <1>5 DEF OrderInv, WaitsOnce
    <3> QED BY <1>0, <1>4, <3>1, <3>2, <3>3, <3>4 DEF Answering
  <2>3. CASE handle[o] # p
    <3>1. Stream(o)' = Stream(o)
      BY <1>3, <1>4, <2>1, <2>3, StreamSame
    <3> QED BY <1>4, <1>5, <1>8, <3>1 DEF Answering, OutputInv, ReadsItsOwn
  <2> QED BY <2>2, <2>3
<1>9. ASSUME NEW o \in Objects, handle[o] # None, call[o].pc \in {"idle", "start", "write"}
      PROVE  Quiet(o)'
  <2>1. handle[o] \in Pids \ {p}
    BY <1>1, <1>9, BusyElsewhere
  <2> QED BY <1>3, <1>4, <1>9, <2>1, StreamSame DEF OutputInv, QuietBetween
<1>10. StdinKept
  BY <1>5 DEF StdinKept
<1> QED BY <1>4, <1>6, <1>7, <1>8, <1>9, <1>10, FlowStep

\* A line goes from the pipe to the reader.
LEMMA OutputReadLine ==
    ASSUME TypeOK, CallsNamed, OrderInv, OutputInv, NEW r \in Pids, ReadLine(r)
    PROVE  OutputInv'
<1>1. /\ reader[r] # Gone /\ reader[r].line = <<>> /\ reader[r].on = r
      /\ pipe[r] # <<>> /\ pipe[r] \in Seq(Line)
  BY DEF ReadLine, Waiting, OutputInv, ReadersKeep, TypeOK
<1>2. /\ pipe'[r] = Tail(pipe[r]) /\ \A q \in Pids \ {r} : pipe'[q] = pipe[q]
      /\ reader' = [reader EXCEPT ![r].line = <<Head(pipe[r])>>]
  BY <1>1 DEF ReadLine, TypeOK
<1>3. reader[r] \in [on : Pids, line : Seq(Line), owner : Objects]
  BY <1>1 DEF TypeOK, Readers
<1>4. /\ reader'[r].line = <<Head(pipe[r])>> /\ reader'[r].on = r
      /\ reader'[r].owner = reader[r].owner
      /\ \A q \in Pids \ {r} : reader'[q] = reader[q]
  BY <1>1, <1>2, <1>3 DEF TypeOK
<1>5. UNCHANGED <<handle, queue, proc, stdin, call, result, printed>> /\ StdinKept
  BY StdinSame DEF ReadLine
<1>6. ReadersKeep'
  <2> SUFFICES ASSUME NEW q \in Pids, reader'[q] # Gone
               PROVE  /\ reader'[q].on = q /\ Len(reader'[q].line) <= 1
                      /\ handle'[reader'[q].owner] \in {q, None}
    BY DEF ReadersKeep, Gone
  <2>1. CASE q = r
    <3>1. Len(reader'[r].line) <= 1
      <4>1. \A e : Len(<<e>>) <= 1
        OBVIOUS
      <4> QED BY <1>4, <4>1
    <3>2. handle[reader[r].owner] \in {r, None}
      BY <1>1 DEF OutputInv, ReadersKeep
    <3>3. handle'[reader'[r].owner] \in {r, None}
      BY <1>4, <1>5, <3>2
    <3> QED BY <1>4, <2>1, <3>1, <3>3
  <2>2. CASE q # r
    BY <1>4, <1>5, <2>2 DEF OutputInv, ReadersKeep, Gone
  <2> QED BY <2>1, <2>2
<1>7. OwnReader'
  <2> SUFFICES ASSUME NEW o \in Objects, handle[o] # None
               PROVE  reader'[handle[o]] = Gone \/ reader'[handle[o]].owner = o
    BY <1>5 DEF OwnReader, Gone
  <2>1. handle[o] \in Pids
    BY DEF TypeOK
  <2> QED BY <1>1, <1>4, <2>1 DEF OutputInv, OwnReader
<1>8. UnbornMute' /\ NoMarkerPrinted'
  BY <1>1, <1>2, <1>5 DEF OutputInv, UnbornMute, NoMarkerPrinted
<1>9. ASSUME NEW o \in Objects, call[o].pc = "read" PROVE Answering(o)'
  <2>1. handle[o] \in Pids
    BY <1>9 DEF OutputInv, ReadsItsOwn, TypeOK
  <2>2. Stream(o)' = Stream(o)
    <3>1. CASE handle[o] = r
      <4>1. <<Head(pipe[r])>> \o Tail(pipe[r]) = <<>> \o pipe[r]
        BY <1>1, HeadTail
      <4> QED BY <1>1, <1>2, <1>4, <1>5, <3>1, <4>1 DEF Stream, Coming
    <3>2. CASE handle[o] # r
      BY <1>2, <1>4, <1>5, <2>1, <3>2, StreamSame
    <3> QED BY <3>1, <3>2
  <2> QED BY <1>5, <1>9, <2>2 DEF Answering, OutputInv, ReadsItsOwn, StdinKept
<1>10. ASSUME NEW o \in Objects, handle[o] # None, call[o].pc \in {"idle", "start", "write"}
       PROVE  Quiet(o)'
  <2>1. handle[o] \in Pids \ {r}
    BY <1>1, <1>10 DEF OutputInv, QuietBetween, Quiet, TypeOK
  <2> QED BY <1>2, <1>4, <1>5, <1>10, <2>1, StreamSame DEF OutputInv, QuietBetween
<1> QED BY <1>5, <1>6, <1>7, <1>8, <1>9, <1>10, FlowStep

\* A line goes from the reader to the queue of its owner.
LEMMA OutputPutLine ==
    ASSUME TypeOK, CallsNamed, OrderInv, OutputInv, NEW r \in Pids, PutLine(r)
    PROVE  OutputInv'
<1>0. PICK x : x = reader[r].owner
  OBVIOUS
<1>1. reader[r] # Gone /\ reader[r].line # <<>>
  BY DEF PutLine
<1>2. /\ x \in Objects /\ reader[r].on = r /\ handle[x] \in {r, None}
      /\ reader[r].line \in Seq(Line) /\ Len(reader[r].line) <= 1
  BY <1>0, <1>1 DEF TypeOK, Readers, OutputInv, ReadersKeep
<1>3. /\ queue'[x] = Append(queue[x], Head(reader[r].line))
      /\ \A o \in Objects \ {x} : queue'[o] = queue[o]
  BY <1>0, <1>2 DEF PutLine, TypeOK
<1>4. /\ reader'[r] = IF handle[x] = None THEN Gone
                      ELSE [on |-> handle[x], line |-> <<>>, owner |-> x]
      /\ \A q \in Pids \ {r} : reader'[q] = reader[q]
  BY <1>0 DEF PutLine, TypeOK
<1>5. reader'[r].line = <<>> /\ Tail(reader[r].line) = <<>>
  <2>1. reader'[r].line = <<>>
    BY <1>4 DEF Gone
  <2> QED BY <1>1, <1>2, <2>1
<1>6. UNCHANGED <<handle, pipe, proc, stdin, call, result, printed>> /\ StdinKept
  BY StdinSame DEF PutLine, procVars
<1>7. ReadersKeep'
  <2> SUFFICES ASSUME NEW q \in Pids, reader'[q] # Gone
               PROVE  /\ reader'[q].on = q /\ Len(reader'[q].line) <= 1
                      /\ handle'[reader'[q].owner] \in {q, None}
    BY DEF ReadersKeep, Gone
  <2>1. CASE q = r
    <3>1. reader'[r] = [on |-> handle[x], line |-> <<>>, owner |-> x] /\ handle[x] = r
      BY <1>2, <1>4, <2>1
    <3>2. Len(<<>>) = 0
      OBVIOUS
    <3> QED BY <1>6, <2>1, <3>1, <3>2
  <2>2. CASE q # r
    BY <1>4, <1>6, <2>2 DEF OutputInv, ReadersKeep, Gone
  <2> QED BY <2>1, <2>2
<1>8. \A o \in Objects : handle[o] = r => o = x
  BY <1>0, <1>1, Constants DEF OutputInv, OwnReader
<1>9. OwnReader'
  <2> SUFFICES ASSUME NEW o \in Objects, handle[o] # None
               PROVE  reader'[handle[o]] = Gone \/ reader'[handle[o]].owner = o
    BY <1>6 DEF OwnReader, Gone
  <2>1. CASE handle[o] = r
    BY <1>4, <1>8, <2>1
  <2>2. CASE handle[o] # r
    <3>1. handle[o] \in Pids
      BY DEF TypeOK
    <3> QED BY <1>4, <2>2, <3>1 DEF OutputInv, OwnReader
  <2> QED BY <2>1, <2>2
<1>10. UnbornMute' /\ NoMarkerPrinted'
  BY <1>6 DEF OutputInv, UnbornMute, NoMarkerPrinted
<1>11. ASSUME NEW o \in Objects, call[o].pc = "read" PROVE Answering(o)'
  <2>1. handle[o] \in Pids
    BY <1>11 DEF OutputInv, ReadsItsOwn, TypeOK
  <2>2. Stream(o)' = Stream(o)
    <3>1. CASE handle[o] = r
      <4>1. pipe[r] \in Seq(Line) /\ queue[o] \in Seq(Line)
        BY OutputTypes
      <4>2. Append(queue[o], Head(reader[r].line)) \o (Tail(reader[r].line) \o pipe[r])
                = queue[o] \o (reader[r].line \o pipe[r])
        BY <1>1, <1>2, <4>1, Shift
      <4>3. o = x
        BY <1>8, <3>1
      <4> QED BY <1>3, <1>5, <1>6, <3>1, <4>2, <4>3 DEF Stream, Coming
    <3>2. CASE handle[o] # r
      <4>1. o # x
        BY <1>2, <2>1, <3>2, Constants
      <4> QED BY <1>3, <1>4, <1>6, <2>1, <3>2, <4>1, StreamSame
    <3> QED BY <3>1, <3>2
  <2> QED BY <1>6, <1>11, <2>2 DEF Answering, OutputInv, ReadsItsOwn, StdinKept
<1>12. ASSUME NEW o \in Objects, handle[o] # None, call[o].pc \in {"idle", "start", "write"}
       PROVE  Quiet(o)'
  <2>1. handle[o] \in Pids \ {r}
    BY <1>1, <1>12 DEF OutputInv, QuietBetween, Quiet, TypeOK
  <2>2. o # x
    BY <1>2, <2>1, Constants
  <2> QED BY <1>3, <1>4, <1>6, <1>12, <2>1, <2>2, StreamSame DEF OutputInv, QuietBetween
<1> QED BY <1>6, <1>7, <1>9, <1>10, <1>11, <1>12, FlowStep

\* A reader that holds no line ends.
LEMMA OutputEndOfFile ==
    ASSUME TypeOK, CallsNamed, OrderInv, OutputInv, NEW r \in Pids, EndOfFile(r)
    PROVE  OutputInv'
<1>1. /\ reader[r].line = <<>> /\ reader'[r] = Gone
      /\ \A q \in Pids \ {r} : reader'[q] = reader[q]
  BY DEF EndOfFile, Waiting, TypeOK
<1>2. UNCHANGED <<handle, queue, pipe, proc, stdin, call, result, printed>> /\ StdinKept
  BY StdinSame DEF EndOfFile, procVars
<1>3. \A q \in Pids : reader'[q].line = reader[q].line
  BY <1>1 DEF Gone
<1>4. ReadersKeep' /\ OwnReader' /\ UnbornMute' /\ NoMarkerPrinted'
  <2>1. ReadersKeep'
    BY <1>1, <1>2 DEF OutputInv, ReadersKeep, Gone
  <2>2. \A o \in Objects : handle[o] # None => handle[o] \in Pids
    BY DEF TypeOK
  <2>3. OwnReader'
    BY <1>1, <1>2, <2>2 DEF OutputInv, OwnReader, Gone
  <2> QED BY <1>2, <2>1, <2>3 DEF OutputInv, UnbornMute, NoMarkerPrinted
<1>5. ASSUME NEW o \in Objects, handle[o] # None
      PROVE  Stream(o)' = Stream(o) /\ (Quiet(o) => Quiet(o)')
  <2>1. reader'[handle[o]].line = reader[handle[o]].line
    BY <1>3, <1>5 DEF TypeOK
  <2> QED BY <1>2, <2>1 DEF Stream, Coming, Quiet
<1>6. \A o \in Objects : call[o].pc = "read" => Answering(o)'
  BY <1>2, <1>5 DEF Answering, OutputInv, ReadsItsOwn, StdinKept
<1>7. \A o \in Objects : handle[o] # None /\ call[o].pc \in {"idle", "start", "write"} => Quiet(o)'
  BY <1>5 DEF OutputInv, QuietBetween
<1> QED BY <1>2, <1>4, <1>6, <1>7, FlowStep

-----------------------------------------------------------------------------
LEMMA OutputNext ==
    ASSUME TypeOK, LifeInv, CallsNamed, OrderInv, OutputInv, Settled, [Next]_vars
    PROVE  OutputInv'
<1>1. CASE UNCHANGED vars
  BY <1>1, OutputSame DEF vars
<1>2. ASSUME NEW s \in Sessions, CreateSession(s) \/ LoadSession(s) \/ DestroySession(s)
      PROVE  OutputInv'
  BY <1>2, OutputSame DEF CreateSession, LoadSession, DestroySession, NewObject, procVars
<1>3. ASSUME NEW o \in Objects, Ask(o) \/ Step(o) \/ StopVivado(o)
      PROVE  OutputInv'
  BY <1>3, OutputAsk, OutputFails, OutputStart, OutputWrite, OutputCollect, OutputAnswer,
     OutputTimeout, OutputStopped DEF Step
<1>4. ASSUME NEW p \in Pids, NEW kind \in {"text", "error"}, Emit(p, kind)
      PROVE  OutputInv'
  BY <1>4, OutputEmit
<1>5. ASSUME NEW p \in Pids, EmitMarker(p) \/ Crash(p) \/ OrphanEnds(p) \/ Reads(p)
      PROVE  OutputInv'
  BY <1>5, OutputEmitMarker, OutputEnds, OutputReadLine, OutputPutLine, OutputEndOfFile
     DEF Crash, OrphanEnds, Reads
<1> QED BY <1>1, <1>2, <1>3, <1>4, <1>5 DEF Next

LEMMA OutputInit == Init => OutputInv
<1> SUFFICES ASSUME Init PROVE OutputInv
  OBVIOUS
<1>1. ReadersKeep /\ OwnReader /\ UnbornMute
  BY DEF Init, ReadersKeep, OwnReader, UnbornMute
<1>2. ReadsItsOwn /\ QuietBetween /\ NotPrintedYet
  BY DEF Init, Idle, ReadsItsOwn, QuietBetween, NotPrintedYet
<1>3. NoMarkerPrinted
  <2>1. Len(<<>>) = 0
    OBVIOUS
  <2> QED BY <2>1 DEF Init, NoMarkerPrinted
<1>4. PastForGood /\ OwnOutput
  BY DEF Init, NoResult, PastForGood, OwnOutput
<1> QED BY <1>1, <1>2, <1>3, <1>4 DEF OutputInv

\* What execute() returns is what its command printed, all of it, in order and
\* nothing of another command, and its verdict is about that, through crashes,
\* timeouts, restarts and reloaded sessions, as long as what a stopped Vivado
\* leaves has ended before its object starts the next.
THEOREM AnswersAreOwn == ASSUME Settled PROVE Spec => []OwnOutput
<1>1. SessionInv /\ OrderInv /\ [Next]_vars => OrderInv'
  BY OrderNext DEF SessionInv
<1>2. Spec => []OrderInv
  BY <1>1, OrderInit, SessionInvAlways, PTL DEF Spec
<1>3. SessionInv /\ OrderInv /\ OutputInv /\ [Next]_vars => OutputInv'
  BY OutputNext DEF SessionInv
<1>4. Spec => []OutputInv
  BY <1>2, <1>3, OutputInit, SessionInvAlways, PTL DEF Spec
<1>5. OutputInv => OwnOutput
  BY DEF OutputInv
<1> QED BY <1>4, <1>5, PTL
=============================================================================
