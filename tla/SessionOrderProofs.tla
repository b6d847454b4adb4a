------------------------- MODULE SessionOrderProofs -------------------------
(***************************************************************************)
(* For any number of sessions, objects, processes and commands: no process *)
(* is ever sent a command before it has answered the one before.           *)
(***************************************************************************)
EXTENDS VivadoSessionProofs

\* The marker of c is on its way from the process to the call.
Out(c) == \/ \E o \in Objects : Marker(c) \in Range(queue[o])
          \/ \E p \in Pids : Marker(c) \in Range(pipe[p]) \/ Marker(c) \in Range(reader[p].line)

WaitsAt(c, p) == c \in Range(stdin[p])

\* A command is that of one call, and waits at one process.
CmdsApart == \A x, y \in Objects : call[x].cmd = call[y].cmd /\ call[x].cmd # None => x = y
WaitsOnce == \A c \in Cmds : \A p, q \in Pids : WaitsAt(c, p) /\ WaitsAt(c, q) => p = q
\* A process is that of one object.
HandlesApart == \A x, y \in Objects : handle[x] = handle[y] /\ handle[x] # None => x = y
\* A command that is not written yet waits nowhere and has no marker.
Unwritten == \A o \in Objects : call[o].pc \in {"start", "write"} =>
                 ~Out(call[o].cmd) /\ \A p \in Pids : ~WaitsAt(call[o].cmd, p)
\* The marker comes after its command is done.
MarkersPast == \A c \in Cmds : Out(c) => \A p \in Pids : ~WaitsAt(c, p)
\* The process of an object does what the call on the object waits for.
InHand == \A o \in Objects : handle[o] # None =>
              \/ stdin[handle[o]] = <<>>
              \/ call[o].pc \in {"read", "stop"} /\ stdin[handle[o]] = <<call[o].cmd>>
UnbornEmpty == \A p \in Pids : proc[p] = "unborn" => stdin[p] = <<>>

OrderInv == /\ CmdsApart /\ WaitsOnce /\ HandlesApart
            /\ Unwritten /\ MarkersPast /\ InHand /\ UnbornEmpty /\ OneAtATime

-----------------------------------------------------------------------------
LEMMA RangeEmpty == \A x : x \notin Range(<<>>)
BY DEF Range

LEMMA RangeOne == \A x, y : x \in Range(<<y>>) <=> x = y
BY DEF Range

LEMMA RangeAppend ==
    ASSUME NEW S, NEW s \in Seq(S), NEW e \in S
    PROVE  \A x : x \in Range(Append(s, e)) <=> x \in Range(s) \/ x = e
<1>1. DOMAIN Append(s, e) = 1 .. Len(s) + 1 /\ DOMAIN s = 1 .. Len(s) /\ Len(s) \in Nat
  OBVIOUS
<1>2. \A i \in 1 .. Len(s) : Append(s, e)[i] = s[i]
  OBVIOUS
<1>3. Append(s, e)[Len(s) + 1] = e
  OBVIOUS
<1> QED BY <1>1, <1>2, <1>3 DEF Range

LEMMA RangeTail ==
    ASSUME NEW S, NEW s \in Seq(S), s # <<>>
    PROVE  Head(s) \in Range(s) /\ Range(Tail(s)) \subseteq Range(s)
<1>1. DOMAIN s = 1 .. Len(s) /\ Len(s) \in Nat /\ Len(s) > 0 /\ Head(s) = s[1]
  OBVIOUS
<1>2. DOMAIN Tail(s) = 1 .. Len(s) - 1
  OBVIOUS
<1>3. \A i \in 1 .. Len(s) - 1 : Tail(s)[i] = s[i + 1]
  OBVIOUS
<1> QED BY <1>1, <1>2, <1>3 DEF Range

\* A process that is sent nothing more, handles that go, calls that end.
OutShrinks == \A c \in Cmds : Out(c)' => Out(c)
StdinShrinks == \A p \in Pids : stdin'[p] = stdin[p] \/ stdin'[p] = <<>>
CallGoes(o) ==
    \/ call'[o].pc = call[o].pc /\ call'[o].cmd = call[o].cmd
    \/ call'[o].pc = "stop" /\ call[o].pc = "read" /\ call'[o].cmd = call[o].cmd
    \/ call'[o].pc = "idle" /\ call'[o].cmd = None
       /\ (handle'[o] # None => stdin[handle[o]] = <<>>)

LEMMA OrderShrinks ==
    ASSUME TypeOK, CallsNamed, OrderInv, OutShrinks, StdinShrinks,
           \A o \in Objects : CallGoes(o) /\ handle'[o] \in {handle[o], None},
           \A p \in Pids : proc'[p] = "unborn" => proc[p] = "unborn"
    PROVE  OrderInv'
<1>1. \A c : \A p \in Pids : WaitsAt(c, p)' => WaitsAt(c, p)
  BY RangeEmpty DEF StdinShrinks, WaitsAt
<1>2. CmdsApart'
  BY DEF CallGoes, OrderInv, CmdsApart
<1>3. WaitsOnce'
  BY <1>1 DEF OrderInv, WaitsOnce
<1>4. HandlesApart'
  BY DEF OrderInv, HandlesApart
<1>5. Unwritten'
  <2> SUFFICES ASSUME NEW o \in Objects, call'[o].pc \in {"start", "write"}
               PROVE  (~Out(call[o].cmd) /\ \A p \in Pids : ~WaitsAt(call[o].cmd, p))'
    BY DEF Unwritten
  <2>1. call[o].pc \in {"start", "write"} /\ call'[o].cmd = call[o].cmd
    BY DEF CallGoes
  <2>2. call[o].cmd \in Cmds
    BY <2>1 DEF CallsNamed
  <2> DEFINE c == call[o].cmd
  <2>3. ~Out(c) /\ \A p \in Pids : ~WaitsAt(c, p)
    BY <2>1 DEF OrderInv, Unwritten
  <2>4. ~Out(c)' /\ \A p \in Pids : ~WaitsAt(c, p)'
    BY <1>1, <2>1, <2>2, <2>3 DEF OutShrinks
  <2> QED BY <2>1, <2>4
<1>6. MarkersPast'
  BY <1>1 DEF OrderInv, MarkersPast, OutShrinks
<1>7. InHand'
  <2> SUFFICES ASSUME NEW o \in Objects, handle'[o] # None
               PROVE  \/ stdin'[handle'[o]] = <<>>
                      \/ call'[o].pc \in {"read", "stop"} /\ stdin'[handle'[o]] = <<call'[o].cmd>>
    BY DEF InHand
  <2>1. handle'[o] = handle[o] /\ handle[o] \in Pids
    BY DEF TypeOK
  <2>2. stdin'[handle[o]] = stdin[handle[o]] \/ stdin'[handle[o]] = <<>>
    BY <2>1 DEF StdinShrinks
  <2> QED BY <2>1, <2>2 DEF OrderInv, InHand, CallGoes
<1>8. UnbornEmpty'
  BY DEF OrderInv, UnbornEmpty, StdinShrinks
<1>9. OneAtATime'
  <2>1. Len(<<>>) = 0
    OBVIOUS
  <2> QED BY <2>1 DEF OrderInv, OneAtATime, StdinShrinks
<1> QED BY <1>2, <1>3, <1>4, <1>5, <1>6, <1>7, <1>8, <1>9 DEF OrderInv

-----------------------------------------------------------------------------
(***************************************************************************)
(* Markers travel from the pipe by the reader to the queue.                *)
(***************************************************************************)
LEMMA OutSame ==
    ASSUME UNCHANGED <<queue, pipe, reader>>
    PROVE  \A c : Out(c)' <=> Out(c)
BY DEF Out

\* The queue of an object is cleared or loses its first line.
LEMMA OutOfQueue ==
    ASSUME TypeOK, NEW o \in Objects, UNCHANGED <<pipe, reader>>, TakeLine(o)
    PROVE  OutShrinks /\ (Head(queue[o]) = Marker(call[o].cmd) => Out(call[o].cmd))
<1>1. queue[o] \in Seq(Line) /\ queue[o] # <<>>
  BY DEF TypeOK, TakeLine
<1>2. queue'[o] = Tail(queue[o]) /\ \A x \in Objects \ {o} : queue'[x] = queue[x]
  BY DEF TypeOK, TakeLine
<1>3. Head(queue[o]) \in Range(queue[o]) /\ Range(Tail(queue[o])) \subseteq Range(queue[o])
  BY <1>1, RangeTail
<1>4. \A x \in Objects : Range(queue'[x]) \subseteq Range(queue[x])
  BY <1>2, <1>3
<1> QED BY <1>3, <1>4 DEF Out, OutShrinks

LEMMA OutReadLine ==
    ASSUME TypeOK, NEW r \in Pids, ReadLine(r)
    PROVE  OutShrinks
<1> DEFINE p == reader[r].on
<1>1. p \in Pids /\ pipe[p] \in Seq(Line) /\ pipe[p] # <<>> /\ reader[r] \in Readers
  BY DEF TypeOK, ReadLine, Waiting, Readers
<1>2. Head(pipe[p]) \in Range(pipe[p]) /\ Range(Tail(pipe[p])) \subseteq Range(pipe[p])
  BY <1>1, RangeTail
<1>3. \A q \in Pids : Range(pipe'[q]) \subseteq Range(pipe[q])
  BY <1>1, <1>2 DEF ReadLine, TypeOK
<1>4. reader'[r].line = <<Head(pipe[p])>>
  BY <1>1 DEF ReadLine, Waiting, TypeOK, Readers
<1>5. \A q \in Pids \ {r} : reader'[q] = reader[q]
  BY DEF ReadLine, TypeOK
<1>6. \A q \in Pids, c \in Cmds :
          Marker(c) \in Range(reader'[q].line) =>
              Marker(c) \in Range(reader[q].line) \/ Marker(c) \in Range(pipe[p])
  <2> SUFFICES ASSUME NEW q \in Pids, NEW c \in Cmds, Marker(c) \in Range(reader'[q].line)
               PROVE  Marker(c) \in Range(reader[q].line) \/ Marker(c) \in Range(pipe[p])
    OBVIOUS
  <2>1. CASE q = r
    <3>1. Marker(c) = Head(pipe[p])
      BY <1>4, <2>1, RangeOne
    <3> QED BY <1>2, <3>1
  <2>2. CASE q # r
    <3>1. reader'[q] = reader[q]
      BY <1>5, <2>2
    <3> QED BY <3>1
  <2> QED BY <2>1, <2>2
<1>7. UNCHANGED queue
  BY DEF ReadLine
<1> QED BY <1>1, <1>3, <1>6, <1>7 DEF Out, OutShrinks

LEMMA OutPutLine ==
    ASSUME TypeOK, NEW r \in Pids, PutLine(r)
    PROVE  OutShrinks
<1> DEFINE o == reader[r].owner
<1>1. o \in Objects /\ reader[r].line \in Seq(Line) /\ reader[r].line # <<>>
  BY DEF TypeOK, PutLine, Readers
<1>2. Head(reader[r].line) \in Line /\ Head(reader[r].line) \in Range(reader[r].line)
  BY <1>1, RangeTail
<1>3. queue[o] \in Seq(Line) /\ queue'[o] = Append(queue[o], Head(reader[r].line))
  BY <1>1 DEF TypeOK, PutLine
<1>4. \A x \in Objects \ {o} : queue'[x] = queue[x]
  BY DEF TypeOK, PutLine
<1>5. \A x \in Objects, c \in Cmds :
          Marker(c) \in Range(queue'[x]) =>
              Marker(c) \in Range(queue[x]) \/ Marker(c) \in Range(reader[r].line)
  <2>1. \A e : e \in Range(queue'[o]) <=> e \in Range(queue[o]) \/ e = Head(reader[r].line)
    BY <1>2, <1>3, RangeAppend
  <2> QED BY <1>2, <1>4, <2>1
<1>6. reader'[r].line = <<>> /\ \A q \in Pids \ {r} : reader'[q] = reader[q]
  BY DEF TypeOK, PutLine, Gone
<1>7. \A q \in Pids, c \in Cmds :
          Marker(c) \in Range(reader'[q].line) => Marker(c) \in Range(reader[q].line)
  BY <1>6, RangeEmpty
<1>8. UNCHANGED pipe
  BY DEF PutLine, procVars
<1> QED BY <1>5, <1>7, <1>8 DEF Out, OutShrinks

LEMMA OutEndOfFile ==
    ASSUME TypeOK, NEW r \in Pids, EndOfFile(r)
    PROVE  OutShrinks
<1>1. reader'[r].line = <<>> /\ \A q \in Pids \ {r} : reader'[q] = reader[q]
  BY DEF TypeOK, EndOfFile, Gone
<1>2. UNCHANGED <<pipe, queue>>
  BY DEF EndOfFile, procVars
<1> QED BY <1>1, <1>2, RangeEmpty DEF Out, OutShrinks

\* A line of text is no marker.
LEMMA OutEmit ==
    ASSUME TypeOK, NEW p \in Pids, NEW kind \in {"text", "error"}, Emit(p, kind)
    PROVE  OutShrinks
<1> DEFINE line == [cmd |-> Current(p), kind |-> kind]
<1>1. stdin[p] \in Seq(Cmds) /\ stdin[p] # <<>>
  BY DEF TypeOK, Emit, Busy
<1>2. line \in Line /\ pipe[p] \in Seq(Line)
  <2>1. Current(p) \in Cmds
    BY <1>1 DEF Current
  <2> QED BY <2>1 DEF Line, TypeOK
<1>3. \A c : Marker(c) # line
  BY DEF Marker
<1>4. pipe'[p] = Append(pipe[p], line) /\ \A q \in Pids \ {p} : pipe'[q] = pipe[q]
  BY DEF TypeOK, Emit
<1>5. \A q \in Pids, c \in Cmds : Marker(c) \in Range(pipe'[q]) => Marker(c) \in Range(pipe[q])
  <2>1. \A e : e \in Range(pipe'[p]) <=> e \in Range(pipe[p]) \/ e = line
    BY <1>2, <1>4, RangeAppend
  <2> QED BY <1>3, <1>4, <2>1
<1>6. UNCHANGED <<queue, reader>>
  BY DEF Emit
<1> QED BY <1>5, <1>6 DEF Out, OutShrinks

-----------------------------------------------------------------------------
(***************************************************************************)
(* The four steps that do more than let go.                                *)
(***************************************************************************)
LEMMA SeenHas ==
    /\ \A x \in Objects : call[x].cmd \in Seen /\ \A l \in Range(queue[x]) : l.cmd \in Seen
    /\ \A p \in Pids : /\ Range(stdin[p]) \subseteq Seen
                      /\ \A l \in Range(pipe[p]) \cup Range(reader[p].line) : l.cmd \in Seen
<1> DEFINE OfPid(p) == Range(stdin[p]) \cup {l.cmd : l \in LinesFrom(p)}
           OfObject(x) == {call[x].cmd, result[x].cmd} \cup {l.cmd : l \in LinesAbout(x)}
           OfPids == UNION {OfPid(p) : p \in Pids}
           OfObjects == UNION {OfObject(x) : x \in Objects}
<1>1. Seen = OfPids \cup OfObjects
  BY DEF Seen
<1>2. \A p \in Pids : OfPid(p) \subseteq OfPids
  <2> HIDE DEF OfPid
  <2> QED OBVIOUS
<1>3. \A x \in Objects : OfObject(x) \subseteq OfObjects
  <2> HIDE DEF OfObject
  <2> QED OBVIOUS
<1>4. \A x \in Objects : call[x].cmd \in OfObject(x)
                         /\ \A l \in Range(queue[x]) : l.cmd \in OfObject(x)
  BY DEF LinesAbout
<1>5. \A p \in Pids : /\ Range(stdin[p]) \subseteq OfPid(p)
                      /\ \A l \in Range(pipe[p]) \cup Range(reader[p].line) : l.cmd \in OfPid(p)
  BY DEF LinesFrom
<1> HIDE DEF OfPid, OfObject, OfPids, OfObjects
<1> QED BY <1>1, <1>2, <1>3, <1>4, <1>5

\* A call takes a command that nothing is about.
LEMMA OrderAsk ==
    ASSUME TypeOK, OrderInv, NEW o \in Objects, Ask(o)
    PROVE  OrderInv'
<1>0. PICK c : c = call'[o].cmd
  OBVIOUS
<1>1. c \in Unused /\ call'[o].pc \in {"start", "write"} /\ call[o].pc = "idle"
  BY <1>0 DEF Ask, TypeOK
<1>2. \A x \in Objects \ {o} : call'[x] = call[x]
  BY DEF Ask, TypeOK
<1>3. UNCHANGED <<handle, queue, pipe, reader, stdin, proc>>
  BY DEF Ask, procVars
<1>4. c \in Cmds /\ c \notin Seen
  BY <1>1 DEF Unused
<1>5. \A x \in Objects : call[x].cmd # c
  BY <1>4, SeenHas
<1>6. \A p \in Pids : ~WaitsAt(c, p)
  BY <1>4, SeenHas DEF WaitsAt
<1>7. \A x \in Objects : Marker(c) \notin Range(queue[x])
  BY <1>4, SeenHas DEF Marker
<1>8. \A p \in Pids : Marker(c) \notin Range(pipe[p]) /\ Marker(c) \notin Range(reader[p].line)
  BY <1>4, SeenHas DEF Marker
<1>9. \A x : Out(x)' <=> Out(x)
  BY <1>3, OutSame
<1>10. \A x, p : WaitsAt(x, p)' <=> WaitsAt(x, p)
  BY <1>3 DEF WaitsAt
<1>11. CmdsApart'
  BY <1>0, <1>2, <1>5 DEF OrderInv, CmdsApart
<1>12. Unwritten'
  <2> SUFFICES ASSUME NEW x \in Objects, call'[x].pc \in {"start", "write"}
               PROVE  (~Out(call[x].cmd) /\ \A p \in Pids : ~WaitsAt(call[x].cmd, p))'
    BY DEF Unwritten
  <2>1. CASE x = o
    <3>1. ~Out(c)
      BY <1>7, <1>8 DEF Out
    <3>2. ~Out(c)' /\ \A p \in Pids : ~WaitsAt(c, p)'
      BY <1>3, <1>6, <3>1 DEF Out, WaitsAt
    <3> QED BY <1>0, <2>1, <3>2
  <2>2. CASE x # o
    <3>0. PICK d : d = call[x].cmd
      OBVIOUS
    <3>1. ~Out(d) /\ \A p \in Pids : ~WaitsAt(d, p)
      BY <1>2, <2>2, <3>0 DEF OrderInv, Unwritten
    <3>2. ~Out(d)' /\ \A p \in Pids : ~WaitsAt(d, p)'
      BY <1>3, <3>1 DEF Out, WaitsAt
    <3> QED BY <1>2, <2>2, <3>0, <3>2
  <2> QED BY <2>1, <2>2
<1>13. InHand'
  BY <1>1, <1>2, <1>3 DEF OrderInv, InHand
<1>14. WaitsOnce' /\ MarkersPast'
  BY <1>9, <1>10 DEF OrderInv, WaitsOnce, MarkersPast
<1>15. HandlesApart' /\ UnbornEmpty' /\ OneAtATime'
  BY <1>3 DEF OrderInv, HandlesApart, UnbornEmpty, OneAtATime
<1> QED BY <1>11, <1>12, <1>13, <1>14, <1>15 DEF OrderInv

\* The new process is nobody's and has nothing to do.
LEMMA OrderStart ==
    ASSUME TypeOK, LifeInv, CallsNamed, OrderInv, NEW o \in Objects, Start(o)
    PROVE  OrderInv'
<1>1. PICK p \in UnbornPids :
          /\ handle' = [handle EXCEPT ![o] = p]
          /\ proc' = [proc EXCEPT ![p] = "live"]
          /\ reader' = [reader EXCEPT ![p] = [on |-> p, line |-> <<>>, owner |-> o]]
  BY DEF Start
<1>2. p \in Pids /\ proc[p] = "unborn" /\ stdin[p] = <<>>
  BY DEF UnbornPids, OrderInv, UnbornEmpty
<1>3. \A x \in Objects : handle[x] # p
  BY <1>2, Constants DEF LifeInv, HandlesBorn
<1>4. handle'[o] = p /\ \A x \in Objects \ {o} : handle'[x] = handle[x]
  BY <1>1 DEF TypeOK
<1>5. UNCHANGED <<stdin, pipe>>
  BY DEF Start
<1>6. queue'[o] = <<>> /\ \A x \in Objects \ {o} : queue'[x] = queue[x]
  BY DEF Start, FreshQueue, TypeOK
<1>7. reader'[p].line = <<>> /\ \A q \in Pids \ {p} : reader'[q] = reader[q]
  BY <1>1, <1>2 DEF TypeOK
<1>8. OutShrinks
  BY <1>5, <1>6, <1>7, RangeEmpty DEF Out, OutShrinks
<1>9. /\ call[o].pc = "start" /\ call'[o].pc = "write" /\ call'[o].cmd = call[o].cmd
      /\ \A x \in Objects \ {o} : call'[x] = call[x]
  BY DEF Start, Goto, TypeOK, Calls
<1>10. \A x, q : WaitsAt(x, q)' <=> WaitsAt(x, q)
  BY <1>5 DEF WaitsAt
<1>11. CmdsApart'
  BY <1>9 DEF OrderInv, CmdsApart
<1>12. HandlesApart'
  BY <1>3, <1>4 DEF OrderInv, HandlesApart
<1>13. Unwritten'
  <2> SUFFICES ASSUME NEW x \in Objects, call'[x].pc \in {"start", "write"}
               PROVE  (~Out(call[x].cmd) /\ \A q \in Pids : ~WaitsAt(call[x].cmd, q))'
    BY DEF Unwritten
  <2>0. PICK d : d = call[x].cmd
    OBVIOUS
  <2>1. call'[x].cmd = d /\ call[x].pc \in {"start", "write"}
    BY <1>9, <2>0
  <2>2. d \in Cmds /\ ~Out(d) /\ \A q \in Pids : ~WaitsAt(d, q)
    BY <2>0, <2>1 DEF OrderInv, Unwritten, CallsNamed
  <2>3. ~Out(d)' /\ \A q \in Pids : ~WaitsAt(d, q)'
    BY <1>5, <1>8, <2>2 DEF OutShrinks, WaitsAt
  <2> QED BY <2>1, <2>3
<1>14. InHand'
  <2> SUFFICES ASSUME NEW x \in Objects, handle'[x] # None
               PROVE  \/ stdin'[handle'[x]] = <<>>
                      \/ call'[x].pc \in {"read", "stop"} /\ stdin'[handle'[x]] = <<call'[x].cmd>>
    BY DEF InHand
  <2>1. CASE x = o
    BY <1>2, <1>4, <1>5, <2>1
  <2>2. CASE x # o
    BY <1>4, <1>5, <1>9, <2>2 DEF OrderInv, InHand
  <2> QED BY <2>1, <2>2
<1>15. WaitsOnce' /\ MarkersPast'
  BY <1>8, <1>10 DEF OrderInv, WaitsOnce, MarkersPast, OutShrinks
<1>16. UnbornEmpty' /\ OneAtATime'
  BY <1>1, <1>5 DEF OrderInv, UnbornEmpty, OneAtATime, TypeOK
<1> QED BY <1>11, <1>12, <1>13, <1>14, <1>15, <1>16 DEF OrderInv

\* The process has nothing to do, and nothing is about the command.
LEMMA OrderWrite ==
    ASSUME TypeOK, CallsNamed, OrderInv, NEW o \in Objects, Write(o)
    PROVE  OrderInv'
<1>0. PICK c : c = call[o].cmd
  OBVIOUS
<1>1. PICK p : p = handle[o]
  OBVIOUS
<1>2. call[o].pc = "write" /\ call'[o].pc = "read" /\ call'[o].cmd = c
      /\ \A x \in Objects \ {o} : call'[x] = call[x]
  BY <1>0 DEF Write, Goto, TypeOK, Calls
<1>3. c \in Cmds /\ p \in Pids /\ stdin[p] = <<>> /\ proc[p] = "live"
  BY <1>0, <1>1, <1>2 DEF Write, Runs, TypeOK, CallsNamed, OrderInv, InHand
<1>4. stdin'[p] = <<c>> /\ \A q \in Pids \ {p} : stdin'[q] = stdin[q]
  <2>1. stdin'[p] = Append(<<>>, c)
    BY <1>0, <1>1, <1>3 DEF Write, TypeOK
  <2> QED BY <1>1, <2>1 DEF Write, TypeOK
<1>5. UNCHANGED <<handle, proc, queue, pipe, reader>>
  BY DEF Write
<1>6. ~Out(c) /\ \A q \in Pids : ~WaitsAt(c, q)
  BY <1>0, <1>2 DEF OrderInv, Unwritten
<1>7. \A d : \A q \in Pids : WaitsAt(d, q)' <=> WaitsAt(d, q) \/ (d = c /\ q = p)
  BY <1>3, <1>4, RangeOne, RangeEmpty DEF WaitsAt
<1>8. \A d : Out(d)' <=> Out(d)
  BY <1>5, OutSame
<1>9. CmdsApart'
  BY <1>0, <1>2 DEF OrderInv, CmdsApart
<1>10. WaitsOnce'
  BY <1>6, <1>7 DEF OrderInv, WaitsOnce
<1>11. Unwritten'
  <2> SUFFICES ASSUME NEW x \in Objects, call'[x].pc \in {"start", "write"}
               PROVE  (~Out(call[x].cmd) /\ \A q \in Pids : ~WaitsAt(call[x].cmd, q))'
    BY DEF Unwritten
  <2>0. PICK d : d = call[x].cmd
    OBVIOUS
  <2>1. x # o /\ call'[x] = call[x]
    BY <1>2
  <2>2. d # c
    BY <1>0, <1>3, <2>0, <2>1, Constants DEF OrderInv, CmdsApart
  <2>3. ~Out(d) /\ \A q \in Pids : ~WaitsAt(d, q)
    BY <2>0, <2>1 DEF OrderInv, Unwritten
  <2>4. ~Out(d)' /\ \A q \in Pids : ~WaitsAt(d, q)'
    BY <1>7, <1>8, <2>2, <2>3
  <2> QED BY <2>0, <2>1, <2>4
<1>12. MarkersPast'
  BY <1>6, <1>7, <1>8 DEF OrderInv, MarkersPast
<1>13. InHand'
  <2> SUFFICES ASSUME NEW x \in Objects, handle'[x] # None
               PROVE  \/ stdin'[handle'[x]] = <<>>
                      \/ call'[x].pc \in {"read", "stop"} /\ stdin'[handle'[x]] = <<call'[x].cmd>>
    BY DEF InHand
  <2>1. CASE x = o
    BY <1>1, <1>2, <1>4, <1>5, <2>1
  <2>2. CASE x # o
    <3>1. handle[x] # p /\ handle[x] \in Pids
      BY <1>1, <1>5, <2>2 DEF OrderInv, HandlesApart, TypeOK
    <3> QED BY <1>2, <1>4, <1>5, <2>2, <3>1 DEF OrderInv, InHand
  <2> QED BY <2>1, <2>2
<1>14. OneAtATime'
  <2>1. Len(<<c>>) <= 1
    OBVIOUS
  <2> QED BY <1>4, <2>1 DEF OrderInv, OneAtATime
<1>15. HandlesApart' /\ UnbornEmpty'
  BY <1>3, <1>4, <1>5 DEF OrderInv, HandlesApart, UnbornEmpty
<1> QED BY <1>9, <1>10, <1>11, <1>12, <1>13, <1>14, <1>15 DEF OrderInv

\* The command leaves the process as its marker comes out.
LEMMA OrderEmitMarker ==
    ASSUME TypeOK, CallsNamed, OrderInv, NEW p \in Pids, EmitMarker(p)
    PROVE  OrderInv'
<1>0. PICK c : c = Current(p)
  OBVIOUS
<1>1. stdin[p] \in Seq(Cmds) /\ stdin[p] # <<>> /\ Len(stdin[p]) <= 1
  BY DEF TypeOK, EmitMarker, Busy, OrderInv, OneAtATime
<1>2. c \in Cmds /\ WaitsAt(c, p)
  BY <1>0, <1>1, RangeTail DEF Current, WaitsAt
<1>3. Tail(stdin[p]) = <<>>
  BY <1>1
<1>4. stdin'[p] = <<>> /\ \A q \in Pids \ {p} : stdin'[q] = stdin[q]
  BY <1>3 DEF EmitMarker, TypeOK
<1>5. \A d : \A q \in Pids : WaitsAt(d, q)' => WaitsAt(d, q) /\ q # p
  BY <1>4, RangeEmpty DEF WaitsAt
<1>6. \A d \in Cmds : Out(d)' => Out(d) \/ d = c
  <2>1. pipe'[p] = Append(pipe[p], Marker(c)) /\ \A q \in Pids \ {p} : pipe'[q] = pipe[q]
    BY <1>0 DEF EmitMarker, TypeOK
  <2>2. pipe[p] \in Seq(Line) /\ Marker(c) \in Line
    BY <1>2, LineFacts DEF TypeOK
  <2>3. \A e : e \in Range(pipe'[p]) <=> e \in Range(pipe[p]) \/ e = Marker(c)
    BY <2>1, <2>2, RangeAppend
  <2>4. \A d : Marker(d) = Marker(c) => d = c
    BY DEF Marker
  <2>5. UNCHANGED <<queue, reader>>
    BY DEF EmitMarker
  <2> QED BY <2>1, <2>3, <2>4, <2>5 DEF Out
<1>7. UNCHANGED <<handle, proc, call>>
  BY DEF EmitMarker
<1>8. CmdsApart' /\ HandlesApart'
  BY <1>7 DEF OrderInv, CmdsApart, HandlesApart
<1>9. WaitsOnce'
  BY <1>5 DEF OrderInv, WaitsOnce
<1>10. Unwritten'
  <2> SUFFICES ASSUME NEW x \in Objects, call'[x].pc \in {"start", "write"}
               PROVE  (~Out(call[x].cmd) /\ \A q \in Pids : ~WaitsAt(call[x].cmd, q))'
    BY DEF Unwritten
  <2>0. PICK d : d = call[x].cmd
    OBVIOUS
  <2>1. d \in Cmds /\ ~Out(d) /\ \A q \in Pids : ~WaitsAt(d, q)
    BY <1>7, <2>0 DEF OrderInv, Unwritten, CallsNamed
  <2>2. d # c
    BY <1>2, <2>1
  <2>3. ~Out(d)' /\ \A q \in Pids : ~WaitsAt(d, q)'
    BY <1>5, <1>6, <2>1, <2>2
  <2> QED BY <1>7, <2>0, <2>3
<1>11. MarkersPast'
  <2> SUFFICES ASSUME NEW d \in Cmds, Out(d)', NEW q \in Pids, WaitsAt(d, q)' PROVE FALSE
    BY DEF MarkersPast
  <2>1. WaitsAt(d, q) /\ q # p
    BY <1>5
  <2>2. CASE d = c
    BY <1>2, <2>1, <2>2 DEF OrderInv, WaitsOnce
  <2>3. CASE d # c
    BY <1>6, <2>1, <2>3 DEF OrderInv, MarkersPast
  <2> QED BY <2>2, <2>3
<1>12. InHand'
  <2>1. \A x \in Objects : handle[x] # None =>
            stdin'[handle[x]] = stdin[handle[x]] \/ stdin'[handle[x]] = <<>>
    BY <1>4 DEF TypeOK
  <2> QED BY <1>7, <2>1 DEF OrderInv, InHand
<1>13. UnbornEmpty' /\ OneAtATime'
  <2>1. Len(<<>>) = 0
    OBVIOUS
  <2> QED BY <1>4, <1>7, <2>1 DEF OrderInv, UnbornEmpty, OneAtATime
<1> QED BY <1>8, <1>9, <1>10, <1>11, <1>12, <1>13 DEF OrderInv

-----------------------------------------------------------------------------
(***************************************************************************)
(* The steps that only let go.                                             *)
(***************************************************************************)
LEMMA OrderSame ==
    ASSUME TypeOK, CallsNamed, OrderInv, OutShrinks, UNCHANGED <<stdin, handle, proc, call>>
    PROVE  OrderInv'
BY OrderShrinks DEF StdinShrinks, CallGoes

\* A call ends whose process has nothing to do.
LEMMA OrderFinish ==
    ASSUME TypeOK, CallsNamed, OrderInv, OutShrinks, UNCHANGED <<stdin, handle, proc>>,
           NEW o \in Objects, NEW r, Finish(o, r),
           handle[o] # None => stdin[handle[o]] = <<>>
    PROVE  OrderInv'
<1>1. call'[o] = Idle /\ \A x \in Objects \ {o} : call'[x] = call[x]
  BY DEF Finish, TypeOK
<1>2. \A x \in Objects : CallGoes(x)
  BY <1>1 DEF Idle, CallGoes
<1> QED BY <1>2, OrderShrinks DEF StdinShrinks

LEMMA OrderAnswer ==
    ASSUME TypeOK, CallsNamed, OrderInv, NEW o \in Objects, Answer(o)
    PROVE  OrderInv'
<1>1. OutShrinks /\ Out(call[o].cmd)
  BY OutOfQueue DEF Answer, procVars
<1>2. call[o].cmd \in Cmds
  BY DEF Answer, TakeLine, CallsNamed
<1>3. handle[o] # None => stdin[handle[o]] = <<>>
  <2> SUFFICES ASSUME handle[o] # None PROVE stdin[handle[o]] # <<call[o].cmd>>
    BY DEF OrderInv, InHand
  <2>1. handle[o] \in Pids
    BY DEF TypeOK
  <2>2. ~WaitsAt(call[o].cmd, handle[o])
    BY <1>1, <1>2, <2>1 DEF OrderInv, MarkersPast
  <2> QED BY <2>2, RangeOne DEF WaitsAt
<1>4. UNCHANGED <<stdin, handle, proc>>
  BY DEF Answer, procVars
<1> QED BY <1>1, <1>3, <1>4, OrderFinish DEF Answer

LEMMA OrderStopped ==
    ASSUME TypeOK, CallsNamed, OrderInv, NEW o \in Objects, StopAfterTimeout(o) \/ StopVivado(o)
    PROVE  OrderInv'
<1>1. Stopped(o)
  BY DEF StopAfterTimeout, StopVivado
<1>2. handle'[o] = None /\ \A x \in Objects \ {o} : handle'[x] = handle[x]
  BY <1>1 DEF Stopped, TypeOK
<1>3. StdinShrinks
  BY <1>1 DEF Stopped, Ended, StdinShrinks, TypeOK
<1>4. \A p \in Pids : proc'[p] = "unborn" => proc[p] = "unborn"
  BY <1>1 DEF Stopped, Ended, TypeOK
<1>5. OutShrinks
  BY <1>1, OutSame DEF Stopped, OutShrinks
<1>6. \A x \in Objects : CallGoes(x)
  <2>1. CASE StopAfterTimeout(o)
    <3>1. call'[o] = Idle /\ \A x \in Objects \ {o} : call'[x] = call[x]
      BY <2>1 DEF StopAfterTimeout, Finish, TypeOK
    <3> QED BY <1>2, <3>1 DEF Idle, CallGoes
  <2>2. CASE StopVivado(o)
    BY <2>2 DEF StopVivado, CallGoes
  <2> QED BY <2>1, <2>2
<1> QED BY <1>2, <1>3, <1>4, <1>5, <1>6, OrderShrinks

LEMMA OrderCalls ==
    ASSUME TypeOK, CallsNamed, LifeInv, OrderInv, NEW o \in Objects, Step(o)
    PROVE  OrderInv'
<1>1. CASE StartRefused(o) \/ StartFailed(o) \/ WriteFails(o)
  <2>1. PICK r : Finish(o, r)
    BY <1>1 DEF StartRefused, StartFailed, WriteFails
  <2>2. OutShrinks /\ UNCHANGED <<stdin, handle, proc>>
    BY <1>1, OutSame DEF StartRefused, StartFailed, WriteFails, procVars, OutShrinks
  <2>3. handle[o] # None => stdin[handle[o]] = <<>>
    BY <1>1 DEF StartRefused, StartFailed, WriteFails, OrderInv, InHand
  <2> QED BY <2>1, <2>2, <2>3, OrderFinish
<1>2. CASE CollectLine(o)
  <2>1. OutShrinks
    BY <1>2, OutOfQueue DEF CollectLine, procVars
  <2>2. \A x \in Objects : CallGoes(x)
    BY <1>2 DEF CollectLine, TypeOK, Calls, CallGoes
  <2> QED BY <1>2, <2>1, <2>2, OrderShrinks DEF CollectLine, procVars, StdinShrinks
<1>3. CASE Timeout(o)
  <2>1. OutShrinks
    BY <1>3, OutSame DEF Timeout, procVars, OutShrinks
  <2>2. \A x \in Objects : CallGoes(x)
    BY <1>3 DEF Timeout, Goto, TypeOK, Calls, CallGoes
  <2> QED BY <1>3, <2>1, <2>2, OrderShrinks DEF Timeout, procVars, StdinShrinks
<1> QED BY <1>1, <1>2, <1>3, OrderStart, OrderWrite, OrderAnswer, OrderStopped DEF Step

LEMMA OrderReads ==
    ASSUME TypeOK, CallsNamed, OrderInv, NEW r \in Pids, Reads(r)
    PROVE  OrderInv'
<1>1. OutShrinks
  BY OutReadLine, OutPutLine, OutEndOfFile DEF Reads
<1> QED BY <1>1, OrderSame DEF Reads, ReadLine, PutLine, EndOfFile, procVars

LEMMA OrderEnds ==
    ASSUME TypeOK, CallsNamed, OrderInv, NEW p \in Pids, Ends(p)
    PROVE  OrderInv'
<1>1. OutShrinks
  BY OutSame DEF Ends, OutShrinks
<1>2. StdinShrinks /\ \A q \in Pids : proc'[q] = "unborn" => proc[q] = "unborn"
  BY DEF Ends, Ended, StdinShrinks, TypeOK
<1>3. \A x \in Objects : CallGoes(x) /\ handle'[x] \in {handle[x], None}
  BY DEF Ends, CallGoes
<1> QED BY <1>1, <1>2, <1>3, OrderShrinks

LEMMA OrderNext ==
    ASSUME TypeOK, CallsNamed, LifeInv, OrderInv, [Next]_vars
    PROVE  OrderInv'
<1>1. CASE UNCHANGED vars
  BY <1>1, OutSame, OrderSame DEF vars, OutShrinks
<1>2. ASSUME NEW s \in Sessions, CreateSession(s) \/ LoadSession(s) \/ DestroySession(s)
      PROVE  OrderInv'
  BY <1>2, OutSame, OrderSame
     DEF CreateSession, LoadSession, DestroySession, NewObject, procVars, OutShrinks
<1>3. ASSUME NEW o \in Objects, Ask(o) \/ Step(o) \/ StopVivado(o)
      PROVE  OrderInv'
  BY <1>3, OrderAsk, OrderCalls, OrderStopped
<1>4. ASSUME NEW p \in Pids, NEW kind \in {"text", "error"}, Emit(p, kind)
      PROVE  OrderInv'
  BY <1>4, OutEmit, OrderSame DEF Emit
<1>5. ASSUME NEW p \in Pids, EmitMarker(p) \/ Crash(p) \/ OrphanEnds(p) \/ Reads(p)
      PROVE  OrderInv'
  BY <1>5, OrderEmitMarker, OrderEnds, OrderReads DEF Crash, OrphanEnds
<1> QED BY <1>1, <1>2, <1>3, <1>4, <1>5 DEF Next

LEMMA OrderInit == Init => OrderInv
<1> SUFFICES ASSUME Init PROVE OrderInv
  OBVIOUS
<1>1. \A c : ~Out(c)
  BY RangeEmpty DEF Init, Out, Gone
<1>2. \A c : \A p \in Pids : ~WaitsAt(c, p)
  BY RangeEmpty DEF Init, WaitsAt
<1>3. CmdsApart /\ HandlesApart /\ InHand
  BY DEF Init, Idle, CmdsApart, HandlesApart, InHand
<1>4. WaitsOnce /\ Unwritten /\ MarkersPast
  BY <1>1, <1>2 DEF WaitsOnce, Unwritten, MarkersPast
<1>5. UnbornEmpty /\ OneAtATime
  <2>1. Len(<<>>) = 0
    OBVIOUS
  <2> QED BY <2>1 DEF Init, UnbornEmpty, OneAtATime
<1> QED BY <1>3, <1>4, <1>5 DEF OrderInv

\* No command is written to a process that has not answered the one before,
\* whatever timed out, crashed or was reloaded, even where an old reader
\* delivers its lines late: a marker is of one command and comes after it.
THEOREM CommandsInTurn == Spec => []OneAtATime
<1>1. SessionInv /\ OrderInv /\ [Next]_vars => OrderInv'
  BY OrderNext DEF SessionInv
<1>2. Spec => []OrderInv
  BY <1>1, OrderInit, SessionInvAlways, PTL DEF Spec
<1>3. OrderInv => OneAtATime
  BY DEF OrderInv
<1> QED BY <1>2, <1>3, PTL
=============================================================================
