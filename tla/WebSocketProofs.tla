--------------------------- MODULE WebSocketProofs ---------------------------
(***************************************************************************)
(* Proofs about WebSocket, for any stack of layers, any units the peer     *)
(* sends and any bounds: what is accepted leaves the socket whole and in   *)
(* order, a closed WebSocket keeps nothing, and connecting and closing     *)
(* come to an end that the application hears of.                           *)
(***************************************************************************)
EXTENDS WebSocket, FiniteSetTheorems, SequenceTheorems, TLAPS

Threads == {"caller", "poll", "pool"}
Kinds == {"init", "store", "check", "pollIn", "idle", "in", "out", "error", "doRecv"}
LayerStates == {"idle", "connecting", "connected", "disconnected", "failed"}
Over == {"disconnected", "failed"}

\* What is written to the socket.
Heads == {<<x>> : x \in {"GET", "101", "CLOSE", "PONG", "PING", "hello", "CONNECT"}}
           \cup {<<"error", c>> : c \in Nat}
Written == Heads \cup ({"data"} \X Nat \X {1, 2})

Sides == {"client", "server"}
StackSets == Stacks \cap SUBSET {"proxy", "tls"}
SocketStates == {"closed", "connecting", "open", "closing"}
ServerStates == {"new", "listening", "closing", "stopped"}
LayerSets == SUBSET Layer
TaskSets == SUBSET {"resolve", "attempt", "doRecv"}
TimerSets == SUBSET {"connection", "close"}
LayerTables == [Layer -> LayerStates]
CallChains == [Threads -> Seq(Kinds \X Layer)]
Sockets == {"none", "up"}
Pollings == {"none", "connect", "in", "both"}
InputEnds == {"none", "fin", "reset"}
Streams == Seq(Written)
Inboxes == Seq(Units)
TlsQueues == Seq(Units \cup {"idle"})
Logs == Seq({"open", "closed", "error"})

States ==
  [role : Sides, stack : StackSets, st : SocketStates, opened : BOOLEAN, server : ServerStates,
   slot : LayerSets, cb : LayerSets, recv : BOOLEAN, tear : LayerSets,
   tasks : TaskSets, timers : TimerSets, ts : LayerTables, pc : CallChains,
   sock : Sockets, poll : Pollings, room : Nat, addrs : Nat, eof : InputEnds,
   inbox : Inboxes, heard : Nat, sendq : Streams, wire : Streams, tlsq : TlsQueues,
   tlsEnd : BOOLEAN, hello : BOOLEAN, closeSent : BOOLEAN, pings : Nat, idles : Nat,
   accepted : Nat, got : Nat, reports : Logs]

LEMMA Positions ==
  /\ Layer = {"tcp", "proxy", "tls", "ws"}
  /\ Pos("tcp") = 1 /\ Pos("proxy") = 2 /\ Pos("tls") = 3 /\ Pos("ws") = 4
<1>1. Layer = {"tcp", "proxy", "tls", "ws"}
  <2>1. DOMAIN Layers = 1 .. 4
    BY DEF Layers
  <2>2. Layers[1] = "tcp" /\ Layers[2] = "proxy" /\ Layers[3] = "tls" /\ Layers[4] = "ws"
    BY DEF Layers
  <2> QED BY <2>1, <2>2 DEF Layer, Range
<1>2. ASSUME NEW l, NEW j \in 1 .. 4, Layers[j] = l PROVE Pos(l) = j
  <2>1. \A i \in 1 .. 4 : Layers[i] = l => i = j
    BY <1>2 DEF Layers
  <2> QED BY <1>2, <2>1 DEF Pos
<1> QED BY <1>1, <1>2 DEF Layers

-----------------------------------------------------------------------------
(* Writing to the socket.                                                  *)

\* r is s but for the stream and the polling, and the socket is up to have taken
\* or queued m.
Same(s, r) ==
  /\ r.role = s.role /\ r.stack = s.stack /\ r.st = s.st /\ r.opened = s.opened
  /\ r.server = s.server /\ r.slot = s.slot /\ r.cb = s.cb /\ r.recv = s.recv
  /\ r.tear = s.tear /\ r.tasks = s.tasks /\ r.timers = s.timers /\ r.ts = s.ts
  /\ r.pc = s.pc /\ r.sock = s.sock /\ r.addrs = s.addrs /\ r.eof = s.eof
  /\ r.inbox = s.inbox /\ r.heard = s.heard /\ r.tlsq = s.tlsq /\ r.tlsEnd = s.tlsEnd
  /\ r.hello = s.hello /\ r.closeSent = s.closeSent /\ r.pings = s.pings
  /\ r.idles = s.idles /\ r.accepted = s.accepted /\ r.got = s.got /\ r.reports = s.reports

Writes(s, r, m) ==
  /\ r \in States /\ Same(s, r)
  /\ r.poll \in {s.poll, "both"}
  /\ r.wire \o r.sendq = (s.wire \o s.sendq) \o m

LEMMA MinOfTwo ==
  ASSUME NEW a \in Nat, NEW b \in Nat
  PROVE  Min({a, b}) \in Nat /\ Min({a, b}) <= a /\ Min({a, b}) <= b
<1>1. CASE a <= b
  <2>1. a \in {a, b} /\ \A y \in {a, b} : a <= y
    BY <1>1
  <2> QED BY <2>1, SMT DEF Min
<1>2. CASE b < a
  <2>1. b \in {a, b} /\ \A y \in {a, b} : b <= y
    BY <1>2
  <2> QED BY <2>1, SMT DEF Min
<1> QED BY <1>1, <1>2

LEMMA Split ==
  ASSUME NEW S, NEW q \in Seq(S), NEW n \in Nat, n <= Len(q)
  PROVE  /\ SubSeq(q, 1, n) \in Seq(S) /\ SubSeq(q, n + 1, Len(q)) \in Seq(S)
         /\ SubSeq(q, 1, n) \o SubSeq(q, n + 1, Len(q)) = q
         /\ SubSeq(q, n + 1, Len(q)) = <<>> <=> n = Len(q)
<1>1. \A i \in 1 .. Len(q) : q[i] \in S
  OBVIOUS
<1>2. SubSeq(q, 1, n) \in Seq(S)
  BY <1>1, SubSeqProperties
<1>3. SubSeq(q, n + 1, Len(q)) \in Seq(S)
  BY <1>1, SubSeqProperties
<1>4. SubSeq(q, 1, n) \o SubSeq(q, n + 1, Len(q)) = SubSeq(q, 1, Len(q))
  <2>1. 1 \in 1 .. Len(q) + 1 /\ n \in 1 - 1 .. Len(q) /\ Len(q) \in n .. Len(q)
    OBVIOUS
  <2> QED BY <2>1, ConcatAdjacentSubSeq, Zenon
<1>5. SubSeq(q, 1, Len(q)) = q
  BY SubSeqFull
<1>6. SubSeq(q, n + 1, Len(q)) = <<>> <=> n = Len(q)
  <2>1. Len(SubSeq(q, n + 1, Len(q))) = IF n + 1 <= Len(q) THEN Len(q) - n ELSE 0
    BY <1>1, SubSeqProperties
  <2>2. CASE n = Len(q)
    <3>1. SubSeq(q, n + 1, Len(q)) = <<>>
      BY <2>2, SubSeqEmpty
    <3> QED BY <3>1, <2>2
  <2>3. CASE n # Len(q)
    <3>1. Len(SubSeq(q, n + 1, Len(q))) # 0
      BY <2>1, <2>3
    <3> QED BY <3>1, <2>3, EmptySeq
  <2> QED BY <2>2, <2>3
<1> QED BY <1>2, <1>3, <1>4, <1>5, <1>6

LEMMA Joins ==
  \A a, b, c \in Seq(Written) : (a \o b) \o c = a \o (b \o c)
BY ConcatAssociative

LEMMA TrySendQueueWrites ==
  ASSUME NEW s \in States
  PROVE  Writes(s, TrySendQueue(s), <<>>) /\ TrySendQueue(s).poll = s.poll
<1> DEFINE n == Min({Len(s.sendq), s.room})
           a == s.wire \o SubSeq(s.sendq, 1, n)
           b == SubSeq(s.sendq, n + 1, Len(s.sendq))
           c == s.room - n
           r == [s EXCEPT !.wire = a, !.sendq = b, !.room = c]
<1>1. s.sendq \in Seq(Written) /\ s.wire \in Seq(Written) /\ s.room \in Nat
  BY DEF States, Streams
<1>2. n \in Nat /\ n <= Len(s.sendq) /\ n <= s.room
  BY <1>1, MinOfTwo
<1>3. a \in Seq(Written) /\ b \in Seq(Written) /\ c \in Nat
  <2> HIDE DEF n
  <2> QED BY <1>1, <1>2, Split
<1>4. a \o b = (s.wire \o s.sendq) \o <<>>
  <2> HIDE DEF n
  <2>1. a \o b = s.wire \o (SubSeq(s.sendq, 1, n) \o b)
    <3>1. SubSeq(s.sendq, 1, n) \in Seq(Written) /\ b \in Seq(Written)
      BY <1>1, <1>2, Split
    <3> QED BY <1>1, <3>1, Joins, Zenon
  <2>2. SubSeq(s.sendq, 1, n) \o b = s.sendq
    BY <1>1, <1>2, Split
  <2>3. s.wire \o s.sendq \in Seq(Written)
    BY <1>1
  <2> QED BY <2>1, <2>2, <2>3, ConcatEmptySeq
<1>5. TrySendQueue(s) = r
  BY DEF TrySendQueue
<1> HIDE DEF a, b, c
<1>6. r \in States /\ Same(s, r) /\ r.poll = s.poll /\ r.wire = a /\ r.sendq = b
  BY <1>3 DEF States, Streams, Same
<1> QED BY <1>4, <1>5, <1>6 DEF Writes

LEMMA OutgoingWrites ==
  ASSUME NEW s \in States, NEW m \in Seq(Written)
  PROVE  Writes(s, Outgoing(s, m), m)
<1> DEFINE q == TrySendQueue(s)
           n == IF q.sendq = <<>> THEN Min({Len(m), q.room}) ELSE 0
           a == q.wire \o SubSeq(m, 1, n)
           b == q.sendq \o SubSeq(m, n + 1, Len(m))
           c == q.room - n
           d == IF n < Len(m) THEN "both" ELSE q.poll
           r == [q EXCEPT !.wire = a, !.room = c, !.sendq = b, !.poll = d]
<1>1. q \in States /\ Same(s, q) /\ q.poll = s.poll /\ q.wire \o q.sendq = (s.wire \o s.sendq) \o <<>>
  BY TrySendQueueWrites DEF Writes
<1>2. Outgoing(s, m) = r
  BY DEF Outgoing
<1> HIDE DEF q
<1>3. q.sendq \in Seq(Written) /\ q.wire \in Seq(Written) /\ q.room \in Nat /\ q.poll \in {"none", "connect", "in", "both"}
  BY <1>1 DEF States, Streams, Pollings
<1>4. s.sendq \in Seq(Written) /\ s.wire \in Seq(Written)
  BY DEF States, Streams
<1>5. n \in Nat /\ n <= Len(m) /\ n <= q.room
  BY <1>3, MinOfTwo
<1>6. q.wire \o q.sendq = s.wire \o s.sendq
  <2>1. s.wire \o s.sendq \in Seq(Written)
    BY <1>4
  <2> QED BY <1>1, <2>1, ConcatEmptySeq
<1>7. n # 0 => q.sendq = <<>>
  OBVIOUS
<1> HIDE DEF n
<1> DEFINE x == SubSeq(m, 1, n)
           y == SubSeq(m, n + 1, Len(m))
<1>8. x \in Seq(Written) /\ y \in Seq(Written) /\ x \o y = m
  BY <1>5, Split
<1> HIDE DEF x, y
<1>9. a \in Streams /\ b \in Streams /\ c \in Nat /\ d \in {"both", q.poll} /\ d \in Pollings
  <2>1. a = q.wire \o x /\ b = q.sendq \o y
    BY DEF x, y
  <2>2. a \in Seq(Written) /\ b \in Seq(Written)
    BY <2>1, <1>3, <1>8, ConcatProperties, Zenon
  <2> QED BY <2>2, <1>3, <1>5 DEF Streams, Pollings
<1>10. a \o b = (q.wire \o q.sendq) \o m
  <2>1. CASE n = 0
    <3>1. x = <<>> /\ y = m
      BY <2>1, SubSeqEmpty, SubSeqFull, <1>5 DEF x, y
    <3>2. a = q.wire /\ b = q.sendq \o m
      BY <3>1, <1>3, ConcatEmptySeq DEF x, y
    <3>3. (q.wire \o q.sendq) \o m = q.wire \o (q.sendq \o m)
      BY <1>3, Joins, Zenon
    <3> QED BY <3>2, <3>3
  <2>2. CASE n # 0
    <3>1. q.sendq = <<>>
      BY <2>2, <1>7
    <3>2. b = y /\ q.wire \o q.sendq = q.wire
      BY <3>1, <1>3, <1>8, ConcatEmptySeq DEF y
    <3>3. a \o y = q.wire \o (x \o y)
      BY <1>3, <1>8, Joins, Zenon DEF x
    <3> QED BY <3>2, <3>3, <1>8
  <2> QED BY <2>1, <2>2
<1> HIDE DEF a, b, c, d
<1>11. r \in States /\ Same(q, r) /\ r.poll = d /\ r.wire = a /\ r.sendq = b
  BY <1>1, <1>9 DEF States, Same
<1>12. Same(s, r)
  BY <1>1, <1>11 DEF Same
<1> QED BY <1>1, <1>2, <1>6, <1>9, <1>10, <1>11, <1>12 DEF Writes

-----------------------------------------------------------------------------
(* The stream, as StreamInOrder reads it.                                  *)

DataAt(q, n) == {i \in 1 .. n : q[i][1] = "data"}

InOrder(q, k) ==
  /\ Cardinality(DataAt(q, Len(q))) = 2 * k
  /\ \A i \in DataAt(q, Len(q)) :
       LET n == Cardinality(DataAt(q, i))
       IN  q[i] = <<"data", (n + 1) \div 2, ((n + 1) % 2) + 1>>

LEMMA DataAtType ==
  ASSUME NEW q, NEW n \in Nat
  PROVE  IsFiniteSet(DataAt(q, n)) /\ Cardinality(DataAt(q, n)) \in Nat
<1>1. IsFiniteSet(1 .. n)
  BY FS_Interval
<1>2. IsFiniteSet(DataAt(q, n))
  BY <1>1, FS_Subset DEF DataAt
<1> QED BY <1>2, FS_CardinalityType

LEMMA HeadsAreNotData ==
  \A h \in Heads : h \in Written /\ h[1] # "data"
BY DEF Heads, Written

LEMMA PrefixCounts ==
  ASSUME NEW q \in Seq(Written), NEW m \in Seq(Written), NEW n \in 0 .. Len(q)
  PROVE  DataAt(q \o m, n) = DataAt(q, n)
<1>1. \A i \in 1 .. n : (q \o m)[i] = q[i]
  BY ConcatProperties
<1> QED BY <1>1 DEF DataAt

LEMMA HeadKeepsOrder ==
  ASSUME NEW q \in Seq(Written), NEW h \in Heads, NEW k \in Nat, InOrder(q, k)
  PROVE  InOrder(q \o <<h>>, k)
<1> DEFINE r == q \o <<h>>
           L == Len(q)
<1>1. h \in Written /\ h[1] # "data" /\ <<h>> \in Seq(Written)
  BY HeadsAreNotData
<1>2. L \in Nat /\ Len(r) = L + 1 /\ r[L + 1] = h /\ \A i \in 1 .. L : r[i] = q[i]
  <2>1. Len(<<h>>) = 1 /\ <<h>>[1] = h
    OBVIOUS
  <2> QED BY <1>1, <2>1, ConcatProperties
<1>3. \A n \in 0 .. L : DataAt(r, n) = DataAt(q, n)
  BY <1>1, PrefixCounts
<1> HIDE DEF r
<1>4. DataAt(r, L + 1) = DataAt(r, L)
  BY <1>1, <1>2 DEF DataAt
<1>5. DataAt(r, Len(r)) = DataAt(q, L)
  BY <1>2, <1>3, <1>4
<1>6. ASSUME NEW i \in DataAt(r, Len(r)) PROVE DataAt(r, i) = DataAt(q, i) /\ r[i] = q[i] /\ i \in DataAt(q, L)
  <2>1. i \in DataAt(q, L)
    BY <1>5
  <2>2. i \in 0 .. L /\ i \in 1 .. L
    BY <2>1, <1>2 DEF DataAt
  <2> QED BY <2>1, <2>2, <1>2, <1>3
<1>7. Cardinality(DataAt(r, Len(r))) = 2 * k
  BY <1>5 DEF InOrder
<1>8. ASSUME NEW i \in DataAt(r, Len(r))
      PROVE  LET n == Cardinality(DataAt(r, i))
             IN  r[i] = <<"data", (n + 1) \div 2, ((n + 1) % 2) + 1>>
  BY <1>6 DEF InOrder
<1>9. InOrder(r, k)
  BY <1>7, <1>8 DEF InOrder
<1> QED BY <1>9 DEF r

LEMMA FrameKeepsOrder ==
  ASSUME NEW q \in Seq(Written), NEW k \in Nat, InOrder(q, k)
  PROVE  SendFrame(k + 1) \in Seq(Written) /\ InOrder(q \o SendFrame(k + 1), k + 1)
<1> DEFINE a == <<"data", k + 1, 1>>
           b == <<"data", k + 1, 2>>
           r == q \o <<a, b>>
           L == Len(q)
<1>1. SendFrame(k + 1) = <<a, b>>
  BY DEF SendFrame
<1>2. a \in Written /\ b \in Written /\ a[1] = "data" /\ b[1] = "data" /\ <<a, b>> \in Seq(Written)
  BY DEF Written
<1>3. L \in Nat /\ Len(r) = L + 2 /\ r[L + 1] = a /\ r[L + 2] = b /\ \A i \in 1 .. L : r[i] = q[i]
  <2> HIDE DEF a, b
  <2>1. Len(<<a, b>>) = 2 /\ <<a, b>>[1] = a /\ <<a, b>>[2] = b
    OBVIOUS
  <2> QED BY <1>2, <2>1, ConcatProperties
<1>4. \A n \in 0 .. L : DataAt(r, n) = DataAt(q, n)
  BY <1>2, PrefixCounts
<1> HIDE DEF r
<1>5. DataAt(r, L + 1) = DataAt(q, L) \cup {L + 1} /\ L + 1 \notin DataAt(q, L)
  <2>1. DataAt(r, L + 1) = DataAt(r, L) \cup {L + 1}
    BY <1>2, <1>3 DEF DataAt
  <2>2. DataAt(r, L) = DataAt(q, L)
    BY <1>3, <1>4
  <2>3. L + 1 \notin DataAt(q, L)
    BY <1>3 DEF DataAt
  <2> QED BY <2>1, <2>2, <2>3
<1>6. DataAt(r, L + 2) = DataAt(r, L + 1) \cup {L + 2} /\ L + 2 \notin DataAt(r, L + 1)
  BY <1>2, <1>3 DEF DataAt
<1>7. Cardinality(DataAt(r, L + 1)) = 2 * k + 1
  <2>1. Cardinality(DataAt(q, L)) = 2 * k /\ IsFiniteSet(DataAt(q, L))
    BY <1>3, DataAtType DEF InOrder
  <2> QED BY <2>1, <1>5, FS_AddElement
<1>8. Cardinality(DataAt(r, L + 2)) = 2 * k + 2
  <2>1. IsFiniteSet(DataAt(r, L + 1))
    BY <1>3, DataAtType
  <2>2. Cardinality(DataAt(r, L + 1) \cup {L + 2}) = (2 * k + 1) + 1
    BY <2>1, <1>6, <1>7, FS_AddElement, Zenon
  <2>3. (2 * k + 1) + 1 = 2 * k + 2
    OBVIOUS
  <2> QED BY <2>2, <2>3, <1>6, Zenon
<1>9. ASSUME NEW i \in DataAt(r, Len(r))
      PROVE  LET n == Cardinality(DataAt(r, i))
             IN  r[i] = <<"data", (n + 1) \div 2, ((n + 1) % 2) + 1>>
  <2>1. i \in 1 .. L + 2
    BY <1>3 DEF DataAt
  <2>2. CASE i = L + 1
    <3>1. ((2 * k + 1) + 1) \div 2 = k + 1 /\ ((2 * k + 1) + 1) % 2 = 0
      OBVIOUS
    <3> QED BY <2>2, <3>1, <1>3, <1>7
  <2>3. CASE i = L + 2
    <3>1. ((2 * k + 2) + 1) \div 2 = k + 1 /\ ((2 * k + 2) + 1) % 2 = 1
      OBVIOUS
    <3> QED BY <2>3, <3>1, <1>3, <1>8
  <2>4. CASE i \in 1 .. L
    <3>1. i \in DataAt(q, L) /\ DataAt(r, i) = DataAt(q, i) /\ r[i] = q[i]
      BY <2>4, <1>3, <1>4 DEF DataAt
    <3> QED BY <3>1 DEF InOrder
  <2> QED BY <2>1, <2>2, <2>3, <2>4, <1>3
<1>10. Cardinality(DataAt(r, Len(r))) = 2 * (k + 1)
  BY <1>3, <1>8
<1>11. InOrder(r, k + 1)
  BY <1>9, <1>10 DEF InOrder
<1> QED BY <1>1, <1>2, <1>11 DEF r

-----------------------------------------------------------------------------
(* The inductive invariant.                                                *)

\* The layer above l, and the layers that have one.
Up(s, l) ==
  IF l = "tcp" /\ "proxy" \in s.stack THEN "proxy"
  ELSE IF l # "tls" /\ "tls" \in s.stack THEN "tls" ELSE "ws"

Lower(s) == InUse(s) \ {"ws"}

\* Thread t is about to make layer l.
Begins(s, t, l) == s.pc[t] # <<>> /\ s.pc[t][1] \in {<<"init", l>>, <<"store", l>>}

\* What a thread runs.
Runs(t) ==
  CASE t = "caller" -> {"init", "store", "check", "pollIn"}
    [] t = "pool"   -> {"init", "store", "check", "doRecv"}
    [] OTHER        -> Kinds \ {"doRecv"}

At(s, r) == {i \in DOMAIN s.reports : s.reports[i] = r}

\* The application hears of open once at most, and then of closed, once, when the
\* state is closed.
Told(s) ==
  /\ \A r \in {"open", "closed"} : \A i, j \in At(s, r) : i = j
  /\ \A i \in At(s, "open"), j \in At(s, "closed") : i < j
  /\ s.st = "closed" <=> At(s, "closed") # {}
  /\ s.st = "connecting" => At(s, "open") = {}

Placed(s) ==
  s.slot \cup s.cb \cup s.tear \subseteq InUse(s) /\ ("doRecv" \in s.tasks => "tls" \in s.stack)

\* A layer is made when the one below is connected.
Rising(s) ==
  \A l \in Lower(s) : s.ts[l] \in {"idle", "connecting"} => s.ts[Up(s, l)] = "idle"

CloseLate(s) == s.closeSent \/ "close" \in s.timers => s.ts["ws"] # "idle"

\* The frames of a thread: a layer is made by the first, and what is stored is
\* looked at again.
Chain(s, t, q) ==
  \A i \in DOMAIN q :
    /\ q[i][1] \in Runs(t) /\ q[i][2] \in InUse(s)
    /\ q[i][1] \in {"init", "store"} => i = 1
    /\ q[i][1] = "init" => q[i][2] # "tcp"
    /\ q[i][1] = "store" =>
         \E j \in DOMAIN q : j > i /\ q[j] = <<"check", q[i][2]>> /\ (q[i][2] # "tcp" => j = 2)
    /\ q[i][1] = "doRecv" => q[i][2] = "tls" /\ i = Len(q)
    /\ q[i][1] = "pollIn" /\ t = "caller" =>
         s.role = "server" /\ \E j \in DOMAIN q : j > i /\ q[j][1] = "check"

Chains(s) == \A t \in Threads : Chain(s, t, s.pc[t])

\* A layer is made once.
Starts(s) ==
  /\ \A t, u \in Threads, l \in Layer : Begins(s, t, l) /\ Begins(s, u, l) => t = u
  /\ \A t \in Threads, l \in Layer : Begins(s, t, l) => s.ts[l] = "idle"
  /\ \A t \in Threads, l \in Lower(s) :
       Begins(s, t, Up(s, l)) => s.ts[l] \notin {"idle", "connecting"}

\* Before TCP is connected there is nothing to poll but the connection.
Early(s) ==
  /\ s.ts["tcp"] \in {"idle", "connecting"} =>
       /\ s.pc["poll"] = <<>> /\ s.poll \in {"none", "connect"}
       /\ {"resolve", "attempt"} \cap s.tasks # {} => s.poll = "none"
       /\ ~({"resolve", "attempt"} \subseteq s.tasks)
  /\ {"resolve", "attempt"} \cap s.tasks # {} => s.role = "client"
  /\ s.role = "server" => s.ts["tcp"] # "connecting"
  /\ s.poll = "connect" => s.ts["tcp"] = "connecting"
  /\ s.ts["tcp"] = "idle" =>
       /\ s.pc["caller"] # <<>> /\ s.pc["caller"][1] = <<"store", "tcp">>
       /\ s.poll = "none" /\ {"resolve", "attempt"} \cap s.tasks = {}

\* Only an open socket is polled.
Polled(s) ==
  /\ s.poll # "none" \/ s.pc["poll"] # <<>> => s.sock = "up"
  /\ \A i \in DOMAIN s.pc["caller"] : s.pc["caller"][i][1] = "pollIn" => s.sock = "up"

Base(s) ==
  /\ s \in States /\ s.opened
  /\ InOrder(s.wire \o s.sendq, s.accepted)
  /\ Told(s) /\ Placed(s) /\ Rising(s) /\ CloseLate(s)
  /\ Chains(s) /\ Starts(s) /\ Early(s) /\ Polled(s)

\* What ties an unclosed WebSocket to its layers.
Tied(s) ==
  /\ s.st # "closed" =>
       /\ s.cb = s.slot /\ \A l \in Layer : s.ts[l] # "idle" => l \in s.slot
       /\ s.ts["ws"] \notin Over
       /\ s.closeSent => "close" \in s.timers
  /\ s.st = "open" => s.ts["ws"] = "connected"

\* One that connects has lost no layer, and will not do so for ever.
Fit(s) ==
  s.st = "connecting" => "connection" \in s.timers /\ \A l \in Layer : s.ts[l] \notin Over

Good(s) == Base(s) /\ Tied(s) /\ Fit(s)

\* What an open WebSocket rests on: its layers, or TLS that has yet to pass on
\* that they ended.
Ending(s) ==
  /\ "tls" \in s.stack /\ s.tlsEnd
  /\ "doRecv" \in s.tasks \/ \E i \in DOMAIN s.pc["pool"] : s.pc["pool"][i][1] = "doRecv"

Live(s) ==
  s.st = "open" =>
    /\ "tls" \in s.stack => s.ts["tls"] = "connected"
    /\ Ending(s) \/ \A l \in InUse(s) : s.ts[l] = "connected"

\* What a closed WebSocket still keeps, a thread is about to drop.
Kept(s) ==
  s.st = "closed" =>
    \A l \in s.slot \ {"proxy"} :
      \E t \in Threads : \E i \in DOMAIN s.pc[t] : s.pc[t][i] = <<"check", l>>

\* Somebody holds the TcpTransport.
Held(s) ==
  \/ s.slot \cup s.tear # {} \/ s.pc["poll"] # <<>> \/ s.pc["pool"] # <<>> \/ "doRecv" \in s.tasks
  \/ \E t \in Threads : \E i \in DOMAIN s.pc[t] : s.pc[t][i][1] \in {"store", "check"}

\* Before open().
Fresh(s) ==
  /\ s \in States /\ ~s.opened /\ s.st = "closed"
  /\ s.slot = {} /\ s.cb = {} /\ s.tear = {} /\ s.tasks = {} /\ s.timers = {}
  /\ \A l \in Layer : s.ts[l] = "idle"
  /\ \A t \in Threads : s.pc[t] = <<>>
  /\ s.sock = "none" /\ s.poll = "none" /\ ~s.closeSent
  /\ s.sendq = <<>> /\ s.wire = <<>> /\ s.accepted = 0 /\ s.reports = <<>>
  /\ s.server # "new" => s.role = "server"

\* What holds whenever a thread lets go.
Sound(s) == Good(s) /\ Live(s) /\ Kept(s)

\* A state in which the socket, if open, is held.
Whole(s) == Sound(s) /\ (s.sock # "none" => Held(s))

\* The inductive invariant.
IInv == Fresh(w) \/ Whole(w)

-----------------------------------------------------------------------------
(* Layers and who holds them.                                              *)

LEMMA UpIsAbove ==
  ASSUME NEW s \in States, NEW l \in Lower(s)
  PROVE  /\ Above(s, l) = Up(s, l) /\ Up(s, l) \in InUse(s) \ {"tcp"}
         /\ Below(s, Up(s, l)) = l
<1>1. InUse(s) = {"tcp", "ws"} \cup s.stack /\ s.stack \subseteq {"proxy", "tls"}
  BY DEF InUse, States, StackSets
<1>2. l \in {"tcp", "proxy", "tls"} /\ l \in {"tcp"} \cup s.stack
  BY <1>1 DEF Lower
<1> DEFINE u == Up(s, l)
<1>3. /\ u \in InUse(s) \ {"tcp"} /\ Pos(u) > Pos(l)
      /\ \A v \in InUse(s) : Pos(v) > Pos(l) => Pos(v) >= Pos(u)
      /\ \A v \in InUse(s) : Pos(v) < Pos(u) => Pos(v) <= Pos(l)
  <2>1. CASE l = "tls"
    <3>1. u = "ws"
      BY <2>1 DEF Up
    <3> QED BY <2>1, <3>1, <1>1, Positions
  <2>2. CASE l = "proxy"
    <3>1. u = IF "tls" \in s.stack THEN "tls" ELSE "ws"
      BY <2>2 DEF Up
    <3> QED BY <2>2, <3>1, <1>1, Positions
  <2>3. CASE l = "tcp"
    <3>1. u = IF "proxy" \in s.stack THEN "proxy" ELSE IF "tls" \in s.stack THEN "tls" ELSE "ws"
      BY <2>3 DEF Up
    <3> QED BY <2>3, <3>1, <1>1, Positions
  <2> QED BY <1>2, <2>1, <2>2, <2>3
<1>4. \A v \in InUse(s) : Pos(v) < Pos(u) => Pos(v) <= Pos(l)
  BY <1>3
<1>5. \A v, x \in InUse(s) : Pos(v) \in Nat /\ (Pos(v) = Pos(x) => v = x)
  BY <1>1, Positions
<1>6. l \in InUse(s)
  BY DEF Lower
<1> HIDE DEF u
<1>7. Above(s, l) = u
  <2>1. ASSUME NEW x \in InUse(s), Pos(x) > Pos(l), \A v \in InUse(s) : Pos(v) > Pos(l) => Pos(v) >= Pos(x)
        PROVE  x = u
    BY <1>3, <1>5, <2>1
  <2> QED BY <1>3, <2>1 DEF Above
<1>8. Below(s, u) = l
  <2>1. ASSUME NEW x \in InUse(s), Pos(x) < Pos(u), \A v \in InUse(s) : Pos(v) < Pos(u) => Pos(v) <= Pos(x)
        PROVE  x = l
    BY <1>3, <1>4, <1>5, <1>6, <2>1
  <2> QED BY <1>3, <1>4, <1>6, <2>1 DEF Below
<1> QED BY <1>3, <1>7, <1>8 DEF u

LEMMA StoredIsAlive ==
  ASSUME NEW s \in States, NEW l \in InUse(s), l \in s.slot
  PROVE  l \in Alive(s)
<1>1. Pos(l) <= Pos(l)
  <2>1. l \in {"tcp", "proxy", "tls", "ws"}
    BY DEF InUse, States, StackSets
  <2> QED BY <2>1, Positions
<1> QED BY <1>1 DEF Alive

LEMMA TcpIsHeld ==
  ASSUME NEW s \in States, Placed(s), Chains(s)
  PROVE  "tcp" \in Alive(s) <=> Held(s)
<1> DEFINE frames == UNION {Range(s.pc[t]) : t \in DOMAIN s.pc}
           marked == {f[2] : f \in {g \in frames : g[1] \in {"store", "check"}}}
           held == s.slot \cup s.tear \cup marked
                       \cup (IF s.pc["poll"] # <<>> THEN {"tcp"} ELSE {})
                       \cup (IF s.pc["pool"] # <<>> \/ "doRecv" \in s.tasks THEN {"tls"} ELSE {})
<1>1. DOMAIN s.pc = Threads
  BY DEF States, CallChains
<1>2. Alive(s) = {l \in InUse(s) : \E u \in held : Pos(l) <= Pos(u)}
  BY DEF Alive
<1>3. marked # {} <=> \E t \in Threads : \E i \in DOMAIN s.pc[t] : s.pc[t][i][1] \in {"store", "check"}
  BY <1>1 DEF Range
<1>4. marked \subseteq InUse(s)
  BY <1>1 DEF Range, Chains, Chain
<1>5. held \subseteq Layer
  <2>1. InUse(s) \subseteq Layer
    BY Positions DEF InUse, States, StackSets
  <2>2. s.slot \subseteq InUse(s) /\ s.tear \subseteq InUse(s)
    BY DEF Placed
  <2> QED BY <2>1, <2>2, <1>4, Positions
<1>6. held # {} <=> Held(s)
  <2> HIDE DEF marked
  <2> QED BY <1>3 DEF Held
<1> HIDE DEF held
<1>7. \A u \in held : Pos("tcp") <= Pos(u)
  BY <1>5, Positions
<1>8. "tcp" \in InUse(s)
  BY DEF InUse
<1> QED BY <1>2, <1>6, <1>7, <1>8

-----------------------------------------------------------------------------
(* Steps that make no layer.                                               *)

Glide(s, r) ==
  /\ r.role = s.role /\ r.stack = s.stack /\ r.opened = s.opened /\ r.pc = s.pc /\ r.sock = s.sock
  /\ s.tasks \subseteq r.tasks /\ r.tasks \subseteq s.tasks \cup {"doRecv"}
  /\ "doRecv" \in r.tasks => "doRecv" \in s.tasks \/ "tls" \in s.stack
  /\ \A l \in Layer : r.ts[l] = s.ts[l] \/ (s.ts[l] # "idle" /\ r.ts[l] \notin {"idle", "connecting"})
  /\ r.poll \in {s.poll, "none"} \/ (r.sock = "up" /\ r.ts["tcp"] \notin {"idle", "connecting"})
  /\ r.poll = "connect" => s.poll = "connect" /\ r.ts["tcp"] = s.ts["tcp"]
  /\ r.slot \cup r.tear = s.slot \cup s.tear /\ r.cb \subseteq s.cb
  /\ r.closeSent \/ "close" \in r.timers => s.closeSent \/ "close" \in s.timers \/ r.ts["ws"] # "idle"
  /\ s.tlsEnd => r.tlsEnd
  /\ s.st = "closed" => r.st = "closed" /\ r.slot = s.slot
  /\ s.st # "closed" /\ r.st = "closed" => r.slot \subseteq {"proxy"}
  /\ r.st = "open" => s.st \in {"open", "connecting"}
  /\ r.st = "connecting" => s.st = "connecting"

\* The layers below the WsTransport are as they were.
Still(s, r) == \A l \in {"tcp", "proxy", "tls"} : r.ts[l] = s.ts[l]

LEMMA GlideSelf ==
  ASSUME NEW s PROVE Glide(s, s) /\ Still(s, s)
BY DEF Glide, Still

LEMMA GlideTwice ==
  ASSUME NEW s, NEW q, NEW r, Glide(s, q), Glide(q, r)
  PROVE  Glide(s, r)
<1>1. /\ r.role = s.role /\ r.stack = s.stack /\ r.opened = s.opened /\ r.pc = s.pc /\ r.sock = s.sock
      /\ s.tasks \subseteq r.tasks /\ r.tasks \subseteq s.tasks \cup {"doRecv"}
      /\ ("doRecv" \in r.tasks => "doRecv" \in s.tasks \/ "tls" \in s.stack)
      /\ r.slot \cup r.tear = s.slot \cup s.tear /\ r.cb \subseteq s.cb
      /\ s.tlsEnd => r.tlsEnd
      /\ s.st = "closed" => r.st = "closed" /\ r.slot = s.slot
  BY DEF Glide
<1>2. \A l \in Layer : r.ts[l] = s.ts[l] \/ (s.ts[l] # "idle" /\ r.ts[l] \notin {"idle", "connecting"})
  BY DEF Glide
<1>3. "tcp" \in Layer /\ "ws" \in Layer
  BY Positions
<1>4. r.poll \in {s.poll, "none"} \/ (r.sock = "up" /\ r.ts["tcp"] \notin {"idle", "connecting"})
  BY <1>3 DEF Glide
<1>5. r.closeSent \/ "close" \in r.timers => s.closeSent \/ "close" \in s.timers \/ r.ts["ws"] # "idle"
  BY <1>3 DEF Glide
<1>6. s.st # "closed" /\ r.st = "closed" => r.slot \subseteq {"proxy"}
  BY DEF Glide
<1>7. (r.st = "open" => s.st \in {"open", "connecting"}) /\ (r.st = "connecting" => s.st = "connecting")
  BY DEF Glide
<1> QED BY <1>1, <1>2, <1>4, <1>5, <1>6, <1>7 DEF Glide

LEMMA StillTwice ==
  ASSUME NEW s, NEW q, NEW r, Still(s, q), Still(q, r)
  PROVE  Still(s, r)
BY DEF Still

LEMMA InUseType ==
  ASSUME NEW s \in States
  PROVE  /\ InUse(s) \subseteq Layer /\ Lower(s) \subseteq {"tcp", "proxy", "tls"}
         /\ Lower(s) \subseteq InUse(s) /\ "ws" \in InUse(s) /\ "tcp" \in Lower(s)
         /\ \A l \in Lower(s) : Up(s, l) \in InUse(s) \ {"tcp"} /\ Up(s, l) \in Layer
<1>1. InUse(s) \subseteq Layer /\ Lower(s) \subseteq {"tcp", "proxy", "tls"}
  BY Positions DEF InUse, Lower, States, StackSets
<1>2. Lower(s) \subseteq InUse(s) /\ "ws" \in InUse(s) /\ "tcp" \in Lower(s)
  BY DEF InUse, Lower
<1> QED BY <1>1, <1>2, UpIsAbove

LEMMA GlideBase ==
  ASSUME NEW s, NEW r, Base(s), r \in States, Glide(s, r),
         InOrder(r.wire \o r.sendq, r.accepted), Told(r)
  PROVE  Base(r)
<1>1. InUse(r) = InUse(s) /\ Lower(r) = Lower(s) /\ \A l : Up(r, l) = Up(s, l)
  BY DEF Glide, InUse, Lower, Up
<1>2. s \in States /\ "tcp" \in Layer /\ "ws" \in Layer
  BY Positions DEF Base
<1>3. Placed(r)
  BY <1>1 DEF Base, Placed, Glide
<1>4. Rising(r)
  <2> SUFFICES ASSUME NEW l \in Lower(s), r.ts[l] \in {"idle", "connecting"}
               PROVE  r.ts[Up(s, l)] = "idle"
    BY <1>1 DEF Rising
  <2>1. l \in Layer /\ Up(s, l) \in Layer
    BY <1>2, InUseType
  <2>2. s.ts[l] \in {"idle", "connecting"}
    BY <2>1 DEF Glide
  <2>3. s.ts[Up(s, l)] = "idle"
    BY <2>2 DEF Base, Rising
  <2> QED BY <2>1, <2>3 DEF Glide
<1>5. CloseLate(r)
  <2>1. s.closeSent \/ "close" \in s.timers => r.ts["ws"] # "idle"
    BY <1>2 DEF Base, CloseLate, Glide
  <2> QED BY <2>1 DEF CloseLate, Glide
<1>6. Chains(r)
  <2>1. r.pc = s.pc /\ r.role = s.role /\ Chains(s)
    BY DEF Glide, Base
  <2>2. ASSUME NEW t \in Threads PROVE Chain(r, t, r.pc[t])
    <3>1. Chain(s, t, s.pc[t])
      BY <2>1 DEF Chains
    <3> DEFINE q == s.pc[t]
    <3>2. r.pc[t] = q
      BY <2>1
    <3> HIDE DEF q
    <3>3. Chain(s, t, q) => Chain(r, t, q)
      BY <2>1, <1>1 DEF Chain
    <3> QED BY <3>1, <3>2, <3>3 DEF q
  <2> QED BY <2>2 DEF Chains
<1>7. Starts(r)
  <2>1. Starts(s) /\ \A t, l : Begins(r, t, l) <=> Begins(s, t, l)
    BY DEF Base, Glide, Begins
  <2>2. ASSUME NEW t \in Threads, NEW l \in Layer, Begins(r, t, l) PROVE r.ts[l] = "idle"
    BY <2>1, <2>2 DEF Starts, Glide
  <2>3. ASSUME NEW t \in Threads, NEW l \in Lower(r), Begins(r, t, Up(r, l))
        PROVE  r.ts[l] \notin {"idle", "connecting"}
    <3>1. s.ts[l] \notin {"idle", "connecting"} /\ l \in Layer
      BY <2>1, <2>3, <1>1, <1>2, InUseType DEF Starts
    <3> QED BY <3>1 DEF Glide
  <2>4. \A t, u \in Threads, l \in Layer : Begins(r, t, l) /\ Begins(r, u, l) => t = u
    BY <2>1 DEF Starts
  <2> QED BY <2>2, <2>3, <2>4 DEF Starts
<1>8. Early(r)
  <2>1. Early(s) /\ r.pc = s.pc /\ r.role = s.role
    BY DEF Base, Glide
  <2>2. {"resolve", "attempt"} \cap r.tasks = {"resolve", "attempt"} \cap s.tasks
        /\ ({"resolve", "attempt"} \subseteq r.tasks <=> {"resolve", "attempt"} \subseteq s.tasks)
    BY DEF Glide
  <2>3. r.ts["tcp"] \in {"idle", "connecting"} => r.ts["tcp"] = s.ts["tcp"] /\ r.poll \in {s.poll, "none"}
    BY <1>2 DEF Glide
  <2>4. r.poll = "connect" => r.ts["tcp"] = "connecting"
    BY <2>1 DEF Early, Glide
  <2> QED BY <2>1, <2>2, <2>3, <2>4 DEF Early
<1>9. Polled(r)
  <2>1. Polled(s) /\ r.pc = s.pc /\ r.sock = s.sock
        /\ (r.poll \in {s.poll, "none"} \/ r.sock = "up")
    BY DEF Base, Glide
  <2> QED BY <2>1 DEF Polled
<1>10. r.opened
  BY DEF Base, Glide
<1> QED BY <1>3, <1>4, <1>5, <1>6, <1>7, <1>8, <1>9, <1>10 DEF Base

LEMMA GlideKept ==
  ASSUME NEW s, NEW r, Glide(s, r), Kept(s)
  PROVE  Kept(r)
<1> SUFFICES ASSUME r.st = "closed" PROVE Kept(r)
  BY DEF Kept
<1>1. CASE s.st = "closed"
  <2>1. r.slot = s.slot /\ r.pc = s.pc
    BY <1>1 DEF Glide
  <2> QED BY <1>1, <2>1 DEF Kept
<1>2. CASE s.st # "closed"
  <2>1. r.slot \ {"proxy"} = {}
    BY <1>2 DEF Glide
  <2> QED BY <2>1 DEF Kept
<1> QED BY <1>1, <1>2

LEMMA GlideHeld ==
  ASSUME NEW s, NEW r, Glide(s, r), Held(s)
  PROVE  Held(r)
<1>1. r.slot \cup r.tear = s.slot \cup s.tear /\ r.pc = s.pc /\ s.tasks \subseteq r.tasks
  BY DEF Glide
<1> QED BY <1>1 DEF Held

\* All that an open WebSocket rests on was there when it opened.
LEMMA StillLive ==
  ASSUME NEW s, NEW r, Glide(s, r), Still(s, r), Good(s), Good(r), Live(s)
  PROVE  Live(r)
<1> SUFFICES ASSUME r.st = "open" PROVE Live(r)
  BY DEF Live
<1>1. s \in States /\ r \in States /\ InUse(r) = InUse(s) /\ r.stack = s.stack
  BY DEF Good, Base, Glide, InUse
<1>2. r.ts["ws"] = "connected"
  BY DEF Good, Tied
<1>3. CASE s.st = "open"
  <2>1. Ending(s) => Ending(r)
    BY DEF Ending, Glide
  <2>2. "tls" \in r.stack => r.ts["tls"] = "connected"
    BY <1>1, <1>3 DEF Live, Still
  <2>3. InUse(s) \subseteq {"tcp", "proxy", "tls", "ws"}
    BY <1>1, InUseType, Positions
  <2>4. (\A l \in InUse(s) : s.ts[l] = "connected") => \A l \in InUse(r) : r.ts[l] = "connected"
    BY <1>1, <1>2, <2>3 DEF Still
  <2> QED BY <1>3, <2>1, <2>2, <2>4 DEF Live
<1>4. CASE s.st = "connecting"
  <2>1. ASSUME NEW l \in Lower(r) PROVE r.ts[l] = "connected"
    <3>1. l \in {"tcp", "proxy", "tls"} /\ l \in Layer
      BY <1>1, InUseType
    <3>2. s.ts[l] \notin Over
      BY <1>4, <3>1 DEF Good, Fit
    <3>3. r.ts[l] \notin {"idle", "connecting"}
      <4>1. Rising(r) /\ (\A k \in Lower(r) : k # "tls" => r.ts[k] \notin {"idle", "connecting"} \/ r.ts[Up(r, k)] = "idle")
        BY DEF Good, Base, Rising
      <4>2. l = "tls" => r.ts[l] \notin {"idle", "connecting"}
        <5>1. Up(r, "tls") = "ws"
          BY DEF Up
        <5> QED BY <4>1, <5>1, <1>2 DEF Rising
      <4>3. l = "proxy" => r.ts[l] \notin {"idle", "connecting"}
        <5>1. Up(r, "proxy") = "ws" \/ (Up(r, "proxy") = "tls" /\ "tls" \in Lower(r) /\ Up(r, "tls") = "ws")
          BY DEF Up, Lower, InUse
        <5> QED BY <4>1, <5>1, <1>2 DEF Rising
      <4>4. l = "tcp" => r.ts[l] \notin {"idle", "connecting"}
        <5>1. \/ Up(r, "tcp") = "ws"
              \/ Up(r, "tcp") = "tls" /\ "tls" \in Lower(r) /\ Up(r, "tls") = "ws"
              \/ /\ Up(r, "tcp") = "proxy" /\ "proxy" \in Lower(r)
                 /\ \/ Up(r, "proxy") = "ws"
                    \/ Up(r, "proxy") = "tls" /\ "tls" \in Lower(r) /\ Up(r, "tls") = "ws"
          BY DEF Up, Lower, InUse
        <5> QED BY <4>1, <5>1, <1>2 DEF Rising
      <4> QED BY <3>1, <4>2, <4>3, <4>4
    <3>4. r.ts[l] \in LayerStates
      BY <1>1, <3>1 DEF States, LayerTables
    <3> QED BY <3>1, <3>2, <3>3, <3>4 DEF Still, LayerStates, Over
  <2>2. \A l \in InUse(r) : r.ts[l] = "connected"
    BY <1>2, <2>1 DEF Lower
  <2>3. "tls" \in r.stack => "tls" \in InUse(r)
    BY DEF InUse
  <2> QED BY <2>2, <2>3 DEF Live
<1> QED BY <1>3, <1>4 DEF Glide

-----------------------------------------------------------------------------
(* Closing.                                                                *)

LEMMA ToldError ==
  ASSUME NEW s \in States, Told(s), NEW r, r.st = s.st, r.reports = Append(s.reports, "error")
  PROVE  Told(r) /\ r.reports \in Logs
<1>1. s.reports \in Seq({"open", "closed", "error"})
  BY DEF States, Logs
<1>2. r.reports \in Logs
  BY <1>1 DEF Logs
<1>3. \A x \in {"open", "closed"} : At(r, x) = At(s, x)
  BY <1>1 DEF At
<1> QED BY <1>2, <1>3 DEF Told

LEMMA ToldClosed ==
  ASSUME NEW s \in States, Told(s), s.st # "closed",
         NEW r, r.st = "closed", r.reports = Append(s.reports, "closed")
  PROVE  Told(r) /\ r.reports \in Logs
<1>1. s.reports \in Seq({"open", "closed", "error"})
  BY DEF States, Logs
<1>2. r.reports \in Logs
  BY <1>1 DEF Logs
<1>3. At(r, "open") = At(s, "open") /\ At(r, "closed") = At(s, "closed") \cup {Len(s.reports) + 1}
  BY <1>1 DEF At
<1>4. At(s, "closed") = {} /\ \A i \in At(s, "open") : i < Len(s.reports) + 1
  BY <1>1 DEF At, Told
<1> QED BY <1>2, <1>3, <1>4 DEF Told

LEMMA ToldOpen ==
  ASSUME NEW s \in States, Told(s), s.st = "connecting",
         NEW r, r.st = "open", r.reports = Append(s.reports, "open")
  PROVE  Told(r) /\ r.reports \in Logs
<1>1. s.reports \in Seq({"open", "closed", "error"})
  BY DEF States, Logs
<1>2. r.reports \in Logs
  BY <1>1 DEF Logs
<1>3. At(r, "closed") = At(s, "closed") /\ At(r, "open") = At(s, "open") \cup {Len(s.reports) + 1}
  BY <1>1 DEF At
<1>4. At(s, "closed") = {} /\ At(s, "open") = {}
  BY DEF Told
<1> QED BY <1>2, <1>3, <1>4 DEF Told

\* A closed WebSocket is fit as long as its parts are.
LEMMA ClosedIsGood ==
  ASSUME NEW s, Base(s), s.st = "closed" PROVE Good(s)
BY DEF Good, Tied, Fit

LEMMA CloseTransportsGood ==
  ASSUME NEW s, Base(s)
  PROVE  LET r == CloseTransports(s) IN Good(r) /\ Glide(s, r) /\ Still(s, r) /\ r.st = "closed"
<1>1. CASE s.st = "closed"
  BY <1>1, GlideSelf, ClosedIsGood DEF CloseTransports
<1>2. CASE s.st # "closed"
  <2> DEFINE taken == s.slot \ {"proxy"}
             a == s.slot \ taken
             b == s.cb \ taken
             c == s.tear \cup taken
             d == Append(s.reports, "closed")
             r == [s EXCEPT !.st = "closed", !.slot = a, !.cb = b, !.recv = FALSE,
                            !.tear = c, !.reports = d]
  <2>1. s \in States /\ s.slot \in LayerSets /\ s.cb \in LayerSets /\ s.tear \in LayerSets
    BY DEF Base, States
  <2>2. a \in LayerSets /\ b \in LayerSets /\ c \in LayerSets /\ "closed" \in SocketStates
    BY <2>1 DEF LayerSets, SocketStates
  <2>3. a \cup c = s.slot \cup s.tear /\ b \subseteq s.cb /\ a \subseteq {"proxy"}
    OBVIOUS
  <2>4. CloseTransports(s) = r
    BY <1>2 DEF CloseTransports
  <2> HIDE DEF a, b, c, d
  <2>5. r.st = "closed" /\ r.reports = d
    BY <2>1 DEF States
  <2>6. Told(r) /\ d \in Logs
    <3> HIDE DEF r
    <3> QED BY <1>2, <2>1, <2>5, ToldClosed DEF Base, d
  <2>7. r \in States
    BY <2>1, <2>2, <2>6 DEF States
  <2>8. Glide(s, r) /\ Still(s, r)
    BY <2>1, <2>3, <1>2 DEF Glide, Still, States
  <2>9. r.wire = s.wire /\ r.sendq = s.sendq /\ r.accepted = s.accepted
    BY <2>1 DEF States
  <2> HIDE DEF r
  <2>10. InOrder(r.wire \o r.sendq, r.accepted)
    BY <2>9 DEF Base
  <2>11. Base(r)
    BY <2>6, <2>7, <2>8, <2>10, GlideBase
  <2> QED BY <2>4, <2>5, <2>8, <2>11, ClosedIsGood
<1> QED BY <1>1, <1>2

\* WsGone of a WsTransport that was made.
LEMMA WsGoneCloses ==
  ASSUME NEW s, NEW to \in Over, Base(s), s.ts["ws"] # "idle",
         s.st # "closed" => "ws" \in s.cb /\ s.ts["ws"] \notin Over
  PROVE  LET r == WsGone(s, to) IN Good(r) /\ Glide(s, r) /\ Still(s, r) /\ r.st = "closed"
<1> DEFINE t == [s.ts EXCEPT !["ws"] = to]
           d == [s EXCEPT !.ts = t]
           p == Append(s.reports, "error")
           e == [d EXCEPT !.reports = p]
<1>1. s \in States /\ s.ts \in LayerTables /\ "ws" \in Layer /\ to \in LayerStates
      /\ to \notin {"idle", "connecting"}
  BY Positions DEF Base, States, Over, LayerStates
<1>2. t \in LayerTables /\ t["ws"] = to /\ \A l \in Layer : l # "ws" => t[l] = s.ts[l]
  BY <1>1 DEF LayerTables
<1>3. [s EXCEPT !.ts["ws"] = to] = d
  OBVIOUS
<1> HIDE DEF t, p
<1>4. d \in States /\ d.ts = t /\ d.st = s.st /\ d.reports = s.reports
      /\ d.wire = s.wire /\ d.sendq = s.sendq /\ d.accepted = s.accepted
  BY <1>1, <1>2 DEF States
<1>5. Glide(s, d)
  <2>1. \A l \in Layer : t[l] = s.ts[l] \/ (s.ts[l] # "idle" /\ t[l] \notin {"idle", "connecting"})
    BY <1>1, <1>2
  <2>2. t["tcp"] = s.ts["tcp"]
    BY <1>2, Positions
  <2> QED BY <1>1, <1>2, <2>1, <2>2 DEF Glide, States
<1>6. Still(s, d)
  BY <1>2, <1>4, Positions DEF Still
<1>7. Told(d) /\ InOrder(d.wire \o d.sendq, d.accepted)
  <2> HIDE DEF d
  <2> QED BY <1>4 DEF Base, Told, At
<1>8. Base(d)
  <2> HIDE DEF d
  <2> QED BY <1>4, <1>5, <1>7, GlideBase
<1>9. CASE s.ts["ws"] = to \/ "ws" \notin s.cb
  <2>1. d.st = "closed"
    BY <1>4, <1>9
  <2>2. WsGone(s, to) = d
    BY <1>3, <1>9 DEF WsGone
  <2> HIDE DEF d
  <2> QED BY <2>1, <2>2, <1>5, <1>6, <1>8, ClosedIsGood
<1>10. CASE ~(s.ts["ws"] = to \/ "ws" \notin s.cb) /\ to # "failed"
  <2>1. WsGone(s, to) = CloseTransports(d)
    BY <1>3, <1>10 DEF WsGone
  <2> HIDE DEF d
  <2>2. Good(CloseTransports(d)) /\ Glide(d, CloseTransports(d)) /\ Still(d, CloseTransports(d))
        /\ CloseTransports(d).st = "closed"
    BY <1>8, CloseTransportsGood
  <2> QED BY <2>1, <2>2, <1>5, <1>6, GlideTwice, StillTwice
<1>11. CASE ~(s.ts["ws"] = to \/ "ws" \notin s.cb) /\ to = "failed"
  <2>1. WsGone(s, to) = CloseTransports(e)
    BY <1>3, <1>11 DEF WsGone, p
  <2> HIDE DEF d
  <2>2. e.st = d.st /\ e.reports = p
    BY <1>4 DEF States
  <2>3. Told(e) /\ p \in Logs
    <3> HIDE DEF e
    <3> QED BY <1>4, <1>7, <2>2, ToldError DEF p
  <2>4. e \in States /\ Glide(d, e) /\ Still(d, e)
    BY <1>4, <2>3 DEF States, Glide, Still
  <2>5. e.wire = d.wire /\ e.sendq = d.sendq /\ e.accepted = d.accepted
    BY <1>4 DEF States
  <2> HIDE DEF e
  <2>6. InOrder(e.wire \o e.sendq, e.accepted)
    BY <1>7, <2>5
  <2>7. Base(e)
    BY <1>8, <2>3, <2>4, <2>6, GlideBase
  <2>8. Good(CloseTransports(e)) /\ Glide(e, CloseTransports(e)) /\ Still(e, CloseTransports(e))
        /\ CloseTransports(e).st = "closed"
    BY <2>7, CloseTransportsGood
  <2>9. Glide(s, e) /\ Still(s, e)
    BY <1>5, <1>6, <2>4, GlideTwice, StillTwice
  <2> QED BY <2>1, <2>8, <2>9, GlideTwice, StillTwice
<1> QED BY <1>9, <1>10, <1>11

LEMMA WritesGlide ==
  ASSUME NEW s, NEW r, NEW h \in Heads, Base(s), Writes(s, r, <<h>>),
         s.sock = "up", s.ts["tcp"] = "connected"
  PROVE  Base(r) /\ Glide(s, r) /\ Still(s, r) /\ r.st = s.st
<1>1. s \in States /\ r \in States /\ Same(s, r)
  BY DEF Base, Writes
<1>2. Glide(s, r) /\ Still(s, r) /\ r.st = s.st
  <2>1. r.poll \in {s.poll, "both"}
    BY DEF Writes
  <2> QED BY <1>1, <2>1 DEF Same, Glide, Still
<1>3. Told(r)
  BY <1>1 DEF Base, Same, Told, At
<1>4. InOrder(r.wire \o r.sendq, r.accepted)
  <2>1. s.wire \o s.sendq \in Seq(Written) /\ s.accepted \in Nat
    BY <1>1 DEF States, Streams
  <2>2. InOrder((s.wire \o s.sendq) \o <<h>>, s.accepted)
    BY <2>1, HeadKeepsOrder DEF Base
  <2>3. r.accepted = s.accepted
    BY <1>1 DEF Same
  <2> QED BY <2>2, <2>3 DEF Writes
<1>5. Base(r)
  BY <1>1, <1>2, <1>3, <1>4, GlideBase
<1> QED BY <1>2, <1>5

LEMMA CanSendMeans ==
  ASSUME NEW s \in States, NEW l \in Layer, l # "tcp", CanSend(s, l)
  PROVE  s.sock = "up" /\ s.ts["tcp"] = "connected"
<1>1. "tcp" \in InUse(s) /\ Pos("tcp") < Pos(l)
  BY Positions DEF InUse
<1> QED BY <1>1 DEF CanSend

\* Tied and Fit look at nothing that is written.
LEMMA SameTied ==
  ASSUME NEW s, NEW r, Same(s, r)
  PROVE  (Tied(s) => Tied(r)) /\ (Fit(s) => Fit(r))
BY DEF Same, Tied, Fit

\* Outgoing of one head through an open socket.
LEMMA OutgoingGood ==
  ASSUME NEW s, NEW h \in Heads, NEW l \in Layer, l # "tcp", Base(s), CanSend(s, l)
  PROVE  LET r == Outgoing(s, <<h>>)
         IN  /\ Base(r) /\ Glide(s, r) /\ Still(s, r) /\ Same(s, r)
             /\ (Tied(s) => Tied(r)) /\ (Fit(s) => Fit(r))
<1> DEFINE r == Outgoing(s, <<h>>)
<1>1. s \in States /\ <<h>> \in Seq(Written)
  BY HeadsAreNotData DEF Base
<1>2. Writes(s, r, <<h>>)
  BY <1>1, OutgoingWrites
<1> HIDE DEF r
<1>3. s.sock = "up" /\ s.ts["tcp"] = "connected"
  BY <1>1, CanSendMeans
<1>4. Base(r) /\ Glide(s, r) /\ Still(s, r)
  BY <1>2, <1>3, WritesGlide
<1>5. Same(s, r)
  BY <1>2 DEF Writes
<1> QED BY <1>4, <1>5, SameTied DEF r

LEMMA WsCloseGood ==
  ASSUME NEW s, Base(s), Tied(s)
  PROVE  LET r == WsClose(s)
         IN  Base(r) /\ Tied(r) /\ (Fit(s) => Fit(r)) /\ Glide(s, r) /\ Still(s, r)
<1>1. CASE s.ts["ws"] # "connected" \/ s.closeSent
  BY <1>1, GlideSelf DEF WsClose
<1>2. CASE ~(s.ts["ws"] # "connected" \/ s.closeSent)
  <2> DEFINE c == [s EXCEPT !.closeSent = TRUE]
             o == Outgoing(c, << <<"CLOSE">> >>)
             m == o.timers \cup {"close"}
             r == [o EXCEPT !.timers = m]
  <2>1. s \in States /\ s.ts["ws"] = "connected" /\ "ws" \in Layer
    BY <1>2, Positions DEF Base
  <2>2. c \in States /\ c.st = s.st /\ c.reports = s.reports /\ c.ts = s.ts /\ c.cb = s.cb /\ c.slot = s.slot
        /\ c.wire = s.wire /\ c.sendq = s.sendq /\ c.accepted = s.accepted
        /\ c.stack = s.stack /\ c.sock = s.sock /\ c.eof = s.eof /\ c.timers = s.timers
    BY <2>1 DEF States
  <2>3. Glide(s, c) /\ Still(s, c)
    BY <2>1 DEF Glide, Still, States
  <2>4. WsClose(s) = IF CanSend(s, "ws") THEN r ELSE WsGone(c, "disconnected")
    BY <1>2 DEF WsClose
  <2> HIDE DEF c
  <2>5. Base(c)
    <3>1. Told(c) /\ InOrder(c.wire \o c.sendq, c.accepted)
      BY <2>2 DEF Base, Told, At
    <3> QED BY <2>2, <2>3, <3>1, GlideBase
  <2>6. c.ts["ws"] = "connected" /\ (c.st # "closed" => "ws" \in c.cb)
    BY <2>1, <2>2 DEF Tied
  <2>7. CASE CanSend(s, "ws")
    <3>1. CanSend(c, "ws")
      BY <2>2, <2>7 DEF CanSend, InUse
    <3>2. Base(o) /\ Glide(c, o) /\ Still(c, o) /\ Same(c, o)
      <4>1. <<"CLOSE">> \in Heads /\ "ws" # "tcp"
        BY DEF Heads
      <4> QED BY <4>1, <3>1, <2>1, <2>5, OutgoingGood
    <3> HIDE DEF o
    <3>3. o \in States /\ o.timers \in TimerSets
      BY <3>2 DEF Base, States
    <3>4. m \in TimerSets
      BY <3>3 DEF TimerSets
    <3>5. o.st = s.st /\ o.ts = s.ts /\ o.cb = s.cb /\ o.slot = s.slot /\ o.timers = s.timers
      BY <3>2, <2>2 DEF Same
    <3> HIDE DEF m
    <3>6. r \in States /\ r.timers = m /\ r.st = o.st /\ r.ts = o.ts /\ r.cb = o.cb /\ r.slot = o.slot
          /\ r.reports = o.reports /\ r.wire = o.wire /\ r.sendq = o.sendq /\ r.accepted = o.accepted
      BY <3>3, <3>4 DEF States
    <3>7. Glide(o, r) /\ Still(o, r)
      BY <3>3, <3>5, <2>1 DEF Glide, Still, States
    <3> HIDE DEF r
    <3>8. Told(r) /\ InOrder(r.wire \o r.sendq, r.accepted)
      BY <3>2, <3>6 DEF Base, Told, At
    <3>9. Base(r)
      BY <3>2, <3>6, <3>7, <3>8, GlideBase
    <3>10. Glide(s, r) /\ Still(s, r)
      <4>1. Glide(s, o) /\ Still(s, o)
        BY <2>3, <3>2, GlideTwice, StillTwice
      <4> QED BY <4>1, <3>7, GlideTwice, StillTwice
    <3>11. Tied(r)
      <4>1. "close" \in r.timers
        BY <3>6 DEF m
      <4> QED BY <4>1, <3>5, <3>6 DEF Tied
    <3>12. Fit(s) => Fit(r)
      BY <3>5, <3>6 DEF Fit, m
    <3> QED BY <2>4, <2>7, <3>9, <3>10, <3>11, <3>12
  <2>8. CASE ~CanSend(s, "ws")
    <3> DEFINE g == WsGone(c, "disconnected")
    <3>1. Good(g) /\ Glide(c, g) /\ Still(c, g) /\ g.st = "closed"
      <4>1. "disconnected" \in Over /\ c.ts["ws"] # "idle" /\ c.ts["ws"] \notin Over
        BY <2>6 DEF Over
      <4> QED BY <4>1, <2>5, <2>6, WsGoneCloses
    <3> HIDE DEF g
    <3>2. WsClose(s) = g
      BY <2>4, <2>8 DEF g
    <3>3. Glide(s, g) /\ Still(s, g)
      BY <3>1, <2>3, GlideTwice, StillTwice
    <3> QED BY <3>1, <3>2, <3>3 DEF Good
  <2> QED BY <2>7, <2>8
<1> QED BY <1>1, <1>2

LEMMA CloseGood ==
  ASSUME NEW s, Base(s), Tied(s)
  PROVE  LET r == Close(s) IN Base(r) /\ Tied(r) /\ Glide(s, r) /\ Still(s, r) /\ r.st # "connecting"
<1>1. CASE s.st \notin {"connecting", "open"}
  BY <1>1, GlideSelf DEF Close
<1>2. CASE s.st \in {"connecting", "open"}
  <2> DEFINE c == [s EXCEPT !.st = "closing"]
  <2>1. s \in States /\ "closing" \in SocketStates
    BY DEF Base, SocketStates
  <2>2. c \in States /\ c.st = "closing" /\ c.reports = s.reports /\ c.ts = s.ts /\ c.cb = s.cb /\ c.slot = s.slot
        /\ c.wire = s.wire /\ c.sendq = s.sendq /\ c.accepted = s.accepted
        /\ c.closeSent = s.closeSent /\ c.timers = s.timers
    BY <2>1 DEF States
  <2>3. Glide(s, c) /\ Still(s, c)
    BY <1>2, <2>1 DEF Glide, Still, States
  <2>4. Close(s) = IF "ws" \in s.slot THEN WsClose(c) ELSE CloseTransports(c)
    BY <1>2 DEF Close
  <2> HIDE DEF c
  <2>5. Base(c)
    <3>1. Told(c) /\ InOrder(c.wire \o c.sendq, c.accepted)
      BY <1>2, <2>2 DEF Base, Told, At
    <3> QED BY <2>2, <2>3, <3>1, GlideBase
  <2>6. Tied(c)
    BY <1>2, <2>2 DEF Tied
  <2>7. CASE "ws" \in s.slot
    <3> DEFINE r == WsClose(c)
    <3>1. Base(r) /\ Tied(r) /\ Glide(c, r) /\ Still(c, r)
      BY <2>5, <2>6, WsCloseGood
    <3>2. Close(s) = r
      BY <2>4, <2>7
    <3> HIDE DEF r
    <3>3. r.st # "connecting"
      BY <3>1, <2>2 DEF Glide
    <3> QED BY <2>3, <3>1, <3>2, <3>3, GlideTwice, StillTwice
  <2>8. CASE "ws" \notin s.slot
    <3> DEFINE r == CloseTransports(c)
    <3>1. Good(r) /\ Glide(c, r) /\ Still(c, r) /\ r.st = "closed"
      BY <2>5, CloseTransportsGood
    <3>2. Close(s) = r
      BY <2>4, <2>8
    <3> HIDE DEF r
    <3> QED BY <2>3, <3>1, <3>2, GlideTwice, StillTwice DEF Good
  <2> QED BY <2>7, <2>8
<1> QED BY <1>1, <1>2

LEMMA RemoteCloseGood ==
  ASSUME NEW s, Base(s), Tied(s)
  PROVE  LET r == RemoteClose(s) IN Good(r) /\ Glide(s, r) /\ Still(s, r) /\ r.st = "closed"
<1> DEFINE c == Close(s)
           r == CloseTransports(c)
<1>1. Base(c) /\ Glide(s, c) /\ Still(s, c)
  BY CloseGood
<1>2. RemoteClose(s) = r
  BY DEF RemoteClose
<1> HIDE DEF c
<1>3. Good(r) /\ Glide(c, r) /\ Still(c, r) /\ r.st = "closed"
  BY <1>1, CloseTransportsGood
<1> HIDE DEF r
<1> QED BY <1>1, <1>2, <1>3, GlideTwice, StillTwice

LEMMA FailedGood ==
  ASSUME NEW s, Base(s), Tied(s)
  PROVE  LET r == Failed(s) IN Good(r) /\ Glide(s, r) /\ Still(s, r) /\ r.st = "closed"
<1> DEFINE p == Append(s.reports, "error")
           e == [s EXCEPT !.reports = p]
           r == RemoteClose(e)
<1>1. s \in States
  BY DEF Base
<1>2. Failed(s) = r
  BY DEF Failed
<1> HIDE DEF p
<1>3. e.st = s.st /\ e.reports = p
  BY <1>1 DEF States
<1>4. Told(e) /\ p \in Logs
  <2> HIDE DEF e
  <2> QED BY <1>1, <1>3, ToldError DEF p, Base
<1>5. e \in States /\ Glide(s, e) /\ Still(s, e)
  BY <1>1, <1>4 DEF States, Glide, Still
<1>6. e.wire = s.wire /\ e.sendq = s.sendq /\ e.accepted = s.accepted /\ e.ts = s.ts /\ e.cb = s.cb
      /\ e.slot = s.slot /\ e.closeSent = s.closeSent /\ e.timers = s.timers
  BY <1>1 DEF States
<1> HIDE DEF e
<1>7. InOrder(e.wire \o e.sendq, e.accepted)
  BY <1>6 DEF Base
<1>8. Base(e)
  BY <1>4, <1>5, <1>7, GlideBase
<1>9. Tied(e)
  BY <1>3, <1>6 DEF Tied
<1>10. Good(r) /\ Glide(e, r) /\ Still(e, r) /\ r.st = "closed"
  BY <1>8, <1>9, RemoteCloseGood
<1> HIDE DEF r
<1> QED BY <1>2, <1>5, <1>10, GlideTwice, StillTwice

\* A layer below the WsTransport goes down.
LEMMA DownGood ==
  ASSUME NEW s, NEW l \in {"tcp", "proxy", "tls"}, NEW to \in Over, Good(s), s.ts[l] # "idle",
         l = "tcp" => s.poll # "connect"
  PROVE  LET r == Down(s, l, to)
         IN  /\ Good(r) /\ Glide(s, r)
             /\ r.ts[l] = to /\ \A k \in {"tcp", "proxy", "tls"} : k # l => r.ts[k] = s.ts[k]
             /\ r.st # "connecting" /\ (r.st = "open" => s.st = "open" /\ r.ts["ws"] = s.ts["ws"])
             /\ (to = "failed" /\ s.ts[l] \notin Over => r.st = "closed")
<1> DEFINE t == [s.ts EXCEPT ![l] = to]
           d == [s EXCEPT !.ts = t]
<1>1. s \in States /\ s.ts \in LayerTables /\ l \in Layer /\ "ws" \in Layer /\ l # "ws"
      /\ to \in LayerStates /\ to \notin {"idle", "connecting"}
  BY Positions DEF Good, Base, States, Over, LayerStates
<1>2. t \in LayerTables /\ t[l] = to /\ \A k \in Layer : k # l => t[k] = s.ts[k]
  BY <1>1 DEF LayerTables
<1>3. [s EXCEPT !.ts[l] = to] = d
  OBVIOUS
<1> HIDE DEF t
<1>4. d \in States /\ d.ts = t /\ d.st = s.st /\ d.reports = s.reports
      /\ d.wire = s.wire /\ d.sendq = s.sendq /\ d.accepted = s.accepted
      /\ d.cb = s.cb /\ d.slot = s.slot /\ d.closeSent = s.closeSent /\ d.timers = s.timers
  BY <1>1, <1>2 DEF States
<1>5. Glide(s, d)
  <2>1. \A k \in Layer : t[k] = s.ts[k] \/ (s.ts[k] # "idle" /\ t[k] \notin {"idle", "connecting"})
    BY <1>1, <1>2
  <2>2. s.poll = "connect" => t["tcp"] = s.ts["tcp"]
    BY <1>2, Positions
  <2> QED BY <1>1, <1>2, <2>1, <2>2 DEF Glide, States
<1>6. Base(d)
  <2> HIDE DEF d
  <2>1. Told(d) /\ InOrder(d.wire \o d.sendq, d.accepted)
    BY <1>4 DEF Good, Base, Told, At
  <2> QED BY <1>4, <1>5, <2>1, GlideBase DEF Good
<1>7. Tied(d)
  <2> HIDE DEF d
  <2>1. \A k \in Layer : t[k] # "idle" => s.ts[k] # "idle"
    BY <1>1, <1>2
  <2>2. t["ws"] = s.ts["ws"]
    BY <1>1, <1>2
  <2> QED BY <1>4, <2>1, <2>2 DEF Good, Tied
<1>8. Down(s, l, to) = IF s.ts[l] = to \/ l \notin s.cb THEN d
                       ELSE IF to = "failed" THEN Failed(d)
                       ELSE IF s.st = "connecting" THEN RemoteClose(d) ELSE d
  BY <1>3 DEF Down
<1> HIDE DEF d
<1>9. d.ts[l] = to /\ d.ts["ws"] = s.ts["ws"] /\ \A k \in {"tcp", "proxy", "tls"} : k # l => d.ts[k] = s.ts[k]
  BY <1>1, <1>2, <1>4, Positions
<1>10. s.st # "closed" => l \in s.cb
  BY <1>1 DEF Good, Tied
<1>11. s.st = "connecting" => s.ts[l] # to /\ s.ts[l] \notin Over
  BY <1>1 DEF Good, Fit
<1>12. CASE Down(s, l, to) = d /\ s.st # "connecting" /\ ~(to = "failed" /\ s.ts[l] \notin Over /\ s.st # "closed")
  <2>1. Fit(d)
    BY <1>12, <1>4 DEF Fit
  <2> QED BY <1>12, <2>1, <1>4, <1>5, <1>6, <1>7, <1>9 DEF Good
<1>13. CASE Down(s, l, to) = Failed(d)
  <2> DEFINE r == Failed(d)
  <2>1. Good(r) /\ Glide(d, r) /\ Still(d, r) /\ r.st = "closed"
    BY <1>6, <1>7, FailedGood
  <2> HIDE DEF r
  <2>2. Glide(s, r)
    BY <2>1, <1>5, GlideTwice
  <2>3. r.ts[l] = to /\ \A k \in {"tcp", "proxy", "tls"} : k # l => r.ts[k] = s.ts[k]
    BY <2>1, <1>9 DEF Still
  <2> QED BY <1>13, <2>1, <2>2, <2>3 DEF r
<1>14. CASE Down(s, l, to) = RemoteClose(d)
  <2> DEFINE r == RemoteClose(d)
  <2>1. Good(r) /\ Glide(d, r) /\ Still(d, r) /\ r.st = "closed"
    BY <1>6, <1>7, RemoteCloseGood
  <2> HIDE DEF r
  <2>2. Glide(s, r)
    BY <2>1, <1>5, GlideTwice
  <2>3. r.ts[l] = to /\ \A k \in {"tcp", "proxy", "tls"} : k # l => r.ts[k] = s.ts[k]
    BY <2>1, <1>9 DEF Still
  <2> QED BY <1>14, <2>1, <2>2, <2>3 DEF r
<1>15. \/ Down(s, l, to) = d /\ s.st # "connecting" /\ ~(to = "failed" /\ s.ts[l] \notin Over /\ s.st # "closed")
       \/ Down(s, l, to) = Failed(d)
       \/ Down(s, l, to) = RemoteClose(d)
  BY <1>8, <1>10, <1>11
<1> QED BY <1>12, <1>13, <1>14, <1>15

-----------------------------------------------------------------------------
(* What the WsTransport does with a unit.                                  *)

\* r is s in all that the invariant looks at.
Alike(s, r) ==
  /\ r.role = s.role /\ r.stack = s.stack /\ r.opened = s.opened /\ r.pc = s.pc /\ r.sock = s.sock
  /\ r.tasks = s.tasks /\ r.ts = s.ts /\ r.poll = s.poll /\ r.slot = s.slot /\ r.tear = s.tear
  /\ r.cb = s.cb /\ r.closeSent = s.closeSent /\ r.timers = s.timers /\ r.tlsEnd = s.tlsEnd
  /\ r.st = s.st /\ r.reports = s.reports /\ r.wire = s.wire /\ r.sendq = s.sendq
  /\ r.accepted = s.accepted

LEMMA AlikeGood ==
  ASSUME NEW s, NEW r \in States, Alike(s, r)
  PROVE  /\ Glide(s, r) /\ Still(s, r) /\ (Base(s) => Base(r))
         /\ (Good(s) => Good(r)) /\ (Live(s) => Live(r)) /\ (Kept(s) => Kept(r)) /\ (Held(s) => Held(r))
<1>1. Glide(s, r) /\ Still(s, r)
  BY DEF Alike, Glide, Still
<1>2. ASSUME Base(s) PROVE Base(r)
  <2>1. Told(r) /\ InOrder(r.wire \o r.sendq, r.accepted)
    BY <1>2 DEF Base, Told, At, Alike
  <2> QED BY <1>1, <1>2, <2>1, GlideBase
<1>3. (Tied(s) => Tied(r)) /\ (Fit(s) => Fit(r))
  BY DEF Alike, Tied, Fit
<1>4. Live(s) => Live(r)
  BY DEF Alike, Live, Ending, InUse
<1>5. (Kept(s) => Kept(r)) /\ (Held(s) => Held(r))
  BY <1>1, GlideKept, GlideHeld
<1> QED BY <1>1, <1>2, <1>3, <1>4, <1>5 DEF Good

LEMMA WsGoneGood ==
  ASSUME NEW s, NEW to \in Over, Base(s), Tied(s), s.ts["ws"] # "idle"
  PROVE  LET r == WsGone(s, to) IN Good(r) /\ Glide(s, r) /\ Still(s, r) /\ r.st = "closed"
<1>1. s.st # "closed" => "ws" \in s.cb /\ s.ts["ws"] \notin Over
  BY Positions DEF Tied
<1> QED BY <1>1, WsGoneCloses

LEMMA SendOrDropGood ==
  ASSUME NEW s, NEW u \in {"PONG", "PING"}, Good(s), s.ts["ws"] # "idle"
  PROVE  LET r == SendOrDrop(s, u) IN Good(r) /\ Glide(s, r) /\ Still(s, r)
<1>1. CASE CanSend(s, "ws")
  <2>1. <<u>> \in Heads /\ "ws" \in Layer /\ "ws" # "tcp"
    BY Positions DEF Heads
  <2> QED BY <1>1, <2>1, OutgoingGood DEF SendOrDrop, Good
<1>2. CASE ~CanSend(s, "ws")
  <2> DEFINE g == WsGone(s, "disconnected")
             r == CloseTransports(g)
  <2>1. Good(g) /\ Glide(s, g) /\ Still(s, g)
    <3>1. "disconnected" \in Over
      BY DEF Over
    <3> QED BY <3>1, WsGoneGood DEF Good
  <2>2. SendOrDrop(s, u) = r
    BY <1>2 DEF SendOrDrop
  <2> HIDE DEF g
  <2>3. Good(r) /\ Glide(g, r) /\ Still(g, r)
    BY <2>1, CloseTransportsGood DEF Good
  <2> HIDE DEF r
  <2> QED BY <2>1, <2>2, <2>3, GlideTwice, StillTwice
<1> QED BY <1>1, <1>2

LEMMA RecvFrameGood ==
  ASSUME NEW s, NEW u, Good(s), s.ts["ws"] # "idle"
  PROVE  LET r == RecvFrame(s, u) IN Good(r) /\ Glide(s, r) /\ Still(s, r)
<1>1. s \in States
  BY DEF Good, Base
<1>2. CASE u = "text"
  <2> DEFINE n == s.got + (IF s.recv THEN 1 ELSE 0)
             r == [s EXCEPT !.got = n]
  <2>1. n \in Nat
    BY <1>1 DEF States
  <2>2. RecvFrame(s, u) = r
    BY <1>2 DEF RecvFrame
  <2> HIDE DEF n
  <2>3. r \in States /\ Alike(s, r)
    BY <1>1, <2>1 DEF States, Alike
  <2> HIDE DEF r
  <2> QED BY <2>2, <2>3, AlikeGood
<1>3. CASE u = "ping"
  <2>1. RecvFrame(s, u) = SendOrDrop(s, "PONG")
    BY <1>3 DEF RecvFrame
  <2> QED BY <2>1, SendOrDropGood
<1>4. CASE u = "pong"
  <2> DEFINE r == [s EXCEPT !.pings = 0]
  <2>1. RecvFrame(s, u) = r
    BY <1>4 DEF RecvFrame
  <2>2. r \in States /\ Alike(s, r)
    BY <1>1 DEF States, Alike
  <2> HIDE DEF r
  <2> QED BY <2>1, <2>2, AlikeGood
<1>5. CASE u = "close"
  <2> DEFINE c == WsClose(s)
             r == WsGone(c, "disconnected")
  <2>1. Base(c) /\ Tied(c) /\ Glide(s, c) /\ Still(s, c)
    BY WsCloseGood DEF Good
  <2>2. RecvFrame(s, u) = r
    BY <1>5 DEF RecvFrame
  <2> HIDE DEF c
  <2>3. c.ts["ws"] # "idle"
    BY <2>1, Positions DEF Glide
  <2>4. Good(r) /\ Glide(c, r) /\ Still(c, r)
    <3>1. "disconnected" \in Over
      BY DEF Over
    <3> QED BY <2>1, <2>3, <3>1, WsGoneGood
  <2> HIDE DEF r
  <2> QED BY <2>1, <2>2, <2>4, GlideTwice, StillTwice
<1>6. CASE u \notin {"text", "ping", "pong", "close"}
  <2>1. RecvFrame(s, u) = WsClose(s)
    BY <1>6 DEF RecvFrame
  <2> QED BY <2>1, WsCloseGood DEF Good
<1> QED BY <1>2, <1>3, <1>4, <1>5, <1>6

LEMMA AddOutstandingPingGood ==
  ASSUME NEW s, Good(s), s.ts["ws"] # "idle"
  PROVE  LET r == AddOutstandingPing(s) IN Good(r) /\ Glide(s, r) /\ Still(s, r)
<1>1. CASE MaxPings > 0 /\ s.pings + 1 > MaxPings
  <2>1. "failed" \in Over /\ AddOutstandingPing(s) = WsGone(s, "failed")
    BY <1>1 DEF Over, AddOutstandingPing
  <2> QED BY <2>1, WsGoneGood DEF Good
<1>2. CASE ~(MaxPings > 0 /\ s.pings + 1 > MaxPings)
  <2> DEFINE n == s.pings + 1
             r == [s EXCEPT !.pings = n]
  <2>1. s \in States /\ n \in Nat
    BY DEF Good, Base, States
  <2>2. AddOutstandingPing(s) = r
    BY <1>2 DEF AddOutstandingPing
  <2> HIDE DEF n
  <2>3. r \in States /\ Alike(s, r)
    BY <2>1 DEF States, Alike
  <2> HIDE DEF r
  <2> QED BY <2>2, <2>3, AlikeGood
<1> QED BY <1>1, <1>2

\* The WsTransport is connected: the handshake ended well.
Shaken(s) ==
  LET open == [s EXCEPT !.ts["ws"] = "connected"]
  IN  IF "ws" \in s.cb /\ s.st = "connecting"
      THEN [open EXCEPT !.st = "open", !.reports = Append(@, "open")] ELSE open

LEMMA ShakenGood ==
  ASSUME NEW s, Good(s), s.ts["ws"] = "connecting"
  PROVE  LET r == Shaken(s)
         IN  /\ Good(r) /\ Glide(s, r) /\ Still(s, r)
             /\ CanSend(s, "ws") => CanSend(r, "ws")
<1> DEFINE t == [s.ts EXCEPT !["ws"] = "connected"]
           d == [s EXCEPT !.ts = t]
           p == Append(s.reports, "open")
           g == [d EXCEPT !.st = "open", !.reports = p]
<1>1. s \in States /\ s.ts \in LayerTables /\ "ws" \in Layer /\ "connected" \in LayerStates
  BY Positions DEF Good, Base, States, LayerStates
<1>2. t \in LayerTables /\ t["ws"] = "connected" /\ \A l \in Layer : l # "ws" => t[l] = s.ts[l]
  BY <1>1 DEF LayerTables
<1>3. [s EXCEPT !.ts["ws"] = "connected"] = d
  OBVIOUS
<1>4. Shaken(s) = IF "ws" \in s.cb /\ s.st = "connecting" THEN g ELSE d
  BY <1>3 DEF Shaken
<1>5. s.st # "open" /\ (s.st # "closed" => "ws" \in s.cb)
  BY <1>1 DEF Good, Tied
<1> HIDE DEF t, p
<1>6. \A l \in Layer : t[l] = s.ts[l] \/ (s.ts[l] # "idle" /\ t[l] \notin {"idle", "connecting"})
  BY <1>1, <1>2
<1>7. \A l \in {"tcp", "proxy", "tls"} : t[l] = s.ts[l]
  BY <1>2, Positions
<1>8. ASSUME NEW r, r.ts = t, r.stack = s.stack, r.sock = s.sock, r.eof = s.eof, CanSend(s, "ws")
      PROVE  CanSend(r, "ws")
  <2>1. \A l \in InUse(r) : Pos(l) < Pos("ws") => t[l] = s.ts[l]
    BY <1>1, <1>2, <1>8, Positions, InUseType DEF InUse
  <2> QED BY <1>8, <2>1 DEF CanSend, InUse
<1>9. CASE s.st # "connecting"
  <2>1. d \in States /\ d.ts = t /\ d.st = s.st /\ d.reports = s.reports
        /\ d.wire = s.wire /\ d.sendq = s.sendq /\ d.accepted = s.accepted
        /\ d.cb = s.cb /\ d.slot = s.slot /\ d.closeSent = s.closeSent /\ d.timers = s.timers
        /\ d.stack = s.stack /\ d.sock = s.sock /\ d.eof = s.eof
    BY <1>1, <1>2 DEF States
  <2>2. Glide(s, d)
    BY <1>1, <1>2, <1>6, <1>7 DEF Glide, States
  <2>3. Shaken(s) = d
    BY <1>4, <1>9
  <2> HIDE DEF d
  <2>4. Told(d) /\ InOrder(d.wire \o d.sendq, d.accepted)
    BY <2>1 DEF Good, Base, Told, At
  <2>5. Base(d)
    BY <2>1, <2>2, <2>4, GlideBase DEF Good
  <2>6. Tied(d)
    <3>1. \A l \in Layer : t[l] # "idle" => s.ts[l] # "idle"
      BY <1>6
    <3>2. t["ws"] \notin Over
      BY <1>2 DEF Over
    <3> QED BY <1>2, <1>5, <2>1, <3>1, <3>2 DEF Good, Tied
  <2>7. Fit(d)
    BY <2>1, <1>9 DEF Fit
  <2>8. Still(s, d)
    BY <2>1, <1>7 DEF Still
  <2>9. CanSend(s, "ws") => CanSend(d, "ws")
    BY <2>1, <1>8
  <2> QED BY <2>2, <2>3, <2>5, <2>6, <2>7, <2>8, <2>9 DEF Good
<1>10. CASE s.st = "connecting"
  <2>1. Shaken(s) = g
    BY <1>4, <1>5, <1>10
  <2>2. g.st = "open" /\ g.reports = p
    BY <1>1 DEF States
  <2>3. Told(g) /\ p \in Logs
    <3> HIDE DEF g
    <3> QED BY <1>1, <1>10, <2>2, ToldOpen DEF p, Good, Base
  <2>4. g \in States /\ g.ts = t
        /\ g.wire = s.wire /\ g.sendq = s.sendq /\ g.accepted = s.accepted
        /\ g.cb = s.cb /\ g.slot = s.slot /\ g.closeSent = s.closeSent /\ g.timers = s.timers
        /\ g.stack = s.stack /\ g.sock = s.sock /\ g.eof = s.eof
    BY <1>1, <1>2, <2>3 DEF States, SocketStates
  <2>5. Glide(s, g)
    BY <1>1, <1>2, <1>6, <1>7, <1>10 DEF Glide, States
  <2> HIDE DEF g
  <2>6. InOrder(g.wire \o g.sendq, g.accepted)
    BY <2>4 DEF Good, Base
  <2>7. Base(g)
    BY <2>3, <2>4, <2>5, <2>6, GlideBase DEF Good
  <2>8. Tied(g)
    <3>1. \A l \in Layer : t[l] # "idle" => s.ts[l] # "idle"
      BY <1>6
    <3>2. t["ws"] \notin Over
      BY <1>2 DEF Over
    <3> QED BY <1>2, <1>10, <2>2, <2>4, <3>1, <3>2 DEF Good, Tied
  <2>9. Fit(g)
    BY <2>2 DEF Fit
  <2>10. Still(s, g)
    BY <2>4, <1>7 DEF Still
  <2>11. CanSend(s, "ws") => CanSend(g, "ws")
    BY <2>4, <1>8
  <2> QED BY <2>1, <2>5, <2>7, <2>8, <2>9, <2>10, <2>11 DEF Good
<1> QED BY <1>9, <1>10

LEMMA ShakeGood ==
  ASSUME NEW s, NEW u, Good(s), s.ts["ws"] = "connecting"
  PROVE  LET r == Shake(s, u) IN Good(r) /\ Glide(s, r) /\ Still(s, r)
<1> DEFINE g == Shaken(s)
           code == ParseHttpRequest(u)
           o == Outgoing(g, << <<"101">> >>)
           e == Outgoing(s, << <<"error", code>> >>)
<1>1. Shake(s, u) = IF u = "idle" THEN s
        ELSE IF s.role = "client" THEN IF ParseHttpResponse(u) THEN g ELSE WsGone(s, "failed")
        ELSE IF ~CanSend(s, "ws") THEN WsGone(s, "failed")
        ELSE IF code = 0 THEN o ELSE WsGone(e, "failed")
  BY DEF Shake, Shaken, GenerateHttpResponse, GenerateHttpError
<1>2. Good(g) /\ Glide(s, g) /\ Still(s, g) /\ (CanSend(s, "ws") => CanSend(g, "ws"))
  BY ShakenGood
<1>3. code \in Nat
  BY DEF ParseHttpRequest
<1>4. <<"101">> \in Heads /\ <<"error", code>> \in Heads /\ "failed" \in Over /\ "ws" \in Layer /\ "ws" # "tcp"
  BY <1>3, Positions DEF Heads, Over
<1> HIDE DEF g, code
<1>5. Good(s) /\ Glide(s, s) /\ Still(s, s)
  BY GlideSelf
<1>6. CASE Shake(s, u) = WsGone(s, "failed")
  BY <1>4, <1>6, WsGoneGood DEF Good
<1>7. CASE CanSend(s, "ws") /\ Shake(s, u) = o
  <2>1. Good(o) /\ Glide(g, o) /\ Still(g, o)
    BY <1>2, <1>4, <1>7, OutgoingGood DEF Good
  <2> HIDE DEF o
  <2> QED BY <1>2, <1>7, <2>1, GlideTwice, StillTwice
<1>8. CASE CanSend(s, "ws") /\ Shake(s, u) = WsGone(e, "failed")
  <2>1. Base(e) /\ Tied(e) /\ Glide(s, e) /\ Still(s, e) /\ Same(s, e)
    BY <1>4, <1>8, OutgoingGood DEF Good
  <2> HIDE DEF e
  <2> DEFINE r == WsGone(e, "failed")
  <2>2. Good(r) /\ Glide(e, r) /\ Still(e, r)
    <3>1. e.ts["ws"] # "idle"
      BY <2>1 DEF Same
    <3> QED BY <1>4, <2>1, <3>1, WsGoneGood
  <2> HIDE DEF r
  <2> QED BY <1>8, <2>1, <2>2, GlideTwice, StillTwice DEF r
<1> QED BY <1>1, <1>2, <1>5, <1>6, <1>7, <1>8

LEMMA WsIncomingGood ==
  ASSUME NEW s, NEW u, Good(s), s.ts["ws"] # "idle"
  PROVE  LET r == WsIncoming(s, u)
         IN  /\ Good(r) /\ Glide(s, r) /\ Still(s, r)
             /\ u = "null" /\ s.ts["ws"] \in {"connecting", "connected"} => r.st = "closed"
<1> DEFINE d == WsGone(s, "disconnected")
           f == WsGone(s, "failed")
           c == CloseTransports(d)
           o == Outgoing(s, << <<"PING">> >>)
<1>1. "disconnected" \in Over /\ "failed" \in Over /\ "ws" \in Layer /\ "ws" # "tcp" /\ <<"PING">> \in Heads
  BY Positions DEF Over, Heads
<1>2. Good(d) /\ Glide(s, d) /\ Still(s, d) /\ d.st = "closed"
  BY <1>1, WsGoneGood DEF Good
<1>3. Good(f) /\ Glide(s, f) /\ Still(s, f) /\ f.st = "closed"
  BY <1>1, WsGoneGood DEF Good
<1>4. CASE s.ts["ws"] \notin {"connecting", "connected"}
  <2>1. WsIncoming(s, u) = s
    BY <1>4 DEF WsIncoming
  <2> QED BY <1>4, <2>1, GlideSelf
<1>5. CASE s.ts["ws"] = "connecting"
  <2>1. WsIncoming(s, u) = IF u = "null" THEN f ELSE Shake(s, u)
    BY <1>5 DEF WsIncoming
  <2> HIDE DEF f
  <2> QED BY <1>3, <1>5, <2>1, ShakeGood
<1>6. CASE s.ts["ws"] = "connected" /\ u = "null"
  <2>1. WsIncoming(s, u) = IF s.recv THEN c ELSE d
    BY <1>6 DEF WsIncoming
  <2> HIDE DEF d
  <2>2. Good(c) /\ Glide(d, c) /\ Still(d, c) /\ c.st = "closed"
    BY <1>2, CloseTransportsGood DEF Good
  <2> HIDE DEF c
  <2>3. Glide(s, c) /\ Still(s, c)
    BY <1>2, <2>2, GlideTwice, StillTwice
  <2> QED BY <1>2, <2>1, <2>2, <2>3
<1>7. CASE s.ts["ws"] = "connected" /\ u = "idle"
  <2>1. WsIncoming(s, u) = IF CanSend(s, "ws") THEN AddOutstandingPing(o) ELSE SendOrDrop(s, "PING")
    BY <1>7 DEF WsIncoming
  <2>2. CASE CanSend(s, "ws")
    <3>1. Good(o) /\ Glide(s, o) /\ Still(s, o) /\ Same(s, o)
      BY <1>1, <2>2, OutgoingGood DEF Good
    <3> HIDE DEF o
    <3> DEFINE r == AddOutstandingPing(o)
    <3>2. Good(r) /\ Glide(o, r) /\ Still(o, r)
      <4>1. o.ts["ws"] # "idle"
        BY <3>1 DEF Same
      <4> QED BY <3>1, <4>1, AddOutstandingPingGood
    <3>3. WsIncoming(s, u) = r
      BY <2>1, <2>2
    <3> HIDE DEF r
    <3> QED BY <1>7, <3>1, <3>2, <3>3, GlideTwice, StillTwice
  <2>3. CASE ~CanSend(s, "ws")
    BY <1>7, <2>1, <2>3, SendOrDropGood
  <2> QED BY <2>2, <2>3
<1>8. CASE s.ts["ws"] = "connected" /\ u \notin {"null", "idle"}
  <2>1. WsIncoming(s, u) = RecvFrame(s, u)
    BY <1>8 DEF WsIncoming
  <2> QED BY <1>8, <2>1, RecvFrameGood
<1> QED BY <1>4, <1>5, <1>6, <1>7, <1>8

-----------------------------------------------------------------------------
(* The frames of a thread.                                                 *)

Frames == Seq(Kinds \X Layer)

\* r is s but for what its threads have to do.
Moved(s, r) ==
  /\ r.role = s.role /\ r.stack = s.stack /\ r.opened = s.opened /\ r.sock = s.sock
  /\ r.tasks = s.tasks /\ r.ts = s.ts /\ r.poll = s.poll /\ r.slot = s.slot /\ r.tear = s.tear
  /\ r.cb = s.cb /\ r.closeSent = s.closeSent /\ r.timers = s.timers /\ r.tlsEnd = s.tlsEnd
  /\ r.st = s.st /\ r.reports = s.reports /\ r.wire = s.wire /\ r.sendq = s.sendq
  /\ r.accepted = s.accepted /\ r.inbox = s.inbox /\ r.tlsq = s.tlsq /\ r.eof = s.eof
  /\ r.hello = s.hello

LEMMA SetPc ==
  ASSUME NEW s \in States, NEW t \in Threads, NEW x \in Frames
  PROVE  LET r == [s EXCEPT !.pc[t] = x]
         IN  /\ r \in States /\ Moved(s, r) /\ r.pc[t] = x
             /\ \A u \in Threads : u # t => r.pc[u] = s.pc[u]
<1> DEFINE p == [s.pc EXCEPT ![t] = x]
           r == [s EXCEPT !.pc = p]
<1>1. [s EXCEPT !.pc[t] = x] = r
  OBVIOUS
<1>2. s.pc \in CallChains
  BY DEF States
<1>3. p \in CallChains /\ p[t] = x /\ \A u \in Threads : u # t => p[u] = s.pc[u]
  BY <1>2 DEF CallChains, Frames
<1> HIDE DEF p
<1>4. r \in States /\ Moved(s, r) /\ r.pc = p
  BY <1>3 DEF States, Moved
<1> QED BY <1>1, <1>3, <1>4

LEMMA PcBase ==
  ASSUME NEW s, NEW r \in States, NEW t \in Threads, Base(s), Moved(s, r),
         \A u \in Threads : u # t => r.pc[u] = s.pc[u],
         Chain(s, t, r.pc[t]),
         \A l \in Layer : Begins(r, t, l) =>
            /\ s.ts[l] = "idle" /\ \A u \in Threads : u # t => ~Begins(s, u, l)
            /\ \A k \in Lower(s) : Up(s, k) = l => s.ts[k] \notin {"idle", "connecting"},
         s.ts["tcp"] = "idle" => t # "caller",
         t = "poll" /\ r.pc[t] # <<>> => s.sock = "up" /\ s.ts["tcp"] \notin {"idle", "connecting"},
         t = "caller" => \A i \in DOMAIN r.pc[t] : r.pc[t][i][1] = "pollIn" => s.sock = "up"
  PROVE  Base(r) /\ (Tied(s) => Tied(r)) /\ (Fit(s) => Fit(r)) /\ (Good(s) => Good(r))
<1>1. s \in States /\ InUse(r) = InUse(s) /\ Lower(r) = Lower(s) /\ \A l : Up(r, l) = Up(s, l)
  BY DEF Base, Moved, InUse, Lower, Up
<1>2. Told(r) /\ Placed(r) /\ Rising(r) /\ CloseLate(r)
      /\ InOrder(r.wire \o r.sendq, r.accepted) /\ r.opened
  <2>1. Told(r) /\ InOrder(r.wire \o r.sendq, r.accepted) /\ r.opened
    BY DEF Base, Moved, Told, At
  <2>2. Placed(r) /\ CloseLate(r)
    BY <1>1 DEF Base, Moved, Placed, CloseLate
  <2>3. Rising(r)
    BY <1>1 DEF Base, Moved, Rising
  <2> QED BY <2>1, <2>2, <2>3
<1>3. Chains(r)
  <2> SUFFICES ASSUME NEW u \in Threads PROVE Chain(r, u, r.pc[u])
    BY DEF Chains
  <2> DEFINE q == r.pc[u]
  <2>1. Chain(s, u, q)
    <3>1. CASE u = t
      BY <3>1
    <3>2. CASE u # t
      BY <3>2 DEF Base, Chains
    <3> QED BY <3>1, <3>2
  <2> HIDE DEF q
  <2>2. Chain(r, u, q)
    BY <2>1, <1>1 DEF Chain, Moved
  <2> QED BY <2>2 DEF q
<1>4. Starts(r)
  <2>1. \A u \in Threads, l \in Layer : u # t => (Begins(r, u, l) <=> Begins(s, u, l))
    BY DEF Begins
  <2>2. Starts(s) /\ r.ts = s.ts
    BY DEF Base, Moved
  <2>3. \A u, v \in Threads, l \in Layer : Begins(r, u, l) /\ Begins(r, v, l) => u = v
    BY <2>1, <2>2 DEF Starts
  <2>4. \A u \in Threads, l \in Layer : Begins(r, u, l) => r.ts[l] = "idle"
    BY <2>1, <2>2 DEF Starts
  <2>5. ASSUME NEW u \in Threads, NEW k \in Lower(r), Begins(r, u, Up(r, k))
        PROVE  r.ts[k] \notin {"idle", "connecting"}
    <3>1. Up(s, k) \in Layer /\ k \in Lower(s) /\ Up(r, k) = Up(s, k)
      BY <1>1, InUseType
    <3> QED BY <2>1, <2>2, <2>5, <3>1 DEF Starts
  <2> QED BY <2>3, <2>4, <2>5 DEF Starts
<1>5. Early(r)
  <2>1. Early(s) /\ r.ts = s.ts /\ r.poll = s.poll /\ r.tasks = s.tasks /\ r.role = s.role
    BY DEF Base, Moved
  <2>2. t # "poll" => r.pc["poll"] = s.pc["poll"]
    BY DEF Threads
  <2>3. t # "caller" => r.pc["caller"] = s.pc["caller"]
    BY DEF Threads
  <2> QED BY <2>1, <2>2, <2>3 DEF Early
<1>6. Polled(r)
  <2>1. Polled(s) /\ r.poll = s.poll /\ r.sock = s.sock
    BY DEF Base, Moved
  <2>2. (t # "poll" => r.pc["poll"] = s.pc["poll"]) /\ (t # "caller" => r.pc["caller"] = s.pc["caller"])
    BY DEF Threads
  <2> QED BY <2>1, <2>2 DEF Polled
<1>7. Base(r)
  BY <1>2, <1>3, <1>4, <1>5, <1>6 DEF Base
<1>8. (Tied(s) => Tied(r)) /\ (Fit(s) => Fit(r))
  BY DEF Moved, Tied, Fit
<1> QED BY <1>7, <1>8 DEF Good

\* A thread has done the first of its frames.
LEMMA TailChain ==
  ASSUME NEW s, NEW t, NEW q \in Frames, q # <<>>, Chain(s, t, q)
  PROVE  LET x == Tail(q)
         IN  /\ x \in Frames /\ Chain(s, t, x) /\ Len(x) = Len(q) - 1
             /\ \A i \in DOMAIN x : i + 1 \in DOMAIN q /\ x[i] = q[i + 1] /\ x[i][1] \notin {"init", "store"}
             /\ \A i \in DOMAIN q : i # 1 => i - 1 \in DOMAIN x /\ x[i - 1] = q[i]
<1> DEFINE x == Tail(q)
<1>1. x \in Frames /\ Len(x) = Len(q) - 1 /\ Len(q) \in Nat /\ Len(q) > 0
      /\ DOMAIN q = 1 .. Len(q) /\ DOMAIN x = 1 .. Len(q) - 1
      /\ \A i \in 1 .. Len(q) - 1 : x[i] = q[i + 1]
  BY HeadTailProperties, EmptySeq DEF Frames
<1> HIDE DEF x
<1>2. \A i \in DOMAIN x : i + 1 \in DOMAIN q /\ x[i] = q[i + 1] /\ i + 1 # 1
  BY <1>1
<1>3. \A i \in DOMAIN q : i # 1 => i - 1 \in DOMAIN x /\ x[i - 1] = q[i]
  BY <1>1
<1>4. \A i \in DOMAIN x : x[i][1] \notin {"init", "store"}
  BY <1>2 DEF Chain
<1>5. Chain(s, t, x)
  <2> SUFFICES ASSUME NEW i \in DOMAIN x
               PROVE  /\ x[i][1] \in Runs(t) /\ x[i][2] \in InUse(s)
                      /\ x[i][1] = "doRecv" => x[i][2] = "tls" /\ i = Len(x)
                      /\ x[i][1] = "pollIn" /\ t = "caller" =>
                            s.role = "server" /\ \E j \in DOMAIN x : j > i /\ x[j][1] = "check"
    BY <1>4 DEF Chain
  <2>1. x[i][1] \in Runs(t) /\ x[i][2] \in InUse(s)
    BY <1>2 DEF Chain
  <2>2. x[i][1] = "doRecv" => x[i][2] = "tls" /\ i = Len(x)
    <3>1. x[i][1] = "doRecv" => x[i][2] = "tls" /\ i + 1 = Len(q)
      BY <1>2 DEF Chain
    <3> QED BY <3>1, <1>1
  <2>3. ASSUME x[i][1] = "pollIn" /\ t = "caller"
        PROVE  s.role = "server" /\ \E j \in DOMAIN x : j > i /\ x[j][1] = "check"
    <3>1. q[i + 1][1] = "pollIn" /\ i + 1 \in DOMAIN q
      BY <2>3, <1>2
    <3>2. s.role = "server" /\ \E j \in DOMAIN q : j > i + 1 /\ q[j][1] = "check"
      BY <2>3, <3>1 DEF Chain
    <3>3. PICK j \in DOMAIN q : j > i + 1 /\ q[j][1] = "check"
      BY <3>2
    <3>4. j - 1 \in DOMAIN x /\ x[j - 1][1] = "check" /\ j - 1 > i
      BY <3>3, <1>1
    <3> QED BY <3>2, <3>4
  <2> QED BY <2>1, <2>2, <2>3
<1> QED BY <1>1, <1>2, <1>3, <1>4, <1>5 DEF x

Popped(s, t) == [s EXCEPT !.pc[t] = Tail(@)]

LEMMA PopGood ==
  ASSUME NEW s, NEW t \in Threads, Base(s), s.pc[t] # <<>>, s.pc[t][1] # <<"store", "tcp">>
  PROVE  LET r == Popped(s, t)
         IN  /\ Base(r) /\ (Good(s) => Good(r)) /\ Moved(s, r) /\ r.pc[t] = Tail(s.pc[t])
             /\ \A u \in Threads : u # t => r.pc[u] = s.pc[u]
             /\ \A l : ~Begins(r, t, l)
<1> DEFINE x == Tail(s.pc[t])
           r == [s EXCEPT !.pc[t] = x]
<1>1. s \in States /\ s.pc[t] \in Frames /\ Chain(s, t, s.pc[t])
  BY DEF Base, States, CallChains, Frames, Chains
<1>2. x \in Frames /\ Chain(s, t, x)
      /\ \A i \in DOMAIN x : i + 1 \in DOMAIN s.pc[t] /\ x[i] = s.pc[t][i + 1] /\ x[i][1] \notin {"init", "store"}
  BY <1>1, TailChain
<1>3. Popped(s, t) = r
  BY DEF Popped
<1> HIDE DEF x
<1>4. r \in States /\ Moved(s, r) /\ r.pc[t] = x /\ \A u \in Threads : u # t => r.pc[u] = s.pc[u]
  BY <1>1, <1>2, SetPc
<1> HIDE DEF r
<1>5. ASSUME NEW l PROVE ~Begins(r, t, l)
  <2>1. x # <<>> => 1 \in DOMAIN x
    BY <1>2, EmptySeq DEF Frames
  <2> QED BY <2>1, <1>2, <1>4 DEF Begins
<1>6. s.ts["tcp"] = "idle" => t # "caller"
  BY DEF Base, Early
<1>7. t = "poll" => s.sock = "up" /\ s.ts["tcp"] \notin {"idle", "connecting"}
  BY DEF Base, Early, Polled
<1>8. t = "caller" => \A i \in DOMAIN r.pc[t] : r.pc[t][i][1] = "pollIn" => s.sock = "up"
  BY <1>2, <1>4 DEF Base, Polled
<1>9. Base(r) /\ (Good(s) => Good(r))
  BY <1>2, <1>4, <1>5, <1>6, <1>7, <1>8, PcBase
<1> QED BY <1>3, <1>4, <1>5, <1>9 DEF x

LEMMA SoundGlide ==
  ASSUME NEW s, NEW r, Sound(s), Good(r), Glide(s, r), Still(s, r)
  PROVE  Sound(r)
BY StillLive, GlideKept DEF Sound

\* The frames of some kind that a thread has in s it has in r.
Keeps(s, r, kinds) ==
  \A t \in Threads : \A i \in DOMAIN s.pc[t] :
    s.pc[t][i][1] \in kinds => \E j \in DOMAIN r.pc[t] : r.pc[t][j] = s.pc[t][i]

LEMMA MovedKept ==
  ASSUME NEW s, NEW r, Moved(s, r), Keeps(s, r, {"check"}), Kept(s)
  PROVE  Kept(r)
<1> SUFFICES ASSUME s.st = "closed", NEW l \in s.slot \ {"proxy"}
             PROVE  \E t \in Threads : \E i \in DOMAIN r.pc[t] : r.pc[t][i] = <<"check", l>>
  BY DEF Kept, Moved
<1>1. PICK t \in Threads : \E i \in DOMAIN s.pc[t] : s.pc[t][i] = <<"check", l>>
  BY DEF Kept
<1>2. PICK i \in DOMAIN s.pc[t] : s.pc[t][i] = <<"check", l>>
  BY <1>1
<1>3. s.pc[t][i][1] \in {"check"}
  BY <1>2
<1>4. \E j \in DOMAIN r.pc[t] : r.pc[t][j] = s.pc[t][i]
  BY <1>3 DEF Keeps
<1> QED BY <1>2, <1>4

LEMMA MovedLive ==
  ASSUME NEW s, NEW r, Moved(s, r), Keeps(s, r, {"doRecv"}), Live(s)
  PROVE  Live(r)
<1>1. Ending(s) => Ending(r)
  <2> SUFFICES ASSUME Ending(s), "doRecv" \notin s.tasks
               PROVE  \E i \in DOMAIN r.pc["pool"] : r.pc["pool"][i][1] = "doRecv"
    BY DEF Ending, Moved
  <2>1. PICK i \in DOMAIN s.pc["pool"] : s.pc["pool"][i][1] = "doRecv"
    BY DEF Ending
  <2>2. "pool" \in Threads
    BY DEF Threads
  <2>3. \E j \in DOMAIN r.pc["pool"] : r.pc["pool"][j] = s.pc["pool"][i]
    BY <2>1, <2>2 DEF Keeps
  <2> QED BY <2>1, <2>3
<1>2. InUse(r) = InUse(s)
  BY DEF Moved, InUse
<1> QED BY <1>1, <1>2 DEF Live, Moved

LEMMA MovedSound ==
  ASSUME NEW s, NEW r, Moved(s, r), Keeps(s, r, {"check", "doRecv"}), Live(s), Kept(s)
  PROVE  Live(r) /\ Kept(r)
<1>1. Keeps(s, r, {"check"}) /\ Keeps(s, r, {"doRecv"})
  BY DEF Keeps
<1> QED BY <1>1, MovedKept, MovedLive

LEMMA PopKeeps ==
  ASSUME NEW s, NEW t \in Threads, NEW kinds, Base(s), s.pc[t] # <<>>, s.pc[t][1] # <<"store", "tcp">>,
         s.pc[t][1][1] \notin kinds
  PROVE  Keeps(s, Popped(s, t), kinds)
<1> DEFINE r == Popped(s, t)
           q == s.pc[t]
<1>1. r.pc[t] = Tail(q) /\ \A u \in Threads : u # t => r.pc[u] = s.pc[u]
  BY PopGood
<1>2. q \in Frames /\ Chain(s, t, q)
  BY DEF Base, States, CallChains, Frames, Chains
<1>3. \A i \in DOMAIN q : i # 1 => i - 1 \in DOMAIN Tail(q) /\ Tail(q)[i - 1] = q[i]
  BY <1>2, TailChain
<1> HIDE DEF r
<1> SUFFICES ASSUME NEW u \in Threads, NEW i \in DOMAIN s.pc[u], s.pc[u][i][1] \in kinds
             PROVE  \E j \in DOMAIN r.pc[u] : r.pc[u][j] = s.pc[u][i]
  BY DEF Keeps, r
<1>4. CASE u = t
  BY <1>1, <1>3, <1>4
<1>5. CASE u # t
  BY <1>1, <1>5
<1> QED BY <1>4, <1>5

\* Doing a frame other than the last of an emplaceTransport or of a doRecv.
LEMMA PopSound ==
  ASSUME NEW s, NEW t \in Threads, Sound(s), s.pc[t] # <<>>, s.pc[t][1] # <<"store", "tcp">>,
         s.pc[t][1][1] \notin {"check", "doRecv"}
  PROVE  Sound(Popped(s, t))
<1> DEFINE r == Popped(s, t)
<1>1. Good(r) /\ Moved(s, r)
  BY PopGood DEF Sound, Good
<1>2. Keeps(s, r, {"check", "doRecv"})
  BY PopKeeps DEF Sound, Good
<1> HIDE DEF r
<1>3. Live(r) /\ Kept(r)
  BY <1>1, <1>2, MovedSound DEF Sound
<1> QED BY <1>1, <1>3 DEF Sound, r

\* A thread has one more frame to do first.
LEMMA OneMore ==
  ASSUME NEW q \in Frames, NEW f \in Kinds \X Layer
  PROVE  LET x == <<f>> \o q
         IN  /\ x \in Frames /\ Len(x) = Len(q) + 1 /\ 1 \in DOMAIN x /\ x[1] = f
             /\ \A i \in DOMAIN q : i + 1 \in DOMAIN x /\ x[i + 1] = q[i]
             /\ \A i \in DOMAIN x : i = 1 \/ (i - 1 \in DOMAIN q /\ x[i] = q[i - 1])
<1> DEFINE x == <<f>> \o q
<1>1. <<f>> \in Frames /\ Len(<<f>>) = 1 /\ <<f>>[1] = f
  BY DEF Frames
<1>2. x \in Frames /\ Len(x) = 1 + Len(q) /\ \A i \in 1 .. 1 + Len(q) : x[i] = IF i <= 1 THEN <<f>>[i] ELSE q[i - 1]
  <2>1. x \in Frames /\ Len(x) = Len(<<f>>) + Len(q)
        /\ \A i \in 1 .. Len(<<f>>) + Len(q) : x[i] = IF i <= Len(<<f>>) THEN <<f>>[i] ELSE q[i - Len(<<f>>)]
    BY <1>1, ConcatProperties, Zenon DEF Frames
  <2> QED BY <1>1, <2>1
<1>3. Len(q) \in Nat /\ DOMAIN q = 1 .. Len(q) /\ DOMAIN x = 1 .. Len(q) + 1
  BY <1>2 DEF Frames
<1> HIDE DEF x
<1>4. x \in Frames /\ Len(x) = Len(q) + 1 /\ 1 \in DOMAIN x /\ x[1] = f
  BY <1>1, <1>2, <1>3
<1>5. \A i \in DOMAIN q : i + 1 \in DOMAIN x /\ x[i + 1] = q[i]
  BY <1>2, <1>3
<1>6. \A i \in DOMAIN x : i = 1 \/ (i - 1 \in DOMAIN q /\ x[i] = q[i - 1])
  BY <1>2, <1>3
<1> QED BY <1>4, <1>5, <1>6, Zenon DEF x

LEMMA OneMoreChain ==
  ASSUME NEW s, NEW t, NEW q \in Frames, NEW f \in Kinds \X Layer, Chain(s, t, q),
         \A i \in DOMAIN q : q[i][1] \notin {"init", "store"},
         f[1] \in Runs(t) \ {"doRecv"}, f[2] \in InUse(s),
         f[1] = "init" => f[2] # "tcp",
         f[1] = "store" => f[2] # "tcp" /\ q # <<>> /\ q[1] = <<"check", f[2]>>,
         f[1] = "pollIn" => t # "caller"
  PROVE  Chain(s, t, <<f>> \o q)
<1> DEFINE x == <<f>> \o q
<1>1. /\ x \in Frames /\ Len(x) = Len(q) + 1 /\ 1 \in DOMAIN x /\ x[1] = f
      /\ \A i \in DOMAIN q : i + 1 \in DOMAIN x /\ x[i + 1] = q[i]
      /\ \A i \in DOMAIN x : i = 1 \/ (i - 1 \in DOMAIN q /\ x[i] = q[i - 1])
  BY OneMore
<1>2. DOMAIN x = 1 .. Len(q) + 1 /\ DOMAIN q = 1 .. Len(q) /\ Len(q) \in Nat
  BY <1>1 DEF Frames
<1> HIDE DEF x
<1>3. ASSUME NEW i \in DOMAIN x, i # 1
      PROVE  /\ x[i][1] \in Runs(t) /\ x[i][2] \in InUse(s) /\ x[i][1] \notin {"init", "store"}
             /\ x[i][1] = "doRecv" => x[i][2] = "tls" /\ i = Len(x)
             /\ x[i][1] = "pollIn" /\ t = "caller" =>
                   s.role = "server" /\ \E j \in DOMAIN x : j > i /\ x[j][1] = "check"
  <2>1. i - 1 \in DOMAIN q /\ x[i] = q[i - 1]
    BY <1>1, <1>3
  <2>2. x[i][1] \in Runs(t) /\ x[i][2] \in InUse(s) /\ x[i][1] \notin {"init", "store"}
    BY <2>1 DEF Chain
  <2>3. x[i][1] = "doRecv" => x[i][2] = "tls" /\ i = Len(x)
    <3>1. x[i][1] = "doRecv" => x[i][2] = "tls" /\ i - 1 = Len(q)
      BY <2>1 DEF Chain
    <3> QED BY <3>1, <1>1, <1>2
  <2>4. ASSUME x[i][1] = "pollIn" /\ t = "caller"
        PROVE  s.role = "server" /\ \E j \in DOMAIN x : j > i /\ x[j][1] = "check"
    <3>1. s.role = "server" /\ \E j \in DOMAIN q : j > i - 1 /\ q[j][1] = "check"
      BY <2>1, <2>4 DEF Chain
    <3>2. PICK j \in DOMAIN q : j > i - 1 /\ q[j][1] = "check"
      BY <3>1
    <3>3. j + 1 \in DOMAIN x /\ x[j + 1][1] = "check" /\ j + 1 > i
      BY <3>2, <1>1, <1>2
    <3> QED BY <3>1, <3>3
  <2> QED BY <2>2, <2>3, <2>4
<1>4. f[1] = "store" => \E j \in DOMAIN x : j > 1 /\ x[j] = <<"check", f[2]>> /\ j = 2
  <2> SUFFICES ASSUME f[1] = "store" PROVE 2 \in DOMAIN x /\ x[2] = <<"check", f[2]>>
    OBVIOUS
  <2>1. 1 \in DOMAIN q
    BY EmptySeq DEF Frames
  <2> QED BY <2>1, <1>1
<1>5. Chain(s, t, x)
  BY <1>1, <1>3, <1>4 DEF Chain
<1> QED BY <1>5 DEF x

\* Thread t of s can do a frame f before the others it has.
Ready1(s, t, f) ==
  /\ \A l \in Layer : ~Begins(s, t, l)
  /\ f[1] \in Runs(t) \ {"doRecv"} /\ f[2] \in InUse(s)
  /\ f[1] \in {"init", "store"} =>
       /\ f[2] # "tcp" /\ s.ts[f[2]] = "idle" /\ \A u \in Threads : ~Begins(s, u, f[2])
       /\ \A k \in Lower(s) : Up(s, k) = f[2] => s.ts[k] \notin {"idle", "connecting"}
  /\ f[1] = "store" => s.pc[t] # <<>> /\ s.pc[t][1] = <<"check", f[2]>>
  /\ f[1] = "pollIn" => t # "caller"
  /\ s.ts["tcp"] = "idle" => t # "caller"
  /\ t = "poll" => s.sock = "up" /\ s.ts["tcp"] \notin {"idle", "connecting"}

\* Thread t does f first.
Leads(s, t, f) == Push(s, t, <<f>>)

LEMMA PushGood ==
  ASSUME NEW s, NEW t \in Threads, NEW f \in Kinds \X Layer, Sound(s), Ready1(s, t, f)
  PROVE  LET r == Leads(s, t, f)
         IN  /\ Sound(r) /\ Moved(s, r) /\ r.pc[t] # <<>> /\ r.pc[t][1] = f
             /\ \A u \in Threads : u # t => r.pc[u] = s.pc[u]
<1> DEFINE q == s.pc[t]
           x == <<f>> \o q
           r == [s EXCEPT !.pc[t] = x]
<1>1. s \in States /\ q \in Frames /\ Chain(s, t, q) /\ Base(s)
  BY DEF Sound, Good, Base, States, CallChains, Frames, Chains
<1>2. Leads(s, t, f) = r
  BY DEF Leads, Push
<1>3. /\ x \in Frames /\ 1 \in DOMAIN x /\ x[1] = f
      /\ \A i \in DOMAIN q : i + 1 \in DOMAIN x /\ x[i + 1] = q[i]
      /\ \A i \in DOMAIN x : i = 1 \/ (i - 1 \in DOMAIN q /\ x[i] = q[i - 1])
  <2> HIDE DEF q
  <2> QED BY <1>1, OneMore
<1>4. \A i \in DOMAIN q : q[i][1] \notin {"init", "store"}
  <2> SUFFICES ASSUME NEW i \in DOMAIN q, q[i][1] \in {"init", "store"} PROVE FALSE
    OBVIOUS
  <2>1. i = 1 /\ q # <<>>
    BY <1>1 DEF Chain
  <2>2. q[1] \in Kinds \X Layer
    BY <1>1, <2>1 DEF Frames
  <2>3. q[1] = <<q[1][1], q[1][2]>> /\ q[1][2] \in Layer
    BY <2>2
  <2> QED BY <2>1, <2>3 DEF Ready1, Begins
<1>5. Chain(s, t, x)
  <2> HIDE DEF q
  <2>1. f[1] = "store" => q # <<>> /\ q[1] = <<"check", f[2]>>
    BY DEF Ready1, q
  <2> QED BY <1>1, <1>4, <2>1, OneMoreChain DEF Ready1
<1> HIDE DEF x
<1>6. r \in States /\ Moved(s, r) /\ r.pc[t] = x /\ \A u \in Threads : u # t => r.pc[u] = s.pc[u]
  BY <1>1, <1>3, SetPc
<1> HIDE DEF r
<1>7. ASSUME NEW l \in Layer, Begins(r, t, l)
      PROVE  /\ s.ts[l] = "idle" /\ \A u \in Threads : u # t => ~Begins(s, u, l)
             /\ \A k \in Lower(s) : Up(s, k) = l => s.ts[k] \notin {"idle", "connecting"}
  <2>1. f \in {<<"init", l>>, <<"store", l>>}
    BY <1>3, <1>6, <1>7 DEF Begins
  <2>2. f[1] \in {"init", "store"} /\ f[2] = l
    BY <2>1
  <2> QED BY <2>2 DEF Ready1
<1>8. t = "caller" => \A i \in DOMAIN r.pc[t] : r.pc[t][i][1] = "pollIn" => s.sock = "up"
  BY <1>1, <1>3, <1>6 DEF Ready1, Base, Polled
<1>9. Good(r)
  BY <1>1, <1>5, <1>6, <1>7, <1>8, PcBase DEF Ready1, Sound
<1>10. Keeps(s, r, {"check", "doRecv"})
  <2> SUFFICES ASSUME NEW u \in Threads, NEW i \in DOMAIN s.pc[u]
               PROVE  \E j \in DOMAIN r.pc[u] : r.pc[u][j] = s.pc[u][i]
    BY DEF Keeps
  <2> QED BY <1>3, <1>6
<1>11. Live(r) /\ Kept(r)
  BY <1>6, <1>10, MovedSound DEF Sound
<1> QED BY <1>2, <1>3, <1>6, <1>9, <1>11 DEF Sound, x

LEMMA TwoFrames ==
  ASSUME NEW f, NEW g PROVE <<f, g>> = <<f>> \o <<g>>
<1> DEFINE S == {f, g}
           x == <<f>> \o <<g>>
<1>1. <<f>> \in Seq(S) /\ <<g>> \in Seq(S) /\ <<f, g>> \in Seq(S) /\ Len(<<f>>) = 1 /\ Len(<<g>>) = 1
  OBVIOUS
<1>2. x \in Seq(S) /\ Len(x) = 2 /\ x[1] = f /\ x[2] = g
  BY <1>1, ConcatProperties
<1> HIDE DEF x
<1>3. x = <<f, g>>
  BY <1>2
<1> QED BY <1>3 DEF x

LEMMA FramesJoin ==
  \A a, b, c \in Frames : (a \o b) \o c = a \o (b \o c)
BY ConcatAssociative DEF Frames

LEMMA PushTwice ==
  ASSUME NEW s \in States, NEW t \in Threads, NEW f \in Kinds \X Layer, NEW g \in Kinds \X Layer
  PROVE  Push(s, t, <<f, g>>) = Leads(Leads(s, t, g), t, f)
<1> DEFINE q == s.pc[t]
           x == <<g>> \o q
           r == [s EXCEPT !.pc[t] = x]
<1>1. q \in Frames
  BY DEF States, CallChains, Frames
<1>2. x \in Frames
  <2> HIDE DEF q
  <2> QED BY <1>1, OneMore
<1>3. <<f, g>> \o q = <<f>> \o x
  <2>1. <<f, g>> = <<f>> \o <<g>>
    BY TwoFrames
  <2>2. <<f>> \in Frames /\ <<g>> \in Frames
    BY DEF Frames
  <2>3. (<<f>> \o <<g>>) \o q = <<f>> \o (<<g>> \o q)
    <3> HIDE DEF q
    <3> QED BY <1>1, <2>2, FramesJoin, Zenon
  <2> QED BY <2>1, <2>3
<1> HIDE DEF x
<1>4. r \in States /\ Moved(s, r) /\ r.pc[t] = x /\ \A u \in Threads : u # t => r.pc[u] = s.pc[u]
  BY <1>2, SetPc
<1>5. Leads(s, t, g) = r
  BY DEF Leads, Push, x
<1>6. Leads(r, t, f) = [r EXCEPT !.pc[t] = <<f>> \o x]
  BY <1>4 DEF Leads, Push
<1>7. Push(s, t, <<f, g>>) = [s EXCEPT !.pc[t] = <<f>> \o x]
  BY <1>3 DEF Push
<1> DEFINE y == <<f>> \o x
<1> HIDE DEF y
<1>8. [r EXCEPT !.pc[t] = y] = [s EXCEPT !.pc[t] = y]
  BY DEF States, CallChains
<1> QED BY <1>5, <1>6, <1>7, <1>8 DEF y

\* initXTransport.
LEMMA InitTransportSound ==
  ASSUME NEW s, NEW t \in Threads, NEW l, Sound(s), s.pc[t] # <<>>, s.pc[t][1] = <<"init", l>>
  PROVE  Sound(InitTransport(Popped(s, t), t, l))
<1> DEFINE p == Popped(s, t)
           c == <<"check", l>>
           b == <<"store", l>>
           q == Leads(p, t, c)
<1>1. s \in States /\ Base(s) /\ s.pc[t] \in Frames /\ Chain(s, t, s.pc[t]) /\ Starts(s)
  BY DEF Sound, Good, Base, States, CallChains, Frames, Chains
<1>2. 1 \in DOMAIN s.pc[t]
  BY <1>1, EmptySeq DEF Frames
<1>3. l \in InUse(s) /\ l # "tcp" /\ "init" \in Runs(t) /\ l \in Layer
  <2>1. s.pc[t][1][1] = "init" /\ s.pc[t][1][2] = l
    OBVIOUS
  <2> QED BY <1>1, <1>2, <2>1, InUseType DEF Chain
<1>4. Begins(s, t, l)
  BY DEF Begins
<1>5. s.ts[l] = "idle" /\ (\A u \in Threads : u # t => ~Begins(s, u, l))
      /\ \A k \in Lower(s) : Up(s, k) = l => s.ts[k] \notin {"idle", "connecting"}
  BY <1>1, <1>3, <1>4 DEF Starts
<1>6. (s.ts["tcp"] = "idle" => t # "caller")
      /\ (t = "poll" => s.sock = "up" /\ s.ts["tcp"] \notin {"idle", "connecting"})
  BY <1>1 DEF Base, Early, Polled
<1>7. Sound(p)
  BY PopSound
<1>8. Moved(s, p) /\ (\A u \in Threads : u # t => p.pc[u] = s.pc[u]) /\ \A k : ~Begins(p, t, k)
  BY <1>1, PopGood
<1>9. InitTransport(p, t, l) = IF l \in p.slot THEN p ELSE IF Below(p, l) \notin p.slot THEN RemoteClose(p)
                               ELSE Push(p, t, <<b, c>>)
  BY DEF InitTransport
<1> HIDE DEF p
<1>10. CASE InitTransport(p, t, l) = RemoteClose(p)
  <2> DEFINE r == RemoteClose(p)
  <2>1. Good(r) /\ Glide(p, r) /\ Still(p, r)
    BY <1>7, RemoteCloseGood DEF Sound, Good
  <2> HIDE DEF r
  <2> QED BY <1>7, <1>10, <2>1, SoundGlide DEF p, r
<1>11. CASE InitTransport(p, t, l) = Push(p, t, <<b, c>>)
  <2>1. b \in Kinds \X Layer /\ c \in Kinds \X Layer /\ p \in States
    BY <1>3, <1>7 DEF Kinds, Sound, Good, Base
  <2>2. Push(p, t, <<b, c>>) = Leads(q, t, b)
    BY <2>1, PushTwice
  <2>3. InUse(p) = InUse(s) /\ Lower(p) = Lower(s) /\ \A k : Up(p, k) = Up(s, k)
    BY <1>8 DEF Moved, InUse, Lower, Up
  <2>4. \A u \in Threads : \A k : u # t => (Begins(p, u, k) <=> Begins(s, u, k))
    BY <1>8 DEF Begins
  <2>5. {"check", "store"} \subseteq Runs(t)
    BY DEF Threads, Runs, Kinds
  <2>10. c[1] = "check" /\ c[2] = l
    OBVIOUS
  <2> HIDE DEF c
  <2>6. Ready1(p, t, c)
    BY <1>3, <1>6, <1>8, <2>3, <2>5, <2>10 DEF Ready1, Moved
  <2>7. Sound(q) /\ Moved(p, q) /\ q.pc[t] # <<>> /\ q.pc[t][1] = c /\ \A u \in Threads : u # t => q.pc[u] = p.pc[u]
    BY <1>7, <2>1, <2>6, PushGood
  <2> HIDE DEF q
  <2>8. Ready1(q, t, b)
    <3>1. b[1] = "store" /\ b[2] = l
      OBVIOUS
    <3>2. \A k : ~Begins(q, t, k)
      BY <2>7, <2>10 DEF Begins
    <3>3. \A u \in Threads : ~Begins(q, u, l)
      <4>1. \A u \in Threads : u # t => (Begins(q, u, l) <=> Begins(s, u, l))
        BY <1>8, <2>7 DEF Begins
      <4> QED BY <3>2, <4>1, <1>5
    <3>4. q.ts = s.ts /\ q.sock = s.sock /\ InUse(q) = InUse(s) /\ Lower(q) = Lower(s) /\ \A k : Up(q, k) = Up(s, k)
      BY <1>8, <2>3, <2>7 DEF Moved, InUse, Lower, Up
    <3> QED BY <1>3, <1>5, <1>6, <2>5, <2>7, <3>1, <3>2, <3>3, <3>4 DEF Ready1, c
  <2>9. Sound(Leads(q, t, b))
    BY <2>1, <2>7, <2>8, PushGood
  <2> QED BY <1>11, <2>2, <2>9 DEF p
<1> QED BY <1>7, <1>9, <1>10, <1>11 DEF p

-----------------------------------------------------------------------------
(* What the layers below the WsTransport do with a unit.                   *)

LEMMA Topmost ==
  ASSUME NEW s \in States, Rising(s), NEW l \in InUse(s), s.ts[l] \in {"idle", "connecting"}
  PROVE  (l # "ws" => s.ts["ws"] = "idle") /\ s.ts["ws"] # "connected"
<1>1. l \in {"tcp", "proxy", "tls", "ws"} /\ s.stack \subseteq {"proxy", "tls"}
  BY DEF InUse, States, StackSets
<1>2. ASSUME NEW k \in Lower(s), s.ts[k] \in {"idle", "connecting"} PROVE s.ts[Up(s, k)] = "idle"
  BY <1>2 DEF Rising
<1>3. CASE l = "ws"
  BY <1>3
<1>4. CASE l = "tls"
  <2>1. Up(s, "tls") = "ws" /\ "tls" \in Lower(s)
    BY <1>4 DEF Up, Lower
  <2> QED BY <1>2, <1>4, <2>1
<1>5. CASE l = "proxy"
  <2>1. "proxy" \in Lower(s)
        /\ (Up(s, "proxy") = "ws" \/ (Up(s, "proxy") = "tls" /\ "tls" \in Lower(s) /\ Up(s, "tls") = "ws"))
    BY <1>5 DEF Up, Lower, InUse
  <2> QED BY <1>2, <1>5, <2>1
<1>6. CASE l = "tcp"
  <2>1. "tcp" \in Lower(s)
        /\ \/ Up(s, "tcp") = "ws"
           \/ Up(s, "tcp") = "tls" /\ "tls" \in Lower(s) /\ Up(s, "tls") = "ws"
           \/ /\ Up(s, "tcp") = "proxy" /\ "proxy" \in Lower(s)
              /\ \/ Up(s, "proxy") = "ws"
                 \/ Up(s, "proxy") = "tls" /\ "tls" \in Lower(s) /\ Up(s, "tls") = "ws"
    BY DEF Up, Lower, InUse
  <2> QED BY <1>2, <1>6, <2>1
<1> QED BY <1>1, <1>3, <1>4, <1>5, <1>6

Passed == Units \cup {"idle"}

LEMMA NotNull == "null" \notin Passed
BY DEF Passed, Units

\* TLS takes the unit and asks for a doRecv, whatever the state.
LEMMA TlsIncomingGood ==
  ASSUME NEW s, NEW u \in Passed \cup {"null"}, Good(s), "tls" \in s.stack
  PROVE  LET r == TlsIncoming(s, u)
         IN  /\ Good(r) /\ Glide(s, r) /\ Still(s, r) /\ r.st = s.st
             /\ "doRecv" \in r.tasks /\ (u = "null" => r.tlsEnd)
<1> DEFINE m == s.tasks \cup {"doRecv"}
           e == IF u = "null" THEN TRUE ELSE s.tlsEnd
           q == IF u = "null" THEN s.tlsq ELSE Append(s.tlsq, u)
           r == [s EXCEPT !.tlsEnd = e, !.tlsq = q, !.tasks = m]
<1>1. s \in States /\ s.tasks \in TaskSets /\ s.tlsq \in TlsQueues /\ s.tlsEnd \in BOOLEAN
  BY DEF Good, Base, States
<1>2. m \in TaskSets /\ e \in BOOLEAN
  BY <1>1 DEF TaskSets
<1>3. q \in TlsQueues
  <2>1. u # "null" => u \in Units \cup {"idle"}
    BY DEF Passed
  <2>2. CASE u = "null"
    BY <1>1, <2>2
  <2>3. CASE u # "null"
    <3>1. Append(s.tlsq, u) \in Seq(Units \cup {"idle"})
      BY <1>1, <2>1, <2>3 DEF TlsQueues
    <3> QED BY <2>3, <3>1 DEF TlsQueues
  <2> QED BY <2>2, <2>3
<1>4. TlsIncoming(s, u) = r
  <2>1. CASE u = "null"
    <3>1. TlsIncoming(s, u) = [s EXCEPT !.tlsEnd = TRUE, !.tasks = s.tasks \cup {"doRecv"}]
      BY <1>1, <2>1 DEF TlsIncoming, EnqueueRecv, States
    <3> QED BY <1>1, <2>1, <3>1 DEF States
  <2>2. CASE u # "null"
    <3> DEFINE z == Append(s.tlsq, u)
    <3>1. TlsIncoming(s, u) = [[s EXCEPT !.tlsq = z] EXCEPT !.tasks = @ \cup {"doRecv"}]
      BY <2>2 DEF TlsIncoming, EnqueueRecv
    <3>2. q = z
      BY <2>2
    <3>3. r = [s EXCEPT !.tlsEnd = s.tlsEnd, !.tlsq = z, !.tasks = s.tasks \cup {"doRecv"}]
      BY <2>2
    <3> HIDE DEF z, q, r
    <3> QED BY <1>1, <3>1, <3>3 DEF States
  <2> QED BY <2>1, <2>2
<1>5. s.tasks \subseteq m /\ m \subseteq s.tasks \cup {"doRecv"} /\ "doRecv" \in m /\ (u = "null" => e) /\ (s.tlsEnd => e)
  OBVIOUS
<1> HIDE DEF m, e, q
<1>6. r \in States /\ r.st = s.st /\ r.reports = s.reports /\ r.wire = s.wire /\ r.sendq = s.sendq
      /\ r.accepted = s.accepted /\ r.ts = s.ts /\ r.cb = s.cb /\ r.slot = s.slot
      /\ r.closeSent = s.closeSent /\ r.timers = s.timers /\ r.tasks = m /\ r.tlsEnd = e
  BY <1>1, <1>2, <1>3 DEF States
<1>7. Glide(s, r) /\ Still(s, r)
  BY <1>1, <1>5 DEF Glide, Still, States
<1> HIDE DEF r
<1>8. Told(r) /\ InOrder(r.wire \o r.sendq, r.accepted)
  BY <1>6 DEF Good, Base, Told, At
<1>9. Base(r)
  BY <1>6, <1>7, <1>8, GlideBase DEF Good
<1>10. Tied(r) /\ Fit(r)
  BY <1>6 DEF Good, Tied, Fit
<1> QED BY <1>4, <1>5, <1>6, <1>7, <1>9, <1>10 DEF Good

LEMMA PassUpGood ==
  ASSUME NEW s, NEW l \in Lower(s), NEW u \in Passed \cup {"null"}, Good(s), Up(s, l) # "proxy"
  PROVE  LET r == PassUp(s, l, u)
         IN  /\ Good(r) /\ Glide(s, r) /\ Still(s, r)
             /\ u = "null" /\ r.st = "open" => Up(s, l) = "tls" /\ r.tlsEnd /\ "doRecv" \in r.tasks
<1> DEFINE n == Up(s, l)
<1>1. s \in States /\ Above(s, l) = n /\ n \in InUse(s) \ {"tcp"} /\ n \in Layer
  <2>1. s \in States
    BY DEF Good, Base
  <2> QED BY <2>1, UpIsAbove, InUseType
<1>2. n \in {"tls", "ws"}
  BY <1>1, Positions
<1>3. PassUp(s, l, u) = IF n \notin Alive(s) \/ s.ts[n] = "idle" THEN s
                        ELSE IF n = "tls" THEN TlsIncoming(s, u) ELSE WsIncoming(s, u)
  BY <1>1 DEF PassUp
<1> HIDE DEF n
<1>4. s.st = "open" => n \in Alive(s) /\ s.ts[n] # "idle" /\ s.ts["ws"] = "connected"
  <2> SUFFICES ASSUME s.st = "open" PROVE n \in Alive(s) /\ s.ts[n] # "idle" /\ s.ts["ws"] = "connected"
    OBVIOUS
  <2>1. s.ts["ws"] = "connected"
    BY DEF Good, Tied
  <2>2. s.ts[n] # "idle"
    BY <1>1, <2>1, Topmost DEF Good, Base
  <2>3. n \in s.slot
    BY <1>1, <2>2 DEF Good, Tied
  <2> QED BY <1>1, <2>1, <2>2, <2>3, StoredIsAlive
<1>5. CASE n \notin Alive(s) \/ s.ts[n] = "idle"
  BY <1>3, <1>4, <1>5, GlideSelf
<1>6. CASE ~(n \notin Alive(s) \/ s.ts[n] = "idle") /\ n = "tls"
  <2>1. "tls" \in s.stack
    BY <1>1, <1>6 DEF InUse
  <2> QED BY <1>3, <1>6, <2>1, TlsIncomingGood DEF n
<1>7. CASE ~(n \notin Alive(s) \/ s.ts[n] = "idle") /\ n = "ws"
  <2> DEFINE r == WsIncoming(s, u)
  <2>1. Good(r) /\ Glide(s, r) /\ Still(s, r)
        /\ (u = "null" /\ s.ts["ws"] \in {"connecting", "connected"} => r.st = "closed")
    BY <1>7, WsIncomingGood
  <2>2. PassUp(s, l, u) = r
    BY <1>3, <1>7
  <2>3. u = "null" => r.st # "open"
    <3>1. CASE s.ts["ws"] \in {"connecting", "connected"}
      BY <2>1, <3>1
    <3>2. CASE s.ts["ws"] \notin {"connecting", "connected"}
      <4>1. r = s
        BY <3>2 DEF WsIncoming
      <4> QED BY <1>4, <3>2, <4>1
    <3> QED BY <3>1, <3>2
  <2> HIDE DEF r
  <2> QED BY <2>1, <2>2, <2>3
<1> QED BY <1>2, <1>5, <1>6, <1>7

\* Thread t can be given a frame.
Free(s, t) ==
  /\ \A l \in Layer : ~Begins(s, t, l)
  /\ s.ts["tcp"] = "idle" => t # "caller"
  /\ t = "poll" => s.sock = "up" /\ s.ts["tcp"] \notin {"idle", "connecting"}

LEMMA InitLeads ==
  ASSUME NEW s, NEW t \in Threads, NEW l \in Lower(s), Sound(s), Free(s, t),
         s.ts[l] \notin {"idle", "connecting"}, s.ts[Up(s, l)] = "idle",
         \A u \in Threads : ~Begins(s, u, Up(s, l))
  PROVE  Sound(Leads(s, t, <<"init", Up(s, l)>>))
<1> DEFINE n == Up(s, l)
           f == <<"init", n>>
<1>1. s \in States
  BY DEF Sound, Good, Base
<1>2. n \in InUse(s) \ {"tcp"} /\ n \in Layer /\ Below(s, n) = l
  BY <1>1, UpIsAbove, InUseType
<1>3. \A k \in Lower(s) : Up(s, k) = n => k = l
  BY <1>1, <1>2, UpIsAbove
<1> HIDE DEF n
<1>4. f \in Kinds \X Layer /\ f[1] = "init" /\ f[2] = n /\ "init" \in Runs(t)
  BY <1>2 DEF Kinds, Runs, Threads
<1> HIDE DEF f
<1>5. Ready1(s, t, f)
  BY <1>2, <1>3, <1>4 DEF Ready1, Free, n
<1>6. Sound(Leads(s, t, f))
  BY <1>4, <1>5, PushGood
<1> QED BY <1>6 DEF f, n

Raised(s, l) == [s EXCEPT !.ts[l] = "connected"]

LEMMA RaisedSound ==
  ASSUME NEW s, NEW l \in Lower(s), Sound(s), s.ts[l] = "connecting",
         l = "tcp" => s.poll # "connect"
  PROVE  LET r == Raised(s, l)
         IN  /\ Sound(r) /\ Glide(s, r) /\ r.ts[l] = "connected" /\ r.cb = s.cb
             /\ r.ts[Up(s, l)] = "idle" /\ \A u \in Threads : ~Begins(r, u, Up(s, l))
             /\ \A k \in Layer : k # l => r.ts[k] = s.ts[k]
<1> DEFINE t == [s.ts EXCEPT ![l] = "connected"]
           d == [s EXCEPT !.ts = t]
           n == Up(s, l)
<1>1. s \in States /\ s.ts \in LayerTables /\ l \in Layer /\ "connected" \in LayerStates /\ l # "ws"
      /\ n \in Layer /\ n # l /\ l \in InUse(s)
  <2>1. s \in States
    BY DEF Sound, Good, Base
  <2>2. l \in Layer /\ l # "ws" /\ n \in Layer /\ l \in InUse(s)
    BY <2>1, InUseType
  <2>3. n # l
    BY <2>2, Positions DEF Up
  <2> QED BY <2>1, <2>2, <2>3 DEF States, LayerStates
<1>2. t \in LayerTables /\ t[l] = "connected" /\ \A k \in Layer : k # l => t[k] = s.ts[k]
  BY <1>1 DEF LayerTables
<1>3. Raised(s, l) = d
  BY DEF Raised
<1>4. s.ts[n] = "idle" /\ \A u \in Threads : ~Begins(s, u, n)
  BY DEF Sound, Good, Base, Rising, Starts
<1> HIDE DEF t
<1>5. d \in States /\ d.ts = t /\ d.st = s.st /\ d.reports = s.reports
      /\ d.wire = s.wire /\ d.sendq = s.sendq /\ d.accepted = s.accepted /\ d.pc = s.pc
      /\ d.cb = s.cb /\ d.slot = s.slot /\ d.closeSent = s.closeSent /\ d.timers = s.timers
  BY <1>1, <1>2 DEF States
<1>6. Glide(s, d)
  <2>1. \A k \in Layer : t[k] = s.ts[k] \/ (s.ts[k] # "idle" /\ t[k] \notin {"idle", "connecting"})
    BY <1>1, <1>2
  <2>2. s.poll = "connect" => t["tcp"] = s.ts["tcp"]
    BY <1>2, Positions
  <2> QED BY <1>1, <1>2, <2>1, <2>2 DEF Glide, States
<1> HIDE DEF d
<1>7. Base(d)
  <2>1. Told(d) /\ InOrder(d.wire \o d.sendq, d.accepted)
    BY <1>5 DEF Sound, Good, Base, Told, At
  <2> QED BY <1>5, <1>6, <2>1, GlideBase DEF Sound, Good
<1>8. Tied(d) /\ Fit(d)
  <2>1. \A k \in Layer : (t[k] # "idle" => s.ts[k] # "idle") /\ (t[k] \in Over => s.ts[k] \in Over)
    BY <1>1, <1>2 DEF Over
  <2>2. t["ws"] = s.ts["ws"]
    BY <1>1, <1>2, Positions
  <2> QED BY <1>5, <2>1, <2>2, Positions DEF Sound, Good, Tied, Fit
<1>9. Live(d)
  <2>1. s.ts["ws"] # "connected"
    BY <1>1, Topmost DEF Sound, Good, Base
  <2>2. d.st # "open"
    BY <1>5, <2>1 DEF Sound, Good, Tied
  <2> QED BY <2>2 DEF Live
<1>10. Kept(d)
  BY <1>6, GlideKept DEF Sound
<1>11. \A u \in Threads : ~Begins(d, u, n)
  BY <1>4, <1>5 DEF Begins
<1>12. d.ts[n] = "idle"
  BY <1>1, <1>2, <1>4, <1>5
<1> QED BY <1>2, <1>3, <1>5, <1>6, <1>7, <1>8, <1>9, <1>10, <1>11, <1>12 DEF Sound, Good

LEMMA ConnectedSound ==
  ASSUME NEW s, NEW t \in Threads, NEW l \in Lower(s), Sound(s), Free(s, t), s.ts[l] = "connecting",
         l = "tcp" => s.poll # "connect"
  PROVE  Sound(Connected(s, t, l))
<1> DEFINE c == Raised(s, l)
           n == Up(s, l)
<1>1. s \in States
  BY DEF Sound, Good, Base
<1>2. /\ Sound(c) /\ Glide(s, c) /\ c.ts[l] = "connected" /\ c.ts[n] = "idle"
      /\ \A u \in Threads : ~Begins(c, u, n)
      /\ \A k \in Layer : k # l => c.ts[k] = s.ts[k]
  BY RaisedSound
<1>3. Connected(s, t, l) = IF l \in s.cb THEN Leads(c, t, <<"init", n>>) ELSE c
  BY <1>1, UpIsAbove DEF Connected, Leads, Raised
<1> HIDE DEF c
<1>4. n = Up(c, l) /\ l \in Lower(c)
  BY <1>2 DEF Glide, Up, Lower, InUse
<1>5. Free(c, t)
  <2>1. "tcp" \in Layer
    BY Positions
  <2>2. c.pc = s.pc /\ c.sock = s.sock
    BY <1>2 DEF Glide
  <2>3. c.ts["tcp"] = s.ts["tcp"] \/ c.ts["tcp"] = "connected"
    BY <1>2, <2>1
  <2> QED BY <2>2, <2>3 DEF Free, Begins
<1>6. Sound(Leads(c, t, <<"init", Up(c, l)>>))
  <2>1. c.ts[l] \notin {"idle", "connecting"} /\ c.ts[Up(c, l)] = "idle" /\ \A u \in Threads : ~Begins(c, u, Up(c, l))
    BY <1>2, <1>4
  <2> QED BY <1>2, <1>4, <1>5, <2>1, InitLeads
<1> QED BY <1>2, <1>3, <1>4, <1>6

LEMMA FailedSound ==
  ASSUME NEW s, NEW l \in {"tcp", "proxy", "tls"}, Sound(s), s.ts[l] = "connecting",
         l = "tcp" => s.poll # "connect"
  PROVE  LET r == Down(s, l, "failed") IN Sound(r) /\ Glide(s, r)
<1> DEFINE r == Down(s, l, "failed")
<1>1. Good(r) /\ Glide(s, r) /\ r.st = "closed"
  <2>1. "failed" \in Over /\ s.ts[l] \notin Over /\ s.ts[l] # "idle"
    BY DEF Over
  <2> QED BY <2>1, DownGood DEF Sound
<1> HIDE DEF r
<1>2. Live(r) /\ Kept(r)
  BY <1>1, GlideKept DEF Live, Sound
<1> QED BY <1>1, <1>2 DEF Sound, r

LEMMA ProxyIncomingSound ==
  ASSUME NEW s, NEW t \in Threads, NEW u \in Passed, Sound(s), Free(s, t), "proxy" \in s.stack
  PROVE  Sound(ProxyIncoming(s, t, u))
<1>1. "proxy" \in Lower(s) /\ Up(s, "proxy") # "proxy" /\ u # "null" /\ u \in Passed \cup {"null"}
  BY NotNull DEF Lower, InUse, Up
<1>2. CASE s.ts["proxy"] = "connected"
  <2> DEFINE r == PassUp(s, "proxy", u)
  <2>1. ProxyIncoming(s, t, u) = r
    BY <1>1, <1>2 DEF ProxyIncoming
  <2>2. Good(r) /\ Glide(s, r) /\ Still(s, r)
    BY <1>1, PassUpGood DEF Sound
  <2> HIDE DEF r
  <2> QED BY <2>1, <2>2, SoundGlide
<1>3. CASE s.ts["proxy"] = "connecting"
  <2>1. ProxyIncoming(s, t, u) = IF u = "idle" THEN s
            ELSE IF ParseProxyResponse(u) THEN Connected(s, t, "proxy") ELSE Down(s, "proxy", "failed")
    BY <1>3 DEF ProxyIncoming
  <2>2. Sound(Connected(s, t, "proxy"))
    BY <1>1, <1>3, ConnectedSound
  <2>3. Sound(Down(s, "proxy", "failed"))
    BY <1>3, FailedSound
  <2> QED BY <2>1, <2>2, <2>3
<1>4. CASE s.ts["proxy"] \notin {"connected", "connecting"}
  <2>1. ProxyIncoming(s, t, u) = s
    BY <1>4 DEF ProxyIncoming
  <2> QED BY <2>1
<1> QED BY <1>2, <1>3, <1>4

LEMMA TcpRecvSound ==
  ASSUME NEW s, NEW t \in Threads, NEW u \in Passed, Sound(s), Free(s, t)
  PROVE  Sound(TcpRecv(s, t, u))
<1>1. CASE "proxy" \in s.stack
  <2>1. TcpRecv(s, t, u) \in {s, ProxyIncoming(s, t, u)}
    BY <1>1 DEF TcpRecv
  <2>2. Sound(ProxyIncoming(s, t, u))
    BY <1>1, ProxyIncomingSound
  <2> QED BY <2>1, <2>2
<1>2. CASE "proxy" \notin s.stack
  <2> DEFINE r == PassUp(s, "tcp", u)
  <2>1. TcpRecv(s, t, u) = r
    BY <1>2 DEF TcpRecv
  <2>2. "tcp" \in Lower(s) /\ Up(s, "tcp") # "proxy" /\ u \in Passed \cup {"null"}
    BY <1>2 DEF Lower, InUse, Up
  <2>3. Good(r) /\ Glide(s, r) /\ Still(s, r)
    BY <2>2, PassUpGood DEF Sound
  <2> HIDE DEF r
  <2> QED BY <2>1, <2>3, SoundGlide
<1> QED BY <1>1, <1>2

\* What an open WebSocket rests on when its TcpTransport has just gone.
Half(s) ==
  s.st = "open" =>
    /\ "tls" \in s.stack => s.ts["tls"] = "connected"
    /\ Ending(s) \/ \A l \in InUse(s) : l # "tcp" => s.ts[l] = "connected"

\* The end of a layer that lies below TLS or below the WsTransport.
LEMMA NullPasses ==
  ASSUME NEW s, NEW l \in Lower(s), Good(s), Up(s, l) # "proxy", s.st # "connecting",
         s.st = "open" /\ "tls" \in s.stack => l = "tls" \/ s.ts["tls"] = "connected"
  PROVE  LET r == PassUp(s, l, "null") IN Good(r) /\ Glide(s, r) /\ Live(r)
<1> DEFINE r == PassUp(s, l, "null")
<1>1. /\ Good(r) /\ Glide(s, r) /\ Still(s, r)
      /\ r.st = "open" => Up(s, l) = "tls" /\ r.tlsEnd /\ "doRecv" \in r.tasks
  BY PassUpGood
<1> HIDE DEF r
<1>2. Live(r)
  <2> SUFFICES ASSUME r.st = "open" PROVE Live(r)
    BY DEF Live
  <2>1. s.st = "open"
    BY <1>1 DEF Glide
  <2>2. "tls" \in s.stack /\ l # "tls"
    BY <1>1 DEF Up
  <2>3. r.ts["tls"] = "connected" /\ r.stack = s.stack
    BY <1>1, <2>1, <2>2 DEF Still, Glide
  <2>4. Ending(r)
    BY <1>1, <2>2, <2>3 DEF Ending
  <2> QED BY <2>3, <2>4 DEF Live
<1> QED BY <1>1, <1>2 DEF r

LEMMA TcpRecvNull ==
  ASSUME NEW s, NEW t, Good(s), s.st # "connecting", Half(s)
  PROVE  LET r == TcpRecv(s, t, "null") IN Good(r) /\ Glide(s, r) /\ Live(r)
<1>1. s \in States
  BY DEF Good, Base
<1>2. CASE "proxy" \notin s.stack
  <2>1. TcpRecv(s, t, "null") = PassUp(s, "tcp", "null")
    BY <1>2 DEF TcpRecv
  <2>2. "tcp" \in Lower(s) /\ Up(s, "tcp") # "proxy"
    BY <1>2 DEF Lower, InUse, Up
  <2> QED BY <2>1, <2>2, NullPasses DEF Half
<1>3. CASE "proxy" \in s.stack
  <2>1. "proxy" \in Lower(s) /\ "proxy" \in InUse(s) /\ "proxy" \in Layer /\ Up(s, "proxy") # "proxy"
    BY <1>3, Positions DEF Lower, InUse, Up
  <2>2. TcpRecv(s, t, "null") = IF "proxy" \in Alive(s) /\ s.ts["proxy"] # "idle"
                                THEN ProxyIncoming(s, t, "null") ELSE s
    BY <1>3 DEF TcpRecv
  <2>3. CASE ~("proxy" \in Alive(s) /\ s.ts["proxy"] # "idle")
    <3>1. s.st # "open"
      <4> SUFFICES ASSUME s.st = "open" PROVE FALSE
        OBVIOUS
      <4>1. s.ts["proxy"] # "idle"
        BY <1>1, <2>1, Topmost DEF Good, Base, Tied
      <4>2. "proxy" \in s.slot
        BY <2>1, <4>1 DEF Good, Tied
      <4> QED BY <1>1, <2>1, <2>3, <4>1, <4>2, StoredIsAlive
    <3>2. Live(s)
      BY <3>1 DEF Live
    <3> QED BY <2>2, <2>3, <3>2, GlideSelf
  <2>4. CASE "proxy" \in Alive(s) /\ s.ts["proxy"] = "connected"
    <3> DEFINE d == Down(s, "proxy", "disconnected")
               r == PassUp(d, "proxy", "null")
    <3>1. TcpRecv(s, t, "null") = r
      BY <2>2, <2>4 DEF ProxyIncoming
    <3>2. /\ Good(d) /\ Glide(s, d) /\ d.st # "connecting"
          /\ \A k \in {"tcp", "proxy", "tls"} : k # "proxy" => d.ts[k] = s.ts[k]
          /\ (d.st = "open" => s.st = "open")
      <4>1. "disconnected" \in Over /\ s.ts["proxy"] # "idle"
        BY <2>4 DEF Over
      <4> QED BY <4>1, DownGood
    <3> HIDE DEF d
    <3>3. "proxy" \in Lower(d) /\ Up(d, "proxy") # "proxy"
      BY <2>1, <3>2 DEF Glide, Lower, InUse, Up
    <3>4. d.st = "open" /\ "tls" \in d.stack => d.ts["tls"] = "connected"
      BY <3>2 DEF Half, Glide
    <3>5. Good(r) /\ Glide(d, r) /\ Live(r)
      BY <3>2, <3>3, <3>4, NullPasses
    <3> HIDE DEF r
    <3> QED BY <3>1, <3>2, <3>5, GlideTwice
  <2>5. CASE "proxy" \in Alive(s) /\ s.ts["proxy"] = "connecting"
    <3> DEFINE r == Down(s, "proxy", "failed")
    <3>1. TcpRecv(s, t, "null") = r
      <4>1. ~ParseProxyResponse("null")
        BY DEF ParseProxyResponse
      <4> QED BY <2>2, <2>5, <4>1 DEF ProxyIncoming
    <3>2. Good(r) /\ Glide(s, r) /\ r.st = "closed"
      <4>1. "failed" \in Over /\ s.ts["proxy"] # "idle" /\ s.ts["proxy"] \notin Over
        BY <2>5 DEF Over
      <4> QED BY <4>1, DownGood
    <3> HIDE DEF r
    <3> QED BY <3>1, <3>2 DEF Live
  <2>6. CASE "proxy" \in Alive(s) /\ s.ts["proxy"] \notin {"idle", "connecting", "connected"}
    <3>1. TcpRecv(s, t, "null") = s
      BY <2>2, <2>6 DEF ProxyIncoming
    <3>2. Live(s)
      BY <2>1, <2>6 DEF Live, Half
    <3> QED BY <3>1, <3>2, GlideSelf
  <2> QED BY <2>3, <2>4, <2>5, <2>6
<1> QED BY <1>2, <1>3

\* The poll service is asked for x, or for nothing.
LEMMA PollSound ==
  ASSUME NEW s, NEW x \in Pollings, Sound(s),
         x = "none" \/ (x # "connect" /\ s.sock = "up" /\ s.ts["tcp"] \notin {"idle", "connecting"})
  PROVE  LET r == [s EXCEPT !.poll = x] IN Sound(r) /\ Glide(s, r) /\ Still(s, r) /\ r.ts = s.ts
<1> DEFINE r == [s EXCEPT !.poll = x]
<1>1. s \in States
  BY DEF Sound, Good, Base
<1>2. r \in States /\ r.st = s.st /\ r.reports = s.reports /\ r.wire = s.wire /\ r.sendq = s.sendq
      /\ r.accepted = s.accepted /\ r.ts = s.ts /\ r.cb = s.cb /\ r.slot = s.slot
      /\ r.closeSent = s.closeSent /\ r.timers = s.timers
  BY <1>1 DEF States
<1>3. Glide(s, r) /\ Still(s, r)
  BY <1>1 DEF Glide, Still, States
<1> HIDE DEF r
<1>4. Told(r) /\ InOrder(r.wire \o r.sendq, r.accepted)
  BY <1>2 DEF Sound, Good, Base, Told, At
<1>5. Base(r)
  BY <1>2, <1>3, <1>4, GlideBase DEF Sound, Good
<1>6. Tied(r) /\ Fit(r)
  BY <1>2 DEF Sound, Good, Tied, Fit
<1>7. Sound(r)
  BY <1>3, <1>5, <1>6, SoundGlide DEF Good
<1> QED BY <1>2, <1>3, <1>7 DEF r

LEMMA TcpGoneSound ==
  ASSUME NEW s, Sound(s), s.ts["tcp"] # "idle"
  PROVE  Sound(TcpGone(s))
<1> DEFINE p == [s EXCEPT !.poll = "none"]
           d == Down(p, "tcp", "disconnected")
           r == TcpRecv(d, "poll", "null")
<1>1. TcpGone(s) = r
  BY DEF TcpGone
<1>2. Sound(p) /\ p.ts = s.ts /\ p.poll = "none"
  <2>1. "none" \in Pollings
    BY DEF Pollings
  <2>2. p.poll = "none"
    BY DEF Sound, Good, Base, States
  <2> QED BY <2>1, <2>2, PollSound
<1> HIDE DEF p
<1>3. /\ Good(d) /\ Glide(p, d) /\ d.st # "connecting"
      /\ \A k \in {"tcp", "proxy", "tls"} : k # "tcp" => d.ts[k] = p.ts[k]
      /\ (d.st = "open" => p.st = "open" /\ d.ts["ws"] = p.ts["ws"])
  <2>1. "disconnected" \in Over /\ p.ts["tcp"] # "idle" /\ "tcp" \in {"tcp", "proxy", "tls"} /\ p.poll # "connect"
    BY <1>2 DEF Over
  <2> QED BY <1>2, <2>1, DownGood DEF Sound
<1> HIDE DEF d
<1>4. Half(d)
  <2> SUFFICES ASSUME d.st = "open" PROVE Half(d)
    BY DEF Half
  <2>1. d.stack = p.stack /\ InUse(d) = InUse(p) /\ (Ending(p) => Ending(d)) /\ p.st = "open"
    BY <1>3 DEF Glide, InUse, Ending
  <2>2. "tls" \in d.stack => d.ts["tls"] = "connected"
    BY <1>2, <1>3, <2>1 DEF Sound, Live
  <2>3. p \in States /\ InUse(p) \subseteq {"tcp", "proxy", "tls", "ws"}
    BY <1>2, InUseType, Positions DEF Sound, Good, Base
  <2>4. (\A l \in InUse(p) : p.ts[l] = "connected") => \A l \in InUse(d) : l # "tcp" => d.ts[l] = "connected"
    BY <1>3, <2>1, <2>3
  <2>5. Ending(p) \/ \A l \in InUse(p) : p.ts[l] = "connected"
    BY <1>2, <2>1 DEF Sound, Live
  <2> QED BY <2>1, <2>2, <2>4, <2>5 DEF Half
<1>5. Good(r) /\ Glide(d, r) /\ Live(r)
  BY <1>3, <1>4, TcpRecvNull
<1> HIDE DEF r
<1>6. Kept(r)
  <2>1. Glide(p, r)
    BY <1>3, <1>5, GlideTwice
  <2> QED BY <1>2, <2>1, GlideKept DEF Sound
<1> QED BY <1>1, <1>5, <1>6 DEF Sound

LEMMA AlikeSound ==
  ASSUME NEW s, NEW r \in States, Alike(s, r)
  PROVE  (Sound(s) => Sound(r)) /\ \A t : Free(s, t) => Free(r, t)
<1>1. \A t : Free(s, t) => Free(r, t)
  BY DEF Alike, Free, Begins
<1> QED BY <1>1, AlikeGood DEF Sound

LEMMA ProcessInSound ==
  ASSUME NEW s, Sound(s), Free(s, "poll")
  PROVE  Sound(ProcessIn(s))
<1>1. s \in States /\ s.inbox \in Seq(Units) /\ s.ts["tcp"] \notin {"idle", "connecting"} /\ s.sock = "up"
  BY DEF Sound, Good, Base, States, Inboxes, Free
<1>2. CASE s.inbox # <<>> /\ s.eof # "reset"
  <2> DEFINE i == Tail(s.inbox)
             a == [s EXCEPT !.inbox = i]
             u == Head(s.inbox)
             f == <<"in", "tcp">>
             b == Leads(a, "poll", f)
  <2>1. i \in Inboxes /\ u \in Passed
    BY <1>1, <1>2, HeadTailProperties DEF Inboxes, Passed
  <2>2. ProcessIn(s) = TcpRecv(b, "poll", u)
    BY <1>2 DEF ProcessIn, Leads
  <2> HIDE DEF i, u
  <2>3. a \in States /\ Alike(s, a)
    BY <1>1, <2>1 DEF States, Alike
  <2> HIDE DEF a
  <2>4. Sound(a) /\ Free(a, "poll")
    BY <2>3, AlikeSound
  <2>5. f \in Kinds \X Layer /\ f[1] = "in" /\ f[2] = "tcp" /\ "in" \in Runs("poll") /\ "poll" \in Threads
    BY Positions DEF Kinds, Runs, Threads
  <2>6. "tcp" \in InUse(a)
    BY DEF InUse
  <2> HIDE DEF f
  <2>7. Ready1(a, "poll", f)
    BY <2>4, <2>5, <2>6 DEF Ready1, Free
  <2>8. Sound(b) /\ Moved(a, b) /\ b.pc["poll"] # <<>> /\ b.pc["poll"][1] = f
    BY <2>4, <2>5, <2>7, PushGood
  <2> HIDE DEF b
  <2>9. Free(b, "poll")
    <3>1. \A l \in Layer : ~Begins(b, "poll", l)
      BY <2>5, <2>8 DEF Begins
    <3> QED BY <2>4, <2>8, <3>1 DEF Free, Moved
  <2> QED BY <2>1, <2>2, <2>5, <2>8, <2>9, TcpRecvSound
<1>3. CASE ~(s.inbox # <<>> /\ s.eof # "reset")
  <2>1. ProcessIn(s) \in {s, TcpGone(s)}
    BY <1>3 DEF ProcessIn
  <2>2. Sound(TcpGone(s))
    BY <1>1, TcpGoneSound
  <2> QED BY <2>1, <2>2
<1> QED BY <1>2, <1>3

LEMMA ProcessOutSound ==
  ASSUME NEW s, Sound(s), Free(s, "poll")
  PROVE  Sound(ProcessOut(s))
<1>1. s \in States /\ s.ts["tcp"] \notin {"idle", "connecting"} /\ s.sock = "up" /\ Base(s)
  BY DEF Sound, Good, Base, Free
<1>2. CASE s.sendq # <<>> /\ s.eof = "reset"
  <2>1. ProcessOut(s) = TcpGone(s)
    BY <1>2 DEF ProcessOut
  <2> QED BY <1>1, <2>1, TcpGoneSound
<1>3. CASE ~(s.sendq # <<>> /\ s.eof = "reset")
  <2> DEFINE q == TrySendQueue(s)
             r == [q EXCEPT !.poll = "in"]
  <2>1. ProcessOut(s) = IF q.sendq = <<>> THEN r ELSE q
    BY <1>3 DEF ProcessOut
  <2>2. Writes(s, q, <<>>) /\ q.poll = s.poll
    BY <1>1, TrySendQueueWrites
  <2> HIDE DEF q
  <2>3. q \in States /\ Same(s, q)
    BY <2>2 DEF Writes
  <2>4. Glide(s, q) /\ Still(s, q) /\ Told(q)
    BY <1>1, <2>2, <2>3 DEF Same, Glide, Still, Base, Told, At
  <2>5. InOrder(q.wire \o q.sendq, q.accepted)
    <3>1. s.wire \o s.sendq \in Seq(Written)
      BY <1>1 DEF States, Streams
    <3>2. q.wire \o q.sendq = s.wire \o s.sendq
      BY <2>2, <3>1, ConcatEmptySeq DEF Writes
    <3> QED BY <1>1, <2>3, <3>2 DEF Base, Same
  <2>6. Base(q) /\ Tied(q) /\ Fit(q)
    BY <1>1, <2>3, <2>4, <2>5, GlideBase, SameTied DEF Sound, Good
  <2>7. Sound(q)
    BY <2>4, <2>6, SoundGlide DEF Good
  <2>8. Sound(r)
    <3>1. q.ts = s.ts /\ q.sock = s.sock /\ "in" \in Pollings
      BY <2>3 DEF Same, Pollings
    <3> QED BY <1>1, <2>7, <3>1, PollSound
  <2> QED BY <2>1, <2>7, <2>8
<1> QED BY <1>2, <1>3

-----------------------------------------------------------------------------
(* doRecv.                                                                 *)

\* The layers are good but an open WebSocket may rest on nothing.
Loose(s) == Good(s) /\ Kept(s) /\ "tls" \in s.stack

LEMMA LooseAlike ==
  ASSUME NEW s, NEW r \in States, Loose(s), Alike(s, r) PROVE Loose(r)
BY AlikeGood DEF Loose, Alike

LEMMA TlsOverSound ==
  ASSUME NEW s, Loose(s), s.ts["tls"] \in {"connecting", "connected"}
  PROVE  Sound(TlsOver(s))
<1>1. "tls" \in Lower(s) /\ Up(s, "tls") = "ws" /\ "tls" \in {"tcp", "proxy", "tls"}
  BY DEF Lower, InUse, Up, Loose
<1>2. CASE s.ts["tls"] = "connected"
  <2> DEFINE d == Down(s, "tls", "disconnected")
             r == PassUp(d, "tls", "null")
  <2>1. TlsOver(s) = r
    BY <1>2 DEF TlsOver
  <2>2. Good(d) /\ Glide(s, d) /\ d.st # "connecting"
    <3>1. "disconnected" \in Over /\ s.ts["tls"] # "idle"
      BY <1>2 DEF Over
    <3> QED BY <1>1, <3>1, DownGood DEF Loose
  <2> HIDE DEF d
  <2>3. "tls" \in Lower(d) /\ Up(d, "tls") # "proxy"
    BY <1>1, <2>2 DEF Glide, Lower, InUse, Up
  <2>4. Good(r) /\ Glide(d, r) /\ Live(r)
    BY <2>2, <2>3, NullPasses
  <2> HIDE DEF r
  <2>5. Kept(r)
    <3>1. Glide(s, r)
      BY <2>2, <2>4, GlideTwice
    <3> QED BY <3>1, GlideKept DEF Loose
  <2> QED BY <2>1, <2>4, <2>5 DEF Sound
<1>3. CASE s.ts["tls"] = "connecting"
  <2> DEFINE r == Down(s, "tls", "failed")
  <2>1. TlsOver(s) = r
    BY <1>3 DEF TlsOver
  <2>2. Good(r) /\ Glide(s, r) /\ r.st = "closed"
    <3>1. "failed" \in Over /\ s.ts["tls"] # "idle" /\ s.ts["tls"] \notin Over
      BY <1>3 DEF Over
    <3> QED BY <1>1, <3>1, DownGood DEF Loose
  <2> HIDE DEF r
  <2>3. Live(r) /\ Kept(r)
    BY <2>2, GlideKept DEF Live, Loose
  <2> QED BY <2>1, <2>2, <2>3 DEF Sound
<1> QED BY <1>2, <1>3

LEMMA HelloSound ==
  ASSUME NEW s, Sound(s), CanSend(s, "tls")
  PROVE  LET r == Hello(s) IN Sound(r) /\ r.ts = s.ts /\ r.stack = s.stack /\ \A t : Free(s, t) => Free(r, t)
<1>1. CASE s.hello
  BY <1>1 DEF Hello
<1>2. CASE ~s.hello
  <2> DEFINE o == Outgoing(s, << <<"hello">> >>)
             r == [o EXCEPT !.hello = TRUE]
  <2>1. Good(o) /\ Glide(s, o) /\ Still(s, o) /\ Same(s, o)
    <3>1. <<"hello">> \in Heads /\ "tls" \in Layer /\ "tls" # "tcp"
      BY Positions DEF Heads
    <3> QED BY <3>1, OutgoingGood DEF Sound, Good
  <2>2. Hello(s) = r
    BY <1>2 DEF Hello
  <2> HIDE DEF o
  <2>3. Sound(o) /\ o \in States
    BY <2>1, SoundGlide DEF Good, Base
  <2>4. r \in States /\ Alike(o, r)
    BY <2>3 DEF States, Alike
  <2> HIDE DEF r
  <2>5. Sound(r) /\ \A t : Free(o, t) => Free(r, t)
    BY <2>3, <2>4, AlikeSound
  <2>6. \A t : Free(s, t) => Free(o, t)
    BY <2>1 DEF Same, Free, Begins
  <2>7. r.ts = s.ts /\ r.stack = s.stack
    BY <2>1, <2>4 DEF Same, Alike
  <2> QED BY <2>2, <2>5, <2>6, <2>7
<1> QED BY <1>1, <1>2

LEMMA Restored ==
  ASSUME NEW s \in States, NEW t \in Threads, NEW x, s.pc[t] = x
  PROVE  [Popped(s, t) EXCEPT !.pc[t] = x] = s
<1> DEFINE y == Tail(s.pc[t])
           a == [s.pc EXCEPT ![t] = y]
           r == [s EXCEPT !.pc = a]
<1>1. Popped(s, t) = r
  BY DEF Popped
<1>2. s.pc \in CallChains
  BY DEF States
<1> HIDE DEF y
<1>3. [a EXCEPT ![t] = x] = s.pc
  BY <1>2 DEF CallChains
<1> HIDE DEF a
<1>4. r.pc = a
  BY DEF States
<1>5. [r EXCEPT !.pc = s.pc] = s
  BY DEF States
<1>6. [r EXCEPT !.pc[t] = x] = [r EXCEPT !.pc = [a EXCEPT ![t] = x]]
  BY <1>4
<1> QED BY <1>1, <1>3, <1>5, <1>6

LEMMA DoRecvSound ==
  ASSUME NEW s, Sound(s), s.pc["pool"] # <<>>, s.pc["pool"][1][1] = "doRecv"
  PROVE  Sound(DoRecv(Popped(s, "pool")))
<1> DEFINE p == Popped(s, "pool")
           x == << <<"doRecv", "tls">> >>
           more == [p EXCEPT !.pc["pool"] = x]
           u == Head(s.tlsq)
           z == Tail(s.tlsq)
           rest == [s EXCEPT !.tlsq = z]
           left == [p EXCEPT !.tlsq = z]
<1>1. s \in States /\ Base(s) /\ "pool" \in Threads /\ s.pc["pool"] \in Frames /\ Chain(s, "pool", s.pc["pool"])
  BY DEF Sound, Good, Base, States, CallChains, Frames, Chains, Threads
<1>2. s.pc["pool"] = x /\ "tls" \in s.stack
  <2> DEFINE q == s.pc["pool"]
  <2>1. 1 \in DOMAIN q
    BY <1>1, EmptySeq DEF Frames
  <2>2. q[1][2] = "tls" /\ Len(q) = 1 /\ q[1][2] \in InUse(s)
    BY <1>1, <2>1 DEF Chain
  <2>3. q[1] = <<"doRecv", "tls">>
    <3>1. q[1] \in Kinds \X Layer
      BY <1>1, <2>1 DEF Frames
    <3> QED BY <2>2, <3>1
  <2>4. "tls" \in s.stack
    BY <2>2 DEF InUse
  <2>5. q = x
    <3> HIDE DEF q
    <3> QED BY <1>1, <2>2, <2>3 DEF Frames, q
  <2> QED BY <2>4, <2>5
<1>3. more = s
  BY <1>1, <1>2, Restored
<1>4. Good(p) /\ Moved(s, p)
  <2>1. s.pc["pool"][1] # <<"store", "tcp">>
    OBVIOUS
  <2> QED BY <1>1, <2>1, PopGood DEF Sound
<1>5. Kept(p)
  <2>1. s.pc["pool"][1] # <<"store", "tcp">> /\ s.pc["pool"][1][1] \notin {"check"}
    OBVIOUS
  <2>2. Keeps(s, p, {"check"})
    BY <1>1, <2>1, PopKeeps
  <2> QED BY <1>4, <2>2, MovedKept DEF Sound
<1>6. p.ts = s.ts /\ p.stack = s.stack /\ p.tlsq = s.tlsq /\ p.tlsEnd = s.tlsEnd /\ p.hello = s.hello
      /\ p.role = s.role /\ p.st = s.st /\ p.sock = s.sock /\ p.eof = s.eof /\ p.tasks = s.tasks
  BY <1>4 DEF Moved
<1>7. Loose(p) /\ p \in States
  BY <1>2, <1>4, <1>5, <1>6 DEF Loose, Good, Base
<1>8. CanSend(p, "tls") <=> CanSend(s, "tls")
  BY <1>6 DEF CanSend, InUse
<1>9. DoRecv(p) =
        IF s.ts["tls"] \notin {"connecting", "connected"} THEN p
        ELSE IF s.ts["tls"] = "connecting" /\ s.role = "client" /\ ~s.hello
             THEN IF CanSend(s, "tls") THEN Hello(s) ELSE TlsOver(p)
        ELSE IF s.tlsq = <<>> THEN IF s.tlsEnd THEN TlsOver(p) ELSE p
        ELSE IF u = "idle" THEN PassUp(rest, "tls", "idle")
        ELSE IF s.ts["tls"] = "connected"
             THEN IF u = "notify" THEN TlsOver(left) ELSE PassUp(rest, "tls", u)
        ELSE IF u = "good" /\ CanSend(s, "tls") THEN Connected(Hello(rest), "pool", "tls")
        ELSE TlsOver(left)
  <2> DEFINE rest1 == [more EXCEPT !.tlsq = Tail(@)]
             left1 == [p EXCEPT !.tlsq = Tail(@)]
  <2>1. rest1 = rest /\ left1 = left
    <3>1. [s EXCEPT !.tlsq = Tail(@)] = rest /\ [p EXCEPT !.tlsq = Tail(@)] = left
      BY <1>6
    <3> HIDE DEF more
    <3> QED BY <1>3, <3>1
  <2> HIDE DEF p
  <2>2. DoRecv(p) =
        IF p.ts["tls"] \notin {"connecting", "connected"} THEN p
        ELSE IF p.ts["tls"] = "connecting" /\ p.role = "client" /\ ~p.hello
             THEN IF CanSend(p, "tls") THEN Hello(more) ELSE TlsOver(p)
        ELSE IF p.tlsq = <<>> THEN IF p.tlsEnd THEN TlsOver(p) ELSE p
        ELSE IF Head(p.tlsq) = "idle" THEN PassUp(rest1, "tls", "idle")
        ELSE IF p.ts["tls"] = "connected"
             THEN IF Head(p.tlsq) = "notify" THEN TlsOver(left1) ELSE PassUp(rest1, "tls", Head(p.tlsq))
        ELSE IF Head(p.tlsq) = "good" /\ CanSend(p, "tls") THEN Connected(Hello(rest1), "pool", "tls")
        ELSE TlsOver(left1)
    BY Zenon DEF DoRecv
  <2> HIDE DEF rest1, left1, more, rest, left
  <2> QED BY <1>3, <1>6, <1>8, <2>1, <2>2
<1>10. s.ts["tls"] # "connected" => s.st # "open"
  BY <1>2 DEF Sound, Live
<1> SUFFICES Sound(DoRecv(p))
  OBVIOUS
<1> HIDE DEF p
<1>11. ASSUME s.st = "open" => ~s.tlsEnd PROVE Sound(p)
  <2>1. Live(p)
    <3>1. InUse(p) = InUse(s)
      BY <1>6 DEF InUse
    <3> QED BY <1>6, <1>11, <3>1 DEF Sound, Live, Ending
  <2> QED BY <1>4, <1>5, <2>1 DEF Sound
<1>12. CASE s.ts["tls"] \notin {"connecting", "connected"}
  BY <1>9, <1>10, <1>11, <1>12
<1>13. CASE s.ts["tls"] = "connecting" /\ s.role = "client" /\ ~s.hello
  <2>1. CanSend(s, "tls") => Sound(Hello(s))
    BY HelloSound
  <2>2. Sound(TlsOver(p))
    BY <1>6, <1>7, <1>13, TlsOverSound
  <2> QED BY <1>9, <1>13, <2>1, <2>2
<1>14. CASE s.ts["tls"] \in {"connecting", "connected"} /\ ~(s.ts["tls"] = "connecting" /\ s.role = "client" /\ ~s.hello) /\ s.tlsq = <<>>
  <2>1. Sound(TlsOver(p))
    BY <1>6, <1>7, <1>14, TlsOverSound
  <2>2. DoRecv(p) = IF s.tlsEnd THEN TlsOver(p) ELSE p
    BY <1>9, <1>14
  <2> QED BY <2>1, <2>2, <1>11
<1>15. CASE s.ts["tls"] \in {"connecting", "connected"} /\ ~(s.ts["tls"] = "connecting" /\ s.role = "client" /\ ~s.hello) /\ s.tlsq # <<>>
  <2>1. u \in Passed /\ z \in TlsQueues
    <3>1. s.tlsq \in Seq(Units \cup {"idle"})
      BY <1>1 DEF States, TlsQueues
    <3> QED BY <1>15, <3>1, HeadTailProperties DEF Passed, TlsQueues
  <2>2. DoRecv(p) =
        IF u = "idle" THEN PassUp(rest, "tls", "idle")
        ELSE IF s.ts["tls"] = "connected"
             THEN IF u = "notify" THEN TlsOver(left) ELSE PassUp(rest, "tls", u)
        ELSE IF u = "good" /\ CanSend(s, "tls") THEN Connected(Hello(rest), "pool", "tls")
        ELSE TlsOver(left)
    BY <1>9, <1>15
  <2> HIDE DEF u, z
  <2>3. rest \in States /\ Alike(s, rest) /\ rest.eof = s.eof
    BY <1>1, <2>1 DEF States, Alike
  <2>4. left \in States /\ Alike(p, left)
    BY <1>7, <2>1 DEF States, Alike
  <2> HIDE DEF rest, left
  <2>5. Sound(rest)
    BY <2>3, AlikeSound
  <2>6. Sound(TlsOver(left))
    <3>1. Loose(left) /\ left.ts["tls"] \in {"connecting", "connected"}
      BY <1>6, <1>7, <1>15, <2>4, LooseAlike DEF Alike
    <3> QED BY <3>1, TlsOverSound
  <2>7. "tls" \in Lower(rest) /\ Up(rest, "tls") # "proxy"
    BY <1>2, <2>3 DEF Alike, Lower, InUse, Up
  <2>8. ASSUME NEW v \in Passed PROVE Sound(PassUp(rest, "tls", v))
    <3> DEFINE r == PassUp(rest, "tls", v)
    <3>1. Good(r) /\ Glide(rest, r) /\ Still(rest, r)
      BY <2>5, <2>7, PassUpGood DEF Sound
    <3> HIDE DEF r
    <3> QED BY <2>5, <3>1, SoundGlide DEF r
  <2>9. "idle" \in Passed
    BY DEF Passed
  <2>10. ASSUME CanSend(s, "tls"), s.ts["tls"] = "connecting" PROVE Sound(Connected(Hello(rest), "pool", "tls"))
    <3> DEFINE h == Hello(rest)
    <3>1. CanSend(rest, "tls")
      BY <2>3, <2>10 DEF CanSend, Alike, InUse
    <3>2. Free(rest, "pool")
      <4>1. rest.pc = s.pc
        BY <2>3 DEF Alike
      <4>2. \A l \in Layer : ~Begins(rest, "pool", l)
        <5>1. rest.pc["pool"][1] = <<"doRecv", "tls">>
          BY <1>2, <4>1
        <5> QED BY <5>1 DEF Begins
      <4> QED BY <4>2 DEF Free
    <3>3. Sound(h) /\ h.ts = rest.ts /\ h.stack = rest.stack /\ Free(h, "pool")
      BY <2>5, <3>1, <3>2, HelloSound
    <3> HIDE DEF h
    <3>4. h.ts["tls"] = "connecting" /\ "tls" \in Lower(h)
      BY <2>3, <2>7, <2>10, <3>3 DEF Alike, Lower, InUse
    <3> QED BY <1>1, <3>3, <3>4, ConnectedSound DEF h
  <2> QED BY <1>15, <2>1, <2>2, <2>6, <2>8, <2>9, <2>10
<1> QED BY <1>12, <1>13, <1>14, <1>15

-----------------------------------------------------------------------------
(* emplaceTransport.                                                       *)

\* Thread t has stored layer l, which is in state x and left the tasks z.
Made(s, t, l, x, z) ==
  [s EXCEPT !.slot = s.slot \cup {l}, !.cb = s.cb \cup {l}, !.ts = [s.ts EXCEPT ![l] = x],
            !.tasks = s.tasks \cup z, !.pc = [s.pc EXCEPT ![t] = Tail(s.pc[t])]]

LEMMA MadeFields ==
  ASSUME NEW s \in States, NEW t \in Threads, NEW l \in Layer, NEW x \in LayerStates,
         NEW z \in TaskSets, Tail(s.pc[t]) \in Frames
  PROVE  LET r == Made(s, t, l, x, z)
         IN  /\ r \in States
             /\ r.slot = s.slot \cup {l} /\ r.cb = s.cb \cup {l} /\ r.tasks = s.tasks \cup z
             /\ r.ts[l] = x /\ (\A k \in Layer : k # l => r.ts[k] = s.ts[k])
             /\ r.pc[t] = Tail(s.pc[t]) /\ (\A u \in Threads : u # t => r.pc[u] = s.pc[u])
             /\ r.role = s.role /\ r.stack = s.stack /\ r.opened = s.opened /\ r.sock = s.sock
             /\ r.poll = s.poll /\ r.tear = s.tear /\ r.closeSent = s.closeSent
             /\ r.timers = s.timers /\ r.st = s.st /\ r.reports = s.reports /\ r.wire = s.wire
             /\ r.sendq = s.sendq /\ r.accepted = s.accepted /\ r.eof = s.eof
<1> DEFINE a == s.slot \cup {l}
           b == s.cb \cup {l}
           c == [s.ts EXCEPT ![l] = x]
           d == s.tasks \cup z
           e == [s.pc EXCEPT ![t] = Tail(s.pc[t])]
           r == [s EXCEPT !.slot = a, !.cb = b, !.ts = c, !.tasks = d, !.pc = e]
<1>1. s.slot \in LayerSets /\ s.cb \in LayerSets /\ s.ts \in LayerTables /\ s.tasks \in TaskSets /\ s.pc \in CallChains
  BY DEF States
<1>2. a \in LayerSets /\ b \in LayerSets /\ d \in TaskSets
  BY <1>1 DEF LayerSets, TaskSets
<1>3. c \in LayerTables /\ c[l] = x /\ \A k \in Layer : k # l => c[k] = s.ts[k]
  BY <1>1 DEF LayerTables
<1>4. e \in CallChains /\ e[t] = Tail(s.pc[t]) /\ \A u \in Threads : u # t => e[u] = s.pc[u]
  <2> DEFINE y == Tail(s.pc[t])
  <2>1. y \in Seq(Kinds \X Layer)
    BY DEF Frames
  <2> HIDE DEF y
  <2> QED BY <1>1, <2>1 DEF CallChains, y
<1>5. Made(s, t, l, x, z) = r
  BY DEF Made
<1> HIDE DEF a, b, c, d, e
<1>6. r \in States /\ r.slot = a /\ r.cb = b /\ r.tasks = d /\ r.ts = c /\ r.pc = e
      /\ r.role = s.role /\ r.stack = s.stack /\ r.opened = s.opened /\ r.sock = s.sock
      /\ r.poll = s.poll /\ r.tear = s.tear /\ r.closeSent = s.closeSent
      /\ r.timers = s.timers /\ r.st = s.st /\ r.reports = s.reports /\ r.wire = s.wire
      /\ r.sendq = s.sendq /\ r.accepted = s.accepted /\ r.eof = s.eof
  BY <1>2, <1>3, <1>4 DEF States
<1> HIDE DEF r
<1> QED BY <1>3, <1>4, <1>5, <1>6 DEF a, b, d

\* What the first start of a layer may leave.
Fits(s, l, x, z) ==
  \/ l = "tcp" /\ s.role = "server" /\ x = "connected" /\ z = {}
  \/ l = "tcp" /\ s.role = "client" /\ x = "connecting" /\ z = {"resolve"}
  \/ l = "tls" /\ x = "connecting" /\ z = {"doRecv"}
  \/ l \in {"proxy", "ws"} /\ x = "connecting" /\ z = {}

LEMMA StoreMeans ==
  ASSUME NEW s, NEW t \in Threads, NEW l, Base(s), s.pc[t] # <<>>, s.pc[t][1] = <<"store", l>>
  PROVE  /\ s \in States /\ l \in InUse(s) /\ l \in Layer /\ s.ts[l] = "idle" /\ Begins(s, t, l)
         /\ s.pc[t] \in Frames /\ Chain(s, t, s.pc[t]) /\ 1 \in DOMAIN s.pc[t]
         /\ \A u \in Threads : u # t => ~Begins(s, u, l)
         /\ \E j \in DOMAIN s.pc[t] : j > 1 /\ s.pc[t][j] = <<"check", l>> /\ (l # "tcp" => j = 2)
         /\ l = "tcp" => t = "caller"
<1>1. s \in States /\ s.pc[t] \in Frames /\ Chain(s, t, s.pc[t]) /\ Starts(s)
  BY DEF Base, States, CallChains, Frames, Chains
<1>2. 1 \in DOMAIN s.pc[t]
  BY <1>1, EmptySeq DEF Frames
<1>3. s.pc[t][1][1] = "store" /\ s.pc[t][1][2] = l
  OBVIOUS
<1>4. l \in InUse(s) /\ l \in Layer
      /\ \E j \in DOMAIN s.pc[t] : j > 1 /\ s.pc[t][j] = <<"check", l>> /\ (l # "tcp" => j = 2)
  <2>1. l \in InUse(s)
    BY <1>1, <1>2, <1>3 DEF Chain
  <2>2. \E j \in DOMAIN s.pc[t] : j > 1 /\ s.pc[t][j] = <<"check", l>> /\ (l # "tcp" => j = 2)
    BY <1>1, <1>2, <1>3 DEF Chain
  <2> QED BY <1>1, <2>1, <2>2, InUseType
<1>5. Begins(s, t, l)
  BY DEF Begins
<1>6. s.ts[l] = "idle" /\ \A u \in Threads : u # t => ~Begins(s, u, l)
  BY <1>1, <1>4, <1>5 DEF Starts
<1>7. l = "tcp" => t = "caller"
  <2> SUFFICES ASSUME l = "tcp" PROVE t = "caller"
    OBVIOUS
  <2>1. Begins(s, "caller", l) /\ "caller" \in Threads
    BY <1>6 DEF Base, Early, Begins, Threads
  <2> QED BY <1>6, <2>1
<1> QED BY <1>1, <1>2, <1>4, <1>5, <1>6, <1>7

\* Thread t is about to store layer l.
Stores(s, t, l, x, z) == s.pc[t] # <<>> /\ s.pc[t][1] = <<"store", l>> /\ Fits(s, l, x, z)

LEMMA MadeSound ==
  ASSUME NEW s, NEW t \in Threads, NEW l, NEW x, NEW z, Sound(s), Stores(s, t, l, x, z)
  PROVE  LET r == Made(s, t, l, x, z)
         IN  /\ Sound(r) /\ \A k : ~Begins(r, t, k)
             /\ r.pc[t] = Tail(s.pc[t]) /\ (\A u \in Threads : u # t => r.pc[u] = s.pc[u])
<1> DEFINE r == Made(s, t, l, x, z)
           q == s.pc[t]
           y == Tail(q)
<1>0. s.pc[t] # <<>> /\ s.pc[t][1] = <<"store", l>> /\ Fits(s, l, x, z)
  BY DEF Stores
<1> USE <1>0
<1>1. /\ s \in States /\ l \in InUse(s) /\ l \in Layer /\ s.ts[l] = "idle" /\ Begins(s, t, l) /\ Base(s)
      /\ q \in Frames /\ Chain(s, t, q) /\ 1 \in DOMAIN q
      /\ \A u \in Threads : u # t => ~Begins(s, u, l)
      /\ \E j \in DOMAIN q : j > 1 /\ q[j] = <<"check", l>>
      /\ l = "tcp" => t = "caller"
  <2>1. Base(s)
    BY DEF Sound, Good
  <2>2. /\ s \in States /\ l \in InUse(s) /\ l \in Layer /\ s.ts[l] = "idle" /\ Begins(s, t, l)
        /\ s.pc[t] \in Frames /\ Chain(s, t, s.pc[t]) /\ 1 \in DOMAIN s.pc[t]
        /\ \A u \in Threads : u # t => ~Begins(s, u, l)
        /\ \E j \in DOMAIN s.pc[t] : j > 1 /\ s.pc[t][j] = <<"check", l>> /\ (l # "tcp" => j = 2)
        /\ l = "tcp" => t = "caller"
    BY <1>0, <2>1, StoreMeans
  <2> QED BY <2>1, <2>2
<1>2. /\ y \in Frames /\ Chain(s, t, y)
      /\ \A i \in DOMAIN y : i + 1 \in DOMAIN q /\ y[i] = q[i + 1] /\ y[i][1] \notin {"init", "store"}
      /\ \A i \in DOMAIN q : i # 1 => i - 1 \in DOMAIN y /\ y[i - 1] = q[i]
  BY <1>1, TailChain
<1>3. x \in LayerStates /\ z \in TaskSets /\ x \notin Over /\ x # "idle"
  BY DEF Fits, LayerStates, TaskSets, Over
<1>4. /\ r \in States
      /\ r.slot = s.slot \cup {l} /\ r.cb = s.cb \cup {l} /\ r.tasks = s.tasks \cup z
      /\ r.ts[l] = x /\ (\A k \in Layer : k # l => r.ts[k] = s.ts[k])
      /\ r.pc[t] = y /\ (\A u \in Threads : u # t => r.pc[u] = s.pc[u])
      /\ r.role = s.role /\ r.stack = s.stack /\ r.opened = s.opened /\ r.sock = s.sock
      /\ r.poll = s.poll /\ r.tear = s.tear /\ r.closeSent = s.closeSent
      /\ r.timers = s.timers /\ r.st = s.st /\ r.reports = s.reports /\ r.wire = s.wire
      /\ r.sendq = s.sendq /\ r.accepted = s.accepted
  BY <1>1, <1>2, <1>3, MadeFields
<1> HIDE DEF r, y, q
<1>5. InUse(r) = InUse(s) /\ Lower(r) = Lower(s) /\ (\A k : Up(r, k) = Up(s, k))
      /\ InUse(s) \subseteq Layer /\ Lower(s) \subseteq InUse(s) /\ "tcp" \in Layer /\ "ws" \in Layer
      /\ \A k \in Lower(s) : Up(s, k) \in Layer /\ k \in Layer
  BY <1>1, <1>4, InUseType, Positions DEF InUse, Lower, Up
<1>6. Told(r) /\ InOrder(r.wire \o r.sendq, r.accepted) /\ r.opened
  BY <1>1, <1>4 DEF Base, Told, At
<1>7. Placed(r)
  <2>1. "doRecv" \in r.tasks => "tls" \in s.stack
    BY <1>1, <1>4 DEF Base, Placed, Fits, InUse
  <2> QED BY <1>1, <1>4, <1>5, <2>1 DEF Base, Placed
<1>8. Rising(r)
  <2> SUFFICES ASSUME NEW k \in Lower(s), r.ts[k] \in {"idle", "connecting"} PROVE r.ts[Up(s, k)] = "idle"
    BY <1>5 DEF Rising
  <2>1. s.ts[k] \in {"idle", "connecting"}
    BY <1>1, <1>4, <1>5
  <2>2. s.ts[Up(s, k)] = "idle" /\ \A u \in Threads : ~Begins(s, u, Up(s, k))
    BY <1>1, <2>1 DEF Base, Rising, Starts
  <2>3. Up(s, k) # l
    BY <1>1, <2>2
  <2> QED BY <1>4, <1>5, <2>2, <2>3
<1>9. CloseLate(r)
  BY <1>1, <1>3, <1>4, <1>5 DEF Base, CloseLate
<1>10. Chains(r)
  <2> SUFFICES ASSUME NEW u \in Threads PROVE Chain(r, u, r.pc[u])
    BY DEF Chains
  <2> DEFINE v == r.pc[u]
  <2>1. Chain(s, u, v)
    <3>1. CASE u = t
      BY <1>2, <1>4, <3>1
    <3>2. CASE u # t
      BY <1>1, <1>4, <3>2 DEF Base, Chains
    <3> QED BY <3>1, <3>2
  <2> HIDE DEF v
  <2>2. Chain(r, u, v)
    BY <2>1, <1>4, <1>5 DEF Chain
  <2> QED BY <2>2 DEF v
<1>11. \A k : ~Begins(r, t, k)
  <2>1. y # <<>> => 1 \in DOMAIN y
    BY <1>2, EmptySeq DEF Frames
  <2> QED BY <2>1, <1>2, <1>4 DEF Begins
<1>12. Starts(r)
  <2>1. \A u \in Threads : \A k : Begins(r, u, k) => u # t /\ Begins(s, u, k)
    BY <1>4, <1>11 DEF Begins
  <2>2. \A u, v \in Threads, k \in Layer : Begins(r, u, k) /\ Begins(r, v, k) => u = v
    BY <1>1, <2>1 DEF Base, Starts
  <2>3. ASSUME NEW u \in Threads, NEW k \in Layer, Begins(r, u, k) PROVE r.ts[k] = "idle"
    <3>1. k # l /\ s.ts[k] = "idle"
      BY <1>1, <2>1, <2>3 DEF Base, Starts
    <3> QED BY <1>4, <3>1
  <2>4. ASSUME NEW u \in Threads, NEW k \in Lower(r), Begins(r, u, Up(r, k))
        PROVE  r.ts[k] \notin {"idle", "connecting"}
    <3>1. k \in Lower(s) /\ Begins(s, u, Up(s, k))
      BY <1>5, <2>1, <2>4
    <3>2. s.ts[k] \notin {"idle", "connecting"} /\ k # l /\ k \in Layer
      BY <1>1, <1>5, <3>1 DEF Base, Starts
    <3> QED BY <1>4, <3>2
  <2> QED BY <2>2, <2>3, <2>4 DEF Starts
<1>13. Early(r)
  <2>1. Early(s)
    BY <1>1 DEF Base
  <2>2. CASE l = "tcp"
    <3>1. t = "caller" /\ s.pc["poll"] = <<>> /\ s.poll = "none" /\ {"resolve", "attempt"} \cap s.tasks = {}
      BY <1>1, <2>1, <2>2 DEF Early
    <3>2. r.pc["poll"] = <<>> /\ r.poll = "none"
      BY <1>4, <3>1 DEF Threads
    <3>3. CASE s.role = "server" /\ x = "connected" /\ z = {}
      BY <1>4, <2>2, <3>1, <3>2, <3>3 DEF Early
    <3>4. CASE s.role = "client" /\ x = "connecting" /\ z = {"resolve"}
      <4>1. ~({"resolve", "attempt"} \subseteq r.tasks)
        BY <1>4, <3>1, <3>4
      <4> QED BY <1>4, <2>2, <3>2, <3>4, <4>1 DEF Early
    <3> QED BY <2>2, <3>3, <3>4 DEF Fits
  <2>3. CASE l # "tcp"
    <3>1. r.ts["tcp"] = s.ts["tcp"] /\ r.poll = s.poll /\ r.role = s.role
      BY <1>4, <1>5, <2>3
    <3>2. {"resolve", "attempt"} \cap r.tasks = {"resolve", "attempt"} \cap s.tasks
          /\ ({"resolve", "attempt"} \subseteq r.tasks <=> {"resolve", "attempt"} \subseteq s.tasks)
      BY <1>4, <2>3 DEF Fits
    <3>3. r.ts["tcp"] = "idle" => t # "caller"
      BY <2>1, <2>3, <3>1 DEF Early
    <3>4. r.ts["tcp"] \in {"idle", "connecting"} => t # "poll"
      BY <2>1, <3>1 DEF Early
    <3>5. (t # "poll" => r.pc["poll"] = s.pc["poll"]) /\ (t # "caller" => r.pc["caller"] = s.pc["caller"])
      BY <1>4 DEF Threads
    <3> QED BY <2>1, <3>1, <3>2, <3>3, <3>4, <3>5 DEF Early
  <2> QED BY <2>2, <2>3
<1>14. Polled(r)
  <2>1. Polled(s) /\ (r.pc["poll"] # <<>> => s.pc["poll"] # <<>>)
    <3>1. "poll" # t => r.pc["poll"] = s.pc["poll"]
      BY <1>4 DEF Threads
    <3> QED BY <1>1, <3>1 DEF Base
  <2>2. \A i \in DOMAIN r.pc["caller"] : r.pc["caller"][i][1] = "pollIn" => s.sock = "up"
    <3>1. CASE t = "caller"
      BY <1>2, <1>4, <2>1, <3>1 DEF Polled, q
    <3>2. CASE t # "caller"
      <4>1. r.pc["caller"] = s.pc["caller"]
        BY <1>4, <3>2 DEF Threads
      <4> QED BY <2>1, <4>1 DEF Polled
    <3> QED BY <3>1, <3>2
  <2> QED BY <1>4, <2>1, <2>2 DEF Polled
<1>15. Base(r)
  BY <1>4, <1>6, <1>7, <1>8, <1>9, <1>10, <1>12, <1>13, <1>14 DEF Base
<1>16. s.st # "open"
  BY <1>1, Topmost DEF Base, Sound, Good, Tied
<1>17. Tied(r) /\ Fit(r)
  <2>1. \A k \in Layer : (r.ts[k] # "idle" => k \in r.slot \/ s.ts[k] # "idle") /\ (r.ts[k] \in Over => s.ts[k] \in Over)
    BY <1>3, <1>4
  <2> QED BY <1>4, <1>5, <1>16, <2>1 DEF Sound, Good, Tied, Fit
<1>18. Live(r)
  BY <1>4, <1>16 DEF Live
<1>19. Kept(r)
  <2> SUFFICES ASSUME r.st = "closed", NEW k \in r.slot \ {"proxy"}
               PROVE  \E u \in Threads : \E i \in DOMAIN r.pc[u] : r.pc[u][i] = <<"check", k>>
    BY DEF Kept
  <2>1. \E u \in Threads : \E i \in DOMAIN s.pc[u] : s.pc[u][i] = <<"check", k>>
    <3>1. CASE k = l
      BY <1>1, <3>1 DEF q
    <3>2. CASE k # l
      BY <1>4, <3>2 DEF Sound, Kept
    <3> QED BY <3>1, <3>2
  <2>2. PICK u \in Threads : \E i \in DOMAIN s.pc[u] : s.pc[u][i] = <<"check", k>>
    BY <2>1
  <2>3. PICK i \in DOMAIN s.pc[u] : s.pc[u][i] = <<"check", k>>
    BY <2>2
  <2>4. CASE u # t
    BY <1>4, <2>3, <2>4
  <2>5. CASE u = t
    <3>1. i # 1 /\ i \in DOMAIN q /\ q[i] = <<"check", k>>
      BY <2>3, <2>5 DEF q
    <3>2. i - 1 \in DOMAIN y /\ y[i - 1] = <<"check", k>>
      BY <1>2, <3>1
    <3> QED BY <1>4, <2>5, <3>2
  <2> QED BY <2>4, <2>5
<1> QED BY <1>4, <1>11, <1>15, <1>17, <1>18, <1>19 DEF Sound, Good, r, y, q

\* A member that is reset.
Shed(s, l) == [s EXCEPT !.slot = @ \ {l}]

LEMMA ShedBase ==
  ASSUME NEW s, NEW l, Base(s)
  PROVE  LET r == Shed(s, l)
         IN  Base(r) /\ r.slot = s.slot \ {l} /\ r.st = s.st /\ r.pc = s.pc /\ r.ts = s.ts
<1> DEFINE a == s.slot \ {l}
           r == [s EXCEPT !.slot = a]
<1>1. s \in States /\ a \in LayerSets
  BY DEF Base, States, LayerSets
<1>2. Shed(s, l) = r
  BY DEF Shed
<1>3. a \subseteq s.slot
  OBVIOUS
<1> HIDE DEF a
<1>4. /\ r \in States /\ r.slot = a /\ r.st = s.st /\ r.pc = s.pc /\ r.ts = s.ts /\ r.cb = s.cb /\ r.tear = s.tear
      /\ r.role = s.role /\ r.stack = s.stack /\ r.opened = s.opened /\ r.sock = s.sock /\ r.tasks = s.tasks
      /\ r.poll = s.poll /\ r.closeSent = s.closeSent /\ r.timers = s.timers /\ r.reports = s.reports
      /\ r.wire = s.wire /\ r.sendq = s.sendq /\ r.accepted = s.accepted
  BY <1>1 DEF States
<1> HIDE DEF r
<1>5. InUse(r) = InUse(s) /\ Lower(r) = Lower(s) /\ \A k : Up(r, k) = Up(s, k)
  BY <1>4 DEF InUse, Lower, Up
<1>6. Told(r) /\ InOrder(r.wire \o r.sendq, r.accepted) /\ r.opened
  BY <1>4 DEF Base, Told, At
<1>7. Placed(r) /\ CloseLate(r)
  BY <1>3, <1>4, <1>5 DEF Base, Placed, CloseLate
<1>8. Rising(r)
  BY <1>4, <1>5 DEF Base, Rising
<1>9. Chains(r)
  <2> SUFFICES ASSUME NEW u \in Threads PROVE Chain(r, u, r.pc[u])
    BY DEF Chains
  <2> DEFINE v == r.pc[u]
  <2>1. Chain(s, u, v)
    BY <1>4 DEF Base, Chains
  <2> HIDE DEF v
  <2>2. Chain(r, u, v)
    BY <2>1, <1>4, <1>5 DEF Chain
  <2> QED BY <2>2 DEF v
<1>10. Starts(r)
  <2>1. \A u, k : Begins(r, u, k) <=> Begins(s, u, k)
    BY <1>4 DEF Begins
  <2> QED BY <1>4, <1>5, <2>1 DEF Base, Starts
<1>11. Early(r) /\ Polled(r)
  BY <1>4 DEF Base, Early, Polled
<1> QED BY <1>2, <1>4, <1>6, <1>7, <1>8, <1>9, <1>10, <1>11 DEF Base, a

\* remoteClose of a WebSocket whose WsTransport, if any, is not connected.
LEMMA DropGood ==
  ASSUME NEW s, Base(s), "ws" \in s.slot => s.ts["ws"] # "connected"
  PROVE  LET r == RemoteClose(s) IN Good(r) /\ Glide(s, r) /\ r.st = "closed"
<1> DEFINE c == [s EXCEPT !.st = "closing"]
<1>1. s \in States
  BY DEF Base
<1>2. CASE s.st \notin {"connecting", "open"}
  <2>1. RemoteClose(s) = CloseTransports(s)
    BY <1>2 DEF RemoteClose, Close
  <2> QED BY <2>1, CloseTransportsGood
<1>3. CASE s.st \in {"connecting", "open"}
  <2>1. c \in States /\ c.st = "closing" /\ c.reports = s.reports /\ c.ts = s.ts /\ c.slot = s.slot
        /\ c.wire = s.wire /\ c.sendq = s.sendq /\ c.accepted = s.accepted
    BY <1>1 DEF States, SocketStates
  <2>2. Glide(s, c)
    BY <1>1, <1>3 DEF Glide, States
  <2>3. Close(s) = IF "ws" \in s.slot THEN WsClose(c) ELSE CloseTransports(c)
    BY <1>3 DEF Close
  <2> HIDE DEF c
  <2>4. Base(c)
    <3>1. Told(c) /\ InOrder(c.wire \o c.sendq, c.accepted)
      BY <1>3, <2>1 DEF Base, Told, At
    <3> QED BY <2>1, <2>2, <3>1, GlideBase
  <2> DEFINE d == CloseTransports(c)
  <2>5. Good(d) /\ Glide(c, d) /\ d.st = "closed"
    BY <2>4, CloseTransportsGood
  <2>6. "ws" \in s.slot => WsClose(c) = c
    BY <2>1 DEF WsClose
  <2>7. CloseTransports(Close(s)) = d
    <3>1. CASE "ws" \in s.slot
      BY <2>3, <2>6, <3>1
    <3>2. CASE "ws" \notin s.slot
      <4>1. CloseTransports(Close(s)) = CloseTransports(d)
        BY <2>3, <3>2
      <4>2. CloseTransports(d) = d
        BY <2>5 DEF CloseTransports
      <4> QED BY <4>1, <4>2
    <3> QED BY <3>1, <3>2
  <2> HIDE DEF d
  <2> QED BY <2>2, <2>5, <2>7, GlideTwice DEF RemoteClose
<1> QED BY <1>2, <1>3

\* The last frame of emplaceTransport.
LEMMA CheckSound ==
  ASSUME NEW s, NEW t \in Threads, NEW l, Sound(s), s.pc[t] # <<>>, s.pc[t][1] = <<"check", l>>
  PROVE  Sound(Check(Popped(s, t), l))
<1> DEFINE p == Popped(s, t)
           r == Shed(p, l)
<1>1. s \in States /\ Base(s) /\ s.pc[t] \in Frames /\ Chain(s, t, s.pc[t])
  BY DEF Sound, Good, Base, States, CallChains, Frames, Chains
<1>2. Good(p) /\ Moved(s, p) /\ p.pc[t] = Tail(s.pc[t]) /\ \A u \in Threads : u # t => p.pc[u] = s.pc[u]
  <2>1. s.pc[t][1] # <<"store", "tcp">>
    OBVIOUS
  <2> QED BY <1>1, <2>1, PopGood DEF Sound
<1>3. \A i \in DOMAIN s.pc[t] : i # 1 => i - 1 \in DOMAIN Tail(s.pc[t]) /\ Tail(s.pc[t])[i - 1] = s.pc[t][i]
  BY <1>1, TailChain
<1>4. Live(p)
  <2>1. s.pc[t][1] # <<"store", "tcp">> /\ s.pc[t][1][1] \notin {"doRecv"}
    OBVIOUS
  <2>2. Keeps(s, p, {"doRecv"})
    BY <1>1, <2>1, PopKeeps
  <2> QED BY <1>2, <2>2, MovedLive DEF Sound
<1> SUFFICES Sound(Check(p, l))
  OBVIOUS
<1> HIDE DEF p
<1>5. CASE p.st # "closed"
  <2>1. Check(p, l) = p /\ Kept(p)
    BY <1>5 DEF Check, Kept
  <2> QED BY <1>2, <1>4, <2>1 DEF Sound
<1>6. CASE p.st = "closed"
  <2>1. Check(p, l) = IF l = "ws" THEN WsClose(r) ELSE r
    BY <1>6 DEF Check, Shed
  <2>2. Base(r) /\ r.slot = p.slot \ {l} /\ r.st = "closed" /\ r.pc = p.pc
    BY <1>2, <1>6, ShedBase DEF Good
  <2> HIDE DEF r
  <2>3. Good(r) /\ Live(r)
    BY <2>2, ClosedIsGood DEF Live
  <2>4. Kept(r)
    <3> SUFFICES ASSUME NEW k \in r.slot \ {"proxy"}
                 PROVE  \E u \in Threads : \E i \in DOMAIN r.pc[u] : r.pc[u][i] = <<"check", k>>
      BY DEF Kept
    <3>1. k # l /\ k \in s.slot /\ s.st = "closed"
      BY <1>2, <1>6, <2>2 DEF Moved
    <3>2. PICK u \in Threads : \E i \in DOMAIN s.pc[u] : s.pc[u][i] = <<"check", k>>
      BY <3>1 DEF Sound, Kept
    <3>3. PICK i \in DOMAIN s.pc[u] : s.pc[u][i] = <<"check", k>>
      BY <3>2
    <3>4. CASE u # t
      BY <1>2, <2>2, <3>3, <3>4
    <3>5. CASE u = t
      <4>1. i # 1
        BY <3>1, <3>3, <3>5
      <4>2. i - 1 \in DOMAIN Tail(s.pc[t]) /\ Tail(s.pc[t])[i - 1] = <<"check", k>>
        BY <1>3, <3>3, <3>5, <4>1
      <4>3. r.pc[u] = Tail(s.pc[t])
        BY <1>2, <2>2, <3>5
      <4> QED BY <4>2, <4>3
    <3> QED BY <3>4, <3>5
  <2>5. Sound(r)
    BY <2>3, <2>4 DEF Sound
  <2>6. Sound(WsClose(r))
    <3> DEFINE c == WsClose(r)
    <3>1. Good(c) /\ Glide(r, c) /\ Still(r, c)
      BY <2>3, WsCloseGood DEF Good
    <3> HIDE DEF c
    <3> QED BY <2>5, <3>1, SoundGlide DEF c
  <2> QED BY <2>1, <2>5, <2>6
<1> QED BY <1>5, <1>6

LEMMA MadeIs ==
  ASSUME NEW s \in States, NEW t \in Threads, NEW l \in Layer
  PROVE  LET p == Popped(s, t)
             i == [p EXCEPT !.slot = @ \cup {l}, !.cb = @ \cup {l}, !.ts[l] = "connecting"]
         IN  /\ i = Made(s, t, l, "connecting", {})
             /\ \A z : [i EXCEPT !.tasks = @ \cup z] = Made(s, t, l, "connecting", z)
             /\ [i EXCEPT !.ts[l] = "connected"] = Made(s, t, l, "connected", {})
<1> DEFINE a == s.slot \cup {l}
           b == s.cb \cup {l}
           c == [s.ts EXCEPT ![l] = "connecting"]
           e == [s.pc EXCEPT ![t] = Tail(s.pc[t])]
           p == [s EXCEPT !.pc = e]
           i == [s EXCEPT !.slot = a, !.cb = b, !.ts = c, !.pc = e]
           o == [s.ts EXCEPT ![l] = "connected"]
<1>1. Popped(s, t) = p
  BY DEF Popped
<1>2. s.ts \in LayerTables
  BY DEF States
<1>3. [c EXCEPT ![l] = "connected"] = o
  BY <1>2 DEF LayerTables
<1> HIDE DEF e
<1>4. p.slot = s.slot /\ p.cb = s.cb /\ p.ts = s.ts
  BY DEF States
<1>5. [p EXCEPT !.slot = @ \cup {l}, !.cb = @ \cup {l}, !.ts[l] = "connecting"]
        = [p EXCEPT !.slot = a, !.cb = b, !.ts = c]
  BY <1>4
<1> HIDE DEF a, b, c, o
<1>6. [p EXCEPT !.slot = a, !.cb = b, !.ts = c] = i
  BY DEF States
<1>7. i.tasks = s.tasks /\ i.ts = c
  BY DEF States
<1>8. i = [s EXCEPT !.slot = a, !.cb = b, !.ts = c, !.tasks = s.tasks, !.pc = e]
  BY DEF States
<1>9. i = Made(s, t, l, "connecting", {})
  <2>1. s.tasks \cup {} = s.tasks
    OBVIOUS
  <2> HIDE DEF i
  <2> QED BY <1>8, <2>1 DEF Made, a, b, c, e
<1>10. ASSUME NEW z PROVE [i EXCEPT !.tasks = @ \cup z] = Made(s, t, l, "connecting", z)
  <2> DEFINE d == s.tasks \cup z
  <2>1. [i EXCEPT !.tasks = @ \cup z] = [i EXCEPT !.tasks = d]
    BY <1>7
  <2> HIDE DEF d
  <2>2. [i EXCEPT !.tasks = d] = [s EXCEPT !.slot = a, !.cb = b, !.ts = c, !.tasks = d, !.pc = e]
    BY DEF States
  <2> HIDE DEF i
  <2> QED BY <2>1, <2>2 DEF Made, a, b, c, d, e
<1>11. [i EXCEPT !.ts[l] = "connected"] = Made(s, t, l, "connected", {})
  <2>1. [i EXCEPT !.ts[l] = "connected"] = [i EXCEPT !.ts = o]
    BY <1>3, <1>7
  <2>2. [i EXCEPT !.ts = o] = [s EXCEPT !.slot = a, !.cb = b, !.ts = o, !.tasks = s.tasks, !.pc = e]
    BY DEF States
  <2>3. s.tasks \cup {} = s.tasks
    OBVIOUS
  <2> HIDE DEF i
  <2> QED BY <2>1, <2>2, <2>3 DEF Made, a, b, o, e
<1>12. [Popped(s, t) EXCEPT !.slot = @ \cup {l}, !.cb = @ \cup {l}, !.ts[l] = "connecting"] = i
  BY <1>1, <1>5, <1>6
<1> HIDE DEF i
<1> QED BY <1>9, <1>10, <1>11, <1>12

\* A TcpTransport made for an accepted socket is connected from the start.
LEMMA AcceptedSound ==
  ASSUME NEW s, NEW t \in Threads, Sound(s), s.pc[t] # <<>>, s.pc[t][1] = <<"store", "tcp">>,
         s.role = "server"
  PROVE  LET m == Made(s, t, "tcp", "connected", {})
         IN  Sound(Leads(m, t, <<"init", Up(m, "tcp")>>))
<1> DEFINE m == Made(s, t, "tcp", "connected", {})
           n == Up(m, "tcp")
<1>1. s \in States /\ s.ts["tcp"] = "idle" /\ Begins(s, t, "tcp") /\ s.pc[t] \in Frames
      /\ Chain(s, t, s.pc[t]) /\ t = "caller" /\ Base(s) /\ "tcp" \in Layer
  <2>1. Base(s)
    BY DEF Sound, Good
  <2> QED BY <2>1, StoreMeans
<1>2. Tail(s.pc[t]) \in Frames
  BY <1>1, TailChain
<1>3. Sound(m) /\ (\A k : ~Begins(m, t, k)) /\ (\A u \in Threads : u # t => m.pc[u] = s.pc[u])
  <2>1. Stores(s, t, "tcp", "connected", {})
    BY DEF Stores, Fits
  <2>2. /\ Sound(m) /\ \A k : ~Begins(m, t, k)
        /\ m.pc[t] = Tail(s.pc[t]) /\ (\A u \in Threads : u # t => m.pc[u] = s.pc[u])
    BY <2>1, MadeSound
  <2> HIDE DEF m
  <2> QED BY <2>2
<1>4. m.ts["tcp"] = "connected" /\ (\A k \in Layer : k # "tcp" => m.ts[k] = s.ts[k]) /\ m.stack = s.stack
  <2>1. "connected" \in LayerStates /\ {} \in TaskSets
    BY DEF LayerStates, TaskSets
  <2> QED BY <1>1, <1>2, <2>1, MadeFields
<1> HIDE DEF m
<1>5. n = Up(s, "tcp") /\ "tcp" \in Lower(m) /\ "tcp" \in Lower(s) /\ n # "tcp" /\ n \in Layer
  <2>1. n = Up(s, "tcp") /\ "tcp" \in Lower(m) /\ "tcp" \in Lower(s)
    BY <1>4 DEF Up, Lower, InUse
  <2> QED BY <1>1, <2>1, InUseType
<1>6. m.ts[n] = "idle"
  <2>1. s.ts[n] = "idle"
    BY <1>1, <1>5 DEF Base, Rising
  <2> QED BY <1>4, <1>5, <2>1
<1>7. ASSUME NEW u \in Threads PROVE ~Begins(m, u, n)
  <2>1. CASE u = t
    BY <1>3, <2>1
  <2>2. CASE u # t
    <3>1. ~Begins(s, u, n)
      BY <1>1, <1>5 DEF Base, Starts
    <3> QED BY <1>3, <2>2, <3>1 DEF Begins
  <2> QED BY <2>1, <2>2
<1>8. Free(m, t)
  BY <1>1, <1>3, <1>4 DEF Free
<1>9. m.ts["tcp"] \notin {"idle", "connecting"} /\ m.ts[Up(m, "tcp")] = "idle" /\ \A u \in Threads : ~Begins(m, u, Up(m, "tcp"))
  BY <1>4, <1>6, <1>7
<1>10. Sound(Leads(m, t, <<"init", Up(m, "tcp")>>))
  BY <1>3, <1>5, <1>8, <1>9, InitLeads
<1> QED BY <1>10 DEF m

\* A layer whose first message throws: the member is reset, the check is not
\* reached and the WebSocket is closed.
LEMMA ThrownSound ==
  ASSUME NEW s, NEW t \in Threads, NEW l \in {"proxy", "ws"}, Sound(s), s.pc[t] # <<>>,
         s.pc[t][1] = <<"check", l>>, s.ts[l] = "connecting"
  PROVE  Sound(RemoteClose(Shed(Popped(s, t), l)))
<1> DEFINE p == Popped(s, t)
           m == Shed(p, l)
           r == RemoteClose(m)
<1>1. s \in States /\ Base(s) /\ s.pc[t] \in Frames /\ Chain(s, t, s.pc[t]) /\ 1 \in DOMAIN s.pc[t] /\ l \in InUse(s)
  <2>1. s \in States /\ Base(s) /\ s.pc[t] \in Frames /\ Chain(s, t, s.pc[t])
    BY DEF Sound, Good, Base, States, CallChains, Frames, Chains
  <2>2. 1 \in DOMAIN s.pc[t]
    BY <2>1, EmptySeq DEF Frames
  <2>3. s.pc[t][1][2] = l
    OBVIOUS
  <2> QED BY <2>1, <2>2, <2>3 DEF Chain
<1>2. Base(p) /\ Moved(s, p) /\ p.pc[t] = Tail(s.pc[t]) /\ \A u \in Threads : u # t => p.pc[u] = s.pc[u]
  <2>1. s.pc[t][1] # <<"store", "tcp">>
    OBVIOUS
  <2> QED BY <1>1, <2>1, PopGood
<1>3. \A i \in DOMAIN s.pc[t] : i # 1 => i - 1 \in DOMAIN Tail(s.pc[t]) /\ Tail(s.pc[t])[i - 1] = s.pc[t][i]
  BY <1>1, TailChain
<1> HIDE DEF p
<1>4. Base(m) /\ m.slot = p.slot \ {l} /\ m.st = p.st /\ m.pc = p.pc /\ m.ts = p.ts
  BY <1>2, ShedBase
<1> HIDE DEF m
<1>5. m.ts["ws"] # "connected"
  <2>1. s.ts["ws"] # "connected"
    BY <1>1, Topmost DEF Base
  <2> QED BY <1>2, <1>4, <2>1 DEF Moved
<1>6. Good(r) /\ Glide(m, r) /\ r.st = "closed"
  BY <1>4, <1>5, DropGood
<1> HIDE DEF r
<1>7. Kept(m)
  <2> SUFFICES ASSUME m.st = "closed", NEW k \in m.slot \ {"proxy"}
               PROVE  \E u \in Threads : \E i \in DOMAIN m.pc[u] : m.pc[u][i] = <<"check", k>>
    BY DEF Kept
  <2>1. k # l /\ k \in s.slot /\ s.st = "closed"
    BY <1>2, <1>4 DEF Moved
  <2>2. PICK u \in Threads : \E i \in DOMAIN s.pc[u] : s.pc[u][i] = <<"check", k>>
    BY <2>1 DEF Sound, Kept
  <2>3. PICK i \in DOMAIN s.pc[u] : s.pc[u][i] = <<"check", k>>
    BY <2>2
  <2>4. CASE u # t
    BY <1>2, <1>4, <2>3, <2>4
  <2>5. CASE u = t
    <3>1. i # 1
      BY <2>1, <2>3, <2>5
    <3>2. i - 1 \in DOMAIN Tail(s.pc[t]) /\ Tail(s.pc[t])[i - 1] = <<"check", k>>
      BY <1>3, <2>3, <2>5, <3>1
    <3>3. m.pc[u] = Tail(s.pc[t])
      BY <1>2, <1>4, <2>5
    <3> QED BY <3>2, <3>3
  <2> QED BY <2>4, <2>5
<1>8. Kept(r) /\ Live(r)
  BY <1>6, <1>7, GlideKept DEF Live
<1> QED BY <1>6, <1>8 DEF Sound, r, m, p

\* emplaceTransport stores the member and starts the transport.
LEMMA StartSound ==
  ASSUME NEW s, NEW t \in Threads, NEW l, Sound(s), s.pc[t] # <<>>, s.pc[t][1] = <<"store", l>>
  PROVE  Sound(Start(Popped(s, t), t, l))
<1> DEFINE p == Popped(s, t)
           i == [p EXCEPT !.slot = @ \cup {l}, !.cb = @ \cup {l}, !.ts[l] = "connecting"]
           m == Made(s, t, l, "connecting", {})
           drop == RemoteClose([i EXCEPT !.slot = @ \ {l}, !.pc[t] = Tail(@)])
<1>1. /\ s \in States /\ l \in InUse(s) /\ l \in Layer /\ s.ts[l] = "idle" /\ Base(s)
      /\ s.pc[t] \in Frames /\ Chain(s, t, s.pc[t]) /\ 1 \in DOMAIN s.pc[t]
      /\ \E j \in DOMAIN s.pc[t] : j > 1 /\ s.pc[t][j] = <<"check", l>> /\ (l # "tcp" => j = 2)
      /\ l = "tcp" => t = "caller"
  <2>1. Base(s)
    BY DEF Sound, Good
  <2> QED BY <2>1, StoreMeans
<1>2. Tail(s.pc[t]) \in Frames
      /\ \A j \in DOMAIN s.pc[t] : j # 1 => j - 1 \in DOMAIN Tail(s.pc[t]) /\ Tail(s.pc[t])[j - 1] = s.pc[t][j]
  BY <1>1, TailChain
<1>3. /\ i = m /\ \A z : [i EXCEPT !.tasks = @ \cup z] = Made(s, t, l, "connecting", z)
      /\ [i EXCEPT !.ts[l] = "connected"] = Made(s, t, l, "connected", {})
  BY <1>1, MadeIs
<1>4. /\ m \in States /\ m.cb = s.cb \cup {l} /\ m.ts[l] = "connecting"
      /\ (\A k \in Layer : k # l => m.ts[k] = s.ts[k])
      /\ m.pc[t] = Tail(s.pc[t]) /\ m.stack = s.stack /\ m.sock = s.sock /\ m.eof = s.eof
  <2>1. "connecting" \in LayerStates /\ {} \in TaskSets
    BY DEF LayerStates, TaskSets
  <2> QED BY <1>1, <1>2, <2>1, MadeFields
<1>5. /\ l = "tcp" => Start(p, t, l) = IF p.role = "server" THEN Connected(i, t, "tcp")
                                       ELSE [i EXCEPT !.tasks = @ \cup {"resolve"}]
      /\ l = "tls" => Start(p, t, l) = [i EXCEPT !.tasks = @ \cup {"doRecv"}]
      /\ l = "proxy" => Start(p, t, l) = IF CanSend(p, l) THEN Outgoing(i, << <<"CONNECT">> >>) ELSE drop
      /\ l = "ws" => Start(p, t, l) = IF p.role = "server" THEN i
                                      ELSE IF CanSend(p, l) THEN Outgoing(i, << <<"GET">> >>) ELSE drop
  <2>1. Start(p, t, l) =
          CASE l = "tcp"   -> IF p.role = "server" THEN Connected(i, t, "tcp")
                              ELSE [i EXCEPT !.tasks = @ \cup {"resolve"}]
            [] l = "tls"   -> EnqueueRecv(i)
            [] l = "proxy" -> IF CanSend(p, l) THEN Outgoing(i, << <<"CONNECT">> >>) ELSE drop
            [] OTHER -> IF p.role = "server" THEN i
                        ELSE IF CanSend(p, l) THEN Outgoing(i, GenerateHttpRequest) ELSE drop
    BY Zenon DEF Start
  <2>2. EnqueueRecv(i) = [i EXCEPT !.tasks = @ \cup {"doRecv"}]
    BY DEF EnqueueRecv
  <2> HIDE DEF p, i, drop
  <2> QED BY <2>1, <2>2 DEF GenerateHttpRequest
<1>6. p.role = s.role /\ p.stack = s.stack /\ p.ts = s.ts /\ p.sock = s.sock /\ p.eof = s.eof
  BY <1>1 DEF Popped, States
<1>7. l \in {"tcp", "proxy", "tls", "ws"} /\ s.role \in {"client", "server"}
  BY <1>1, Positions DEF States, Sides
<1>8. l = "tcp" /\ s.role = "server" => Sound(Connected(i, t, "tcp"))
  <2> SUFFICES ASSUME l = "tcp", s.role = "server" PROVE Sound(Connected(i, t, "tcp"))
    OBVIOUS
  <2> DEFINE c == Made(s, t, "tcp", "connected", {})
  <2>1. Sound(Leads(c, t, <<"init", Up(c, "tcp")>>))
    BY AcceptedSound
  <2>2. c.stack = s.stack
    <3>1. "connected" \in LayerStates /\ {} \in TaskSets
      BY DEF LayerStates, TaskSets
    <3> QED BY <1>1, <1>2, <3>1, MadeFields
  <2>3. [m EXCEPT !.ts["tcp"] = "connected"] = c
    BY <1>3
  <2>4. Above(m, "tcp") = Up(m, "tcp") /\ Up(m, "tcp") = Up(c, "tcp") /\ "tcp" \in m.cb
    <3>1. "tcp" \in Lower(m)
      BY DEF Lower, InUse
    <3> HIDE DEF c, m
    <3> QED BY <1>4, <2>2, <3>1, UpIsAbove DEF Up
  <2> HIDE DEF c, m
  <2>5. Connected(m, t, "tcp") = Leads(c, t, <<"init", Up(c, "tcp")>>)
    BY <2>3, <2>4 DEF Connected, Leads
  <2> QED BY <1>3, <2>1, <2>5
<1>9. l = "tcp" /\ s.role = "client" => Sound([i EXCEPT !.tasks = @ \cup {"resolve"}])
  <2> SUFFICES ASSUME l = "tcp", s.role = "client" PROVE Sound(Made(s, t, l, "connecting", {"resolve"}))
    BY <1>3
  <2>1. Stores(s, t, l, "connecting", {"resolve"})
    BY DEF Stores, Fits
  <2> QED BY <2>1, MadeSound
<1>10. l = "tls" => Sound([i EXCEPT !.tasks = @ \cup {"doRecv"}])
  <2> SUFFICES ASSUME l = "tls" PROVE Sound(Made(s, t, l, "connecting", {"doRecv"}))
    BY <1>3
  <2>1. Stores(s, t, l, "connecting", {"doRecv"})
    BY DEF Stores, Fits
  <2> QED BY <2>1, MadeSound
<1>11. l \in {"proxy", "ws"} => Sound(m)
  <2> SUFFICES ASSUME l \in {"proxy", "ws"} PROVE Sound(m)
    OBVIOUS
  <2>1. Stores(s, t, l, "connecting", {})
    BY DEF Stores, Fits
  <2> QED BY <2>1, MadeSound
<1>12. l \in {"proxy", "ws"} => Sound(drop)
  <2> SUFFICES ASSUME l \in {"proxy", "ws"} PROVE Sound(drop)
    OBVIOUS
  <2>1. m.pc[t] # <<>> /\ m.pc[t][1] = <<"check", l>>
    <3>1. 2 \in DOMAIN s.pc[t] /\ s.pc[t][2] = <<"check", l>>
      BY <1>1
    <3>2. 1 \in DOMAIN Tail(s.pc[t]) /\ Tail(s.pc[t])[1] = <<"check", l>>
      BY <1>2, <3>1
    <3>3. DOMAIN <<>> = {}
      OBVIOUS
    <3> HIDE DEF m
    <3> QED BY <1>4, <3>2, <3>3
  <2>2. drop = RemoteClose(Shed(Popped(m, t), l))
    <3>1. [m EXCEPT !.slot = @ \ {l}, !.pc[t] = Tail(@)] = Shed(Popped(m, t), l)
      <4> HIDE DEF m
      <4> DEFINE a == m.slot \ {l}
                 e == [m.pc EXCEPT ![t] = Tail(m.pc[t])]
                 k == [m EXCEPT !.pc = e]
      <4>1. [m EXCEPT !.slot = @ \ {l}, !.pc[t] = Tail(@)] = [m EXCEPT !.slot = a, !.pc = e]
        OBVIOUS
      <4>2. Popped(m, t) = k
        BY DEF Popped
      <4> HIDE DEF e
      <4>3. k.slot = m.slot
        BY <1>4 DEF States
      <4>4. Shed(k, l) = [k EXCEPT !.slot = a]
        BY <4>3 DEF Shed
      <4> HIDE DEF a
      <4>5. [k EXCEPT !.slot = a] = [m EXCEPT !.slot = a, !.pc = e]
        BY <1>4 DEF States
      <4> QED BY <4>1, <4>2, <4>4, <4>5
    <3> HIDE DEF i, m
    <3> QED BY <1>3, <3>1
  <2> HIDE DEF m, drop
  <2>3. Sound(RemoteClose(Shed(Popped(m, t), l)))
    BY <1>4, <1>11, <2>1, ThrownSound
  <2> QED BY <2>2, <2>3
<1>13. ASSUME l \in {"proxy", "ws"}, CanSend(p, l), NEW h \in Heads PROVE Sound(Outgoing(m, <<h>>))
  <2>1. CanSend(m, l)
    <3> HIDE DEF m, p
    <3>1. InUse(m) = InUse(p) /\ InUse(p) = InUse(s)
      BY <1>4, <1>6 DEF InUse
    <3>2. \A u \in InUse(s) : Pos(u) < Pos(l) => u \in Layer /\ u # l
      BY <1>1, <1>7, InUseType, Positions
    <3> QED BY <1>4, <1>6, <1>13, <3>1, <3>2 DEF CanSend
  <2> HIDE DEF m
  <2> DEFINE r == Outgoing(m, <<h>>)
  <2>2. Good(r) /\ Glide(m, r) /\ Still(m, r)
    <3>1. Sound(m) /\ l # "tcp"
      BY <1>11, <1>13
    <3> QED BY <1>1, <2>1, <3>1, OutgoingGood DEF Sound, Good
  <2> HIDE DEF r
  <2>3. Sound(r)
    BY <1>11, <1>13, <2>2, SoundGlide
  <2> QED BY <2>3 DEF r
<1>14. <<"GET">> \in Heads /\ <<"CONNECT">> \in Heads
  BY DEF Heads
<1> SUFFICES Sound(Start(p, t, l))
  OBVIOUS
<1> HIDE DEF p, i, m, drop
<1>15. CASE l = "tcp"
  BY <1>5, <1>6, <1>7, <1>8, <1>9, <1>15
<1>16. CASE l = "tls"
  BY <1>5, <1>10, <1>16
<1>17. CASE l = "proxy"
  BY <1>3, <1>5, <1>12, <1>13, <1>14, <1>17
<1>18. CASE l = "ws"
  BY <1>3, <1>5, <1>11, <1>12, <1>13, <1>14, <1>18
<1> QED BY <1>7, <1>15, <1>16, <1>17, <1>18

-----------------------------------------------------------------------------
(* The frames.                                                             *)

\* The destructor of TcpTransport closes the socket that nobody holds.
LEMMA ReapSound ==
  ASSUME NEW s, Sound(s)
  PROVE  LET r == Reap(s) IN Sound(r) /\ (r.sock # "none" => Held(r))
<1>1. s \in States /\ Base(s) /\ Tied(s)
  BY DEF Sound, Good, Base
<1>2. "tcp" \in Alive(s) <=> Held(s)
  BY <1>1, TcpIsHeld DEF Base
<1>3. CASE Held(s) \/ s.sock = "none"
  <2>1. Reap(s) = s
    BY <1>2, <1>3 DEF Reap
  <2> QED BY <1>3, <2>1
<1>4. CASE ~(Held(s) \/ s.sock = "none")
  <2> DEFINE a == [s.ts EXCEPT !["tcp"] = "disconnected"]
             r == [s EXCEPT !.sock = "none", !.poll = "none", !.ts = a]
  <2>1. Reap(s) = r
    BY <1>2, <1>4 DEF Reap
  <2>2. "tcp" \in Layer /\ "ws" \in Layer /\ "disconnected" \in LayerStates /\ "none" \in Sockets /\ "none" \in Pollings
    BY Positions DEF LayerStates, Sockets, Pollings
  <2>3. a \in LayerTables /\ a["tcp"] = "disconnected" /\ \A l \in Layer : l # "tcp" => a[l] = s.ts[l]
    <3>1. s.ts \in LayerTables
      BY <1>1 DEF States
    <3> QED BY <2>2, <3>1 DEF LayerTables
  <2> HIDE DEF a
  <2>4. /\ r \in States /\ r.slot = s.slot /\ r.st = s.st /\ r.pc = s.pc /\ r.ts = a /\ r.cb = s.cb /\ r.tear = s.tear
        /\ r.role = s.role /\ r.stack = s.stack /\ r.opened = s.opened /\ r.sock = "none" /\ r.tasks = s.tasks
        /\ r.poll = "none" /\ r.closeSent = s.closeSent /\ r.timers = s.timers /\ r.reports = s.reports
        /\ r.wire = s.wire /\ r.sendq = s.sendq /\ r.accepted = s.accepted
    BY <1>1, <2>2, <2>3 DEF States
  <2> HIDE DEF r
  <2>5. s.slot = {} /\ s.pc["poll"] = <<>>
        /\ \A t \in Threads : \A i \in DOMAIN s.pc[t] : s.pc[t][i][1] \notin {"store", "check"}
    BY <1>4 DEF Held
  <2>6. "caller" \in Threads /\ s.pc["caller"] \in Frames /\ Chain(s, "caller", s.pc["caller"])
    BY <1>1 DEF Base, States, CallChains, Frames, Chains, Threads
  <2>7. s.ts["tcp"] # "idle"
    <3> SUFFICES ASSUME s.ts["tcp"] = "idle" PROVE FALSE
      OBVIOUS
    <3>1. s.pc["caller"] # <<>> /\ s.pc["caller"][1] = <<"store", "tcp">>
      BY <1>1 DEF Base, Early
    <3>2. 1 \in DOMAIN s.pc["caller"]
      BY <2>6, <3>1, EmptySeq DEF Frames
    <3>3. s.pc["caller"][1][1] = "store"
      BY <3>1
    <3> QED BY <2>5, <2>6, <3>2, <3>3
  <2>8. s.st = "closed"
    BY <1>1, <2>2, <2>5, <2>7 DEF Tied
  <2>9. \A i \in DOMAIN s.pc["caller"] : s.pc["caller"][i][1] # "pollIn"
    BY <2>5, <2>6 DEF Chain
  <2>10. InUse(r) = InUse(s) /\ Lower(r) = Lower(s) /\ \A k : Up(r, k) = Up(s, k)
    BY <2>4 DEF InUse, Lower, Up
  <2>11. Told(r) /\ InOrder(r.wire \o r.sendq, r.accepted) /\ r.opened
    BY <1>1, <2>4 DEF Base, Told, At
  <2>12. Placed(r) /\ CloseLate(r)
    BY <1>1, <2>2, <2>3, <2>4, <2>10 DEF Base, Placed, CloseLate
  <2>13. Rising(r)
    <3> SUFFICES ASSUME NEW l \in Lower(s), r.ts[l] \in {"idle", "connecting"} PROVE r.ts[Up(s, l)] = "idle"
      BY <2>10 DEF Rising
    <3>1. l \in Layer /\ Up(s, l) \in Layer /\ Up(s, l) # "tcp" /\ l # "tcp"
      BY <1>1, <2>3, <2>4, InUseType
    <3> QED BY <1>1, <2>3, <2>4, <3>1 DEF Base, Rising
  <2>14. Chains(r)
    <3> SUFFICES ASSUME NEW u \in Threads PROVE Chain(r, u, r.pc[u])
      BY DEF Chains
    <3> DEFINE v == r.pc[u]
    <3>1. Chain(s, u, v)
      BY <1>1, <2>4 DEF Base, Chains
    <3> HIDE DEF v
    <3>2. Chain(r, u, v)
      BY <3>1, <2>4, <2>10 DEF Chain
    <3> QED BY <3>2 DEF v
  <2>15. Starts(r)
    <3>1. \A u, k : Begins(r, u, k) <=> Begins(s, u, k)
      BY <2>4 DEF Begins
    <3>2. ASSUME NEW u \in Threads, NEW k \in Layer, Begins(s, u, k) PROVE r.ts[k] = "idle"
      <4>1. s.ts[k] = "idle"
        BY <1>1, <3>2 DEF Base, Starts
      <4> QED BY <2>3, <2>4, <2>7, <4>1
    <3>3. ASSUME NEW u \in Threads, NEW k \in Lower(s), Begins(s, u, Up(s, k)) PROVE r.ts[k] \notin {"idle", "connecting"}
      <4>1. s.ts[k] \notin {"idle", "connecting"}
        BY <1>1, <3>3 DEF Base, Starts
      <4>2. k \in Layer
        BY <1>1, InUseType
      <4> QED BY <2>3, <2>4, <4>1, <4>2
    <3>4. \A t, u \in Threads, k \in Layer : Begins(s, t, k) /\ Begins(s, u, k) => t = u
      BY <1>1 DEF Base, Starts
    <3> QED BY <2>10, <3>1, <3>2, <3>3, <3>4 DEF Starts
  <2>16. Early(r) /\ Polled(r)
    BY <1>1, <2>3, <2>4, <2>5, <2>9 DEF Base, Early, Polled
  <2>17. Base(r)
    BY <2>4, <2>11, <2>12, <2>13, <2>14, <2>15, <2>16 DEF Base
  <2>18. Good(r) /\ Live(r) /\ Kept(r)
    BY <2>4, <2>5, <2>8, <2>17, ClosedIsGood DEF Live, Kept
  <2> QED BY <2>1, <2>4, <2>18 DEF Sound
<1> QED BY <1>3, <1>4

\* What thread t is at, and what it may do when it is not making a layer.
LEMMA FrameMeans ==
  ASSUME NEW s, NEW t \in Threads, Sound(s), s.pc[t] # <<>>
  PROVE  LET f == s.pc[t][1]
             p == Popped(s, t)
         IN  /\ f \in Kinds \X Layer /\ f[1] \in Runs(t) /\ Head(s.pc[t]) = f
             /\ f[1] \notin {"store", "check", "doRecv"} => Sound(p) /\ p.ts = s.ts /\ p.sock = s.sock
             /\ t = "poll" => s.sock = "up" /\ s.ts["tcp"] \notin {"idle", "connecting"}
             /\ t = "poll" /\ f[1] \notin {"store", "check", "doRecv"} => Free(p, t)
             /\ f[1] = "pollIn" => s.sock = "up" /\ s.ts["tcp"] \notin {"idle", "connecting"}
<1> DEFINE f == s.pc[t][1]
           p == Popped(s, t)
<1>1. s \in States /\ Base(s) /\ s.pc[t] \in Frames /\ Chain(s, t, s.pc[t]) /\ Early(s) /\ Polled(s)
  BY DEF Sound, Good, Base, States, CallChains, Frames, Chains
<1>2. 1 \in DOMAIN s.pc[t] /\ Head(s.pc[t]) = f
  BY <1>1, EmptySeq DEF Frames
<1>3. f \in Kinds \X Layer /\ f[1] \in Runs(t)
  BY <1>1, <1>2 DEF Frames, Chain
<1>4. t = "poll" => s.sock = "up" /\ s.ts["tcp"] \notin {"idle", "connecting"}
  BY <1>1 DEF Early, Polled
<1>5. ASSUME f[1] \notin {"store", "check", "doRecv"}
      PROVE  /\ Sound(p) /\ p.ts = s.ts /\ p.sock = s.sock
             /\ t = "poll" => Free(p, t)
  <2>1. s.pc[t][1] # <<"store", "tcp">>
    BY <1>5
  <2>2. Sound(p)
    BY <1>5, <2>1, PopSound
  <2>3. Moved(s, p) /\ \A l : ~Begins(p, t, l)
    BY <1>1, <2>1, PopGood
  <2> HIDE DEF p
  <2> QED BY <1>4, <2>2, <2>3 DEF Moved, Free
<1>6. ASSUME f[1] = "pollIn" PROVE s.sock = "up" /\ s.ts["tcp"] \notin {"idle", "connecting"}
  <2>1. CASE t = "poll"
    BY <1>4, <2>1
  <2>2. CASE t = "caller"
    <3>1. s.role = "server"
      BY <1>1, <1>2, <1>6, <2>2 DEF Chain
    <3>2. s.pc["caller"][1] # <<"store", "tcp">>
      BY <1>6, <2>2
    <3>3. s.sock = "up"
      BY <1>1, <1>2, <1>6, <2>2 DEF Polled
    <3> QED BY <1>1, <3>1, <3>2, <3>3 DEF Early
  <2>3. CASE t = "pool"
    BY <1>3, <1>6, <2>3 DEF Runs
  <2> QED BY <2>1, <2>2, <2>3 DEF Threads
<1> HIDE DEF p
<1> QED BY <1>2, <1>3, <1>4, <1>5, <1>6 DEF p

LEMMA FrameSound ==
  ASSUME NEW t \in Threads, Sound(w), Frame(t)
  PROVE  Whole(w')
<1> DEFINE f == w.pc[t][1]
           p == Popped(w, t)
           v == CASE f[1] = "init"   -> InitTransport(p, t, f[2])
                  [] f[1] = "store"  -> Start(p, t, f[2])
                  [] f[1] = "check"  -> Check(p, f[2])
                  [] f[1] = "pollIn" -> [p EXCEPT !.poll = "in"]
                  [] f[1] = "idle"   -> TcpRecv(p, t, "idle")
                  [] f[1] = "in"     -> ProcessIn(p)
                  [] f[1] = "out"    -> ProcessOut(p)
                  [] f[1] = "error"  -> TcpGone(p)
                  [] OTHER           -> DoRecv(p)
<1>1. w.pc[t] # <<>>
  BY DEF Frame
<1>2. /\ f \in Kinds \X Layer /\ f[1] \in Runs(t) /\ Head(w.pc[t]) = f
      /\ f[1] \notin {"store", "check", "doRecv"} => Sound(p) /\ p.ts = w.ts /\ p.sock = w.sock
      /\ t = "poll" => w.sock = "up" /\ w.ts["tcp"] \notin {"idle", "connecting"}
      /\ t = "poll" /\ f[1] \notin {"store", "check", "doRecv"} => Free(p, t)
      /\ f[1] = "pollIn" => w.sock = "up" /\ w.ts["tcp"] \notin {"idle", "connecting"}
  BY <1>1, FrameMeans
<1>3. w' = Reap(v)
  BY <1>2 DEF Frame, Popped
<1>4. f[1] \in {"idle", "in", "out", "error"} => t = "poll"
  BY <1>2 DEF Runs, Threads
<1>5. f[1] = "doRecv" => t = "pool"
  BY <1>2 DEF Runs, Threads
<1>6. f = <<f[1], f[2]>> /\ f[1] \in Kinds
  BY <1>2
<1>7. CASE f[1] = "init"
  <2>1. v = InitTransport(p, t, f[2]) /\ w.pc[t][1] = <<"init", f[2]>>
    BY <1>6, <1>7
  <2>2. Sound(v)
    BY <1>1, <2>1, InitTransportSound
  <2> QED BY <1>3, <2>2, ReapSound DEF Whole
<1>8. CASE f[1] = "store"
  <2>1. v = Start(p, t, f[2]) /\ w.pc[t][1] = <<"store", f[2]>>
    BY <1>6, <1>8
  <2>2. Sound(v)
    BY <1>1, <2>1, StartSound
  <2> QED BY <1>3, <2>2, ReapSound DEF Whole
<1>9. CASE f[1] = "check"
  <2>1. v = Check(p, f[2]) /\ w.pc[t][1] = <<"check", f[2]>>
    BY <1>6, <1>9
  <2>2. Sound(v)
    BY <1>1, <2>1, CheckSound
  <2> QED BY <1>3, <2>2, ReapSound DEF Whole
<1>10. CASE f[1] = "pollIn"
  <2>1. v = [p EXCEPT !.poll = "in"]
    BY <1>10
  <2>2. Sound(p) /\ p.sock = "up" /\ p.ts["tcp"] \notin {"idle", "connecting"} /\ "in" \in Pollings
    BY <1>2, <1>10 DEF Pollings
  <2>3. Sound(v)
    <3> HIDE DEF p
    <3> QED BY <2>1, <2>2, PollSound
  <2> QED BY <1>3, <2>3, ReapSound DEF Whole
<1>11. CASE f[1] \in {"idle", "in", "out", "error"}
  <2>1. t = "poll" /\ Sound(p) /\ Free(p, t) /\ p.ts["tcp"] # "idle"
    BY <1>2, <1>4, <1>11
  <2> HIDE DEF p
  <2>2. CASE f[1] = "idle"
    <3>1. v = TcpRecv(p, t, "idle") /\ "idle" \in Passed
      BY <2>2 DEF Passed
    <3>2. Sound(v)
      BY <2>1, <3>1, TcpRecvSound
    <3> QED BY <1>3, <3>2, ReapSound DEF Whole
  <2>3. CASE f[1] = "in"
    <3>1. v = ProcessIn(p)
      BY <2>3
    <3>2. Sound(v)
      BY <2>1, <3>1, ProcessInSound
    <3> QED BY <1>3, <3>2, ReapSound DEF Whole
  <2>4. CASE f[1] = "out"
    <3>1. v = ProcessOut(p)
      BY <2>4
    <3>2. Sound(v)
      BY <2>1, <3>1, ProcessOutSound
    <3> QED BY <1>3, <3>2, ReapSound DEF Whole
  <2>5. CASE f[1] = "error"
    <3>1. v = TcpGone(p)
      BY <2>5
    <3>2. Sound(v)
      BY <2>1, <3>1, TcpGoneSound
    <3> QED BY <1>3, <3>2, ReapSound DEF Whole
  <2> QED BY <1>11, <2>2, <2>3, <2>4, <2>5
<1>12. CASE f[1] = "doRecv"
  <2>1. v = DoRecv(p) /\ t = "pool"
    BY <1>5, <1>12
  <2>2. Sound(v)
    BY <1>1, <1>12, <2>1, DoRecvSound
  <2> QED BY <1>3, <2>2, ReapSound DEF Whole
<1> QED BY <1>6, <1>7, <1>8, <1>9, <1>10, <1>11, <1>12 DEF Kinds

-----------------------------------------------------------------------------
(* The actions.                                                            *)

LEMMA AlikeWhole ==
  ASSUME NEW s, NEW r \in States, Alike(s, r), Whole(s)
  PROVE  Whole(r)
<1>1. Sound(r) /\ (Held(s) => Held(r)) /\ r.sock = s.sock
  BY AlikeSound, AlikeGood DEF Whole, Alike
<1> QED BY <1>1 DEF Whole

\* A step that makes no layer and leaves an unclosed WebSocket on what it had.
LEMMA GlideWhole ==
  ASSUME NEW s, NEW r, Whole(s), Good(r), Glide(s, r), Still(s, r) \/ r.st # "open"
  PROVE  Whole(r)
<1>1. Sound(s) /\ Good(s) /\ Live(s) /\ Kept(s)
  BY DEF Whole, Sound
<1>2. Kept(r)
  BY <1>1, GlideKept
<1>3. Live(r)
  <2>1. CASE Still(s, r)
    BY <1>1, <2>1, StillLive
  <2>2. CASE r.st # "open"
    BY <2>2 DEF Live
  <2> QED BY <2>1, <2>2
<1>4. r.sock = s.sock /\ (Held(s) => Held(r))
  BY GlideHeld DEF Glide
<1> QED BY <1>2, <1>3, <1>4 DEF Whole, Sound

LEMMA SendWhole ==
  ASSUME Whole(w), Send PROVE Whole(w')
<1> DEFINE n == w.accepted + 1
           m == SendFrame(n)
           o == Outgoing(w, m)
           r == [o EXCEPT !.accepted = n]
<1>1. w \in States /\ Base(w) /\ Tied(w) /\ Fit(w) /\ w.accepted \in Nat /\ n \in Nat
  BY DEF Whole, Sound, Good, Base, States
<1>2. w' = r /\ CanSend(w, "ws")
  BY DEF Send
<1>3. w.sock = "up" /\ w.ts["tcp"] = "connected"
  <2>1. "ws" \in Layer /\ "ws" # "tcp"
    BY Positions
  <2> QED BY <1>1, <1>2, <2>1, CanSendMeans
<1>4. m \in Seq(Written)
  <2>1. <<"data", n, 1>> \in Written /\ <<"data", n, 2>> \in Written
    BY <1>1 DEF Written
  <2> QED BY <2>1 DEF SendFrame
<1>5. w.wire \o w.sendq \in Seq(Written) /\ InOrder(w.wire \o w.sendq, w.accepted)
  BY <1>1 DEF Base, States, Streams
<1>6. InOrder((w.wire \o w.sendq) \o m, n)
  <2> DEFINE q == w.wire \o w.sendq
  <2> HIDE DEF q
  <2>1. q \in Seq(Written) /\ InOrder(q, w.accepted)
    BY <1>5 DEF q
  <2>2. InOrder(q \o SendFrame(w.accepted + 1), w.accepted + 1)
    BY <1>1, <2>1, FrameKeepsOrder
  <2> QED BY <2>2 DEF q
<1> HIDE DEF m
<1>7. Writes(w, o, m)
  BY <1>1, <1>4, OutgoingWrites
<1> HIDE DEF o, n
<1>8. o \in States /\ Same(w, o) /\ o.poll \in {w.poll, "both"} /\ o.wire \o o.sendq = (w.wire \o w.sendq) \o m
  BY <1>7 DEF Writes
<1>9. /\ r \in States /\ r.slot = o.slot /\ r.st = o.st /\ r.pc = o.pc /\ r.ts = o.ts /\ r.cb = o.cb /\ r.tear = o.tear
      /\ r.role = o.role /\ r.stack = o.stack /\ r.opened = o.opened /\ r.sock = o.sock /\ r.tasks = o.tasks
      /\ r.poll = o.poll /\ r.closeSent = o.closeSent /\ r.timers = o.timers /\ r.reports = o.reports
      /\ r.wire = o.wire /\ r.sendq = o.sendq /\ r.accepted = n /\ r.tlsEnd = o.tlsEnd
  BY <1>1, <1>8 DEF States
<1> HIDE DEF r
<1>10. Glide(w, r) /\ Still(w, r)
  BY <1>3, <1>8, <1>9 DEF Glide, Still, Same
<1>11. Told(r) /\ InOrder(r.wire \o r.sendq, r.accepted)
  <2>1. Told(r)
    BY <1>1, <1>8, <1>9 DEF Base, Told, At, Same
  <2> QED BY <1>6, <1>8, <1>9, <2>1
<1>12. Tied(r) /\ Fit(r)
  BY <1>1, <1>8, <1>9 DEF Tied, Fit, Same
<1>13. Good(r)
  BY <1>1, <1>9, <1>10, <1>11, <1>12, GlideBase DEF Good
<1> QED BY <1>2, <1>10, <1>13, GlideWhole

LEMMA CallCloseWhole ==
  ASSUME Whole(w), CallClose PROVE Whole(w')
<1> DEFINE r == Close(w)
<1>1. Base(r) /\ Tied(r) /\ Glide(w, r) /\ Still(w, r) /\ r.st # "connecting"
  BY CloseGood DEF Whole, Sound, Good
<1>2. w' = r
  BY DEF CallClose
<1> HIDE DEF r
<1>3. Good(r)
  BY <1>1 DEF Good, Fit
<1> QED BY <1>1, <1>2, <1>3, GlideWhole

LEMMA ForceCloseWhole ==
  ASSUME Whole(w), ForceClose PROVE Whole(w')
<1> DEFINE r == RemoteClose(w)
<1>1. Good(r) /\ Glide(w, r) /\ Still(w, r) /\ r.st = "closed"
  BY RemoteCloseGood DEF Whole, Sound, Good
<1>2. w' = r
  BY DEF ForceClose
<1> HIDE DEF r
<1> QED BY <1>1, <1>2, GlideWhole

\* A timer that has gone off.
LEMMA RungBase ==
  ASSUME NEW s, NEW x, Base(s)
  PROVE  LET m == [s EXCEPT !.timers = @ \ {x}]
         IN  /\ Base(m) /\ Glide(s, m) /\ Still(s, m) /\ m.timers = s.timers \ {x} /\ m.st = s.st /\ m.ts = s.ts
             /\ m.cb = s.cb /\ m.slot = s.slot /\ m.closeSent = s.closeSent
<1> DEFINE a == s.timers \ {x}
           m == [s EXCEPT !.timers = a]
<1>1. s \in States /\ a \in TimerSets /\ a \subseteq s.timers
  BY DEF Base, States, TimerSets
<1> HIDE DEF a
<1>2. /\ m \in States /\ m.timers = a /\ m.st = s.st /\ m.ts = s.ts /\ m.cb = s.cb /\ m.slot = s.slot
      /\ m.closeSent = s.closeSent /\ m.reports = s.reports /\ m.wire = s.wire /\ m.sendq = s.sendq
      /\ m.accepted = s.accepted
  BY <1>1 DEF States
<1>3. Glide(s, m) /\ Still(s, m)
  BY <1>1 DEF Glide, Still, States
<1> HIDE DEF m
<1>4. Told(m) /\ InOrder(m.wire \o m.sendq, m.accepted)
  BY <1>2 DEF Base, Told, At
<1>5. Base(m)
  BY <1>2, <1>3, <1>4, GlideBase
<1> QED BY <1>2, <1>3, <1>5 DEF a, m

LEMMA ConnectionTimeoutWhole ==
  ASSUME Whole(w), ConnectionTimeout PROVE Whole(w')
<1> DEFINE m == [w EXCEPT !.timers = @ \ {"connection"}]
           r == Failed(m)
<1>1. w' = r
  BY DEF ConnectionTimeout
<1>2. /\ Base(m) /\ Glide(w, m) /\ Still(w, m) /\ m.timers = w.timers \ {"connection"} /\ m.st = w.st /\ m.ts = w.ts
      /\ m.cb = w.cb /\ m.slot = w.slot /\ m.closeSent = w.closeSent
  BY RungBase DEF Whole, Sound, Good
<1> HIDE DEF m
<1>3. Tied(m)
  BY <1>2 DEF Tied, Whole, Sound, Good
<1>4. Good(r) /\ Glide(m, r) /\ r.st = "closed"
  BY <1>2, <1>3, FailedGood
<1> HIDE DEF r
<1>5. Glide(w, r) /\ r.st # "open"
  BY <1>2, <1>4, GlideTwice
<1> QED BY <1>1, <1>4, <1>5, GlideWhole

LEMMA CloseTimeoutWhole ==
  ASSUME Whole(w), CloseTimeout PROVE Whole(w')
<1> DEFINE m == [w EXCEPT !.timers = @ \ {"close"}]
           r == WsGone(m, "disconnected")
<1>1. w' = (IF "ws" \in Alive(w) THEN r ELSE m) /\ "close" \in w.timers
  BY DEF CloseTimeout
<1>2. /\ Base(m) /\ Glide(w, m) /\ Still(w, m) /\ m.timers = w.timers \ {"close"} /\ m.st = w.st /\ m.ts = w.ts
      /\ m.cb = w.cb /\ m.slot = w.slot /\ m.closeSent = w.closeSent
  BY RungBase DEF Whole, Sound, Good
<1> HIDE DEF m
<1>3. w \in States /\ Tied(w) /\ w.ts["ws"] # "idle" /\ "ws" \in Layer
  BY <1>1, Positions DEF Whole, Sound, Good, Base, CloseLate
<1>4. w.st # "closed" => "ws" \in w.slot /\ "ws" \in w.cb /\ w.ts["ws"] \notin Over
  BY <1>3 DEF Tied
<1>5. CASE "ws" \in Alive(w)
  <2>1. "disconnected" \in Over
    BY DEF Over
  <2>2. Good(r) /\ Glide(m, r) /\ r.st = "closed"
    BY <1>2, <1>3, <1>4, <2>1, WsGoneCloses
  <2> HIDE DEF r
  <2>3. Glide(w, r) /\ r.st # "open"
    BY <1>2, <2>2, GlideTwice
  <2> QED BY <1>1, <1>5, <2>2, <2>3, GlideWhole
<1>6. CASE "ws" \notin Alive(w)
  <2>1. "ws" \in InUse(w)
    BY DEF InUse
  <2>2. w.st = "closed"
    BY <1>3, <1>4, <1>6, <2>1, StoredIsAlive
  <2>3. Good(m)
    BY <1>2, <2>2, ClosedIsGood
  <2> QED BY <1>1, <1>2, <1>6, <2>3, GlideWhole
<1> QED BY <1>5, <1>6

\* r is s but for the socket, its polling, the tasks of the pool and the teardown.
Redone(s, r) ==
  /\ r.role = s.role /\ r.stack = s.stack /\ r.opened = s.opened /\ r.pc = s.pc /\ r.ts = s.ts
  /\ r.slot = s.slot /\ r.cb = s.cb /\ r.closeSent = s.closeSent /\ r.timers = s.timers
  /\ r.tlsEnd = s.tlsEnd /\ r.st = s.st /\ r.reports = s.reports /\ r.wire = s.wire
  /\ r.sendq = s.sendq /\ r.accepted = s.accepted
  /\ r.tear \subseteq s.tear /\ ("doRecv" \in r.tasks => "doRecv" \in s.tasks)

LEMMA RedoneSound ==
  ASSUME NEW s, NEW r \in States, Sound(s), Redone(s, r), Early(r), Polled(r), Ending(s) => Ending(r)
  PROVE  Sound(r)
<1>1. s \in States /\ Base(s) /\ Tied(s) /\ Fit(s) /\ Live(s) /\ Kept(s)
  BY DEF Sound, Good, Base
<1>2. InUse(r) = InUse(s) /\ Lower(r) = Lower(s) /\ \A k : Up(r, k) = Up(s, k)
  BY DEF Redone, InUse, Lower, Up
<1>3. Told(r) /\ InOrder(r.wire \o r.sendq, r.accepted) /\ r.opened
  BY <1>1 DEF Redone, Base, Told, At
<1>4. Placed(r) /\ CloseLate(r)
  BY <1>1, <1>2 DEF Redone, Base, Placed, CloseLate
<1>5. Rising(r)
  BY <1>1, <1>2 DEF Redone, Base, Rising
<1>6. Chains(r)
  <2> SUFFICES ASSUME NEW u \in Threads PROVE Chain(r, u, r.pc[u])
    BY DEF Chains
  <2> DEFINE v == r.pc[u]
  <2>1. Chain(s, u, v) /\ r.role = s.role
    BY <1>1 DEF Redone, Base, Chains
  <2> HIDE DEF v
  <2>2. Chain(r, u, v)
    BY <2>1, <1>2 DEF Chain
  <2> QED BY <2>2 DEF v
<1>7. Starts(r)
  <2>1. \A u, k : Begins(r, u, k) <=> Begins(s, u, k)
    BY DEF Redone, Begins
  <2> QED BY <1>1, <1>2, <2>1 DEF Redone, Base, Starts
<1>8. Base(r)
  BY <1>3, <1>4, <1>5, <1>6, <1>7 DEF Base
<1>9. Tied(r) /\ Fit(r)
  BY <1>1 DEF Redone, Tied, Fit
<1>10. Live(r)
  BY <1>1, <1>2 DEF Redone, Live
<1>11. Kept(r)
  BY <1>1 DEF Redone, Kept
<1> QED BY <1>8, <1>9, <1>10, <1>11 DEF Sound, Good

\* The pool or the poll thread has gone on with connecting.
Retask(s, a, b, c, d) == [s EXCEPT !.tasks = a, !.addrs = b, !.sock = c, !.poll = d]

LEMMA RetaskFields ==
  ASSUME NEW s \in States, NEW a \in TaskSets, NEW b \in Nat, NEW c \in Sockets, NEW d \in Pollings
  PROVE  LET r == Retask(s, a, b, c, d)
         IN  /\ r \in States /\ r.ts = s.ts /\ r.poll = d /\ r.st = s.st /\ r.sock = c /\ r.role = s.role
             /\ r.tasks = a /\ r.pc = s.pc /\ r.slot = s.slot /\ r.tear = s.tear /\ r.stack = s.stack
             /\ r.tlsEnd = s.tlsEnd /\ r.cb = s.cb /\ r.closeSent = s.closeSent /\ r.timers = s.timers
             /\ r.reports = s.reports /\ r.wire = s.wire /\ r.sendq = s.sendq /\ r.accepted = s.accepted
             /\ r.opened = s.opened
<1> DEFINE r == [s EXCEPT !.tasks = a, !.addrs = b, !.sock = c, !.poll = d]
<1>1. Retask(s, a, b, c, d) = r
  BY DEF Retask
<1>2. /\ r \in States /\ r.ts = s.ts /\ r.poll = d /\ r.st = s.st /\ r.sock = c /\ r.role = s.role
      /\ r.tasks = a /\ r.pc = s.pc /\ r.slot = s.slot /\ r.tear = s.tear /\ r.stack = s.stack
      /\ r.tlsEnd = s.tlsEnd /\ r.cb = s.cb /\ r.closeSent = s.closeSent /\ r.timers = s.timers
      /\ r.reports = s.reports /\ r.wire = s.wire /\ r.sendq = s.sendq /\ r.accepted = s.accepted
      /\ r.opened = s.opened
  BY DEF States
<1> HIDE DEF r
<1> QED BY <1>1, <1>2

\* The tasks only lose; or TCP is connecting, and either one task is left, or the
\* socket waits to be connected.
Retasks(s, a, b, c, d) ==
  \/ a \subseteq s.tasks /\ c = s.sock /\ d = s.poll
  \/ /\ s.ts["tcp"] = "connecting" /\ d \in {"none", "connect"}
     /\ s.role = "client" /\ ~({"resolve", "attempt"} \subseteq a)
     /\ {"resolve", "attempt"} \cap a # {} => d = "none"
     /\ d = "connect" => c = "up"

LEMMA RetaskWhole ==
  ASSUME NEW s, NEW a \in TaskSets, NEW b \in Nat, NEW c \in Sockets, NEW d \in Pollings, Whole(s),
         "doRecv" \in a <=> "doRecv" \in s.tasks,
         Retasks(s, a, b, c, d), c # "none" => Held(s)
  PROVE  LET r == Retask(s, a, b, c, d)
         IN  /\ Whole(r) /\ r.ts = s.ts /\ r.poll = d /\ r.st = s.st
<1> DEFINE r == Retask(s, a, b, c, d)
<1>1. s \in States /\ Early(s) /\ Polled(s) /\ Sound(s) /\ Base(s)
  BY DEF Whole, Sound, Good, Base
<1>2. /\ r \in States /\ r.ts = s.ts /\ r.poll = d /\ r.st = s.st /\ r.sock = c /\ r.role = s.role
      /\ r.tasks = a /\ r.pc = s.pc /\ r.slot = s.slot /\ r.tear = s.tear /\ r.stack = s.stack
      /\ r.tlsEnd = s.tlsEnd /\ r.cb = s.cb /\ r.closeSent = s.closeSent /\ r.timers = s.timers
      /\ r.reports = s.reports /\ r.wire = s.wire /\ r.sendq = s.sendq /\ r.accepted = s.accepted
      /\ r.opened = s.opened
  BY <1>1, RetaskFields
<1> HIDE DEF r
<1>3. Redone(s, r)
  BY <1>2 DEF Redone
<1>4. Early(r)
  <2>1. CASE a \subseteq s.tasks /\ c = s.sock /\ d = s.poll
    BY <1>1, <1>2, <2>1 DEF Early
  <2>2. CASE ~(a \subseteq s.tasks /\ c = s.sock /\ d = s.poll)
    BY <1>1, <1>2, <2>2 DEF Early, Retasks
  <2> QED BY <2>1, <2>2
<1>5. Polled(r)
  <2>1. CASE a \subseteq s.tasks /\ c = s.sock /\ d = s.poll
    BY <1>1, <1>2, <2>1 DEF Polled
  <2>2. CASE ~(a \subseteq s.tasks /\ c = s.sock /\ d = s.poll)
    <3>1. /\ s.ts["tcp"] = "connecting" /\ s.role = "client" /\ (d # "none" => c = "up")
      BY <2>2 DEF Retasks
    <3>2. s.pc["poll"] = <<>>
      BY <1>1, <3>1 DEF Early
    <3>3. "caller" \in Threads /\ Chain(s, "caller", s.pc["caller"])
      BY <1>1 DEF Base, Chains, Threads
    <3>4. \A i \in DOMAIN s.pc["caller"] : s.pc["caller"][i][1] # "pollIn"
      BY <3>1, <3>3 DEF Chain
    <3> QED BY <1>2, <3>1, <3>2, <3>4 DEF Polled
  <2> QED BY <2>1, <2>2
<1>6. (Ending(s) => Ending(r)) /\ (Held(s) => Held(r))
  BY <1>2 DEF Ending, Held
<1>7. Sound(r)
  BY <1>1, <1>2, <1>3, <1>4, <1>5, <1>6, RedoneSound
<1> QED BY <1>2, <1>6, <1>7 DEF Whole, r

LEMMA ResolveWhole ==
  ASSUME Whole(w), Resolve PROVE Whole(w')
<1> DEFINE a == w.tasks \ {"resolve"}
           b == a \cup {"attempt"}
           s == [w EXCEPT !.tasks = @ \ {"resolve"}]
           m == Retask(w, a, w.addrs, w.sock, w.poll)
           n == Retask(w, b, Addresses, w.sock, w.poll)
           r == Down(m, "tcp", "failed")
<1>1. w \in States /\ Early(w) /\ w.tasks \in TaskSets /\ w.addrs \in Nat /\ w.sock \in Sockets /\ w.poll \in Pollings
      /\ (w.sock # "none" => Held(w))
  BY DEF Whole, Sound, Good, Base, States
<1>2. a \in TaskSets /\ b \in TaskSets /\ a \subseteq w.tasks /\ Addresses \in Nat
      /\ ("doRecv" \in a <=> "doRecv" \in w.tasks) /\ ("doRecv" \in b <=> "doRecv" \in w.tasks)
      /\ ~({"resolve", "attempt"} \subseteq b)
  BY <1>1, WebSocketAssumption DEF TaskSets
<1>3. s = m /\ [s EXCEPT !.tasks = @ \cup {"attempt"}, !.addrs = Addresses] = n
  <2>1. s = [w EXCEPT !.tasks = a]
    OBVIOUS
  <2> HIDE DEF s
  <2>2. s.tasks = a
    BY <1>1, <2>1 DEF States
  <2>3. [s EXCEPT !.tasks = @ \cup {"attempt"}, !.addrs = Addresses] = [s EXCEPT !.tasks = b, !.addrs = Addresses]
    BY <2>2
  <2> HIDE DEF a, b
  <2>4. [w EXCEPT !.tasks = a] = [w EXCEPT !.tasks = a, !.addrs = w.addrs, !.sock = w.sock, !.poll = w.poll]
    BY <1>1 DEF States
  <2>5. [s EXCEPT !.tasks = b, !.addrs = Addresses] = [w EXCEPT !.tasks = b, !.addrs = Addresses, !.sock = w.sock, !.poll = w.poll]
    BY <1>1, <2>1 DEF States
  <2> QED BY <2>1, <2>3, <2>4, <2>5 DEF Retask
<1>4. /\ "resolve" \in w.tasks
      /\ IF "tcp" \notin Alive(w) \/ w.ts["tcp"] # "connecting" THEN w' = m
         ELSE w' = n \/ w' = r
  BY <1>3, Zenon DEF Resolve
<1> HIDE DEF a, b
<1>5. Whole(m) /\ m.ts = w.ts /\ m.poll = w.poll
  <2>1. Retasks(w, a, w.addrs, w.sock, w.poll)
    BY <1>2 DEF Retasks
  <2> QED BY <1>1, <1>2, <2>1, RetaskWhole
<1>6. w.ts["tcp"] = "connecting" => w.poll = "none" /\ w.role = "client"
  BY <1>1, <1>4 DEF Early
<1>7. w.ts["tcp"] = "connecting" => Whole(n)
  <2> SUFFICES ASSUME w.ts["tcp"] = "connecting" PROVE Whole(n)
    OBVIOUS
  <2>1. Retasks(w, b, Addresses, w.sock, w.poll)
    BY <1>2, <1>6 DEF Retasks
  <2> QED BY <1>1, <1>2, <2>1, RetaskWhole
<1>8. w.ts["tcp"] = "connecting" => Whole(r)
  <2> SUFFICES ASSUME w.ts["tcp"] = "connecting" PROVE Whole(r)
    OBVIOUS
  <2> HIDE DEF m
  <2>1. Sound(m) /\ m.ts["tcp"] = "connecting" /\ m.poll # "connect" /\ "tcp" \in {"tcp", "proxy", "tls"}
    BY <1>5, <1>6 DEF Whole
  <2>2. Sound(r) /\ Glide(m, r)
    BY <2>1, FailedSound
  <2> HIDE DEF r
  <2>3. r.sock = m.sock /\ (Held(m) => Held(r))
    BY <2>2, GlideHeld DEF Glide
  <2> QED BY <1>5, <2>2, <2>3 DEF Whole, r
<1> HIDE DEF m, n, r
<1> QED BY <1>4, <1>5, <1>7, <1>8

LEMMA AttemptWhole ==
  ASSUME Whole(w), Attempt PROVE Whole(w')
<1> DEFINE a == w.tasks \ {"attempt"}
           b == w.addrs - 1
           s == [w EXCEPT !.tasks = @ \ {"attempt"}, !.sock = "none"]
           m == Retask(w, a, w.addrs, w.sock, w.poll)
           k == Retask(w, a, w.addrs, "none", w.poll)
           n == Retask(w, a, b, "up", "connect")
           o == Retask(w, w.tasks, b, "none", w.poll)
           r == Down(k, "tcp", "failed")
<1>1. w \in States /\ Early(w) /\ w.tasks \in TaskSets /\ w.addrs \in Nat /\ w.sock \in Sockets /\ w.poll \in Pollings
      /\ (w.sock # "none" => Held(w)) /\ Placed(w) /\ Chains(w)
  BY DEF Whole, Sound, Good, Base, States
<1>2. a \in TaskSets /\ a \subseteq w.tasks /\ ("doRecv" \in a <=> "doRecv" \in w.tasks)
      /\ (w.addrs # 0 => b \in Nat) /\ "none" \in Sockets /\ "up" \in Sockets /\ "connect" \in Pollings
  BY <1>1 DEF TaskSets, Sockets, Pollings
<1>3. /\ s = k /\ [w EXCEPT !.tasks = @ \ {"attempt"}] = m
      /\ [s EXCEPT !.addrs = @ - 1, !.sock = "up", !.poll = "connect"] = n
      /\ [w EXCEPT !.addrs = @ - 1, !.sock = "none"] = o
  <2>1. s = [w EXCEPT !.tasks = a, !.sock = "none"]
    OBVIOUS
  <2> HIDE DEF s
  <2>2. s.addrs = w.addrs
    BY <1>1, <2>1 DEF States
  <2>3. [s EXCEPT !.addrs = @ - 1, !.sock = "up", !.poll = "connect"] = [s EXCEPT !.addrs = b, !.sock = "up", !.poll = "connect"]
    BY <2>2
  <2>4. [w EXCEPT !.addrs = @ - 1, !.sock = "none"] = [w EXCEPT !.addrs = b, !.sock = "none"]
    OBVIOUS
  <2>5. [w EXCEPT !.tasks = @ \ {"attempt"}] = [w EXCEPT !.tasks = a]
    OBVIOUS
  <2> HIDE DEF a, b
  <2>6. [w EXCEPT !.tasks = a, !.sock = "none"] = [w EXCEPT !.tasks = a, !.addrs = w.addrs, !.sock = "none", !.poll = w.poll]
    BY <1>1 DEF States
  <2>7. [w EXCEPT !.tasks = a] = [w EXCEPT !.tasks = a, !.addrs = w.addrs, !.sock = w.sock, !.poll = w.poll]
    BY <1>1 DEF States
  <2>8. [s EXCEPT !.addrs = b, !.sock = "up", !.poll = "connect"] = [w EXCEPT !.tasks = a, !.addrs = b, !.sock = "up", !.poll = "connect"]
    BY <1>1, <2>1 DEF States
  <2>9. [w EXCEPT !.addrs = b, !.sock = "none"] = [w EXCEPT !.tasks = w.tasks, !.addrs = b, !.sock = "none", !.poll = w.poll]
    BY <1>1 DEF States
  <2> QED BY <2>1, <2>3, <2>4, <2>5, <2>6, <2>7, <2>8, <2>9 DEF Retask
<1>4. /\ "attempt" \in w.tasks
      /\ IF "tcp" \notin Alive(w) \/ w.ts["tcp"] # "connecting" THEN w' = m
         ELSE IF w.addrs = 0 THEN w' = r
         ELSE w' = n \/ w' = o
  BY <1>3, Zenon DEF Attempt
<1>5. "tcp" \in Alive(w) => Held(w)
  BY <1>1, TcpIsHeld
<1> HIDE DEF a, b
<1>6. Whole(m)
  <2>1. Retasks(w, a, w.addrs, w.sock, w.poll)
    BY <1>2 DEF Retasks
  <2> QED BY <1>1, <1>2, <2>1, RetaskWhole
<1>7. w.ts["tcp"] = "connecting" => w.poll = "none" /\ w.role = "client" /\ {"resolve", "attempt"} \cap a = {}
                                    /\ ~({"resolve", "attempt"} \subseteq w.tasks)
  BY <1>1, <1>4 DEF Early, a
<1>8. w.ts["tcp"] = "connecting" => Whole(k) /\ k.ts = w.ts /\ k.poll = w.poll
  <2> SUFFICES ASSUME w.ts["tcp"] = "connecting" PROVE Whole(k) /\ k.ts = w.ts /\ k.poll = w.poll
    OBVIOUS
  <2>1. Retasks(w, a, w.addrs, "none", w.poll)
    BY <1>7 DEF Retasks
  <2> QED BY <1>1, <1>2, <2>1, RetaskWhole
<1>9. w.ts["tcp"] = "connecting" => Whole(r)
  <2> SUFFICES ASSUME w.ts["tcp"] = "connecting" PROVE Whole(r)
    OBVIOUS
  <2> HIDE DEF k
  <2>1. Sound(k) /\ k.ts["tcp"] = "connecting" /\ k.poll # "connect" /\ "tcp" \in {"tcp", "proxy", "tls"}
    BY <1>7, <1>8 DEF Whole
  <2>2. Sound(r) /\ Glide(k, r)
    BY <2>1, FailedSound
  <2> HIDE DEF r
  <2>3. r.sock = k.sock /\ (Held(k) => Held(r))
    BY <2>2, GlideHeld DEF Glide
  <2> QED BY <1>8, <2>2, <2>3 DEF Whole, r
<1>10. w.ts["tcp"] = "connecting" /\ w.addrs # 0 /\ Held(w) => Whole(n)
  <2> SUFFICES ASSUME w.ts["tcp"] = "connecting", w.addrs # 0, Held(w) PROVE Whole(n)
    OBVIOUS
  <2>1. Retasks(w, a, b, "up", "connect")
    BY <1>7 DEF Retasks
  <2> QED BY <1>1, <1>2, <2>1, RetaskWhole
<1>11. w.ts["tcp"] = "connecting" /\ w.addrs # 0 => Whole(o)
  <2> SUFFICES ASSUME w.ts["tcp"] = "connecting", w.addrs # 0 PROVE Whole(o)
    OBVIOUS
  <2>1. Retasks(w, w.tasks, b, "none", w.poll)
    BY <1>7 DEF Retasks
  <2> QED BY <1>1, <1>2, <2>1, RetaskWhole
<1> HIDE DEF m, n, o, r
<1> QED BY <1>4, <1>5, <1>6, <1>9, <1>10, <1>11

LEMMA TearDownWhole ==
  ASSUME Whole(w), TearDown PROVE Whole(w')
<1> DEFINE s == IF "ws" \in w.tear THEN WsClose(w)
                ELSE IF "tls" \in w.tear THEN TlsIncoming(w, "null") ELSE w
           r == [s EXCEPT !.tear = {}]
<1>1. w \in States /\ Sound(w) /\ Good(w) /\ Base(w) /\ Tied(w) /\ Fit(w) /\ Placed(w)
  BY DEF Whole, Sound, Good, Base
<1>2. w' = Reap(r)
  <2>1. TlsIncoming(w, "null") = EnqueueRecv([w EXCEPT !.tlsEnd = TRUE])
    BY DEF TlsIncoming
  <2> QED BY <2>1 DEF TearDown
<1>3. Sound(s)
  <2>1. CASE "ws" \in w.tear
    <3> DEFINE v == WsClose(w)
    <3>1. Good(v) /\ Glide(w, v) /\ Still(w, v)
      BY <1>1, WsCloseGood DEF Good
    <3> HIDE DEF v
    <3>2. Sound(v)
      BY <1>1, <3>1, SoundGlide
    <3> QED BY <2>1, <3>2 DEF v
  <2>2. CASE "ws" \notin w.tear /\ "tls" \in w.tear
    <3> DEFINE v == TlsIncoming(w, "null")
    <3>1. "tls" \in w.stack
      BY <1>1, <2>2 DEF Placed, InUse
    <3>2. Good(v) /\ Glide(w, v) /\ Still(w, v)
      BY <1>1, <3>1, TlsIncomingGood
    <3> HIDE DEF v
    <3>3. Sound(v)
      BY <1>1, <3>2, SoundGlide
    <3> QED BY <2>2, <3>3 DEF v
  <2>3. CASE "ws" \notin w.tear /\ "tls" \notin w.tear
    BY <1>1, <2>3
  <2> QED BY <2>1, <2>2, <2>3
<1> HIDE DEF s
<1>4. s \in States /\ Early(s) /\ Polled(s) /\ {} \in LayerSets
  BY <1>3 DEF Sound, Good, Base, LayerSets
<1>5. r \in States /\ Redone(s, r) /\ r.ts = s.ts /\ r.poll = s.poll /\ r.pc = s.pc /\ r.sock = s.sock /\ r.role = s.role
      /\ r.tasks = s.tasks /\ r.stack = s.stack /\ r.tlsEnd = s.tlsEnd
  BY <1>4 DEF States, Redone
<1> HIDE DEF r
<1>6. Early(r) /\ Polled(r) /\ (Ending(s) => Ending(r))
  BY <1>4, <1>5 DEF Early, Polled, Ending
<1>7. Sound(r)
  BY <1>3, <1>5, <1>6, RedoneSound
<1> QED BY <1>2, <1>7, ReapSound DEF Whole

LEMMA BeginDoRecvWhole ==
  ASSUME Whole(w), BeginDoRecv PROVE Whole(w')
<1> DEFINE x == << <<"doRecv", "tls">> >>
           a == w.tasks \ {"doRecv"}
           m == [w EXCEPT !.pc["pool"] = x]
           r == [m EXCEPT !.tasks = a]
<1>1. w \in States /\ Sound(w) /\ Good(w) /\ Base(w) /\ w.tasks \in TaskSets /\ w.pc["pool"] = <<>> /\ "doRecv" \in w.tasks
  BY DEF Whole, Sound, Good, Base, States, BeginDoRecv
<1>2. "tls" \in w.stack /\ "tls" \in InUse(w) /\ "pool" \in Threads
  BY <1>1 DEF Base, Placed, InUse, Threads
<1>3. x \in Frames /\ x # <<>> /\ Len(x) = 1 /\ DOMAIN x = 1 .. 1 /\ x[1][1] = "doRecv" /\ x[1][2] = "tls"
  BY Positions DEF Frames, Kinds
<1>4. w' = r
  <2>1. w' = [w EXCEPT !.tasks = a, !.pc["pool"] = x]
    BY DEF BeginDoRecv
  <2> DEFINE p == [w.pc EXCEPT !["pool"] = x]
  <2>2. m = [w EXCEPT !.pc = p] /\ [w EXCEPT !.tasks = a, !.pc["pool"] = x] = [w EXCEPT !.tasks = a, !.pc = p]
    OBVIOUS
  <2> HIDE DEF p, a, m
  <2> QED BY <1>1, <2>1, <2>2 DEF States
<1> HIDE DEF x
<1>5. m \in States /\ Moved(w, m) /\ m.pc["pool"] = x /\ \A u \in Threads : u # "pool" => m.pc[u] = w.pc[u]
  BY <1>1, <1>2, <1>3, SetPc
<1> HIDE DEF m
<1>6. Good(m)
  <2>1. Chain(w, "pool", x)
    BY <1>2, <1>3 DEF Chain, Runs
  <2>2. \A l \in Layer : ~Begins(m, "pool", l)
    BY <1>3, <1>5 DEF Begins
  <2>3. w.ts["tcp"] = "idle" => "pool" # "caller"
    OBVIOUS
  <2> QED BY <1>1, <1>2, <1>5, <2>1, <2>2, <2>3, PcBase
<1>7. Keeps(w, m, {"check", "doRecv"})
  <2> SUFFICES ASSUME NEW u \in Threads, NEW i \in DOMAIN w.pc[u]
               PROVE  \E j \in DOMAIN m.pc[u] : m.pc[u][j] = w.pc[u][i]
    BY DEF Keeps
  <2>1. u # "pool"
    BY <1>1
  <2> QED BY <1>5, <2>1
<1>8. Sound(m)
  BY <1>1, <1>5, <1>6, <1>7, MovedSound DEF Sound
<1>9. a \in TaskSets /\ a \subseteq w.tasks /\ {"resolve", "attempt"} \cap a = {"resolve", "attempt"} \cap w.tasks
      /\ ({"resolve", "attempt"} \subseteq a <=> {"resolve", "attempt"} \subseteq w.tasks)
  BY <1>1 DEF TaskSets
<1> HIDE DEF a
<1>10. r \in States /\ Redone(m, r) /\ r.ts = m.ts /\ r.poll = m.poll /\ r.pc = m.pc /\ r.sock = m.sock /\ r.role = m.role
      /\ r.tasks = a /\ r.stack = m.stack /\ r.tlsEnd = m.tlsEnd
  <2>1. m.tasks = w.tasks
    BY <1>5 DEF Moved
  <2> QED BY <1>5, <1>9, <2>1 DEF States, Redone
<1> HIDE DEF r
<1>11. Early(r) /\ Polled(r)
  <2>1. Early(m) /\ Polled(m) /\ m.tasks = w.tasks
    BY <1>5, <1>8 DEF Sound, Good, Base, Moved
  <2> QED BY <1>9, <1>10, <2>1 DEF Early, Polled
<1>12. Ending(m) => Ending(r)
  BY <1>3, <1>5, <1>10 DEF Ending
<1>13. Sound(r)
  BY <1>8, <1>10, <1>11, <1>12, RedoneSound
<1>14. Held(r)
  BY <1>3, <1>5, <1>10 DEF Held
<1> QED BY <1>4, <1>13, <1>14 DEF Whole

\* PollService hands an event to the callback of the socket.
LEMMA PollsWhole ==
  ASSUME NEW s, NEW q \in Frames, Sound(s), s.pc["poll"] = <<>>, q # <<>>, s.sock = "up",
         s.ts["tcp"] \notin {"idle", "connecting"},
         \A i \in DOMAIN q : q[i][1] \in {"in", "out", "error", "idle", "pollIn"} /\ q[i][2] = "tcp"
  PROVE  Whole([s EXCEPT !.pc["poll"] = q])
<1> DEFINE r == [s EXCEPT !.pc["poll"] = q]
<1>1. s \in States /\ Good(s) /\ Base(s) /\ Live(s) /\ Kept(s) /\ "poll" \in Threads /\ "tcp" \in InUse(s)
  BY DEF Sound, Good, Base, Threads, InUse
<1>2. r \in States /\ Moved(s, r) /\ r.pc["poll"] = q /\ \A u \in Threads : u # "poll" => r.pc[u] = s.pc[u]
  BY <1>1, SetPc
<1> HIDE DEF r
<1>3. Good(r)
  <2>1. Chain(s, "poll", q)
    BY <1>1 DEF Chain, Runs, Kinds
  <2>2. \A l \in Layer : ~Begins(r, "poll", l)
    <3>1. 1 \in DOMAIN q
      BY EmptySeq DEF Frames
    <3> QED BY <1>2, <3>1 DEF Begins
  <2>3. "poll" # "caller"
    OBVIOUS
  <2> QED BY <1>1, <1>2, <2>1, <2>2, <2>3, PcBase
<1>4. Keeps(s, r, {"check", "doRecv"})
  <2> SUFFICES ASSUME NEW u \in Threads, NEW i \in DOMAIN s.pc[u]
               PROVE  \E j \in DOMAIN r.pc[u] : r.pc[u][j] = s.pc[u][i]
    BY DEF Keeps
  <2>1. u # "poll"
    OBVIOUS
  <2> QED BY <1>2, <2>1
<1>5. Live(r) /\ Kept(r)
  BY <1>1, <1>2, <1>4, MovedSound
<1>6. Held(r)
  BY <1>2 DEF Held
<1> QED BY <1>3, <1>5, <1>6 DEF Whole, Sound, r

\* A socket that is polled for more than its connection is connected.
LEMMA PolledMeans ==
  ASSUME Whole(w), w.poll \in {"in", "both"}
  PROVE  Sound(w) /\ w \in States /\ w.sock = "up" /\ w.ts["tcp"] \notin {"idle", "connecting"}
BY DEF Whole, Sound, Good, Base, Early, Polled

LEMMA PollEventWhole ==
  ASSUME Whole(w), PollEvent PROVE Whole(w')
<1> DEFINE in == w.inbox # <<>> \/ w.eof # "none"
           out == w.poll = "both" /\ (w.room > 0 \/ w.eof # "none")
           evs == (IF in THEN << <<"in", "tcp">> >> ELSE <<>>)
                  \o (IF out THEN << <<"out", "tcp">> >> ELSE <<>>)
           m == [w EXCEPT !.poll = "none"]
           e == << <<"error", "tcp">> >>
<1>1. w.pc["poll"] = <<>> /\ w.poll \in {"in", "both"}
  BY DEF PollEvent
<1>2. Sound(w) /\ w \in States /\ w.sock = "up" /\ w.ts["tcp"] \notin {"idle", "connecting"}
  BY <1>1, PolledMeans
<1>3. \/ evs # <<>> /\ w' = [w EXCEPT !.pc["poll"] = evs]
      \/ w' = [w EXCEPT !.poll = "none", !.pc["poll"] = e]
  BY DEF PollEvent
<1>4. evs \in Frames /\ \A i \in DOMAIN evs : evs[i][1] \in {"in", "out", "error", "idle", "pollIn"} /\ evs[i][2] = "tcp"
  <2> DEFINE f == <<"in", "tcp">>
             g == <<"out", "tcp">>
  <2>1. f \in Kinds \X Layer /\ g \in Kinds \X Layer /\ f[1] = "in" /\ f[2] = "tcp" /\ g[1] = "out" /\ g[2] = "tcp"
    BY Positions DEF Kinds
  <2>2. evs \in {<<>> \o <<>>, <<f>> \o <<>>, <<>> \o <<g>>, <<f>> \o <<g>>}
    OBVIOUS
  <2> HIDE DEF f, g
  <2>3. <<f>> \o <<g>> = <<f, g>>
    BY TwoFrames
  <2>4. evs \in {<<>>, <<f>>, <<g>>, <<f, g>>}
    <3>1. <<>> \o <<>> = <<>> /\ <<f>> \o <<>> = <<f>> /\ <<>> \o <<g>> = <<g>>
      BY ConcatEmptySeq
    <3> QED BY <2>2, <2>3, <3>1
  <2>5. <<>> \in Frames /\ <<f>> \in Frames /\ <<g>> \in Frames /\ <<f, g>> \in Frames
    BY <2>1 DEF Frames
  <2>6. /\ DOMAIN <<>> = {} /\ DOMAIN <<f>> = {1} /\ DOMAIN <<g>> = {1} /\ DOMAIN <<f, g>> = {1, 2}
        /\ <<f>>[1] = f /\ <<g>>[1] = g /\ <<f, g>>[1] = f /\ <<f, g>>[2] = g
    OBVIOUS
  <2>7. \A i \in DOMAIN evs : evs[i] \in {f, g}
    <3> HIDE DEF evs
    <3> QED BY <2>4, <2>6
  <2> HIDE DEF evs
  <2> QED BY <2>1, <2>4, <2>5, <2>7
<1>5. Sound(m) /\ m.ts = w.ts /\ m.pc = w.pc /\ m.sock = w.sock
  <2>1. "none" \in Pollings
    BY DEF Pollings
  <2>2. m.pc = w.pc /\ m.sock = w.sock
    BY <1>2 DEF States
  <2> QED BY <1>2, <2>1, <2>2, PollSound
<1>6. [w EXCEPT !.poll = "none", !.pc["poll"] = e] = [m EXCEPT !.pc["poll"] = e]
  <2> DEFINE p == [w.pc EXCEPT !["poll"] = e]
  <2>1. [w EXCEPT !.poll = "none", !.pc["poll"] = e] = [w EXCEPT !.poll = "none", !.pc = p]
    OBVIOUS
  <2>2. [m EXCEPT !.pc["poll"] = e] = [m EXCEPT !.pc = p]
    BY <1>5
  <2> HIDE DEF p
  <2>3. [m EXCEPT !.pc = p] = [w EXCEPT !.poll = "none", !.pc = p]
    BY <1>2 DEF States
  <2> QED BY <2>1, <2>2, <2>3
<1>7. e \in Frames /\ e # <<>> /\ \A i \in DOMAIN e : e[i][1] \in {"in", "out", "error", "idle", "pollIn"} /\ e[i][2] = "tcp"
  BY Positions DEF Frames, Kinds
<1> HIDE DEF evs, e, m
<1>8. CASE evs # <<>> /\ w' = [w EXCEPT !.pc["poll"] = evs]
  BY <1>1, <1>2, <1>4, <1>8, PollsWhole
<1>9. CASE w' = [w EXCEPT !.poll = "none", !.pc["poll"] = e]
  <2>1. Whole([m EXCEPT !.pc["poll"] = e])
    BY <1>1, <1>2, <1>5, <1>7, PollsWhole
  <2> QED BY <1>6, <1>9, <2>1
<1> QED BY <1>3, <1>8, <1>9

LEMMA ReadTimeoutWhole ==
  ASSUME Whole(w), ReadTimeout PROVE Whole(w')
<1> DEFINE m == [w EXCEPT !.poll = "none"]
           k == w.idles + 1
           n == [m EXCEPT !.idles = k]
           e == << <<"idle", "tcp">>, <<"pollIn", "tcp">> >>
<1>1. w.pc["poll"] = <<>> /\ w.poll \in {"in", "both"}
      /\ w' = [w EXCEPT !.poll = "none", !.idles = k, !.pc["poll"] = e]
  BY DEF ReadTimeout
<1>2. Sound(w) /\ w \in States /\ w.sock = "up" /\ w.ts["tcp"] \notin {"idle", "connecting"} /\ k \in Nat
  <2>1. Sound(w) /\ w \in States /\ w.sock = "up" /\ w.ts["tcp"] \notin {"idle", "connecting"}
    BY <1>1, PolledMeans
  <2> QED BY <2>1 DEF States
<1>3. Sound(m) /\ m.ts = w.ts /\ m.pc = w.pc /\ m.sock = w.sock /\ m \in States
  <2>1. "none" \in Pollings
    BY DEF Pollings
  <2>2. m.pc = w.pc /\ m.sock = w.sock
    BY <1>2 DEF States
  <2>3. Sound(m) /\ m.ts = w.ts
    BY <1>2, <2>1, PollSound
  <2> HIDE DEF m
  <2> QED BY <2>2, <2>3 DEF Sound, Good, Base
<1> HIDE DEF k
<1>4. [w EXCEPT !.poll = "none", !.idles = k, !.pc["poll"] = e] = [n EXCEPT !.pc["poll"] = e]
  <2> DEFINE p == [w.pc EXCEPT !["poll"] = e]
  <2>1. [w EXCEPT !.poll = "none", !.idles = k, !.pc["poll"] = e] = [w EXCEPT !.poll = "none", !.idles = k, !.pc = p]
    OBVIOUS
  <2>2. [n EXCEPT !.pc["poll"] = e] = [n EXCEPT !.pc = p]
    BY <1>2 DEF States
  <2> HIDE DEF p
  <2>3. [n EXCEPT !.pc = p] = [w EXCEPT !.poll = "none", !.idles = k, !.pc = p]
    BY <1>2 DEF States
  <2> QED BY <2>1, <2>2, <2>3
<1> HIDE DEF m
<1>5. n \in States /\ Alike(m, n)
  BY <1>2, <1>3 DEF States, Alike
<1> HIDE DEF n
<1>6. Sound(n) /\ n.pc["poll"] = <<>> /\ n.sock = "up" /\ n.ts["tcp"] \notin {"idle", "connecting"}
  <2>1. Sound(n)
    BY <1>3, <1>5, AlikeSound
  <2> QED BY <1>1, <1>2, <1>3, <1>5, <2>1 DEF Alike
<1>7. e \in Frames /\ e # <<>> /\ \A i \in DOMAIN e : e[i][1] \in {"in", "out", "error", "idle", "pollIn"} /\ e[i][2] = "tcp"
  BY Positions DEF Frames, Kinds
<1> HIDE DEF e
<1>8. Whole([n EXCEPT !.pc["poll"] = e])
  BY <1>6, <1>7, PollsWhole
<1> QED BY <1>1, <1>4, <1>8

LEMMA PeerWhole ==
  ASSUME Whole(w), Peer PROVE Whole(w')
<1>1. w \in States /\ w.stack \in StackSets /\ w.inbox \in Inboxes /\ w.heard \in Nat /\ w.room \in Nat
  BY DEF Whole, Sound, Good, Base, States
<1>2. ASSUME NEW u \in Heard(w.stack), w' = [w EXCEPT !.inbox = Append(@, u), !.heard = @ + 1] PROVE Whole(w')
  <2> DEFINE i == Append(w.inbox, u)
             h == w.heard + 1
             r == [w EXCEPT !.inbox = i, !.heard = h]
  <2>1. u \in Units
    BY <1>1, WebSocketAssumption DEF StackSets
  <2>2. i \in Inboxes /\ h \in Nat
    BY <1>1, <2>1 DEF Inboxes
  <2> HIDE DEF i, h
  <2>3. r \in States /\ Alike(w, r)
    BY <1>1, <2>2 DEF States, Alike
  <2>4. w' = r
    BY <1>2 DEF i, h
  <2> HIDE DEF r
  <2> QED BY <2>3, <2>4, AlikeWhole
<1>3. ASSUME NEW e \in {"fin", "reset"}, w' = [w EXCEPT !.eof = e] PROVE Whole(w')
  <2> DEFINE r == [w EXCEPT !.eof = e]
  <2>1. e \in InputEnds
    BY DEF InputEnds
  <2>2. r \in States /\ Alike(w, r)
    BY <1>1, <2>1 DEF States, Alike
  <2> HIDE DEF r
  <2>3. Whole(r)
    BY <2>2, AlikeWhole
  <2> QED BY <1>3, <2>3 DEF r
<1>4. ASSUME w' = [w EXCEPT !.room = @ + 1] PROVE Whole(w')
  <2> DEFINE h == w.room + 1
             r == [w EXCEPT !.room = h]
  <2>1. h \in Nat /\ w' = r
    BY <1>1, <1>4
  <2> HIDE DEF h
  <2>2. r \in States /\ Alike(w, r)
    BY <1>1, <2>1 DEF States, Alike
  <2> HIDE DEF r
  <2> QED BY <2>1, <2>2, AlikeWhole
<1> QED BY <1>2, <1>3, <1>4 DEF Peer

LEMMA PollConnectWhole ==
  ASSUME Whole(w), PollConnect PROVE Whole(w')
<1> DEFINE f == <<"pollIn", "tcp">>
           x == [w EXCEPT !.pc["poll"] = <<f>>, !.poll = "none"]
           a == w.tasks \cup {"attempt"}
           n == Retask(w, a, w.addrs, w.sock, "none")
<1>1. w \in States /\ Sound(w) /\ Early(w) /\ Polled(w) /\ w.tasks \in TaskSets /\ w.addrs \in Nat /\ w.sock \in Sockets
      /\ (w.sock # "none" => Held(w)) /\ "none" \in Pollings
  BY DEF Whole, Sound, Good, Base, States, Pollings
<1>2. w.pc["poll"] = <<>> /\ w.poll = "connect" /\ (w' = Connected(x, "poll", "tcp") \/ w' = [w EXCEPT !.poll = "none", !.tasks = a])
  BY DEF PollConnect
<1>3. w.ts["tcp"] = "connecting" /\ w.role = "client" /\ w.sock = "up" /\ {"resolve", "attempt"} \cap w.tasks = {}
  <2>1. w.ts["tcp"] = "connecting" /\ w.sock = "up" /\ {"resolve", "attempt"} \cap w.tasks = {}
    BY <1>1, <1>2 DEF Early, Polled
  <2>2. w.role # "server" /\ w.role \in {"client", "server"}
    BY <1>1, <2>1 DEF Early, States, Sides
  <2> QED BY <2>1, <2>2
<1>4. ASSUME w' = [w EXCEPT !.poll = "none", !.tasks = a] PROVE Whole(w')
  <2>1. a \in TaskSets /\ ("doRecv" \in a <=> "doRecv" \in w.tasks) /\ ~({"resolve", "attempt"} \subseteq a)
    BY <1>1, <1>3 DEF TaskSets
  <2> HIDE DEF a
  <2>2. [w EXCEPT !.poll = "none", !.tasks = a] = n
    BY <1>1 DEF Retask, States
  <2>3. Retasks(w, a, w.addrs, w.sock, "none")
    BY <1>3, <2>1 DEF Retasks
  <2>4. Whole(n)
    BY <1>1, <2>1, <2>3, RetaskWhole
  <2> QED BY <1>4, <2>2, <2>4
<1>5. ASSUME w' = Connected(x, "poll", "tcp") PROVE Whole(w')
  <2> DEFINE m == [w EXCEPT !.poll = "none"]
             b == Raised(m, "tcp")
             c == [b EXCEPT !.pc["poll"] = <<f>>]
             u == Up(w, "tcp")
  <2>1. Sound(m) /\ Glide(w, m) /\ m.ts = w.ts
    BY <1>1, PollSound
  <2>2. m.poll = "none" /\ m \in States /\ m.pc = w.pc
    BY <1>1 DEF States
  <2>3. c = [x EXCEPT !.ts["tcp"] = "connected"] /\ x.cb = w.cb /\ x.stack = w.stack /\ x \in States
    <3> DEFINE p == [w.pc EXCEPT !["poll"] = <<f>>]
               t == [w.ts EXCEPT !["tcp"] = "connected"]
    <3>1. x = [w EXCEPT !.pc = p, !.poll = "none"]
      OBVIOUS
    <3>2. p \in CallChains
      <4>1. w.pc \in CallChains /\ <<f>> \in Seq(Kinds \X Layer)
        BY <1>1, Positions DEF States, Kinds
      <4> HIDE DEF f
      <4> QED BY <4>1 DEF CallChains
    <3> HIDE DEF p
    <3>3. x \in States /\ x.cb = w.cb /\ x.stack = w.stack /\ x.ts = w.ts
      <4> HIDE DEF x
      <4> QED BY <1>1, <3>1, <3>2 DEF States
    <3>4. [x EXCEPT !.ts["tcp"] = "connected"] = [x EXCEPT !.ts = t]
      BY <3>3
    <3>5. b = [m EXCEPT !.ts = t]
      BY <2>1 DEF Raised
    <3> HIDE DEF t
    <3>6. b.pc = w.pc
      BY <1>1, <3>5 DEF States
    <3>7. c = [b EXCEPT !.pc = p]
      BY <3>6 DEF p
    <3> HIDE DEF x
    <3>8. [x EXCEPT !.ts = t] = [b EXCEPT !.pc = p]
      BY <1>1, <3>1, <3>5 DEF States
    <3> QED BY <3>3, <3>4, <3>7, <3>8
  <2>4. u = Up(x, "tcp") /\ "tcp" \in Lower(x) /\ Above(x, "tcp") = u
    <3>1. u = Up(x, "tcp") /\ "tcp" \in Lower(x)
      BY <2>3 DEF Up, Lower, InUse
    <3> QED BY <2>3, <3>1, UpIsAbove
  <2>5. w' = IF "tcp" \in w.cb THEN Leads(c, "poll", <<"init", u>>) ELSE c
    <3> HIDE DEF c, x
    <3> QED BY <1>5, <2>3, <2>4 DEF Connected, Leads
  <2>6. "tcp" \in Lower(m) /\ Up(m, "tcp") = u
    BY <2>1 DEF Lower, InUse, Up, Glide
  <2>7. Sound(b) /\ Glide(m, b) /\ b.ts["tcp"] = "connected" /\ b.ts[u] = "idle" /\ \A t \in Threads : ~Begins(b, t, u)
    <3> HIDE DEF m
    <3> QED BY <1>3, <2>1, <2>2, <2>6, RaisedSound
  <2> HIDE DEF m, b, u
  <2>8. b.pc["poll"] = <<>> /\ b.sock = "up" /\ b \in States
    BY <1>2, <1>3, <2>1, <2>2, <2>7 DEF Glide, Sound, Good, Base
  <2>9. <<f>> \in Frames /\ <<f>> # <<>> /\ DOMAIN <<f>> = {1} /\ <<f>>[1][1] = "pollIn" /\ <<f>>[1][2] = "tcp"
    BY Positions DEF Frames, Kinds
  <2> DEFINE q == <<f>>
  <2> HIDE DEF q
  <2>10. Whole([b EXCEPT !.pc["poll"] = q])
    BY <2>7, <2>8, <2>9, PollsWhole DEF q
  <2>11. Whole(c)
    BY <2>10 DEF q
  <2>12. Moved(b, c) /\ c.pc["poll"] = q /\ \A t \in Threads : t # "poll" => c.pc[t] = b.pc[t]
    <3>1. [b EXCEPT !.pc["poll"] = q] = c /\ "poll" \in Threads /\ q \in Frames
      BY <2>9 DEF q, Threads
    <3> DEFINE z == [b EXCEPT !.pc["poll"] = q]
    <3>2. z \in States /\ Moved(b, z) /\ z.pc["poll"] = q /\ \A t \in Threads : t # "poll" => z.pc[t] = b.pc[t]
      BY <2>8, <3>1, SetPc
    <3> HIDE DEF c, z
    <3> QED BY <3>1, <3>2 DEF z
  <2> HIDE DEF c
  <2>13. c.ts = b.ts /\ c.stack = b.stack /\ c.sock = b.sock
    BY <2>12 DEF Moved
  <2>14. u = Up(c, "tcp") /\ "tcp" \in Lower(c)
    <3>1. c.stack = w.stack
      BY <2>1, <2>7, <2>13 DEF Glide
    <3> QED BY <3>1 DEF u, Up, Lower, InUse
  <2>15. \A l : ~Begins(c, "poll", l)
    BY <2>9, <2>12 DEF Begins, q
  <2>16. \A t \in Threads : ~Begins(c, t, u)
    <3> SUFFICES ASSUME NEW t \in Threads PROVE ~Begins(c, t, u)
      OBVIOUS
    <3>1. CASE t = "poll"
      BY <2>15, <3>1
    <3>2. CASE t # "poll"
      BY <2>7, <2>12, <3>2 DEF Begins
    <3> QED BY <3>1, <3>2
  <2>17. Free(c, "poll")
    BY <2>7, <2>8, <2>13, <2>15 DEF Free
  <2> DEFINE r == Leads(c, "poll", <<"init", Up(c, "tcp")>>)
  <2>18. Sound(r)
    <3>1. c.ts["tcp"] \notin {"idle", "connecting"} /\ c.ts[Up(c, "tcp")] = "idle"
          /\ (\A t \in Threads : ~Begins(c, t, Up(c, "tcp"))) /\ "poll" \in Threads /\ Sound(c)
      BY <2>7, <2>11, <2>13, <2>14, <2>16 DEF Threads, Whole
    <3> QED BY <2>14, <2>17, <3>1, InitLeads
  <2>19. r.pc["poll"] # <<>>
    <3> DEFINE g == <<"init", Up(c, "tcp")>>
               y == <<g>> \o q
    <3>1. c \in States /\ g \in Kinds \X Layer /\ q \in Frames
      BY <2>9, <2>11, <2>14, InUseType DEF Whole, Sound, Good, Base, Kinds, q
    <3> HIDE DEF g
    <3>2. y \in Frames /\ 1 \in DOMAIN y
      BY <3>1, OneMore
    <3> HIDE DEF y
    <3>3. Leads(c, "poll", g) = [c EXCEPT !.pc["poll"] = y]
      BY <2>12 DEF Leads, Push, y
    <3> DEFINE z == [c EXCEPT !.pc["poll"] = y]
    <3>4. z \in States /\ Moved(c, z) /\ z.pc["poll"] = y /\ \A t \in Threads : t # "poll" => z.pc[t] = c.pc[t]
      <4>1. "poll" \in Threads
        BY DEF Threads
      <4> QED BY <3>1, <3>2, <4>1, SetPc
    <3>5. y # <<>>
      BY <3>2
    <3> QED BY <3>3, <3>4, <3>5 DEF g
  <2> HIDE DEF r
  <2>20. Whole(r)
    BY <2>18, <2>19 DEF Whole, Held
  <2> QED BY <2>5, <2>11, <2>14, <2>20 DEF r
<1> QED BY <1>2, <1>4, <1>5

-----------------------------------------------------------------------------
(* open() and accept().                                                    *)

LEMMA NothingInOrder == InOrder(<<>> \o <<>>, 0)
<1>1. <<>> \o <<>> = <<>>
  BY ConcatEmptySeq
<1>2. DataAt(<<>>, Len(<<>>)) = {}
  BY DEF DataAt
<1> QED BY <1>1, <1>2, FS_EmptySet DEF InOrder

\* What the thread that begins has to do.
Opening == << <<"store", "tcp">>, <<"check", "tcp">> >>
Accepting == << <<"store", "tcp">>, <<"pollIn", "tcp">>, <<"check", "tcp">> >>

\* r is s when a connection has begun.
Begun(s, r) ==
  /\ r.role = s.role /\ r.stack = s.stack /\ r.st = "connecting" /\ r.opened
  /\ r.slot = s.slot /\ r.cb = s.cb /\ r.tear = s.tear /\ r.tasks = s.tasks
  /\ r.timers = {"connection"} /\ r.ts = s.ts /\ r.poll = s.poll /\ r.closeSent = s.closeSent
  /\ r.sendq = s.sendq /\ r.wire = s.wire /\ r.accepted = s.accepted /\ r.reports = s.reports
  /\ r.pc["poll"] = s.pc["poll"] /\ r.pc["pool"] = s.pc["pool"]
  /\ \/ r.pc["caller"] = Opening
     \/ r.pc["caller"] = Accepting /\ r.sock = "up" /\ s.role = "server"

LEMMA BegunWhole ==
  ASSUME NEW s, NEW r \in States, Fresh(s), Begun(s, r)
  PROVE  Whole(r)
<1> DEFINE q == r.pc["caller"]
<1>1. /\ r.st = "connecting" /\ r.opened /\ r.slot = {} /\ r.cb = {} /\ r.tear = {} /\ r.tasks = {}
      /\ r.timers = {"connection"} /\ (\A l \in Layer : r.ts[l] = "idle") /\ r.poll = "none" /\ ~r.closeSent
      /\ r.sendq = <<>> /\ r.wire = <<>> /\ r.accepted = 0 /\ r.reports = <<>>
      /\ r.pc["poll"] = <<>> /\ r.pc["pool"] = <<>>
  BY DEF Fresh, Begun, Threads
<1>2. "tcp" \in Layer /\ "ws" \in Layer /\ "tcp" \in InUse(r) /\ "caller" \in Threads
  BY Positions DEF InUse, Threads
<1>3. /\ q # <<>> /\ q[1] = <<"store", "tcp">> /\ 1 \in DOMAIN q /\ Chain(r, "caller", q)
      /\ \A i \in DOMAIN q : q[i][1] = "pollIn" => r.sock = "up"
  <2>1. CASE q = Opening
    <3>1. /\ Opening # <<>> /\ DOMAIN Opening = {1, 2}
          /\ Opening[1] = <<"store", "tcp">> /\ Opening[2] = <<"check", "tcp">>
      BY DEF Opening
    <3>2. Chain(r, "caller", Opening)
      BY <1>2, <3>1 DEF Chain, Runs
    <3> HIDE DEF q
    <3> QED BY <2>1, <3>1, <3>2
  <2>2. CASE q = Accepting /\ r.sock = "up" /\ r.role = "server"
    <3>1. /\ Accepting # <<>> /\ DOMAIN Accepting = {1, 2, 3} /\ Accepting[1] = <<"store", "tcp">>
          /\ Accepting[2] = <<"pollIn", "tcp">> /\ Accepting[3] = <<"check", "tcp">>
      BY DEF Accepting
    <3>2. Chain(r, "caller", Accepting)
      BY <1>2, <2>2, <3>1 DEF Chain, Runs
    <3> HIDE DEF q
    <3> QED BY <2>2, <3>1, <3>2
  <2> QED BY <2>1, <2>2 DEF Begun
<1>4. Chains(r)
  <2>1. Chain(r, "poll", r.pc["poll"]) /\ Chain(r, "pool", r.pc["pool"])
    BY <1>1 DEF Chain
  <2> QED BY <1>3, <2>1 DEF Chains, Threads
<1>5. Told(r)
  <2>1. \A x : At(r, x) = {}
    BY <1>1 DEF At
  <2> QED BY <1>1, <2>1 DEF Told
<1>6. Placed(r) /\ CloseLate(r)
  BY <1>1 DEF Placed, CloseLate
<1>7. Rising(r)
  BY <1>1, InUseType DEF Rising
<1>8. Starts(r)
  <2>1. \A t \in Threads : \A l : Begins(r, t, l) => t = "caller" /\ l = "tcp"
    BY <1>1, <1>3 DEF Begins, Threads
  <2>2. \A l \in Lower(r) : Up(r, l) # "tcp"
    BY InUseType
  <2> QED BY <1>1, <1>2, <2>1, <2>2 DEF Starts
<1>9. Early(r)
  BY <1>1, <1>2, <1>3 DEF Early
<1>10. Polled(r)
  BY <1>1, <1>3 DEF Polled
<1>11. InOrder(r.wire \o r.sendq, r.accepted)
  BY <1>1, NothingInOrder
<1>12. Base(r)
  BY <1>1, <1>4, <1>5, <1>6, <1>7, <1>8, <1>9, <1>10, <1>11 DEF Base
<1>13. Tied(r) /\ Fit(r) /\ Live(r) /\ Kept(r)
  BY <1>1, <1>2 DEF Tied, Fit, Live, Kept, Over
<1>14. Held(r)
  BY <1>2, <1>3 DEF Held
<1> QED BY <1>12, <1>13, <1>14 DEF Whole, Sound, Good

LEMMA OpenWhole ==
  ASSUME Fresh(w), Open \/ RunLoop PROVE Whole(w')
<1> DEFINE q == IF Open THEN Opening ELSE Accepting
           k == IF Open THEN w.sock ELSE "up"
           t == w.timers \cup {"connection"}
           p == [w.pc EXCEPT !["caller"] = q]
           r == [w EXCEPT !.st = "connecting", !.timers = t, !.pc = p, !.opened = TRUE, !.sock = k]
<1>1. w \in States /\ w.timers = {} /\ w.pc \in CallChains /\ w.sock \in Sockets
  BY DEF Fresh, States
<1>2. w' = r
  <2>1. w \in States
    BY <1>1
  <2>2. CASE Open
    <3>1. w' = [Begin(w) EXCEPT !.opened = TRUE]
      BY <2>2 DEF Open
    <3>2. Begin(w) = [w EXCEPT !.st = "connecting", !.timers = t, !.pc = p]
      BY <2>2 DEF Begin, Opening
    <3> HIDE DEF t, p
    <3>3. [[w EXCEPT !.st = "connecting", !.timers = t, !.pc = p] EXCEPT !.opened = TRUE]
            = [w EXCEPT !.st = "connecting", !.timers = t, !.pc = p, !.opened = TRUE, !.sock = w.sock]
      BY <1>1 DEF States
    <3> QED BY <2>2, <3>1, <3>2, <3>3
  <2>3. CASE ~Open
    <3> DEFINE o == [w.pc EXCEPT !["caller"] = Opening]
    <3>1. w' = [Begin(w) EXCEPT !.opened = TRUE, !.sock = "up", !.pc["caller"] = Accepting]
      BY <2>3 DEF RunLoop, Accepting
    <3>2. Begin(w) = [w EXCEPT !.st = "connecting", !.timers = t, !.pc = o]
      BY DEF Begin, Opening
    <3>3. [o EXCEPT !["caller"] = Accepting] = p
      BY <1>1, <2>3 DEF CallChains
    <3> HIDE DEF t, p, o
    <3> DEFINE b == [w EXCEPT !.st = "connecting", !.timers = t, !.pc = o]
    <3>4. b.pc = o
      BY <1>1 DEF States
    <3>5. [b EXCEPT !.opened = TRUE, !.sock = "up", !.pc["caller"] = Accepting]
            = [b EXCEPT !.opened = TRUE, !.sock = "up", !.pc = p]
      BY <3>3, <3>4
    <3>6. [b EXCEPT !.opened = TRUE, !.sock = "up", !.pc = p]
            = [w EXCEPT !.st = "connecting", !.timers = t, !.pc = p, !.opened = TRUE, !.sock = "up"]
      BY <1>1 DEF States
    <3> QED BY <2>3, <3>1, <3>2, <3>5, <3>6
  <2> QED BY <2>2, <2>3
<1>3. q \in Frames
  <2>1. <<"store", "tcp">> \in Kinds \X Layer /\ <<"pollIn", "tcp">> \in Kinds \X Layer /\ <<"check", "tcp">> \in Kinds \X Layer
    BY Positions DEF Kinds
  <2>2. Opening \in Frames
    BY <2>1 DEF Frames, Opening
  <2>3. Accepting \in Frames
    BY <2>1 DEF Frames, Accepting
  <2> QED BY <2>2, <2>3
<1>4. p \in CallChains /\ p["caller"] = q /\ p["poll"] = w.pc["poll"] /\ p["pool"] = w.pc["pool"]
  <2> HIDE DEF q
  <2> QED BY <1>1, <1>3 DEF CallChains, Frames, Threads
<1>5. t = {"connection"} /\ t \in TimerSets /\ k \in Sockets /\ "connecting" \in SocketStates
  BY <1>1 DEF TimerSets, Sockets, SocketStates
<1>6. q = Opening \/ (q = Accepting /\ k = "up" /\ w.role = "server")
  BY DEF RunLoop, Fresh
<1> HIDE DEF p, t, q, k
<1>7. r \in States /\ Begun(w, r)
  <2>1. /\ r \in States
        /\ r.role = w.role /\ r.stack = w.stack /\ r.st = "connecting" /\ r.opened
        /\ r.slot = w.slot /\ r.cb = w.cb /\ r.tear = w.tear /\ r.tasks = w.tasks
        /\ r.timers = t /\ r.ts = w.ts /\ r.poll = w.poll /\ r.closeSent = w.closeSent
        /\ r.sendq = w.sendq /\ r.wire = w.wire /\ r.accepted = w.accepted /\ r.reports = w.reports
        /\ r.pc = p /\ r.sock = k
    BY <1>1, <1>4, <1>5 DEF States
  <2> HIDE DEF r
  <2> QED BY <1>4, <1>5, <1>6, <2>1 DEF Begun
<1> HIDE DEF r
<1> QED BY <1>2, <1>7, BegunWhole

\* The server listens and stops without touching a connection.
LEMMA ServerKeeps ==
  ASSUME IInv, NEW x \in ServerStates, w' = [w EXCEPT !.server = x], x # "new" => w.opened \/ w.role = "server"
  PROVE  IInv'
<1> DEFINE r == [w EXCEPT !.server = x]
<1>1. w \in States
  BY DEF IInv, Fresh, Whole, Sound, Good, Base
<1>2. r \in States /\ Alike(w, r) /\ r.server = x
  BY <1>1 DEF States, Alike
<1> HIDE DEF r
<1>3. w' = r
  BY DEF r
<1>4. CASE Fresh(w)
  <2>1. Fresh(r)
    BY <1>2, <1>4 DEF Fresh, Alike
  <2> QED BY <1>3, <2>1 DEF IInv
<1>5. CASE Whole(w)
  <2>1. Whole(r)
    BY <1>2, <1>5, AlikeWhole
  <2> QED BY <1>3, <2>1 DEF IInv
<1> QED BY <1>4, <1>5 DEF IInv

LEMMA InitFresh ==
  ASSUME Init PROVE Fresh(w)
<1>1. PICK r \in Roles, k \in Stacks :
        w = [role |-> r, stack |-> k, st |-> "closed", opened |-> FALSE, server |-> "new",
             slot |-> {}, cb |-> {}, recv |-> TRUE, tear |-> {}, tasks |-> {}, timers |-> {},
             ts |-> [l \in Layer |-> "idle"], pc |-> [t \in {"caller", "poll", "pool"} |-> <<>>],
             sock |-> "none", poll |-> "none", room |-> SndBuf, addrs |-> 0, eof |-> "none",
             inbox |-> <<>>, heard |-> 0, sendq |-> <<>>, wire |-> <<>>,
             tlsq |-> <<>>, tlsEnd |-> FALSE, hello |-> FALSE,
             closeSent |-> FALSE, pings |-> 0, idles |-> 0,
             accepted |-> 0, got |-> 0, reports |-> <<>>]
  BY DEF Init
<1> DEFINE ts0 == [l \in Layer |-> "idle"]
           pc0 == [t \in {"caller", "poll", "pool"} |-> <<>>]
<1>2. r \in Sides /\ k \in StackSets /\ SndBuf \in Nat
  BY WebSocketAssumption DEF Sides, StackSets
<1>3. ts0 \in LayerTables /\ \A l \in Layer : ts0[l] = "idle"
  BY DEF LayerTables, LayerStates
<1>4. pc0 \in CallChains /\ \A t \in Threads : pc0[t] = <<>>
  BY DEF CallChains, Threads
<1>5. /\ "closed" \in SocketStates /\ "new" \in ServerStates /\ {} \in LayerSets /\ {} \in TaskSets /\ {} \in TimerSets
      /\ "none" \in Sockets /\ "none" \in Pollings /\ "none" \in InputEnds
      /\ <<>> \in Streams /\ <<>> \in Inboxes /\ <<>> \in TlsQueues /\ <<>> \in Logs
  BY DEF SocketStates, ServerStates, LayerSets, TaskSets, TimerSets, Sockets, Pollings, InputEnds,
         Streams, Inboxes, TlsQueues, Logs
<1>6. w = [role |-> r, stack |-> k, st |-> "closed", opened |-> FALSE, server |-> "new",
           slot |-> {}, cb |-> {}, recv |-> TRUE, tear |-> {}, tasks |-> {}, timers |-> {},
           ts |-> ts0, pc |-> pc0,
           sock |-> "none", poll |-> "none", room |-> SndBuf, addrs |-> 0, eof |-> "none",
           inbox |-> <<>>, heard |-> 0, sendq |-> <<>>, wire |-> <<>>,
           tlsq |-> <<>>, tlsEnd |-> FALSE, hello |-> FALSE,
           closeSent |-> FALSE, pings |-> 0, idles |-> 0,
           accepted |-> 0, got |-> 0, reports |-> <<>>]
  BY <1>1
<1> HIDE DEF ts0, pc0
<1>7. w \in States
  BY <1>2, <1>3, <1>4, <1>5, <1>6 DEF States
<1> QED BY <1>3, <1>4, <1>6, <1>7 DEF Fresh

LEMMA NextKeeps ==
  ASSUME IInv, [Next]_w PROVE IInv'
<1>1. w \in States /\ DOMAIN w.pc = Threads
  BY DEF IInv, Fresh, Whole, Sound, Good, Base, States, CallChains
<1>2. CASE UNCHANGED w
  BY <1>2 DEF IInv
<1>3. CASE Listen
  <2>1. \E r \in {"listening", "stopped"} : w' = [w EXCEPT !.server = r]
    BY <1>3 DEF Listen
  <2>2. PICK r \in {"listening", "stopped"} : w' = [w EXCEPT !.server = r]
    BY <2>1
  <2>3. r \in ServerStates /\ w.role = "server"
    BY <1>3 DEF Listen, ServerStates
  <2> QED BY <2>2, <2>3, ServerKeeps
<1>4. CASE StopServer
  <2>1. w' = [w EXCEPT !.server = "closing"] /\ "closing" \in ServerStates /\ w.server = "listening" /\ ~w.opened
    BY <1>4 DEF StopServer, ServerStates
  <2>2. w.opened \/ w.role = "server"
    BY <2>1 DEF IInv, Fresh, Whole, Sound, Good, Base
  <2> QED BY <2>1, <2>2, ServerKeeps
<1>5. CASE EndLoop
  <2>1. w' = [w EXCEPT !.server = "stopped"] /\ "stopped" \in ServerStates /\ w.server = "closing"
    BY <1>5 DEF EndLoop, ServerStates
  <2>2. w.opened \/ w.role = "server"
    BY <2>1 DEF IInv, Fresh, Whole, Sound, Good, Base
  <2> QED BY <2>1, <2>2, ServerKeeps
<1>6. CASE Open \/ RunLoop
  <2>1. ~w.opened
    BY <1>6 DEF Open, RunLoop
  <2>2. Fresh(w)
    BY <2>1 DEF IInv, Whole, Sound, Good, Base
  <2>3. Whole(w')
    BY <1>6, <2>2, OpenWhole
  <2> QED BY <2>3 DEF IInv
<1> DEFINE Later == \/ \E t \in DOMAIN w.pc : Frame(t)
                    \/ Send \/ CallClose \/ ForceClose
                    \/ Resolve \/ Attempt \/ BeginDoRecv \/ ConnectionTimeout \/ CloseTimeout \/ TearDown
                    \/ PollConnect \/ PollEvent \/ ReadTimeout \/ Peer
<1>7. CASE Later
  <2>1. ~Fresh(w)
    <3> SUFFICES ASSUME Fresh(w) PROVE FALSE
      OBVIOUS
    <3>1. \A t \in DOMAIN w.pc : w.pc[t] = <<>>
      BY <1>1 DEF Fresh
    <3>2. ~w.opened /\ w.tasks = {} /\ w.timers = {} /\ w.tear = {} /\ w.poll = "none"
      BY DEF Fresh
    <3> QED BY <1>7, <3>1, <3>2 DEF Frame, Send, CallClose, ForceClose, Ready, Resolve, Attempt, BeginDoRecv,
               ConnectionTimeout, CloseTimeout, TearDown, PollConnect, PollEvent, ReadTimeout, Peer
  <2>2. Whole(w) /\ Sound(w)
    BY <2>1 DEF IInv, Whole
  <2>3. ASSUME NEW t \in DOMAIN w.pc, Frame(t) PROVE Whole(w')
    BY <1>1, <2>2, <2>3, FrameSound
  <2>4. Whole(w')
    BY <1>7, <2>2, <2>3, SendWhole, CallCloseWhole, ForceCloseWhole, ResolveWhole, AttemptWhole, BeginDoRecvWhole,
       ConnectionTimeoutWhole, CloseTimeoutWhole, TearDownWhole, PollConnectWhole, PollEventWhole,
       ReadTimeoutWhole, PeerWhole
  <2> QED BY <2>4 DEF IInv
<1> QED BY <1>2, <1>3, <1>4, <1>5, <1>6, <1>7 DEF Next

-----------------------------------------------------------------------------
(* The theorems.                                                           *)

(***************************************************************************)
(* What holds between any two steps of the threads of a WebSocket: each    *)
(* layer is made once, by one thread, on a connected layer below; what is  *)
(* stored while another thread closes is looked at again; an unclosed      *)
(* WebSocket has its layers, its timers and its callbacks; and an open     *)
(* socket has a holder (WebSocket.cpp, TcpTransport, TlsTransport,         *)
(* WsTransport, HttpProxyTransport).                                       *)
(***************************************************************************)
THEOREM WebSocketInvariant == Spec => []IInv
<1>1. Init => IInv
  BY InitFresh DEF IInv
<1>2. IInv /\ [Next]_w => IInv'
  BY NextKeeps
<1> QED BY <1>1, <1>2, PTL DEF Spec

(***************************************************************************)
(* Whatever the socket takes at a time and whichever thread writes, the    *)
(* messages that send() accepted leave whole, once each and in their order *)
(* (TcpTransport::outgoing and trySendQueue).                              *)
(***************************************************************************)
THEOREM StreamStaysInOrder == Spec => []StreamInOrder
<1>1. IInv => StreamInOrder
  <2> SUFFICES ASSUME IInv PROVE StreamInOrder
    OBVIOUS
  <2>1. InOrder(w.wire \o w.sendq, w.accepted)
    <3>1. CASE Fresh(w)
      BY <3>1, NothingInOrder DEF Fresh
    <3>2. CASE Whole(w)
      BY <3>2 DEF Whole, Sound, Good, Base
    <3> QED BY <3>1, <3>2 DEF IInv
  <2> DEFINE q == w.wire \o w.sendq
  <2>2. StreamInOrder <=> InOrder(q, w.accepted)
    BY Zenon DEF StreamInOrder, InOrder, DataAt
  <2> QED BY <2>1, <2>2
<1> QED BY <1>1, WebSocketInvariant, PTL

\* The threads are idle and nothing is left to run.
LEMMA QuietMeans ==
  ASSUME IInv, Quiet
  PROVE  /\ w \in States /\ (\A t \in Threads : w.pc[t] = <<>>) /\ w.tasks = {} /\ w.tear = {}
         /\ "close" \notin w.timers /\ ("connection" \in w.timers => w.st # "connecting")
<1>1. w \in States /\ DOMAIN w.pc = Threads
  BY DEF IInv, Fresh, Whole, Sound, Good, Base, States, CallChains
<1> QED BY <1>1 DEF Quiet

(***************************************************************************)
(* A closed WebSocket that went through no proxy ends with no transport,   *)
(* its socket closed and no longer polled, whoever closed it and whatever  *)
(* emplaceTransport was storing at the time (closeTransports,              *)
(* emplaceTransport, the destructor of TcpTransport).                      *)
(***************************************************************************)
THEOREM ClosedReleasesAll == Spec => []ClosedKeepsNothing
<1>1. IInv => ClosedKeepsNothing
  <2> SUFFICES ASSUME IInv, Quiet, w.st = "closed", "proxy" \notin w.stack
               PROVE  Alive(w) = {} /\ w.sock = "none" /\ w.poll = "none"
    BY DEF ClosedKeepsNothing
  <2>1. w \in States /\ (\A t \in Threads : w.pc[t] = <<>>) /\ w.tasks = {} /\ w.tear = {} /\ DOMAIN w.pc = Threads
    BY QuietMeans DEF States, CallChains
  <2>2. w.slot = {}
    <3>1. CASE Fresh(w)
      BY <3>1 DEF Fresh
    <3>2. CASE Whole(w)
      <4>1. Kept(w) /\ Placed(w)
        BY <3>2 DEF Whole, Sound, Good, Base
      <4>2. \A t \in Threads : DOMAIN w.pc[t] = {}
        BY <2>1
      <4>3. w.slot \subseteq {"proxy"}
        BY <4>1, <4>2 DEF Kept
      <4>4. "proxy" \notin w.slot
        BY <4>1 DEF Placed, InUse
      <4> QED BY <4>3, <4>4
    <3> QED BY <3>1, <3>2 DEF IInv
  <2>3. w.pc["poll"] = <<>> /\ w.pc["pool"] = <<>>
    BY <2>1 DEF Threads
  <2>4. Alive(w) = {}
    <3> DEFINE frames == UNION {Range(w.pc[t]) : t \in DOMAIN w.pc}
    <3>1. frames = {}
      BY <2>1 DEF Range
    <3> HIDE DEF frames
    <3>2. {f[2] : f \in {g \in frames : g[1] \in {"store", "check"}}} = {}
      BY <3>1
    <3> QED BY <2>1, <2>2, <2>3, <3>2 DEF Alive, frames
  <2>5. w.sock = "none" /\ w.poll = "none"
    <3>1. CASE Fresh(w)
      BY <3>1 DEF Fresh
    <3>2. CASE Whole(w)
      <4>1. ~Held(w)
        BY <2>1, <2>2, <2>3 DEF Held
      <4> QED BY <3>2, <4>1 DEF Whole, Sound, Good, Base, Polled
    <3> QED BY <3>1, <3>2 DEF IInv
  <2> QED BY <2>4, <2>5
<1> QED BY <1>1, WebSocketInvariant, PTL

(***************************************************************************)
(* Connecting and closing come to an end: with nothing left to run, a      *)
(* WebSocket is closed, or open on a connected TCP, or was closed by the   *)
(* application during the handshake; and the application heard of open at  *)
(* most once, then of closed exactly once, when it is (scheduleConnection- *)
(* Timeout, WsTransport::close, closeTransports).                          *)
(***************************************************************************)
THEOREM ConnectingAndClosingEnd == Spec => []Settles
<1>1. IInv => Settles
  <2> SUFFICES ASSUME IInv, Quiet PROVE Settles
    BY DEF Settles
  <2>1. /\ w \in States /\ (\A t \in Threads : w.pc[t] = <<>>) /\ w.tasks = {}
        /\ "close" \notin w.timers /\ ("connection" \in w.timers => w.st # "connecting")
    BY QuietMeans
  <2>2. \A r : Reported(r) = At(w, r)
    BY DEF Reported, At
  <2>3. CASE Fresh(w)
    <3>1. \A r : At(w, r) = {}
      BY <2>3 DEF Fresh, At
    <3> QED BY <2>2, <2>3, <3>1 DEF Settles, Fresh
  <2>4. CASE Whole(w)
    <3>1. Told(w) /\ Tied(w) /\ Fit(w) /\ Live(w) /\ w.opened
      BY <2>4 DEF Whole, Sound, Good, Base
    <3>2. w.st \in {"closed", "connecting", "open", "closing"}
      BY <2>1 DEF States, SocketStates
    <3>3. w.st # "connecting"
      BY <2>1, <3>1 DEF Fit
    <3>4. w.st = "closing" => ~w.closeSent
      BY <2>1, <3>1 DEF Tied
    <3>5. w.st = "open" => w.ts["tcp"] = "connected"
      <4>1. ~Ending(w)
        BY <2>1 DEF Ending, Threads
      <4>2. "tcp" \in InUse(w)
        BY DEF InUse
      <4> QED BY <3>1, <4>1, <4>2 DEF Live
    <3>6. /\ \A r \in {"open", "closed"} : \A i, j \in Reported(r) : i = j
          /\ \A i \in Reported("open"), j \in Reported("closed") : i < j
          /\ (w.opened /\ w.st = "closed") <=> Reported("closed") # {}
      BY <2>2, <3>1 DEF Told
    <3> QED BY <3>2, <3>3, <3>4, <3>5, <3>6 DEF Settles
  <2> QED BY <2>3, <2>4 DEF IInv
<1> QED BY <1>1, WebSocketInvariant, PTL
=============================================================================
