--------------------------- MODULE StreamsProofs ----------------------------
(***************************************************************************)
(* The properties of Streams, for any number of channels, messages and     *)
(* streams and any size of the send buffer: the buffered amounts are exact *)
(* (IInv); nobody waits in vain for onBufferedAmountLow (LInv); and what   *)
(* is received, closed, freed and owed is as it should be (NInv), the last *)
(* with applications that leave openDataChannels alone.                    *)
(*                                                                         *)
(* trySendQueue, assignDataChannels and remoteCloseDataChannels are loops; *)
(* what they keep is shown by induction over their rounds.                 *)
(***************************************************************************)
EXTENDS Streams, FiniteSetTheorems, WellFoundedInduction, TLAPS

ChanStates ==
  [kind : {"none", "out", "in"}, stream : Streams \cup {None}, bound : BOOLEAN,
   open : BOOLEAN, closed : BOOLEAN, amount : Nat, threshold : Nat, waits : BOOLEAN,
   got : SUBSET Nat, byApp : BOOLEAN]

\* What SctpTransport sends: messages and resets of a stream, and its end.
Messages ==
  {m \in [type : {"open", "ack", "data", "reset"}, stream : Streams, k : 0 .. MaxChans, n : Nat] :
     m.type = "open" => m.k \in Chans}
Shutdown == Msg("shutdown", None, 0, 0)

PeerStates ==
  [sctp : {"connecting", "up", "connected", "disconnected"},
   chan : [Chans -> ChanStates], reg : [Streams -> 0 .. MaxChans], unassigned : Seq(Chans),
   task : BOOLEAN, todo : SUBSET Chans, sendq : Seq(Messages), stopped : BOOLEAN,
   shut : BOOLEAN, amount : [Streams -> Nat], flush : BOOLEAN,
   wire : Seq(Messages \cup {Shutdown}), over : BOOLEAN]

\* A channel that can be looked up by its stream, or is to be opened, has one.
StreamOK(s) ==
  /\ \A i \in Streams : s.reg[i] # 0 => s.chan[s.reg[i]].stream \in Streams
  /\ \A k \in s.todo : s.chan[k].stream \in Streams

\* The amounts are those of the queue.
Exact(s) ==
  ~s.stopped /\ s.sctp # "disconnected" =>
    \A i \in Streams : s.amount[i] = Sized(s.sendq, i)

OK(s) == s \in PeerStates /\ StreamOK(s) /\ Exact(s)

IInv ==
  /\ peer \in [Peers -> PeerStates] /\ \A p \in Peers : OK(peer[p])
  /\ made \in 0 .. MaxChans /\ sent \in Seq([peer : Peers, k : Chans, lost : BOOLEAN])

-----------------------------------------------------------------------------
(* Induction over the rounds of a loop.                                    *)

\* A set of numbers has a least one.
LEMMA SetMinimum ==
  ASSUME NEW T, T \subseteq Nat, T # {}
  PROVE  \E n \in T : \A k \in T : n <= k
<1> DEFINE R == {ss \in Nat \X Nat : ss[1] < ss[2]}
<1>1. IsWellFoundedOn(R, Nat)
  BY NatLessThanWellFounded, Zenon DEF OpToRel
<1>2. PICK n \in T : \A k \in T : ~ (<<k, n>> \in R)
  <2> HIDE DEF R
  <2> QED BY <1>1, WFMin
<1>3. ASSUME NEW k \in T PROVE n <= k
  <2>1. k \in Nat /\ n \in Nat
    OBVIOUS
  <2>2. k < n => <<k, n>> \in R
    BY <2>1
  <2>3. ~(k < n)
    <3> HIDE DEF R
    <3> QED BY <1>2, <2>2
  <2> QED BY <2>1, <2>3
<1> QED BY <1>3

LEMMA SetInduction ==
  ASSUME NEW S, 0 \in S, \A n \in Nat : n \in S => n + 1 \in S
  PROVE  Nat \subseteq S
<1> DEFINE T == Nat \ S
<1> SUFFICES ASSUME T # {} PROVE FALSE
  OBVIOUS
<1>1. T \subseteq Nat
  OBVIOUS
<1>2. PICK n \in T : \A k \in T : n <= k
  <2> HIDE DEF T
  <2> QED BY <1>1, SetMinimum
<1>3. n # 0 /\ n - 1 \in Nat /\ (n - 1) + 1 = n
  OBVIOUS
<1>4. n - 1 \notin T
  BY <1>2, <1>3
<1> QED BY <1>3, <1>4

\* h is the course of a loop of n rounds from d in which round i takes e to G[i][e].
Course(D, d, n, G, h) ==
  h \in [0 .. n -> D] /\ h = [i \in 0 .. n |-> IF i = 0 THEN d ELSE G[i][h[i - 1]]]

LEMMA Rounds ==
  ASSUME NEW D, NEW d \in D, NEW n \in Nat, NEW G \in [1 .. n -> [D -> D]]
  PROVE  \E h : Course(D, d, n, G, h)
<1> DEFINE Is(h, m) == /\ h \in [0 .. m -> D]
                       /\ h[0] = d /\ \A i \in 1 .. m : h[i] = G[i][h[i - 1]]
           S == {m \in Nat : m <= n => \E h : Is(h, m)}
<1>1. 0 \in S
  <2>1. Is([i \in 0 .. 0 |-> d], 0)
    OBVIOUS
  <2> QED BY <2>1
<1>2. ASSUME NEW m \in Nat, m \in S PROVE m + 1 \in S
  <2> SUFFICES ASSUME m + 1 <= n PROVE \E h : Is(h, m + 1)
    OBVIOUS
  <2>1. PICK h : Is(h, m)
    BY <1>2
  <2> DEFINE g == [i \in 0 .. m + 1 |-> IF i = m + 1 THEN G[m + 1][h[m]] ELSE h[i]]
  <2>2. G[m + 1][h[m]] \in D
    <3>1. h[m] \in D /\ m + 1 \in 1 .. n
      BY <2>1
    <3> QED BY <3>1
  <2>3. g \in [0 .. m + 1 -> D] /\ g[0] = d
    BY <2>1, <2>2
  <2>4. ASSUME NEW i \in 1 .. m + 1 PROVE g[i] = G[i][g[i - 1]]
    <3>1. CASE i = m + 1
      BY <3>1, <2>1
    <3>2. CASE i # m + 1
      <4>1. i \in 1 .. m /\ i - 1 \in 0 .. m /\ i - 1 # m + 1
        BY <3>2
      <4>2. g[i] = h[i] /\ g[i - 1] = h[i - 1]
        BY <4>1, <3>2
      <4> QED BY <2>1, <4>1, <4>2
    <3> QED BY <3>1, <3>2
  <2>5. Is(g, m + 1)
    BY <2>3, <2>4
  <2> QED BY <2>5
<1>3. Nat \subseteq S
  <2> HIDE DEF S
  <2> QED BY <1>1, <1>2, SetInduction
<1>4. PICK h : Is(h, n)
  BY <1>3
<1>5. h = [i \in 0 .. n |-> IF i = 0 THEN d ELSE G[i][h[i - 1]]]
  <2>1. ASSUME NEW i \in 0 .. n PROVE h[i] = IF i = 0 THEN d ELSE G[i][h[i - 1]]
    BY <1>4
  <2> QED BY <2>1, <1>4
<1> QED BY <1>4, <1>5 DEF Course

\* What all rounds keep holds at the end.
LEMMA RoundsKeep ==
  ASSUME NEW D, NEW n \in Nat, NEW h, h[0] \in D,
         \A i \in 1 .. n : h[i - 1] \in D => h[i] \in D
  PROVE  h[n] \in D
<1> DEFINE S == {m \in Nat : m <= n => h[m] \in D}
<1>1. 0 \in S
  OBVIOUS
<1>2. ASSUME NEW m \in Nat, m \in S PROVE m + 1 \in S
  <2> SUFFICES ASSUME m + 1 <= n PROVE h[m + 1] \in D
    OBVIOUS
  <2>1. h[m] \in D /\ m + 1 \in 1 .. n /\ (m + 1) - 1 = m
    BY <1>2
  <2> QED BY <2>1
<1>3. Nat \subseteq S
  <2> HIDE DEF S
  <2> QED BY <1>1, <1>2, SetInduction
<1> QED BY <1>3

-----------------------------------------------------------------------------
(* What is in the queue for a stream.                                      *)

Counted(m, i) == IF m.stream = i /\ Size(m) = 1 THEN 1 ELSE 0

LEMMA SizedType ==
  ASSUME NEW q \in Seq(Messages), NEW i
  PROVE  /\ IsFiniteSet({j \in DOMAIN q : q[j].stream = i /\ Size(q[j]) = 1})
         /\ Sized(q, i) \in Nat
<1>1. IsFiniteSet(1 .. Len(q)) /\ DOMAIN q = 1 .. Len(q)
  BY FS_Interval
<1>2. IsFiniteSet({j \in DOMAIN q : q[j].stream = i /\ Size(q[j]) = 1})
  BY <1>1, FS_Subset
<1> QED BY <1>2, FS_CardinalityType DEF Sized

LEMMA SizedEmpty ==
  ASSUME NEW i
  PROVE  Sized(<<>>, i) = 0
<1>1. {j \in DOMAIN <<>> : <<>>[j].stream = i /\ Size(<<>>[j]) = 1} = {}
  OBVIOUS
<1> QED BY <1>1, FS_EmptySet DEF Sized

LEMMA SizedAppend ==
  ASSUME NEW q \in Seq(Messages), NEW m \in Messages, NEW i
  PROVE  Sized(Append(q, m), i) = Sized(q, i) + Counted(m, i)
<1> DEFINE Has(e) == e.stream = i /\ Size(e) = 1
           S == {j \in DOMAIN q : Has(q[j])}
           n == Append(q, m)
           T == {j \in DOMAIN n : Has(n[j])}
<1>1. /\ DOMAIN n = 1 .. Len(q) + 1 /\ n[Len(q) + 1] = m /\ Len(q) \in Nat
      /\ DOMAIN q = 1 .. Len(q) /\ \A j \in 1 .. Len(q) : n[j] = q[j]
  OBVIOUS
<1>2. IsFiniteSet(S) /\ Cardinality(S) \in Nat
  BY SizedType DEF Sized
<1>3. Len(q) + 1 \notin S
  BY <1>1
<1>4. Sized(q, i) = Cardinality(S) /\ Sized(n, i) = Cardinality(T)
  BY DEF Sized
<1>5. Counted(m, i) = IF Has(m) THEN 1 ELSE 0
  BY DEF Counted
<1> HIDE DEF n, Has
<1>6. CASE Has(m)
  <2>1. T = S \cup {Len(q) + 1}
    BY <1>1, <1>6
  <2> HIDE DEF S, T
  <2>2. Cardinality(T) = Cardinality(S) + 1
    BY <1>2, <1>3, <2>1, FS_AddElement
  <2> QED BY <1>4, <1>5, <1>6, <2>2 DEF n
<1>7. CASE ~Has(m)
  <2>1. T = S
    BY <1>1, <1>7
  <2> HIDE DEF S, T
  <2> QED BY <1>2, <1>4, <1>5, <1>7, <2>1 DEF n
<1> QED BY <1>6, <1>7

LEMMA SizedTail ==
  ASSUME NEW q \in Seq(Messages), q # <<>>, NEW i
  PROVE  Sized(q, i) = Sized(Tail(q), i) + Counted(Head(q), i)
<1> DEFINE Has(e) == e.stream = i /\ Size(e) = 1
           tl == Tail(q)
           S == {j \in DOMAIN tl : Has(tl[j])}
           U == {j \in 2 .. Len(q) : Has(q[j])}
           T == {j \in DOMAIN q : Has(q[j])}
           f == [j \in S |-> j + 1]
<1>1. /\ tl \in Seq(Messages) /\ Len(q) \in Nat /\ Len(q) >= 1 /\ Head(q) = q[1]
      /\ DOMAIN tl = 1 .. Len(q) - 1 /\ DOMAIN q = 1 .. Len(q)
      /\ \A j \in 1 .. Len(q) - 1 : tl[j] = q[j + 1]
  OBVIOUS
<1>2. IsFiniteSet(S) /\ Cardinality(S) \in Nat
  BY <1>1, SizedType DEF Sized
<1>3. Sized(q, i) = Cardinality(T) /\ Sized(Tail(q), i) = Cardinality(S)
  BY DEF Sized
<1>4. Counted(Head(q), i) = IF Has(Head(q)) THEN 1 ELSE 0
  BY DEF Counted
<1> HIDE DEF tl, Has
<1>5. f \in Bijection(S, U)
  <2>1. f \in [S -> U]
    BY <1>1
  <2>2. \A j, k \in S : f[j] = f[k] => j = k
    BY <1>1
  <2>3. \A k \in U : \E j \in S : f[j] = k
    <3> SUFFICES ASSUME NEW k \in U PROVE \E j \in S : f[j] = k
      OBVIOUS
    <3>1. k - 1 \in 1 .. Len(q) - 1 /\ (k - 1) + 1 = k
      BY <1>1
    <3>2. k - 1 \in S
      BY <1>1, <3>1
    <3> QED BY <3>1, <3>2
  <2> QED BY <2>1, <2>2, <2>3 DEF Bijection, Injection, Surjection, IsInjective
<1>6. IsFiniteSet(U) /\ Cardinality(U) = Cardinality(S)
  BY <1>2, <1>5, FS_Bijection DEF ExistsBijection
<1>7. 1 \notin U
  OBVIOUS
<1>8. CASE Has(Head(q))
  <2>1. T = U \cup {1}
    BY <1>1, <1>8
  <2> HIDE DEF S, T, U
  <2>2. Cardinality(T) = Cardinality(U) + 1
    BY <1>6, <1>7, <2>1, FS_AddElement
  <2> QED BY <1>3, <1>4, <1>6, <1>8, <2>2
<1>9. CASE ~Has(Head(q))
  <2>1. T = U
    BY <1>1, <1>9
  <2> HIDE DEF S, T, U
  <2> QED BY <1>2, <1>3, <1>4, <1>6, <1>9, <2>1
<1> QED BY <1>8, <1>9

-----------------------------------------------------------------------------
(* Steps of one peer: from s to r.                                         *)

\* The streams of the channels, the state of the association and what
\* openDataChannels has to do are as before.
Keeps(s, r) ==
  /\ r \in PeerStates
  /\ r.sctp = s.sctp /\ r.stopped = s.stopped /\ r.unassigned = s.unassigned
  /\ r.reg = s.reg /\ r.todo = s.todo
  /\ \A k \in Chans : r.chan[k].stream = s.chan[k].stream

\* A step that keeps the account.
Good(s, r) == Keeps(s, r) /\ (Exact(s) => Exact(r))

LEMMA GoodOK ==
  ASSUME NEW s, NEW r, OK(s), Good(s, r)
  PROVE  OK(r)
<1>1. StreamOK(r)
  <2>1. \A i \in Streams : s.reg[i] # 0 => s.reg[i] \in Chans
    BY DEF OK, PeerStates, Chans
  <2>2. \A k \in s.todo : k \in Chans
    BY DEF OK, PeerStates
  <2> QED BY <2>1, <2>2 DEF OK, Good, Keeps, StreamOK
<1> QED BY <1>1 DEF OK, Good, Keeps

LEMMA GoodTrans ==
  ASSUME NEW s, NEW t, NEW r, Good(s, t), Good(t, r)
  PROVE  Good(s, r)
BY DEF Good, Keeps

LEMMA GoodSelf ==
  ASSUME NEW s \in PeerStates
  PROVE  Good(s, s)
BY DEF Good, Keeps

\* The queue and the amounts are as before.
LEMMA SameQueue ==
  ASSUME NEW s, NEW r, Keeps(s, r), r.sendq = s.sendq, r.amount = s.amount
  PROVE  Good(s, r)
BY DEF Good, Keeps, Exact

LEMMA ChanTriggered ==
  ASSUME NEW c \in ChanStates, NEW n \in Nat
  PROVE  Triggered(c, n) \in ChanStates /\ Triggered(c, n).stream = c.stream
<1> DEFINE w == c.waits /\ ~(c.amount > c.threshold /\ n <= c.threshold)
           d == [c EXCEPT !.amount = n, !.waits = w]
<1>1. w \in BOOLEAN
  OBVIOUS
<1>2. Triggered(c, n) = d
  BY Zenon DEF Triggered
<1> HIDE DEF w
<1>3. d \in ChanStates /\ d.stream = c.stream
  BY <1>1 DEF ChanStates
<1> QED BY <1>2, <1>3

\* One channel of s becomes c.
With(s, k, c) == [s EXCEPT !.chan[k] = c]

LEMMA ChanUpdated ==
  ASSUME NEW s \in PeerStates, NEW k \in Chans, NEW c \in ChanStates
  PROVE  LET r == With(s, k, c) IN
         /\ r \in PeerStates /\ r.chan = [s.chan EXCEPT ![k] = c]
         /\ r.sctp = s.sctp /\ r.reg = s.reg /\ r.unassigned = s.unassigned
         /\ r.todo = s.todo /\ r.sendq = s.sendq /\ r.stopped = s.stopped
         /\ r.amount = s.amount /\ r.wire = s.wire /\ r.over = s.over
         /\ r.shut = s.shut /\ r.flush = s.flush /\ r.task = s.task
<1> DEFINE ch == [s.chan EXCEPT ![k] = c]
           r == [s EXCEPT !.chan = ch]
<1>1. ch \in [Chans -> ChanStates]
  BY DEF PeerStates
<1>2. With(s, k, c) = r
  BY DEF PeerStates, With
<1> HIDE DEF ch
<1>3. /\ r \in PeerStates /\ r.chan = ch
      /\ r.sctp = s.sctp /\ r.reg = s.reg /\ r.unassigned = s.unassigned
      /\ r.todo = s.todo /\ r.sendq = s.sendq /\ r.stopped = s.stopped
      /\ r.amount = s.amount /\ r.wire = s.wire /\ r.over = s.over
      /\ r.shut = s.shut /\ r.flush = s.flush /\ r.task = s.task
  BY <1>1 DEF PeerStates
<1> HIDE DEF r
<1> QED BY <1>2, <1>3 DEF ch

\* It keeps its stream.
LEMMA ChanKept ==
  ASSUME NEW s \in PeerStates, NEW k \in Chans, NEW c \in ChanStates,
         c.stream = s.chan[k].stream
  PROVE  Good(s, With(s, k, c))
<1> DEFINE r == With(s, k, c)
<1>1. /\ r \in PeerStates /\ r.chan = [s.chan EXCEPT ![k] = c]
      /\ r.sctp = s.sctp /\ r.reg = s.reg /\ r.unassigned = s.unassigned
      /\ r.todo = s.todo /\ r.sendq = s.sendq /\ r.stopped = s.stopped
      /\ r.amount = s.amount
  BY ChanUpdated
<1> HIDE DEF r
<1>2. s.chan \in [Chans -> ChanStates]
  BY DEF PeerStates
<1>3. \A j \in Chans : r.chan[j].stream = s.chan[j].stream
  BY <1>1, <1>2
<1>4. Keeps(s, r)
  BY <1>1, <1>3 DEF Keeps
<1>5. Good(s, r)
  BY <1>1, <1>4, SameQueue
<1> QED BY <1>5 DEF r

LEMMA Forwarded ==
  ASSUME NEW s \in PeerStates, NEW i \in Streams, NEW n \in Nat
  PROVE  LET r == ForwardBufferedAmount(s, i, n) IN
         /\ Good(s, r) /\ r.sendq = s.sendq /\ r.amount = s.amount /\ r.wire = s.wire
<1> DEFINE k == s.reg[i]
<1>1. CASE k = 0
  BY <1>1, GoodSelf DEF ForwardBufferedAmount
<1>2. CASE k # 0
  <2>1. k \in Chans /\ s.chan[k] \in ChanStates
    BY <1>2, ConstantsAssumption DEF PeerStates, Chans
  <2> DEFINE c == Triggered(s.chan[k], n)
             r == ForwardBufferedAmount(s, i, n)
  <2>2. c \in ChanStates /\ c.stream = s.chan[k].stream
    BY <2>1, ChanTriggered
  <2>3. r = With(s, k, c)
    BY <1>2, Zenon DEF ForwardBufferedAmount, With
  <2> HIDE DEF c, k, r
  <2>4. /\ Good(s, r) /\ r.sendq = s.sendq /\ r.amount = s.amount /\ r.wire = s.wire
    BY <2>1, <2>2, <2>3, ChanKept, ChanUpdated
  <2> QED BY <2>4 DEF r
<1> QED BY <1>1, <1>2

-----------------------------------------------------------------------------
(* SctpTransport.                                                          *)

Lowered(n, d) == IF n + d > 0 THEN n + d ELSE 0

LEMMA AmountUpdated ==
  ASSUME NEW s \in PeerStates, NEW i \in Streams, NEW d \in {-1, 0, 1}
  PROVE  LET r == UpdateBufferedAmount(s, i, d) IN
         /\ Keeps(s, r) /\ r.sendq = s.sendq /\ r.wire = s.wire
         /\ \A h \in Streams : r.amount[h] = IF h = i THEN Lowered(s.amount[h], d) ELSE s.amount[h]
<1>1. s.amount \in [Streams -> Nat]
  BY DEF PeerStates
<1>2. CASE d = 0
  <2>1. UpdateBufferedAmount(s, i, d) = s
    BY <1>2, Zenon DEF UpdateBufferedAmount
  <2>2. \A h \in Streams : s.amount[h] = IF h = i THEN Lowered(s.amount[h], d) ELSE s.amount[h]
    BY <1>1, <1>2 DEF Lowered
  <2> QED BY <2>1, <2>2, GoodSelf DEF Good
<1>3. CASE d # 0
  <2> DEFINE n == Lowered(s.amount[i], d)
             am == [s.amount EXCEPT ![i] = n]
             t == [s EXCEPT !.amount = am]
             r == ForwardBufferedAmount(t, i, n)
  <2>1. n \in Nat
    BY <1>1, <1>3 DEF Lowered
  <2>2. UpdateBufferedAmount(s, i, d) = ForwardBufferedAmount([s EXCEPT !.amount[i] = n], i, n)
    BY <1>3, Zenon DEF UpdateBufferedAmount, Lowered
  <2>3. [s EXCEPT !.amount[i] = n] = t
    BY DEF PeerStates
  <2>4. UpdateBufferedAmount(s, i, d) = r
    BY <2>2, <2>3, Zenon
  <2> HIDE DEF n
  <2>5. /\ am \in [Streams -> Nat]
        /\ \A h \in Streams : am[h] = IF h = i THEN n ELSE s.amount[h]
    BY <1>1, <2>1
  <2> HIDE DEF am
  <2>6. /\ t \in PeerStates /\ t.amount = am /\ t.sendq = s.sendq /\ t.wire = s.wire
        /\ Keeps(s, t)
    BY <2>5 DEF PeerStates, Keeps
  <2> HIDE DEF t
  <2>7. Good(t, r) /\ r.sendq = t.sendq /\ r.amount = t.amount /\ r.wire = t.wire
    BY <2>1, <2>6, Forwarded
  <2> HIDE DEF r
  <2>8. Keeps(s, r)
    BY <2>6, <2>7 DEF Good, Keeps
  <2>9. \A h \in Streams : r.amount[h] = IF h = i THEN Lowered(s.amount[h], d) ELSE s.amount[h]
    BY <2>5, <2>6, <2>7 DEF n
  <2>10. r.sendq = s.sendq /\ r.wire = s.wire
    BY <2>6, <2>7
  <2> QED BY <2>4, <2>8, <2>9, <2>10
<1> QED BY <1>2, <1>3

LEMMA SizeType ==
  ASSUME NEW m \in Messages
  PROVE  /\ Size(m) \in {0, 1} /\ 0 - Size(m) \in {-1, 0, 1} /\ m.stream \in Streams
         /\ \A i : Counted(m, i) = IF m.stream = i THEN Size(m) ELSE 0
<1>1. Size(m) \in {0, 1} /\ 0 - Size(m) \in {-1, 0, 1}
  <2>1. Size(m) = 0 \/ Size(m) = 1
    BY DEF Size
  <2> QED BY <2>1
<1>2. m.stream \in Streams
  BY DEF Messages
<1>3. ASSUME NEW i PROVE Counted(m, i) = IF m.stream = i THEN Size(m) ELSE 0
  BY <1>1 DEF Counted
<1> QED BY <1>1, <1>2, <1>3

LEMMA FirstSent ==
  ASSUME NEW s \in PeerStates, s.sendq # <<>>
  PROVE  Good(s, SendFirst(s))
<1> DEFINE m == Head(s.sendq)
           tl == Tail(s.sendq)
           w == Append(s.wire, m)
           t == [s EXCEPT !.sendq = tl, !.wire = w]
           d == 0 - Size(m)
           r == UpdateBufferedAmount(t, m.stream, d)
<1>1. /\ s.sendq \in Seq(Messages) /\ s.wire \in Seq(Messages \cup {Shutdown})
      /\ s.amount \in [Streams -> Nat]
  BY DEF PeerStates
<1>2. m \in Messages /\ tl \in Seq(Messages) /\ w \in Seq(Messages \cup {Shutdown})
  BY <1>1
<1>3. SendFirst(s) = r
  BY Zenon DEF SendFirst
<1>4. \A h \in Streams : Sized(s.sendq, h) = Sized(tl, h) + Counted(m, h)
  BY <1>1, SizedTail
<1>5. \A h \in Streams : Sized(tl, h) \in Nat
  BY <1>2, SizedType
<1> HIDE DEF m, tl, w
<1>6. /\ t \in PeerStates /\ Keeps(s, t) /\ t.sendq = tl /\ t.amount = s.amount
  BY <1>2 DEF PeerStates, Keeps
<1> HIDE DEF t
<1>7. d \in {-1, 0, 1} /\ m.stream \in Streams
  BY <1>2, SizeType
<1>8. /\ Keeps(t, r) /\ r.sendq = t.sendq
      /\ \A h \in Streams :
           r.amount[h] = IF h = m.stream THEN Lowered(t.amount[h], d) ELSE t.amount[h]
  BY <1>6, <1>7, AmountUpdated
<1> HIDE DEF r
<1>9. Keeps(s, r)
  BY <1>6, <1>8 DEF Keeps
<1>10. ASSUME Exact(s) PROVE Exact(r)
  <2> SUFFICES ASSUME ~s.stopped, s.sctp # "disconnected", NEW h \in Streams
               PROVE  r.amount[h] = Sized(tl, h)
    BY <1>6, <1>8, <1>9 DEF Exact, Keeps
  <2>1. s.amount[h] = Sized(tl, h) + Counted(m, h)
    BY <1>4, <1>10 DEF Exact
  <2>2. Counted(m, h) = (IF m.stream = h THEN Size(m) ELSE 0) /\ Size(m) \in {0, 1}
    BY <1>2, SizeType
  <2>3. r.amount[h] = IF h = m.stream THEN Lowered(s.amount[h], 0 - Size(m)) ELSE s.amount[h]
    BY <1>6, <1>8
  <2> QED BY <2>1, <2>2, <2>3, <1>5 DEF Lowered
<1> QED BY <1>3, <1>9, <1>10 DEF Good

LEMMA NextSent ==
  ASSUME NEW s \in PeerStates
  PROVE  Good(s, SendNext(s))
BY FirstSent, GoodSelf DEF SendNext

\* trySendQueue ends with the shutdown, or without.
Over(s) == s.sendq = <<>> /\ s.stopped /\ ~s.shut /\ s.sctp \in {"up", "connected"}
ShutDown(s) == [s EXCEPT !.shut = TRUE, !.wire = Append(@, Shutdown)]

\* The rounds of trySendQueue.
LEMMA QueueRounds ==
  ASSUME NEW s \in PeerStates
  PROVE  \E f : /\ f[0] = s /\ \A i \in 1 .. Len(s.sendq) : f[i] = SendNext(f[i - 1])
                /\ TrySendQueue(s) = IF Over(f[Len(s.sendq)]) THEN ShutDown(f[Len(s.sendq)])
                                     ELSE f[Len(s.sendq)]
<1> DEFINE n == Len(s.sendq)
           f == CHOOSE f : f = [i \in 0 .. n |-> IF i = 0 THEN s ELSE SendNext(f[i - 1])]
           t == f[n]
           D == PeerStates
           G == [i \in 1 .. n |-> [r \in D |-> SendNext(r)]]
<1>1. n \in Nat
  BY DEF PeerStates
<1>2. s \in D
  OBVIOUS
<1>3. ASSUME NEW r \in D PROVE SendNext(r) \in D
  BY NextSent DEF Good, Keeps
<1>4. TrySendQueue(s) = IF Over(t) THEN ShutDown(t) ELSE t
  BY Zenon DEF TrySendQueue, Shutdown, Over, ShutDown
<1> HIDE DEF n, D
<1>5. G \in [1 .. n -> [D -> D]]
  BY <1>3
<1>6. \E h : Course(D, s, n, G, h)
  <2> HIDE DEF G
  <2> QED BY <1>1, <1>2, <1>5, Rounds, Zenon
<1>7. \E h : h = [i \in 0 .. n |-> IF i = 0 THEN s ELSE SendNext(h[i - 1])]
  <2>1. PICK h \in [0 .. n -> D] : h = [i \in 0 .. n |-> IF i = 0 THEN s ELSE G[i][h[i - 1]]]
    BY <1>6 DEF Course
  <2>2. ASSUME NEW i \in 0 .. n, i # 0 PROVE G[i][h[i - 1]] = SendNext(h[i - 1])
    <3>1. i \in 1 .. n /\ i - 1 \in 0 .. n
      BY <1>1, <2>2
    <3>2. h[i - 1] \in D
      BY <3>1
    <3> QED BY <3>1, <3>2
  <2>3. h = [i \in 0 .. n |-> IF i = 0 THEN s ELSE SendNext(h[i - 1])]
    <3> HIDE DEF G
    <3> QED BY <2>1, <2>2
  <2> QED BY <2>3
<1>8. f = [i \in 0 .. n |-> IF i = 0 THEN s ELSE SendNext(f[i - 1])]
  BY <1>7, Zenon
<1> HIDE DEF f
<1>9. f[0] = s /\ \A i \in 1 .. n : f[i] = SendNext(f[i - 1])
  BY <1>1, <1>8
<1> QED BY <1>4, <1>9 DEF n

LEMMA QueueEnded ==
  ASSUME NEW s \in PeerStates
  PROVE  /\ Good(s, ShutDown(s)) /\ ShutDown(s).shut /\ ShutDown(s).chan = s.chan
         /\ ShutDown(s).sendq = s.sendq /\ ShutDown(s).wire = Append(s.wire, Shutdown)
         /\ ShutDown(s).amount = s.amount
<1> DEFINE w == Append(s.wire, Shutdown)
           u == [s EXCEPT !.shut = TRUE, !.wire = w]
<1>1. w \in Seq(Messages \cup {Shutdown})
  BY DEF PeerStates
<1>2. ShutDown(s) = u
  BY Zenon DEF ShutDown
<1> HIDE DEF w
<1>3. /\ Keeps(s, u) /\ u.sendq = s.sendq /\ u.amount = s.amount /\ u.shut /\ u.wire = w
      /\ u.chan = s.chan
  BY <1>1 DEF PeerStates, Keeps
<1> HIDE DEF u
<1>4. Good(s, u)
  BY <1>3, SameQueue
<1> QED BY <1>2, <1>3, <1>4 DEF w

\* trySendQueue: by induction over the messages it sends.
LEMMA QueueSent ==
  ASSUME NEW s \in PeerStates
  PROVE  Good(s, TrySendQueue(s))
<1> DEFINE n == Len(s.sendq)
           D == {r \in PeerStates : Good(s, r)}
<1>1. n \in Nat
  BY DEF PeerStates
<1>2. s \in D
  BY GoodSelf
<1>3. ASSUME NEW r \in D PROVE SendNext(r) \in D
  BY NextSent, GoodTrans DEF Good, Keeps
<1>4. PICK f : /\ f[0] = s /\ \A i \in 1 .. n : f[i] = SendNext(f[i - 1])
               /\ TrySendQueue(s) = IF Over(f[n]) THEN ShutDown(f[n]) ELSE f[n]
  BY QueueRounds, Zenon
<1> HIDE DEF n
<1>5. f[n] \in D
  <2>1. \A i \in 1 .. n : f[i - 1] \in D => f[i] \in D
    BY <1>3, <1>4
  <2> HIDE DEF D
  <2> QED BY <1>1, <1>2, <1>4, <2>1, RoundsKeep
<1>6. Good(s, f[n]) /\ Good(s, ShutDown(f[n]))
  BY <1>5, QueueEnded, GoodTrans
<1> QED BY <1>4, <1>6

\* Queue::push with the amount that goes with it.
LEMMA Queued ==
  ASSUME NEW s \in PeerStates, NEW m \in Messages
  PROVE  Good(s, UpdateBufferedAmount(Push(s, m), m.stream, Size(m)))
<1> DEFINE t == Push(s, m)
           r == UpdateBufferedAmount(t, m.stream, Size(m))
           q == Append(s.sendq, m)
<1>1. s.sendq \in Seq(Messages) /\ s.amount \in [Streams -> Nat] /\ q \in Seq(Messages)
  BY DEF PeerStates
<1>2. \A h \in Streams : Sized(q, h) = Sized(s.sendq, h) + Counted(m, h)
  BY <1>1, SizedAppend
<1>3. \A h \in Streams : Sized(s.sendq, h) \in Nat
  BY <1>1, SizedType
<1>4. Size(m) \in {0, 1} /\ Size(m) \in {-1, 0, 1} /\ m.stream \in Streams
  BY SizeType
<1>5. t \in PeerStates /\ Keeps(s, t) /\ t.amount = s.amount /\ (~s.stopped => t.sendq = q)
  <2>1. t = IF s.stopped THEN s ELSE [s EXCEPT !.sendq = q]
    BY Zenon DEF Push
  <2> HIDE DEF t, q
  <2>2. CASE s.stopped
    BY <2>1, <2>2, GoodSelf DEF Good
  <2>3. CASE ~s.stopped
    BY <1>1, <2>1, <2>3 DEF PeerStates, Keeps
  <2> QED BY <2>2, <2>3
<1> HIDE DEF t, q
<1>6. /\ Keeps(t, r) /\ r.sendq = t.sendq
      /\ \A h \in Streams :
           r.amount[h] = IF h = m.stream THEN Lowered(t.amount[h], Size(m)) ELSE t.amount[h]
  BY <1>4, <1>5, AmountUpdated
<1> HIDE DEF r
<1>7. Keeps(s, r)
  BY <1>5, <1>6 DEF Keeps
<1>8. ASSUME Exact(s) PROVE Exact(r)
  <2> SUFFICES ASSUME ~s.stopped, s.sctp # "disconnected", NEW h \in Streams
               PROVE  r.amount[h] = Sized(q, h)
    BY <1>5, <1>6, <1>7 DEF Exact, Keeps
  <2>1. s.amount[h] = Sized(s.sendq, h)
    BY <1>8 DEF Exact
  <2>2. Counted(m, h) = IF m.stream = h THEN Size(m) ELSE 0
    BY SizeType
  <2>3. r.amount[h] = IF h = m.stream THEN Lowered(s.amount[h], Size(m)) ELSE s.amount[h]
    BY <1>5, <1>6
  <2>4. Sized(q, h) = Sized(s.sendq, h) + Counted(m, h) /\ Sized(s.sendq, h) \in Nat
    BY <1>2, <1>3
  <2> QED BY <2>1, <2>2, <2>3, <2>4, <1>4 DEF Lowered
<1> QED BY <1>7, <1>8 DEF Good, r, t

\* A message that usrsctp takes.
LEMMA Wired ==
  ASSUME NEW s \in PeerStates, NEW m \in Messages
  PROVE  Good(s, [s EXCEPT !.wire = Append(@, m)])
<1> DEFINE w == Append(s.wire, m)
           r == [s EXCEPT !.wire = w]
<1>1. w \in Seq(Messages \cup {Shutdown})
  BY DEF PeerStates
<1>2. [s EXCEPT !.wire = Append(@, m)] = r
  BY Zenon
<1> HIDE DEF w
<1>3. Keeps(s, r) /\ r.sendq = s.sendq /\ r.amount = s.amount
  BY <1>1 DEF PeerStates, Keeps
<1> HIDE DEF r
<1>4. Good(s, r)
  BY <1>3, SameQueue
<1> QED BY <1>2, <1>4

LEMMA Sent ==
  ASSUME NEW s \in PeerStates, NEW m \in Messages
  PROVE  Good(s, Send(s, m))
<1> DEFINE t == TrySendQueue(s)
           u == [t EXCEPT !.wire = Append(@, m)]
           v == UpdateBufferedAmount(Push(t, m), m.stream, Size(m))
<1>1. Send(s, m) = IF s.sctp \notin {"up", "connected"} THEN s
                   ELSE IF t.shut THEN t
                   ELSE IF t.sendq = <<>> /\ TrySendMessage(t, m) THEN u ELSE v
  BY Zenon DEF Send
<1>2. Good(s, t) /\ t \in PeerStates
  BY QueueSent DEF Good, Keeps
<1> HIDE DEF t
<1>3. Good(t, u) /\ Good(t, v)
  BY <1>2, Wired, Queued
<1> HIDE DEF u, v
<1>4. Good(s, s) /\ Good(s, u) /\ Good(s, v)
  BY <1>2, <1>3, GoodTrans, GoodSelf
<1> QED BY <1>1, <1>2, <1>4

LEMMA FlushEnqueued ==
  ASSUME NEW s \in PeerStates
  PROVE  Good(s, EnqueueFlush(s))
<1> DEFINE b == s.sendq # <<>> \/ (s.stopped /\ ~s.shut)
           r == [s EXCEPT !.flush = b]
<1>1. b \in BOOLEAN
  OBVIOUS
<1>2. EnqueueFlush(s) = r
  BY Zenon DEF EnqueueFlush
<1> HIDE DEF b
<1>3. Keeps(s, r) /\ r.sendq = s.sendq /\ r.amount = s.amount
  BY <1>1 DEF PeerStates, Keeps
<1> HIDE DEF r
<1> QED BY <1>2, <1>3, SameQueue

LEMMA StreamClosed ==
  ASSUME NEW s \in PeerStates, NEW i \in Streams
  PROVE  Good(s, CloseStream(s, i))
<1> DEFINE m == Msg("reset", i, 0, 0)
           t == Push(s, m)
<1>1. m \in Messages /\ Size(m) = 0 /\ m.stream = i
  BY ConstantsAssumption DEF Msg, Messages, Size
<1>2. UpdateBufferedAmount(t, m.stream, Size(m)) = t
  BY <1>1, Zenon DEF UpdateBufferedAmount
<1>3. CloseStream(s, i) = EnqueueFlush(t)
  BY Zenon DEF CloseStream
<1> HIDE DEF m
<1>4. Good(s, t) /\ t \in PeerStates
  BY <1>1, <1>2, Queued DEF Good, Keeps
<1> HIDE DEF t
<1>5. Good(t, EnqueueFlush(t))
  BY <1>4, FlushEnqueued
<1> QED BY <1>3, <1>4, <1>5, GoodTrans

-----------------------------------------------------------------------------
(* Channels.                                                               *)

\* Flags of a channel.
LEMMA ChanFlags ==
  ASSUME NEW c \in ChanStates, NEW b \in BOOLEAN
  PROVE  /\ [c EXCEPT !.closed = b] \in ChanStates /\ [c EXCEPT !.closed = b].stream = c.stream
         /\ [c EXCEPT !.open = b] \in ChanStates /\ [c EXCEPT !.open = b].stream = c.stream
         /\ [c EXCEPT !.bound = b] \in ChanStates /\ [c EXCEPT !.bound = b].stream = c.stream
         /\ [c EXCEPT !.byApp = b] \in ChanStates /\ [c EXCEPT !.byApp = b].stream = c.stream
BY DEF ChanStates

LEMMA FlagSet ==
  ASSUME NEW s \in PeerStates, NEW k \in Chans
  PROVE  /\ Good(s, [s EXCEPT !.chan[k].closed = TRUE])
         /\ Good(s, [s EXCEPT !.chan[k].open = TRUE])
         /\ Good(s, [s EXCEPT !.chan[k].bound = TRUE])
         /\ Good(s, [s EXCEPT !.chan[k].byApp = TRUE])
<1> DEFINE c == s.chan[k]
           c1 == [c EXCEPT !.closed = TRUE]
           c2 == [c EXCEPT !.open = TRUE]
           c3 == [c EXCEPT !.bound = TRUE]
           c4 == [c EXCEPT !.byApp = TRUE]
<1>1. c \in ChanStates
  BY DEF PeerStates
<1>2. /\ [s EXCEPT !.chan[k].closed = TRUE] = With(s, k, c1)
      /\ [s EXCEPT !.chan[k].open = TRUE] = With(s, k, c2)
      /\ [s EXCEPT !.chan[k].bound = TRUE] = With(s, k, c3)
      /\ [s EXCEPT !.chan[k].byApp = TRUE] = With(s, k, c4)
  BY Zenon DEF With
<1>3. /\ c1 \in ChanStates /\ c1.stream = c.stream /\ c2 \in ChanStates /\ c2.stream = c.stream
      /\ c3 \in ChanStates /\ c3.stream = c.stream /\ c4 \in ChanStates /\ c4.stream = c.stream
  BY <1>1, ChanFlags
<1> HIDE DEF c1, c2, c3, c4
<1>4. Good(s, With(s, k, c1)) /\ Good(s, With(s, k, c2)) /\ Good(s, With(s, k, c3)) /\ Good(s, With(s, k, c4))
  BY <1>3, ChanKept
<1> QED BY <1>2, <1>4

LEMMA ChanClosed ==
  ASSUME NEW s \in PeerStates, NEW k \in Chans
  PROVE  Good(s, Close(s, k))
<1> DEFINE c == s.chan[k]
           t == [s EXCEPT !.chan[k].closed = TRUE]
<1>1. Close(s, k) = IF c.closed THEN s
                    ELSE IF c.bound /\ c.stream # None THEN CloseStream(t, c.stream) ELSE t
  BY Zenon DEF Close
<1>2. Good(s, t) /\ t \in PeerStates
  BY FlagSet DEF Good, Keeps
<1>3. c.stream # None => c.stream \in Streams
  BY DEF PeerStates, ChanStates
<1> HIDE DEF t, c
<1>4. c.stream # None => Good(s, CloseStream(t, c.stream))
  BY <1>2, <1>3, StreamClosed, GoodTrans
<1> QED BY <1>1, <1>2, <1>4, GoodSelf

\* The rounds of remoteCloseDataChannels.
LEMMA CloseRounds ==
  ASSUME NEW s \in PeerStates, NEW ks
  PROVE  \E f : /\ f[0] = s /\ \A k \in Chans : f[k] = CloseIn(ks, f[k - 1], k)
                /\ CloseAll(s, ks) = f[MaxChans]
<1> DEFINE n == MaxChans
           f == CHOOSE f : f = [k \in 0 .. n |-> IF k = 0 THEN s ELSE CloseIn(ks, f[k - 1], k)]
           D == PeerStates
           G == [k \in 1 .. n |-> [r \in D |-> CloseIn(ks, r, k)]]
<1>1. n \in Nat /\ Chans = 1 .. n
  BY ConstantsAssumption DEF Chans
<1>2. s \in D
  OBVIOUS
<1>3. ASSUME NEW r \in D, NEW k \in 1 .. n PROVE CloseIn(ks, r, k) \in D
  <2>1. Good(r, Close(r, k))
    BY <1>1, ChanClosed
  <2>2. Close(r, k) \in PeerStates
    BY <2>1 DEF Good, Keeps
  <2> QED BY <2>2 DEF CloseIn
<1>4. CloseAll(s, ks) = f[n]
  BY Zenon DEF CloseAll
<1> HIDE DEF n, D
<1>5. G \in [1 .. n -> [D -> D]]
  BY <1>3
<1>6. \E h : Course(D, s, n, G, h)
  <2> HIDE DEF G
  <2> QED BY <1>1, <1>2, <1>5, Rounds, Zenon
<1>7. \E h : h = [k \in 0 .. n |-> IF k = 0 THEN s ELSE CloseIn(ks, h[k - 1], k)]
  <2>1. PICK h \in [0 .. n -> D] : h = [k \in 0 .. n |-> IF k = 0 THEN s ELSE G[k][h[k - 1]]]
    BY <1>6 DEF Course
  <2>2. ASSUME NEW k \in 0 .. n, k # 0 PROVE G[k][h[k - 1]] = CloseIn(ks, h[k - 1], k)
    <3>1. k \in 1 .. n /\ k - 1 \in 0 .. n
      BY <1>1, <2>2
    <3>2. h[k - 1] \in D
      BY <3>1
    <3> QED BY <3>1, <3>2
  <2>3. h = [k \in 0 .. n |-> IF k = 0 THEN s ELSE CloseIn(ks, h[k - 1], k)]
    <3> HIDE DEF G
    <3> QED BY <2>1, <2>2
  <2> QED BY <2>3
<1>8. f = [k \in 0 .. n |-> IF k = 0 THEN s ELSE CloseIn(ks, f[k - 1], k)]
  BY <1>7, Zenon
<1> HIDE DEF f
<1>9. f[0] = s /\ \A k \in 1 .. n : f[k] = CloseIn(ks, f[k - 1], k)
  BY <1>1, <1>8
<1> QED BY <1>1, <1>4, <1>9 DEF n

\* remoteCloseDataChannels: by induction over the channels.
LEMMA AllClosed ==
  ASSUME NEW s \in PeerStates, NEW ks
  PROVE  Good(s, CloseAll(s, ks))
<1> DEFINE D == {r \in PeerStates : Good(s, r)}
<1>1. MaxChans \in Nat /\ Chans = 1 .. MaxChans
  BY ConstantsAssumption DEF Chans
<1>2. s \in D
  BY GoodSelf
<1>3. ASSUME NEW r \in D, NEW k \in Chans PROVE CloseIn(ks, r, k) \in D
  <2>1. Good(r, Close(r, k))
    BY ChanClosed
  <2>2. Good(s, Close(r, k)) /\ Close(r, k) \in PeerStates
    BY <2>1, GoodTrans DEF Good, Keeps
  <2> QED BY <2>2 DEF CloseIn
<1>4. PICK f : /\ f[0] = s /\ \A k \in Chans : f[k] = CloseIn(ks, f[k - 1], k)
               /\ CloseAll(s, ks) = f[MaxChans]
  BY CloseRounds
<1>5. f[MaxChans] \in D
  <2>1. \A k \in 1 .. MaxChans : f[k - 1] \in D => f[k] \in D
    BY <1>1, <1>3, <1>4
  <2> HIDE DEF D
  <2> QED BY <1>1, <1>2, <1>4, <2>1, RoundsKeep
<1> QED BY <1>4, <1>5

LEMMA Opened ==
  ASSUME NEW s \in PeerStates, NEW k \in Chans, s.chan[k].stream \in Streams
  PROVE  Good(s, Open(s, k))
<1> DEFINE t == [s EXCEPT !.chan[k].bound = TRUE]
           m == Msg("open", s.chan[k].stream, k, 0)
<1>1. m \in Messages
  BY ConstantsAssumption DEF Msg, Messages, Chans
<1>2. Good(s, t) /\ t \in PeerStates
  BY FlagSet DEF Good, Keeps
<1>3. Open(s, k) = Send(t, m)
  BY Zenon DEF Open
<1> HIDE DEF t, m
<1>4. Good(t, Send(t, m))
  BY <1>1, <1>2, Sent
<1> QED BY <1>2, <1>3, <1>4, GoodTrans

\* What assignDataChannels keeps: it gives channels streams, and takes none.
Assigns(s, r) ==
  /\ r \in PeerStates
  /\ r.sctp = s.sctp /\ r.stopped = s.stopped /\ r.todo = s.todo
  /\ r.sendq = s.sendq /\ r.amount = s.amount
  /\ \A k \in Chans : s.chan[k].stream \in Streams => r.chan[k].stream \in Streams
  /\ \A i \in Streams : r.reg[i] = s.reg[i] \/ (r.reg[i] \in Chans /\ r.chan[r.reg[i]].stream \in Streams)

LEMMA AssignsOK ==
  ASSUME NEW s, NEW r, OK(s), Assigns(s, r)
  PROVE  OK(r)
<1>1. StreamOK(r)
  <2>1. \A i \in Streams : s.reg[i] # 0 => s.reg[i] \in Chans
    BY ConstantsAssumption DEF OK, PeerStates, Chans
  <2>2. \A k \in s.todo : k \in Chans
    BY DEF OK, PeerStates
  <2> QED BY <2>1, <2>2 DEF OK, Assigns, StreamOK
<1> QED BY <1>1 DEF OK, Assigns, Exact

LEMMA AssignsTrans ==
  ASSUME NEW s, NEW t, NEW r, Assigns(s, t), Assigns(t, r)
  PROVE  Assigns(s, r)
<1>1. ASSUME NEW i \in Streams
      PROVE  r.reg[i] = s.reg[i] \/ (r.reg[i] \in Chans /\ r.chan[r.reg[i]].stream \in Streams)
  BY DEF Assigns
<1> QED BY <1>1 DEF Assigns

LEMMA AssignsSelf ==
  ASSUME NEW s \in PeerStates
  PROVE  Assigns(s, s)
BY DEF Assigns

LEMMA OneAssigned ==
  ASSUME NEW p \in Peers, NEW s \in PeerStates, NEW k \in Chans
  PROVE  /\ Assigns(s, AssignOne(p, s, k))
         /\ ~AssignOne(p, s, k).over => AssignOne(p, s, k).chan[k].stream \in Streams
<1> DEFINE F == Free(p, s)
           i == CHOOSE i \in F : \A h \in F : i <= h
           o == [s EXCEPT !.over = TRUE]
           c == [s.chan[k] EXCEPT !.stream = i]
           t == With(s, k, c)
           reg == [s.reg EXCEPT ![i] = k]
           r == [t EXCEPT !.reg = reg]
<1>1. CASE s.over
  <2>1. AssignOne(p, s, k) = s
    BY <1>1, Zenon DEF AssignOne
  <2> QED BY <1>1, <2>1, AssignsSelf
<1>2. CASE ~s.over /\ (F = {} \/ s.chan[k].stream # None)
  <2>1. AssignOne(p, s, k) = o
    BY <1>2, Zenon DEF AssignOne
  <2>2. Assigns(s, o) /\ o.over
    BY DEF Assigns, PeerStates
  <2> QED BY <2>1, <2>2
<1>3. CASE ~s.over /\ F # {} /\ s.chan[k].stream = None
  <2>1. AssignOne(p, s, k) = [s EXCEPT !.chan[k].stream = i, !.reg[i] = k]
    BY <1>3, Zenon DEF AssignOne
  <2>2. \E h \in F : \A g \in F : h <= g
    <3>1. F \subseteq Nat /\ F # {}
      BY <1>3 DEF Free, Streams
    <3> HIDE DEF F
    <3> QED BY <3>1, SetMinimum
  <2>3. i \in F
    <3> HIDE DEF F
    <3> QED BY <2>2
  <2>4. i \in Streams
    BY <2>3 DEF Free
  <2> HIDE DEF i, F
  <2>5. c \in ChanStates /\ c.stream = i
    <3>1. s.chan[k] \in ChanStates
      BY DEF PeerStates
    <3> QED BY <2>4, <3>1 DEF ChanStates
  <2>6. reg \in [Streams -> 0 .. MaxChans] /\ \A h \in Streams : reg[h] = IF h = i THEN k ELSE s.reg[h]
    BY <2>4, ConstantsAssumption DEF PeerStates, Chans
  <2>7. [s EXCEPT !.chan[k].stream = i, !.reg[i] = k] = r
    BY DEF PeerStates, With
  <2> HIDE DEF c, reg
  <2>8. /\ t \in PeerStates /\ t.chan = [s.chan EXCEPT ![k] = c]
        /\ t.sctp = s.sctp /\ t.todo = s.todo /\ t.sendq = s.sendq
        /\ t.stopped = s.stopped /\ t.amount = s.amount
    BY <2>5, ChanUpdated
  <2> HIDE DEF t
  <2>9. /\ r \in PeerStates /\ r.chan = t.chan /\ r.reg = reg
        /\ r.sctp = s.sctp /\ r.todo = s.todo /\ r.sendq = s.sendq
        /\ r.stopped = s.stopped /\ r.amount = s.amount
    BY <2>6, <2>8 DEF PeerStates
  <2> HIDE DEF r
  <2>10. s.chan \in [Chans -> ChanStates]
    BY DEF PeerStates
  <2>11. r.chan[k].stream \in Streams /\ \A j \in Chans : j # k => r.chan[j] = s.chan[j]
    BY <2>4, <2>5, <2>8, <2>9, <2>10
  <2>12. Assigns(s, r)
    BY <2>6, <2>9, <2>11 DEF Assigns
  <2> QED BY <2>1, <2>7, <2>11, <2>12
<1> QED BY <1>1, <1>2, <1>3

\* assignDataChannels ends with an empty list, unless it throws.
Cleared(s) == IF s.over THEN s ELSE [s EXCEPT !.unassigned = <<>>]

\* The rounds of assignDataChannels.
LEMMA AssignRounds ==
  ASSUME NEW p \in Peers, NEW s \in PeerStates
  PROVE  \E f : /\ f[0] = s
                /\ \A j \in 1 .. Len(s.unassigned) : f[j] = AssignOne(p, f[j - 1], s.unassigned[j])
                /\ Assign(p, s) = Cleared(f[Len(s.unassigned)])
<1> DEFINE q == s.unassigned
           n == Len(q)
           f == CHOOSE f : f = [j \in 0 .. n |-> IF j = 0 THEN s ELSE AssignOne(p, f[j - 1], q[j])]
           D == PeerStates
           G == [j \in 1 .. n |-> [r \in D |-> AssignOne(p, r, q[j])]]
<1>1. n \in Nat /\ \A j \in 1 .. n : q[j] \in Chans
  BY DEF PeerStates
<1>2. s \in D
  OBVIOUS
<1>3. ASSUME NEW r \in D, NEW j \in 1 .. n PROVE AssignOne(p, r, q[j]) \in D
  BY <1>1, OneAssigned DEF Assigns
<1>4. Assign(p, s) = Cleared(f[n])
  BY Zenon DEF Assign, Cleared
<1> HIDE DEF n, q, D
<1>5. G \in [1 .. n -> [D -> D]]
  BY <1>3
<1>6. \E h : Course(D, s, n, G, h)
  <2> HIDE DEF G
  <2> QED BY <1>1, <1>2, <1>5, Rounds, Zenon
<1>7. \E h : h = [j \in 0 .. n |-> IF j = 0 THEN s ELSE AssignOne(p, h[j - 1], q[j])]
  <2>1. PICK h \in [0 .. n -> D] : h = [j \in 0 .. n |-> IF j = 0 THEN s ELSE G[j][h[j - 1]]]
    BY <1>6 DEF Course
  <2>2. ASSUME NEW j \in 0 .. n, j # 0 PROVE G[j][h[j - 1]] = AssignOne(p, h[j - 1], q[j])
    <3>1. j \in 1 .. n /\ j - 1 \in 0 .. n
      BY <1>1, <2>2
    <3>2. h[j - 1] \in D
      BY <3>1
    <3> QED BY <3>1, <3>2
  <2>3. h = [j \in 0 .. n |-> IF j = 0 THEN s ELSE AssignOne(p, h[j - 1], q[j])]
    <3> HIDE DEF G
    <3> QED BY <2>1, <2>2
  <2> QED BY <2>3
<1>8. f = [j \in 0 .. n |-> IF j = 0 THEN s ELSE AssignOne(p, f[j - 1], q[j])]
  BY <1>7, Zenon
<1> HIDE DEF f
<1>9. f[0] = s /\ \A j \in 1 .. n : f[j] = AssignOne(p, f[j - 1], q[j])
  BY <1>1, <1>8
<1> QED BY <1>4, <1>9 DEF n, q

LEMMA ListCleared ==
  ASSUME NEW s \in PeerStates
  PROVE  /\ Assigns(s, Cleared(s)) /\ Cleared(s).over = s.over /\ Cleared(s).chan = s.chan
         /\ Cleared(s).reg = s.reg /\ Cleared(s).unassigned \in {<<>>, s.unassigned}
         /\ Cleared(s).wire = s.wire /\ Cleared(s).shut = s.shut /\ Cleared(s).flush = s.flush
<1> DEFINE u == [s EXCEPT !.unassigned = <<>>]
<1>1. Cleared(s) = IF s.over THEN s ELSE u
  BY DEF Cleared
<1>2. /\ u \in PeerStates /\ u.over = s.over /\ u.chan = s.chan /\ u.reg = s.reg
      /\ u.sctp = s.sctp /\ u.stopped = s.stopped /\ u.todo = s.todo /\ u.unassigned = <<>>
      /\ u.sendq = s.sendq /\ u.amount = s.amount
      /\ u.wire = s.wire /\ u.shut = s.shut /\ u.flush = s.flush
  <2>1. <<>> \in Seq(Chans)
    OBVIOUS
  <2> QED BY <2>1 DEF PeerStates
<1> HIDE DEF u
<1>3. Assigns(s, u)
  BY <1>2 DEF Assigns
<1> QED BY <1>1, <1>2, <1>3, AssignsSelf

\* assignDataChannels: by induction over the list.
LEMMA AllAssigned ==
  ASSUME NEW p \in Peers, NEW s \in PeerStates
  PROVE  LET r == Assign(p, s)
             q == s.unassigned IN
         /\ Assigns(s, r)
         /\ ~r.over /\ q # <<>> => r.chan[q[Len(q)]].stream \in Streams
<1> DEFINE q == s.unassigned
           n == Len(q)
           D == {r \in PeerStates : Assigns(s, r)}
<1>1. n \in Nat /\ (q # <<>> => n \in 1 .. n) /\ \A j \in 1 .. n : q[j] \in Chans
  BY DEF PeerStates
<1>2. s \in D
  BY AssignsSelf
<1>3. ASSUME NEW r \in D, NEW j \in 1 .. n
      PROVE  /\ AssignOne(p, r, q[j]) \in D
             /\ ~AssignOne(p, r, q[j]).over => AssignOne(p, r, q[j]).chan[q[j]].stream \in Streams
  <2> DEFINE v == AssignOne(p, r, q[j])
  <2>1. q[j] \in Chans /\ r \in PeerStates /\ Assigns(s, r)
    BY <1>1
  <2> HIDE DEF q
  <2>2. Assigns(r, v) /\ (~v.over => v.chan[q[j]].stream \in Streams)
    BY <2>1, OneAssigned
  <2> HIDE DEF v
  <2>3. Assigns(s, v) /\ v \in PeerStates
    BY <2>1, <2>2, AssignsTrans DEF Assigns
  <2> QED BY <2>2, <2>3 DEF v
<1>4. PICK f : /\ f[0] = s /\ \A j \in 1 .. n : f[j] = AssignOne(p, f[j - 1], q[j])
               /\ Assign(p, s) = Cleared(f[n])
  BY AssignRounds, ZenonT(90)
<1> HIDE DEF n
<1> DEFINE t == f[n]
<1>5. \A m \in 0 .. n : f[m] \in D
  <2> SUFFICES ASSUME NEW m \in 0 .. n PROVE f[m] \in D
    OBVIOUS
  <2>1. \A j \in 1 .. m : f[j - 1] \in D => f[j] \in D
    <3> SUFFICES ASSUME NEW j \in 1 .. m, f[j - 1] \in D PROVE f[j] \in D
      OBVIOUS
    <3>1. j \in 1 .. n
      BY <1>1
    <3> HIDE DEF D
    <3> QED BY <1>3, <1>4, <3>1
  <2>2. m \in Nat
    BY <1>1
  <2> HIDE DEF D
  <2> QED BY <1>2, <1>4, <2>1, <2>2, RoundsKeep
<1>6. t \in PeerStates /\ Assigns(s, t)
  BY <1>1, <1>5
<1>7. ~t.over /\ q # <<>> => t.chan[q[n]].stream \in Streams
  <2> SUFFICES ASSUME ~t.over, q # <<>> PROVE t.chan[q[n]].stream \in Streams
    OBVIOUS
  <2>1. n \in 1 .. n /\ n - 1 \in 0 .. n
    BY <1>1
  <2>2. f[n - 1] \in D
    BY <1>5, <2>1
  <2> HIDE DEF D
  <2> QED BY <1>3, <1>4, <2>1, <2>2
<1> HIDE DEF t
<1> DEFINE u == Cleared(t)
<1>8. Assigns(t, u) /\ u.over = t.over /\ u.chan = t.chan
  BY <1>6, ListCleared
<1>9. Assign(p, s) = u
  BY <1>4 DEF t
<1> HIDE DEF u
<1>10. Assigns(s, u)
  BY <1>6, <1>8, AssignsTrans
<1> QED BY <1>7, <1>8, <1>9, <1>10 DEF n, q

-----------------------------------------------------------------------------
(* What arrives.                                                           *)

LEMMA ChanReceives ==
  ASSUME NEW s \in PeerStates, NEW k \in Chans, s.chan[k].stream \in Streams, NEW m \in Messages
  PROVE  Good(s, Incoming(s, k, m))
<1> DEFINE c == s.chan[k]
           a == Msg("ack", c.stream, k, 0)
           t == Send(s, a)
           u == [t EXCEPT !.chan[k].open = TRUE]
           o == [s EXCEPT !.chan[k].open = TRUE]
           z == Close(s, k)
           g == [c EXCEPT !.got = c.got \cup {m.n}]
           w == With(s, k, g)
<1>1. Incoming(s, k, m) \in {s, t, u, o, z, w}
  <2>1. [s EXCEPT !.chan[k].got = @ \cup {m.n}] = w
    BY Zenon DEF With
  <2>2. m.type \in {"open", "ack", "data", "reset"}
    BY DEF Messages
  <2> DEFINE v == [s EXCEPT !.chan[k].got = @ \cup {m.n}]
  <2>3. Incoming(s, k, m) =
          IF c.closed THEN s
          ELSE CASE m.type = "open" /\ c.kind = "in" -> IF t.shut THEN t ELSE u
                 [] m.type = "ack" -> o
                 [] m.type = "reset" -> z
                 [] m.type = "data" -> v
                 [] OTHER -> s
    BY Zenon DEF Incoming
  <2> HIDE DEF t, u, o, z, w, v, c
  <2>4. Incoming(s, k, m) \in {s, t, u, o, z, v}
    BY <2>2, <2>3
  <2> QED BY <2>1, <2>4 DEF v
<1>2. c \in ChanStates
  BY DEF PeerStates
<1>3. Good(s, t) /\ t \in PeerStates
  <2>1. a \in Messages
    BY ConstantsAssumption DEF Msg, Messages, Chans
  <2> HIDE DEF a
  <2> QED BY <2>1, Sent DEF Good, Keeps
<1> HIDE DEF t
<1>4. Good(s, u)
  <2>1. Good(t, u)
    BY <1>3, FlagSet
  <2> HIDE DEF u
  <2> QED BY <1>3, <2>1, GoodTrans
<1>5. Good(s, o) /\ Good(s, z) /\ Good(s, s)
  BY FlagSet, ChanClosed, GoodSelf
<1>6. Good(s, w)
  <2>1. m.n \in Nat
    BY DEF Messages
  <2>2. g \in ChanStates /\ g.stream = c.stream
    <3> HIDE DEF c
    <3> QED BY <1>2, <2>1 DEF ChanStates
  <2> HIDE DEF g
  <2> QED BY <2>2, ChanKept
<1> HIDE DEF u, o, z, w
<1> QED BY <1>1, <1>3, <1>4, <1>5, <1>6

\* An entry of mDataChannels is set or taken away.
LEMMA RegChanged ==
  ASSUME NEW s, OK(s), NEW i \in Streams, NEW k \in 0 .. MaxChans,
         k # 0 => s.chan[k].stream \in Streams
  PROVE  OK([s EXCEPT !.reg[i] = k])
<1> DEFINE reg == [s.reg EXCEPT ![i] = k]
           r == [s EXCEPT !.reg = reg]
<1>1. s \in PeerStates
  BY DEF OK
<1>2. reg \in [Streams -> 0 .. MaxChans] /\ \A h \in Streams : reg[h] = IF h = i THEN k ELSE s.reg[h]
  BY <1>1 DEF PeerStates
<1>3. [s EXCEPT !.reg[i] = k] = r
  BY <1>1 DEF PeerStates
<1> HIDE DEF reg
<1>4. /\ r \in PeerStates /\ r.chan = s.chan /\ r.reg = reg /\ r.todo = s.todo
      /\ r.stopped = s.stopped /\ r.sctp = s.sctp /\ r.amount = s.amount /\ r.sendq = s.sendq
  BY <1>1, <1>2 DEF PeerStates
<1> HIDE DEF r
<1>5. StreamOK(r)
  BY <1>2, <1>4 DEF OK, StreamOK
<1>6. Exact(r)
  BY <1>4 DEF OK, Exact
<1> QED BY <1>3, <1>4, <1>5, <1>6 DEF OK

LEMMA ChanReplaced ==
  ASSUME NEW s, OK(s), NEW k \in Chans, NEW c \in ChanStates, c.stream \in Streams
  PROVE  OK(With(s, k, c)) /\ With(s, k, c).chan[k] = c
<1> DEFINE r == With(s, k, c)
<1>1. s \in PeerStates /\ s.chan \in [Chans -> ChanStates]
  BY DEF OK, PeerStates
<1>2. /\ r \in PeerStates /\ r.chan = [s.chan EXCEPT ![k] = c]
      /\ r.sctp = s.sctp /\ r.reg = s.reg /\ r.todo = s.todo /\ r.sendq = s.sendq
      /\ r.stopped = s.stopped /\ r.amount = s.amount
  BY <1>1, ChanUpdated
<1> HIDE DEF r
<1>3. \A j \in Chans : r.chan[j] = IF j = k THEN c ELSE s.chan[j]
  BY <1>1, <1>2
<1>4. StreamOK(r)
  <2>1. \A i \in Streams : s.reg[i] # 0 => s.reg[i] \in Chans
    BY <1>1, ConstantsAssumption DEF PeerStates, Chans
  <2>2. \A j \in s.todo : j \in Chans
    BY <1>1 DEF PeerStates
  <2> QED BY <1>2, <1>3, <2>1, <2>2 DEF OK, StreamOK
<1>5. Exact(r)
  BY <1>2 DEF OK, Exact
<1> QED BY <1>2, <1>3, <1>4, <1>5 DEF OK, r

LEMMA MessageForwarded ==
  ASSUME NEW p \in Peers, NEW s, OK(s), NEW m \in Messages
  PROVE  OK(ForwardMessage(p, s, m))
<1> DEFINE i == m.stream
           k == s.reg[i]
           c == [NewChan EXCEPT !.kind = "in", !.stream = i, !.bound = TRUE]
           n == [s EXCEPT !.reg[i] = m.k, !.chan[m.k] = c]
           z == [s EXCEPT !.reg[i] = 0]
           r == ForwardMessage(p, s, m)
<1>1. s \in PeerStates /\ i \in Streams
  BY DEF OK, Messages
<1>2. CASE m.type = "open" /\ k = 0 /\ i % 2 # Parity(p)
  <2>1. r = Incoming(n, m.k, m)
    BY <1>2, Zenon DEF ForwardMessage
  <2>2. m.k \in Chans
    BY <1>2 DEF Messages
  <2>3. c \in ChanStates /\ c.stream = i
    BY <1>1 DEF NewChan, ChanStates, None
  <2> DEFINE w == With(s, m.k, c)
  <2>4. n = [w EXCEPT !.reg[i] = m.k]
    BY <1>1, <2>2 DEF With, PeerStates
  <2> HIDE DEF c, r, i
  <2>5. OK(w) /\ w.chan[m.k] = c
    BY <1>1, <2>2, <2>3, ChanReplaced
  <2> HIDE DEF w
  <2>6. m.k \in 0 .. MaxChans
    BY <2>2, ConstantsAssumption DEF Chans
  <2>7. OK([w EXCEPT !.reg[i] = m.k])
    BY <1>1, <2>3, <2>5, <2>6, RegChanged
  <2>8. [w EXCEPT !.reg[i] = m.k].chan = w.chan
    BY <2>5 DEF OK, PeerStates
  <2>9. OK(n) /\ n \in PeerStates /\ n.chan[m.k].stream \in Streams
    BY <1>1, <2>3, <2>4, <2>5, <2>7, <2>8 DEF OK
  <2> HIDE DEF n
  <2>10. Good(n, r)
    BY <2>1, <2>2, <2>9, ChanReceives
  <2> QED BY <2>9, <2>10, GoodOK DEF r
<1>3. CASE m.type = "reset" /\ k # 0
  <2>1. r = Incoming(z, k, m)
    BY <1>3, Zenon DEF ForwardMessage
  <2>2. k \in Chans /\ s.chan[k].stream \in Streams
    BY <1>1, <1>3, ConstantsAssumption DEF OK, StreamOK, PeerStates, Chans
  <2> HIDE DEF i, k
  <2>3. OK(z)
    BY <1>1, ConstantsAssumption, RegChanged
  <2>4. z.chan = s.chan
    BY <1>1 DEF PeerStates
  <2> HIDE DEF z, r
  <2>5. Good(z, r)
    BY <2>1, <2>2, <2>3, <2>4, ChanReceives DEF OK
  <2> QED BY <2>3, <2>5, GoodOK DEF r
<1>4. CASE ~(m.type = "open" /\ k = 0 /\ i % 2 # Parity(p)) /\ ~(m.type = "reset" /\ k # 0)
  <2>1. \/ r = s \/ r = CloseStream(s, i)
        \/ k # 0 /\ (r = Close(s, k) \/ r = Incoming(s, k, m))
    BY <1>4, Zenon DEF ForwardMessage
  <2>2. k # 0 => k \in Chans /\ s.chan[k].stream \in Streams
    BY <1>1, ConstantsAssumption DEF OK, StreamOK, PeerStates, Chans
  <2> HIDE DEF i, k, r
  <2>3. Good(s, r)
    BY <1>1, <2>1, <2>2, GoodSelf, StreamClosed, ChanClosed, ChanReceives
  <2> QED BY <2>3, GoodOK DEF r
<1> QED BY <1>2, <1>3, <1>4

\* The end of the association.
LEMMA Disconnected ==
  ASSUME NEW s, OK(s)
  PROVE  OK(Disconnect(s))
<1> DEFINE t == CloseAll(s, Registered(s))
           r == [t EXCEPT !.sctp = "disconnected", !.wire = <<>>, !.flush = FALSE,
                          !.sendq = <<>>, !.task = FALSE, !.todo = {}]
<1>1. Good(s, t)
  BY AllClosed DEF OK
<1>2. Disconnect(s) = r
  BY Zenon DEF Disconnect
<1> HIDE DEF t
<1>3. OK(t) /\ t \in PeerStates
  BY <1>1, GoodOK DEF OK
<1>4. r \in PeerStates /\ r.sctp = "disconnected" /\ r.todo = {} /\ r.reg = t.reg /\ r.chan = t.chan
  <2>1. <<>> \in Seq(Messages) /\ <<>> \in Seq(Messages \cup {Shutdown})
    OBVIOUS
  <2> QED BY <1>3, <2>1 DEF PeerStates
<1> HIDE DEF r
<1>5. StreamOK(r) /\ Exact(r)
  BY <1>3, <1>4 DEF OK, StreamOK, Exact
<1> QED BY <1>2, <1>4, <1>5 DEF OK

-----------------------------------------------------------------------------
(* The actions.                                                            *)

SentSeqs == Seq([peer : Peers, k : Chans, lost : BOOLEAN])

LEMMA PeerUpdated ==
  ASSUME IInv, NEW p \in Peers, NEW s, OK(s), Update(p, s),
         made' \in 0 .. MaxChans, sent' \in SentSeqs
  PROVE  IInv'
<1>1. s \in PeerStates
  BY DEF OK
<1>2. peer' \in [Peers -> PeerStates] /\ peer'[p] = s /\ \A q \in Peers : q # p => peer'[q] = peer[q]
  BY <1>1 DEF IInv, Update
<1>3. \A q \in Peers : OK(peer'[q])
  BY <1>2 DEF IInv
<1> QED BY <1>2, <1>3 DEF IInv, SentSeqs, OK, StreamOK, Exact, PeerStates, Sized

LEMMA ListChanged ==
  ASSUME NEW s, OK(s), NEW q \in Seq(Chans)
  PROVE  LET r == [s EXCEPT !.unassigned = q] IN
         OK(r) /\ r.unassigned = q /\ r.chan = s.chan /\ r.sctp = s.sctp
<1> DEFINE r == [s EXCEPT !.unassigned = q]
<1>1. /\ r \in PeerStates /\ r.unassigned = q /\ r.chan = s.chan /\ r.reg = s.reg
      /\ r.todo = s.todo /\ r.stopped = s.stopped /\ r.sctp = s.sctp
      /\ r.amount = s.amount /\ r.sendq = s.sendq
  BY DEF OK, PeerStates
<1> HIDE DEF r
<1>2. StreamOK(r) /\ Exact(r)
  BY <1>1 DEF OK, StreamOK, Exact
<1> QED BY <1>1, <1>2 DEF OK, r

LEMMA CreateKeeps ==
  ASSUME IInv, NEW p \in Peers, CreateDataChannel(p)
  PROVE  IInv'
<1> DEFINE o == peer[p]
           k == made + 1
           c == [o.chan[k] EXCEPT !.kind = "out"]
           q == Append(o.unassigned, k)
           w == With(o, k, c)
           s == [w EXCEPT !.unassigned = q]
           t == Assign(p, s)
           d == [Close(t, k).chan[k] EXCEPT !.byApp = TRUE]
           u == [t EXCEPT !.chan[k] = d, !.unassigned = o.unassigned]
           v == With(t, k, d)
           x == [v EXCEPT !.unassigned = o.unassigned]
           y == Open(t, k)
<1>1. OK(o) /\ o \in PeerStates /\ o.unassigned \in Seq(Chans)
  BY DEF IInv, OK, PeerStates
<1>2. k \in Chans /\ made' = k /\ sent' \in SentSeqs /\ made' \in 0 .. MaxChans
  BY ConstantsAssumption DEF IInv, SentSeqs, CreateDataChannel, Chans
<1>3. [peer[p] EXCEPT !.chan[k].kind = "out", !.unassigned = Append(@, k)] = s
  BY <1>1, <1>2 DEF With, PeerStates
<1>4. Update(p, s) \/ Update(p, u) \/ (~t.over /\ Update(p, y))
  <2> DEFINE s0 == [peer[p] EXCEPT !.chan[k].kind = "out", !.unassigned = Append(@, k)]
             t0 == Assign(p, s0)
             x0 == [t0 EXCEPT !.chan[k] = [Close(t0, k).chan[k] EXCEPT !.byApp = TRUE],
                              !.unassigned = o.unassigned]
  <2>1. IF s0.sctp \notin {"up", "connected"} THEN Update(p, s0)
        ELSE IF t0.over THEN Update(p, x0) ELSE Update(p, Open(t0, k))
    BY DEF CreateDataChannel
  <2>2. s0 = s /\ t0 = t
    BY <1>3, Zenon
  <2>3. x0 = u
    <3> HIDE DEF s0, s, t0
    <3> QED BY <2>2, Zenon
  <2>4. Open(t0, k) = y
    BY <2>2, Zenon
  <2> HIDE DEF s0, s, t0, t, x0, u, y
  <2> QED BY <2>1, <2>2, <2>3, <2>4
<1> HIDE DEF k
<1>5. c \in ChanStates /\ c.stream = o.chan[k].stream
  <2>1. o.chan[k] \in ChanStates
    BY <1>1, <1>2 DEF PeerStates
  <2> HIDE DEF o
  <2> QED BY <2>1 DEF ChanStates
<1>6. q \in Seq(Chans) /\ q # <<>> /\ q[Len(q)] = k
  <2> HIDE DEF o
  <2> QED BY <1>1, <1>2
<1> HIDE DEF o, c, q
<1>7. OK(w)
  BY <1>1, <1>2, <1>5, ChanKept, GoodOK
<1> HIDE DEF w
<1>8. OK(s) /\ s \in PeerStates /\ s.unassigned = q
  BY <1>6, <1>7, ListChanged DEF OK
<1> HIDE DEF s
<1>9. Assigns(s, t) /\ (~t.over => t.chan[k].stream \in Streams)
  BY <1>6, <1>8, AllAssigned
<1> HIDE DEF t
<1>10. OK(t) /\ t \in PeerStates
  BY <1>8, <1>9, AssignsOK DEF OK
<1>11. ~t.over => OK(y)
  BY <1>2, <1>9, <1>10, Opened, GoodOK
<1>12. d \in ChanStates /\ d.stream = t.chan[k].stream
  <2> DEFINE e == Close(t, k).chan[k]
  <2>1. e \in ChanStates /\ e.stream = t.chan[k].stream
    BY <1>2, <1>10, ChanClosed, ZenonT(60) DEF Good, Keeps, PeerStates
  <2> HIDE DEF e
  <2>2. [e EXCEPT !.byApp = TRUE] \in ChanStates /\ [e EXCEPT !.byApp = TRUE].stream = e.stream
    BY <2>1, ChanFlags
  <2> QED BY <2>1, <2>2 DEF e
<1> HIDE DEF d, y
<1>13. OK(v)
  BY <1>2, <1>10, <1>12, ChanKept, GoodOK
<1>14. u = x
  BY Zenon DEF With
<1> HIDE DEF u, v
<1>15. OK(x)
  BY <1>1, <1>13, ListChanged
<1> HIDE DEF x
<1>16. \E r : OK(r) /\ Update(p, r)
  BY <1>4, <1>8, <1>11, <1>14, <1>15
<1> QED BY <1>2, <1>16, PeerUpdated

\* Steps that leave what was made and sent alone.
LEMMA StepKeeps ==
  ASSUME IInv, NEW p \in Peers, NEW s, OK(peer[p]) => OK(s), Update(p, s), UNCHANGED <<made, sent>>
  PROVE  IInv'
<1>1. OK(s) /\ made' \in 0 .. MaxChans /\ sent' \in SentSeqs
  BY DEF IInv, SentSeqs
<1> QED BY <1>1, PeerUpdated

LEMMA SendKeeps ==
  ASSUME IInv, NEW p \in Peers, NEW k \in Chans, SendMessage(p, k)
  PROVE  IInv'
<1> DEFINE s == peer[p]
           c == s.chan[k]
           m == Msg("data", c.stream, k, Len(sent) + 1)
           e == [peer |-> p, k |-> k, lost |-> peer[p].stopped \/ peer[p].sctp \notin {"up", "connected"}]
<1>1. OK(s) /\ s \in PeerStates /\ sent \in SentSeqs
  BY DEF IInv, OK, SentSeqs
<1>2. Update(p, Send(s, m)) /\ sent' = Append(sent, e) /\ made' \in 0 .. MaxChans /\ c.stream # None
  BY DEF SendMessage, IInv
<1>3. m \in Messages
  <2>1. c \in ChanStates
    BY <1>1 DEF PeerStates
  <2>2. c.stream \in Streams
    BY <1>2, <2>1 DEF ChanStates
  <2>3. Len(sent) + 1 \in Nat
    BY <1>1 DEF SentSeqs
  <2> HIDE DEF c
  <2> QED BY <2>2, <2>3, ConstantsAssumption DEF Msg, Messages, Chans
<1>4. sent' \in SentSeqs
  <2>1. e \in [peer : Peers, k : Chans, lost : BOOLEAN]
    OBVIOUS
  <2> HIDE DEF e
  <2> QED BY <1>1, <1>2, <2>1 DEF SentSeqs
<1> HIDE DEF m, s
<1>5. OK(Send(s, m))
  BY <1>1, <1>3, Sent, GoodOK
<1> QED BY <1>2, <1>4, <1>5, PeerUpdated

LEMMA CloseKeeps ==
  ASSUME IInv, NEW p \in Peers, NEW k \in Chans, CloseChannel(p, k)
  PROVE  IInv'
<1> DEFINE s == peer[p]
           t == Close(s, k)
           r == [t EXCEPT !.chan[k].byApp = TRUE]
<1>1. OK(s) /\ s \in PeerStates
  BY DEF IInv, OK
<1>2. Update(p, r) /\ UNCHANGED <<made, sent>>
  BY DEF CloseChannel
<1> HIDE DEF s
<1>3. OK(t) /\ t \in PeerStates
  BY <1>1, ChanClosed, GoodOK DEF OK
<1> HIDE DEF t
<1>4. OK(r)
  BY <1>3, FlagSet, GoodOK
<1> HIDE DEF r
<1> QED BY <1>2, <1>4, StepKeeps

LEMMA ThresholdKeeps ==
  ASSUME IInv, NEW p \in Peers, NEW k \in Chans, NEW v \in 0 .. MaxMsgs - 1, SetThreshold(p, k, v)
  PROVE  IInv'
<1> DEFINE s == peer[p]
           c == [s.chan[k] EXCEPT !.threshold = v, !.waits = TRUE]
           r == With(s, k, c)
<1>1. OK(s) /\ s \in PeerStates
  BY DEF IInv, OK
<1>2. Update(p, [s EXCEPT !.chan[k].threshold = v, !.chan[k].waits = TRUE]) /\ UNCHANGED <<made, sent>>
  BY DEF SetThreshold
<1>3. [s EXCEPT !.chan[k].threshold = v, !.chan[k].waits = TRUE] = r
  BY <1>1 DEF With, PeerStates
<1>4. c \in ChanStates /\ c.stream = s.chan[k].stream
  <2>1. s.chan[k] \in ChanStates /\ v \in Nat
    BY <1>1, ConstantsAssumption DEF PeerStates
  <2> HIDE DEF s
  <2> QED BY <2>1 DEF ChanStates
<1> HIDE DEF c, s
<1>5. OK(r)
  BY <1>1, <1>4, ChanKept, GoodOK
<1> HIDE DEF r
<1> QED BY <1>2, <1>3, <1>5, StepKeeps

LEMMA ClosePeerKeeps ==
  ASSUME IInv, NEW p \in Peers, ClosePeer(p)
  PROVE  IInv'
<1> DEFINE s == peer[p]
           r == [s EXCEPT !.stopped = TRUE, !.flush = TRUE]
<1>1. OK(s) /\ Update(p, r) /\ UNCHANGED <<made, sent>>
  BY DEF IInv, ClosePeer
<1> HIDE DEF s
<1>2. r \in PeerStates /\ r.stopped /\ r.reg = s.reg /\ r.chan = s.chan /\ r.todo = s.todo
  BY <1>1 DEF OK, PeerStates
<1> HIDE DEF r
<1>3. OK(r)
  BY <1>1, <1>2 DEF OK, StreamOK, Exact
<1> QED BY <1>1, <1>3, StepKeeps

LEMMA ConnectKeeps ==
  ASSUME IInv, NEW p \in Peers, Connect(p)
  PROVE  IInv'
<1> DEFINE s == peer[p]
           t == Assign(p, s)
           b == ~t.over
           r == [t EXCEPT !.sctp = "connected", !.task = b]
           u == [s EXCEPT !.sctp = "up"]
<1>1. /\ OK(s) /\ s \in PeerStates /\ UNCHANGED <<made, sent>>
      /\ \/ s.sctp = "connecting" /\ Update(p, u)
         \/ s.sctp = "up" /\ Update(p, r)
  BY DEF IInv, OK, Connect
<1> HIDE DEF s
<1>2. s.sctp = "connecting" => OK(u)
  <2>1. /\ u \in PeerStates /\ u.reg = s.reg /\ u.chan = s.chan /\ u.todo = s.todo
        /\ u.amount = s.amount /\ u.sendq = s.sendq /\ u.stopped = s.stopped
    BY <1>1 DEF PeerStates
  <2> HIDE DEF u
  <2> QED BY <1>1, <2>1 DEF OK, StreamOK, Exact
<1>3. s.sctp = "up" => OK(r)
  <2>1. OK(t) /\ t \in PeerStates /\ t.sctp = s.sctp
    BY <1>1, AllAssigned, AssignsOK DEF OK, Assigns
  <2>2. b \in BOOLEAN
    OBVIOUS
  <2> HIDE DEF t, b
  <2>3. /\ r \in PeerStates /\ r.reg = t.reg /\ r.chan = t.chan /\ r.todo = t.todo
        /\ r.amount = t.amount /\ r.sendq = t.sendq /\ r.stopped = t.stopped
    BY <2>1, <2>2 DEF PeerStates
  <2> HIDE DEF r
  <2> QED BY <2>1, <2>3 DEF OK, StreamOK, Exact
<1> HIDE DEF r, u
<1> QED BY <1>1, <1>2, <1>3, StepKeeps

LEMMA OpenKeeps ==
  ASSUME IInv, NEW p \in Peers, OpenDataChannels(p)
  PROVE  IInv'
<1> DEFINE s == peer[p]
           R == Registered(s)
           r == [s EXCEPT !.task = FALSE, !.todo = R]
<1>1. OK(s) /\ s \in PeerStates /\ UNCHANGED <<made, sent>>
  BY DEF IInv, OK, OpenDataChannels
<1>2. CASE Update(p, r)
  <2>1. R \subseteq Chans /\ \A k \in R : s.chan[k].stream \in Streams
    BY <1>1 DEF Registered, OK, StreamOK, Chans
  <2> HIDE DEF R, s
  <2>2. /\ r \in PeerStates /\ r.reg = s.reg /\ r.chan = s.chan /\ r.todo = R
        /\ r.amount = s.amount /\ r.sendq = s.sendq /\ r.stopped = s.stopped /\ r.sctp = s.sctp
    BY <1>1, <2>1 DEF PeerStates
  <2> HIDE DEF r
  <2>3. OK(r)
    BY <1>1, <2>1, <2>2 DEF OK, StreamOK, Exact
  <2> QED BY <1>1, <1>2, <2>3, StepKeeps
<1>3. ASSUME NEW k \in s.todo,
             \E b \in BOOLEAN : Update(p, IF b THEN [s EXCEPT !.todo = @ \ {k}]
                                          ELSE Open([s EXCEPT !.todo = @ \ {k}], k))
      PROVE  IInv'
  <2> DEFINE T == s.todo \ {k}
             t == [s EXCEPT !.todo = T]
  <2>1. k \in Chans /\ s.chan[k].stream \in Streams /\ T \subseteq Chans
    BY <1>1 DEF OK, StreamOK, PeerStates
  <2>2. [s EXCEPT !.todo = @ \ {k}] = t
    BY Zenon
  <2>3. T \subseteq s.todo
    OBVIOUS
  <2>4. Update(p, t) \/ Update(p, Open(t, k))
    <3> HIDE DEF t, T, s
    <3> QED BY <1>3, <2>2
  <2> HIDE DEF s, T
  <2>5. /\ t \in PeerStates /\ t.reg = s.reg /\ t.chan = s.chan /\ t.todo = T
        /\ t.amount = s.amount /\ t.sendq = s.sendq /\ t.stopped = s.stopped /\ t.sctp = s.sctp
    BY <1>1, <2>1 DEF PeerStates
  <2> HIDE DEF t
  <2>6. OK(t)
    BY <1>1, <2>3, <2>5 DEF OK, StreamOK, Exact
  <2>7. OK(Open(t, k))
    BY <2>1, <2>5, <2>6, Opened, GoodOK
  <2> QED BY <1>1, <2>4, <2>6, <2>7, StepKeeps
<1>4. Update(p, r) \/ \E k \in s.todo, b \in BOOLEAN :
                        Update(p, IF b THEN [s EXCEPT !.todo = @ \ {k}]
                                  ELSE Open([s EXCEPT !.todo = @ \ {k}], k))
  BY Zenon DEF OpenDataChannels
<1> HIDE DEF s, r
<1> QED BY <1>2, <1>3, <1>4

LEMMA FlushKeeps ==
  ASSUME IInv, NEW p \in Peers, Flush(p)
  PROVE  IInv'
<1> DEFINE s == peer[p]
           t == [s EXCEPT !.flush = FALSE]
           r == IF t.sctp \in {"up", "connected"} THEN TrySendQueue(t) ELSE t
<1>1. OK(s) /\ s \in PeerStates /\ UNCHANGED <<made, sent>> /\ Update(p, r)
  BY DEF IInv, OK, Flush
<1> HIDE DEF s
<1>2. Keeps(s, t) /\ t.sendq = s.sendq /\ t.amount = s.amount
  BY <1>1 DEF PeerStates, Keeps
<1> HIDE DEF t
<1>3. OK(t) /\ t \in PeerStates
  BY <1>1, <1>2, SameQueue, GoodOK DEF OK
<1>4. OK(TrySendQueue(t))
  BY <1>3, QueueSent, GoodOK
<1>5. OK(r)
  BY <1>3, <1>4
<1> HIDE DEF r
<1> QED BY <1>1, <1>5, StepKeeps

\* Both peers change, and stay as they should be.
LEMMA BothKeep ==
  ASSUME IInv, peer' \in [Peers -> PeerStates], \A p \in Peers : OK(peer'[p]), UNCHANGED <<made, sent>>
  PROVE  IInv'
BY DEF IInv, OK, StreamOK, Exact, PeerStates, Sized

LEMMA ReceiveKeeps ==
  ASSUME IInv, NEW p \in Peers, Receive(p)
  PROVE  IInv'
<1> DEFINE q == Other(p)
           s == peer[p]
           o == peer[q]
           m == Head(o.wire)
           d == [peer EXCEPT ![p] = Disconnect(@), ![q] = Disconnect(@)]
           a == IF m.type = "reset" THEN StreamReset(p, s, m.stream) ELSE ForwardMessage(p, s, m)
           w == Tail(o.wire)
           v == [o EXCEPT !.wire = w]
           b == Upcall(v)
<1>1. q \in Peers /\ q # p /\ \A e \in Peers : e = p \/ e = q
  BY DEF Peers, Other
<1>2. OK(s) /\ OK(o) /\ o \in PeerStates /\ peer \in [Peers -> PeerStates]
  BY <1>1 DEF IInv, OK
<1>3. o.wire # <<>> /\ UNCHANGED <<made, sent>>
  BY DEF Receive, CanReceive
<1>4. \/ peer' = d
      \/ m.type # "shutdown" /\ peer' = [peer EXCEPT ![p] = a, ![q] = b]
  <2> DEFINE z == [peer EXCEPT ![p] = a, ![q] = b]
  <2>1. peer' = IF m.type = "shutdown" THEN d ELSE z
    BY Zenon DEF Receive
  <2> HIDE DEF m, z, d
  <2> QED BY <2>1 DEF z
<1>5. CASE peer' = d
  <2> DEFINE x == Disconnect(s)
             y == Disconnect(o)
  <2>1. OK(x) /\ OK(y)
    BY <1>2, Disconnected
  <2>2. peer' \in [Peers -> PeerStates] /\ peer'[p] = x /\ peer'[q] = y
    <3>1. x \in PeerStates /\ y \in PeerStates
      BY <2>1 DEF OK
    <3> HIDE DEF q
    <3> QED BY <1>1, <1>2, <1>5, <3>1
  <2> HIDE DEF x, y, q
  <2>3. \A e \in Peers : OK(peer'[e])
    BY <1>1, <2>1, <2>2
  <2> QED BY <1>3, <2>2, <2>3, BothKeep
<1>6. CASE m.type # "shutdown" /\ peer' = [peer EXCEPT ![p] = a, ![q] = b]
  <2>1. m \in Messages /\ w \in Seq(Messages \cup {Shutdown})
    <3>1. o.wire \in Seq(Messages \cup {Shutdown})
      BY <1>2 DEF PeerStates
    <3>2. m \in Messages \cup {Shutdown} /\ w \in Seq(Messages \cup {Shutdown})
      <4> HIDE DEF o
      <4> QED BY <1>3, <3>1
    <3>3. Shutdown.type = "shutdown"
      BY DEF Shutdown, Msg
    <3> HIDE DEF m, w
    <3> QED BY <1>6, <3>2, <3>3
  <2>2. OK(a)
    <3>1. OK(ForwardMessage(p, s, m))
      <4> HIDE DEF m, s
      <4> QED BY <1>2, <2>1, MessageForwarded
    <3>2. Msg("reset", m.stream, 0, 0) \in Messages
      BY <2>1, ConstantsAssumption DEF Msg, Messages
    <3>3. OK(StreamReset(p, s, m.stream))
      <4> HIDE DEF m, s
      <4> QED BY <1>2, <3>2, MessageForwarded DEF StreamReset
    <3> QED BY <3>1, <3>3
  <2>3. Keeps(o, v) /\ v.sendq = o.sendq /\ v.amount = o.amount
    <3> HIDE DEF o, w
    <3> QED BY <1>2, <2>1 DEF PeerStates, Keeps
  <2> HIDE DEF v, a, s, o, q
  <2>4. OK(v) /\ v \in PeerStates
    BY <1>2, <2>3, SameQueue, GoodOK DEF OK
  <2>5. OK(b)
    BY <2>4, FlushEnqueued, GoodOK DEF Upcall
  <2> HIDE DEF b
  <2>6. peer' \in [Peers -> PeerStates] /\ peer'[p] = a /\ peer'[q] = b
    BY <1>1, <1>2, <1>6, <2>2, <2>5 DEF OK
  <2>7. \A e \in Peers : OK(peer'[e])
    BY <1>1, <2>2, <2>5, <2>6
  <2> QED BY <1>3, <2>6, <2>7, BothKeep
<1> QED BY <1>4, <1>5, <1>6

LEMMA LoseKeeps ==
  ASSUME IInv, Lose
  PROVE  IInv'
<1>1. \A p \in Peers : OK(Disconnect(peer[p])) /\ Disconnect(peer[p]) \in PeerStates
  BY Disconnected DEF IInv, OK
<1>2. peer' = [p \in Peers |-> Disconnect(peer[p])] /\ UNCHANGED <<made, sent>>
  BY DEF Lose
<1> QED BY <1>1, <1>2, BothKeep

-----------------------------------------------------------------------------

LEMMA InitGood == Init => IInv
<1> SUFFICES ASSUME Init PROVE IInv
  OBVIOUS
<1>1. NewChan \in ChanStates
  BY DEF NewChan, ChanStates, None
<1>2. NewPeer \in PeerStates
  <2> DEFINE ch == [k \in Chans |-> NewChan]
             reg == [i \in Streams |-> 0]
  <2>1. ch \in [Chans -> ChanStates]
    BY <1>1
  <2>2. reg \in [Streams -> 0 .. MaxChans] /\ reg \in [Streams -> Nat]
    BY ConstantsAssumption
  <2>3. /\ <<>> \in Seq(Messages) /\ <<>> \in Seq(Messages \cup {Shutdown}) /\ <<>> \in Seq(Chans)
    OBVIOUS
  <2> HIDE DEF ch, reg
  <2> QED BY <2>1, <2>2, <2>3 DEF NewPeer, PeerStates, ch, reg
<1>3. StreamOK(NewPeer)
  BY DEF NewPeer, StreamOK
<1>4. Exact(NewPeer)
  <2>1. NewPeer.sendq = <<>> /\ \A i \in Streams : NewPeer.amount[i] = 0
    BY DEF NewPeer
  <2> QED BY <2>1, SizedEmpty DEF Exact
<1>5. OK(NewPeer)
  BY <1>2, <1>3, <1>4 DEF OK
<1>6. sent \in Seq([peer : Peers, k : Chans, lost : BOOLEAN])
  BY DEF Init
<1> QED BY <1>2, <1>5, <1>6, ConstantsAssumption DEF Init, IInv

LEMMA NextKeeps ==
  ASSUME IInv, [Next]_vars
  PROVE  IInv'
<1>1. CASE UNCHANGED vars
  BY <1>1 DEF vars, IInv, OK, StreamOK, Exact, PeerStates, Sized
<1>2. ASSUME NEW p \in Peers, Application(p) PROVE IInv'
  BY <1>2, CreateKeeps, ClosePeerKeeps, SendKeeps, CloseKeeps, ThresholdKeeps DEF Application
<1>3. ASSUME NEW p \in Peers, Processors(p) PROVE IInv'
  BY <1>3, ConnectKeeps, OpenKeeps, FlushKeeps DEF Processors
<1> QED BY <1>1, <1>2, <1>3, ReceiveKeeps, LoseKeeps DEF Next

\* The types of a peer's state; every channel that is found by its stream or
\* is still to be opened has a stream; and each stream's amount is what the
\* queue holds for it.
THEOREM StreamsInvariant == Spec => []IInv
BY InitGood, NextKeeps, PTL DEF Spec

\* updateBufferedAmount counts in step with mSendQueue: whatever the
\* applications send, open and close, with any number of channels and streams,
\* however streams are used again and wherever trySendQueue stops for want of
\* room, mBufferedAmount is what the queue still holds for each stream.
THEOREM AmountsExact == Spec => []AmountIsExact
<1>1. IInv => AmountIsExact
  BY DEF IInv, OK, Exact, AmountIsExact, Ended
<1> QED BY <1>1, StreamsInvariant, PTL

-----------------------------------------------------------------------------
(***************************************************************************)
(* Nobody waits in vain for onBufferedAmountLow: LowIsReported of Streams, *)
(* for any number of channels, messages and streams, any size of the send  *)
(* buffer, any applications that send and close, with or without races.    *)
(***************************************************************************)

\* mDataChannels and the channels agree on the streams.
RegOK(s) == \A i \in Streams : s.reg[i] # 0 => s.chan[s.reg[i]].stream = i

\* A channel that does not exist here has no stream, and only channels that this
\* peer created wait for one.
KindOK(s) ==
  /\ \A k \in Chans : s.chan[k].kind = "none" => s.chan[k].stream = None
  /\ \A j \in DOMAIN s.unassigned : s.chan[s.unassigned[j]].kind = "out"

\* What a channel that is not closed (other than x) knows of its amount is what
\* the transport last counted, and one that is waited for is above its threshold.
KnowsAmount(s, k) ==
  LET c == s.chan[k] IN
  c.amount > 0 => c.stream \in Streams /\ s.reg[c.stream] = k /\ c.amount = s.amount[c.stream]
AmountBut(s, x) ==
  \A k \in Chans \ {x} :
    ~s.chan[k].closed => /\ KnowsAmount(s, k)
                         /\ s.chan[k].waits => s.chan[k].amount > s.chan[k].threshold

\* OPEN is sent for channels this peer created, on their streams.
OpenFits(s, m) == m.type = "open" => s.chan[m.k].kind = "out" /\ s.chan[m.k].stream = m.stream
OpenOK(s) ==
  /\ \A j \in DOMAIN s.sendq : OpenFits(s, s.sendq[j])
  /\ \A j \in DOMAIN s.wire : OpenFits(s, s.wire[j])

\* Nothing is bound to a transport that is not connected, or queued there.
BoundOK(s) ==
  /\ s.sctp = "connecting" => s.sendq = <<>> /\ \A k \in Chans : ~s.chan[k].bound
  /\ s.stopped => s.sctp \in {"connected", "disconnected"}

\* The shutdown is the last there is on the wire, until the association ends.
ShutOK(s) ==
  /\ s.shut => s.stopped /\ s.sendq = <<>>
  /\ s.shut /\ s.sctp # "disconnected" => s.wire # <<>> /\ s.wire[Len(s.wire)].type = "shutdown"
  /\ \A j \in DOMAIN s.wire : s.wire[j].type = "shutdown" => j = Len(s.wire) /\ s.shut

BaseBut(s, x) ==
  RegOK(s) /\ KindOK(s) /\ AmountBut(s, x) /\ OpenOK(s) /\ BoundOK(s) /\ ShutOK(s)
Base(s) == BaseBut(s, 0)

\* What is queued is flushed, or usrsctp is full and will call.
Full(s) == ~(InBuffer(s.wire) < SndBuf)
FlushOK(s) ==
  s.sctp # "disconnected" /\ (s.sendq # <<>> \/ (s.stopped /\ ~s.shut)) =>
    s.flush \/ (s.sendq # <<>> /\ Full(s))

\* A channel is one peer's, and its object at the other has the same stream.
PairOK(s, o, k) ==
  /\ s.chan[k].kind = "out" => o.chan[k].kind # "out"
  /\ s.chan[k].kind = "in" => o.chan[k].kind = "out" /\ s.chan[k].stream = o.chan[k].stream
                              /\ s.chan[k].stream \in Streams

\* Before the association is up no channel has a stream or is to be opened.
TodoOK(s) == s.sctp = "connecting" => s.todo = {} /\ \A i \in Streams : s.reg[i] = 0

LInv ==
  /\ \A p \in Peers : Base(peer[p]) /\ FlushOK(peer[p]) /\ TodoOK(peer[p])
  /\ \A p \in Peers, k \in Chans : /\ PairOK(peer[p], peer[Other(p)], k)
                                   /\ k > made => peer[p].chan[k].kind = "none"

-----------------------------------------------------------------------------
(* Steps of one peer: from s to r.                                         *)

Kinds(s, r) == \A k \in Chans : r.chan[k].kind = s.chan[k].kind

\* What the functions of SctpTransport and DataChannel keep.
Calm(s, r) ==
  Keeps(s, r) /\ Kinds(s, r) /\ Base(r) /\ (FlushOK(s) => FlushOK(r))

LEMMA CalmSelf ==
  ASSUME NEW s \in PeerStates, Base(s)
  PROVE  Calm(s, s)
BY DEF Calm, Kinds, Keeps

LEMMA CalmTrans ==
  ASSUME NEW s, NEW t, NEW r, Calm(s, t), Calm(t, r)
  PROVE  Calm(s, r)
<1>1. Keeps(s, r)
  BY DEF Calm, Keeps
<1> QED BY <1>1 DEF Calm, Kinds

\* Only these fields matter.
LEMMA BaseSame ==
  ASSUME NEW s, NEW r, NEW x, BaseBut(s, x), r.chan = s.chan, r.reg = s.reg,
         r.unassigned = s.unassigned, r.amount = s.amount, r.sctp = s.sctp,
         r.sendq = s.sendq, r.wire = s.wire, r.stopped = s.stopped, r.shut = s.shut
  PROVE  BaseBut(r, x)
<1>1. RegOK(r) /\ KindOK(r)
  BY DEF BaseBut, RegOK, KindOK
<1>2. AmountBut(r, x)
  BY DEF BaseBut, AmountBut, KnowsAmount
<1>3. OpenOK(r)
  BY DEF BaseBut, OpenOK, OpenFits
<1>4. BoundOK(r) /\ ShutOK(r)
  BY DEF BaseBut, BoundOK, ShutOK
<1> QED BY <1>1, <1>2, <1>3, <1>4 DEF BaseBut

\* A channel changes in its flags; the one left out so far may be closed.
LEMMA FlagsCalm ==
  ASSUME NEW s \in PeerStates, NEW x, BaseBut(s, x), NEW k \in Chans, NEW c \in ChanStates,
         LET o == s.chan[k] IN
         /\ c.kind = o.kind /\ c.stream = o.stream /\ c.amount = o.amount
         /\ c.threshold = o.threshold /\ c.waits = o.waits /\ (o.closed => c.closed)
         /\ (c.bound => o.bound \/ s.sctp # "connecting")
  PROVE  LET r == With(s, k, c) IN
         /\ BaseBut(r, x) /\ (c.closed /\ x = k => Base(r))
         /\ Kinds(s, r) /\ Keeps(s, r) /\ (FlushOK(s) => FlushOK(r))
<1> DEFINE r == With(s, k, c)
           o == s.chan[k]
<1>1. /\ r \in PeerStates /\ r.chan = [s.chan EXCEPT ![k] = c]
      /\ r.sctp = s.sctp /\ r.reg = s.reg /\ r.unassigned = s.unassigned
      /\ r.todo = s.todo /\ r.sendq = s.sendq /\ r.stopped = s.stopped
      /\ r.amount = s.amount /\ r.wire = s.wire
      /\ r.shut = s.shut /\ r.flush = s.flush
  BY ChanUpdated
<1>2. Keeps(s, r)
  BY ChanKept DEF Good
<1> HIDE DEF r
<1>3. \A j \in Chans : r.chan[j] = IF j = k THEN c ELSE s.chan[j]
  BY <1>1 DEF PeerStates
<1>4. Kinds(s, r)
  BY <1>3 DEF Kinds
<1>5. RegOK(r)
  <2>1. \A i \in Streams : s.reg[i] # 0 => s.reg[i] \in Chans
    BY ConstantsAssumption DEF PeerStates, Chans
  <2> QED BY <1>1, <1>3, <2>1 DEF BaseBut, RegOK
<1>6. KindOK(r)
  <2>1. \A j \in DOMAIN s.unassigned : s.unassigned[j] \in Chans
    BY DEF PeerStates
  <2> QED BY <1>1, <1>3, <2>1 DEF BaseBut, KindOK
<1>7. ASSUME NEW j \in Chans, ~r.chan[j].closed, j # x
      PROVE  KnowsAmount(r, j) /\ (r.chan[j].waits => r.chan[j].amount > r.chan[j].threshold)
  <2>1. ~s.chan[j].closed
    BY <1>3, <1>7
  <2>2. KnowsAmount(s, j) /\ (s.chan[j].waits => s.chan[j].amount > s.chan[j].threshold)
    BY <1>7, <2>1 DEF BaseBut, AmountBut
  <2> QED BY <1>1, <1>3, <2>2 DEF KnowsAmount
<1>8. AmountBut(r, x) /\ (c.closed /\ x = k => AmountBut(r, 0))
  <2>1. AmountBut(r, x)
    BY <1>7 DEF AmountBut
  <2>2. ASSUME c.closed, x = k, NEW j \in Chans, ~r.chan[j].closed PROVE j # x
    BY <1>3, <2>2
  <2> QED BY <1>7, <2>1, <2>2 DEF AmountBut
<1>9. OpenOK(r)
  <2>1. ASSUME NEW m \in Messages \cup {Shutdown}, OpenFits(s, m) PROVE OpenFits(r, m)
    <3>1. m.type = "open" => m.k \in Chans
      BY DEF Messages, Shutdown, Msg
    <3> QED BY <1>3, <2>1, <3>1 DEF OpenFits
  <2>2. /\ \A j \in DOMAIN s.sendq : s.sendq[j] \in Messages
        /\ \A j \in DOMAIN s.wire : s.wire[j] \in Messages \cup {Shutdown}
    BY DEF PeerStates
  <2> QED BY <1>1, <2>1, <2>2 DEF BaseBut, OpenOK
<1>10. BoundOK(r)
  BY <1>1, <1>3 DEF BaseBut, BoundOK
<1>11. ShutOK(r) /\ (FlushOK(s) => FlushOK(r))
  BY <1>1 DEF BaseBut, ShutOK, FlushOK, Full
<1>12. BaseBut(r, x) /\ (c.closed /\ x = k => Base(r))
  BY <1>5, <1>6, <1>8, <1>9, <1>10, <1>11 DEF BaseBut, Base
<1> QED BY <1>2, <1>4, <1>11, <1>12 DEF r

-----------------------------------------------------------------------------
(* SctpTransport.                                                          *)

Mild(s, r) == Keeps(s, r) /\ Kinds(s, r) /\ Base(r)

LEMMA MildTrans ==
  ASSUME NEW s, NEW t, NEW r, Mild(s, t), Mild(t, r)
  PROVE  Mild(s, r)
<1>1. Keeps(s, r)
  BY DEF Mild, Keeps
<1> QED BY <1>1 DEF Mild, Kinds

\* triggerBufferedAmount tells the channel that has the stream.
LEMMA AmountShape ==
  ASSUME NEW s \in PeerStates, NEW i \in Streams, NEW d \in {-1, 0, 1}
  PROVE  LET r == UpdateBufferedAmount(s, i, d) IN
         /\ r.shut = s.shut /\ r.flush = s.flush /\ r.task = s.task /\ r.over = s.over
         /\ \A k \in Chans : r.chan[k] = IF d # 0 /\ k = s.reg[i] THEN Triggered(s.chan[k], r.amount[i])
                                         ELSE s.chan[k]
<1>1. CASE d = 0
  <2>1. UpdateBufferedAmount(s, i, d) = s
    BY <1>1, Zenon DEF UpdateBufferedAmount
  <2> QED BY <1>1, <2>1
<1>2. CASE d # 0
  <2> DEFINE n == Lowered(s.amount[i], d)
             am == [s.amount EXCEPT ![i] = n]
             t == [s EXCEPT !.amount = am]
             k == t.reg[i]
             c == Triggered(t.chan[k], n)
             r == UpdateBufferedAmount(s, i, d)
  <2>1. r = ForwardBufferedAmount([s EXCEPT !.amount[i] = n], i, n)
    BY <1>2, Zenon DEF UpdateBufferedAmount, Lowered
  <2>2. [s EXCEPT !.amount[i] = n] = t
    BY DEF PeerStates
  <2>3. r = ForwardBufferedAmount(t, i, n)
    BY <2>1, <2>2, Zenon
  <2>4. n \in Nat /\ s.amount \in [Streams -> Nat]
    BY <1>2 DEF Lowered, PeerStates
  <2>5. r.amount[i] = n
    BY AmountUpdated
  <2> HIDE DEF n
  <2>6. am \in [Streams -> Nat]
    BY <2>4
  <2> HIDE DEF am
  <2>7. /\ t \in PeerStates /\ t.chan = s.chan /\ t.reg = s.reg
        /\ t.shut = s.shut /\ t.flush = s.flush /\ t.task = s.task /\ t.over = s.over
    BY <2>6 DEF PeerStates
  <2>8. r = IF k = 0 THEN t ELSE With(t, k, c)
    BY <2>3, Zenon DEF ForwardBufferedAmount, With
  <2> HIDE DEF t, r
  <2>9. CASE k = 0
    <3>1. \A j \in Chans : j # s.reg[i]
      BY <2>7, <2>9 DEF Chans
    <3> QED BY <1>2, <2>7, <2>8, <2>9, <3>1 DEF r
  <2>10. CASE k # 0
    <3>1. k \in Chans /\ t.chan[k] \in ChanStates /\ t.chan \in [Chans -> ChanStates]
      BY <2>7, <2>10, ConstantsAssumption DEF PeerStates, Chans
    <3>2. c \in ChanStates
      BY <2>4, <3>1, ChanTriggered
    <3> HIDE DEF k, c
    <3>3. /\ r.chan = [t.chan EXCEPT ![k] = c] /\ r.shut = t.shut /\ r.flush = t.flush
          /\ r.task = t.task /\ r.over = t.over
      BY <2>7, <2>8, <2>10, <3>1, <3>2, ChanUpdated
    <3>4. \A j \in Chans : r.chan[j] = IF j = k THEN c ELSE s.chan[j]
      BY <2>7, <3>1, <3>3
    <3> QED BY <1>2, <2>5, <2>7, <3>3, <3>4 DEF k, c, r
  <2> QED BY <2>9, <2>10
<1> QED BY <1>1, <1>2

LEMMA TriggeredShape ==
  ASSUME NEW c \in ChanStates, NEW n \in Nat
  PROVE  LET r == Triggered(c, n) IN
         /\ r.kind = c.kind /\ r.stream = c.stream /\ r.bound = c.bound /\ r.closed = c.closed
         /\ r.threshold = c.threshold /\ r.amount = n /\ r.got = c.got /\ r.byApp = c.byApp
         /\ r.waits => c.waits /\ ~(c.amount > c.threshold /\ n <= c.threshold)
<1> DEFINE w == c.waits /\ ~(c.amount > c.threshold /\ n <= c.threshold)
           r == [c EXCEPT !.amount = n, !.waits = w]
<1>1. Triggered(c, n) = r
  BY Zenon DEF Triggered
<1>2. w => c.waits /\ ~(c.amount > c.threshold /\ n <= c.threshold)
  OBVIOUS
<1> HIDE DEF w
<1>3. /\ r.kind = c.kind /\ r.stream = c.stream /\ r.bound = c.bound /\ r.closed = c.closed
      /\ r.threshold = c.threshold /\ r.amount = n /\ r.waits = w
      /\ r.got = c.got /\ r.byApp = c.byApp
  BY DEF ChanStates
<1> HIDE DEF r
<1> QED BY <1>1, <1>2, <1>3

LEMMA AmountCalm ==
  ASSUME NEW s \in PeerStates, Base(s), NEW i \in Streams, NEW d \in {-1, 0, 1}
  PROVE  LET r == UpdateBufferedAmount(s, i, d) IN
         /\ Calm(s, r) /\ r.sendq = s.sendq /\ r.wire = s.wire
         /\ r.shut = s.shut /\ r.flush = s.flush
<1> DEFINE r == UpdateBufferedAmount(s, i, d)
<1>1. CASE d = 0
  <2>1. r = s
    BY <1>1, Zenon DEF UpdateBufferedAmount
  <2> HIDE DEF r
  <2>2. Calm(s, r) /\ r.sendq = s.sendq /\ r.wire = s.wire /\ r.shut = s.shut /\ r.flush = s.flush
    BY <2>1, CalmSelf
  <2> QED BY <2>2 DEF r
<1>2. CASE d # 0
  <2>1. /\ Keeps(s, r) /\ r.sendq = s.sendq /\ r.wire = s.wire
        /\ \A h \in Streams : h # i => r.amount[h] = s.amount[h]
    BY AmountUpdated
  <2>2. /\ r.shut = s.shut /\ r.flush = s.flush
        /\ \A k \in Chans : r.chan[k] = IF k = s.reg[i] THEN Triggered(s.chan[k], r.amount[i])
                                        ELSE s.chan[k]
    BY <1>2, AmountShape
  <2> HIDE DEF r
  <2>3. /\ r.amount[i] \in Nat /\ s.chan \in [Chans -> ChanStates] /\ r.sctp = s.sctp
        /\ r.reg = s.reg /\ r.unassigned = s.unassigned /\ r.stopped = s.stopped
    BY <2>1 DEF Keeps, PeerStates
  <2>4. \A k \in Chans : /\ r.chan[k].kind = s.chan[k].kind /\ r.chan[k].stream = s.chan[k].stream
                         /\ r.chan[k].bound = s.chan[k].bound /\ r.chan[k].closed = s.chan[k].closed
    <3> SUFFICES ASSUME NEW k \in Chans
                 PROVE  /\ r.chan[k].kind = s.chan[k].kind /\ r.chan[k].stream = s.chan[k].stream
                        /\ r.chan[k].bound = s.chan[k].bound /\ r.chan[k].closed = s.chan[k].closed
      OBVIOUS
    <3>1. s.chan[k] \in ChanStates
      BY <2>3
    <3> QED BY <2>2, <2>3, <3>1, TriggeredShape
  <2>5. Kinds(s, r)
    BY <2>4 DEF Kinds
  <2>6. RegOK(r)
    <3>1. \A h \in Streams : s.reg[h] # 0 => s.reg[h] \in Chans
      BY ConstantsAssumption DEF PeerStates, Chans
    <3> QED BY <2>3, <2>4, <3>1 DEF Base, BaseBut, RegOK
  <2>7. KindOK(r)
    <3>1. \A j \in DOMAIN s.unassigned : s.unassigned[j] \in Chans
      BY DEF PeerStates
    <3> QED BY <2>3, <2>4, <3>1 DEF Base, BaseBut, KindOK
  <2>8. AmountBut(r, 0)
    <3> SUFFICES ASSUME NEW k \in Chans, k # 0, ~r.chan[k].closed
                 PROVE  KnowsAmount(r, k) /\ (r.chan[k].waits => r.chan[k].amount > r.chan[k].threshold)
      BY DEF AmountBut
    <3>1. KnowsAmount(s, k) /\ (s.chan[k].waits => s.chan[k].amount > s.chan[k].threshold)
      BY <2>4 DEF Base, BaseBut, AmountBut
    <3>2. CASE k = s.reg[i]
      <4>1. s.chan[k].stream = i
        BY <3>2 DEF Base, BaseBut, RegOK
      <4> DEFINE c == s.chan[k]
                 n == r.amount[i]
                 t == Triggered(c, n)
      <4>2. r.chan[k] = t /\ c \in ChanStates /\ n \in Nat
        BY <2>2, <2>3, <3>2
      <4> HIDE DEF c, n
      <4>3. /\ t.stream = c.stream /\ t.threshold = c.threshold /\ t.amount = n
            /\ t.waits => c.waits /\ ~(c.amount > c.threshold /\ n <= c.threshold)
        BY <4>2, TriggeredShape
      <4> HIDE DEF t
      <4>4. KnowsAmount(r, k)
        BY <2>3, <3>2, <4>1, <4>2, <4>3 DEF KnowsAmount, c, n
      <4>5. c.threshold \in Nat /\ c.amount \in Nat
        BY <4>2 DEF ChanStates
      <4>6. t.waits => t.amount > t.threshold
        BY <3>1, <4>2, <4>3, <4>5 DEF c
      <4> QED BY <4>2, <4>4, <4>6
    <3>3. CASE k # s.reg[i]
      <4>1. r.chan[k] = s.chan[k]
        BY <2>2, <3>3
      <4>2. KnowsAmount(r, k)
        BY <2>1, <2>3, <3>1, <3>3, <4>1 DEF KnowsAmount
      <4> QED BY <3>1, <4>1, <4>2
    <3> QED BY <3>2, <3>3
  <2>9. OpenOK(r)
    <3>1. ASSUME NEW m \in Messages \cup {Shutdown}, OpenFits(s, m) PROVE OpenFits(r, m)
      <4>1. m.type = "open" => m.k \in Chans
        BY DEF Messages, Shutdown, Msg
      <4> QED BY <2>4, <3>1, <4>1 DEF OpenFits
    <3>2. /\ \A j \in DOMAIN s.sendq : s.sendq[j] \in Messages
          /\ \A j \in DOMAIN s.wire : s.wire[j] \in Messages \cup {Shutdown}
      BY DEF PeerStates
    <3> QED BY <2>1, <3>1, <3>2 DEF Base, BaseBut, OpenOK
  <2>10. BoundOK(r)
    BY <2>1, <2>3, <2>4 DEF Base, BaseBut, BoundOK
  <2>11. ShutOK(r) /\ (FlushOK(s) => FlushOK(r))
    BY <2>1, <2>2, <2>3 DEF Base, BaseBut, ShutOK, FlushOK, Full
  <2>12. Calm(s, r)
    BY <2>1, <2>5, <2>6, <2>7, <2>8, <2>9, <2>10, <2>11 DEF Calm, Base, BaseBut
  <2> QED BY <2>1, <2>2, <2>12 DEF r
<1> QED BY <1>1, <1>2

\* Queue and wire change.
LEMMA QueueBase ==
  ASSUME NEW s, NEW r, Base(s), r.chan = s.chan, r.reg = s.reg, r.unassigned = s.unassigned,
         r.amount = s.amount, r.sctp = s.sctp, r.stopped = s.stopped,
         OpenOK(r), ShutOK(r), s.sctp = "connecting" => r.sendq = <<>>
  PROVE  Base(r)
<1>1. RegOK(r) /\ KindOK(r)
  BY DEF Base, BaseBut, RegOK, KindOK
<1>2. AmountBut(r, 0)
  BY DEF Base, BaseBut, AmountBut, KnowsAmount
<1>3. BoundOK(r)
  BY DEF Base, BaseBut, BoundOK
<1> QED BY <1>1, <1>2, <1>3 DEF Base, BaseBut

\* A message joins the wire.
LEMMA OnWire ==
  ASSUME NEW s \in PeerStates, Base(s), ~s.shut, NEW m \in Messages, OpenFits(s, m)
  PROVE  LET w == Append(s.wire, m) IN
         /\ w \in Seq(Messages \cup {Shutdown})
         /\ \A j \in DOMAIN w : OpenFits(s, w[j]) /\ w[j].type # "shutdown"
<1> DEFINE w == Append(s.wire, m)
<1>1. s.wire \in Seq(Messages \cup {Shutdown})
  BY DEF PeerStates
<1>2. w \in Seq(Messages \cup {Shutdown})
  BY <1>1
<1>3. \A j \in DOMAIN s.wire : OpenFits(s, s.wire[j]) /\ s.wire[j].type # "shutdown"
  BY DEF Base, BaseBut, OpenOK, ShutOK
<1>4. m.type # "shutdown"
  BY DEF Messages
<1>5. \A j \in DOMAIN w : w[j] = m \/ (j \in DOMAIN s.wire /\ w[j] = s.wire[j])
  BY <1>1
<1> HIDE DEF w
<1>6. \A j \in DOMAIN w : OpenFits(s, w[j]) /\ w[j].type # "shutdown"
  BY <1>3, <1>4, <1>5
<1> QED BY <1>2, <1>6 DEF w

LEMMA FirstMild ==
  ASSUME NEW s \in PeerStates, Base(s), s.sendq # <<>>, s.sctp # "connecting"
  PROVE  LET r == SendFirst(s) IN
         Mild(s, r) /\ r.sendq = Tail(s.sendq)
<1> DEFINE m == Head(s.sendq)
           tl == Tail(s.sendq)
           w == Append(s.wire, m)
           t == [s EXCEPT !.sendq = tl, !.wire = w]
           d == 0 - Size(m)
           r == UpdateBufferedAmount(t, m.stream, d)
<1>1. s.sendq \in Seq(Messages) /\ ~s.shut
  BY DEF PeerStates, Base, BaseBut, ShutOK
<1>2. /\ m \in Messages /\ tl \in Seq(Messages) /\ OpenFits(s, m)
      /\ \A j \in DOMAIN tl : OpenFits(s, tl[j])
  <2>1. \A j \in DOMAIN s.sendq : OpenFits(s, s.sendq[j])
    BY DEF Base, BaseBut, OpenOK
  <2>2. /\ m \in Messages /\ tl \in Seq(Messages) /\ 1 \in DOMAIN s.sendq /\ m = s.sendq[1]
        /\ \A j \in DOMAIN tl : j + 1 \in DOMAIN s.sendq /\ tl[j] = s.sendq[j + 1]
    BY <1>1
  <2> HIDE DEF m, tl
  <2> QED BY <2>1, <2>2
<1>3. SendFirst(s) = r
  BY Zenon DEF SendFirst
<1> HIDE DEF m, tl
<1>4. w \in Seq(Messages \cup {Shutdown}) /\ \A j \in DOMAIN w : OpenFits(s, w[j]) /\ w[j].type # "shutdown"
  BY <1>1, <1>2, OnWire
<1> HIDE DEF w
<1>5. /\ t \in PeerStates /\ Keeps(s, t) /\ t.sendq = tl /\ t.wire = w /\ t.chan = s.chan
      /\ t.reg = s.reg /\ t.unassigned = s.unassigned /\ t.amount = s.amount /\ t.sctp = s.sctp
      /\ t.stopped = s.stopped /\ t.shut = s.shut
  BY <1>2, <1>4 DEF PeerStates, Keeps
<1> HIDE DEF t
<1>6. OpenOK(t)
  BY <1>2, <1>4, <1>5 DEF OpenOK, OpenFits
<1>7. ShutOK(t)
  BY <1>1, <1>4, <1>5 DEF ShutOK
<1>8. Base(t)
  BY <1>5, <1>6, <1>7, QueueBase
<1>9. d \in {-1, 0, 1} /\ m.stream \in Streams
  BY <1>2, SizeType
<1>10. Calm(t, r) /\ r.sendq = t.sendq
  BY <1>5, <1>8, <1>9, AmountCalm
<1> HIDE DEF r
<1>11. Mild(s, t) /\ Mild(t, r)
  BY <1>5, <1>8, <1>10 DEF Mild, Calm, Kinds
<1>12. Mild(s, r) /\ r.sendq = tl
  BY <1>5, <1>10, <1>11, MildTrans
<1> QED BY <1>3, <1>12 DEF tl

\* trySendQueue stops at a message that usrsctp does not take.
Stuck(s) == s.sendq # <<>> /\ ~TrySendMessage(s, Head(s.sendq))

LEMMA NextMild ==
  ASSUME NEW s \in PeerStates, Base(s), s.sctp # "connecting"
  PROVE  LET r == SendNext(s) IN
         /\ Mild(s, r)
         /\ \/ s.sendq # <<>> /\ r.sendq = Tail(s.sendq)
            \/ r = s /\ (s.sendq = <<>> \/ Stuck(s))
<1>1. Mild(s, s)
  BY CalmSelf DEF Mild, Calm
<1>2. CASE s.sendq # <<>> /\ TrySendMessage(s, Head(s.sendq))
  <2>1. SendNext(s) = SendFirst(s)
    BY <1>2, Zenon DEF SendNext
  <2> QED BY <1>2, <2>1, FirstMild
<1>3. CASE ~(s.sendq # <<>> /\ TrySendMessage(s, Head(s.sendq)))
  <2>1. SendNext(s) = s
    BY <1>3, Zenon DEF SendNext
  <2> QED BY <1>1, <1>3, <2>1 DEF Stuck
<1> QED BY <1>2, <1>3

LEMMA QueueCalm ==
  ASSUME NEW s \in PeerStates, Base(s), s.sctp \in {"up", "connected"}
  PROVE  LET r == TrySendQueue(s) IN
         /\ Mild(s, r)
         /\ r.sendq # <<>> => Full(r)
         /\ r.stopped /\ r.sendq = <<>> => r.shut
<1> DEFINE n == Len(s.sendq)
           D == {x \in (0 .. n) \X PeerStates :
                   Mild(s, x[2]) /\ (Len(x[2].sendq) <= n - x[1] \/ Stuck(x[2]))}
<1>1. n \in Nat
  BY DEF PeerStates
<1>2. Mild(s, s)
  BY CalmSelf DEF Mild, Calm
<1>3. PICK f : /\ f[0] = s /\ \A i \in 1 .. n : f[i] = SendNext(f[i - 1])
               /\ TrySendQueue(s) = IF Over(f[n]) THEN ShutDown(f[n]) ELSE f[n]
  BY QueueRounds, Zenon
<1>4. n = Len(s.sendq)
  OBVIOUS
<1> HIDE DEF n
<1> DEFINE g == [i \in 0 .. n |-> <<i, f[i]>>]
<1>5. g[0] \in D
  BY <1>1, <1>2, <1>3, <1>4
<1>6. ASSUME NEW i \in 1 .. n, g[i - 1] \in D PROVE g[i] \in D
  <2> DEFINE a == f[i - 1]
             r == SendNext(a)
  <2>1. i - 1 \in 0 .. n /\ i \in 0 .. n /\ i \in Nat
    BY <1>1
  <2>2. g[i - 1] = <<i - 1, a>> /\ g[i] = <<i, r>>
    BY <1>3, <2>1
  <2>3. a \in PeerStates /\ Mild(s, a) /\ (Len(a.sendq) <= n - (i - 1) \/ Stuck(a))
    BY <1>6, <2>1, <2>2
  <2>4. Base(a) /\ a.sctp = s.sctp
    BY <2>3 DEF Mild, Keeps
  <2> HIDE DEF a
  <2>5. /\ Mild(a, r)
        /\ \/ a.sendq # <<>> /\ r.sendq = Tail(a.sendq)
           \/ r = a /\ (a.sendq = <<>> \/ Stuck(a))
    BY <2>3, <2>4, NextMild
  <2>6. a.sendq # <<>> /\ r.sendq = Tail(a.sendq) => TrySendMessage(a, Head(a.sendq))
    <3> SUFFICES ASSUME a.sendq # <<>>, r.sendq = Tail(a.sendq), ~TrySendMessage(a, Head(a.sendq)) PROVE FALSE
      OBVIOUS
    <3>1. r = a
      BY Zenon DEF SendNext
    <3>2. a.sendq \in Seq(Messages)
      BY <2>3 DEF PeerStates
    <3>3. Len(Tail(a.sendq)) # Len(a.sendq)
      BY <3>2
    <3> HIDE DEF r
    <3> QED BY <3>1, <3>3
  <2> HIDE DEF r
  <2>7. Mild(s, r) /\ r \in PeerStates
    BY <2>3, <2>5, MildTrans DEF Mild, Keeps
  <2>8. Len(r.sendq) <= n - i \/ Stuck(r)
    <3>1. CASE a.sendq # <<>> /\ r.sendq = Tail(a.sendq)
      <4>1. ~Stuck(a)
        BY <2>6, <3>1 DEF Stuck
      <4>2. Len(a.sendq) <= n - (i - 1)
        BY <2>3, <4>1
      <4>3. a.sendq \in Seq(Messages)
        BY <2>3 DEF PeerStates
      <4>4. Len(r.sendq) = Len(a.sendq) - 1 /\ Len(a.sendq) \in Nat
        BY <3>1, <4>3
      <4> QED BY <1>1, <2>1, <4>2, <4>4
    <3>2. CASE r = a /\ a.sendq = <<>>
      <4>1. Len(r.sendq) = 0
        BY <3>2
      <4>2. 0 <= n - i
        BY <1>1
      <4> QED BY <4>1, <4>2
    <3>3. CASE r = a /\ Stuck(a)
      BY <3>3
    <3> QED BY <2>5, <3>1, <3>2, <3>3
  <2> QED BY <2>1, <2>2, <2>7, <2>8
<1>7. g[n] \in D
  <2> HIDE DEF D, g
  <2> QED BY <1>1, <1>5, <1>6, RoundsKeep
<1> DEFINE t == f[n]
<1>8. t \in PeerStates /\ Mild(s, t) /\ (Len(t.sendq) <= n - n \/ Stuck(t))
  BY <1>1, <1>7
<1> HIDE DEF t, D, g
<1>9. t.sctp = s.sctp /\ t.stopped = s.stopped /\ Base(t)
  BY <1>8 DEF Mild, Keeps
<1>10. t.sendq # <<>> => Full(t)
  <2> SUFFICES ASSUME t.sendq # <<>> PROVE Full(t)
    OBVIOUS
  <2>1. t.sendq \in Seq(Messages)
    BY <1>8 DEF PeerStates
  <2>2. Len(t.sendq) \in Nat /\ Len(t.sendq) # 0
    BY <2>1
  <2>3. Stuck(t)
    BY <1>1, <1>8, <2>2
  <2> QED BY <1>9, <2>3 DEF Stuck, TrySendMessage, Full
<1>11. CASE ~Over(t)
  <2>1. TrySendQueue(s) = t
    BY <1>3, <1>11 DEF t
  <2>2. t.stopped /\ t.sendq = <<>> => t.shut
    BY <1>9, <1>11 DEF Over
  <2> QED BY <1>8, <1>10, <2>1, <2>2
<1>12. CASE Over(t)
  <2> DEFINE u == ShutDown(t)
  <2>1. TrySendQueue(s) = u
    BY <1>3, <1>12 DEF t
  <2>2. /\ Good(t, u) /\ u.shut /\ u.chan = t.chan /\ u.sendq = t.sendq
        /\ u.wire = Append(t.wire, Shutdown) /\ u.amount = t.amount
    BY <1>8, QueueEnded
  <2> HIDE DEF u
  <2>3. /\ u.reg = t.reg /\ u.unassigned = t.unassigned /\ u.sctp = t.sctp
        /\ u.stopped = t.stopped /\ Keeps(t, u)
    BY <2>2 DEF Good, Keeps
  <2>4. t.wire \in Seq(Messages \cup {Shutdown}) /\ Shutdown.type = "shutdown"
    BY <1>8 DEF PeerStates, Shutdown, Msg
  <2>5. /\ u.wire # <<>> /\ Len(u.wire) = Len(t.wire) + 1 /\ u.wire[Len(u.wire)] = Shutdown
        /\ Len(t.wire) \in Nat
        /\ \A j \in DOMAIN u.wire : j = Len(u.wire) \/ (j \in DOMAIN t.wire /\ u.wire[j] = t.wire[j])
    BY <2>2, <2>4
  <2>6. \A j \in DOMAIN t.wire : t.wire[j].type # "shutdown"
    BY <1>9, <1>12 DEF Over, Base, BaseBut, ShutOK
  <2>7. ShutOK(u)
    BY <1>12, <2>2, <2>3, <2>4, <2>5, <2>6 DEF ShutOK, Over
  <2>8. OpenOK(u)
    <3>1. OpenFits(u, Shutdown)
      BY <2>4 DEF OpenFits
    <3>2. \A j \in DOMAIN t.wire : OpenFits(u, t.wire[j])
      BY <1>9, <2>2 DEF Base, BaseBut, OpenOK, OpenFits
    <3>3. \A j \in DOMAIN u.sendq : OpenFits(u, u.sendq[j])
      BY <1>9, <2>2 DEF Base, BaseBut, OpenOK, OpenFits
    <3> QED BY <2>5, <3>1, <3>2, <3>3 DEF OpenOK
  <2>9. Base(u)
    BY <1>9, <2>2, <2>3, <2>7, <2>8, QueueBase
  <2>10. Mild(t, u)
    BY <2>2, <2>3, <2>9 DEF Mild, Kinds
  <2>11. Mild(s, u)
    BY <1>8, <2>10, MildTrans
  <2> QED BY <1>12, <2>1, <2>2, <2>11 DEF Over
<1> QED BY <1>11, <1>12

LEMMA PushMild ==
  ASSUME NEW s \in PeerStates, Base(s), NEW m \in Messages, OpenFits(s, m), s.sctp # "connecting"
  PROVE  LET r == Push(s, m) IN
         /\ Mild(s, r) /\ r.wire = s.wire /\ r.shut = s.shut /\ r.flush = s.flush
         /\ r.sendq = IF s.stopped THEN s.sendq ELSE Append(s.sendq, m)
<1> DEFINE q == Append(s.sendq, m)
           r == [s EXCEPT !.sendq = q]
<1>1. CASE s.stopped
  <2>1. Push(s, m) = s
    BY <1>1, Zenon DEF Push
  <2>2. Mild(s, s)
    BY CalmSelf DEF Mild, Calm
  <2> QED BY <1>1, <2>1, <2>2
<1>2. CASE ~s.stopped
  <2>1. Push(s, m) = r
    BY <1>2, Zenon DEF Push
  <2>2. /\ q \in Seq(Messages)
        /\ \A j \in DOMAIN q : q[j] = m \/ (j \in DOMAIN s.sendq /\ q[j] = s.sendq[j])
    BY DEF PeerStates
  <2> HIDE DEF q
  <2>3. /\ r \in PeerStates /\ Keeps(s, r) /\ r.sendq = q /\ r.wire = s.wire /\ r.chan = s.chan
        /\ r.reg = s.reg /\ r.unassigned = s.unassigned /\ r.amount = s.amount /\ r.sctp = s.sctp
        /\ r.stopped = s.stopped /\ r.shut = s.shut /\ r.flush = s.flush
    BY <2>2 DEF PeerStates, Keeps
  <2> HIDE DEF r
  <2>4. OpenOK(r)
    <3>1. \A j \in DOMAIN q : OpenFits(s, q[j])
      BY <2>2 DEF Base, BaseBut, OpenOK
    <3> QED BY <2>3, <3>1 DEF OpenOK, OpenFits, Base, BaseBut
  <2>5. ~s.shut
    BY <1>2 DEF Base, BaseBut, ShutOK
  <2>6. ShutOK(r)
    BY <2>3, <2>5 DEF Base, BaseBut, ShutOK
  <2>7. Base(r)
    BY <2>3, <2>4, <2>6, QueueBase
  <2>8. Mild(s, r)
    BY <2>3, <2>7 DEF Mild, Kinds
  <2> QED BY <1>2, <2>1, <2>3, <2>8 DEF q
<1> QED BY <1>1, <1>2

LEMMA WireMild ==
  ASSUME NEW s \in PeerStates, Base(s), NEW m \in Messages, OpenFits(s, m), ~s.shut
  PROVE  LET r == [s EXCEPT !.wire = Append(@, m)] IN
         Mild(s, r) /\ r.sendq = s.sendq
<1> DEFINE w == Append(s.wire, m)
           r == [s EXCEPT !.wire = w]
<1>1. [s EXCEPT !.wire = Append(@, m)] = r
  BY Zenon
<1>2. w \in Seq(Messages \cup {Shutdown}) /\ \A j \in DOMAIN w : OpenFits(s, w[j]) /\ w[j].type # "shutdown"
  BY OnWire
<1> HIDE DEF w
<1>3. /\ r \in PeerStates /\ Keeps(s, r) /\ r.sendq = s.sendq /\ r.wire = w /\ r.chan = s.chan
      /\ r.reg = s.reg /\ r.unassigned = s.unassigned /\ r.amount = s.amount /\ r.sctp = s.sctp
      /\ r.stopped = s.stopped /\ r.shut = s.shut
  BY <1>2 DEF PeerStates, Keeps
<1> HIDE DEF r
<1>4. OpenOK(r)
  BY <1>2, <1>3 DEF OpenOK, OpenFits, Base, BaseBut
<1>5. ShutOK(r)
  BY <1>2, <1>3 DEF ShutOK
<1>6. Base(r)
  <2>1. s.sctp = "connecting" => r.sendq = <<>>
    BY <1>3 DEF Base, BaseBut, BoundOK
  <2> QED BY <1>3, <1>4, <1>5, <2>1, QueueBase
<1>7. Mild(s, r) /\ r.sendq = s.sendq
  BY <1>3, <1>6 DEF Mild, Kinds
<1> QED BY <1>1, <1>7

LEMMA SendCalm ==
  ASSUME NEW s \in PeerStates, Base(s), NEW m \in Messages, m.type # "reset", OpenFits(s, m)
  PROVE  Calm(s, Send(s, m))
<1> DEFINE t == TrySendQueue(s)
           u == [t EXCEPT !.wire = Append(@, m)]
           w == Push(t, m)
           v == UpdateBufferedAmount(w, m.stream, Size(m))
<1>1. Send(s, m) = IF s.sctp \notin {"up", "connected"} THEN s
                   ELSE IF t.shut THEN t
                   ELSE IF t.sendq = <<>> /\ TrySendMessage(t, m) THEN u ELSE v
  BY Zenon DEF Send
<1>2. CASE s.sctp \notin {"up", "connected"}
  BY <1>1, <1>2, CalmSelf
<1>3. CASE s.sctp \in {"up", "connected"}
  <2>1. /\ Mild(s, t) /\ (t.sendq # <<>> => Full(t)) /\ (t.stopped /\ t.sendq = <<>> => t.shut)
    BY <1>3, QueueCalm
  <2>2. t \in PeerStates /\ Base(t) /\ t.sctp = s.sctp
    BY <2>1 DEF Mild, Keeps
  <2>3. OpenFits(t, m)
    <3>1. m.type = "open" => m.k \in Chans
      BY DEF Messages
    <3> QED BY <2>1, <3>1 DEF Mild, Keeps, Kinds, OpenFits
  <2> HIDE DEF t
  <2>4. CASE t.shut
    <3>1. FlushOK(t)
      BY <2>2, <2>4 DEF FlushOK, Base, BaseBut, ShutOK
    <3> QED BY <1>1, <1>3, <2>1, <2>4, <3>1 DEF Calm, Mild
  <2>5. CASE ~t.shut /\ t.sendq = <<>> /\ TrySendMessage(t, m)
    <3>1. Mild(t, u) /\ u.sendq = t.sendq
      BY <2>2, <2>3, <2>5, WireMild
    <3> HIDE DEF u
    <3>2. Mild(s, u)
      BY <2>1, <3>1, MildTrans
    <3>3. u.stopped = t.stopped
      BY <3>1 DEF Mild, Keeps
    <3>4. FlushOK(u)
      BY <2>1, <2>5, <3>1, <3>3 DEF FlushOK
    <3> QED BY <1>1, <1>3, <2>5, <3>2, <3>4 DEF Calm, Mild
  <2>6. CASE ~t.shut /\ ~(t.sendq = <<>> /\ TrySendMessage(t, m))
    <3>1. Full(t)
      BY <1>3, <2>1, <2>2, <2>6 DEF TrySendMessage, Full
    <3>2. /\ Mild(t, w) /\ w.wire = t.wire
          /\ w.sendq = IF t.stopped THEN t.sendq ELSE Append(t.sendq, m)
      BY <1>3, <2>2, <2>3, PushMild
    <3> HIDE DEF w
    <3>3. Mild(s, w)
      BY <2>1, <3>2, MildTrans
    <3>4. w.sendq # <<>> /\ Full(w)
      <4>1. t.sendq \in Seq(Messages)
        BY <2>2 DEF PeerStates
      <4>2. Append(t.sendq, m) # <<>>
        BY <4>1
      <4> QED BY <2>1, <2>6, <3>1, <3>2, <4>2 DEF Full
    <3>5. FlushOK(w) /\ Base(w) /\ w \in PeerStates
      BY <3>3, <3>4 DEF FlushOK, Mild, Keeps
    <3>6. Size(m) \in {-1, 0, 1} /\ m.stream \in Streams
      BY SizeType
    <3>7. Calm(w, v)
      BY <3>5, <3>6, AmountCalm
    <3> HIDE DEF v
    <3>8. Calm(s, w)
      BY <3>3, <3>5 DEF Calm, Mild
    <3> QED BY <1>1, <1>3, <2>6, <3>7, <3>8, CalmTrans
  <2> QED BY <2>4, <2>5, <2>6
<1> QED BY <1>2, <1>3

LEMMA FlushCalm ==
  ASSUME NEW s \in PeerStates, NEW x, BaseBut(s, x)
  PROVE  LET r == EnqueueFlush(s) IN
         Keeps(s, r) /\ Kinds(s, r) /\ BaseBut(r, x) /\ FlushOK(r) /\ r.wire = s.wire
<1> DEFINE b == s.sendq # <<>> \/ (s.stopped /\ ~s.shut)
           r == [s EXCEPT !.flush = b]
<1>1. b \in BOOLEAN
  OBVIOUS
<1>2. EnqueueFlush(s) = r
  BY Zenon DEF EnqueueFlush
<1>3. b <=> s.sendq # <<>> \/ (s.stopped /\ ~s.shut)
  OBVIOUS
<1> HIDE DEF b
<1>4. /\ Keeps(s, r) /\ r.sendq = s.sendq /\ r.amount = s.amount /\ r.flush = b
      /\ r.chan = s.chan /\ r.reg = s.reg /\ r.unassigned = s.unassigned /\ r.sctp = s.sctp
      /\ r.wire = s.wire /\ r.stopped = s.stopped /\ r.shut = s.shut
  BY <1>1 DEF PeerStates, Keeps
<1> HIDE DEF r
<1>5. BaseBut(r, x)
  BY <1>4, BaseSame
<1>6. Kinds(s, r) /\ FlushOK(r)
  BY <1>3, <1>4 DEF Kinds, FlushOK
<1> QED BY <1>2, <1>4, <1>5, <1>6

LEMMA StreamCalm ==
  ASSUME NEW s \in PeerStates, Base(s), s.sctp # "connecting", NEW i \in Streams
  PROVE  Calm(s, CloseStream(s, i)) /\ FlushOK(CloseStream(s, i))
<1> DEFINE m == Msg("reset", i, 0, 0)
           t == Push(s, m)
           r == EnqueueFlush(t)
<1>1. m \in Messages /\ OpenFits(s, m)
  BY ConstantsAssumption DEF Msg, Messages, OpenFits
<1>2. CloseStream(s, i) = r
  BY Zenon DEF CloseStream
<1> HIDE DEF m
<1>3. Mild(s, t) /\ t \in PeerStates /\ BaseBut(t, 0)
  BY <1>1, PushMild DEF Mild, Keeps, Base
<1> HIDE DEF t
<1>4. Keeps(t, r) /\ Kinds(t, r) /\ BaseBut(r, 0) /\ FlushOK(r)
  BY <1>3, FlushCalm
<1> HIDE DEF r
<1>5. Mild(t, r)
  BY <1>4 DEF Mild, Base
<1>6. Mild(s, r)
  BY <1>3, <1>5, MildTrans
<1> QED BY <1>2, <1>4, <1>6 DEF Mild, Calm

-----------------------------------------------------------------------------
(* DataChannel and PeerConnection.                                         *)

\* Close, of a channel whose amount need not be known any more.
LEMMA CloseCalm ==
  ASSUME NEW s \in PeerStates, NEW k \in Chans, BaseBut(s, k)
  PROVE  Calm(s, Close(s, k))
<1> DEFINE c == s.chan[k]
           d == [c EXCEPT !.closed = TRUE]
           t == With(s, k, d)
<1>1. c \in ChanStates
  BY DEF PeerStates
<1>2. Close(s, k) = IF c.closed THEN s
                    ELSE IF c.bound /\ c.stream # None THEN CloseStream(t, c.stream) ELSE t
  BY Zenon DEF Close, With
<1>3. CASE c.closed
  <2>1. AmountBut(s, 0)
    BY <1>3 DEF BaseBut, AmountBut
  <2>2. Base(s)
    BY <2>1 DEF Base, BaseBut
  <2> QED BY <1>2, <1>3, <2>2, CalmSelf
<1>4. CASE ~c.closed
  <2>1. /\ d \in ChanStates /\ d.kind = c.kind /\ d.stream = c.stream /\ d.amount = c.amount
        /\ d.threshold = c.threshold /\ d.waits = c.waits /\ d.closed /\ d.bound = c.bound
    BY <1>1 DEF ChanStates
  <2> HIDE DEF d
  <2>2. Base(t) /\ Kinds(s, t) /\ Keeps(s, t) /\ (FlushOK(s) => FlushOK(t))
    BY <2>1, FlagsCalm
  <2>3. t.sctp = s.sctp /\ t \in PeerStates
    BY <2>2 DEF Keeps
  <2> HIDE DEF t
  <2>4. Calm(s, t)
    BY <2>2 DEF Calm
  <2>5. ASSUME c.bound, c.stream # None PROVE Calm(s, CloseStream(t, c.stream))
    <3>1. s.sctp # "connecting"
      BY <2>5 DEF BaseBut, BoundOK
    <3>2. c.stream \in Streams
      BY <1>1, <2>5 DEF ChanStates
    <3> HIDE DEF c
    <3>3. Calm(t, CloseStream(t, c.stream))
      BY <2>2, <2>3, <3>1, <3>2, StreamCalm
    <3> QED BY <2>4, <3>3, CalmTrans
  <2> QED BY <1>2, <1>4, <2>4, <2>5
<1> QED BY <1>3, <1>4

LEMMA BaseAny ==
  ASSUME NEW s, Base(s), NEW x
  PROVE  BaseBut(s, x)
BY ConstantsAssumption DEF Base, BaseBut, AmountBut, Chans

LEMMA CloseAllCalm ==
  ASSUME NEW s \in PeerStates, NEW ks, Base(s)
  PROVE  Calm(s, CloseAll(s, ks))
<1> DEFINE D == {r \in PeerStates : Calm(s, r)}
<1>1. MaxChans \in Nat /\ Chans = 1 .. MaxChans
  BY ConstantsAssumption DEF Chans
<1>2. s \in D
  BY CalmSelf
<1>3. ASSUME NEW r \in D, NEW k \in Chans PROVE CloseIn(ks, r, k) \in D
  <2>1. r \in PeerStates /\ Calm(s, r) /\ BaseBut(r, k)
    BY BaseAny DEF Calm
  <2>2. Calm(r, Close(r, k))
    BY <2>1, CloseCalm
  <2>3. Calm(s, Close(r, k)) /\ Close(r, k) \in PeerStates
    BY <2>1, <2>2, CalmTrans DEF Calm, Keeps
  <2> QED BY <2>3 DEF CloseIn
<1>4. PICK f : /\ f[0] = s /\ \A k \in Chans : f[k] = CloseIn(ks, f[k - 1], k)
               /\ CloseAll(s, ks) = f[MaxChans]
  BY CloseRounds
<1>5. f[MaxChans] \in D
  <2>1. \A k \in 1 .. MaxChans : f[k - 1] \in D => f[k] \in D
    BY <1>1, <1>3, <1>4
  <2> HIDE DEF D
  <2> QED BY <1>1, <1>2, <1>4, <2>1, RoundsKeep
<1> QED BY <1>4, <1>5

LEMMA OpenCalm ==
  ASSUME NEW s \in PeerStates, Base(s), NEW k \in Chans, s.sctp # "connecting",
         s.chan[k].stream \in Streams, s.chan[k].kind = "out"
  PROVE  Calm(s, Open(s, k))
<1> DEFINE c == s.chan[k]
           d == [c EXCEPT !.bound = TRUE]
           t == With(s, k, d)
           m == Msg("open", c.stream, k, 0)
<1>1. c \in ChanStates
  BY DEF PeerStates
<1>2. Open(s, k) = Send(t, m)
  BY Zenon DEF Open, With
<1>3. m \in Messages /\ m.type = "open" /\ m.k = k /\ m.stream = c.stream
  BY ConstantsAssumption DEF Msg, Messages, Chans
<1>4. /\ d \in ChanStates /\ d.kind = c.kind /\ d.stream = c.stream /\ d.amount = c.amount
      /\ d.threshold = c.threshold /\ d.waits = c.waits /\ d.closed = c.closed
  BY <1>1 DEF ChanStates
<1> HIDE DEF d, m
<1>5. BaseBut(t, 0) /\ Kinds(s, t) /\ Keeps(s, t) /\ (FlushOK(s) => FlushOK(t))
  BY <1>4, FlagsCalm DEF Base
<1> HIDE DEF t
<1>6. Calm(s, t) /\ t \in PeerStates /\ Base(t)
  BY <1>5 DEF Calm, Base, Keeps
<1>7. OpenFits(t, m)
  BY <1>3, <1>5 DEF OpenFits, Kinds, Keeps
<1>8. Calm(t, Send(t, m))
  BY <1>3, <1>6, <1>7, SendCalm
<1> QED BY <1>2, <1>6, <1>8, CalmTrans

\* What assignDataChannels keeps, in more detail than Assigns: channels that
\* this peer created get streams, and each stream goes to one that has none.
Same(s, r) ==
  /\ r.sctp = s.sctp /\ r.stopped = s.stopped /\ r.sendq = s.sendq /\ r.wire = s.wire
  /\ r.shut = s.shut /\ r.flush = s.flush /\ r.amount = s.amount
Hands(s, r) ==
  /\ r \in PeerStates /\ Base(r) /\ Kinds(s, r) /\ Same(s, r)
  /\ \A k \in Chans : s.chan[k].stream # None \/ s.chan[k].kind # "out" =>
                        r.chan[k].stream = s.chan[k].stream

LEMMA HandsTrans ==
  ASSUME NEW s, NEW t, NEW r, Hands(s, t), Hands(t, r)
  PROVE  Hands(s, r)
<1>1. Same(s, r) /\ Kinds(s, r)
  BY DEF Hands, Same, Kinds
<1>2. ASSUME NEW k \in Chans, s.chan[k].stream # None \/ s.chan[k].kind # "out"
      PROVE  r.chan[k].stream = s.chan[k].stream
  BY <1>2 DEF Hands, Kinds
<1> QED BY <1>1, <1>2 DEF Hands

LEMMA HandsSelf ==
  ASSUME NEW s \in PeerStates, Base(s)
  PROVE  Hands(s, s)
BY DEF Hands, Kinds, Same

LEMMA HandsFlush ==
  ASSUME NEW s, NEW r, Hands(s, r), FlushOK(s)
  PROVE  FlushOK(r)
BY DEF Hands, Same, FlushOK, Full

LEMMA OneHands ==
  ASSUME NEW p \in Peers, NEW s \in PeerStates, Base(s), NEW k \in Chans, s.chan[k].kind = "out"
  PROVE  Hands(s, AssignOne(p, s, k))
<1> DEFINE F == Free(p, s)
           i == CHOOSE i \in F : \A h \in F : i <= h
           o == [s EXCEPT !.over = TRUE]
           c == [s.chan[k] EXCEPT !.stream = i]
           t == With(s, k, c)
           reg == [s.reg EXCEPT ![i] = k]
           r == [t EXCEPT !.reg = reg]
<1>1. CASE s.over
  <2>1. AssignOne(p, s, k) = s
    BY <1>1, Zenon DEF AssignOne
  <2> QED BY <2>1, HandsSelf
<1>2. CASE ~s.over /\ (F = {} \/ s.chan[k].stream # None)
  <2>1. AssignOne(p, s, k) = o
    BY <1>2, Zenon DEF AssignOne
  <2>2. /\ o \in PeerStates /\ o.chan = s.chan /\ o.reg = s.reg
        /\ o.unassigned = s.unassigned /\ Same(s, o)
    BY DEF PeerStates, Same
  <2> HIDE DEF o
  <2>3. Base(o)
    BY <2>2, BaseSame DEF Same, Base
  <2> QED BY <2>1, <2>2, <2>3 DEF Hands, Kinds
<1>3. CASE ~s.over /\ F # {} /\ s.chan[k].stream = None
  <2>1. AssignOne(p, s, k) = [s EXCEPT !.chan[k].stream = i, !.reg[i] = k]
    BY <1>3, Zenon DEF AssignOne
  <2>2. \E h \in F : \A g \in F : h <= g
    <3>1. F \subseteq Nat /\ F # {}
      BY <1>3 DEF Free, Streams
    <3> HIDE DEF F
    <3> QED BY <3>1, SetMinimum
  <2>3. i \in F
    <3> HIDE DEF F
    <3> QED BY <2>2
  <2>4. i \in Streams /\ s.reg[i] = 0
    BY <2>3 DEF Free
  <2> HIDE DEF i, F
  <2>5. /\ c \in ChanStates /\ c.stream = i /\ c.kind = s.chan[k].kind /\ c.amount = s.chan[k].amount
        /\ c.closed = s.chan[k].closed /\ c.waits = s.chan[k].waits
        /\ c.threshold = s.chan[k].threshold /\ c.bound = s.chan[k].bound
    <3>1. s.chan[k] \in ChanStates
      BY DEF PeerStates
    <3> QED BY <2>4, <3>1 DEF ChanStates
  <2>6. reg \in [Streams -> 0 .. MaxChans] /\ \A h \in Streams : reg[h] = IF h = i THEN k ELSE s.reg[h]
    BY <2>4, ConstantsAssumption DEF PeerStates, Chans
  <2>7. [s EXCEPT !.chan[k].stream = i, !.reg[i] = k] = r
    BY DEF PeerStates, With
  <2> HIDE DEF c, reg
  <2>8. /\ t \in PeerStates /\ t.chan = [s.chan EXCEPT ![k] = c] /\ Same(s, t)
        /\ t.unassigned = s.unassigned
    BY <2>5, ChanUpdated DEF Same
  <2> HIDE DEF t
  <2>9. /\ r \in PeerStates /\ r.chan = t.chan /\ r.reg = reg /\ Same(s, r)
        /\ r.unassigned = s.unassigned
    BY <2>6, <2>8 DEF PeerStates, Same
  <2> HIDE DEF r
  <2>10. s.chan \in [Chans -> ChanStates]
    BY DEF PeerStates
  <2>11. \A j \in Chans : r.chan[j] = IF j = k THEN c ELSE s.chan[j]
    BY <2>8, <2>9, <2>10
  <2>12. None \notin Streams
    BY DEF None, Streams
  <2>13. RegOK(r)
    <3>1. \A h \in Streams : s.reg[h] # 0 => s.reg[h] \in Chans /\ s.chan[s.reg[h]].stream = h
      BY ConstantsAssumption DEF PeerStates, Chans, Base, BaseBut, RegOK
    <3> QED BY <1>3, <2>5, <2>6, <2>9, <2>11, <2>12, <3>1 DEF RegOK
  <2>14. KindOK(r)
    <3>1. \A j \in DOMAIN s.unassigned : s.unassigned[j] \in Chans
      BY DEF PeerStates
    <3> QED BY <2>5, <2>9, <2>11, <3>1 DEF Base, BaseBut, KindOK
  <2>15. AmountBut(r, 0)
    <3> SUFFICES ASSUME NEW j \in Chans, j # 0, ~r.chan[j].closed
                 PROVE  KnowsAmount(r, j) /\ (r.chan[j].waits => r.chan[j].amount > r.chan[j].threshold)
      BY DEF AmountBut
    <3>1. KnowsAmount(s, j) /\ (s.chan[j].waits => s.chan[j].amount > s.chan[j].threshold)
      BY <2>5, <2>11 DEF Base, BaseBut, AmountBut
    <3>2. CASE j = k
      <4>1. ~(s.chan[k].amount > 0)
        BY <1>3, <2>12, <3>1, <3>2 DEF KnowsAmount
      <4> QED BY <2>5, <2>11, <3>1, <3>2, <4>1 DEF KnowsAmount
    <3>3. CASE j # k
      <4>1. r.chan[j] = s.chan[j]
        BY <2>11, <3>3
      <4>2. KnowsAmount(r, j)
        BY <2>4, <2>6, <2>9, <3>1, <4>1 DEF KnowsAmount, Same
      <4> QED BY <3>1, <4>1, <4>2
    <3> QED BY <3>2, <3>3
  <2>16. OpenOK(r)
    <3>1. ASSUME NEW m \in Messages \cup {Shutdown}, OpenFits(s, m) PROVE OpenFits(r, m)
      <4>1. m.type = "open" => m.k \in Chans /\ m.stream \in Streams
        BY DEF Messages, Shutdown, Msg
      <4> QED BY <1>3, <2>11, <2>12, <3>1, <4>1 DEF OpenFits
    <3>2. /\ \A j \in DOMAIN s.sendq : s.sendq[j] \in Messages
          /\ \A j \in DOMAIN s.wire : s.wire[j] \in Messages \cup {Shutdown}
      BY DEF PeerStates
    <3> QED BY <2>9, <3>1, <3>2 DEF Base, BaseBut, OpenOK, Same
  <2>17. BoundOK(r) /\ ShutOK(r)
    BY <2>5, <2>9, <2>11 DEF Base, BaseBut, BoundOK, ShutOK, Same
  <2>18. Base(r)
    BY <2>13, <2>14, <2>15, <2>16, <2>17 DEF Base, BaseBut
  <2>19. Hands(s, r)
    BY <1>3, <2>5, <2>9, <2>11, <2>18 DEF Hands, Kinds
  <2> QED BY <2>1, <2>7, <2>19
<1> QED BY <1>1, <1>2, <1>3

\* The list changes.
LEMMA ListBase ==
  ASSUME NEW s \in PeerStates, Base(s), NEW r \in PeerStates, r.chan = s.chan, r.reg = s.reg, Same(s, r),
         \A j \in DOMAIN r.unassigned : s.chan[r.unassigned[j]].kind = "out"
  PROVE  Base(r)
<1>1. RegOK(r) /\ KindOK(r)
  BY DEF Base, BaseBut, RegOK, KindOK
<1>2. AmountBut(r, 0)
  BY DEF Base, BaseBut, AmountBut, KnowsAmount, Same
<1>3. OpenOK(r)
  BY DEF Base, BaseBut, OpenOK, OpenFits, Same
<1>4. BoundOK(r) /\ ShutOK(r)
  BY DEF Base, BaseBut, BoundOK, ShutOK, Same
<1> QED BY <1>1, <1>2, <1>3, <1>4 DEF Base, BaseBut

LEMMA AssignHands ==
  ASSUME NEW p \in Peers, NEW s \in PeerStates, Base(s)
  PROVE  Hands(s, Assign(p, s))
<1> DEFINE q == s.unassigned
           n == Len(q)
           D == {r \in PeerStates : Hands(s, r)}
<1>1. n \in Nat /\ \A j \in 1 .. n : q[j] \in Chans /\ s.chan[q[j]].kind = "out"
  BY DEF PeerStates, Base, BaseBut, KindOK
<1>2. s \in D
  BY HandsSelf
<1>3. ASSUME NEW r \in D, NEW j \in 1 .. n PROVE AssignOne(p, r, q[j]) \in D
  <2>1. q[j] \in Chans /\ r \in PeerStates /\ Hands(s, r)
    BY <1>1
  <2>2. Base(r) /\ r.chan[q[j]].kind = "out"
    BY <1>1, <2>1 DEF Hands, Kinds
  <2> HIDE DEF q
  <2>3. Hands(r, AssignOne(p, r, q[j]))
    BY <2>1, <2>2, OneHands
  <2>4. Hands(s, AssignOne(p, r, q[j]))
    BY <2>1, <2>3, HandsTrans
  <2> QED BY <2>4 DEF Hands
<1>4. PICK f : /\ f[0] = s /\ \A j \in 1 .. n : f[j] = AssignOne(p, f[j - 1], q[j])
               /\ Assign(p, s) = Cleared(f[n])
  BY AssignRounds, ZenonT(90)
<1> HIDE DEF n
<1> DEFINE t == f[n]
           u == Cleared(t)
<1>5. t \in D
  <2>1. \A j \in 1 .. n : f[j - 1] \in D => f[j] \in D
    <3> HIDE DEF D
    <3> QED BY <1>3, <1>4
  <2> HIDE DEF D
  <2> QED BY <1>1, <1>2, <1>4, <2>1, RoundsKeep
<1>6. t \in PeerStates /\ Hands(s, t) /\ Base(t)
  BY <1>5 DEF Hands
<1> HIDE DEF t
<1>7. /\ u \in PeerStates /\ u.chan = t.chan /\ u.reg = t.reg /\ Same(t, u)
      /\ u.unassigned \in {<<>>, t.unassigned}
  BY <1>6, ListCleared DEF Assigns, Same
<1>8. Assign(p, s) = u
  BY <1>4 DEF t
<1> HIDE DEF u
<1>9. \A j \in DOMAIN u.unassigned : t.chan[u.unassigned[j]].kind = "out"
  BY <1>6, <1>7 DEF Base, BaseBut, KindOK
<1>10. Base(u)
  BY <1>6, <1>7, <1>9, ListBase
<1>11. Hands(t, u)
  BY <1>7, <1>10 DEF Hands, Kinds
<1> QED BY <1>6, <1>8, <1>11, HandsTrans

LEMMA ChanCalm ==
  ASSUME NEW s \in PeerStates, Base(s), NEW k \in Chans, NEW c \in ChanStates,
         LET o == s.chan[k] IN
         /\ c.kind = o.kind /\ c.stream = o.stream /\ c.amount = o.amount
         /\ c.threshold = o.threshold /\ c.waits = o.waits /\ (o.closed => c.closed)
         /\ c.bound = o.bound
  PROVE  Calm(s, With(s, k, c))
<1>1. BaseBut(s, 0)
  BY DEF Base
<1>2. LET r == With(s, k, c) IN
      BaseBut(r, 0) /\ Kinds(s, r) /\ Keeps(s, r) /\ (FlushOK(s) => FlushOK(r))
  BY <1>1, FlagsCalm
<1> QED BY <1>2 DEF Calm, Base

LEMMA FlagCalm ==
  ASSUME NEW s \in PeerStates, Base(s), NEW k \in Chans
  PROVE  /\ Calm(s, [s EXCEPT !.chan[k].open = TRUE])
         /\ Calm(s, [s EXCEPT !.chan[k].byApp = TRUE])
<1> DEFINE c == s.chan[k]
           c1 == [c EXCEPT !.open = TRUE]
           c2 == [c EXCEPT !.byApp = TRUE]
<1>1. c \in ChanStates
  BY DEF PeerStates
<1>2. /\ [s EXCEPT !.chan[k].open = TRUE] = With(s, k, c1)
      /\ [s EXCEPT !.chan[k].byApp = TRUE] = With(s, k, c2)
  BY Zenon DEF With
<1>3. /\ c1 \in ChanStates /\ c1.kind = c.kind /\ c1.stream = c.stream /\ c1.amount = c.amount
      /\ c1.threshold = c.threshold /\ c1.waits = c.waits /\ c1.closed = c.closed /\ c1.bound = c.bound
  BY <1>1 DEF ChanStates
<1>4. /\ c2 \in ChanStates /\ c2.kind = c.kind /\ c2.stream = c.stream /\ c2.amount = c.amount
      /\ c2.threshold = c.threshold /\ c2.waits = c.waits /\ c2.closed = c.closed /\ c2.bound = c.bound
  BY <1>1 DEF ChanStates
<1> HIDE DEF c1, c2
<1>5. Calm(s, With(s, k, c1)) /\ Calm(s, With(s, k, c2))
  BY <1>3, <1>4, ChanCalm
<1> QED BY <1>2, <1>5

LEMMA ReceiveCalm ==
  ASSUME NEW s \in PeerStates, Base(s), NEW k \in Chans, s.chan[k].stream \in Streams,
         NEW m \in Messages, m.type # "reset"
  PROVE  Calm(s, Incoming(s, k, m))
<1> DEFINE c == s.chan[k]
           a == Msg("ack", c.stream, k, 0)
           t == Send(s, a)
           u == [t EXCEPT !.chan[k].open = TRUE]
           o == [s EXCEPT !.chan[k].open = TRUE]
           g == [c EXCEPT !.got = c.got \cup {m.n}]
           w == With(s, k, g)
           v == [s EXCEPT !.chan[k].got = @ \cup {m.n}]
           z == Close(s, k)
<1>1. Incoming(s, k, m) \in {s, t, u, o, w}
  <2>1. v = w
    BY Zenon DEF With
  <2>2. m.type \in {"open", "ack", "data"}
    BY DEF Messages
  <2>3. Incoming(s, k, m) =
          IF c.closed THEN s
          ELSE CASE m.type = "open" /\ c.kind = "in" -> IF t.shut THEN t ELSE u
                 [] m.type = "ack" -> o
                 [] m.type = "reset" -> z
                 [] m.type = "data" -> v
                 [] OTHER -> s
    BY Zenon DEF Incoming
  <2> HIDE DEF t, u, o, z, w, v, c
  <2>4. Incoming(s, k, m) \in {s, t, u, o, v}
    BY <2>2, <2>3
  <2> QED BY <2>1, <2>4
<1>2. c \in ChanStates
  BY DEF PeerStates
<1>3. Calm(s, t) /\ t \in PeerStates /\ Base(t)
  <2>1. a \in Messages /\ a.type = "ack"
    BY ConstantsAssumption DEF Msg, Messages, Chans
  <2> HIDE DEF a
  <2>2. OpenFits(s, a)
    BY <2>1 DEF OpenFits
  <2>3. Calm(s, t)
    BY <2>1, <2>2, SendCalm
  <2> QED BY <2>3 DEF Calm, Keeps
<1> HIDE DEF t
<1>4. Calm(s, u)
  <2>1. Calm(t, u)
    BY <1>3, FlagCalm
  <2> HIDE DEF u
  <2> QED BY <1>3, <2>1, CalmTrans
<1>5. Calm(s, o) /\ Calm(s, s)
  BY FlagCalm, CalmSelf
<1>6. Calm(s, w)
  <2>1. m.n \in Nat
    BY DEF Messages
  <2>2. /\ g \in ChanStates /\ g.kind = c.kind /\ g.stream = c.stream /\ g.amount = c.amount
        /\ g.threshold = c.threshold /\ g.waits = c.waits /\ g.closed = c.closed /\ g.bound = c.bound
    <3> HIDE DEF c
    <3> QED BY <1>2, <2>1 DEF ChanStates
  <2> HIDE DEF g
  <2> QED BY <2>2, ChanCalm
<1> HIDE DEF u, o, w
<1> QED BY <1>1, <1>3, <1>4, <1>5, <1>6

\* The channel that OPEN makes: the number of a channel of the other peer.
NewIn(i) == [NewChan EXCEPT !.kind = "in", !.stream = i, !.bound = TRUE]
Accepts(s, i, k) == [s EXCEPT !.reg[i] = k, !.chan[k] = NewIn(i)]

LEMMA AcceptBase ==
  ASSUME NEW s \in PeerStates, Base(s), s.sctp # "connecting", NEW i \in Streams, s.reg[i] = 0,
         NEW k \in Chans, s.chan[k].kind # "out", s.chan[k].kind = "in" => s.chan[k].stream = i
  PROVE  LET r == Accepts(s, i, k) IN
         /\ r \in PeerStates /\ Base(r) /\ (FlushOK(s) => FlushOK(r)) /\ r.sctp = s.sctp
         /\ r.chan[k].kind = "in" /\ r.chan[k].stream = i
         /\ \A j \in Chans : j # k => r.chan[j] = s.chan[j]
<1> DEFINE c == NewIn(i)
           t == With(s, k, c)
           reg == [s.reg EXCEPT ![i] = k]
           r == [t EXCEPT !.reg = reg]
<1>1. /\ c \in ChanStates /\ c.kind = "in" /\ c.stream = i /\ c.amount = 0 /\ ~c.waits
  BY DEF NewIn, NewChan, ChanStates, None
<1>2. Accepts(s, i, k) = r
  BY DEF Accepts, With, PeerStates
<1>3. reg \in [Streams -> 0 .. MaxChans] /\ \A h \in Streams : reg[h] = IF h = i THEN k ELSE s.reg[h]
  BY ConstantsAssumption DEF PeerStates, Chans
<1> HIDE DEF c, reg
<1>4. /\ t \in PeerStates /\ t.chan = [s.chan EXCEPT ![k] = c] /\ Same(s, t)
      /\ t.unassigned = s.unassigned
  BY <1>1, ChanUpdated DEF Same
<1> HIDE DEF t
<1>5. /\ r \in PeerStates /\ r.chan = t.chan /\ r.reg = reg /\ Same(s, r)
      /\ r.unassigned = s.unassigned
  BY <1>3, <1>4 DEF PeerStates, Same
<1> HIDE DEF r
<1>6. s.chan \in [Chans -> ChanStates]
  BY DEF PeerStates
<1>7. \A j \in Chans : r.chan[j] = IF j = k THEN c ELSE s.chan[j]
  BY <1>4, <1>5, <1>6
<1>8. None \notin Streams
  BY DEF None, Streams
<1>9. RegOK(r)
  <2>1. \A h \in Streams : s.reg[h] # 0 => s.reg[h] \in Chans /\ s.chan[s.reg[h]].stream = h
    BY ConstantsAssumption DEF PeerStates, Chans, Base, BaseBut, RegOK
  <2>2. s.chan[k].stream \in {i, None}
    <3>1. s.chan[k].kind \in {"none", "in"}
      BY <1>6 DEF ChanStates
    <3> QED BY <3>1 DEF Base, BaseBut, KindOK
  <2> QED BY <1>1, <1>3, <1>5, <1>7, <1>8, <2>1, <2>2 DEF RegOK
<1>10. KindOK(r)
  <2>1. \A j \in DOMAIN s.unassigned : s.unassigned[j] \in Chans
    BY DEF PeerStates
  <2> QED BY <1>1, <1>5, <1>7, <2>1 DEF Base, BaseBut, KindOK
<1>11. AmountBut(r, 0)
  <2> SUFFICES ASSUME NEW j \in Chans, j # 0, ~r.chan[j].closed
               PROVE  KnowsAmount(r, j) /\ (r.chan[j].waits => r.chan[j].amount > r.chan[j].threshold)
    BY DEF AmountBut
  <2>1. CASE j = k
    BY <1>1, <1>7, <2>1 DEF KnowsAmount
  <2>2. CASE j # k
    <3>1. r.chan[j] = s.chan[j]
      BY <1>7, <2>2
    <3>2. KnowsAmount(s, j) /\ (s.chan[j].waits => s.chan[j].amount > s.chan[j].threshold)
      BY <3>1 DEF Base, BaseBut, AmountBut
    <3>3. KnowsAmount(r, j)
      BY <1>3, <1>5, <3>1, <3>2 DEF KnowsAmount, Same
    <3> QED BY <3>1, <3>2, <3>3
  <2> QED BY <2>1, <2>2
<1>12. OpenOK(r)
  <2>1. ASSUME NEW m \in Messages \cup {Shutdown}, OpenFits(s, m) PROVE OpenFits(r, m)
    <3>1. m.type = "open" => m.k \in Chans
      BY DEF Messages, Shutdown, Msg
    <3> QED BY <1>7, <2>1, <3>1 DEF OpenFits
  <2>2. /\ \A j \in DOMAIN s.sendq : s.sendq[j] \in Messages
        /\ \A j \in DOMAIN s.wire : s.wire[j] \in Messages \cup {Shutdown}
    BY DEF PeerStates
  <2> QED BY <1>5, <2>1, <2>2 DEF Base, BaseBut, OpenOK, Same
<1>13. BoundOK(r) /\ ShutOK(r) /\ (FlushOK(s) => FlushOK(r))
  BY <1>5 DEF Base, BaseBut, BoundOK, ShutOK, FlushOK, Full, Same
<1>14. Base(r)
  BY <1>9, <1>10, <1>11, <1>12, <1>13 DEF Base, BaseBut
<1> QED BY <1>1, <1>2, <1>5, <1>7, <1>13, <1>14 DEF Same

\* A reset takes the channel off its stream, and its amount is no longer known.
LEMMA ReleaseBase ==
  ASSUME NEW s \in PeerStates, Base(s), NEW i \in Streams, s.reg[i] # 0
  PROVE  LET r == [s EXCEPT !.reg[i] = 0] IN
         /\ r \in PeerStates /\ BaseBut(r, s.reg[i]) /\ (FlushOK(s) => FlushOK(r)) /\ r.sctp = s.sctp
         /\ r.chan = s.chan
<1> DEFINE reg == [s.reg EXCEPT ![i] = 0]
           r == [s EXCEPT !.reg = reg]
           k == s.reg[i]
<1>1. reg \in [Streams -> 0 .. MaxChans] /\ \A h \in Streams : reg[h] = IF h = i THEN 0 ELSE s.reg[h]
  BY ConstantsAssumption DEF PeerStates
<1>2. [s EXCEPT !.reg[i] = 0] = r
  BY DEF PeerStates
<1> HIDE DEF reg
<1>3. r \in PeerStates /\ r.chan = s.chan /\ r.reg = reg /\ Same(s, r) /\ r.unassigned = s.unassigned
  BY <1>1 DEF PeerStates, Same
<1> HIDE DEF r
<1>4. RegOK(r) /\ KindOK(r)
  BY <1>1, <1>3 DEF Base, BaseBut, RegOK, KindOK
<1>5. AmountBut(r, k)
  <2> SUFFICES ASSUME NEW j \in Chans, j # k, ~r.chan[j].closed
               PROVE  KnowsAmount(r, j) /\ (r.chan[j].waits => r.chan[j].amount > r.chan[j].threshold)
    BY DEF AmountBut
  <2>1. KnowsAmount(s, j) /\ (s.chan[j].waits => s.chan[j].amount > s.chan[j].threshold)
    BY <1>3, ConstantsAssumption DEF Base, BaseBut, AmountBut, Chans
  <2>2. KnowsAmount(r, j)
    BY <1>1, <1>3, <2>1 DEF KnowsAmount, Same
  <2> QED BY <1>3, <2>1, <2>2
<1>6. OpenOK(r)
  BY <1>3 DEF Base, BaseBut, OpenOK, OpenFits, Same
<1>7. BoundOK(r) /\ ShutOK(r) /\ (FlushOK(s) => FlushOK(r))
  BY <1>3 DEF Base, BaseBut, BoundOK, ShutOK, FlushOK, Full, Same
<1>8. BaseBut(r, k)
  BY <1>4, <1>5, <1>6, <1>7 DEF BaseBut
<1> QED BY <1>2, <1>3, <1>7, <1>8 DEF Same

\* A peer after a message: only an OPEN makes a channel.
Accepted(s, m, r) ==
  /\ r \in PeerStates /\ Base(r) /\ (FlushOK(s) => FlushOK(r)) /\ r.sctp = s.sctp
  /\ \A k \in Chans :
       \/ r.chan[k].kind = s.chan[k].kind /\ r.chan[k].stream = s.chan[k].stream
       \/ /\ m.type = "open" /\ k = m.k
          /\ r.chan[k].kind = "in" /\ r.chan[k].stream = m.stream

LEMMA CalmAccepted ==
  ASSUME NEW s, NEW m, NEW r, Calm(s, r)
  PROVE  Accepted(s, m, r)
BY DEF Calm, Keeps, Kinds, Accepted

LEMMA ForwardAccepted ==
  ASSUME NEW p \in Peers, NEW s \in PeerStates, Base(s), s.sctp # "connecting", NEW m \in Messages,
         m.type = "open" => /\ s.chan[m.k].kind # "out"
                            /\ s.chan[m.k].kind = "in" => s.chan[m.k].stream = m.stream
  PROVE  Accepted(s, m, ForwardMessage(p, s, m))
<1> DEFINE i == m.stream
           k == s.reg[i]
           n == Accepts(s, i, m.k)
           z == [s EXCEPT !.reg[i] = 0]
           r == ForwardMessage(p, s, m)
<1>1. i \in Streams
  BY DEF Messages
<1>2. k # 0 => k \in Chans /\ s.chan[k].stream \in Streams
  BY <1>1, ConstantsAssumption DEF Base, BaseBut, RegOK, PeerStates, Chans
<1>3. CASE m.type = "open" /\ k = 0 /\ i % 2 # Parity(p)
  <2>1. r = Incoming(n, m.k, m)
    BY <1>3, Zenon DEF ForwardMessage, Accepts, NewIn
  <2>2. m.k \in Chans
    BY <1>3 DEF Messages
  <2>3. /\ n \in PeerStates /\ Base(n) /\ (FlushOK(s) => FlushOK(n)) /\ n.sctp = s.sctp
        /\ n.chan[m.k].kind = "in" /\ n.chan[m.k].stream = i
        /\ \A j \in Chans : j # m.k => n.chan[j] = s.chan[j]
    BY <1>1, <1>3, <2>2, AcceptBase
  <2> HIDE DEF n, r
  <2>4. Calm(n, r)
    BY <1>1, <1>3, <2>1, <2>2, <2>3, ReceiveCalm
  <2>5. Accepted(s, m, r)
    BY <1>3, <2>3, <2>4 DEF Calm, Keeps, Kinds, Accepted
  <2> QED BY <2>5 DEF r
<1>4. CASE m.type = "reset" /\ k # 0
  <2>1. r = Close(z, k)
    <3>1. r = Incoming(z, k, m)
      BY <1>4, Zenon DEF ForwardMessage
    <3> HIDE DEF z, k, r
    <3>2. Incoming(z, k, m) = Close(z, k)
      <4> DEFINE t == Send(z, Msg("ack", z.chan[k].stream, k, 0))
                 u == IF t.shut THEN t ELSE [t EXCEPT !.chan[k].open = TRUE]
                 o == [z EXCEPT !.chan[k].open = TRUE]
                 v == [z EXCEPT !.chan[k].got = @ \cup {m.n}]
                 w == Close(z, k)
      <4>1. Incoming(z, k, m) =
              IF z.chan[k].closed THEN z
              ELSE CASE m.type = "open" /\ z.chan[k].kind = "in" -> u
                     [] m.type = "ack" -> o
                     [] m.type = "reset" -> w
                     [] m.type = "data" -> v
                     [] OTHER -> z
        BY Zenon DEF Incoming
      <4>2. z.chan[k].closed => w = z
        BY Zenon DEF Close
      <4> HIDE DEF u, o, v, w
      <4>3. Incoming(z, k, m) = w
        BY <1>4, <4>1, <4>2
      <4> QED BY <4>3 DEF w
    <3> QED BY <3>1, <3>2
  <2>2. /\ z \in PeerStates /\ BaseBut(z, k) /\ (FlushOK(s) => FlushOK(z)) /\ z.chan = s.chan
        /\ z.sctp = s.sctp
    BY <1>1, <1>4, ReleaseBase
  <2> HIDE DEF z, k, r
  <2>3. Calm(z, r)
    BY <1>2, <1>4, <2>1, <2>2, CloseCalm
  <2>4. Accepted(s, m, r)
    BY <2>2, <2>3 DEF Calm, Keeps, Kinds, Accepted
  <2> QED BY <2>4 DEF r
<1>5. CASE ~(m.type = "open" /\ k = 0 /\ i % 2 # Parity(p)) /\ ~(m.type = "reset" /\ k # 0)
  <2>1. \/ r = s \/ r = CloseStream(s, i)
        \/ k # 0 /\ (r = Close(s, k) \/ (r = Incoming(s, k, m) /\ m.type # "reset"))
    BY <1>5, Zenon DEF ForwardMessage
  <2>2. k # 0 => BaseBut(s, k)
    BY BaseAny
  <2> HIDE DEF i, k, r
  <2>3. Calm(s, r)
    BY <1>1, <1>2, <2>1, <2>2, CalmSelf, StreamCalm, CloseCalm, ReceiveCalm
  <2> QED BY <2>3, CalmAccepted DEF r
<1> QED BY <1>3, <1>4, <1>5

\* The end of the association.
LEMMA DisconnectBase ==
  ASSUME NEW s \in PeerStates, Base(s)
  PROVE  LET r == Disconnect(s) IN
         /\ r \in PeerStates /\ Base(r) /\ FlushOK(r) /\ TodoOK(r) /\ Kinds(s, r)
         /\ \A k \in Chans : r.chan[k].stream = s.chan[k].stream
<1> DEFINE t == CloseAll(s, Registered(s))
           r == [t EXCEPT !.sctp = "disconnected", !.wire = <<>>, !.flush = FALSE,
                          !.sendq = <<>>, !.task = FALSE, !.todo = {}]
<1>1. Calm(s, t)
  BY CloseAllCalm
<1>2. Disconnect(s) = r
  BY Zenon DEF Disconnect
<1> HIDE DEF t
<1>3. t \in PeerStates /\ Base(t) /\ Kinds(s, t) /\ \A k \in Chans : t.chan[k].stream = s.chan[k].stream
  BY <1>1 DEF Calm, Keeps
<1>4. /\ r \in PeerStates /\ r.sctp = "disconnected" /\ r.reg = t.reg /\ r.chan = t.chan
      /\ r.unassigned = t.unassigned /\ r.amount = t.amount /\ r.stopped = t.stopped
      /\ r.shut = t.shut /\ r.sendq = <<>> /\ r.wire = <<>>
  <2>1. <<>> \in Seq(Messages) /\ <<>> \in Seq(Messages \cup {Shutdown})
    OBVIOUS
  <2> QED BY <1>3, <2>1 DEF PeerStates
<1> HIDE DEF r
<1>5. RegOK(r) /\ KindOK(r)
  BY <1>3, <1>4 DEF Base, BaseBut, RegOK, KindOK
<1>6. AmountBut(r, 0)
  BY <1>3, <1>4 DEF Base, BaseBut, AmountBut, KnowsAmount
<1>7. OpenOK(r) /\ BoundOK(r) /\ FlushOK(r) /\ TodoOK(r)
  BY <1>4 DEF OpenOK, BoundOK, FlushOK, TodoOK
<1>8. ShutOK(r)
  BY <1>3, <1>4 DEF Base, BaseBut, ShutOK
<1> QED BY <1>2, <1>3, <1>4, <1>5, <1>6, <1>7, <1>8 DEF Base, BaseBut, Kinds

-----------------------------------------------------------------------------
(* The actions.                                                            *)

\* The kinds of the channels and their streams are as before, or a channel has
\* got one; then the two peers still agree.
Fits(s, r) ==
  \A k \in Chans : /\ r.chan[k].kind = s.chan[k].kind
                   /\ \/ r.chan[k].stream = s.chan[k].stream
                      \/ s.chan[k].kind = "out" /\ s.chan[k].stream = None

LEMMA FitsPair ==
  ASSUME NEW s, NEW r, NEW o, NEW k \in Chans, Fits(s, r), PairOK(s, o, k), PairOK(o, s, k)
  PROVE  PairOK(r, o, k) /\ PairOK(o, r, k)
<1>1. None \notin Streams
  BY DEF None, Streams
<1> QED BY <1>1 DEF Fits, PairOK

LEMMA CalmFits ==
  ASSUME NEW s, NEW r, Calm(s, r)
  PROVE  Fits(s, r)
BY DEF Calm, Keeps, Kinds, Fits

LEMMA HandsFits ==
  ASSUME NEW s, NEW r, Hands(s, r)
  PROVE  Fits(s, r)
BY DEF Hands, Kinds, Fits

\* One peer changes.
LEMMA LowUpdated ==
  ASSUME IInv, LInv, NEW p \in Peers, NEW r \in PeerStates, Update(p, r), Base(r), FlushOK(r), TodoOK(r),
         made' \in Nat, made' >= made,
         \A k \in Chans : /\ PairOK(r, peer[Other(p)], k) /\ PairOK(peer[Other(p)], r, k)
                          /\ k > made' => r.chan[k].kind = "none"
  PROVE  LInv'
<1>1. Other(p) \in Peers /\ Other(p) # p /\ Other(Other(p)) = p /\ \A q \in Peers : q = p \/ q = Other(p)
  BY DEF Peers, Other
<1>2. peer'[p] = r /\ peer'[Other(p)] = peer[Other(p)]
  BY <1>1 DEF IInv, Update
<1>3. ASSUME NEW q \in Peers PROVE Base(peer'[q]) /\ FlushOK(peer'[q]) /\ TodoOK(peer'[q])
  BY <1>1, <1>2 DEF LInv
<1>4. made \in Nat
  BY ConstantsAssumption DEF IInv
<1>5. ASSUME NEW q \in Peers, NEW k \in Chans
      PROVE  PairOK(peer'[q], peer'[Other(q)], k) /\ (k > made' => peer'[q].chan[k].kind = "none")
  <2>1. k \in Nat
    BY ConstantsAssumption DEF Chans
  <2>2. CASE q = p
    BY <1>2, <2>2
  <2>3. CASE q = Other(p)
    <3>1. Other(q) = p
      BY <1>1, <2>3
    <3>2. k > made => peer[q].chan[k].kind = "none"
      BY DEF LInv
    <3> QED BY <1>2, <1>4, <2>1, <2>3, <3>1, <3>2
  <2> QED BY <1>1, <2>2, <2>3
<1> QED BY <1>3, <1>5 DEF LInv, Base, BaseBut, RegOK, KindOK, AmountBut, KnowsAmount, OpenOK, OpenFits,
                     BoundOK, ShutOK, FlushOK, Full, InBuffer, TodoOK, PairOK

LEMMA LowStep ==
  ASSUME IInv, LInv, NEW p \in Peers, NEW r \in PeerStates, Update(p, r), UNCHANGED made,
         Base(r), FlushOK(r), TodoOK(r), Fits(peer[p], r)
  PROVE  LInv'
<1>1. made' \in Nat /\ made' >= made
  BY ConstantsAssumption DEF IInv
<1>2. Other(p) \in Peers /\ Other(Other(p)) = p
  BY DEF Peers, Other
<1>3. ASSUME NEW k \in Chans
      PROVE  /\ PairOK(r, peer[Other(p)], k) /\ PairOK(peer[Other(p)], r, k)
             /\ k > made' => r.chan[k].kind = "none"
  <2>1. PairOK(peer[p], peer[Other(p)], k) /\ PairOK(peer[Other(p)], peer[p], k)
    BY <1>2 DEF LInv
  <2>2. PairOK(r, peer[Other(p)], k) /\ PairOK(peer[Other(p)], r, k)
    BY <2>1, FitsPair
  <2>3. k > made' => r.chan[k].kind = "none"
    BY DEF LInv, Fits
  <2> QED BY <2>2, <2>3
<1> QED BY <1>1, <1>3, LowUpdated

LEMMA LowCalm ==
  ASSUME IInv, LInv, NEW p \in Peers, NEW r, Update(p, r), UNCHANGED made, Calm(peer[p], r)
  PROVE  LInv'
<1>1. r \in PeerStates /\ Base(r) /\ FlushOK(r) /\ TodoOK(r) /\ Fits(peer[p], r)
  BY CalmFits DEF Calm, Keeps, LInv, TodoOK
<1> QED BY <1>1, LowStep

LEMMA LowPeer ==
  ASSUME IInv, LInv, NEW p \in Peers
  PROVE  /\ peer[p] \in PeerStates /\ OK(peer[p])
         /\ Base(peer[p]) /\ FlushOK(peer[p]) /\ TodoOK(peer[p])
BY DEF IInv, LInv

LEMMA LowSend ==
  ASSUME IInv, LInv, NEW p \in Peers, NEW k \in Chans, SendMessage(p, k)
  PROVE  LInv'
<1> DEFINE s == peer[p]
           c == s.chan[k]
           m == Msg("data", c.stream, k, Len(sent) + 1)
<1>1. s \in PeerStates /\ Base(s)
  BY LowPeer
<1>2. Update(p, Send(s, m)) /\ UNCHANGED made /\ c.stream # None
  BY DEF SendMessage
<1>3. m \in Messages /\ m.type = "data"
  <2>1. c \in ChanStates
    BY <1>1 DEF PeerStates
  <2>2. c.stream \in Streams
    BY <1>2, <2>1 DEF ChanStates
  <2>3. Len(sent) + 1 \in Nat
    BY DEF IInv
  <2> HIDE DEF c
  <2> QED BY <2>2, <2>3, ConstantsAssumption DEF Msg, Messages, Chans
<1> HIDE DEF m
<1>4. OpenFits(s, m)
  BY <1>3 DEF OpenFits
<1>5. Calm(s, Send(s, m))
  BY <1>1, <1>3, <1>4, SendCalm
<1> QED BY <1>2, <1>5, LowCalm

LEMMA LowClose ==
  ASSUME IInv, LInv, NEW p \in Peers, NEW k \in Chans, CloseChannel(p, k)
  PROVE  LInv'
<1> DEFINE s == peer[p]
           t == Close(s, k)
           r == [t EXCEPT !.chan[k].byApp = TRUE]
<1>1. s \in PeerStates /\ Base(s)
  BY LowPeer
<1>2. Update(p, r) /\ UNCHANGED made
  BY DEF CloseChannel
<1>3. Calm(s, t)
  BY <1>1, BaseAny, CloseCalm
<1> HIDE DEF t
<1>4. Calm(t, r)
  BY <1>3, FlagCalm DEF Calm, Keeps
<1> HIDE DEF r
<1>5. Calm(s, r)
  BY <1>3, <1>4, CalmTrans
<1> QED BY <1>2, <1>5, LowCalm

\* The application waits only while the amount is above what it has set.
LEMMA LowThreshold ==
  ASSUME IInv, LInv, NEW p \in Peers, NEW k \in Chans, NEW v \in 0 .. MaxMsgs - 1, SetThreshold(p, k, v)
  PROVE  LInv'
<1> DEFINE s == peer[p]
           o == s.chan[k]
           c == [o EXCEPT !.threshold = v, !.waits = TRUE]
           r == With(s, k, c)
<1>1. s \in PeerStates /\ Base(s) /\ FlushOK(s) /\ TodoOK(s)
  BY LowPeer
<1>2. /\ Update(p, [s EXCEPT !.chan[k].threshold = v, !.chan[k].waits = TRUE]) /\ UNCHANGED made
      /\ o.amount > v
  BY DEF SetThreshold
<1>3. [s EXCEPT !.chan[k].threshold = v, !.chan[k].waits = TRUE] = r
  BY <1>1 DEF With, PeerStates
<1>4. /\ c \in ChanStates /\ c.kind = o.kind /\ c.stream = o.stream /\ c.amount = o.amount
      /\ c.threshold = v /\ c.closed = o.closed /\ c.bound = o.bound
  <2>1. o \in ChanStates /\ v \in Nat
    BY <1>1, ConstantsAssumption DEF PeerStates
  <2> HIDE DEF o
  <2> QED BY <2>1 DEF ChanStates
<1> HIDE DEF c
<1>5. /\ r \in PeerStates /\ r.chan = [s.chan EXCEPT ![k] = c] /\ Same(s, r)
      /\ r.reg = s.reg /\ r.unassigned = s.unassigned /\ r.todo = s.todo
  BY <1>1, <1>4, ChanUpdated DEF Same
<1> HIDE DEF r
<1>6. s.chan \in [Chans -> ChanStates]
  BY <1>1 DEF PeerStates
<1>7. \A j \in Chans : r.chan[j] = IF j = k THEN c ELSE s.chan[j]
  BY <1>5, <1>6
<1>8. RegOK(r)
  <2>1. \A h \in Streams : s.reg[h] # 0 => s.reg[h] \in Chans
    BY <1>1, ConstantsAssumption DEF PeerStates, Chans
  <2> QED BY <1>1, <1>4, <1>5, <1>7, <2>1 DEF Base, BaseBut, RegOK
<1>9. KindOK(r)
  <2>1. \A j \in DOMAIN s.unassigned : s.unassigned[j] \in Chans
    BY <1>1 DEF PeerStates
  <2> QED BY <1>1, <1>4, <1>5, <1>7, <2>1 DEF Base, BaseBut, KindOK
<1>10. AmountBut(r, 0)
  <2> SUFFICES ASSUME NEW j \in Chans, j # 0, ~r.chan[j].closed
               PROVE  KnowsAmount(r, j) /\ (r.chan[j].waits => r.chan[j].amount > r.chan[j].threshold)
    BY DEF AmountBut
  <2>1. KnowsAmount(s, j) /\ (s.chan[j].waits => s.chan[j].amount > s.chan[j].threshold)
    BY <1>1, <1>4, <1>7 DEF Base, BaseBut, AmountBut
  <2>2. KnowsAmount(r, j)
    BY <1>4, <1>5, <1>7, <2>1 DEF KnowsAmount, Same
  <2>3. r.chan[j].waits => r.chan[j].amount > r.chan[j].threshold
    BY <1>2, <1>4, <1>7, <2>1
  <2> QED BY <2>2, <2>3
<1>11. OpenOK(r)
  <2>1. ASSUME NEW m \in Messages \cup {Shutdown}, OpenFits(s, m) PROVE OpenFits(r, m)
    <3>1. m.type = "open" => m.k \in Chans
      BY DEF Messages, Shutdown, Msg
    <3> QED BY <1>4, <1>7, <2>1, <3>1 DEF OpenFits
  <2>2. /\ \A j \in DOMAIN s.sendq : s.sendq[j] \in Messages
        /\ \A j \in DOMAIN s.wire : s.wire[j] \in Messages \cup {Shutdown}
    BY <1>1 DEF PeerStates
  <2> QED BY <1>1, <1>5, <2>1, <2>2 DEF Base, BaseBut, OpenOK, Same
<1>12. BoundOK(r)
  BY <1>1, <1>4, <1>5, <1>7 DEF Base, BaseBut, BoundOK, Same
<1>13. ShutOK(r) /\ FlushOK(r) /\ TodoOK(r)
  BY <1>1, <1>5 DEF Base, BaseBut, ShutOK, FlushOK, Full, TodoOK, Same
<1>14. Base(r)
  BY <1>8, <1>9, <1>10, <1>11, <1>12, <1>13 DEF Base, BaseBut
<1>15. Fits(s, r)
  BY <1>4, <1>7 DEF Fits
<1> QED BY <1>2, <1>3, <1>5, <1>13, <1>14, <1>15, LowStep

LEMMA LowClosePeer ==
  ASSUME IInv, LInv, NEW p \in Peers, ClosePeer(p)
  PROVE  LInv'
<1> DEFINE s == peer[p]
           r == [s EXCEPT !.stopped = TRUE, !.flush = TRUE]
<1>1. s \in PeerStates /\ Base(s)
  BY LowPeer
<1>2. Update(p, r) /\ UNCHANGED made /\ ~s.stopped /\ s.sctp = "connected"
  BY DEF ClosePeer
<1> HIDE DEF s
<1>3. /\ r \in PeerStates /\ r.chan = s.chan /\ r.reg = s.reg /\ r.unassigned = s.unassigned
      /\ r.amount = s.amount /\ r.sctp = s.sctp /\ r.sendq = s.sendq /\ r.wire = s.wire
      /\ r.shut = s.shut /\ r.flush /\ r.stopped
  BY <1>1 DEF PeerStates
<1> HIDE DEF r
<1>4. RegOK(r) /\ KindOK(r)
  BY <1>1, <1>3 DEF Base, BaseBut, RegOK, KindOK
<1>5. AmountBut(r, 0)
  BY <1>1, <1>3 DEF Base, BaseBut, AmountBut, KnowsAmount
<1>6. OpenOK(r)
  BY <1>1, <1>3 DEF Base, BaseBut, OpenOK, OpenFits
<1>7. BoundOK(r) /\ ShutOK(r) /\ FlushOK(r) /\ TodoOK(r)
  BY <1>1, <1>2, <1>3 DEF Base, BaseBut, BoundOK, ShutOK, FlushOK, TodoOK
<1>8. Base(r)
  BY <1>4, <1>5, <1>6, <1>7 DEF Base, BaseBut
<1>9. Fits(s, r)
  BY <1>3 DEF Fits
<1> QED BY <1>2, <1>3, <1>7, <1>8, <1>9, LowStep DEF s

\* SCTP comes up.
LEMMA UpBase ==
  ASSUME NEW s \in PeerStates, Base(s), FlushOK(s), s.sctp \in {"connecting", "up"}, NEW r \in PeerStates,
         r.sctp = (IF s.sctp = "up" THEN "connected" ELSE "up"), r.chan = s.chan, r.reg = s.reg,
         r.unassigned = s.unassigned, r.stopped = s.stopped, r.sendq = s.sendq, r.wire = s.wire,
         r.shut = s.shut, r.flush = s.flush, r.amount = s.amount
  PROVE  Base(r) /\ FlushOK(r) /\ TodoOK(r)
<1>1. RegOK(r) /\ KindOK(r)
  BY DEF Base, BaseBut, RegOK, KindOK
<1>2. AmountBut(r, 0)
  BY DEF Base, BaseBut, AmountBut, KnowsAmount
<1>3. OpenOK(r)
  BY DEF Base, BaseBut, OpenOK, OpenFits
<1>4. ~s.stopped
  BY DEF Base, BaseBut, BoundOK
<1>5. BoundOK(r) /\ ShutOK(r)
  BY <1>4 DEF Base, BaseBut, BoundOK, ShutOK
<1>6. FlushOK(r) /\ TodoOK(r)
  BY DEF FlushOK, Full, TodoOK
<1> QED BY <1>1, <1>2, <1>3, <1>5, <1>6 DEF Base, BaseBut

LEMMA LowConnect ==
  ASSUME IInv, LInv, NEW p \in Peers, Connect(p)
  PROVE  LInv'
<1> DEFINE s == peer[p]
           t == Assign(p, s)
           b == ~t.over
           r == [t EXCEPT !.sctp = "connected", !.task = b]
           u == [s EXCEPT !.sctp = "up"]
<1>1. /\ s \in PeerStates /\ Base(s) /\ FlushOK(s) /\ UNCHANGED made
      /\ \/ s.sctp = "connecting" /\ Update(p, u)
         \/ s.sctp = "up" /\ Update(p, r)
  BY LowPeer DEF Connect
<1> HIDE DEF s
<1>2. CASE s.sctp = "connecting" /\ Update(p, u)
  <2>1. /\ u \in PeerStates /\ u.sctp = "up" /\ u.chan = s.chan /\ u.reg = s.reg
        /\ u.unassigned = s.unassigned /\ u.stopped = s.stopped /\ u.sendq = s.sendq
        /\ u.wire = s.wire /\ u.shut = s.shut /\ u.flush = s.flush /\ u.amount = s.amount
    BY <1>1 DEF PeerStates
  <2> HIDE DEF u
  <2>2. Base(u) /\ FlushOK(u) /\ TodoOK(u)
    BY <1>1, <1>2, <2>1, UpBase
  <2>3. Fits(s, u)
    BY <2>1 DEF Fits
  <2> QED BY <1>1, <1>2, <2>1, <2>2, <2>3, LowStep DEF s
<1>3. CASE s.sctp = "up" /\ Update(p, r)
  <2>1. Hands(s, t)
    BY <1>1, AssignHands
  <2>2. b \in BOOLEAN
    OBVIOUS
  <2> HIDE DEF t, b
  <2>3. t \in PeerStates /\ Base(t) /\ FlushOK(t) /\ t.sctp = "up" /\ Fits(s, t)
    BY <1>1, <1>3, <2>1, HandsFlush, HandsFits DEF Hands, Same
  <2>4. /\ r \in PeerStates /\ r.sctp = "connected" /\ r.chan = t.chan /\ r.reg = t.reg
        /\ r.unassigned = t.unassigned /\ r.stopped = t.stopped /\ r.sendq = t.sendq
        /\ r.wire = t.wire /\ r.shut = t.shut /\ r.flush = t.flush /\ r.amount = t.amount
    BY <2>2, <2>3 DEF PeerStates
  <2> HIDE DEF r
  <2>5. Base(r) /\ FlushOK(r) /\ TodoOK(r)
    BY <2>3, <2>4, UpBase
  <2>6. Fits(s, r)
    BY <2>3, <2>4 DEF Fits
  <2> QED BY <1>1, <1>3, <2>4, <2>5, <2>6, LowStep DEF s
<1> QED BY <1>1, <1>2, <1>3

\* Only what openDataChannels has to do changes.
LEMMA TodoBase ==
  ASSUME NEW s \in PeerStates, Base(s), FlushOK(s), TodoOK(s), NEW r \in PeerStates, r.chan = s.chan,
         r.reg = s.reg, r.unassigned = s.unassigned, Same(s, r),
         s.sctp = "connecting" => r.todo = {}
  PROVE  Base(r) /\ FlushOK(r) /\ TodoOK(r) /\ Fits(s, r)
<1>1. Base(r)
  BY BaseSame DEF Base, Same
<1>2. FlushOK(r) /\ TodoOK(r) /\ Fits(s, r)
  BY DEF FlushOK, Full, TodoOK, Fits, Same
<1> QED BY <1>1, <1>2

LEMMA LowOpen ==
  ASSUME IInv, LInv, NEW p \in Peers, OpenDataChannels(p)
  PROVE  LInv'
<1> DEFINE s == peer[p]
           R == Registered(s)
           r == [s EXCEPT !.task = FALSE, !.todo = R]
           In(k) == s.chan[k].kind = "in" \/ (s.chan[k].open /\ ~s.chan[k].closed)
<1>1. /\ OK(s) /\ s \in PeerStates /\ Base(s) /\ FlushOK(s) /\ TodoOK(s) /\ UNCHANGED made
  BY LowPeer DEF OpenDataChannels
<1>2. CASE Update(p, r)
  <2>1. R \subseteq Chans /\ (s.sctp = "connecting" => R = {})
    BY <1>1, ConstantsAssumption DEF Registered, TodoOK, Chans
  <2> HIDE DEF R, s
  <2>2. /\ r \in PeerStates /\ r.chan = s.chan /\ r.reg = s.reg /\ r.unassigned = s.unassigned
        /\ Same(s, r) /\ r.todo = R
    BY <1>1, <2>1 DEF PeerStates, Same
  <2> HIDE DEF r
  <2>3. Base(r) /\ FlushOK(r) /\ TodoOK(r) /\ Fits(s, r)
    BY <1>1, <2>1, <2>2, TodoBase
  <2> QED BY <1>1, <1>2, <2>2, <2>3, LowStep DEF s
<1>3. ASSUME NEW k \in s.todo,
             Update(p, IF In(k) THEN [s EXCEPT !.todo = @ \ {k}]
                       ELSE Open([s EXCEPT !.todo = @ \ {k}], k))
      PROVE  LInv'
  <2> DEFINE T == s.todo \ {k}
             t == [s EXCEPT !.todo = T]
  <2>1. k \in Chans /\ s.chan[k].stream \in Streams /\ T \subseteq Chans
    BY <1>1 DEF OK, StreamOK, PeerStates
  <2>2. [s EXCEPT !.todo = @ \ {k}] = t
    BY Zenon
  <2>3. s.sctp # "connecting"
    BY <1>1 DEF TodoOK
  <2>4. Update(p, t) \/ (s.chan[k].kind # "in" /\ Update(p, Open(t, k)))
    <3>1. Update(p, IF In(k) THEN t ELSE Open(t, k))
      BY <1>3, <2>2, Zenon
    <3>2. In(k) \/ s.chan[k].kind # "in"
      OBVIOUS
    <3> HIDE DEF t, T, In
    <3> QED BY <3>1, <3>2 DEF In
  <2>5. s.chan[k].kind # "in" => s.chan[k].kind = "out"
    <3>1. s.chan[k].kind \in {"none", "out", "in"}
      BY <1>1, <2>1 DEF PeerStates, ChanStates
    <3>2. s.chan[k].kind # "none"
      BY <1>1, <2>1 DEF Base, BaseBut, KindOK, None, Streams
    <3> QED BY <3>1, <3>2
  <2> HIDE DEF s, T
  <2>6. /\ t \in PeerStates /\ t.chan = s.chan /\ t.reg = s.reg /\ t.unassigned = s.unassigned
        /\ Same(s, t) /\ t.todo = T
    BY <1>1, <2>1 DEF PeerStates, Same
  <2> HIDE DEF t
  <2>7. Base(t) /\ FlushOK(t) /\ TodoOK(t) /\ Fits(s, t)
    BY <1>1, <2>3, <2>6, TodoBase
  <2>8. CASE Update(p, t)
    BY <1>1, <2>6, <2>7, <2>8, LowStep DEF s
  <2>9. CASE s.chan[k].kind # "in" /\ Update(p, Open(t, k))
    <3> DEFINE u == Open(t, k)
    <3>1. Calm(t, u)
      <4>1. t.sctp = s.sctp
        BY <2>6 DEF Same
      <4> QED BY <2>1, <2>3, <2>5, <2>6, <2>7, <2>9, <4>1, OpenCalm
    <3> HIDE DEF u
    <3>2. u \in PeerStates /\ Base(u) /\ FlushOK(u) /\ u.sctp # "connecting"
      BY <2>3, <2>6, <2>7, <3>1 DEF Calm, Keeps, Same
    <3>3. TodoOK(u) /\ Fits(s, u)
      BY <2>6, <3>1, <3>2 DEF TodoOK, Fits, Calm, Keeps, Kinds
    <3> QED BY <1>1, <2>9, <3>2, <3>3, LowStep DEF s, u
  <2> QED BY <2>4, <2>8, <2>9
<1>4. \/ Update(p, r)
      \/ \E k \in s.todo : Update(p, IF In(k) THEN [s EXCEPT !.todo = @ \ {k}]
                                     ELSE Open([s EXCEPT !.todo = @ \ {k}], k))
  BY Zenon DEF OpenDataChannels
<1> HIDE DEF s, r, In
<1> QED BY <1>2, <1>3, <1>4

LEMMA LowFlush ==
  ASSUME IInv, LInv, NEW p \in Peers, Flush(p)
  PROVE  LInv'
<1> DEFINE s == peer[p]
           t == [s EXCEPT !.flush = FALSE]
           q == TrySendQueue(t)
           r == IF t.sctp \in {"up", "connected"} THEN q ELSE t
<1>1. s \in PeerStates /\ Base(s) /\ TodoOK(s) /\ UNCHANGED made /\ Update(p, r)
  BY LowPeer DEF Flush
<1> HIDE DEF s
<1>2. /\ Keeps(s, t) /\ t.chan = s.chan /\ t.reg = s.reg /\ t.unassigned = s.unassigned
      /\ t.amount = s.amount /\ t.sctp = s.sctp /\ t.sendq = s.sendq /\ t.wire = s.wire
      /\ t.stopped = s.stopped /\ t.shut = s.shut /\ t \in PeerStates
  BY <1>1 DEF PeerStates, Keeps
<1> HIDE DEF t
<1>3. Base(t)
  BY <1>1, <1>2, BaseSame DEF Base
<1>4. CASE t.sctp \in {"up", "connected"}
  <2>1. Mild(t, q) /\ (q.sendq # <<>> => Full(q)) /\ (q.stopped /\ q.sendq = <<>> => q.shut)
    BY <1>2, <1>3, <1>4, QueueCalm
  <2>2. r = q
    BY <1>4
  <2> HIDE DEF q, r
  <2>3. q \in PeerStates /\ Base(q) /\ FlushOK(q) /\ TodoOK(q)
    BY <1>4, <2>1 DEF Mild, Keeps, FlushOK, TodoOK
  <2>4. Fits(s, q)
    BY <1>2, <2>1 DEF Mild, Keeps, Kinds, Fits
  <2> QED BY <1>1, <2>2, <2>3, <2>4, LowStep DEF s
<1>5. CASE t.sctp \notin {"up", "connected"}
  <2>1. r = t
    BY <1>5
  <2> HIDE DEF r
  <2>2. t.sctp \in {"connecting", "disconnected"}
    BY <1>2, <1>5 DEF PeerStates
  <2>3. FlushOK(t)
    BY <1>3, <2>2 DEF Base, BaseBut, BoundOK, FlushOK
  <2>4. TodoOK(t) /\ Fits(s, t)
    BY <1>1, <1>2 DEF TodoOK, Keeps, Fits
  <2> QED BY <1>1, <1>2, <1>3, <2>1, <2>3, <2>4, LowStep DEF s
<1> QED BY <1>4, <1>5

\* Close changes only the flag of the channel itself.
LEMMA CloseShape ==
  ASSUME NEW s \in PeerStates, NEW k \in Chans
  PROVE  LET c == s.chan[k]
             d == Close(s, k).chan[k] IN
         /\ d \in ChanStates /\ d.kind = c.kind /\ d.stream = c.stream /\ d.amount = c.amount
         /\ d.threshold = c.threshold /\ d.waits = c.waits /\ d.closed /\ d.bound = c.bound
<1> DEFINE c == s.chan[k]
           e == [c EXCEPT !.closed = TRUE]
           t == With(s, k, e)
           m == Msg("reset", c.stream, 0, 0)
           q == Append(t.sendq, m)
           u == [t EXCEPT !.sendq = q]
           w == Push(t, m)
           b == w.sendq # <<>> \/ (w.stopped /\ ~w.shut)
           x == [w EXCEPT !.flush = b]
<1>1. c \in ChanStates
  BY DEF PeerStates
<1>2. Close(s, k) = IF c.closed THEN s ELSE IF c.bound /\ c.stream # None THEN x ELSE t
  BY Zenon DEF Close, With, CloseStream, EnqueueFlush
<1>3. /\ e \in ChanStates /\ e.kind = c.kind /\ e.stream = c.stream /\ e.amount = c.amount
      /\ e.threshold = c.threshold /\ e.waits = c.waits /\ e.closed /\ e.bound = c.bound
  BY <1>1 DEF ChanStates
<1>4. w = IF t.stopped THEN t ELSE u
  BY Zenon DEF Push
<1> HIDE DEF e, m
<1>5. t \in PeerStates /\ t.chan = [s.chan EXCEPT ![k] = e]
  BY <1>3, ChanUpdated
<1>6. t.chan[k] = e
  BY <1>5 DEF PeerStates
<1> HIDE DEF t, q, b
<1>7. DOMAIN t = DOMAIN [t EXCEPT !.sendq = q] /\ u.chan = t.chan /\ t.chan = t.chan
  BY <1>5 DEF PeerStates
<1>8. w.chan = t.chan
  <2> HIDE DEF w, u
  <2> QED BY <1>4, <1>7
<1>9. x.chan = w.chan
  <2>1. "chan" # "flush"
    OBVIOUS
  <2>2. "chan" \in DOMAIN w
    <3>1. "chan" \in DOMAIN t /\ "chan" \in DOMAIN u
      BY <1>5 DEF PeerStates
    <3> HIDE DEF w, u
    <3> QED BY <1>4, <3>1
  <2> HIDE DEF w
  <2> QED BY <2>1, <2>2
<1> HIDE DEF x, w
<1>10. CASE c.closed
  BY <1>1, <1>2, <1>10
<1>11. CASE ~c.closed
  <2>1. Close(s, k).chan[k] = e
    BY <1>2, <1>6, <1>8, <1>9, <1>11
  <2> HIDE DEF c
  <2> QED BY <1>3, <2>1 DEF c
<1> QED BY <1>10, <1>11

\* A new channel, in the list of those without a stream.
LEMMA CreateBase ==
  ASSUME NEW o \in PeerStates, Base(o), FlushOK(o), TodoOK(o), NEW k \in Chans, o.chan[k].kind = "none"
  PROVE  LET c == [o.chan[k] EXCEPT !.kind = "out"]
             s == [With(o, k, c) EXCEPT !.unassigned = Append(o.unassigned, k)] IN
         /\ s \in PeerStates /\ Base(s) /\ FlushOK(s) /\ TodoOK(s) /\ s.sctp = o.sctp
         /\ s.unassigned = Append(o.unassigned, k)
         /\ \A j \in Chans : s.chan[j] = IF j = k THEN c ELSE o.chan[j]
<1> DEFINE d == o.chan[k]
           c == [d EXCEPT !.kind = "out"]
           w == With(o, k, c)
           q == Append(o.unassigned, k)
           s == [w EXCEPT !.unassigned = q]
<1>1. /\ c \in ChanStates /\ c.kind = "out" /\ c.stream = d.stream /\ c.amount = d.amount
      /\ c.threshold = d.threshold /\ c.waits = d.waits /\ c.closed = d.closed /\ c.bound = d.bound
  <2>1. d \in ChanStates
    BY DEF PeerStates
  <2> HIDE DEF d
  <2> QED BY <2>1 DEF ChanStates
<1>2. /\ q \in Seq(Chans)
      /\ \A j \in DOMAIN q : q[j] = k \/ (j \in DOMAIN o.unassigned /\ q[j] = o.unassigned[j])
  BY DEF PeerStates
<1> HIDE DEF c
<1>4. /\ w \in PeerStates /\ w.chan = [o.chan EXCEPT ![k] = c] /\ Same(o, w) /\ w.reg = o.reg
      /\ w.todo = o.todo
  BY <1>1, ChanUpdated DEF Same
<1> HIDE DEF w, q
<1>5. /\ s \in PeerStates /\ s.chan = w.chan /\ Same(o, s) /\ s.reg = o.reg /\ s.unassigned = q
      /\ s.todo = o.todo
  BY <1>2, <1>4 DEF PeerStates, Same
<1> HIDE DEF s
<1>6. o.chan \in [Chans -> ChanStates]
  BY DEF PeerStates
<1>7. \A j \in Chans : s.chan[j] = IF j = k THEN c ELSE o.chan[j]
  BY <1>4, <1>5, <1>6
<1>8. RegOK(s)
  <2>1. \A h \in Streams : o.reg[h] # 0 => o.reg[h] \in Chans
    BY ConstantsAssumption DEF PeerStates, Chans
  <2> QED BY <1>1, <1>5, <1>7, <2>1 DEF Base, BaseBut, RegOK
<1>9. KindOK(s)
  <2>1. \A j \in DOMAIN o.unassigned : o.unassigned[j] \in Chans
    BY DEF PeerStates
  <2>2. \A j \in DOMAIN q : s.chan[q[j]].kind = "out"
    BY <1>1, <1>2, <1>7, <2>1 DEF Base, BaseBut, KindOK
  <2> QED BY <1>1, <1>5, <1>7, <2>2 DEF Base, BaseBut, KindOK
<1>10. AmountBut(s, 0)
  <2> SUFFICES ASSUME NEW j \in Chans, j # 0, ~s.chan[j].closed
               PROVE  KnowsAmount(s, j) /\ (s.chan[j].waits => s.chan[j].amount > s.chan[j].threshold)
    BY DEF AmountBut
  <2>1. /\ s.chan[j].stream = o.chan[j].stream /\ s.chan[j].amount = o.chan[j].amount
        /\ s.chan[j].threshold = o.chan[j].threshold /\ s.chan[j].waits = o.chan[j].waits
        /\ s.chan[j].closed = o.chan[j].closed
    BY <1>1, <1>7
  <2>2. KnowsAmount(o, j) /\ (o.chan[j].waits => o.chan[j].amount > o.chan[j].threshold)
    BY <2>1 DEF Base, BaseBut, AmountBut
  <2>3. KnowsAmount(s, j)
    BY <1>5, <2>1, <2>2 DEF KnowsAmount, Same
  <2> QED BY <2>1, <2>2, <2>3
<1>11. OpenOK(s)
  <2>1. ASSUME NEW m \in Messages \cup {Shutdown}, OpenFits(o, m) PROVE OpenFits(s, m)
    <3>1. m.type = "open" => m.k \in Chans
      BY DEF Messages, Shutdown, Msg
    <3> QED BY <1>7, <2>1, <3>1 DEF OpenFits
  <2>2. /\ \A j \in DOMAIN o.sendq : o.sendq[j] \in Messages
        /\ \A j \in DOMAIN o.wire : o.wire[j] \in Messages \cup {Shutdown}
    BY DEF PeerStates
  <2> QED BY <1>5, <2>1, <2>2 DEF Base, BaseBut, OpenOK, Same
<1>12. BoundOK(s)
  BY <1>1, <1>5, <1>7 DEF Base, BaseBut, BoundOK, Same
<1>13. ShutOK(s) /\ FlushOK(s) /\ TodoOK(s)
  BY <1>5 DEF Base, BaseBut, ShutOK, FlushOK, Full, TodoOK, Same
<1>14. Base(s)
  BY <1>8, <1>9, <1>10, <1>11, <1>12, <1>13 DEF Base, BaseBut
<1> QED BY <1>5, <1>7, <1>13, <1>14 DEF Same, q, s, w, c

LEMMA LowCreate ==
  ASSUME IInv, LInv, NEW p \in Peers, CreateDataChannel(p)
  PROVE  LInv'
<1> DEFINE o == peer[p]
           k == made + 1
           c == [o.chan[k] EXCEPT !.kind = "out"]
           w == With(o, k, c)
           s == [w EXCEPT !.unassigned = Append(o.unassigned, k)]
           t == Assign(p, s)
           d == [Close(t, k).chan[k] EXCEPT !.byApp = TRUE]
           u == [t EXCEPT !.chan[k] = d, !.unassigned = o.unassigned]
           v == With(t, k, d)
           x == [v EXCEPT !.unassigned = o.unassigned]
           y == Open(t, k)
           z == peer[Other(p)]
<1>1. /\ o \in PeerStates /\ Base(o) /\ FlushOK(o) /\ TodoOK(o) /\ o.unassigned \in Seq(Chans)
  BY LowPeer DEF PeerStates
<1>2. k \in Chans /\ made' = k /\ made' \in Nat /\ made' >= made /\ made \in Nat
  BY ConstantsAssumption DEF IInv, CreateDataChannel, Chans
<1>3. Other(p) \in Peers /\ Other(Other(p)) = p
  BY DEF Peers, Other
<1>4. o.chan[k].kind = "none" /\ z.chan[k].kind = "none"
  BY <1>2, <1>3 DEF LInv
<1>5. [peer[p] EXCEPT !.chan[k].kind = "out", !.unassigned = Append(@, k)] = s
  BY <1>1, <1>2 DEF With, PeerStates
<1>6. \/ Update(p, s)
      \/ s.sctp \in {"up", "connected"} /\ t.over /\ Update(p, u)
      \/ s.sctp \in {"up", "connected"} /\ ~t.over /\ Update(p, y)
  <2> DEFINE s0 == [peer[p] EXCEPT !.chan[k].kind = "out", !.unassigned = Append(@, k)]
             t0 == Assign(p, s0)
             x0 == [t0 EXCEPT !.chan[k] = [Close(t0, k).chan[k] EXCEPT !.byApp = TRUE],
                              !.unassigned = o.unassigned]
  <2>1. IF s0.sctp \notin {"up", "connected"} THEN Update(p, s0)
        ELSE IF t0.over THEN Update(p, x0) ELSE Update(p, Open(t0, k))
    BY DEF CreateDataChannel
  <2>2. s0 = s /\ t0 = t
    BY <1>5, Zenon
  <2>3. x0 = u
    <3> HIDE DEF s0, s, t0
    <3> QED BY <2>2, Zenon
  <2>4. Open(t0, k) = y
    BY <2>2, Zenon
  <2> HIDE DEF s0, s, t0, t, x0, u, y
  <2> QED BY <2>1, <2>2, <2>3, <2>4
<1>7. \A j \in Chans : /\ PairOK(o, z, j) /\ PairOK(z, o, j)
                       /\ j > made => o.chan[j].kind = "none"
  BY <1>3 DEF LInv
<1>8. \A j \in Chans : j > k => j > made
  BY <1>2, ConstantsAssumption DEF Chans
<1> HIDE DEF k
<1>9. c \in ChanStates /\ c.kind = "out"
  <2>1. o.chan[k] \in ChanStates
    BY <1>1, <1>2 DEF PeerStates
  <2> HIDE DEF o
  <2> QED BY <2>1 DEF ChanStates
<1>10. /\ s \in PeerStates /\ Base(s) /\ FlushOK(s) /\ TodoOK(s)
       /\ s.unassigned = Append(o.unassigned, k)
       /\ \A j \in Chans : s.chan[j] = IF j = k THEN c ELSE o.chan[j]
  <2> HIDE DEF o
  <2> QED BY <1>1, <1>2, <1>4, CreateBase
<1> HIDE DEF s, c, z, o
<1>11. \A j \in Chans : PairOK(s, z, j) /\ PairOK(z, s, j) /\ (j > made' => s.chan[j].kind = "none")
  <2> SUFFICES ASSUME NEW j \in Chans
               PROVE  PairOK(s, z, j) /\ PairOK(z, s, j) /\ (j > made' => s.chan[j].kind = "none")
    OBVIOUS
  <2>1. CASE j = k
    <3>1. ~(j > made')
      BY <1>2, <2>1
    <3> QED BY <1>4, <1>9, <1>10, <2>1, <3>1 DEF PairOK
  <2>2. CASE j # k
    <3>1. s.chan[j] = o.chan[j]
      BY <1>10, <2>2
    <3> QED BY <1>2, <1>7, <1>8, <3>1 DEF PairOK
  <2> QED BY <2>1, <2>2
<1>12. ASSUME NEW r \in PeerStates, Update(p, r), Base(r), FlushOK(r), TodoOK(r), Fits(s, r)
       PROVE  LInv'
  <2>1. \A j \in Chans : PairOK(r, z, j) /\ PairOK(z, r, j) /\ (j > made' => r.chan[j].kind = "none")
    <3> SUFFICES ASSUME NEW j \in Chans
                 PROVE  PairOK(r, z, j) /\ PairOK(z, r, j) /\ (j > made' => r.chan[j].kind = "none")
      OBVIOUS
    <3>1. PairOK(r, z, j) /\ PairOK(z, r, j)
      BY <1>11, <1>12, FitsPair
    <3>2. j > made' => r.chan[j].kind = "none"
      BY <1>11, <1>12 DEF Fits
    <3> QED BY <3>1, <3>2
  <2> QED BY <1>2, <1>12, <2>1, LowUpdated DEF z
<1>13. CASE Update(p, s)
  <2>1. Fits(s, s)
    BY DEF Fits
  <2> QED BY <1>10, <1>12, <1>13, <2>1
<1>14. Hands(s, t)
  BY <1>10, AssignHands
<1>15. ~t.over => t.chan[k].stream \in Streams
  <2>1. s.unassigned # <<>> /\ s.unassigned[Len(s.unassigned)] = k
    BY <1>1, <1>2, <1>10
  <2> QED BY <1>10, <2>1, AllAssigned
<1> HIDE DEF t
<1>16. /\ t \in PeerStates /\ Base(t) /\ FlushOK(t) /\ Fits(s, t) /\ t.sctp = s.sctp
       /\ t.chan[k].kind = "out" /\ Kinds(s, t)
  BY <1>2, <1>9, <1>10, <1>14, HandsFlush, HandsFits DEF Hands, Same, Kinds
<1>17. CASE s.sctp \in {"up", "connected"} /\ ~t.over /\ Update(p, y)
  <2>1. Calm(t, y)
    BY <1>2, <1>15, <1>16, <1>17, OpenCalm
  <2> HIDE DEF y
  <2>2. y \in PeerStates /\ Base(y) /\ FlushOK(y) /\ TodoOK(y)
    BY <1>16, <1>17, <2>1 DEF Calm, Keeps, TodoOK
  <2>3. Fits(s, y)
    BY <1>16, <2>1 DEF Calm, Keeps, Kinds, Fits
  <2> QED BY <1>12, <1>17, <2>2, <2>3
<1>18. CASE s.sctp \in {"up", "connected"} /\ t.over /\ Update(p, u)
  <2> DEFINE e == Close(t, k).chan[k]
             h == t.chan[k]
  <2>1. /\ e \in ChanStates /\ e.kind = h.kind /\ e.stream = h.stream /\ e.amount = h.amount
        /\ e.threshold = h.threshold /\ e.waits = h.waits /\ e.closed /\ e.bound = h.bound
    BY <1>2, <1>16, CloseShape
  <2>2. u = x
    BY Zenon DEF With
  <2>3. d = [e EXCEPT !.byApp = TRUE]
    OBVIOUS
  <2> HIDE DEF e, u, d
  <2>4. /\ d \in ChanStates /\ d.kind = h.kind /\ d.stream = h.stream /\ d.amount = h.amount
        /\ d.threshold = h.threshold /\ d.waits = h.waits /\ d.closed /\ d.bound = h.bound
    <3> HIDE DEF h
    <3> QED BY <2>1, <2>3 DEF ChanStates
  <2>5. Calm(t, v)
    BY <1>2, <1>16, <2>4, ChanCalm
  <2> HIDE DEF v
  <2>6. v \in PeerStates /\ Base(v) /\ FlushOK(v) /\ v.sctp = s.sctp /\ Fits(s, v)
    BY <1>16, <2>5 DEF Calm, Keeps, Kinds, Fits
  <2>7. /\ x \in PeerStates /\ x.chan = v.chan /\ x.reg = v.reg /\ Same(v, x)
        /\ x.unassigned = o.unassigned
    BY <1>1, <2>6 DEF PeerStates, Same
  <2> HIDE DEF x
  <2>8. \A j \in DOMAIN x.unassigned : v.chan[x.unassigned[j]].kind = "out"
    <3> SUFFICES ASSUME NEW j \in DOMAIN o.unassigned PROVE v.chan[o.unassigned[j]].kind = "out"
      BY <2>7
    <3>1. o.unassigned[j] \in Chans /\ o.chan[o.unassigned[j]].kind = "out"
      BY <1>1 DEF Base, BaseBut, KindOK
    <3>2. s.chan[o.unassigned[j]].kind = "out"
      BY <1>9, <1>10, <3>1
    <3> QED BY <2>6, <3>1, <3>2 DEF Fits
  <2>9. Base(x)
    BY <2>6, <2>7, <2>8, ListBase
  <2>10. FlushOK(x) /\ TodoOK(x)
    BY <1>18, <2>6, <2>7 DEF FlushOK, Full, TodoOK, Same
  <2>11. Fits(s, x)
    BY <2>6, <2>7 DEF Fits
  <2> QED BY <1>12, <1>18, <2>2, <2>7, <2>9, <2>10, <2>11
<1> HIDE DEF u, y
<1> QED BY <1>6, <1>13, <1>17, <1>18

\* Both peers change.
LEMMA LowBoth ==
  ASSUME UNCHANGED made,
         \A p \in Peers : Base(peer'[p]) /\ FlushOK(peer'[p]) /\ TodoOK(peer'[p]),
         \A p \in Peers, k \in Chans : /\ PairOK(peer'[p], peer'[Other(p)], k)
                                       /\ k > made => peer'[p].chan[k].kind = "none"
  PROVE  LInv'
<1>1. \A p \in Peers : Base(peer[p])' /\ FlushOK(peer[p])' /\ TodoOK(peer[p])'
  BY DEF Base, BaseBut, RegOK, KindOK, AmountBut, KnowsAmount, OpenOK, OpenFits,
         BoundOK, ShutOK, FlushOK, Full, InBuffer, TodoOK
<1>2. \A p \in Peers, k \in Chans : /\ PairOK(peer[p], peer[Other(p)], k)'
                                    /\ k > made' => peer'[p].chan[k].kind = "none"
  BY DEF PairOK
<1> QED BY <1>1, <1>2 DEF LInv

\* The association ends for both.
LEMMA LowEnd ==
  ASSUME IInv, LInv, UNCHANGED made, peer' \in [Peers -> PeerStates],
         \A p \in Peers : peer'[p] = Disconnect(peer[p])
  PROVE  LInv'
<1>1. ASSUME NEW p \in Peers
      PROVE  /\ Base(peer'[p]) /\ FlushOK(peer'[p]) /\ TodoOK(peer'[p])
             /\ \A k \in Chans : /\ peer'[p].chan[k].kind = peer[p].chan[k].kind
                                 /\ peer'[p].chan[k].stream = peer[p].chan[k].stream
  <2> DEFINE s == peer[p]
             r == Disconnect(s)
  <2>1. s \in PeerStates /\ Base(s)
    BY LowPeer
  <2> HIDE DEF s
  <2>2. /\ Base(r) /\ FlushOK(r) /\ TodoOK(r) /\ Kinds(s, r)
        /\ \A k \in Chans : r.chan[k].stream = s.chan[k].stream
    BY <2>1, DisconnectBase
  <2>3. peer'[p] = r
    BY DEF s
  <2> HIDE DEF r
  <2> QED BY <2>2, <2>3 DEF Kinds, s
<1>2. ASSUME NEW p \in Peers, NEW k \in Chans
      PROVE  PairOK(peer'[p], peer'[Other(p)], k) /\ (k > made => peer'[p].chan[k].kind = "none")
  <2>1. Other(p) \in Peers
    BY DEF Peers, Other
  <2> QED BY <1>1, <2>1 DEF LInv, PairOK
<1> QED BY <1>1, <1>2, LowBoth

LEMMA LowLose ==
  ASSUME IInv, LInv, Lose
  PROVE  LInv'
<1>1. \A p \in Peers : Disconnect(peer[p]) \in PeerStates
  BY Disconnected DEF IInv, OK
<1>2. peer' = [p \in Peers |-> Disconnect(peer[p])] /\ UNCHANGED made
  BY DEF Lose
<1>3. peer' \in [Peers -> PeerStates] /\ \A p \in Peers : peer'[p] = Disconnect(peer[p])
  BY <1>1, <1>2
<1> QED BY <1>2, <1>3, LowEnd

\* The first message leaves the wire, and usrsctp has room.
LEMMA UpcallBase ==
  ASSUME NEW o \in PeerStates, Base(o), TodoOK(o), o.wire # <<>>, Head(o.wire).type # "shutdown"
  PROVE  LET r == Upcall([o EXCEPT !.wire = Tail(@)]) IN
         /\ r \in PeerStates /\ Base(r) /\ FlushOK(r) /\ TodoOK(r) /\ Kinds(o, r)
         /\ \A k \in Chans : r.chan[k].stream = o.chan[k].stream
<1> DEFINE w == Tail(o.wire)
           v == [o EXCEPT !.wire = w]
           b == Upcall(v)
<1>1. [o EXCEPT !.wire = Tail(@)] = v
  BY Zenon
<1>2. o.wire \in Seq(Messages \cup {Shutdown})
  BY DEF PeerStates
<1>3. /\ w \in Seq(Messages \cup {Shutdown}) /\ Len(w) = Len(o.wire) - 1 /\ Len(o.wire) \in Nat
      /\ Head(o.wire) = o.wire[1] /\ Len(o.wire) > 0
      /\ \A j \in DOMAIN w : j \in Nat /\ j + 1 \in DOMAIN o.wire /\ w[j] = o.wire[j + 1]
      /\ (Len(o.wire) > 1 => w # <<>> /\ w[Len(w)] = o.wire[Len(o.wire)])
  <2> DEFINE a == o.wire
  <2>1. a \in Seq(Messages \cup {Shutdown}) /\ a # <<>>
    BY <1>2
  <2> HIDE DEF a
  <2>2. /\ Tail(a) \in Seq(Messages \cup {Shutdown}) /\ Len(Tail(a)) = Len(a) - 1 /\ Len(a) \in Nat
        /\ Head(a) = a[1] /\ Len(a) > 0
    BY <2>1
  <2>3. \A j \in DOMAIN Tail(a) : j \in Nat /\ j + 1 \in DOMAIN a /\ Tail(a)[j] = a[j + 1]
    BY <2>1
  <2>4. ASSUME Len(a) > 1 PROVE Tail(a) # <<>> /\ Tail(a)[Len(Tail(a))] = a[Len(a)]
    <3>1. Len(a) - 1 \in DOMAIN Tail(a) /\ (Len(a) - 1) + 1 = Len(a)
      BY <2>1, <2>2, <2>4
    <3>2. Tail(a) # <<>>
      <4> DEFINE tl == Tail(a)
      <4>1. tl \in Seq(Messages \cup {Shutdown}) /\ Len(tl) = Len(a) - 1 /\ Len(a) \in Nat
        BY <2>2
      <4> HIDE DEF tl
      <4>2. tl # <<>>
        BY <2>4, <4>1
      <4> QED BY <4>2 DEF tl
    <3> QED BY <2>2, <2>3, <3>1, <3>2
  <2> QED BY <2>2, <2>3, <2>4 DEF a
<1> HIDE DEF w
<1>4. /\ Keeps(o, v) /\ v \in PeerStates /\ v.sendq = o.sendq /\ v.amount = o.amount /\ v.wire = w
      /\ v.chan = o.chan /\ v.reg = o.reg /\ v.unassigned = o.unassigned /\ v.sctp = o.sctp
      /\ v.stopped = o.stopped /\ v.shut = o.shut
  BY <1>3 DEF PeerStates, Keeps
<1> HIDE DEF v
<1>5. OpenOK(v)
  BY <1>3, <1>4, SMTT(60) DEF Base, BaseBut, OpenOK, OpenFits
<1>6. ShutOK(v)
  <2>1. o.shut => o.stopped /\ o.sendq = <<>>
    BY DEF Base, BaseBut, ShutOK
  <2>2. o.shut /\ o.sctp # "disconnected" => w # <<>> /\ w[Len(w)].type = "shutdown"
    <3> SUFFICES ASSUME o.shut, o.sctp # "disconnected"
                 PROVE  w # <<>> /\ w[Len(w)].type = "shutdown"
      OBVIOUS
    <3>1. o.wire[Len(o.wire)].type = "shutdown"
      BY DEF Base, BaseBut, ShutOK
    <3>2. Len(o.wire) # 1
      BY <1>3, <3>1
    <3> QED BY <1>3, <3>1, <3>2
  <2>3. \A j \in DOMAIN w : w[j].type = "shutdown" => j = Len(w) /\ o.shut
    <3> SUFFICES ASSUME NEW j \in DOMAIN w, w[j].type = "shutdown" PROVE j = Len(w) /\ o.shut
      OBVIOUS
    <3>1. j + 1 = Len(o.wire) /\ o.shut
      BY <1>3 DEF Base, BaseBut, ShutOK
    <3> QED BY <1>3, <3>1
  <2> QED BY <1>4, <2>1, <2>2, <2>3 DEF ShutOK
<1>7. Base(v)
  <2>1. o.sctp = "connecting" => v.sendq = <<>>
    BY <1>4 DEF Base, BaseBut, BoundOK
  <2> QED BY <1>4, <1>5, <1>6, <2>1, QueueBase
<1>8. Keeps(v, b) /\ Kinds(v, b) /\ BaseBut(b, 0) /\ FlushOK(b)
  BY <1>4, <1>7, FlushCalm DEF Upcall, Base
<1> HIDE DEF b
<1>9. /\ b \in PeerStates /\ Base(b) /\ FlushOK(b) /\ TodoOK(b) /\ Kinds(o, b)
      /\ \A k \in Chans : b.chan[k].stream = o.chan[k].stream
  BY <1>4, <1>8 DEF Keeps, Kinds, Base, TodoOK
<1> QED BY <1>1, <1>9 DEF b

LEMMA LowReceive ==
  ASSUME IInv, LInv, NEW p \in Peers, Receive(p)
  PROVE  LInv'
<1> DEFINE q == Other(p)
           s == peer[p]
           o == peer[q]
           m == Head(o.wire)
           d == [peer EXCEPT ![p] = Disconnect(@), ![q] = Disconnect(@)]
           a == IF m.type = "reset" THEN StreamReset(p, s, m.stream) ELSE ForwardMessage(p, s, m)
           b == Upcall([o EXCEPT !.wire = Tail(@)])
<1>1. q \in Peers /\ q # p /\ Other(q) = p /\ \A e \in Peers : e = p \/ e = q
  BY DEF Peers, Other
<1>2. /\ s \in PeerStates /\ Base(s) /\ FlushOK(s) /\ OK(s) /\ OK(o)
      /\ o \in PeerStates /\ Base(o) /\ TodoOK(o) /\ peer \in [Peers -> PeerStates]
  BY <1>1, LowPeer DEF IInv
<1>3. o.wire # <<>> /\ s.sctp = "connected" /\ UNCHANGED made
  BY DEF Receive, CanReceive
<1>4. \/ peer' = d
      \/ m.type # "shutdown" /\ peer' = [peer EXCEPT ![p] = a, ![q] = b]
  <2> DEFINE z == [peer EXCEPT ![p] = a, ![q] = b]
  <2>1. peer' = IF m.type = "shutdown" THEN d ELSE z
    BY Zenon DEF Receive
  <2> HIDE DEF m, z, d
  <2> QED BY <2>1 DEF z
<1>5. CASE peer' = d
  <2>1. Disconnect(s) \in PeerStates /\ Disconnect(o) \in PeerStates
    BY <1>2, Disconnected DEF OK
  <2>2. /\ peer' \in [Peers -> PeerStates]
        /\ peer'[p] = Disconnect(peer[p]) /\ peer'[q] = Disconnect(peer[q])
    <3> HIDE DEF q
    <3> QED BY <1>1, <1>2, <1>5, <2>1
  <2>3. \A e \in Peers : peer'[e] = Disconnect(peer[e])
    <3> HIDE DEF q
    <3> QED BY <1>1, <2>2
  <2> QED BY <1>3, <2>2, <2>3, LowEnd
<1>6. CASE m.type # "shutdown" /\ peer' = [peer EXCEPT ![p] = a, ![q] = b]
  <2>1. m \in Messages /\ OpenFits(o, m)
    <3>1. o.wire \in Seq(Messages \cup {Shutdown})
      BY <1>2 DEF PeerStates
    <3>2. m \in Messages \cup {Shutdown} /\ m = o.wire[1] /\ 1 \in DOMAIN o.wire
      <4> HIDE DEF o
      <4> QED BY <1>3, <3>1
    <3>3. Shutdown.type = "shutdown"
      BY DEF Shutdown, Msg
    <3>4. OpenFits(o, o.wire[1])
      BY <1>2, <3>2 DEF Base, BaseBut, OpenOK
    <3> HIDE DEF m
    <3> QED BY <1>6, <3>2, <3>3, <3>4
  <2>2. \A k \in Chans : /\ PairOK(s, o, k) /\ PairOK(o, s, k)
                         /\ k > made => s.chan[k].kind = "none" /\ o.chan[k].kind = "none"
    BY <1>1 DEF LInv
  <2>3. m.type = "open" => m.k \in Chans /\ m.stream \in Streams
    BY <2>1 DEF Messages
  <2>4. m.type = "open" => /\ s.chan[m.k].kind # "out"
                           /\ s.chan[m.k].kind = "in" => s.chan[m.k].stream = m.stream
    BY <2>1, <2>2, <2>3 DEF PairOK, OpenFits
  <2>5. Accepted(s, m, a)
    <3> DEFINE n == Msg("reset", m.stream, 0, 0)
    <3>1. CASE m.type # "reset"
      <4>1. Accepted(s, m, ForwardMessage(p, s, m))
        <5> HIDE DEF m, s
        <5> QED BY <1>2, <1>3, <2>1, <2>4, ForwardAccepted
      <4> QED BY <3>1, <4>1
    <3>2. CASE m.type = "reset"
      <4>1. n \in Messages /\ n.type = "reset"
        BY <2>1, ConstantsAssumption DEF Msg, Messages
      <4>2. StreamReset(p, s, m.stream) = ForwardMessage(p, s, n)
        BY DEF StreamReset
      <4> HIDE DEF n
      <4>3. Accepted(s, n, ForwardMessage(p, s, n))
        <5> HIDE DEF s
        <5> QED BY <1>2, <1>3, <4>1, ForwardAccepted
      <4>4. a = ForwardMessage(p, s, n)
        BY <3>2, <4>2
      <4> HIDE DEF a, s
      <4> QED BY <4>1, <4>3, <4>4 DEF Accepted
    <3> QED BY <3>1, <3>2
  <2> HIDE DEF a
  <2>6. a \in PeerStates /\ Base(a) /\ FlushOK(a) /\ TodoOK(a)
    BY <1>2, <1>3, <2>5 DEF Accepted, TodoOK
  <2>7. /\ b \in PeerStates /\ Base(b) /\ FlushOK(b) /\ TodoOK(b) /\ Kinds(o, b)
        /\ \A k \in Chans : b.chan[k].stream = o.chan[k].stream
    BY <1>2, <1>3, <1>6, UpcallBase
  <2> HIDE DEF b, m, s, o, q
  <2>8. ASSUME NEW k \in Chans
        PROVE  /\ PairOK(a, b, k) /\ PairOK(b, a, k)
               /\ k > made => a.chan[k].kind = "none" /\ b.chan[k].kind = "none"
    <3>1. b.chan[k].kind = o.chan[k].kind /\ b.chan[k].stream = o.chan[k].stream
      BY <2>7 DEF Kinds
    <3>2. CASE a.chan[k].kind = s.chan[k].kind /\ a.chan[k].stream = s.chan[k].stream
      BY <2>2, <3>1, <3>2 DEF PairOK
    <3>3. CASE /\ m.type = "open" /\ k = m.k
               /\ a.chan[k].kind = "in" /\ a.chan[k].stream = m.stream
      <4>1. o.chan[k].kind = "out" /\ o.chan[k].stream = m.stream /\ m.stream \in Streams
        BY <2>1, <2>3, <3>3 DEF OpenFits
      <4>2. ~(k > made)
        BY <2>2, <4>1
      <4> QED BY <3>1, <3>3, <4>1, <4>2 DEF PairOK
    <3> QED BY <2>5, <3>2, <3>3 DEF Accepted
  <2>9. peer' \in [Peers -> PeerStates] /\ peer'[p] = a /\ peer'[q] = b
    BY <1>1, <1>2, <1>6, <2>6, <2>7
  <2>10. \A e \in Peers : Base(peer'[e]) /\ FlushOK(peer'[e]) /\ TodoOK(peer'[e])
    BY <1>1, <2>6, <2>7, <2>9
  <2>11. ASSUME NEW e \in Peers, NEW k \in Chans
         PROVE  PairOK(peer'[e], peer'[Other(e)], k) /\ (k > made => peer'[e].chan[k].kind = "none")
    <3>1. CASE e = p
      BY <2>8, <2>9, <3>1 DEF q
    <3>2. CASE e = q
      BY <1>1, <2>8, <2>9, <3>2
    <3> QED BY <1>1, <3>1, <3>2
  <2> QED BY <1>3, <2>9, <2>10, <2>11, LowBoth
<1> QED BY <1>4, <1>5, <1>6

-----------------------------------------------------------------------------

LEMMA LowInit == Init => LInv
<1> SUFFICES ASSUME Init PROVE LInv
  OBVIOUS
<1> DEFINE s == NewPeer
<1>1. \A p \in Peers : peer[p] = s /\ Other(p) \in Peers
  BY DEF Init, Peers, Other
<1>2. \A k \in Chans : /\ s.chan[k].kind = "none" /\ s.chan[k].stream = None /\ ~s.chan[k].bound
                       /\ s.chan[k].amount = 0 /\ ~s.chan[k].waits
  BY DEF NewPeer, NewChan
<1>3. /\ s.sctp = "connecting" /\ s.unassigned = <<>> /\ s.sendq = <<>> /\ s.wire = <<>>
      /\ ~s.stopped /\ ~s.shut /\ s.todo = {} /\ \A i \in Streams : s.reg[i] = 0
  BY DEF NewPeer
<1> HIDE DEF s
<1>4. RegOK(s) /\ KindOK(s) /\ AmountBut(s, 0)
  BY <1>2, <1>3 DEF RegOK, KindOK, AmountBut, KnowsAmount
<1>5. OpenOK(s) /\ BoundOK(s) /\ ShutOK(s) /\ FlushOK(s) /\ TodoOK(s)
  BY <1>2, <1>3 DEF OpenOK, BoundOK, ShutOK, FlushOK, TodoOK
<1>6. Base(s)
  BY <1>4, <1>5 DEF Base, BaseBut
<1>7. \A k \in Chans : PairOK(s, s, k)
  BY <1>2 DEF PairOK
<1> QED BY <1>1, <1>2, <1>5, <1>6, <1>7 DEF LInv

LEMMA LowNext ==
  ASSUME IInv, LInv, [Next]_vars
  PROVE  LInv'
<1>1. CASE UNCHANGED vars
  <2>1. peer' = peer /\ made' = made
    BY <1>1 DEF vars
  <2>2. /\ \A p \in Peers : Base(peer'[p]) /\ FlushOK(peer'[p]) /\ TodoOK(peer'[p])
        /\ \A p \in Peers, k \in Chans : /\ PairOK(peer'[p], peer'[Other(p)], k)
                                         /\ k > made => peer'[p].chan[k].kind = "none"
    BY <2>1 DEF LInv
  <2> QED BY <2>1, <2>2, LowBoth
<1>2. ASSUME NEW p \in Peers, Application(p) PROVE LInv'
  BY <1>2, LowCreate, LowClosePeer, LowSend, LowClose, LowThreshold DEF Application
<1>3. ASSUME NEW p \in Peers, Processors(p) PROVE LInv'
  BY <1>3, LowConnect, LowOpen, LowFlush DEF Processors
<1> QED BY <1>1, <1>2, <1>3, LowReceive, LowLose DEF Next

\* mDataChannels and the channels agree on the streams; a channel knows its
\* amount; what is queued will be flushed; the shutdown comes last.
THEOREM LowInvariant == Spec => [](IInv /\ LInv)
<1>1. Init => IInv /\ LInv
  BY InitGood, LowInit
<1>2. IInv /\ LInv /\ [Next]_vars => IInv' /\ LInv'
  BY NextKeeps, LowNext
<1> QED BY <1>1, <1>2, PTL DEF Spec

\* When nothing is on its way, both wires are empty.
LEMMA WiresEmpty ==
  ASSUME IInv, LInv, Quiet, ~Ended, NEW p \in Peers
  PROVE  peer[p].sctp = "connected" /\ peer[p].wire = <<>>
<1> DEFINE q == Other(p)
           w == peer[p].wire
           v == peer[q].wire
<1>1. q \in Peers /\ Other(q) = p
  BY DEF Peers, Other
<1>2. \A e \in Peers : peer[e].sctp = "connected"
  BY LowPeer DEF Quiet, Opening, Ended, PeerStates
<1>3. /\ w \in Seq(Messages \cup {Shutdown}) /\ v \in Seq(Messages \cup {Shutdown})
  BY <1>1, LowPeer DEF PeerStates
<1>4. w # <<>> => \E j \in DOMAIN v : v[j].type # "shutdown"
  BY <1>1, <1>2 DEF Quiet, CanReceive
<1>5. v # <<>> => Head(v).type = "shutdown"
  BY <1>1, <1>2 DEF Quiet, CanReceive
<1>6. \A j \in DOMAIN v : v[j].type = "shutdown" => j = Len(v)
  BY <1>1, LowPeer DEF Base, BaseBut, ShutOK
<1> HIDE DEF w, v, q
<1>7. \A j \in DOMAIN v : v # <<>> /\ Head(v) = v[1] /\ 1 \in DOMAIN v /\ j \in 1 .. Len(v) /\ Len(v) \in Nat
  BY <1>3
<1>8. ASSUME NEW j \in DOMAIN v PROVE v[j].type = "shutdown"
  <2>1. Len(v) = 1
    BY <1>5, <1>6, <1>7
  <2>2. j = 1
    BY <1>7, <2>1
  <2> QED BY <1>5, <1>7, <2>2
<1>9. w = <<>>
  BY <1>4, <1>8
<1> QED BY <1>2, <1>9 DEF w

LEMMA LowHolds ==
  ASSUME IInv, LInv
  PROVE  LowIsReported
<1> SUFFICES ASSUME Quiet, ~Ended, NEW p \in Peers, NEW k \in Chans,
                    peer[p].chan[k].waits, ~peer[p].chan[k].closed
             PROVE  FALSE
  BY DEF LowIsReported
<1> DEFINE s == peer[p]
           c == s.chan[k]
<1>1. s \in PeerStates /\ OK(s) /\ Base(s) /\ FlushOK(s)
  BY LowPeer
<1>2. s.sctp = "connected" /\ s.wire = <<>> /\ ~s.flush
  BY WiresEmpty DEF Quiet
<1> HIDE DEF s
<1>3. ~Full(s)
  <2>1. {j \in DOMAIN <<>> : <<>>[j].type # "reset"} = {}
    OBVIOUS
  <2>2. InBuffer(s.wire) = 0
    BY <1>2, <2>1, FS_EmptySet DEF InBuffer
  <2> QED BY <2>2, ConstantsAssumption DEF Full
<1>4. s.sendq = <<>> /\ (s.stopped => s.shut)
  BY <1>1, <1>2, <1>3 DEF FlushOK
<1>5. ~s.stopped
  BY <1>1, <1>2, <1>4 DEF Base, BaseBut, ShutOK
<1>6. \A i \in Streams : s.amount[i] = 0
  BY <1>1, <1>2, <1>4, <1>5, SizedEmpty DEF OK, Exact
<1>7. KnowsAmount(s, k) /\ c.amount > c.threshold
  BY <1>1, ConstantsAssumption DEF Base, BaseBut, AmountBut, Chans, s
<1>8. c.amount \in Nat /\ c.threshold \in Nat
  BY <1>1 DEF PeerStates, ChanStates
<1>9. c.amount > 0
  BY <1>7, <1>8
<1> QED BY <1>6, <1>7, <1>9 DEF KnowsAmount

\* onBufferedAmountLow is not lost: with any number of channels, messages and
\* streams, any send buffer, applications that send, set thresholds, open and
\* close at any time, and streams that are used again, nobody waits for it on
\* an open channel once SCTP's processor has nothing left to do.
THEOREM LowsReported == Spec => []LowIsReported
<1>1. IInv /\ LInv => LowIsReported
  BY LowHolds
<1> QED BY <1>1, LowInvariant, PTL

-----------------------------------------------------------------------------
(***************************************************************************)
(* What is received was sent on the same channel, channels stay open until *)
(* an application closes one of their ends, a closed channel gives its     *)
(* stream back, and what was accepted arrives: the other properties of     *)
(* Streams, for any number of channels, messages and streams and any send  *)
(* buffer, with applications that leave openDataChannels alone.            *)
(*                                                                         *)
(* Each stream is looked at on its own. Its owner is the peer whose parity *)
(* it has, which alone opens channels on it; q is all the owner has on its *)
(* way, r all the other peer has.                                          *)
(***************************************************************************)

On(q, i, j, type) == q[j].stream = i /\ q[j].type = type
Has(q, i, type) == \E j \in DOMAIN q : On(q, i, j, type)
Uses(q, i) == \E j \in DOMAIN q : q[j].stream = i

\* No OPEN comes before place j.
Old(q, i, j) == \A h \in DOMAIN q : h < j => ~On(q, i, h, "open")

\* What the owner has on its way: the rest of a channel the other peer has under kx,
\* and then the OPEN of another and what is sent on it.
Spoken(q, i, kx) ==
  /\ \A j \in DOMAIN q : q[j].stream = i => q[j].type \in {"open", "data", "reset"}
  /\ \A h, j \in DOMAIN q : On(q, i, h, "open") /\ On(q, i, j, "open") => h = j
  /\ \A j \in DOMAIN q : On(q, i, j, "data") /\ Old(q, i, j) =>
       kx = q[j].k /\ \A h \in DOMAIN q : h < j => ~On(q, i, h, "reset")
  /\ \A h, j \in DOMAIN q : On(q, i, h, "open") /\ On(q, i, j, "data") /\ h < j =>
       q[j].k = q[h].k /\ \A g \in DOMAIN q : h < g /\ g < j => ~On(q, i, g, "reset")
  /\ \A j \in DOMAIN q : On(q, i, j, "open") =>
       kx = 0 \/ \E h \in DOMAIN q : h < j /\ On(q, i, h, "reset")

\* What the other peer has on its way is for the channel the owner has under ko.
Answered(r, i, ko, bo) ==
  /\ \A j \in DOMAIN r : r[j].stream = i =>
       /\ r[j].type \in {"ack", "data", "reset"} /\ ko # 0 /\ bo
       /\ r[j].type # "reset" => r[j].k = ko
  /\ \A h, j \in DOMAIN r : On(r, i, h, "reset") /\ r[j].stream = i => j <= h

\* The two ends of a stream: the channels registered at the owner (ko) and at the
\* other peer (kx), whether they are bound and not closed (bo, lo, lx), and whether
\* the queues of the peers are stopped (so, sx).
Views == [ko : 0 .. MaxChans, kx : 0 .. MaxChans, bo : BOOLEAN, lo : BOOLEAN, lx : BOOLEAN,
          so : BOOLEAN, sx : BOOLEAN]

OpenIsNew(q, r, i, v) ==
  \A j \in DOMAIN q : On(q, i, j, "open") => v.ko = q[j].k /\ v.bo /\ ~Uses(r, i)
OwnerLives(q, i, v) ==
  v.lo /\ ~v.so =>
    \/ \E j \in DOMAIN q : /\ On(q, i, j, "open")
                           /\ \A h \in DOMAIN q : j < h => ~On(q, i, h, "reset")
    \/ ~Has(q, i, "open") /\ ~Has(q, i, "reset") /\ v.kx = v.ko
OpenLives(q, i, v) ==
  \A j \in DOMAIN q :
    /\ On(q, i, j, "open") /\ ~v.so
    /\ \A h \in DOMAIN q : j < h => ~On(q, i, h, "reset")
    => v.lo
OtherWaits(q, i, v) ==
  ~v.so /\ v.kx # 0 /\ ~Has(q, i, "reset") => v.kx = v.ko /\ v.lo
OtherLives(q, r, i, v) ==
  v.lx => v.ko = v.kx /\ v.bo /\ ~Has(q, i, "open") /\ ~Has(r, i, "reset")
OwnerWaits(q, r, i, v) ==
  ~v.so /\ ~v.sx /\ v.bo => Has(q, i, "open") \/ Has(r, i, "reset") \/ (v.kx = v.ko /\ v.lx)
Joined(q, r, i, v) ==
  /\ OpenIsNew(q, r, i, v) /\ OwnerLives(q, i, v) /\ OpenLives(q, i, v)
  /\ OtherWaits(q, i, v) /\ OtherLives(q, r, i, v) /\ OwnerWaits(q, r, i, v)

\* A reset is for a channel that an application has closed; S are those.
Meant(q, r, i, v, S) ==
  /\ \A j \in DOMAIN q : On(q, i, j, "reset") =>
       \/ \E h \in DOMAIN q : h < j /\ On(q, i, h, "open") /\ q[h].k \in S
       \/ Old(q, i, j) /\ (v.kx = 0 \/ v.kx \in S)
  /\ Has(r, i, "reset") => v.ko \in S

Stream(q, r, i, v, S) ==
  /\ Spoken(q, i, v.kx) /\ Answered(r, i, v.ko, v.bo) /\ Joined(q, r, i, v) /\ Meant(q, r, i, v, S)
  /\ v.lo => v.bo
  /\ v.bo => v.ko # 0
  /\ v.lx => v.kx # 0

-----------------------------------------------------------------------------
(* Lines: a message is added at the end or taken from the front.           *)

Adds(q, u, m) ==
  \E n \in Nat : /\ DOMAIN q = 1 .. n /\ DOMAIN u = 1 .. (n + 1) /\ u[n + 1] = m
                 /\ \A j \in 1 .. n : u[j] = q[j]
Takes(q, u, m) ==
  \E n \in Nat : /\ DOMAIN u = 1 .. n /\ DOMAIN q = 1 .. (n + 1) /\ q[1] = m
                 /\ \A j \in 1 .. n : u[j] = q[j + 1]

\* u has the same messages of stream i as q, d places earlier.
Mirrors(q, u, i) ==
  \E d \in {0, 1} :
    /\ DOMAIN q \subseteq Nat /\ DOMAIN u \subseteq Nat
    /\ \A j \in DOMAIN u : u[j].stream = i => j + d \in DOMAIN q /\ q[j + d] = u[j]
    /\ \A j \in DOMAIN q : q[j].stream = i => j - d \in DOMAIN u /\ u[j - d] = q[j]

LEMMA AddsMirrors ==
  ASSUME NEW q, NEW u, NEW m, NEW i, Adds(q, u, m), m.stream # i
  PROVE  Mirrors(q, u, i)
<1>1. PICK n \in Nat : /\ DOMAIN q = 1 .. n /\ DOMAIN u = 1 .. (n + 1) /\ u[n + 1] = m
                       /\ \A j \in 1 .. n : u[j] = q[j]
  BY DEF Adds
<1>2. /\ DOMAIN q \subseteq Nat /\ DOMAIN u \subseteq Nat
      /\ \A j \in DOMAIN u : u[j].stream = i => j + 0 \in DOMAIN q /\ q[j + 0] = u[j]
      /\ \A j \in DOMAIN q : q[j].stream = i => j - 0 \in DOMAIN u /\ u[j - 0] = q[j]
  BY <1>1
<1> QED BY <1>2 DEF Mirrors

LEMMA TakesMirrors ==
  ASSUME NEW q, NEW u, NEW m, NEW i, Takes(q, u, m), m.stream # i
  PROVE  Mirrors(q, u, i)
<1>1. PICK n \in Nat : /\ DOMAIN u = 1 .. n /\ DOMAIN q = 1 .. (n + 1) /\ q[1] = m
                       /\ \A j \in 1 .. n : u[j] = q[j + 1]
  BY DEF Takes
<1>2. /\ DOMAIN q \subseteq Nat /\ DOMAIN u \subseteq Nat
      /\ \A j \in DOMAIN u : u[j].stream = i => j + 1 \in DOMAIN q /\ q[j + 1] = u[j]
      /\ \A j \in DOMAIN q : q[j].stream = i => j - 1 \in DOMAIN u /\ u[j - 1] = q[j]
  BY <1>1
<1> QED BY <1>2 DEF Mirrors

LEMMA SelfMirrors ==
  ASSUME NEW q, NEW i, DOMAIN q \subseteq Nat
  PROVE  Mirrors(q, q, i)
<1>1. /\ \A j \in DOMAIN q : q[j].stream = i => j + 0 \in DOMAIN q /\ q[j + 0] = q[j]
      /\ \A j \in DOMAIN q : q[j].stream = i => j - 0 \in DOMAIN q /\ q[j - 0] = q[j]
  OBVIOUS
<1> QED BY <1>1 DEF Mirrors

\* What is on its way on a stream does not change with the other streams.
LEMMA MirrorHas ==
  ASSUME NEW q, NEW u, NEW i, Mirrors(q, u, i)
  PROVE  /\ \A type : Has(u, i, type) <=> Has(q, i, type)
         /\ Uses(u, i) <=> Uses(q, i)
BY DEF Mirrors, Has, Uses, On

LEMMA MirrorSpoken ==
  ASSUME NEW q, NEW u, NEW i, NEW kx, Mirrors(q, u, i), Spoken(q, i, kx)
  PROVE  Spoken(u, i, kx)
<1>1. PICK d \in {0, 1} :
        /\ DOMAIN q \subseteq Nat /\ DOMAIN u \subseteq Nat
        /\ \A j \in DOMAIN u : u[j].stream = i => j + d \in DOMAIN q /\ q[j + d] = u[j]
        /\ \A j \in DOMAIN q : q[j].stream = i => j - d \in DOMAIN u /\ u[j - d] = q[j]
  BY DEF Mirrors
<1>2. \A j \in DOMAIN u : u[j].stream = i => u[j].type \in {"open", "data", "reset"}
  BY <1>1 DEF Spoken
<1>3. \A h, j \in DOMAIN u : On(u, i, h, "open") /\ On(u, i, j, "open") => h = j
  BY <1>1 DEF Spoken, On
<1>4. ASSUME NEW j \in DOMAIN u, On(u, i, j, "data"), Old(u, i, j)
      PROVE  kx = u[j].k /\ \A h \in DOMAIN u : h < j => ~On(u, i, h, "reset")
  <2>1. j + d \in DOMAIN q /\ On(q, i, j + d, "data") /\ q[j + d] = u[j]
    BY <1>1, <1>4 DEF On
  <2>2. Old(q, i, j + d)
    BY <1>1, <1>4 DEF Old, On
  <2>3. kx = u[j].k /\ \A h \in DOMAIN q : h < j + d => ~On(q, i, h, "reset")
    BY <2>1, <2>2 DEF Spoken
  <2> QED BY <1>1, <2>3 DEF On
<1>5. ASSUME NEW h \in DOMAIN u, NEW j \in DOMAIN u, On(u, i, h, "open"), On(u, i, j, "data"), h < j
      PROVE  u[j].k = u[h].k /\ \A g \in DOMAIN u : h < g /\ g < j => ~On(u, i, g, "reset")
  <2>1. /\ h + d \in DOMAIN q /\ On(q, i, h + d, "open") /\ q[h + d] = u[h]
        /\ j + d \in DOMAIN q /\ On(q, i, j + d, "data") /\ q[j + d] = u[j] /\ h + d < j + d
    BY <1>1, <1>5 DEF On
  <2>2. /\ u[j].k = u[h].k
        /\ \A g \in DOMAIN q : h + d < g /\ g < j + d => ~On(q, i, g, "reset")
    BY <2>1 DEF Spoken
  <2> QED BY <1>1, <2>2 DEF On
<1>6. ASSUME NEW j \in DOMAIN u, On(u, i, j, "open")
      PROVE  kx = 0 \/ \E h \in DOMAIN u : h < j /\ On(u, i, h, "reset")
  <2>1. j + d \in DOMAIN q /\ On(q, i, j + d, "open")
    BY <1>1, <1>6 DEF On
  <2>2. kx = 0 \/ \E h \in DOMAIN q : h < j + d /\ On(q, i, h, "reset")
    BY <2>1 DEF Spoken
  <2> QED BY <1>1, <2>2 DEF On
<1> QED BY <1>2, <1>3, <1>4, <1>5, <1>6 DEF Spoken

LEMMA MirrorAnswered ==
  ASSUME NEW r, NEW z, NEW i, NEW ko, NEW bo, Mirrors(r, z, i), Answered(r, i, ko, bo)
  PROVE  Answered(z, i, ko, bo)
<1>1. PICK d \in {0, 1} :
        /\ DOMAIN r \subseteq Nat /\ DOMAIN z \subseteq Nat
        /\ \A j \in DOMAIN z : z[j].stream = i => j + d \in DOMAIN r /\ r[j + d] = z[j]
        /\ \A j \in DOMAIN r : r[j].stream = i => j - d \in DOMAIN z /\ z[j - d] = r[j]
  BY DEF Mirrors
<1>2. \A j \in DOMAIN z : z[j].stream = i =>
        /\ z[j].type \in {"ack", "data", "reset"} /\ ko # 0 /\ bo
        /\ z[j].type # "reset" => z[j].k = ko
  BY <1>1 DEF Answered
<1>3. ASSUME NEW h \in DOMAIN z, NEW j \in DOMAIN z, On(z, i, h, "reset"), z[j].stream = i
      PROVE  j <= h
  <2>1. /\ h + d \in DOMAIN r /\ On(r, i, h + d, "reset")
        /\ j + d \in DOMAIN r /\ r[j + d].stream = i
    BY <1>1, <1>3 DEF On
  <2>2. j + d <= h + d
    BY <2>1 DEF Answered
  <2> QED BY <1>1, <2>2
<1> QED BY <1>2, <1>3 DEF Answered

LEMMA MirrorJoined ==
  ASSUME NEW q, NEW u, NEW r, NEW z, NEW i, NEW v, Mirrors(q, u, i), Mirrors(r, z, i), Joined(q, r, i, v)
  PROVE  Joined(u, z, i, v)
<1>1. PICK d \in {0, 1} :
        /\ DOMAIN q \subseteq Nat /\ DOMAIN u \subseteq Nat
        /\ \A j \in DOMAIN u : u[j].stream = i => j + d \in DOMAIN q /\ q[j + d] = u[j]
        /\ \A j \in DOMAIN q : q[j].stream = i => j - d \in DOMAIN u /\ u[j - d] = q[j]
  BY DEF Mirrors
<1>2. /\ \A type : Has(u, i, type) <=> Has(q, i, type)
      /\ \A type : Has(z, i, type) <=> Has(r, i, type)
      /\ Uses(z, i) <=> Uses(r, i)
  BY MirrorHas
<1>3. OpenIsNew(u, z, i, v)
  BY <1>1, <1>2 DEF Joined, OpenIsNew, On
<1>4. OwnerLives(u, i, v)
  <2> SUFFICES ASSUME v.lo, ~v.so, ~(~Has(q, i, "open") /\ ~Has(q, i, "reset") /\ v.kx = v.ko)
               PROVE  \E j \in DOMAIN u : /\ On(u, i, j, "open")
                                          /\ \A h \in DOMAIN u : j < h => ~On(u, i, h, "reset")
    BY <1>2 DEF OwnerLives
  <2>1. PICK j \in DOMAIN q : On(q, i, j, "open") /\ \A h \in DOMAIN q : j < h => ~On(q, i, h, "reset")
    BY DEF Joined, OwnerLives
  <2>2. j - d \in DOMAIN u /\ On(u, i, j - d, "open")
    BY <1>1, <2>1 DEF On
  <2>3. \A h \in DOMAIN u : j - d < h => ~On(u, i, h, "reset")
    BY <1>1, <2>1 DEF On
  <2> QED BY <2>2, <2>3
<1>6. OpenLives(u, i, v)
  <2> SUFFICES ASSUME NEW j \in DOMAIN u, On(u, i, j, "open"), ~v.so,
                      \A h \in DOMAIN u : j < h => ~On(u, i, h, "reset")
               PROVE  v.lo
    BY DEF OpenLives
  <2>1. j + d \in DOMAIN q /\ On(q, i, j + d, "open")
    BY <1>1 DEF On
  <2>2. \A h \in DOMAIN q : j + d < h => ~On(q, i, h, "reset")
    BY <1>1 DEF On
  <2> QED BY <2>1, <2>2 DEF Joined, OpenLives
<1>5. OtherWaits(u, i, v) /\ OtherLives(u, z, i, v) /\ OwnerWaits(u, z, i, v)
  BY <1>2 DEF Joined, OtherWaits, OtherLives, OwnerWaits
<1> QED BY <1>3, <1>4, <1>5, <1>6 DEF Joined

LEMMA MirrorMeant ==
  ASSUME NEW q, NEW u, NEW r, NEW z, NEW i, NEW v, NEW S, NEW T, Mirrors(q, u, i), Mirrors(r, z, i),
         S \subseteq T, Meant(q, r, i, v, S)
  PROVE  Meant(u, z, i, v, T)
<1>1. PICK d \in {0, 1} :
        /\ DOMAIN q \subseteq Nat /\ DOMAIN u \subseteq Nat
        /\ \A j \in DOMAIN u : u[j].stream = i => j + d \in DOMAIN q /\ q[j + d] = u[j]
        /\ \A j \in DOMAIN q : q[j].stream = i => j - d \in DOMAIN u /\ u[j - d] = q[j]
  BY DEF Mirrors
<1>2. Has(z, i, "reset") => v.ko \in T
  BY MirrorHas DEF Meant
<1>3. ASSUME NEW j \in DOMAIN u, On(u, i, j, "reset")
      PROVE  \/ \E h \in DOMAIN u : h < j /\ On(u, i, h, "open") /\ u[h].k \in T
             \/ Old(u, i, j) /\ (v.kx = 0 \/ v.kx \in T)
  <2>1. j + d \in DOMAIN q /\ On(q, i, j + d, "reset")
    BY <1>1, <1>3 DEF On
  <2>2. CASE \E h \in DOMAIN q : h < j + d /\ On(q, i, h, "open") /\ q[h].k \in S
    <3>1. PICK h \in DOMAIN q : h < j + d /\ On(q, i, h, "open") /\ q[h].k \in S
      BY <2>2
    <3>2. h - d \in DOMAIN u /\ h - d < j /\ On(u, i, h - d, "open") /\ u[h - d].k \in T
      BY <1>1, <3>1 DEF On
    <3> QED BY <3>2
  <2>3. CASE Old(q, i, j + d) /\ (v.kx = 0 \/ v.kx \in S)
    BY <1>1, <2>3 DEF Old, On
  <2> QED BY <2>1, <2>2, <2>3 DEF Meant
<1> QED BY <1>2, <1>3 DEF Meant

LEMMA MirrorStream ==
  ASSUME NEW q, NEW u, NEW r, NEW z, NEW i, NEW v, NEW S, NEW T, Mirrors(q, u, i), Mirrors(r, z, i),
         S \subseteq T, Stream(q, r, i, v, S)
  PROVE  Stream(u, z, i, v, T)
BY MirrorSpoken, MirrorAnswered, MirrorJoined, MirrorMeant DEF Stream

-----------------------------------------------------------------------------
(* What happens on a stream.                                               *)

\* The same ends, but for what is named.
SameEnds(v, w) ==
  w.ko = v.ko /\ w.kx = v.kx /\ w.bo = v.bo /\ w.lo = v.lo /\ w.lx = v.lx

\* A queue is stopped, or an application has closed a channel.
LEMMA StreamWeaker ==
  ASSUME NEW q, NEW r, NEW i, NEW v, NEW w, NEW S, NEW T, Stream(q, r, i, v, S), S \subseteq T,
         SameEnds(v, w), v.so => w.so, v.sx => w.sx
  PROVE  Stream(q, r, i, w, T)
<1>1. Joined(q, r, i, w)
  BY DEF Stream, SameEnds, Joined, OpenIsNew, OwnerLives, OpenLives, OtherWaits, OtherLives, OwnerWaits
<1>2. Meant(q, r, i, w, T)
  BY DEF Stream, SameEnds, Meant
<1> QED BY <1>1, <1>2 DEF Stream, SameEnds

\* The owner sends on its channel.
LEMMA OwnerSends ==
  ASSUME NEW q, NEW u, NEW r, NEW i, NEW v, NEW S, NEW m, Stream(q, r, i, v, S), Adds(q, u, m),
         m.stream = i, m.type = "data", m.k = v.ko, v.lo, ~v.so
  PROVE  Stream(u, r, i, v, S)
<1>1. PICK n \in Nat : /\ DOMAIN q = 1 .. n /\ DOMAIN u = 1 .. (n + 1) /\ u[n + 1] = m
                       /\ \A j \in 1 .. n : u[j] = q[j]
  BY DEF Adds
<1>2. CASE Has(q, i, "open")
  <2>1. PICK g \in DOMAIN q : On(q, i, g, "open") /\ \A h \in DOMAIN q : g < h => ~On(q, i, h, "reset")
    BY <1>2 DEF Stream, Joined, OwnerLives
  <2>2. q[g].k = v.ko /\ \A h \in DOMAIN q : On(q, i, h, "open") => h = g
    BY <2>1 DEF Stream, Joined, OpenIsNew, Spoken
  <2>3. Spoken(u, i, v.kx)
    <3>1. ~Old(u, i, n + 1)
      BY <1>1, <2>1 DEF Old, On
    <3>2. \A j \in DOMAIN q : Old(u, i, j) => Old(q, i, j)
      BY <1>1 DEF Old, On
    <3>3. \A j \in DOMAIN u : On(u, i, j, "data") /\ Old(u, i, j) =>
            v.kx = u[j].k /\ \A h \in DOMAIN u : h < j => ~On(u, i, h, "reset")
      BY <1>1, <3>1, <3>2 DEF Stream, Spoken, On
    <3>4. \A h, j \in DOMAIN u : On(u, i, h, "open") /\ On(u, i, j, "data") /\ h < j =>
            u[j].k = u[h].k /\ \A e \in DOMAIN u : h < e /\ e < j => ~On(u, i, e, "reset")
      BY <1>1, <2>1, <2>2 DEF Stream, Spoken, On
    <3> QED BY <1>1, <3>3, <3>4 DEF Stream, Spoken, On
  <2>4. Joined(u, r, i, v)
    <3>1. \A j \in DOMAIN u : On(u, i, j, "open") => j \in DOMAIN q /\ On(q, i, j, "open") /\ u[j] = q[j]
      BY <1>1 DEF On
    <3>2. On(u, i, g, "open") /\ \A h \in DOMAIN u : g < h => ~On(u, i, h, "reset")
      BY <1>1, <2>1 DEF On
    <3>3. /\ Has(u, i, "open") /\ Has(q, i, "open") /\ g \in DOMAIN u
          /\ Has(u, i, "reset") <=> Has(q, i, "reset")
      BY <1>1, <2>1 DEF Has, On
    <3> QED BY <3>1, <3>2, <3>3
            DEF Stream, Joined, OpenIsNew, OwnerLives, OpenLives, OtherWaits, OtherLives, OwnerWaits
  <2> QED BY <1>1, <2>3, <2>4 DEF Stream, Meant, On, Old
<1>3. CASE ~Has(q, i, "open")
  <2>1. ~Has(q, i, "reset") /\ v.kx = v.ko
    BY <1>3 DEF Stream, Joined, OwnerLives, Has
  <2>2. \A j \in DOMAIN u : ~On(u, i, j, "open") /\ ~On(u, i, j, "reset")
    BY <1>1, <1>3, <2>1 DEF Has, On
  <2>3. ~Has(u, i, "open") /\ ~Has(u, i, "reset")
    BY <2>2 DEF Has
  <2>4. Spoken(u, i, v.kx)
    <3>1. \A j \in DOMAIN u : On(u, i, j, "data") /\ Old(u, i, j) => v.kx = u[j].k
      BY <1>1, <1>3, <2>1 DEF Stream, Spoken, Old, On, Has
    <3> QED BY <1>1, <2>2, <3>1 DEF Stream, Spoken, On
  <2>5. Joined(u, r, i, v)
    BY <1>3, <2>1, <2>2, <2>3 DEF Stream, Joined, OpenIsNew, OwnerLives, OpenLives, OtherWaits, OtherLives, OwnerWaits
  <2> QED BY <2>2, <2>4, <2>5 DEF Stream, Meant
<1> QED BY <1>2, <1>3

\* The owner closes its channel: a reset follows what it has sent, unless its queue
\* is stopped.
Resets(q, u, i, stop) ==
  \/ stop /\ u = q
  \/ ~stop /\ \E m : Adds(q, u, m) /\ m.stream = i /\ m.type = "reset"

LEMMA OwnerCloses ==
  ASSUME NEW q, NEW u, NEW r, NEW i, NEW v, NEW w, NEW S, Stream(q, r, i, v, S), v.lo,
         Resets(q, u, i, v.so), v.ko \in S,
         w.ko = v.ko, w.kx = v.kx, w.bo = v.bo, ~w.lo, w.lx = v.lx, w.so = v.so, w.sx = v.sx
  PROVE  Stream(u, r, i, w, S)
<1>1. CASE v.so /\ u = q
  BY <1>1 DEF Stream, Joined, OpenIsNew, OwnerLives, OpenLives, OtherWaits, OtherLives, OwnerWaits, Meant
<1>2. CASE ~v.so /\ \E m : Adds(q, u, m) /\ m.stream = i /\ m.type = "reset"
  <2>0. PICK m : Adds(q, u, m) /\ m.stream = i /\ m.type = "reset"
    BY <1>2
  <2>1. PICK n \in Nat : /\ DOMAIN q = 1 .. n /\ DOMAIN u = 1 .. (n + 1) /\ u[n + 1] = m
                         /\ \A j \in 1 .. n : u[j] = q[j]
    BY <2>0 DEF Adds
  <2>2. /\ n + 1 \in DOMAIN u /\ On(u, i, n + 1, "reset") /\ ~On(u, i, n + 1, "open") /\ ~On(u, i, n + 1, "data")
        /\ \A j \in DOMAIN u : (j \in DOMAIN q /\ u[j] = q[j]) \/ j = n + 1
        /\ \A j \in DOMAIN q : j \in DOMAIN u /\ j < n + 1 /\ j \in Nat
    BY <2>0, <2>1 DEF On
  <2>3. Has(u, i, "reset") /\ (Has(u, i, "open") <=> Has(q, i, "open"))
    BY <2>1, <2>2 DEF Has, On
  <2>4. Spoken(u, i, v.kx)
    <3>1. \A j \in DOMAIN q : Old(u, i, j) => Old(q, i, j)
      BY <2>1 DEF Old, On
    <3>2. \A j \in DOMAIN u : On(u, i, j, "data") /\ Old(u, i, j) =>
            v.kx = u[j].k /\ \A h \in DOMAIN u : h < j => ~On(u, i, h, "reset")
      BY <2>1, <2>2, <3>1 DEF Stream, Spoken, On
    <3>3. \A h, j \in DOMAIN u : On(u, i, h, "open") /\ On(u, i, j, "data") /\ h < j =>
            u[j].k = u[h].k /\ \A e \in DOMAIN u : h < e /\ e < j => ~On(u, i, e, "reset")
      BY <2>1, <2>2 DEF Stream, Spoken, On
    <3>4. \A j \in DOMAIN u : On(u, i, j, "open") =>
            v.kx = 0 \/ \E h \in DOMAIN u : h < j /\ On(u, i, h, "reset")
      BY <2>1, <2>2 DEF Stream, Spoken, On
    <3>5. \A j \in DOMAIN u : u[j].stream = i => u[j].type \in {"open", "data", "reset"}
      BY <2>1, <2>2 DEF Stream, Spoken, On
    <3>6. \A h, j \in DOMAIN u : On(u, i, h, "open") /\ On(u, i, j, "open") => h = j
      BY <2>1, <2>2 DEF Stream, Spoken, On
    <3> QED BY <3>2, <3>3, <3>4, <3>5, <3>6 DEF Spoken
  <2>5. Joined(u, r, i, w)
    <3>1. OpenIsNew(u, r, i, w)
      BY <2>1, <2>2 DEF Stream, Joined, OpenIsNew, On
    <3>2. OpenLives(u, i, w)
      BY <2>1, <2>2 DEF OpenLives
    <3> QED BY <2>3, <3>1, <3>2 DEF Stream, Joined, OwnerLives, OtherWaits, OtherLives, OwnerWaits
  <2>6. Meant(u, r, i, w, S)
    <3>1. ASSUME NEW j \in DOMAIN q, On(u, i, j, "reset")
          PROVE  \/ \E h \in DOMAIN u : h < j /\ On(u, i, h, "open") /\ u[h].k \in S
                 \/ Old(u, i, j) /\ (v.kx = 0 \/ v.kx \in S)
      <4>1. On(q, i, j, "reset")
        BY <2>1, <3>1 DEF On
      <4> QED BY <2>1, <4>1 DEF Stream, Meant, On, Old
    <3>2. \/ \E h \in DOMAIN u : h < n + 1 /\ On(u, i, h, "open") /\ u[h].k \in S
          \/ Old(u, i, n + 1) /\ (v.kx = 0 \/ v.kx \in S)
      <4>1. CASE Has(q, i, "open")
        <5>1. PICK g \in DOMAIN q : On(q, i, g, "open")
          BY <4>1 DEF Has
        <5>2. q[g].k = v.ko
          BY <5>1 DEF Stream, Joined, OpenIsNew
        <5>3. g \in DOMAIN u /\ g < n + 1 /\ On(u, i, g, "open") /\ u[g].k \in S
          BY <2>1, <5>1, <5>2 DEF On
        <5> QED BY <5>3
      <4>2. CASE ~Has(q, i, "open")
        <5>1. v.kx = v.ko
          BY <1>2, <4>2 DEF Stream, Joined, OwnerLives, Has
        <5>2. Old(u, i, n + 1)
          BY <2>1, <4>2 DEF Old, On, Has
        <5> QED BY <5>1, <5>2
      <4> QED BY <4>1, <4>2
    <3> QED BY <2>2, <3>1, <3>2 DEF Stream, Meant
  <2> QED BY <2>4, <2>5, <2>6 DEF Stream
<1> QED BY <1>1, <1>2 DEF Resets

\* A free stream is handed out.
LEMMA OwnerAssigns ==
  ASSUME NEW q, NEW r, NEW i, NEW v, NEW w, NEW S, Stream(q, r, i, v, S), v.ko = 0,
         w.kx = v.kx, ~w.bo, ~w.lo, w.lx = v.lx, w.so = v.so, w.sx = v.sx
  PROVE  Stream(q, r, i, w, S)
<1>1. /\ ~v.bo /\ ~v.lo /\ ~v.lx /\ (\A j \in DOMAIN q : ~On(q, i, j, "open"))
      /\ \A j \in DOMAIN r : r[j].stream # i
  BY DEF Stream, Joined, OpenIsNew, OtherLives, Answered
<1>2. ~Has(q, i, "open") /\ ~Has(r, i, "reset") /\ ~Uses(r, i)
  BY <1>1 DEF Has, On, Uses
<1>3. Joined(q, r, i, w)
  BY <1>1, <1>2 DEF Stream, Joined, OpenIsNew, OwnerLives, OpenLives, OtherWaits, OtherLives, OwnerWaits
<1>4. Answered(r, i, w.ko, w.bo)
  BY <1>1 DEF Answered, On
<1> QED BY <1>1, <1>2, <1>3, <1>4 DEF Stream, Meant

\* OPEN is sent, or swallowed by a stopped queue.
Opens(q, u, i, k, stop) ==
  \/ stop /\ u = q
  \/ ~stop /\ \E m : Adds(q, u, m) /\ m.stream = i /\ m.type = "open" /\ m.k = k

LEMMA OwnerOpens ==
  ASSUME NEW q, NEW u, NEW r, NEW i, NEW v, NEW w, NEW S, Stream(q, r, i, v, S), v.ko # 0, ~v.bo,
         Opens(q, u, i, v.ko, v.so),
         w.ko = v.ko, w.kx = v.kx, w.bo, w.lo, w.lx = v.lx, w.so = v.so, w.sx = v.sx
  PROVE  Stream(u, r, i, w, S)
<1>1. /\ ~v.lo /\ ~v.lx /\ (\A j \in DOMAIN q : ~On(q, i, j, "open")) /\ \A j \in DOMAIN r : r[j].stream # i
  BY DEF Stream, Joined, OpenIsNew, OtherLives, Answered
<1>2. ~Has(q, i, "open") /\ ~Has(r, i, "reset") /\ ~Uses(r, i)
  BY <1>1 DEF Has, On, Uses
<1>3. Answered(r, i, w.ko, w.bo)
  BY <1>1 DEF Answered, On
<1>4. CASE v.so /\ u = q
  <2>1. Joined(u, r, i, w)
    BY <1>1, <1>2, <1>4 DEF Stream, Joined, OpenIsNew, OwnerLives, OpenLives, OtherWaits, OtherLives, OwnerWaits
  <2> QED BY <1>1, <1>2, <1>3, <1>4, <2>1 DEF Stream, Meant
<1>5. CASE ~v.so /\ \E m : Adds(q, u, m) /\ m.stream = i /\ m.type = "open" /\ m.k = v.ko
  <2>0. PICK m : Adds(q, u, m) /\ m.stream = i /\ m.type = "open" /\ m.k = v.ko
    BY <1>5
  <2>1. PICK n \in Nat : /\ DOMAIN q = 1 .. n /\ DOMAIN u = 1 .. (n + 1) /\ u[n + 1] = m
                         /\ \A j \in 1 .. n : u[j] = q[j]
    BY <2>0 DEF Adds
  <2>2. /\ n + 1 \in DOMAIN u /\ On(u, i, n + 1, "open") /\ ~On(u, i, n + 1, "reset") /\ ~On(u, i, n + 1, "data")
        /\ \A j \in DOMAIN u : (j \in DOMAIN q /\ u[j] = q[j]) \/ j = n + 1
        /\ \A j \in DOMAIN q : j \in DOMAIN u /\ j < n + 1 /\ j \in Nat
    BY <2>0, <2>1 DEF On
  <2>3. /\ Has(u, i, "open") /\ (Has(u, i, "reset") <=> Has(q, i, "reset"))
        /\ \A h \in DOMAIN u : ~(n + 1 < h)
    BY <2>1, <2>2 DEF Has, On
  <2>4. v.kx = 0 \/ \E h \in DOMAIN q : On(q, i, h, "reset")
    BY <1>1, <1>5 DEF Stream, Joined, OtherWaits, Has
  <2>5. Spoken(u, i, v.kx)
    <3>1. \A j \in DOMAIN q : Old(q, i, j)
      BY <1>1 DEF Old
    <3>2. \A j \in DOMAIN u : On(u, i, j, "data") /\ Old(u, i, j) =>
            v.kx = u[j].k /\ \A h \in DOMAIN u : h < j => ~On(u, i, h, "reset")
      BY <2>1, <2>2, <3>1 DEF Stream, Spoken, On
    <3>3. \A h, j \in DOMAIN u : On(u, i, h, "open") /\ On(u, i, j, "data") /\ h < j =>
            u[j].k = u[h].k /\ \A e \in DOMAIN u : h < e /\ e < j => ~On(u, i, e, "reset")
      BY <1>1, <2>1, <2>2 DEF On
    <3>4. \A j \in DOMAIN u : On(u, i, j, "open") =>
            v.kx = 0 \/ \E h \in DOMAIN u : h < j /\ On(u, i, h, "reset")
      BY <1>1, <2>1, <2>2, <2>4 DEF On
    <3>5. \A j \in DOMAIN u : u[j].stream = i => u[j].type \in {"open", "data", "reset"}
      BY <2>1, <2>2 DEF Stream, Spoken, On
    <3>6. \A h, j \in DOMAIN u : On(u, i, h, "open") /\ On(u, i, j, "open") => h = j
      BY <1>1, <2>1, <2>2 DEF On
    <3> QED BY <3>2, <3>3, <3>4, <3>5, <3>6 DEF Spoken
  <2>6. Joined(u, r, i, w)
    <3>1. OpenIsNew(u, r, i, w)
      BY <1>1, <1>2, <2>0, <2>1, <2>2 DEF OpenIsNew, On
    <3>2. OwnerLives(u, i, w)
      BY <2>2, <2>3 DEF OwnerLives
    <3>3. OtherWaits(u, i, w)
      BY <2>3, <2>4 DEF OtherWaits, Has
    <3> QED BY <1>1, <2>3, <3>1, <3>2, <3>3 DEF Joined, OpenLives, OtherLives, OwnerWaits
  <2>7. Meant(u, r, i, w, S)
    <3>1. ASSUME NEW j \in DOMAIN u, On(u, i, j, "reset")
          PROVE  Old(u, i, j) /\ (v.kx = 0 \/ v.kx \in S)
      <4>1. j \in DOMAIN q /\ On(q, i, j, "reset")
        BY <2>1, <2>2, <3>1 DEF On
      <4>2. Old(u, i, j)
        BY <1>1, <2>1, <2>2, <4>1 DEF Old, On
      <4> QED BY <1>1, <4>1, <4>2 DEF Stream, Meant
    <3> QED BY <1>2, <3>1 DEF Meant
  <2> QED BY <1>3, <2>5, <2>6, <2>7 DEF Stream
<1> QED BY <1>4, <1>5 DEF Opens

\* The owner gets an ACK or a message: it is for the channel it has there.
LEMMA OwnerHears ==
  ASSUME NEW q, NEW r, NEW z, NEW i, NEW v, NEW S, NEW m, Stream(q, r, i, v, S), Takes(r, z, m),
         m.stream = i, m.type # "reset"
  PROVE  /\ Stream(q, z, i, v, S) /\ v.bo /\ v.ko # 0 /\ m.k = v.ko /\ m.type \in {"ack", "data"}
<1>1. PICK n \in Nat : /\ DOMAIN z = 1 .. n /\ DOMAIN r = 1 .. (n + 1) /\ r[1] = m
                       /\ \A j \in 1 .. n : z[j] = r[j + 1]
  BY DEF Takes
<1>2. v.bo /\ v.ko # 0 /\ m.k = v.ko /\ m.type \in {"ack", "data"} /\ Uses(r, i)
  BY <1>1 DEF Stream, Answered, Uses
<1>3. Has(z, i, "reset") <=> Has(r, i, "reset")
  <2>1. \A j \in DOMAIN r : On(r, i, j, "reset") => j - 1 \in DOMAIN z /\ On(z, i, j - 1, "reset")
    BY <1>1 DEF On
  <2>2. \A j \in DOMAIN z : On(z, i, j, "reset") => j + 1 \in DOMAIN r /\ On(r, i, j + 1, "reset")
    BY <1>1 DEF On
  <2> QED BY <2>1, <2>2 DEF Has
<1>4. Answered(z, i, v.ko, v.bo)
  <2>1. \A j \in DOMAIN z : j + 1 \in DOMAIN r /\ z[j] = r[j + 1] /\ j \in Nat
    BY <1>1
  <2>2. \A h, j \in DOMAIN z : On(z, i, h, "reset") /\ z[j].stream = i => j + 1 <= h + 1
    BY <2>1 DEF Stream, Answered, On
  <2>3. \A h, j \in DOMAIN z : On(z, i, h, "reset") /\ z[j].stream = i => j <= h
    BY <2>1, <2>2
  <2> QED BY <1>2, <2>1, <2>3 DEF Stream, Answered
<1>5. Joined(q, z, i, v)
  <2>1. \A j \in DOMAIN q : ~On(q, i, j, "open")
    BY <1>2 DEF Stream, Joined, OpenIsNew
  <2> QED BY <1>3, <2>1 DEF Stream, Joined, OpenIsNew, OwnerLives, OpenLives, OtherWaits, OtherLives, OwnerWaits
<1> QED BY <1>2, <1>3, <1>4, <1>5 DEF Stream, Meant

\* The owner gets a reset: its channel was there, and an application has closed it.
\* If it was not closed yet, it is now, with a reset in turn.
LEMMA OwnerReset ==
  ASSUME NEW q, NEW u, NEW r, NEW z, NEW i, NEW v, NEW w, NEW S, NEW m, Stream(q, r, i, v, S),
         Takes(r, z, m), m.stream = i, m.type = "reset",
         IF v.lo THEN Resets(q, u, i, v.so) ELSE u = q,
         w.ko = 0, w.kx = v.kx, ~w.bo, ~w.lo, w.lx = v.lx, w.so = v.so, w.sx = v.sx
  PROVE  Stream(u, z, i, w, S)
<1>1. PICK n \in Nat : /\ DOMAIN z = 1 .. n /\ DOMAIN r = 1 .. (n + 1) /\ r[1] = m
                       /\ \A j \in 1 .. n : z[j] = r[j + 1]
  BY DEF Takes
<1>2. /\ v.bo /\ v.ko # 0 /\ Uses(r, i) /\ Has(r, i, "reset") /\ v.ko \in S /\ ~v.lx
      /\ \A j \in DOMAIN q : ~On(q, i, j, "open")
  BY <1>1 DEF Stream, Answered, Uses, Has, On, Meant, Joined, OpenIsNew, OtherLives
<1>3. \A j \in DOMAIN z : z[j].stream # i
  BY <1>1 DEF Stream, Answered, On
<1>4. ~Has(z, i, "reset") /\ Answered(z, i, w.ko, w.bo) /\ ~Uses(z, i)
  BY <1>3 DEF Has, On, Answered, Uses
<1>5. \E y : Stream(u, r, i, y, S) /\ y.kx = v.kx /\ ~y.lo /\ y.so = v.so
  <2>1. CASE v.lo
    <3> DEFINE y == [ko |-> v.ko, kx |-> v.kx, bo |-> v.bo, lo |-> FALSE, lx |-> v.lx, so |-> v.so, sx |-> v.sx]
    <3>1. /\ y.ko = v.ko /\ y.kx = v.kx /\ y.bo = v.bo /\ ~y.lo /\ y.lx = v.lx /\ y.so = v.so /\ y.sx = v.sx
      OBVIOUS
    <3> HIDE DEF y
    <3>2. Stream(u, r, i, y, S)
      BY <1>2, <2>1, <3>1, OwnerCloses
    <3> QED BY <3>1, <3>2
  <2>2. CASE ~v.lo
    BY <2>2
  <2> QED BY <2>1, <2>2
<1>6. PICK y : Stream(u, r, i, y, S) /\ y.kx = v.kx /\ ~y.lo /\ y.so = v.so
  BY <1>5
<1>7. \A j \in DOMAIN u : ~On(u, i, j, "open")
  BY <1>2, <1>6 DEF Stream, Joined, OpenIsNew
<1>8. ~Has(u, i, "open")
  BY <1>7 DEF Has
<1>9. Joined(u, z, i, w)
  BY <1>2, <1>4, <1>6, <1>7, <1>8 DEF Stream, Joined, OpenIsNew, OwnerLives, OpenLives, OtherWaits, OtherLives, OwnerWaits
<1> QED BY <1>2, <1>4, <1>6, <1>9 DEF Stream, Meant

LEMMA OwnerResetSays ==
  ASSUME NEW q, NEW r, NEW z, NEW i, NEW v, NEW S, NEW m, Stream(q, r, i, v, S),
         Takes(r, z, m), m.stream = i, m.type = "reset"
  PROVE  v.bo /\ v.ko # 0 /\ v.ko \in S
<1>1. 1 \in DOMAIN r /\ r[1] = m
  BY DEF Takes
<1> QED BY <1>1 DEF Stream, Answered, Has, On, Meant

\* The other peer sends on its channel.
LEMMA OtherSends ==
  ASSUME NEW q, NEW r, NEW z, NEW i, NEW v, NEW S, NEW m, Stream(q, r, i, v, S), Adds(r, z, m),
         m.stream = i, m.type \in {"ack", "data"}, m.k = v.kx, v.lx
  PROVE  Stream(q, z, i, v, S)
<1>1. PICK n \in Nat : /\ DOMAIN r = 1 .. n /\ DOMAIN z = 1 .. (n + 1) /\ z[n + 1] = m
                       /\ \A j \in 1 .. n : z[j] = r[j]
  BY DEF Adds
<1>2. /\ v.ko = v.kx /\ v.bo /\ v.ko # 0 /\ (\A j \in DOMAIN r : ~On(r, i, j, "reset"))
      /\ ~Has(r, i, "reset") /\ (\A j \in DOMAIN q : ~On(q, i, j, "open"))
  BY DEF Stream, Joined, OtherLives, Has
<1>3. \A j \in DOMAIN z : ~On(z, i, j, "reset")
  BY <1>1, <1>2 DEF On
<1>4. ~Has(z, i, "reset")
  BY <1>3 DEF Has
<1>5. Answered(z, i, v.ko, v.bo)
  BY <1>1, <1>2, <1>3 DEF Stream, Answered
<1>6. Joined(q, z, i, v)
  BY <1>2, <1>4 DEF Stream, Joined, OpenIsNew, OwnerLives, OpenLives, OtherWaits, OtherLives, OwnerWaits
<1> QED BY <1>4, <1>5, <1>6 DEF Stream, Meant

LEMMA OtherCloses ==
  ASSUME NEW q, NEW r, NEW z, NEW i, NEW v, NEW w, NEW S, Stream(q, r, i, v, S), v.lx,
         Resets(r, z, i, v.sx), v.kx \in S,
         w.ko = v.ko, w.kx = v.kx, w.bo = v.bo, w.lo = v.lo, ~w.lx, w.so = v.so, w.sx = v.sx
  PROVE  Stream(q, z, i, w, S)
<1>1. /\ v.ko = v.kx /\ v.bo /\ v.ko # 0 /\ (\A j \in DOMAIN r : ~On(r, i, j, "reset"))
      /\ ~Has(r, i, "reset") /\ (\A j \in DOMAIN q : ~On(q, i, j, "open")) /\ ~Has(q, i, "open")
  BY DEF Stream, Joined, OtherLives, Has
<1>2. CASE v.sx /\ z = r
  <2>1. Joined(q, z, i, w)
    BY <1>1, <1>2 DEF Stream, Joined, OpenIsNew, OwnerLives, OpenLives, OtherWaits, OtherLives, OwnerWaits
  <2> QED BY <1>2, <2>1 DEF Stream, Meant
<1>3. CASE ~v.sx /\ \E m : Adds(r, z, m) /\ m.stream = i /\ m.type = "reset"
  <2>0. PICK m : Adds(r, z, m) /\ m.stream = i /\ m.type = "reset"
    BY <1>3
  <2>1. PICK n \in Nat : /\ DOMAIN r = 1 .. n /\ DOMAIN z = 1 .. (n + 1) /\ z[n + 1] = m
                         /\ \A j \in 1 .. n : z[j] = r[j]
    BY <2>0 DEF Adds
  <2>2. Has(z, i, "reset")
    BY <2>0, <2>1 DEF Has, On
  <2>3. Answered(z, i, v.ko, v.bo)
    BY <1>1, <2>0, <2>1 DEF Stream, Answered, On
  <2>4. Joined(q, z, i, w)
    BY <1>1, <2>2 DEF Stream, Joined, OpenIsNew, OwnerLives, OpenLives, OtherWaits, OtherLives, OwnerWaits
  <2> QED BY <1>1, <2>2, <2>3, <2>4 DEF Stream, Meant
<1> QED BY <1>2, <1>3 DEF Resets

\* The other peer gets the first message on the stream.
LEMMA OtherTakes ==
  ASSUME NEW q, NEW u, NEW r, NEW i, NEW v, NEW S, NEW m, Stream(q, r, i, v, S), Takes(q, u, m),
         m.stream = i
  PROVE  /\ m.type \in {"open", "data", "reset"}
         /\ m.type = "open" => v.kx = 0 /\ v.ko = m.k /\ v.bo
         /\ m.type = "data" => v.kx = m.k
         /\ m.type = "reset" => v.kx = 0 \/ v.kx \in S
<1>1. PICK n \in Nat : DOMAIN q = 1 .. (n + 1) /\ q[1] = m
  BY DEF Takes
<1>2. 1 \in DOMAIN q /\ (\A h \in DOMAIN q : ~(h < 1)) /\ Old(q, i, 1)
  BY <1>1 DEF Old
<1>3. m.type \in {"open", "data", "reset"}
  BY <1>1, <1>2 DEF Stream, Spoken
<1>4. m.type = "open" => v.kx = 0
  BY <1>1, <1>2 DEF Stream, Spoken, On
<1>5. m.type = "open" => v.ko = m.k /\ v.bo
  BY <1>1, <1>2 DEF Stream, Joined, OpenIsNew, On
<1>6. m.type = "data" => v.kx = m.k
  BY <1>1, <1>2 DEF Stream, Spoken, On
<1>7. m.type = "reset" => v.kx = 0 \/ v.kx \in S
  BY <1>1, <1>2 DEF Stream, Meant, On
<1> QED BY <1>3, <1>4, <1>5, <1>6, <1>7

LEMMA OtherOpens ==
  ASSUME NEW q, NEW u, NEW r, NEW i, NEW v, NEW w, NEW S, NEW m, Stream(q, r, i, v, S), Takes(q, u, m),
         m.stream = i, m.type = "open", m.k # 0,
         w.ko = v.ko, w.kx = m.k, w.bo = v.bo, w.lo = v.lo, w.lx, w.so = v.so, w.sx = v.sx
  PROVE  Stream(u, r, i, w, S)
<1>1. PICK n \in Nat : /\ DOMAIN u = 1 .. n /\ DOMAIN q = 1 .. (n + 1) /\ q[1] = m
                       /\ \A j \in 1 .. n : u[j] = q[j + 1]
  BY DEF Takes
<1>2. v.kx = 0 /\ v.ko = m.k /\ v.bo
  BY OtherTakes
<1>3. On(q, i, 1, "open") /\ 1 \in DOMAIN q /\ \A j \in DOMAIN u : j + 1 \in DOMAIN q /\ j + 1 # 1 /\ j \in Nat
  BY <1>1 DEF On
<1>4. /\ ~Uses(r, i) /\ \A j \in DOMAIN u : ~On(u, i, j, "open")
  BY <1>1, <1>3 DEF Stream, Joined, OpenIsNew, Spoken, On
<1>5. ~Has(u, i, "open") /\ ~Has(r, i, "reset")
  BY <1>4 DEF Has, Uses, On
<1>6. \A j \in DOMAIN q : On(q, i, j, "data") =>
        q[j].k = m.k /\ \A g \in DOMAIN q : g < j => ~On(q, i, g, "reset")
  <2>1. \A j \in DOMAIN q : On(q, i, j, "data") => 1 < j
    BY <1>1 DEF On
  <2>2. \A j \in DOMAIN q : On(q, i, j, "data") =>
          q[j].k = m.k /\ \A g \in DOMAIN q : 1 < g /\ g < j => ~On(q, i, g, "reset")
    BY <1>1, <1>3, <2>1 DEF Stream, Spoken
  <2> QED BY <1>1, <2>2 DEF On
<1>7. Spoken(u, i, w.kx)
  <2>1. \A j \in DOMAIN u : On(u, i, j, "data") =>
          w.kx = u[j].k /\ \A h \in DOMAIN u : h < j => ~On(u, i, h, "reset")
    <3> SUFFICES ASSUME NEW j \in DOMAIN u, On(u, i, j, "data")
                 PROVE  w.kx = u[j].k /\ \A h \in DOMAIN u : h < j => ~On(u, i, h, "reset")
      OBVIOUS
    <3>1. u[j] = q[j + 1] /\ On(q, i, j + 1, "data")
      BY <1>1 DEF On
    <3>2. q[j + 1].k = m.k /\ \A g \in DOMAIN q : g < j + 1 => ~On(q, i, g, "reset")
      BY <1>3, <1>6, <3>1
    <3>3. ASSUME NEW h \in DOMAIN u, h < j PROVE ~On(u, i, h, "reset")
      <4>1. h + 1 \in DOMAIN q /\ h + 1 < j + 1 /\ u[h] = q[h + 1]
        BY <1>1, <3>3
      <4> QED BY <3>2, <4>1 DEF On
    <3> QED BY <3>1, <3>2, <3>3
  <2>2. \A j \in DOMAIN u : u[j].stream = i => u[j].type \in {"open", "data", "reset"}
    BY <1>1 DEF Stream, Spoken
  <2> QED BY <1>4, <2>1, <2>2 DEF Spoken
<1>8. OwnerLives(u, i, w)
  <2> SUFFICES ASSUME w.lo, ~w.so PROVE ~Has(u, i, "reset")
    BY <1>2, <1>5 DEF OwnerLives
  <2>1. Has(q, i, "open")
    BY <1>3 DEF Has
  <2>2. PICK j \in DOMAIN q : On(q, i, j, "open") /\ \A h \in DOMAIN q : j < h => ~On(q, i, h, "reset")
    BY <2>1 DEF Stream, Joined, OwnerLives
  <2>3. j = 1
    BY <1>3, <2>2 DEF Stream, Spoken
  <2> QED BY <1>1, <2>2, <2>3 DEF Has, On
<1>9. OtherWaits(u, i, w)
  <2> SUFFICES ASSUME ~w.so, ~Has(u, i, "reset") PROVE w.lo
    BY <1>2 DEF OtherWaits
  <2>1. \A h \in DOMAIN q : 1 < h => ~On(q, i, h, "reset")
    <3>1. \A h \in DOMAIN q : 1 < h => h - 1 \in DOMAIN u /\ u[h - 1] = q[h]
      BY <1>1
    <3> QED BY <3>1 DEF Has, On
  <2> QED BY <1>3, <2>1 DEF Stream, Joined, OpenLives
<1>10. Joined(u, r, i, w)
  BY <1>2, <1>4, <1>5, <1>8, <1>9 DEF Joined, OpenIsNew, OpenLives, OtherLives, OwnerWaits
<1>11. Meant(u, r, i, w, S)
  <2>1. ASSUME NEW j \in DOMAIN u, On(u, i, j, "reset")
        PROVE  Old(u, i, j) /\ w.kx \in S
    <3>1. j + 1 \in DOMAIN q /\ On(q, i, j + 1, "reset") /\ 1 < j + 1
      BY <1>1, <2>1 DEF On
    <3>2. ~Old(q, i, j + 1)
      BY <1>3, <3>1 DEF Old
    <3>3. \E h \in DOMAIN q : On(q, i, h, "open") /\ q[h].k \in S
      BY <3>1, <3>2 DEF Stream, Meant
    <3>4. m.k \in S
      BY <1>1, <1>3, <3>3 DEF Stream, Spoken
    <3> QED BY <1>4, <3>4 DEF Old
  <2> QED BY <1>5, <2>1 DEF Meant
<1> QED BY <1>2, <1>7, <1>10, <1>11 DEF Stream

LEMMA OtherHears ==
  ASSUME NEW q, NEW u, NEW r, NEW i, NEW v, NEW S, NEW m, Stream(q, r, i, v, S), Takes(q, u, m),
         m.stream = i, m.type = "data"
  PROVE  Stream(u, r, i, v, S)
<1>1. PICK n \in Nat : /\ DOMAIN u = 1 .. n /\ DOMAIN q = 1 .. (n + 1) /\ q[1] = m
                       /\ \A j \in 1 .. n : u[j] = q[j + 1]
  BY DEF Takes
<1>2. /\ ~On(q, i, 1, "open") /\ ~On(q, i, 1, "reset")
      /\ \A j \in DOMAIN u : j + 1 \in DOMAIN q /\ u[j] = q[j + 1] /\ j \in Nat
      /\ \A j \in DOMAIN q : j = 1 \/ (j - 1 \in DOMAIN u /\ u[j - 1] = q[j] /\ j \in Nat)
  BY <1>1 DEF On
<1> USE DEF On
<1>3. \A type \in {"open", "reset"} : Has(u, i, type) <=> Has(q, i, type)
  BY <1>2 DEF Has
<1>4. \A j \in DOMAIN u : Old(u, i, j) => Old(q, i, j + 1)
  BY <1>2 DEF Old
<1>5. Spoken(u, i, v.kx)
  <2>1. \A j \in DOMAIN u : On(u, i, j, "data") /\ Old(u, i, j) =>
          v.kx = u[j].k /\ \A h \in DOMAIN u : h < j => ~On(u, i, h, "reset")
    BY <1>2, <1>4 DEF Stream, Spoken
  <2>2. \A h, j \in DOMAIN u : On(u, i, h, "open") /\ On(u, i, j, "data") /\ h < j =>
          u[j].k = u[h].k /\ \A e \in DOMAIN u : h < e /\ e < j => ~On(u, i, e, "reset")
    BY <1>2 DEF Stream, Spoken
  <2>3. \A j \in DOMAIN u : On(u, i, j, "open") =>
          v.kx = 0 \/ \E h \in DOMAIN u : h < j /\ On(u, i, h, "reset")
    <3> SUFFICES ASSUME NEW j \in DOMAIN u, On(u, i, j, "open"), v.kx # 0
                 PROVE  \E h \in DOMAIN u : h < j /\ On(u, i, h, "reset")
      OBVIOUS
    <3>1. PICK h \in DOMAIN q : h < j + 1 /\ On(q, i, h, "reset")
      BY <1>2 DEF Stream, Spoken
    <3>2. h - 1 \in DOMAIN u /\ h - 1 < j /\ On(u, i, h - 1, "reset")
      BY <1>2, <3>1
    <3> QED BY <3>2
  <2>4. \A j \in DOMAIN u : u[j].stream = i => u[j].type \in {"open", "data", "reset"}
    BY <1>2 DEF Stream, Spoken
  <2>5. \A h, j \in DOMAIN u : On(u, i, h, "open") /\ On(u, i, j, "open") => h = j
    BY <1>2 DEF Stream, Spoken
  <2> QED BY <2>1, <2>2, <2>3, <2>4, <2>5 DEF Spoken
<1>6. Joined(u, r, i, v)
  <2>1. OpenIsNew(u, r, i, v)
    BY <1>2 DEF Stream, Joined, OpenIsNew
  <2>2. OwnerLives(u, i, v)
    <3> SUFFICES ASSUME v.lo, ~v.so, ~(~Has(q, i, "open") /\ ~Has(q, i, "reset") /\ v.kx = v.ko)
                 PROVE  \E j \in DOMAIN u : /\ On(u, i, j, "open")
                                            /\ \A h \in DOMAIN u : j < h => ~On(u, i, h, "reset")
      BY <1>3 DEF OwnerLives
    <3>1. PICK j \in DOMAIN q : On(q, i, j, "open") /\ \A h \in DOMAIN q : j < h => ~On(q, i, h, "reset")
      BY DEF Stream, Joined, OwnerLives
    <3>2. j - 1 \in DOMAIN u /\ On(u, i, j - 1, "open")
      BY <1>2, <3>1
    <3>3. \A h \in DOMAIN u : j - 1 < h => ~On(u, i, h, "reset")
      BY <1>2, <3>1, <3>2
    <3> QED BY <3>2, <3>3
  <2>3. OpenLives(u, i, v)
    <3> SUFFICES ASSUME NEW j \in DOMAIN u, On(u, i, j, "open"), ~v.so,
                        \A h \in DOMAIN u : j < h => ~On(u, i, h, "reset")
                 PROVE  v.lo
      BY DEF OpenLives
    <3>1. j + 1 \in DOMAIN q /\ On(q, i, j + 1, "open")
      BY <1>2
    <3>2. \A h \in DOMAIN q : j + 1 < h => ~On(q, i, h, "reset")
      BY <1>2
    <3> QED BY <3>1, <3>2 DEF Stream, Joined, OpenLives
  <2> QED BY <1>3, <2>1, <2>2, <2>3 DEF Stream, Joined, OtherWaits, OtherLives, OwnerWaits
<1>7. Meant(u, r, i, v, S)
  <2>1. ASSUME NEW j \in DOMAIN u, On(u, i, j, "reset")
        PROVE  \/ \E h \in DOMAIN u : h < j /\ On(u, i, h, "open") /\ u[h].k \in S
               \/ Old(u, i, j) /\ (v.kx = 0 \/ v.kx \in S)
    <3>1. j + 1 \in DOMAIN q /\ On(q, i, j + 1, "reset")
      BY <1>2, <2>1
    <3>2. CASE \E h \in DOMAIN q : h < j + 1 /\ On(q, i, h, "open") /\ q[h].k \in S
      <4>1. PICK h \in DOMAIN q : h < j + 1 /\ On(q, i, h, "open") /\ q[h].k \in S
        BY <3>2
      <4>2. h - 1 \in DOMAIN u /\ h - 1 < j /\ On(u, i, h - 1, "open") /\ u[h - 1].k \in S
        BY <1>2, <4>1
      <4> QED BY <4>2
    <3>3. CASE Old(q, i, j + 1) /\ (v.kx = 0 \/ v.kx \in S)
      BY <1>2, <3>3 DEF Old
    <3> QED BY <3>1, <3>2, <3>3 DEF Stream, Meant
  <2> QED BY <2>1 DEF Stream, Meant
<1> QED BY <1>5, <1>6, <1>7 DEF Stream

\* A reset takes the channel off the stream, if there still is one; one that was not
\* closed yet is now, with a reset in turn.
LEMMA OtherReset ==
  ASSUME NEW q, NEW u, NEW r, NEW z, NEW i, NEW v, NEW w, NEW S, NEW m, Stream(q, r, i, v, S),
         Takes(q, u, m), m.stream = i, m.type = "reset",
         IF v.lx THEN Resets(r, z, i, v.sx) ELSE z = r,
         w.ko = v.ko, w.kx = 0, w.bo = v.bo, w.lo = v.lo, ~w.lx, w.so = v.so, w.sx = v.sx
  PROVE  Stream(u, z, i, w, S)
<1>1. PICK n \in Nat : /\ DOMAIN u = 1 .. n /\ DOMAIN q = 1 .. (n + 1) /\ q[1] = m
                       /\ \A j \in 1 .. n : u[j] = q[j + 1]
  BY DEF Takes
<1>2. /\ On(q, i, 1, "reset") /\ ~On(q, i, 1, "open") /\ ~On(q, i, 1, "data") /\ 1 \in DOMAIN q
      /\ \A j \in DOMAIN u : j + 1 \in DOMAIN q /\ u[j] = q[j + 1] /\ j \in Nat /\ 1 < j + 1
      /\ \A j \in DOMAIN q : j = 1 \/ (j - 1 \in DOMAIN u /\ u[j - 1] = q[j] /\ j \in Nat)
  BY <1>1 DEF On
<1>3. Has(u, i, "open") <=> Has(q, i, "open")
  BY <1>2 DEF Has, On
<1>4. v.kx = 0 \/ v.kx \in S
  BY OtherTakes
<1>5. \E y : /\ Stream(q, z, i, y, S) /\ ~y.lx
             /\ y.ko = v.ko /\ y.kx = v.kx /\ y.bo = v.bo /\ y.lo = v.lo /\ y.so = v.so /\ y.sx = v.sx
  <2>1. CASE v.lx
    <3> DEFINE y == [ko |-> v.ko, kx |-> v.kx, bo |-> v.bo, lo |-> v.lo, lx |-> FALSE, so |-> v.so, sx |-> v.sx]
    <3>1. /\ y.ko = v.ko /\ y.kx = v.kx /\ y.bo = v.bo /\ y.lo = v.lo /\ ~y.lx /\ y.so = v.so /\ y.sx = v.sx
      OBVIOUS
    <3> HIDE DEF y
    <3>2. v.kx \in S
      BY <1>4, <2>1 DEF Stream
    <3>3. Stream(q, z, i, y, S)
      BY <2>1, <3>1, <3>2, OtherCloses
    <3> QED BY <3>1, <3>3
  <2>2. CASE ~v.lx
    BY <2>2
  <2> QED BY <2>1, <2>2
<1>6. PICK y : /\ Stream(q, z, i, y, S) /\ ~y.lx
               /\ y.ko = v.ko /\ y.kx = v.kx /\ y.bo = v.bo /\ y.lo = v.lo /\ y.so = v.so /\ y.sx = v.sx
  BY <1>5
<1>7. ASSUME NEW j \in DOMAIN u, On(u, i, j, "data") PROVE ~Old(u, i, j)
  <2>1. j + 1 \in DOMAIN q /\ On(q, i, j + 1, "data") /\ 1 < j + 1
    BY <1>2, <1>7 DEF On
  <2>2. ~Old(q, i, j + 1)
    BY <1>2, <2>1 DEF Stream, Spoken
  <2>3. PICK h \in DOMAIN q : h < j + 1 /\ On(q, i, h, "open")
    BY <2>2 DEF Old
  <2>4. h - 1 \in DOMAIN u /\ h - 1 < j /\ On(u, i, h - 1, "open")
    BY <1>2, <2>3 DEF On
  <2> QED BY <2>4 DEF Old
<1>8. Spoken(u, i, w.kx)
  <2>1. \A h, j \in DOMAIN u : On(u, i, h, "open") /\ On(u, i, j, "data") /\ h < j =>
          u[j].k = u[h].k /\ \A e \in DOMAIN u : h < e /\ e < j => ~On(u, i, e, "reset")
    BY <1>2 DEF Stream, Spoken, On
  <2>2. \A j \in DOMAIN u : u[j].stream = i => u[j].type \in {"open", "data", "reset"}
    BY <1>2 DEF Stream, Spoken
  <2>3. \A h, j \in DOMAIN u : On(u, i, h, "open") /\ On(u, i, j, "open") => h = j
    BY <1>2 DEF Stream, Spoken, On
  <2> QED BY <1>7, <2>1, <2>2, <2>3 DEF Spoken
<1>9. Joined(u, z, i, w)
  <2>1. OpenIsNew(u, z, i, w)
    BY <1>2, <1>6 DEF Stream, Joined, OpenIsNew, On
  <2>2. OwnerLives(u, i, w)
    <3> SUFFICES ASSUME w.lo, ~w.so
                 PROVE  \E j \in DOMAIN u : /\ On(u, i, j, "open")
                                            /\ \A h \in DOMAIN u : j < h => ~On(u, i, h, "reset")
      BY DEF OwnerLives
    <3>1. PICK j \in DOMAIN q : On(q, i, j, "open") /\ \A h \in DOMAIN q : j < h => ~On(q, i, h, "reset")
      BY <1>2 DEF Stream, Joined, OwnerLives, Has
    <3>2. j - 1 \in DOMAIN u /\ On(u, i, j - 1, "open")
      BY <1>2, <3>1 DEF On
    <3>3. \A h \in DOMAIN u : j - 1 < h => ~On(u, i, h, "reset")
      BY <1>2, <3>1, <3>2 DEF On
    <3> QED BY <3>2, <3>3
  <2>3. OpenLives(u, i, w)
    <3> SUFFICES ASSUME NEW j \in DOMAIN u, On(u, i, j, "open"), ~v.so,
                        \A h \in DOMAIN u : j < h => ~On(u, i, h, "reset")
                 PROVE  v.lo
      BY DEF OpenLives
    <3>1. j + 1 \in DOMAIN q /\ On(q, i, j + 1, "open")
      BY <1>2 DEF On
    <3>2. \A h \in DOMAIN q : j + 1 < h => ~On(q, i, h, "reset")
      BY <1>2 DEF On
    <3> QED BY <3>1, <3>2 DEF Stream, Joined, OpenLives
  <2>4. OtherWaits(u, i, w) /\ OtherLives(u, z, i, w)
    BY DEF OtherWaits, OtherLives
  <2>5. OwnerWaits(u, z, i, w)
    BY <1>3, <1>6 DEF Stream, Joined, OwnerWaits
  <2> QED BY <2>1, <2>2, <2>3, <2>4, <2>5 DEF Joined
<1>10. Meant(u, z, i, w, S)
  <2>1. ASSUME NEW j \in DOMAIN u, On(u, i, j, "reset")
        PROVE  \/ \E h \in DOMAIN u : h < j /\ On(u, i, h, "open") /\ u[h].k \in S
               \/ Old(u, i, j)
    <3>1. j + 1 \in DOMAIN q /\ On(q, i, j + 1, "reset")
      BY <1>2, <2>1 DEF On
    <3>2. CASE \E h \in DOMAIN q : h < j + 1 /\ On(q, i, h, "open") /\ q[h].k \in S
      <4>1. PICK h \in DOMAIN q : h < j + 1 /\ On(q, i, h, "open") /\ q[h].k \in S
        BY <3>2
      <4>2. h - 1 \in DOMAIN u /\ h - 1 < j /\ On(u, i, h - 1, "open") /\ u[h - 1].k \in S
        BY <1>2, <4>1 DEF On
      <4> QED BY <4>2
    <3>3. CASE Old(q, i, j + 1)
      BY <1>2, <3>3 DEF Old, On
    <3> QED BY <3>1, <3>2, <3>3 DEF Stream, Meant
  <2> QED BY <1>6, <2>1 DEF Stream, Meant
<1>11. Answered(z, i, w.ko, w.bo) /\ (w.lo => w.bo) /\ (w.bo => w.ko # 0)
  BY <1>6 DEF Stream
<1> QED BY <1>8, <1>9, <1>10, <1>11 DEF Stream
-----------------------------------------------------------------------------
(* The two peers.                                                          *)

\* All that a peer has on its way.
Line(s) == s.wire \o s.sendq

\* Stream i has a channel that is bound, and not closed either.
Held(s, i) == s.reg[i] # 0 /\ s.chan[s.reg[i]].bound
InUse(s, i) == s.reg[i] # 0 /\ s.chan[s.reg[i]].bound /\ ~s.chan[s.reg[i]].closed

\* The ends of stream i, of which the peer in state o is the owner.
View(o, x, i) ==
  [ko |-> o.reg[i], kx |-> x.reg[i], bo |-> Held(o, i), lo |-> InUse(o, i), lx |-> InUse(x, i),
   so |-> o.stopped, sx |-> x.stopped]

\* Channels that an application has closed.
Said(s, o) == {k \in Chans : s.chan[k].byApp \/ o.chan[k].byApp}

\* Stream i between p, in state s, and the other peer, in state o.
Fit(p, s, o, i, S) ==
  IF i % 2 = Parity(p) THEN Stream(Line(s), Line(o), i, View(s, o, i), S)
                       ELSE Stream(Line(o), Line(s), i, View(o, s, i), S)

\* The channels of one peer. One that is in use is found by its stream; one that this
\* peer has yet to open is not bound; and one that was not opened, or that keeps its
\* stream, although it is closed was closed by the application.
ChanOK(s, k) ==
  LET c == s.chan[k] IN
  /\ c.bound /\ ~c.closed => c.stream \in Streams /\ s.reg[c.stream] = k
  /\ c.kind = "none" => ~c.bound /\ ~c.closed /\ ~c.byApp /\ c.got = {}
  /\ (s.sctp \in {"connecting", "up"} \/ s.task) /\ c.kind = "out" => ~c.bound
  /\ k \in s.todo /\ c.kind = "out" => ~c.bound /\ ~c.closed /\ s.reg[c.stream] = k
  /\ c.kind = "in" => c.bound
  /\ c.closed /\ ~c.bound => c.byApp
RegisteredOK(s, i) ==
  s.reg[i] # 0 /\ s.chan[s.reg[i]].closed => s.chan[s.reg[i]].byApp
Local(s) ==
  /\ \A k \in Chans : ChanOK(s, k)
  /\ \A i \in Streams : RegisteredOK(s, i)
  /\ s.task \/ s.todo # {} => s.sctp = "connected"
  /\ s.task => s.todo = {}
  /\ s.sctp = "connected" /\ ~s.over => s.unassigned = <<>>

\* The channels a peer creates are on its own streams.
Owns(p, s) ==
  \A i \in Streams : s.reg[i] # 0 /\ s.chan[s.reg[i]].kind = "out" => i % 2 = Parity(p)

\* A channel that is still to be opened, at s, does not exist at the other peer.
Unknown(s, o) ==
  /\ \A k \in Chans : s.chan[k].kind = "out" /\ ~s.chan[k].bound => o.chan[k].kind = "none"
  /\ \A j \in DOMAIN Line(s) : Line(s)[j].type = "open" => o.chan[Line(s)[j].k].kind = "none"

ClosedOK(s, o) == \A k \in Chans : s.chan[k].closed => k \in Said(s, o)

Alive(p, s, o) ==
  /\ \A i \in Streams : Fit(p, s, o, i, Said(s, o))
  /\ Owns(p, s) /\ Local(s) /\ Unknown(s, o) /\ ClosedOK(s, o)

\* After the association nothing is on its way, and nothing is to be done.
Dead(s) ==
  s.sctp = "disconnected" /\ Line(s) = <<>> /\ ~s.task /\ s.todo = {} /\ ~s.flush

\* What p has on its way was sent, and so was what it got; and what was sent is still on
\* its way to a peer that should get it.
Data(q) == {q[j] : j \in {h \in DOMAIN q : q[h].type = "data"}}
CarriedOK(p, s, sn) ==
  \A m \in Data(Line(s)) : m.n \in DOMAIN sn /\ sn[m.n].peer = p /\ sn[m.n].k = m.k
GotOK(p, s, sn) ==
  \A k \in Chans : \A n \in s.chan[k].got : n \in DOMAIN sn /\ sn[n].peer = Other(p) /\ sn[n].k = k
Misses(o, sn, n) == ~o.stopped /\ ~o.chan[sn[n].k].byApp /\ n \notin o.chan[sn[n].k].got
ArriveOK(p, s, o, sn) ==
  \A n \in DOMAIN sn : sn[n].peer = p /\ ~sn[n].lost /\ Misses(o, sn, n) => \E m \in Data(Line(s)) : m.n = n
Mail(p, s, o, sn, l) ==
  CarriedOK(p, s, sn) /\ GotOK(p, s, sn) /\ (~l => ArriveOK(p, s, o, sn))

NInv ==
  /\ \A p \in Peers : Mail(p, peer[p], peer[Other(p)], sent, lost)
  /\ IF Ended THEN \A p \in Peers : Dead(peer[p])
     ELSE \A p \in Peers : Alive(p, peer[p], peer[Other(p)])

-----------------------------------------------------------------------------
(* What the functions of SctpTransport do to the line.                     *)

AllMessages == Messages \cup {Shutdown}

LEMMA LineType ==
  ASSUME NEW s \in PeerStates
  PROVE  /\ s.wire \in Seq(AllMessages) /\ s.sendq \in Seq(AllMessages) /\ s.sendq \in Seq(Messages)
         /\ Line(s) \in Seq(AllMessages) /\ DOMAIN Line(s) \subseteq Nat
<1>1. s.wire \in Seq(AllMessages) /\ s.sendq \in Seq(Messages)
  BY DEF PeerStates, AllMessages
<1>2. s.sendq \in Seq(AllMessages)
  BY <1>1 DEF AllMessages
<1>3. Line(s) \in Seq(AllMessages)
  BY <1>1, <1>2 DEF Line
<1>4. DOMAIN Line(s) \subseteq Nat
  BY <1>3
<1> QED BY <1>1, <1>2, <1>3, <1>4

\* A message joins the queue, or the wire if nothing is queued.
LEMMA LineAdds ==
  ASSUME NEW T, NEW w \in Seq(T), NEW q \in Seq(T), NEW m \in T
  PROVE  /\ Adds(w \o q, w \o Append(q, m), m)
         /\ q = <<>> => Adds(w \o q, Append(w, m) \o q, m)
<1> DEFINE u == w \o q
           z == w \o Append(q, m)
           n == Len(w) + Len(q)
<1>1. /\ Len(w) \in Nat /\ Len(q) \in Nat /\ n \in Nat /\ DOMAIN u = 1 .. n /\ DOMAIN z = 1 .. (n + 1)
      /\ z[n + 1] = m /\ \A j \in 1 .. n : z[j] = u[j]
  OBVIOUS
<1>2. Adds(u, z, m)
  BY <1>1 DEF Adds
<1>3. ASSUME q = <<>> PROVE Adds(u, Append(w, m) \o q, m)
  <2>1. u = w /\ Append(w, m) \o q = Append(w, m)
    BY <1>3
  <2>2. /\ Len(w) \in Nat /\ DOMAIN w = 1 .. Len(w) /\ DOMAIN Append(w, m) = 1 .. (Len(w) + 1)
        /\ Append(w, m)[Len(w) + 1] = m /\ \A j \in 1 .. Len(w) : Append(w, m)[j] = w[j]
    OBVIOUS
  <2>3. Adds(w, Append(w, m), m)
    BY <2>2 DEF Adds
  <2> QED BY <2>1, <2>3
<1> QED BY <1>2, <1>3

\* The first of the queue moves to the wire.
LEMMA LineMoves ==
  ASSUME NEW T, NEW w \in Seq(T), NEW q \in Seq(T), q # <<>>
  PROVE  Append(w, Head(q)) \o Tail(q) = w \o q
<1> DEFINE u == Append(w, Head(q)) \o Tail(q)
           z == w \o q
<1>1. u \in Seq(T) /\ z \in Seq(T) /\ Len(u) = Len(z)
  OBVIOUS
<1>2. \A j \in 1 .. Len(u) : u[j] = z[j]
  OBVIOUS
<1> HIDE DEF u, z
<1>3. u = z
  BY <1>1, <1>2
<1> QED BY <1>3 DEF u, z

\* The first on the wire arrives.
LEMMA LineTakes ==
  ASSUME NEW T, NEW w \in Seq(T), NEW q \in Seq(T), w # <<>>
  PROVE  Takes(w \o q, Tail(w) \o q, Head(w))
<1> DEFINE u == w \o q
           z == Tail(w) \o q
           n == Len(w) + Len(q) - 1
<1>1. Len(w) \in Nat /\ Len(q) \in Nat /\ Len(w) > 0
  OBVIOUS
<1>2. /\ n \in Nat /\ DOMAIN z = 1 .. n /\ DOMAIN u = 1 .. (n + 1) /\ u[1] = Head(w)
      /\ \A j \in 1 .. n : z[j] = u[j + 1]
  BY <1>1
<1> QED BY <1>2 DEF Takes

-----------------------------------------------------------------------------
(* Steps of one peer, from s to r, and the line.                           *)

SameChan(c, d) ==
  /\ d.kind = c.kind /\ d.stream = c.stream /\ d.bound = c.bound /\ d.closed = c.closed
  /\ d.got = c.got /\ d.byApp = c.byApp

\* Only the channels and the line change.
Rest(s, r) ==
  /\ r.reg = s.reg /\ r.stopped = s.stopped /\ r.sctp = s.sctp /\ r.unassigned = s.unassigned
  /\ r.task = s.task /\ r.todo = s.todo /\ r.over = s.over

\* Only the line changes, and what is known of the amounts.
Stays(s, r) == Rest(s, r) /\ \A k \in Chans : SameChan(s.chan[k], r.chan[k])

\* Channel k is now as c.
Turns(s, r, k, c) ==
  Rest(s, r) /\ \A j \in Chans : SameChan(IF j = k THEN c ELSE s.chan[j], r.chan[j])

\* A stopped queue takes nothing, but its end is the shutdown.
Hushed(s, r) == Line(r) = Line(s) \/ (s.stopped /\ Adds(Line(s), Line(r), Shutdown))
Says(s, r, m) == IF s.stopped THEN Hushed(s, r) ELSE Adds(Line(s), Line(r), m)

LEMMA StaysTrans ==
  ASSUME NEW s, NEW t, NEW r, Stays(s, t), Stays(t, r)
  PROVE  Stays(s, r)
BY DEF Stays, Rest, SameChan

LEMMA TurnsStays ==
  ASSUME NEW s, NEW t, NEW r, NEW k, NEW c, Turns(s, t, k, c), Stays(t, r)
  PROVE  Turns(s, r, k, c)
BY DEF Turns, Stays, Rest, SameChan

LEMMA AmountStays ==
  ASSUME NEW s \in PeerStates, NEW i \in Streams, NEW d \in {-1, 0, 1}
  PROVE  LET r == UpdateBufferedAmount(s, i, d) IN
         /\ r \in PeerStates /\ Stays(s, r) /\ r.sendq = s.sendq /\ r.wire = s.wire /\ r.shut = s.shut
<1> DEFINE r == UpdateBufferedAmount(s, i, d)
<1>1. Keeps(s, r) /\ r.sendq = s.sendq /\ r.wire = s.wire
  BY AmountUpdated
<1>2. /\ r.shut = s.shut /\ r.task = s.task /\ r.over = s.over
      /\ \A k \in Chans : r.chan[k] = IF d # 0 /\ k = s.reg[i] THEN Triggered(s.chan[k], r.amount[i])
                                      ELSE s.chan[k]
  BY AmountShape
<1> HIDE DEF r
<1>3. r.amount[i] \in Nat /\ s.chan \in [Chans -> ChanStates]
  BY <1>1 DEF Keeps, PeerStates
<1>4. ASSUME NEW k \in Chans PROVE SameChan(s.chan[k], r.chan[k])
  <2>1. s.chan[k] \in ChanStates
    BY <1>3
  <2>2. SameChan(s.chan[k], Triggered(s.chan[k], r.amount[i]))
    BY <1>3, <2>1, TriggeredShape DEF SameChan
  <2>3. SameChan(s.chan[k], s.chan[k])
    BY DEF SameChan
  <2> QED BY <1>2, <2>2, <2>3
<1>5. Stays(s, r)
  BY <1>1, <1>2, <1>4 DEF Stays, Rest, Keeps
<1> QED BY <1>1, <1>2, <1>5 DEF Keeps, r

LEMMA FirstStays ==
  ASSUME NEW s \in PeerStates, s.sendq # <<>>
  PROVE  LET r == SendFirst(s) IN
         r \in PeerStates /\ Stays(s, r) /\ Line(r) = Line(s) /\ r.shut = s.shut
<1> DEFINE m == Head(s.sendq)
           tl == Tail(s.sendq)
           w == Append(s.wire, m)
           t == [s EXCEPT !.sendq = tl, !.wire = w]
           d == 0 - Size(m)
           r == UpdateBufferedAmount(t, m.stream, d)
<1>1. s.sendq \in Seq(Messages) /\ s.wire \in Seq(AllMessages) /\ s.sendq \in Seq(AllMessages)
  BY LineType
<1>2. m \in Messages /\ tl \in Seq(Messages) /\ w \in Seq(AllMessages)
  BY <1>1 DEF AllMessages
<1>3. SendFirst(s) = r
  BY Zenon DEF SendFirst
<1>4. w \o tl = s.wire \o s.sendq
  BY <1>1, LineMoves
<1> HIDE DEF m, tl, w
<1>5. t \in PeerStates /\ t.sendq = tl /\ t.wire = w /\ t.shut = s.shut
  BY <1>2 DEF PeerStates, AllMessages
<1>6. Stays(s, t)
  BY <1>2 DEF PeerStates, Stays, Rest, SameChan
<1> HIDE DEF t
<1>7. d \in {-1, 0, 1} /\ m.stream \in Streams
  BY <1>2, SizeType
<1>8. r \in PeerStates /\ Stays(t, r) /\ r.sendq = t.sendq /\ r.wire = t.wire /\ r.shut = t.shut
  BY <1>5, <1>7, AmountStays
<1> HIDE DEF r
<1>9. Stays(s, r) /\ Line(r) = Line(s)
  BY <1>4, <1>5, <1>6, <1>8, StaysTrans DEF Line
<1> QED BY <1>3, <1>5, <1>8, <1>9

LEMMA StaysSelf ==
  ASSUME NEW s
  PROVE  Stays(s, s)
BY DEF Stays, Rest, SameChan

LEMMA ShutStays ==
  ASSUME NEW s \in PeerStates, s.sendq = <<>>
  PROVE  LET r == ShutDown(s) IN Stays(s, r) /\ Adds(Line(s), Line(r), Shutdown)
<1> DEFINE w == Append(s.wire, Shutdown)
           r == [s EXCEPT !.shut = TRUE, !.wire = w]
<1>1. s.wire \in Seq(AllMessages) /\ s.sendq \in Seq(AllMessages) /\ Shutdown \in AllMessages
  BY LineType DEF AllMessages
<1>2. ShutDown(s) = r
  BY Zenon DEF ShutDown
<1>3. Adds(s.wire \o s.sendq, w \o s.sendq, Shutdown)
  BY <1>1, LineAdds
<1> HIDE DEF w
<1>4. Stays(s, r) /\ r.wire = w /\ r.sendq = s.sendq
  BY DEF PeerStates, Stays, Rest, SameChan
<1> HIDE DEF r
<1> QED BY <1>2, <1>3, <1>4 DEF Line

LEMMA QueueStays ==
  ASSUME NEW s \in PeerStates
  PROVE  LET r == TrySendQueue(s) IN
         /\ r \in PeerStates /\ Stays(s, r) /\ Hushed(s, r)
         /\ r.shut => s.shut \/ s.stopped
<1> DEFINE n == Len(s.sendq)
           D == {r \in PeerStates : Stays(s, r) /\ Line(r) = Line(s) /\ r.shut = s.shut}
<1>1. n \in Nat
  BY DEF PeerStates
<1>2. s \in D
  BY StaysSelf
<1>3. ASSUME NEW r \in D PROVE SendNext(r) \in D
  <2>1. CASE r.sendq # <<>>
    BY <2>1, FirstStays, StaysTrans DEF SendNext
  <2>2. CASE r.sendq = <<>>
    BY <2>2 DEF SendNext
  <2> QED BY <2>1, <2>2
<1>4. PICK f : /\ f[0] = s /\ \A i \in 1 .. n : f[i] = SendNext(f[i - 1])
               /\ TrySendQueue(s) = IF Over(f[n]) THEN ShutDown(f[n]) ELSE f[n]
  BY QueueRounds, Zenon
<1> HIDE DEF n
<1>5. f[n] \in D
  <2>1. \A i \in 1 .. n : f[i - 1] \in D => f[i] \in D
    BY <1>3, <1>4
  <2> HIDE DEF D
  <2> QED BY <1>1, <1>2, <1>4, <2>1, RoundsKeep
<1> DEFINE a == f[n]
           r == TrySendQueue(s)
<1>6. a \in PeerStates /\ Stays(s, a) /\ Line(a) = Line(s) /\ a.shut = s.shut
  BY <1>5
<1>7. r = IF Over(a) THEN ShutDown(a) ELSE a
  BY <1>4
<1>8. r \in PeerStates
  BY QueueSent DEF Good, Keeps
<1> HIDE DEF a, r
<1>9. CASE Over(a)
  <2>1. a.sendq = <<>> /\ a.stopped
    BY <1>9 DEF Over
  <2>2. Stays(a, r) /\ Adds(Line(a), Line(r), Shutdown)
    BY <1>6, <1>7, <1>9, <2>1, ShutStays
  <2>3. s.stopped
    BY <1>6, <2>1 DEF Stays, Rest
  <2>4. Stays(s, r)
    BY <1>6, <2>2, StaysTrans
  <2> QED BY <1>6, <1>8, <2>2, <2>3, <2>4 DEF Hushed, r
<1>10. CASE ~Over(a)
  BY <1>6, <1>7, <1>8, <1>10 DEF Hushed, r
<1> QED BY <1>9, <1>10

\* Queue::push
LEMMA PushStays ==
  ASSUME NEW s \in PeerStates, NEW m \in Messages
  PROVE  LET r == Push(s, m) IN
         /\ r \in PeerStates /\ Stays(s, r) /\ r.shut = s.shut
         /\ IF s.stopped THEN Line(r) = Line(s) ELSE Adds(Line(s), Line(r), m)
<1> DEFINE q == Append(s.sendq, m)
           r == [s EXCEPT !.sendq = q]
<1>1. /\ s.sendq \in Seq(Messages) /\ s.wire \in Seq(AllMessages) /\ s.sendq \in Seq(AllMessages)
      /\ m \in AllMessages
  BY LineType DEF AllMessages
<1>2. q \in Seq(Messages)
  BY <1>1
<1>3. Push(s, m) = IF s.stopped THEN s ELSE r
  BY Zenon DEF Push
<1>4. Adds(s.wire \o s.sendq, s.wire \o q, m)
  BY <1>1, LineAdds
<1> HIDE DEF q
<1>5. r \in PeerStates /\ Stays(s, r) /\ r.wire = s.wire /\ r.sendq = q /\ r.shut = s.shut
  BY <1>2 DEF PeerStates, Stays, Rest, SameChan
<1> HIDE DEF r
<1>6. Adds(Line(s), Line(r), m)
  BY <1>4, <1>5 DEF Line
<1> QED BY <1>3, <1>5, <1>6, StaysSelf

\* send, while the association is up.
LEMMA SendStays ==
  ASSUME NEW s \in PeerStates, ShutOK(s), NEW m \in Messages, s.sctp \in {"up", "connected"}
  PROVE  LET r == Send(s, m) IN r \in PeerStates /\ Stays(s, r) /\ Says(s, r, m)
<1> DEFINE t == TrySendQueue(s)
           w == Append(t.wire, m)
           u == [t EXCEPT !.wire = w]
           z == Push(t, m)
           v == UpdateBufferedAmount(z, m.stream, Size(m))
<1>1. Send(s, m) = IF t.shut THEN t
                   ELSE IF t.sendq = <<>> /\ TrySendMessage(t, m) THEN u ELSE v
  BY Zenon DEF Send
<1>2. t \in PeerStates /\ Stays(s, t) /\ Hushed(s, t)
  BY QueueStays
<1>3. t.shut => s.stopped
  BY QueueStays DEF ShutOK
<1>4. t.stopped = s.stopped /\ (~s.stopped => Line(t) = Line(s))
  BY <1>2 DEF Stays, Rest, Hushed
<1> HIDE DEF t
<1>5. CASE t.shut
  BY <1>1, <1>2, <1>3, <1>5 DEF Says
<1>6. CASE ~t.shut /\ t.sendq = <<>> /\ TrySendMessage(t, m) /\ ~t.stopped
  <2>1. t.wire \in Seq(AllMessages) /\ t.sendq \in Seq(AllMessages) /\ m \in AllMessages
    BY <1>2, LineType DEF AllMessages
  <2>2. Adds(t.wire \o t.sendq, w \o t.sendq, m)
    BY <1>6, <2>1, LineAdds
  <2>5. w \in Seq(AllMessages)
    BY <2>1
  <2> HIDE DEF w
  <2>3. u \in PeerStates /\ Stays(t, u) /\ u.wire = w /\ u.sendq = t.sendq
    BY <1>2, <2>5 DEF PeerStates, Stays, Rest, SameChan, AllMessages
  <2> HIDE DEF u
  <2>4. Adds(Line(s), Line(u), m)
    BY <1>4, <1>6, <2>2, <2>3 DEF Line
  <2> QED BY <1>1, <1>2, <1>4, <1>6, <2>3, <2>4, StaysTrans DEF Says
<1>7. CASE ~t.shut /\ t.sendq = <<>> /\ t.stopped /\ TrySendMessage(t, m)
  \* trySendQueue has shut it down
  <2>1. FALSE
    <3>1. PICK f : TrySendQueue(s) = IF Over(f) THEN ShutDown(f) ELSE f
      BY QueueRounds, Zenon
    <3>2. t = IF Over(f) THEN ShutDown(f) ELSE f
      BY <3>1 DEF t
    <3> QED BY <1>7, <3>2 DEF Over, TrySendMessage, ShutDown
  <2> QED BY <2>1
<1>8. CASE ~t.shut /\ ~(t.sendq = <<>> /\ TrySendMessage(t, m))
  <2>1. /\ z \in PeerStates /\ Stays(t, z)
        /\ IF t.stopped THEN Line(z) = Line(t) ELSE Adds(Line(t), Line(z), m)
    BY <1>2, PushStays
  <2>2. Size(m) \in {-1, 0, 1} /\ m.stream \in Streams
    BY SizeType
  <2> HIDE DEF z
  <2>3. v \in PeerStates /\ Stays(z, v) /\ v.sendq = z.sendq /\ v.wire = z.wire
    BY <2>1, <2>2, AmountStays
  <2> HIDE DEF v
  <2>4. Line(v) = Line(z)
    BY <2>3 DEF Line
  <2>5. Stays(s, v)
    BY <1>2, <2>1, <2>3, StaysTrans
  <2>6. Says(s, v, m)
    BY <1>2, <1>4, <2>1, <2>4 DEF Says, Hushed
  <2> QED BY <1>1, <1>8, <2>3, <2>5, <2>6
<1> QED BY <1>5, <1>6, <1>7, <1>8

LEMMA EnqueueStays ==
  ASSUME NEW s \in PeerStates
  PROVE  LET r == EnqueueFlush(s) IN
         /\ r \in PeerStates /\ Stays(s, r) /\ r.wire = s.wire /\ r.sendq = s.sendq /\ Line(r) = Line(s)
<1> DEFINE b == s.sendq # <<>> \/ (s.stopped /\ ~s.shut)
           r == [s EXCEPT !.flush = b]
<1>1. b \in BOOLEAN
  OBVIOUS
<1>2. EnqueueFlush(s) = r
  BY Zenon DEF EnqueueFlush
<1> HIDE DEF b
<1>3. r \in PeerStates /\ Stays(s, r) /\ r.wire = s.wire /\ r.sendq = s.sendq
  BY <1>1 DEF PeerStates, Stays, Rest, SameChan
<1> HIDE DEF r
<1> QED BY <1>2, <1>3 DEF Line

LEMMA CloseStreamStays ==
  ASSUME NEW s \in PeerStates, NEW i \in Streams
  PROVE  LET r == CloseStream(s, i) IN
         r \in PeerStates /\ Stays(s, r) /\ Resets(Line(s), Line(r), i, s.stopped)
<1> DEFINE m == Msg("reset", i, 0, 0)
           t == Push(s, m)
           r == EnqueueFlush(t)
<1>1. m \in Messages /\ m.stream = i /\ m.type = "reset"
  BY ConstantsAssumption DEF Msg, Messages
<1>2. CloseStream(s, i) = r
  BY Zenon DEF CloseStream
<1> HIDE DEF m
<1>3. /\ t \in PeerStates /\ Stays(s, t)
      /\ IF s.stopped THEN Line(t) = Line(s) ELSE Adds(Line(s), Line(t), m)
  BY <1>1, PushStays
<1> HIDE DEF t
<1>4. r \in PeerStates /\ Stays(t, r) /\ Line(r) = Line(t)
  BY <1>3, EnqueueStays
<1> HIDE DEF r
<1>5. Stays(s, r)
  BY <1>3, <1>4, StaysTrans
<1>6. Resets(Line(s), Line(r), i, s.stopped)
  BY <1>1, <1>3, <1>4 DEF Resets
<1> QED BY <1>2, <1>4, <1>5, <1>6

-----------------------------------------------------------------------------
(* What the functions of DataChannel and PeerConnection do.                *)

LEMMA WithTurns ==
  ASSUME NEW s \in PeerStates, NEW k \in Chans, NEW c \in ChanStates
  PROVE  LET r == With(s, k, c) IN
         /\ r \in PeerStates /\ Turns(s, r, k, c) /\ r.chan[k] = c
         /\ r.sendq = s.sendq /\ r.wire = s.wire /\ r.shut = s.shut /\ Line(r) = Line(s)
<1> DEFINE r == With(s, k, c)
<1>1. /\ r \in PeerStates /\ r.chan = [s.chan EXCEPT ![k] = c]
      /\ r.sctp = s.sctp /\ r.reg = s.reg /\ r.unassigned = s.unassigned
      /\ r.todo = s.todo /\ r.sendq = s.sendq /\ r.stopped = s.stopped
      /\ r.wire = s.wire /\ r.over = s.over /\ r.shut = s.shut /\ r.task = s.task
  BY ChanUpdated
<1> HIDE DEF r
<1>2. s.chan \in [Chans -> ChanStates]
  BY DEF PeerStates
<1>3. \A j \in Chans : r.chan[j] = IF j = k THEN c ELSE s.chan[j]
  BY <1>1, <1>2
<1>4. Turns(s, r, k, c)
  BY <1>1, <1>3 DEF Turns, Rest, SameChan
<1> QED BY <1>1, <1>3, <1>4 DEF Line, r

LEMMA CloseTurns ==
  ASSUME NEW s \in PeerStates, NEW k \in Chans, ~s.chan[k].closed
  PROVE  LET r == Close(s, k)
             c == s.chan[k] IN
         /\ r \in PeerStates /\ Turns(s, r, k, [c EXCEPT !.closed = TRUE])
         /\ IF c.bound /\ c.stream # None THEN Resets(Line(s), Line(r), c.stream, s.stopped)
            ELSE Line(r) = Line(s)
<1> DEFINE c == s.chan[k]
           d == [c EXCEPT !.closed = TRUE]
           t == With(s, k, d)
           r == Close(s, k)
<1>1. c \in ChanStates
  BY DEF PeerStates
<1>2. d \in ChanStates
  BY <1>1, ChanFlags
<1>3. [s EXCEPT !.chan[k].closed = TRUE] = t
  BY Zenon DEF With
<1>4. r = IF c.bound /\ c.stream # None THEN CloseStream(t, c.stream) ELSE t
  BY <1>3, Zenon DEF Close
<1> HIDE DEF d
<1>5. /\ t \in PeerStates /\ Turns(s, t, k, d) /\ Line(t) = Line(s)
  BY <1>2, WithTurns
<1>6. t.stopped = s.stopped
  BY <1>5 DEF Turns, Rest
<1> HIDE DEF t, r
<1>7. CASE c.bound /\ c.stream # None
  <2>1. c.stream \in Streams
    BY <1>1, <1>7 DEF ChanStates
  <2>2. r \in PeerStates /\ Stays(t, r) /\ Resets(Line(t), Line(r), c.stream, t.stopped)
    BY <1>4, <1>5, <1>7, <2>1, CloseStreamStays
  <2>3. Turns(s, r, k, d)
    BY <1>5, <2>2, TurnsStays
  <2> QED BY <1>5, <1>6, <1>7, <2>2, <2>3 DEF r, d, c
<1>8. CASE ~(c.bound /\ c.stream # None)
  BY <1>4, <1>5, <1>8 DEF r, d, c
<1> QED BY <1>7, <1>8

LEMMA OpenTurns ==
  ASSUME NEW s \in PeerStates, ShutOK(s), NEW k \in Chans, s.chan[k].stream \in Streams,
         s.sctp \in {"up", "connected"}
  PROVE  LET r == Open(s, k) IN
         /\ r \in PeerStates /\ Turns(s, r, k, [s.chan[k] EXCEPT !.bound = TRUE])
         /\ Says(s, r, Msg("open", s.chan[k].stream, k, 0))
<1> DEFINE c == s.chan[k]
           d == [c EXCEPT !.bound = TRUE]
           t == With(s, k, d)
           m == Msg("open", c.stream, k, 0)
           r == Send(t, m)
<1>1. c \in ChanStates
  BY DEF PeerStates
<1>2. d \in ChanStates
  BY <1>1, ChanFlags
<1>3. [s EXCEPT !.chan[k].bound = TRUE] = t
  BY Zenon DEF With
<1>4. Open(s, k) = r
  BY <1>3, Zenon DEF Open
<1>5. m \in Messages
  BY ConstantsAssumption DEF Msg, Messages, Chans
<1> HIDE DEF d, m
<1>6. /\ t \in PeerStates /\ Turns(s, t, k, d) /\ Line(t) = Line(s)
      /\ t.sendq = s.sendq /\ t.wire = s.wire /\ t.shut = s.shut
  BY <1>2, WithTurns
<1>7. t.stopped = s.stopped /\ t.sctp = s.sctp
  BY <1>6 DEF Turns, Rest
<1> HIDE DEF t
<1>8. ShutOK(t)
  BY <1>6, <1>7 DEF ShutOK
<1>9. r \in PeerStates /\ Stays(t, r) /\ Says(t, r, m)
  BY <1>5, <1>6, <1>7, <1>8, SendStays
<1> HIDE DEF r
<1>10. Turns(s, r, k, d) /\ Says(s, r, m)
  BY <1>6, <1>7, <1>9, TurnsStays DEF Says, Hushed
<1> QED BY <1>4, <1>9, <1>10 DEF d, c, m

\* assignDataChannels changes nothing but the list and what it gives.
Holds(s, r) ==
  /\ r.sctp = s.sctp /\ r.stopped = s.stopped /\ r.task = s.task /\ r.todo = s.todo
  /\ r.wire = s.wire /\ r.sendq = s.sendq
Given(p, s, r, k, i) ==
  /\ i \in Streams /\ s.reg[i] = 0 /\ i % 2 = Parity(p) /\ s.chan[k].stream = None /\ ~r.over
  /\ \A h \in Streams : r.reg[h] = IF h = i THEN k ELSE s.reg[h]
  /\ r.chan[k] = [s.chan[k] EXCEPT !.stream = i] /\ \A j \in Chans \ {k} : r.chan[j] = s.chan[j]

LEMMA OneGives ==
  ASSUME NEW p \in Peers, NEW s \in PeerStates, NEW k \in Chans
  PROVE  LET r == AssignOne(p, s, k) IN
         /\ r \in PeerStates /\ Holds(s, r) /\ r.unassigned = s.unassigned
         /\ \/ r.over /\ r.chan = s.chan /\ r.reg = s.reg
            \/ \E i : Given(p, s, r, k, i)
<1> DEFINE F == Free(p, s)
           i == CHOOSE i \in F : \A h \in F : i <= h
           o == [s EXCEPT !.over = TRUE]
           c == [s.chan[k] EXCEPT !.stream = i]
           t == With(s, k, c)
           reg == [s.reg EXCEPT ![i] = k]
           r == [t EXCEPT !.reg = reg]
<1>1. CASE s.over
  <2>1. AssignOne(p, s, k) = s
    BY <1>1, Zenon DEF AssignOne
  <2> QED BY <1>1, <2>1 DEF Holds
<1>2. CASE ~s.over /\ (F = {} \/ s.chan[k].stream # None)
  <2>1. AssignOne(p, s, k) = o
    BY <1>2, Zenon DEF AssignOne
  <2>2. /\ o \in PeerStates /\ o.chan = s.chan /\ o.reg = s.reg /\ o.over
        /\ o.unassigned = s.unassigned /\ Holds(s, o)
    BY DEF PeerStates, Holds
  <2> QED BY <2>1, <2>2
<1>3. CASE ~s.over /\ F # {} /\ s.chan[k].stream = None
  <2>1. AssignOne(p, s, k) = [s EXCEPT !.chan[k].stream = i, !.reg[i] = k]
    BY <1>3, Zenon DEF AssignOne
  <2>2. \E h \in F : \A g \in F : h <= g
    <3>1. F \subseteq Nat /\ F # {}
      BY <1>3 DEF Free, Streams
    <3> HIDE DEF F
    <3> QED BY <3>1, SetMinimum
  <2>3. i \in F
    <3> HIDE DEF F
    <3> QED BY <2>2
  <2>4. i \in Streams /\ s.reg[i] = 0 /\ i % 2 = Parity(p)
    BY <2>3 DEF Free
  <2> HIDE DEF i, F
  <2>5. c \in ChanStates
    <3>1. s.chan[k] \in ChanStates
      BY DEF PeerStates
    <3> QED BY <2>4, <3>1 DEF ChanStates
  <2>6. reg \in [Streams -> 0 .. MaxChans] /\ \A h \in Streams : reg[h] = IF h = i THEN k ELSE s.reg[h]
    BY <2>4, ConstantsAssumption DEF PeerStates, Chans
  <2>7. [s EXCEPT !.chan[k].stream = i, !.reg[i] = k] = r
    BY DEF PeerStates, With
  <2> HIDE DEF c, reg
  <2>8. /\ t \in PeerStates /\ t.chan = [s.chan EXCEPT ![k] = c] /\ t.unassigned = s.unassigned
        /\ Holds(s, t) /\ t.over = s.over
    BY <2>5, ChanUpdated DEF Holds
  <2> HIDE DEF t
  <2>9. /\ r \in PeerStates /\ r.chan = t.chan /\ r.reg = reg /\ r.unassigned = s.unassigned
        /\ Holds(s, r) /\ r.over = s.over
    BY <2>6, <2>8 DEF PeerStates, Holds
  <2> HIDE DEF r
  <2>10. s.chan \in [Chans -> ChanStates]
    BY DEF PeerStates
  <2>11. r.chan[k] = c /\ \A j \in Chans \ {k} : r.chan[j] = s.chan[j]
    BY <2>8, <2>9, <2>10
  <2>12. Given(p, s, r, k, i)
    BY <1>3, <2>4, <2>6, <2>9, <2>11 DEF Given, c
  <2> QED BY <2>1, <2>7, <2>9, <2>12
<1> QED BY <1>1, <1>2, <1>3

\* Streams that were free go to channels of this peer that had none.
Gives(p, s, r) ==
  /\ r \in PeerStates /\ Holds(s, r)
  /\ \A k \in Chans :
       LET c == s.chan[k]
           d == r.chan[k] IN
       /\ d.kind = c.kind /\ d.bound = c.bound /\ d.closed = c.closed /\ d.got = c.got /\ d.byApp = c.byApp
       /\ d = c \/ c.kind = "out"
  /\ \A i \in Streams :
       \/ r.reg[i] = s.reg[i]
       \/ s.reg[i] = 0 /\ i % 2 = Parity(p) /\ r.reg[i] \in Chans /\ s.chan[r.reg[i]].kind = "out"

LEMMA GivesTrans ==
  ASSUME NEW p, NEW s, NEW t, NEW r, Gives(p, s, t), Gives(p, t, r)
  PROVE  Gives(p, s, r)
<1>1. r \in PeerStates /\ Holds(s, r)
  BY DEF Gives, Holds
<1>2. ASSUME NEW k \in Chans
      PROVE  LET c == s.chan[k]
                 d == r.chan[k] IN
             /\ d.kind = c.kind /\ d.bound = c.bound /\ d.closed = c.closed /\ d.got = c.got /\ d.byApp = c.byApp
             /\ d = c \/ c.kind = "out"
  BY DEF Gives
<1>3. ASSUME NEW i \in Streams
      PROVE  \/ r.reg[i] = s.reg[i]
             \/ s.reg[i] = 0 /\ i % 2 = Parity(p) /\ r.reg[i] \in Chans /\ s.chan[r.reg[i]].kind = "out"
  BY DEF Gives
<1> QED BY <1>1, <1>2, <1>3 DEF Gives

LEMMA OneGivesOut ==
  ASSUME NEW p \in Peers, NEW s \in PeerStates, NEW k \in Chans, s.chan[k].kind = "out"
  PROVE  Gives(p, s, AssignOne(p, s, k))
<1> DEFINE r == AssignOne(p, s, k)
<1>1. /\ r \in PeerStates /\ Holds(s, r)
      /\ \/ r.over /\ r.chan = s.chan /\ r.reg = s.reg
         \/ \E i : Given(p, s, r, k, i)
  BY OneGives
<1> HIDE DEF r
<1>2. CASE r.chan = s.chan /\ r.reg = s.reg
  BY <1>1, <1>2 DEF Gives, r
<1>3. CASE \E i : Given(p, s, r, k, i)
  <2>1. PICK i : Given(p, s, r, k, i)
    BY <1>3
  <2>2. s.chan[k] \in ChanStates
    BY DEF PeerStates
  <2>3. LET c == s.chan[k]
            d == r.chan[k] IN
        d.kind = c.kind /\ d.bound = c.bound /\ d.closed = c.closed /\ d.got = c.got /\ d.byApp = c.byApp
    BY <2>1, <2>2 DEF Given, ChanStates
  <2> QED BY <1>1, <2>1, <2>3 DEF Given, Gives, r
<1> QED BY <1>1, <1>2, <1>3

LEMMA ClearedHolds ==
  ASSUME NEW s \in PeerStates
  PROVE  LET r == Cleared(s) IN
         /\ r \in PeerStates /\ Holds(s, r) /\ r.chan = s.chan /\ r.reg = s.reg /\ r.over = s.over
         /\ ~r.over => r.unassigned = <<>>
<1> DEFINE e == <<>>
           r == [s EXCEPT !.unassigned = e]
<1>5. e \in Seq(Chans)
  OBVIOUS
<1> HIDE DEF e
<1>1. /\ r \in PeerStates /\ Holds(s, r) /\ r.chan = s.chan /\ r.reg = s.reg /\ r.over = s.over
      /\ r.unassigned = e
  BY <1>5 DEF PeerStates, Holds
<1>2. Holds(s, s)
  BY DEF Holds
<1> HIDE DEF r
<1>3. CASE s.over
  BY <1>2, <1>3 DEF Cleared
<1>4. CASE ~s.over
  <2>1. Cleared(s) = r
    BY <1>4 DEF Cleared, r, e
  <2> QED BY <1>1, <1>4, <2>1 DEF e
<1> QED BY <1>3, <1>4

LEMMA AssignGives ==
  ASSUME NEW p \in Peers, NEW s \in PeerStates, Base(s)
  PROVE  /\ Gives(p, s, Assign(p, s))
         /\ ~Assign(p, s).over => Assign(p, s).unassigned = <<>>
<1> DEFINE n == Len(s.unassigned)
           D == {r \in PeerStates : Gives(p, s, r)}
<1>1. n \in Nat /\ \A j \in 1 .. n : s.unassigned[j] \in Chans /\ s.chan[s.unassigned[j]].kind = "out"
  BY DEF PeerStates, Base, BaseBut, KindOK
<1>2. s \in D
  BY DEF Gives, Holds
<1>3. PICK f : /\ f[0] = s /\ \A j \in 1 .. n : f[j] = AssignOne(p, f[j - 1], s.unassigned[j])
               /\ Assign(p, s) = Cleared(f[n])
  BY AssignRounds, ZenonT(90)
<1>4. ASSUME NEW j \in 1 .. n, f[j - 1] \in D PROVE f[j] \in D
  <2> DEFINE a == f[j - 1]
             k == s.unassigned[j]
  <2>1. a \in PeerStates /\ Gives(p, s, a) /\ k \in Chans /\ f[j] = AssignOne(p, a, k)
    BY <1>1, <1>3, <1>4
  <2>2. a.chan[k].kind = "out"
    BY <1>1, <2>1 DEF Gives
  <2> HIDE DEF a, k
  <2>3. Gives(p, a, f[j])
    BY <2>1, <2>2, OneGivesOut
  <2>4. Gives(p, s, f[j])
    BY <2>1, <2>3, GivesTrans
  <2> QED BY <2>4 DEF Gives
<1>5. f[n] \in D
  <2> HIDE DEF D, n
  <2> QED BY <1>1, <1>2, <1>3, <1>4, RoundsKeep
<1> DEFINE a == f[n]
           r == Cleared(a)
<1>6. a \in PeerStates /\ Gives(p, s, a)
  BY <1>5
<1>7. Assign(p, s) = r
  BY <1>3
<1> HIDE DEF a
<1>8. /\ r \in PeerStates /\ Holds(a, r) /\ r.chan = a.chan /\ r.reg = a.reg
      /\ ~r.over => r.unassigned = <<>>
  BY <1>6, ClearedHolds
<1> HIDE DEF r
<1>9. Gives(p, a, r)
  BY <1>8 DEF Gives
<1> QED BY <1>6, <1>7, <1>8, <1>9, GivesTrans

\* One new channel, on a list that was empty unless there were too many channels before.
LEMMA AssignLast ==
  ASSUME NEW p \in Peers, NEW s \in PeerStates, NEW k \in Chans, s.unassigned = <<k>> \/ s.over
  PROVE  LET r == Assign(p, s) IN
         /\ r \in PeerStates /\ Holds(s, r)
         /\ \/ r.over /\ r.chan = s.chan /\ r.reg = s.reg
            \/ r.unassigned = <<>> /\ \E i : Given(p, s, r, k, i)
<1> DEFINE n == Len(s.unassigned)
           r == Assign(p, s)
<1>1. PICK f : /\ f[0] = s /\ \A j \in 1 .. n : f[j] = AssignOne(p, f[j - 1], s.unassigned[j])
               /\ Assign(p, s) = Cleared(f[n])
  BY AssignRounds
<1>2. CASE s.over
  <2> DEFINE D == {s}
  <2>1. n \in Nat /\ f[0] \in D
    BY <1>1 DEF PeerStates
  <2>2. \A j \in 1 .. n : f[j - 1] \in D => f[j] \in D
    BY <1>1, <1>2 DEF AssignOne
  <2>3. f[n] \in D
    <3> HIDE DEF D, n
    <3> QED BY <2>1, <2>2, RoundsKeep
  <2>4. r = s
    BY <1>1, <1>2, <2>3 DEF Cleared
  <2> QED BY <1>2, <2>4 DEF Holds
<1>3. CASE s.unassigned = <<k>>
  <2> DEFINE a == AssignOne(p, s, k)
  <2>1. n = 1 /\ s.unassigned[1] = k
    BY <1>3
  <2>2. f[1] = a
    BY <1>1, <2>1
  <2>3. r = Cleared(a)
    BY <1>1, <2>1, <2>2
  <2>4. /\ a \in PeerStates /\ Holds(s, a)
        /\ \/ a.over /\ a.chan = s.chan /\ a.reg = s.reg
           \/ \E i : Given(p, s, a, k, i)
    BY OneGives
  <2> HIDE DEF a, r
  <2>5. CASE a.over
    BY <2>3, <2>4, <2>5 DEF Cleared, r, Given
  <2>6. CASE ~a.over
    <3>1. PICK i : Given(p, s, a, k, i)
      BY <2>4, <2>6
    <3>2. /\ r \in PeerStates /\ Holds(a, r) /\ r.chan = a.chan /\ r.reg = a.reg
          /\ r.unassigned = <<>> /\ ~r.over
      BY <2>3, <2>4, <2>6, ClearedHolds
    <3>3. Given(p, s, r, k, i)
      BY <3>1, <3>2 DEF Given
    <3> QED BY <2>4, <3>2, <3>3 DEF Holds, r
  <2> QED BY <2>5, <2>6
<1> QED BY <1>2, <1>3

-----------------------------------------------------------------------------
(* A stream while one peer takes a step.                                   *)

LEMMA ViewFields ==
  ASSUME NEW o, NEW x, NEW i
  PROVE  LET v == View(o, x, i) IN
         /\ v.ko = o.reg[i] /\ v.kx = x.reg[i] /\ v.so = o.stopped /\ v.sx = x.stopped
         /\ v.bo \in BOOLEAN /\ v.lo \in BOOLEAN /\ v.lx \in BOOLEAN
         /\ v.bo <=> Held(o, i)
         /\ v.lo <=> InUse(o, i)
         /\ v.lx <=> InUse(x, i)
         /\ v.so <=> o.stopped
         /\ v.sx <=> x.stopped
<1> DEFINE v == View(o, x, i)
           b == Held(o, i)
           c == InUse(o, i)
           d == InUse(x, i)
<1>1. /\ v.ko = o.reg[i] /\ v.kx = x.reg[i] /\ v.bo = b /\ v.lo = c /\ v.lx = d
      /\ v.so = o.stopped /\ v.sx = x.stopped
  BY DEF View
<1>2. b \in BOOLEAN /\ c \in BOOLEAN /\ d \in BOOLEAN
  BY DEF Held, InUse
<1> HIDE DEF v, b, c, d
<1>3. /\ v.bo \in BOOLEAN /\ v.lo \in BOOLEAN /\ v.lx \in BOOLEAN
      /\ (v.bo <=> b) /\ (v.lo <=> c) /\ (v.lx <=> d) /\ (v.so <=> o.stopped) /\ (v.sx <=> x.stopped)
  BY <1>1, <1>2, Zenon
<1> QED BY <1>1, <1>3 DEF v, b, c, d

\* The same at both ends, for the two peers in turn.
LEMMA FitTurn ==
  ASSUME NEW p \in Peers, NEW s, NEW o, NEW i \in Streams, NEW S
  PROVE  Fit(p, s, o, i, S) <=> Fit(Other(p), o, s, i, S)
<1>1. i % 2 = 0 \/ i % 2 = 1
  BY DEF Streams
<1>2. i % 2 = Parity(p) <=> ~(i % 2 = Parity(Other(p)))
  BY <1>1 DEF Peers, Parity, Other
<1> QED BY <1>2 DEF Fit

\* Stream i has the same channel, in the same state.
SameAt(s, r, i) ==
  r.reg[i] = s.reg[i] /\ (Held(r, i) <=> Held(s, i)) /\ (InUse(r, i) <=> InUse(s, i))

LEMMA SameView ==
  ASSUME NEW s, NEW r, NEW o, NEW x, NEW i, SameAt(s, r, i), SameAt(o, x, i)
  PROVE  SameEnds(View(s, o, i), View(r, x, i))
BY ViewFields DEF SameAt, SameEnds

LEMMA FitQuiet ==
  ASSUME NEW p \in Peers, NEW s, NEW r, NEW o, NEW x, NEW i \in Streams, NEW S, NEW T, S \subseteq T,
         Fit(p, s, o, i, S), SameAt(s, r, i), SameAt(o, x, i),
         s.stopped => r.stopped, o.stopped => x.stopped,
         Mirrors(Line(s), Line(r), i), Mirrors(Line(o), Line(x), i)
  PROVE  Fit(p, r, x, i, T)
<1>1. CASE i % 2 = Parity(p)
  <2> DEFINE v == View(s, o, i)
             w == View(r, x, i)
  <2>1. Stream(Line(s), Line(o), i, v, S)
    BY <1>1 DEF Fit
  <2>2. SameEnds(v, w) /\ (v.so => w.so) /\ (v.sx => w.sx)
    BY SameView, ViewFields
  <2> HIDE DEF v, w
  <2>3. Stream(Line(r), Line(x), i, v, T)
    BY <2>1, MirrorStream
  <2>4. Stream(Line(r), Line(x), i, w, T)
    BY <2>2, <2>3, StreamWeaker
  <2> QED BY <1>1, <2>4 DEF Fit, w
<1>2. CASE i % 2 # Parity(p)
  <2> DEFINE v == View(o, s, i)
             w == View(x, r, i)
  <2>1. Stream(Line(o), Line(s), i, v, S)
    BY <1>2 DEF Fit
  <2>2. SameEnds(v, w) /\ (v.so => w.so) /\ (v.sx => w.sx)
    BY SameView, ViewFields
  <2> HIDE DEF v, w
  <2>3. Stream(Line(x), Line(r), i, v, T)
    BY <2>1, MirrorStream
  <2>4. Stream(Line(x), Line(r), i, w, T)
    BY <2>2, <2>3, StreamWeaker
  <2> QED BY <1>2, <2>4 DEF Fit, w
<1> QED BY <1>1, <1>2

\* Channel m.k sends on its stream.
LEMMA FitSays ==
  ASSUME NEW p \in Peers, NEW s, NEW r, NEW o, NEW i \in Streams, NEW S, NEW m,
         Fit(p, s, o, i, S), SameAt(s, r, i), r.stopped = s.stopped, ~s.stopped,
         Adds(Line(s), Line(r), m), m.stream = i, m.k # 0, m.k = s.reg[i],
         m.type = "data" \/ (m.type = "ack" /\ i % 2 # Parity(p)),
         s.chan[m.k].bound, ~s.chan[m.k].closed
  PROVE  Fit(p, r, o, i, S)
<1>0. SameAt(o, o, i)
  BY DEF SameAt
<1>1. CASE i % 2 = Parity(p)
  <2> DEFINE v == View(s, o, i)
             w == View(r, o, i)
  <2>1. Stream(Line(s), Line(o), i, v, S)
    BY <1>1 DEF Fit
  <2>2. SameEnds(v, w) /\ w.so = v.so /\ w.sx = v.sx
    BY <1>0, SameView, ViewFields
  <2>3. m.k = v.ko /\ v.lo /\ ~v.so
    BY ViewFields DEF Held, InUse
  <2> HIDE DEF v, w
  <2>4. Stream(Line(r), Line(o), i, v, S)
    BY <1>1, <2>1, <2>3, OwnerSends
  <2>5. Stream(Line(r), Line(o), i, w, S)
    BY <2>2, <2>4, StreamWeaker
  <2> QED BY <1>1, <2>5 DEF Fit, w
<1>2. CASE i % 2 # Parity(p)
  <2> DEFINE v == View(o, s, i)
             w == View(o, r, i)
  <2>1. Stream(Line(o), Line(s), i, v, S)
    BY <1>2 DEF Fit
  <2>2. SameEnds(v, w) /\ w.so = v.so /\ w.sx = v.sx
    BY <1>0, SameView, ViewFields
  <2>3. m.k = v.kx /\ v.lx
    BY ViewFields DEF Held, InUse
  <2> HIDE DEF v, w
  <2>4. Stream(Line(o), Line(r), i, v, S)
    BY <2>1, <2>3, OtherSends
  <2>5. Stream(Line(o), Line(r), i, w, S)
    BY <2>2, <2>4, StreamWeaker
  <2> QED BY <1>2, <2>5 DEF Fit, w
<1> QED BY <1>1, <1>2

\* The channel on stream i is closed.
LEMMA FitCloses ==
  ASSUME NEW p \in Peers, NEW s, NEW r, NEW o, NEW i \in Streams, NEW S, NEW T, S \subseteq T,
         Fit(p, s, o, i, S), r.stopped = s.stopped, s.reg[i] # 0, r.reg[i] = s.reg[i],
         s.chan[s.reg[i]].bound, ~s.chan[s.reg[i]].closed,
         r.chan[s.reg[i]].bound, r.chan[s.reg[i]].closed, s.reg[i] \in T,
         Resets(Line(s), Line(r), i, s.stopped)
  PROVE  Fit(p, r, o, i, T)
<1>1. CASE i % 2 = Parity(p)
  <2> DEFINE v == View(s, o, i)
             w == View(r, o, i)
  <2>1. Stream(Line(s), Line(o), i, v, S)
    BY <1>1 DEF Fit
  <2>2. /\ w.ko = v.ko /\ w.kx = v.kx /\ w.bo = v.bo /\ ~w.lo /\ w.lx = v.lx /\ w.so = v.so /\ w.sx = v.sx
        /\ v.lo /\ v.ko \in T /\ v.so = s.stopped
    BY ViewFields DEF Held, InUse
  <2> HIDE DEF v, w
  <2>3. Stream(Line(s), Line(o), i, v, T)
    BY <2>1, StreamWeaker DEF SameEnds
  <2>4. Stream(Line(r), Line(o), i, w, T)
    BY <2>2, <2>3, OwnerCloses
  <2> QED BY <1>1, <2>4 DEF Fit, w
<1>2. CASE i % 2 # Parity(p)
  <2> DEFINE v == View(o, s, i)
             w == View(o, r, i)
  <2>1. Stream(Line(o), Line(s), i, v, S)
    BY <1>2 DEF Fit
  <2>2. /\ w.ko = v.ko /\ w.kx = v.kx /\ w.bo = v.bo /\ w.lo = v.lo /\ ~w.lx /\ w.so = v.so /\ w.sx = v.sx
        /\ v.lx /\ v.kx \in T /\ v.sx = s.stopped
    BY ViewFields DEF Held, InUse
  <2> HIDE DEF v, w
  <2>3. Stream(Line(o), Line(s), i, v, T)
    BY <2>1, StreamWeaker DEF SameEnds
  <2>4. Stream(Line(o), Line(r), i, w, T)
    BY <2>2, <2>3, OtherCloses
  <2> QED BY <1>2, <2>4 DEF Fit, w
<1> QED BY <1>1, <1>2

\* The owner gives stream i to a channel, and opens it.
LEMMA FitAssigns ==
  ASSUME NEW p \in Peers, NEW s, NEW r, NEW o, NEW i \in Streams, NEW S, Fit(p, s, o, i, S),
         i % 2 = Parity(p), s.reg[i] = 0, ~r.chan[r.reg[i]].bound, r.stopped = s.stopped, Line(r) = Line(s)
  PROVE  Fit(p, r, o, i, S)
<1> DEFINE v == View(s, o, i)
           w == View(r, o, i)
<1>1. Stream(Line(s), Line(o), i, v, S)
  BY DEF Fit
<1>2. v.ko = 0 /\ w.kx = v.kx /\ ~w.bo /\ ~w.lo /\ w.lx = v.lx /\ w.so = v.so /\ w.sx = v.sx
  BY ViewFields DEF Held, InUse
<1> HIDE DEF v, w
<1>3. Stream(Line(r), Line(o), i, w, S)
  BY <1>1, <1>2, OwnerAssigns
<1> QED BY <1>3 DEF Fit, w

LEMMA HushMirrors ==
  ASSUME NEW s \in PeerStates, NEW r, Hushed(s, r), NEW i \in Streams
  PROVE  Mirrors(Line(s), Line(r), i)
<1>1. Shutdown.stream # i
  BY DEF Shutdown, Msg, None, Streams
<1> QED BY <1>1, LineType, SelfMirrors, AddsMirrors DEF Hushed

LEMMA FitOpens ==
  ASSUME NEW p \in Peers, NEW s \in PeerStates, NEW r, NEW o \in PeerStates, NEW i \in Streams, NEW S,
         Fit(p, s, o, i, S), i % 2 = Parity(p), NEW m, m.type = "open", m.stream = i, m.k = s.reg[i],
         s.reg[i] # 0, ~s.chan[s.reg[i]].bound, r.reg[i] = s.reg[i], r.chan[s.reg[i]].bound,
         ~r.chan[s.reg[i]].closed, r.stopped = s.stopped, Says(s, r, m)
  PROVE  Fit(p, r, o, i, S)
<1> DEFINE v == View(s, o, i)
           w == View(r, o, i)
<1>1. Stream(Line(s), Line(o), i, v, S)
  BY DEF Fit
<1>2. /\ v.ko # 0 /\ ~v.bo /\ w.ko = v.ko /\ w.kx = v.kx /\ w.bo /\ w.lo /\ w.lx = v.lx
      /\ w.so = v.so /\ w.sx = v.sx /\ v.so = s.stopped /\ v.ko = m.k
  BY ViewFields DEF Held, InUse
<1> HIDE DEF v, w
<1>3. CASE s.stopped
  <2>1. Stream(Line(s), Line(o), i, w, S)
    BY <1>1, <1>2, <1>3, OwnerOpens DEF Opens
  <2>2. Mirrors(Line(s), Line(r), i) /\ Mirrors(Line(o), Line(o), i)
    BY <1>3, HushMirrors, LineType, SelfMirrors DEF Says
  <2>3. Stream(Line(r), Line(o), i, w, S)
    BY <2>1, <2>2, MirrorStream
  <2> QED BY <2>3 DEF Fit, w
<1>4. CASE ~s.stopped
  <2>1. Opens(Line(s), Line(r), i, v.ko, v.so)
    BY <1>2, <1>4 DEF Says, Opens
  <2>2. Stream(Line(r), Line(o), i, w, S)
    BY <1>1, <1>2, <2>1, OwnerOpens
  <2> QED BY <2>2 DEF Fit, w
<1> QED BY <1>3, <1>4

-----------------------------------------------------------------------------
(* A stream while p, in state s, takes a message that the other peer has sent: the     *)
(* line of that peer is first Line(o) and then Line(x).                    *)

\* What may arrive.
MayArrive(p, s, o, i, S, m) ==
  /\ m.type \in {"open", "ack", "data", "reset"}
  /\ m.type = "open" => /\ i % 2 # Parity(p) /\ s.reg[i] = 0 /\ o.reg[i] = m.k
                        /\ o.reg[i] # 0 /\ o.chan[o.reg[i]].bound
  /\ m.type = "ack" => i % 2 = Parity(p)
  /\ m.type \in {"ack", "data"} => s.reg[i] = m.k
  /\ m.type = "reset" => s.reg[i] = 0 \/ s.reg[i] \in S
  /\ m.type = "reset" /\ i % 2 = Parity(p) => s.reg[i] # 0 /\ s.chan[s.reg[i]].bound
  /\ m.type = "ack" => s.reg[i] # 0

LEMMA FitTaken ==
  ASSUME NEW p \in Peers, NEW s, NEW o, NEW x, NEW i \in Streams, NEW S, NEW m,
         Fit(p, s, o, i, S), Takes(Line(o), Line(x), m), m.stream = i
  PROVE  MayArrive(p, s, o, i, S, m)
<1>1. CASE i % 2 = Parity(p)
  <2> DEFINE v == View(s, o, i)
  <2>1. Stream(Line(s), Line(o), i, v, S)
    BY <1>1 DEF Fit
  <2>2. v.ko = s.reg[i] /\ (v.bo <=> s.reg[i] # 0 /\ s.chan[s.reg[i]].bound)
    BY ViewFields DEF Held, InUse
  <2> HIDE DEF v
  <2>3. m.type # "reset" => m.k = v.ko /\ v.ko # 0 /\ m.type \in {"ack", "data"}
    BY <2>1, OwnerHears
  <2>4. m.type = "reset" => v.bo /\ v.ko # 0 /\ v.ko \in S
    BY <2>1, OwnerResetSays
  <2> QED BY <1>1, <2>2, <2>3, <2>4 DEF MayArrive
<1>2. CASE i % 2 # Parity(p)
  <2> DEFINE v == View(o, s, i)
  <2>1. Stream(Line(o), Line(s), i, v, S)
    BY <1>2 DEF Fit
  <2>2. v.ko = o.reg[i] /\ v.kx = s.reg[i] /\ (v.bo <=> o.reg[i] # 0 /\ o.chan[o.reg[i]].bound)
    BY ViewFields DEF Held, InUse
  <2> HIDE DEF v
  <2>3. /\ m.type \in {"open", "data", "reset"}
        /\ m.type = "open" => v.kx = 0 /\ v.ko = m.k /\ v.bo
        /\ m.type = "data" => v.kx = m.k
        /\ m.type = "reset" => v.kx = 0 \/ v.kx \in S
    BY <2>1, OtherTakes
  <2> QED BY <1>2, <2>2, <2>3 DEF MayArrive
<1> QED BY <1>1, <1>2

\* A message arrives, and nothing is said.
LEMMA FitHears ==
  ASSUME NEW p \in Peers, NEW s, NEW r, NEW o, NEW x, NEW i \in Streams, NEW S, NEW m,
         Fit(p, s, o, i, S), Takes(Line(o), Line(x), m), m.stream = i, m.type \in {"ack", "data"},
         SameAt(s, r, i), SameAt(o, x, i), r.stopped = s.stopped, x.stopped = o.stopped, Line(r) = Line(s)
  PROVE  Fit(p, r, x, i, S)
<1>1. CASE i % 2 = Parity(p)
  <2> DEFINE v == View(s, o, i)
             w == View(r, x, i)
  <2>1. Stream(Line(s), Line(o), i, v, S)
    BY <1>1 DEF Fit
  <2>2. SameEnds(v, w) /\ w.so = v.so /\ w.sx = v.sx
    BY SameView, ViewFields
  <2> HIDE DEF v, w
  <2>3. Stream(Line(s), Line(x), i, v, S)
    BY <2>1, OwnerHears
  <2>4. Stream(Line(s), Line(x), i, w, S)
    BY <2>2, <2>3, StreamWeaker
  <2> QED BY <1>1, <2>4 DEF Fit, w
<1>2. CASE i % 2 # Parity(p)
  <2> DEFINE v == View(o, s, i)
             w == View(x, r, i)
  <2>1. Stream(Line(o), Line(s), i, v, S)
    BY <1>2 DEF Fit
  <2>2. SameEnds(v, w) /\ w.so = v.so /\ w.sx = v.sx
    BY SameView, ViewFields
  <2> HIDE DEF v, w
  <2>5. m.type = "data"
    BY <2>1, OtherTakes
  <2>3. Stream(Line(x), Line(s), i, v, S)
    BY <2>1, <2>5, OtherHears
  <2>4. Stream(Line(x), Line(s), i, w, S)
    BY <2>2, <2>3, StreamWeaker
  <2> QED BY <1>2, <2>4 DEF Fit, w
<1> QED BY <1>1, <1>2

\* OPEN arrives, and is answered.
LEMMA FitAccepts ==
  ASSUME NEW p \in Peers, NEW s \in PeerStates, NEW r, NEW o, NEW x \in PeerStates, NEW i \in Streams, NEW S,
         NEW m, NEW a, Fit(p, s, o, i, S), Takes(Line(o), Line(x), m), m.stream = i, m.type = "open",
         SameAt(o, x, i), r.stopped = s.stopped, x.stopped = o.stopped,
         r.reg[i] = m.k, r.chan[m.k].bound, ~r.chan[m.k].closed,
         a.type = "ack", a.stream = i, a.k = m.k, Says(s, r, a)
  PROVE  Fit(p, r, x, i, S)
<1>0. MayArrive(p, s, o, i, S, m)
  BY FitTaken
<1>1. i % 2 # Parity(p) /\ m.k # 0
  BY <1>0 DEF MayArrive
<1> DEFINE v == View(o, s, i)
           w == View(x, r, i)
<1>2. Stream(Line(o), Line(s), i, v, S)
  BY <1>1 DEF Fit
<1>3. /\ w.ko = v.ko /\ w.kx = m.k /\ w.so = v.so /\ w.sx = v.sx /\ w.lx /\ v.sx = s.stopped
      /\ w.bo = v.bo /\ w.lo = v.lo
  BY <1>1, ViewFields DEF SameAt, InUse
<1> HIDE DEF v, w
<1>4. Stream(Line(x), Line(s), i, w, S)
  BY <1>1, <1>2, <1>3, OtherOpens
<1>5. CASE s.stopped
  <2>1. Mirrors(Line(s), Line(r), i) /\ Mirrors(Line(x), Line(x), i)
    BY <1>5, HushMirrors, LineType, SelfMirrors DEF Says
  <2>2. Stream(Line(x), Line(r), i, w, S)
    BY <1>4, <2>1, MirrorStream
  <2> QED BY <1>1, <2>2 DEF Fit, w
<1>6. CASE ~s.stopped
  <2>1. Stream(Line(x), Line(r), i, w, S)
    BY <1>3, <1>4, <1>6, OtherSends DEF Says
  <2> QED BY <1>1, <2>1 DEF Fit, w
<1> QED BY <1>5, <1>6

\* A reset arrives; a channel that was in use answers with another.
LEMMA FitReset ==
  ASSUME NEW p \in Peers, NEW s, NEW r, NEW o, NEW x, NEW i \in Streams, NEW S, NEW m,
         Fit(p, s, o, i, S), Takes(Line(o), Line(x), m), m.stream = i, m.type = "reset",
         SameAt(o, x, i), r.stopped = s.stopped, x.stopped = o.stopped,
         r.reg[i] = 0, IF InUse(s, i) THEN Resets(Line(s), Line(r), i, s.stopped) ELSE Line(r) = Line(s)
  PROVE  Fit(p, r, x, i, S)
<1>1. CASE i % 2 = Parity(p)
  <2> DEFINE v == View(s, o, i)
             w == View(r, x, i)
  <2>1. Stream(Line(s), Line(o), i, v, S)
    BY <1>1 DEF Fit
  <2>2. /\ w.ko = 0 /\ w.kx = v.kx /\ ~w.bo /\ ~w.lo /\ w.lx = v.lx /\ w.so = v.so /\ w.sx = v.sx
        /\ v.so = s.stopped /\ (v.lo <=> InUse(s, i))
    BY ViewFields DEF SameAt, Held, InUse
  <2> HIDE DEF v, w
  <2>3. Stream(Line(r), Line(x), i, w, S)
    BY <2>1, <2>2, OwnerReset
  <2> QED BY <1>1, <2>3 DEF Fit, w
<1>2. CASE i % 2 # Parity(p)
  <2> DEFINE v == View(o, s, i)
             w == View(x, r, i)
  <2>1. Stream(Line(o), Line(s), i, v, S)
    BY <1>2 DEF Fit
  <2>2. /\ w.ko = v.ko /\ w.kx = 0 /\ w.bo = v.bo /\ w.lo = v.lo /\ ~w.lx /\ w.so = v.so /\ w.sx = v.sx
        /\ v.sx = s.stopped /\ (v.lx <=> InUse(s, i))
    BY <1>2, ViewFields DEF SameAt, InUse
  <2> HIDE DEF v, w
  <2>3. Stream(Line(x), Line(r), i, w, S)
    BY <2>1, <2>2, OtherReset
  <2> QED BY <1>2, <2>3 DEF Fit, w
<1> QED BY <1>1, <1>2

-----------------------------------------------------------------------------
(* What is on its way.                                                     *)

\* A message other than data joins the line.
LEMMA DataAdds ==
  ASSUME NEW q, NEW u, NEW m, Adds(q, u, m)
  PROVE  Data(u) = IF m.type = "data" THEN Data(q) \cup {m} ELSE Data(q)
<1>1. PICK n \in Nat : /\ DOMAIN q = 1 .. n /\ DOMAIN u = 1 .. (n + 1) /\ u[n + 1] = m
                       /\ \A j \in 1 .. n : u[j] = q[j]
  BY DEF Adds
<1>2. \A j \in DOMAIN u : j = n + 1 \/ (j \in DOMAIN q /\ u[j] = q[j])
  BY <1>1
<1>3. n + 1 \in DOMAIN u /\ \A j \in DOMAIN q : j \in DOMAIN u /\ u[j] = q[j]
  BY <1>1
<1>4. \A e : e \in Data(u) <=> e \in Data(q) \/ (e = m /\ m.type = "data")
  BY <1>1, <1>2, <1>3, Zenon DEF Data
<1> QED BY <1>4

LEMMA DataTakes ==
  ASSUME NEW q, NEW u, NEW m, Takes(q, u, m)
  PROVE  /\ Data(u) \subseteq Data(q)
         /\ \A e \in Data(q) : e \in Data(u) \/ (e = m /\ m.type = "data")
         /\ m.type = "data" => m \in Data(q)
<1>1. PICK n \in Nat : /\ DOMAIN u = 1 .. n /\ DOMAIN q = 1 .. (n + 1) /\ q[1] = m
                       /\ \A j \in 1 .. n : u[j] = q[j + 1]
  BY DEF Takes
<1>2. 1 \in DOMAIN q /\ \A j \in DOMAIN u : j + 1 \in DOMAIN q /\ u[j] = q[j + 1]
  BY <1>1
<1>3. \A j \in DOMAIN q : j = 1 \/ (j - 1 \in DOMAIN u /\ u[j - 1] = q[j])
  BY <1>1
<1>4. m.type = "data" => m \in Data(q)
  BY <1>1, <1>2 DEF Data
<1>5. \A e \in Data(u) : e \in Data(q)
  BY <1>2, Zenon DEF Data
<1>6. \A e \in Data(q) : e \in Data(u) \/ (e = m /\ m.type = "data")
  BY <1>1, <1>3, ZenonT(90) DEF Data
<1> QED BY <1>4, <1>5, <1>6

\* A step in which a peer neither sends nor gets messages.
LEMMA MailSame ==
  ASSUME NEW p \in Peers, NEW s, NEW r, NEW o, NEW sn \in SentSeqs, NEW l,
         Mail(p, s, o, sn, l), Mail(Other(p), o, s, sn, l),
         Data(Line(r)) = Data(Line(s)), s.stopped => r.stopped,
         \A k \in Chans : r.chan[k].got = s.chan[k].got /\ (s.chan[k].byApp => r.chan[k].byApp)
  PROVE  Mail(p, r, o, sn, l) /\ Mail(Other(p), o, r, sn, l)
<1>1. \A n \in DOMAIN sn : sn[n].k \in Chans
  <2> DEFINE E == [peer : Peers, k : Chans, lost : BOOLEAN]
  <2>1. sn \in Seq(E) /\ \A e \in E : e.k \in Chans
    BY DEF SentSeqs
  <2> HIDE DEF E
  <2> QED BY <2>1
<1>2. CarriedOK(p, r, sn) /\ GotOK(p, r, sn)
  BY DEF Mail, CarriedOK, GotOK
<1>3. ArriveOK(p, s, o, sn) => ArriveOK(p, r, o, sn)
  BY DEF ArriveOK
<1>4. \A n \in DOMAIN sn : Misses(r, sn, n) => Misses(s, sn, n)
  BY <1>1 DEF Misses
<1>5. ArriveOK(Other(p), o, s, sn) => ArriveOK(Other(p), o, r, sn)
  BY <1>4 DEF ArriveOK
<1> QED BY <1>2, <1>3, <1>5 DEF Mail

LEMMA SentType ==
  ASSUME NEW sn \in SentSeqs
  PROVE  /\ DOMAIN sn = 1 .. Len(sn) /\ Len(sn) \in Nat
         /\ \A n \in DOMAIN sn : sn[n].k \in Chans /\ sn[n].peer \in Peers
<1> DEFINE E == [peer : Peers, k : Chans, lost : BOOLEAN]
<1>1. sn \in Seq(E) /\ \A e \in E : e.k \in Chans /\ e.peer \in Peers
  BY DEF SentSeqs
<1> HIDE DEF E
<1> QED BY <1>1

-----------------------------------------------------------------------------
(* Steps of p, from s to r, while the other peer is in state o.            *)

LEMMA OtherPeer ==
  ASSUME NEW p \in Peers
  PROVE  Other(p) \in Peers /\ Other(Other(p)) = p /\ Other(p) # p /\ \A e \in Peers : e = p \/ e = Other(p)
BY DEF Peers, Other

\* What the invariant says of p, and of the other peer.
Both(p, s, o) == Alive(p, s, o) /\ Alive(Other(p), o, s)
Mails(p, s, o, sn, l) == Mail(p, s, o, sn, l) /\ Mail(Other(p), o, s, sn, l)

LEMMA InvHas ==
  ASSUME NInv, NEW p \in Peers
  PROVE  /\ Mails(p, peer[p], peer[Other(p)], sent, lost)
         /\ ~Ended => Both(p, peer[p], peer[Other(p)])
BY OtherPeer DEF NInv, Both, Mails

LEMMA OneStep ==
  ASSUME IInv, NEW p \in Peers, NEW r, Update(p, r), r.sctp # "disconnected", ~Ended,
         Both(p, r, peer[Other(p)]), Mails(p, r, peer[Other(p)], sent', lost')
  PROVE  NInv'
<1> DEFINE q == Other(p)
<1>1. q \in Peers /\ Other(q) = p /\ q # p /\ \A e \in Peers : e = p \/ e = q
  BY OtherPeer
<1>2. peer'[p] = r /\ peer'[q] = peer[q]
  BY <1>1 DEF Update, IInv
<1>3. ~Ended'
  BY <1>1, <1>2 DEF Ended
<1>4. \A e \in Peers : Alive(e, peer'[e], peer'[Other(e)])
  BY <1>1, <1>2 DEF Both
<1>5. \A e \in Peers : Mail(e, peer'[e], peer'[Other(e)], sent', lost')
  BY <1>1, <1>2 DEF Mails
<1> QED BY <1>3, <1>4, <1>5 DEF NInv

\* The application has closed all that it had.
Remembers(s, r) == \A k \in Chans : s.chan[k].byApp => r.chan[k].byApp

LEMMA SaidGrows ==
  ASSUME NEW s, NEW r, NEW o, Remembers(s, r)
  PROVE  Said(s, o) \subseteq Said(r, o) /\ Said(o, s) = Said(s, o) /\ Said(o, r) = Said(r, o)
BY DEF Said, Remembers

LEMMA AliveStep ==
  ASSUME NEW p \in Peers, NEW s, NEW r, NEW o, Both(p, s, o), Remembers(s, r),
         \A i \in Streams : Fit(p, r, o, i, Said(r, o)),
         Owns(p, r), Local(r), ClosedOK(r, o), Unknown(r, o), Unknown(o, r)
  PROVE  Both(p, r, o)
<1>1. Alive(p, r, o)
  BY DEF Alive
<1>2. \A i \in Streams : Fit(Other(p), o, r, i, Said(o, r))
  BY FitTurn, SaidGrows
<1>3. Local(o) /\ ClosedOK(o, s) /\ Owns(Other(p), o)
  BY DEF Both, Alive
<1>4. ClosedOK(o, r)
  BY <1>3, SaidGrows DEF ClosedOK
<1> QED BY <1>1, <1>2, <1>3, <1>4 DEF Both, Alive

\* No OPEN joins the line.
NoNewOpen(s, r) ==
  \A j \in DOMAIN Line(r) : Line(r)[j].type = "open" => \E h \in DOMAIN Line(s) : Line(s)[h] = Line(r)[j]

LEMMA NoOpenAdded ==
  ASSUME NEW s, NEW r, NEW m, Adds(Line(s), Line(r), m) \/ Takes(Line(s), Line(r), m), m.type # "open"
  PROVE  NoNewOpen(s, r)
<1>1. CASE Adds(Line(s), Line(r), m)
  <2> DEFINE q == Line(s)
             u == Line(r)
  <2>1. PICK n \in Nat : /\ DOMAIN q = 1 .. n /\ DOMAIN u = 1 .. (n + 1) /\ u[n + 1] = m
                         /\ \A j \in 1 .. n : u[j] = q[j]
    BY <1>1 DEF Adds
  <2>2. \A j \in DOMAIN u : j = n + 1 \/ (j \in DOMAIN q /\ u[j] = q[j])
    BY <2>1
  <2> QED BY <2>1, <2>2 DEF NoNewOpen
<1>2. CASE Takes(Line(s), Line(r), m)
  <2> DEFINE q == Line(s)
             u == Line(r)
  <2>1. PICK n \in Nat : /\ DOMAIN u = 1 .. n /\ DOMAIN q = 1 .. (n + 1) /\ q[1] = m
                         /\ \A j \in 1 .. n : u[j] = q[j + 1]
    BY <1>2 DEF Takes
  <2>2. \A j \in DOMAIN u : j + 1 \in DOMAIN q /\ u[j] = q[j + 1]
    BY <2>1
  <2> QED BY <2>2 DEF NoNewOpen
<1> QED BY <1>1, <1>2

\* A channel that was bound stays so, and the kinds are as before.
Binds(s, r) ==
  \A k \in Chans : r.chan[k].kind = s.chan[k].kind /\ (s.chan[k].bound => r.chan[k].bound)

LEMMA LineOpen ==
  ASSUME NEW s \in PeerStates, NEW j \in DOMAIN Line(s), Line(s)[j].type = "open"
  PROVE  Line(s)[j].k \in Chans
<1>1. Line(s)[j] \in AllMessages
  BY LineType
<1> QED BY <1>1 DEF AllMessages, Messages, Shutdown, Msg

LEMMA UnknownStep ==
  ASSUME NEW s \in PeerStates, NEW r, NEW o \in PeerStates, Unknown(s, o), Unknown(o, s), Binds(s, r),
         NoNewOpen(s, r)
  PROVE  Unknown(r, o) /\ Unknown(o, r)
<1>1. Unknown(r, o)
  BY DEF Unknown, Binds, NoNewOpen
<1>2. \A j \in DOMAIN Line(o) : Line(o)[j].type = "open" => Line(o)[j].k \in Chans
  BY LineOpen
<1>3. Unknown(o, r)
  BY <1>2 DEF Unknown, Binds
<1> QED BY <1>1, <1>3

\* Nothing but the line, the amounts and the end of the queue change.
Idle(s, r) ==
  /\ r.reg = s.reg /\ r.sctp = s.sctp /\ r.unassigned = s.unassigned
  /\ r.task = s.task /\ r.todo = s.todo /\ r.over = s.over /\ (s.stopped => r.stopped)
  /\ \A k \in Chans : SameChan(s.chan[k], r.chan[k])

LEMMA RegType ==
  ASSUME NEW s \in PeerStates, NEW i \in Streams
  PROVE  s.reg[i] = 0 \/ s.reg[i] \in Chans
BY ConstantsAssumption DEF PeerStates, Chans

LEMMA IdleSame ==
  ASSUME NEW s \in PeerStates, NEW r, Idle(s, r), NEW i \in Streams
  PROVE  SameAt(s, r, i)
BY RegType DEF Idle, SameChan, SameAt, Held, InUse

LEMMA IdleLocal ==
  ASSUME NEW s \in PeerStates, NEW r, Idle(s, r), Local(s)
  PROVE  Local(r)
<1>1. ASSUME NEW k \in Chans PROVE ChanOK(r, k)
  <2>1. ChanOK(s, k) /\ SameChan(s.chan[k], r.chan[k])
    BY DEF Idle, Local
  <2> QED BY <2>1 DEF ChanOK, Idle, SameChan
<1>2. ASSUME NEW i \in Streams PROVE RegisteredOK(r, i)
  BY RegType DEF Local, RegisteredOK, Idle, SameChan
<1> QED BY <1>1, <1>2 DEF Local, Idle

\* The same channels are registered, of the same kinds.
LEMMA OwnsSame ==
  ASSUME NEW p, NEW s \in PeerStates, NEW r, Owns(p, s), r.reg = s.reg,
         \A k \in Chans : r.chan[k].kind = s.chan[k].kind
  PROVE  Owns(p, r)
BY RegType DEF Owns

LEMMA IdleStep ==
  ASSUME NEW p \in Peers, NEW s \in PeerStates, NEW r, NEW o \in PeerStates, Both(p, s, o), Idle(s, r),
         \A i \in Streams : Mirrors(Line(s), Line(r), i), NoNewOpen(s, r)
  PROVE  Both(p, r, o)
<1>1. Remembers(s, r) /\ Binds(s, r)
  BY DEF Remembers, Binds, Idle, SameChan
<1>2. ASSUME NEW i \in Streams PROVE Fit(p, r, o, i, Said(r, o))
  <2>1. Fit(p, s, o, i, Said(s, o)) /\ Said(s, o) \subseteq Said(r, o)
    BY <1>1, SaidGrows DEF Both, Alive
  <2>2. SameAt(s, r, i) /\ SameAt(o, o, i) /\ (s.stopped => r.stopped)
    BY IdleSame DEF SameAt, Idle
  <2>3. Mirrors(Line(o), Line(o), i)
    BY LineType, SelfMirrors
  <2> QED BY <2>1, <2>2, <2>3, FitQuiet
<1>3. Local(r)
  BY IdleLocal DEF Both, Alive
<1>4. ClosedOK(r, o)
  BY <1>1, SaidGrows DEF Both, Alive, ClosedOK, Idle, SameChan
<1>5. Unknown(r, o) /\ Unknown(o, r)
  BY <1>1, UnknownStep DEF Both, Alive
<1>6. Owns(p, r)
  BY OwnsSame DEF Both, Alive, Idle, SameChan
<1> QED BY <1>1, <1>2, <1>3, <1>4, <1>5, <1>6, AliveStep

LEMMA StaysIdle ==
  ASSUME NEW s, NEW r, Stays(s, r)
  PROVE  Idle(s, r)
BY DEF Stays, Rest, Idle

\* A queue that is stopped, or a flush.
LEMMA HushStep ==
  ASSUME NEW p \in Peers, NEW s \in PeerStates, NEW r, NEW o \in PeerStates, NEW sn \in SentSeqs, NEW l,
         Both(p, s, o), Mails(p, s, o, sn, l), Stays(s, r), Hushed(s, r)
  PROVE  Both(p, r, o) /\ Mails(p, r, o, sn, l)
<1>1. \A i \in Streams : Mirrors(Line(s), Line(r), i)
  BY HushMirrors
<1>2. Shutdown.type # "open" /\ Shutdown.type # "data"
  BY DEF Shutdown, Msg
<1>3. NoNewOpen(s, r)
  <2>1. CASE Line(r) = Line(s)
    BY <2>1 DEF NoNewOpen
  <2>2. CASE Adds(Line(s), Line(r), Shutdown)
    BY <1>2, <2>2, NoOpenAdded
  <2> QED BY <2>1, <2>2 DEF Hushed
<1>4. Data(Line(r)) = Data(Line(s))
  BY <1>2, DataAdds DEF Hushed
<1>5. Both(p, r, o)
  BY <1>1, <1>3, StaysIdle, IdleStep
<1>6. /\ s.stopped => r.stopped
      /\ \A k \in Chans : r.chan[k].got = s.chan[k].got /\ (s.chan[k].byApp => r.chan[k].byApp)
  BY DEF Stays, Rest, SameChan
<1>7. Mails(p, r, o, sn, l)
  BY <1>4, <1>6, MailSame DEF Mails
<1> QED BY <1>5, <1>7

-----------------------------------------------------------------------------
(* The actions, while applications leave openDataChannels alone.           *)

\* Two peers in the midst of it.
LEMMA Midst ==
  ASSUME IInv, LInv, NInv, ~Ended, NEW p \in Peers
  PROVE  /\ peer[p] \in PeerStates /\ peer[Other(p)] \in PeerStates /\ Base(peer[p]) /\ Base(peer[Other(p)])
         /\ sent \in SentSeqs /\ peer[p].sctp # "disconnected"
         /\ Both(p, peer[p], peer[Other(p)]) /\ Mails(p, peer[p], peer[Other(p)], sent, lost)
         /\ Local(peer[p])
<1>1. Both(p, peer[p], peer[Other(p)]) /\ Mails(p, peer[p], peer[Other(p)], sent, lost)
  BY InvHas
<1>2. sent \in SentSeqs
  BY DEF IInv, SentSeqs
<1>3. peer[p].sctp # "disconnected"
  BY DEF Ended
<1> QED BY <1>1, <1>2, <1>3, OtherPeer, LowPeer DEF Both, Alive

\* After the end nothing is left to do.
LEMMA NotEnded ==
  ASSUME NInv, NEW p \in Peers,
         peer[p].sctp # "disconnected" \/ peer[p].task \/ peer[p].todo # {} \/ peer[p].flush
  PROVE  ~Ended
BY DEF NInv, Dead

\* A step in which only the amounts, the flush and the end of the queue change.
LEMMA NoLine ==
  ASSUME IInv, LInv, NInv, ~Ended, NEW p \in Peers, NEW r, Update(p, r), UNCHANGED <<sent, lost>>,
         Idle(peer[p], r), Line(r) = Line(peer[p])
  PROVE  NInv'
<1> DEFINE s == peer[p]
           o == peer[Other(p)]
<1>1. /\ s \in PeerStates /\ o \in PeerStates /\ sent \in SentSeqs /\ s.sctp # "disconnected"
      /\ Both(p, s, o) /\ Mails(p, s, o, sent, lost)
  BY Midst
<1> HIDE DEF s, o
<1>2. (\A i \in Streams : Mirrors(Line(s), Line(r), i)) /\ NoNewOpen(s, r)
  BY <1>1, LineType, SelfMirrors DEF NoNewOpen, s
<1>3. Both(p, r, o)
  BY <1>1, <1>2, IdleStep DEF s
<1>4. Mails(p, r, o, sent, lost)
  BY <1>1, MailSame DEF Mails, Idle, SameChan, s
<1>5. r.sctp # "disconnected"
  BY <1>1 DEF Idle, s
<1> QED BY <1>3, <1>4, <1>5, OneStep DEF o

LEMMA StrayClosePeer ==
  ASSUME IInv, LInv, NInv, ~Ended, NEW p \in Peers, ClosePeer(p)
  PROVE  NInv'
<1> DEFINE s == peer[p]
           r == [s EXCEPT !.stopped = TRUE, !.flush = TRUE]
<1>1. s \in PeerStates
  BY Midst
<1>2. Update(p, r) /\ UNCHANGED <<sent, lost>>
  BY DEF ClosePeer
<1> HIDE DEF s
<1>3. Idle(s, r) /\ r.wire = s.wire /\ r.sendq = s.sendq
  BY <1>1 DEF PeerStates, Idle, SameChan
<1> HIDE DEF r
<1> QED BY <1>2, <1>3, NoLine DEF Line, s

LEMMA StrayThreshold ==
  ASSUME IInv, LInv, NInv, ~Ended, NEW p \in Peers, NEW k \in Chans, NEW v \in 0 .. MaxMsgs - 1,
         SetThreshold(p, k, v)
  PROVE  NInv'
<1> DEFINE s == peer[p]
           c == s.chan[k]
           d == [c EXCEPT !.threshold = v, !.waits = TRUE]
           r == With(s, k, d)
<1>1. s \in PeerStates /\ c \in ChanStates
  BY Midst DEF PeerStates
<1>2. v \in Nat
  BY ConstantsAssumption
<1>3. [s EXCEPT !.chan[k].threshold = v, !.chan[k].waits = TRUE] = r
  BY <1>1 DEF With, PeerStates
<1>4. Update(p, r) /\ UNCHANGED <<sent, lost>>
  BY <1>3 DEF SetThreshold
<1>5. d \in ChanStates /\ SameChan(c, d)
  BY <1>1, <1>2 DEF ChanStates, SameChan
<1> HIDE DEF d
<1>6. Turns(s, r, k, d) /\ Line(r) = Line(s)
  BY <1>1, <1>5, WithTurns
<1> HIDE DEF r
<1>7. Idle(s, r)
  BY <1>5, <1>6 DEF Turns, Rest, Idle, SameChan
<1> QED BY <1>4, <1>6, <1>7, NoLine

LEMMA StrayFlush ==
  ASSUME IInv, LInv, NInv, NEW p \in Peers, Flush(p)
  PROVE  NInv'
<1> DEFINE s == peer[p]
           o == peer[Other(p)]
           t == [s EXCEPT !.flush = FALSE]
           r == IF t.sctp \in {"up", "connected"} THEN TrySendQueue(t) ELSE t
<1>0. ~Ended
  BY NotEnded DEF Flush
<1>1. /\ s \in PeerStates /\ o \in PeerStates /\ sent \in SentSeqs /\ s.sctp # "disconnected"
      /\ Both(p, s, o) /\ Mails(p, s, o, sent, lost)
  BY <1>0, Midst
<1>2. Update(p, r) /\ UNCHANGED <<sent, lost>>
  BY DEF Flush
<1> HIDE DEF s, o
<1>3. t \in PeerStates /\ Stays(s, t) /\ t.wire = s.wire /\ t.sendq = s.sendq
  BY <1>1 DEF PeerStates, Stays, Rest, SameChan
<1> HIDE DEF t
<1>4. Stays(t, r) /\ Hushed(t, r)
  BY <1>3, QueueStays, StaysSelf DEF Hushed
<1> HIDE DEF r
<1>5. Stays(s, r)
  BY <1>3, <1>4, StaysTrans
<1>9. Line(t) = Line(s) /\ t.stopped = s.stopped
  BY <1>3 DEF Line, Stays, Rest
<1>6. Hushed(s, r)
  BY <1>4, <1>9 DEF Hushed
<1>7. Both(p, r, o) /\ Mails(p, r, o, sent, lost)
  BY <1>1, <1>5, <1>6, HushStep
<1>8. r.sctp # "disconnected"
  BY <1>1, <1>5 DEF Stays, Rest
<1> QED BY <1>0, <1>2, <1>7, <1>8, OneStep DEF o

\* A channel sends a message.
LEMMA MailSends ==
  ASSUME NEW p \in Peers, NEW s, NEW r, NEW o, NEW sn \in SentSeqs, NEW l, NEW e, NEW m,
         Mails(p, s, o, sn, l), e.peer = p, m.n = Len(sn) + 1, m.k = e.k, m.type = "data",
         \A k \in Chans : SameChan(s.chan[k], r.chan[k]), r.stopped = s.stopped,
         IF e.lost THEN Data(Line(r)) = Data(Line(s)) ELSE Data(Line(r)) = Data(Line(s)) \cup {m}
  PROVE  Mails(p, r, o, Append(sn, e), l)
<1> DEFINE n == Len(sn) + 1
           z == Append(sn, e)
<1>1. DOMAIN sn = 1 .. Len(sn) /\ Len(sn) \in Nat /\ \A j \in DOMAIN sn : sn[j].k \in Chans
  BY SentType
<1>2. /\ DOMAIN z = 1 .. n /\ z[n] = e /\ n \notin DOMAIN sn
      /\ \A j \in DOMAIN sn : j \in DOMAIN z /\ z[j] = sn[j]
      /\ \A j \in DOMAIN z : j = n \/ j \in DOMAIN sn
  BY <1>1 DEF SentSeqs
<1> HIDE DEF z
<1>3. n \in DOMAIN z
  BY <1>1, <1>2
<1> HIDE DEF n
<1>4. CarriedOK(p, r, z)
  <2>1. ASSUME NEW d \in Data(Line(r)) PROVE d = m \/ d \in Data(Line(s))
    BY <2>1
  <2>2. \A d \in Data(Line(s)) : d.n \in DOMAIN sn /\ sn[d.n].peer = p /\ sn[d.n].k = d.k
    BY DEF Mails, Mail, CarriedOK
  <2> QED BY <1>2, <1>3, <2>1, <2>2 DEF CarriedOK, n
<1>5. CarriedOK(Other(p), o, z)
  BY <1>2 DEF Mails, Mail, CarriedOK
<1>6. GotOK(p, r, z) /\ GotOK(Other(p), o, z)
  BY <1>2 DEF Mails, Mail, GotOK, SameChan
<1>7. ASSUME ~l PROVE ArriveOK(p, r, o, z) /\ ArriveOK(Other(p), o, r, z)
  <2>1. ArriveOK(p, s, o, sn) /\ ArriveOK(Other(p), o, s, sn)
    BY <1>7 DEF Mails, Mail
  <2>2. ASSUME NEW j \in DOMAIN z, z[j].peer = p, ~z[j].lost, Misses(o, z, j)
        PROVE  \E d \in Data(Line(r)) : d.n = j
    <3>1. CASE j = n
      BY <1>2, <2>2, <3>1 DEF n
    <3>2. CASE j \in DOMAIN sn
      <4>1. sn[j].peer = p /\ ~sn[j].lost /\ Misses(o, sn, j)
        BY <1>2, <2>2, <3>2 DEF Misses
      <4>2. PICK d \in Data(Line(s)) : d.n = j
        BY <2>1, <3>2, <4>1 DEF ArriveOK
      <4> QED BY <4>2
    <3> QED BY <1>2, <3>1, <3>2
  <2>3. ASSUME NEW j \in DOMAIN z, z[j].peer = Other(p), ~z[j].lost, Misses(r, z, j)
        PROVE  \E d \in Data(Line(o)) : d.n = j
    <3>1. j \in DOMAIN sn
      BY <1>2, <2>3, OtherPeer
    <3>2. sn[j].peer = Other(p) /\ ~sn[j].lost /\ Misses(s, sn, j)
      BY <1>1, <1>2, <2>3, <3>1 DEF Misses, SameChan
    <3> QED BY <2>1, <3>1, <3>2 DEF ArriveOK
  <2> QED BY <2>2, <2>3 DEF ArriveOK
<1> QED BY <1>4, <1>5, <1>6, <1>7 DEF Mails, Mail, z

LEMMA StraySend ==
  ASSUME IInv, LInv, NInv, ~Ended, NEW p \in Peers, NEW k \in Chans, SendMessage(p, k)
  PROVE  NInv'
<1> DEFINE s == peer[p]
           o == peer[Other(p)]
           c == s.chan[k]
           n == Len(sent) + 1
           i == c.stream
           m == Msg("data", i, k, n)
           gone == s.stopped \/ s.sctp \notin {"up", "connected"}
           e == [peer |-> p, k |-> k, lost |-> gone]
           r == Send(s, m)
<1>1. /\ s \in PeerStates /\ o \in PeerStates /\ sent \in SentSeqs /\ s.sctp # "disconnected"
      /\ Both(p, s, o) /\ Mails(p, s, o, sent, lost) /\ Local(s) /\ Base(s)
  BY Midst
<1>2. c.bound /\ ~c.closed /\ Update(p, r) /\ sent' = Append(sent, e) /\ lost' = lost
  BY DEF SendMessage
<1>3. /\ i \in Streams /\ s.reg[i] = k /\ k # 0
  BY <1>1, <1>2 DEF Local, ChanOK, Chans
<1>4. n \in Nat
  BY <1>1, SentType
<1>5. m \in Messages /\ m.type = "data" /\ m.stream = i /\ m.k = k /\ m.n = n
  BY <1>3, <1>4, ConstantsAssumption DEF Msg, Messages, Chans
<1>6. e.peer = p /\ e.k = k /\ (e.lost <=> gone) /\ gone \in BOOLEAN /\ e.lost = gone
  OBVIOUS
<1>7. ShutOK(s)
  BY <1>1 DEF Base, BaseBut
<1> HIDE DEF s, o, m, e
<1>8. CASE s.sctp \notin {"up", "connected"}
  <2>1. r = s
    BY <1>8 DEF Send
  <2> HIDE DEF r
  <2>2. Stays(s, r) /\ Data(Line(r)) = Data(Line(s)) /\ r.stopped = s.stopped
    BY <2>1, StaysSelf
  <2>3. Mails(p, r, o, sent', lost)
    BY <1>1, <1>2, <1>5, <1>6, <1>8, <2>2, MailSends DEF Stays
  <2> QED BY <1>1, <1>2, <2>1, <2>3, OneStep DEF o
<1>9. CASE s.sctp \in {"up", "connected"}
  <2>1. Stays(s, r) /\ Says(s, r, m)
    BY <1>1, <1>5, <1>7, <1>9, SendStays
  <2> HIDE DEF r
  <2>2. r.sctp # "disconnected" /\ r.stopped = s.stopped
    BY <1>1, <2>1 DEF Stays, Rest
  <2>3. CASE s.stopped
    <3>1. Hushed(s, r)
      BY <2>1, <2>3 DEF Says
    <3>2. Both(p, r, o)
      BY <1>1, <2>1, <3>1, HushStep
    <3>3. Shutdown.type # "data"
      BY DEF Shutdown, Msg
    <3>4. Data(Line(r)) = Data(Line(s))
      BY <3>1, <3>3, DataAdds DEF Hushed
    <3>5. Mails(p, r, o, sent', lost)
      BY <1>1, <1>2, <1>5, <1>6, <2>1, <2>2, <2>3, <3>4, MailSends DEF Stays
    <3> QED BY <1>2, <2>2, <3>2, <3>5, OneStep DEF o
  <2>4. CASE ~s.stopped
    <3>1. Adds(Line(s), Line(r), m)
      BY <2>1, <2>4 DEF Says
    <3>2. Data(Line(r)) = Data(Line(s)) \cup {m}
      BY <1>5, <3>1, DataAdds
    <3>3. ~gone
      BY <1>9, <2>4
    <3>4. Mails(p, r, o, sent', lost)
      BY <1>1, <1>2, <1>5, <1>6, <2>1, <2>2, <3>2, <3>3, MailSends DEF Stays
    <3>5. Idle(s, r)
      BY <2>1, StaysIdle
    <3>6. Remembers(s, r) /\ Binds(s, r)
      BY <3>5 DEF Remembers, Binds, Idle, SameChan
    <3>7. ASSUME NEW h \in Streams PROVE Fit(p, r, o, h, Said(r, o))
      <4>1. Fit(p, s, o, h, Said(s, o)) /\ Said(s, o) \subseteq Said(r, o)
        BY <1>1, <3>6, SaidGrows DEF Both, Alive
      <4>2. SameAt(s, r, h) /\ SameAt(o, o, h)
        BY <1>1, <3>5, IdleSame DEF SameAt
      <4>3. Mirrors(Line(o), Line(o), h) /\ Mirrors(Line(r), Line(r), h)
        <5>1. DOMAIN Line(r) \subseteq Nat
          BY <3>1 DEF Adds
        <5> QED BY <1>1, <5>1, LineType, SelfMirrors
      <4>4. CASE h = i
        <5>1. Fit(p, r, o, h, Said(s, o))
          BY <1>2, <1>3, <1>5, <2>2, <2>4, <3>1, <4>1, <4>2, <4>4, FitSays DEF s
        <5>2. SameAt(r, r, h)
          BY DEF SameAt
        <5> QED BY <4>1, <4>2, <4>3, <5>1, <5>2, FitQuiet
      <4>5. CASE h # i
        <5>1. Mirrors(Line(s), Line(r), h)
          BY <1>5, <3>1, <4>5, AddsMirrors
        <5> QED BY <2>2, <4>1, <4>2, <4>3, <5>1, FitQuiet
      <4> QED BY <4>4, <4>5
    <3>8. Local(r) /\ ClosedOK(r, o)
      <4>1. ClosedOK(r, o)
        BY <1>1, <3>5, <3>6, SaidGrows DEF Both, Alive, ClosedOK, Idle, SameChan
      <4> QED BY <1>1, <3>5, <4>1, IdleLocal
    <3>9. NoNewOpen(s, r)
      BY <1>5, <3>1, NoOpenAdded
    <3>10. Unknown(r, o) /\ Unknown(o, r)
      BY <1>1, <3>6, <3>9, UnknownStep DEF Both, Alive
    <3>12. Owns(p, r)
      BY <1>1, <3>5, OwnsSame DEF Both, Alive, Idle, SameChan
    <3>11. Both(p, r, o)
      BY <1>1, <3>6, <3>7, <3>8, <3>10, <3>12, AliveStep
    <3> QED BY <1>2, <2>2, <3>4, <3>11, OneStep DEF o
  <2> QED BY <2>3, <2>4
<1> QED BY <1>8, <1>9

\* A stream that the step leaves alone.
LEMMA OthersFit ==
  ASSUME NEW p \in Peers, NEW s, NEW r, NEW o \in PeerStates, NEW h \in Streams, Both(p, s, o),
         Remembers(s, r), s.stopped => r.stopped, SameAt(s, r, h), Mirrors(Line(s), Line(r), h)
  PROVE  Fit(p, r, o, h, Said(r, o))
<1>1. Fit(p, s, o, h, Said(s, o)) /\ Said(s, o) \subseteq Said(r, o)
  BY SaidGrows DEF Both, Alive
<1>2. SameAt(o, o, h) /\ Mirrors(Line(o), Line(o), h)
  BY LineType, SelfMirrors DEF SameAt
<1> QED BY <1>1, <1>2, FitQuiet

\* A reset joins the line, or nothing does.
LEMMA ResetsLine ==
  ASSUME NEW s \in PeerStates, NEW r, NEW i, Line(r) = Line(s) \/ Resets(Line(s), Line(r), i, s.stopped)
  PROVE  /\ Data(Line(r)) = Data(Line(s)) /\ NoNewOpen(s, r)
         /\ \A h \in Streams \ {i} : Mirrors(Line(s), Line(r), h)
         /\ Line(r) = Line(s) => \A h \in Streams : Mirrors(Line(s), Line(r), h)
<1>1. CASE Line(r) = Line(s)
  <2>1. \A h \in Streams : Mirrors(Line(s), Line(r), h)
    BY <1>1, LineType, SelfMirrors
  <2> QED BY <1>1, <2>1 DEF NoNewOpen
<1>2. CASE Line(r) # Line(s)
  <2>1. PICK m : Adds(Line(s), Line(r), m) /\ m.stream = i /\ m.type = "reset"
    BY <1>2 DEF Resets
  <2>2. \A h \in Streams : h # i => Mirrors(Line(s), Line(r), h)
    BY <2>1, AddsMirrors
  <2>3. Data(Line(r)) = Data(Line(s)) /\ NoNewOpen(s, r)
    BY <2>1, DataAdds, NoOpenAdded
  <2> QED BY <1>2, <2>2, <2>3
<1> QED BY <1>1, <1>2

\* The application closes a channel.
LEMMA AppCloses ==
  ASSUME NEW s \in PeerStates, NEW k \in Chans, ~s.chan[k].closed
  PROVE  LET r == [Close(s, k) EXCEPT !.chan[k].byApp = TRUE]
             c == s.chan[k] IN
         /\ Rest(s, r) /\ \A j \in Chans \ {k} : SameChan(s.chan[j], r.chan[j])
         /\ LET d == r.chan[k] IN
            d.kind = c.kind /\ d.stream = c.stream /\ d.bound = c.bound /\ d.closed /\ d.byApp /\ d.got = c.got
         /\ IF c.bound /\ c.stream # None THEN Resets(Line(s), Line(r), c.stream, s.stopped)
            ELSE Line(r) = Line(s)
<1> DEFINE c == s.chan[k]
           t == Close(s, k)
           d == [t.chan[k] EXCEPT !.byApp = TRUE]
           r == With(t, k, d)
<1>1. /\ t \in PeerStates /\ Turns(s, t, k, [c EXCEPT !.closed = TRUE])
      /\ IF c.bound /\ c.stream # None THEN Resets(Line(s), Line(t), c.stream, s.stopped)
         ELSE Line(t) = Line(s)
  BY CloseTurns
<1>2. c \in ChanStates
  BY DEF PeerStates
<1> HIDE DEF t, c
<1>3. [t EXCEPT !.chan[k].byApp = TRUE] = r
  BY <1>1 DEF With, PeerStates
<1>4. t.chan[k] \in ChanStates
  BY <1>1 DEF PeerStates
<1>5. /\ d \in ChanStates /\ d.byApp /\ d.kind = t.chan[k].kind /\ d.stream = t.chan[k].stream
      /\ d.bound = t.chan[k].bound /\ d.closed = t.chan[k].closed /\ d.got = t.chan[k].got
  BY <1>4 DEF ChanStates
<1> HIDE DEF d
<1>6. Turns(t, r, k, d) /\ Line(r) = Line(t) /\ r.chan[k] = d
  BY <1>1, <1>5, WithTurns
<1> HIDE DEF r
<1>7. /\ t.chan[k].kind = c.kind /\ t.chan[k].stream = c.stream /\ t.chan[k].bound = c.bound
      /\ t.chan[k].closed /\ t.chan[k].got = c.got
  BY <1>1, <1>2 DEF Turns, SameChan, ChanStates
<1>8. Rest(s, r) /\ \A j \in Chans \ {k} : SameChan(s.chan[j], r.chan[j])
  <2>1. Rest(s, r)
    BY <1>1, <1>6 DEF Turns, Rest
  <2>2. ASSUME NEW j \in Chans \ {k} PROVE SameChan(s.chan[j], r.chan[j])
    <3>1. SameChan(s.chan[j], t.chan[j]) /\ SameChan(t.chan[j], r.chan[j])
      BY <1>1, <1>6 DEF Turns
    <3> QED BY <3>1 DEF SameChan
  <2> QED BY <2>1, <2>2
<1> QED BY <1>1, <1>3, <1>5, <1>6, <1>7, <1>8 DEF c, t

LEMMA StrayClose ==
  ASSUME ~MayRace, IInv, LInv, NInv, ~Ended, NEW p \in Peers, NEW k \in Chans, CloseChannel(p, k)
  PROVE  NInv'
<1> DEFINE s == peer[p]
           o == peer[Other(p)]
           c == s.chan[k]
           i == c.stream
           r == [Close(s, k) EXCEPT !.chan[k].byApp = TRUE]
<1>1. /\ s \in PeerStates /\ o \in PeerStates /\ sent \in SentSeqs /\ s.sctp # "disconnected"
      /\ Both(p, s, o) /\ Mails(p, s, o, sent, lost) /\ Local(s) /\ Base(s)
  BY Midst
<1>2. c.kind # "none" /\ ~c.closed /\ Update(p, r) /\ sent' = sent /\ lost' = lost /\ s.todo = {}
  BY DEF CloseChannel, Opening
<1>3. c \in ChanStates
  BY <1>1 DEF PeerStates
<1>4. c.bound => i \in Streams /\ s.reg[i] = k /\ i # None
  BY <1>1, <1>2 DEF Local, ChanOK, Streams, None
<1> HIDE DEF s, o
<1>5. /\ Rest(s, r) /\ \A j \in Chans \ {k} : SameChan(s.chan[j], r.chan[j])
      /\ LET d == r.chan[k] IN
         d.kind = c.kind /\ d.stream = c.stream /\ d.bound = c.bound /\ d.closed /\ d.byApp /\ d.got = c.got
      /\ IF c.bound /\ c.stream # None THEN Resets(Line(s), Line(r), c.stream, s.stopped)
         ELSE Line(r) = Line(s)
  BY <1>1, <1>2, AppCloses
<1> HIDE DEF r, c
<1>6. /\ r.reg = s.reg /\ r.stopped = s.stopped /\ r.sctp = s.sctp /\ r.todo = s.todo /\ r.task = s.task
      /\ r.over = s.over /\ r.unassigned = s.unassigned
  BY <1>5 DEF Rest
<1>7. Remembers(s, r) /\ Binds(s, r) /\ \A j \in Chans : r.chan[j].got = s.chan[j].got
  BY <1>5 DEF Remembers, Binds, SameChan, c
<1>8. /\ Data(Line(r)) = Data(Line(s)) /\ NoNewOpen(s, r)
      /\ \A h \in Streams \ {i} : Mirrors(Line(s), Line(r), h)
      /\ Line(r) = Line(s) => \A h \in Streams : Mirrors(Line(s), Line(r), h)
  <2>1. Line(r) = Line(s) \/ Resets(Line(s), Line(r), i, s.stopped)
    BY <1>5
  <2> HIDE DEF i
  <2>2. s \in PeerStates
    BY <1>1
  <2> QED BY <2>1, <2>2, ResetsLine
<1>9. Mails(p, r, o, sent', lost')
  BY <1>1, <1>2, <1>6, <1>7, <1>8, MailSame DEF Mails, Remembers
<1>10. ASSUME NEW h \in Streams PROVE Fit(p, r, o, h, Said(r, o))
  <2>1. CASE s.reg[h] # k
    <3>1. SameAt(s, r, h)
      BY <1>1, <1>5, <1>6, <2>1, RegType DEF SameAt, Held, InUse, SameChan
    <3>2. h # i \/ Line(r) = Line(s)
      BY <1>4, <1>5, <2>1
    <3> QED BY <1>1, <1>6, <1>7, <1>8, <3>1, <3>2, OthersFit
  <2>2. CASE s.reg[h] = k /\ ~c.bound
    <3>1. SameAt(s, r, h)
      BY <1>5, <1>6, <2>2 DEF SameAt, Held, InUse, c
    <3> QED BY <1>1, <1>5, <1>6, <1>7, <1>8, <2>2, <3>1, OthersFit
  <2>3. CASE s.reg[h] = k /\ c.bound
    <3>1. h = i /\ k # 0
      BY <1>1, <2>3 DEF Base, BaseBut, RegOK, c, Chans
    <3>2. Fit(p, s, o, h, Said(s, o)) /\ Said(s, o) \subseteq Said(r, o) /\ k \in Said(r, o)
      BY <1>1, <1>5, <1>7, SaidGrows DEF Both, Alive, Said
    <3>3. Resets(Line(s), Line(r), h, s.stopped)
      BY <1>4, <1>5, <2>3, <3>1
    <3>4. /\ s.reg[h] = k /\ r.reg[h] = k /\ r.stopped = s.stopped /\ s.chan[k].bound
          /\ ~s.chan[k].closed /\ r.chan[k].bound /\ r.chan[k].closed
      BY <1>2, <1>5, <1>6, <2>3, Zenon DEF c, s
    <3> QED BY <3>1, <3>2, <3>3, <3>4, FitCloses
  <2> QED BY <2>1, <2>2, <2>3
<1>11. Local(r)
  <2>1. ASSUME NEW j \in Chans PROVE ChanOK(r, j)
    <3>1. ChanOK(s, j)
      BY <1>1 DEF Local
    <3>2. CASE j = k
      BY <1>2, <1>5, <1>6, <3>1, <3>2 DEF ChanOK, c, s
    <3>3. CASE j # k
      BY <1>5, <1>6, <3>1, <3>3 DEF ChanOK, SameChan
    <3> QED BY <3>2, <3>3
  <2>2. ASSUME NEW h \in Streams PROVE RegisteredOK(r, h)
    BY <1>1, <1>5, <1>6, RegType DEF Local, RegisteredOK, SameChan
  <2> QED BY <1>1, <1>6, <2>1, <2>2 DEF Local
<1>12. ClosedOK(r, o)
  BY <1>1, <1>5, <1>7, SaidGrows DEF Both, Alive, ClosedOK, SameChan, Said
<1>13. Unknown(r, o) /\ Unknown(o, r)
  BY <1>1, <1>7, <1>8, UnknownStep DEF Both, Alive
<1>14. Owns(p, r)
  BY <1>1, <1>6, <1>7, OwnsSame DEF Both, Alive, Binds
<1>15. Both(p, r, o)
  BY <1>1, <1>7, <1>10, <1>11, <1>12, <1>13, <1>14, AliveStep
<1>16. r.sctp # "disconnected"
  BY <1>1, <1>6
<1> QED BY <1>2, <1>9, <1>15, <1>16, OneStep DEF o

-----------------------------------------------------------------------------
(* Creating and opening channels.                                          *)

LEMMA LineOpenFits ==
  ASSUME NEW s \in PeerStates, Base(s), NEW j \in DOMAIN Line(s)
  PROVE  OpenFits(s, Line(s)[j])
<1> DEFINE w == s.wire
           q == s.sendq
<1>1. w \in Seq(AllMessages) /\ q \in Seq(AllMessages)
  BY LineType
<1>2. /\ \A h \in DOMAIN q : OpenFits(s, q[h])
      /\ \A h \in DOMAIN w : OpenFits(s, w[h])
  BY DEF Base, BaseBut, OpenOK
<1>3. j \in DOMAIN (w \o q) /\ Line(s)[j] = (w \o q)[j]
  BY DEF Line
<1> HIDE DEF w, q
<1>4. \/ j \in DOMAIN w /\ (w \o q)[j] = w[j]
      \/ j - Len(w) \in DOMAIN q /\ (w \o q)[j] = q[j - Len(w)]
  BY <1>1, <1>3
<1> QED BY <1>2, <1>3, <1>4

\* A channel that does not exist is not registered.
LEMMA NotRegistered ==
  ASSUME NEW s \in PeerStates, Base(s), NEW k \in Chans, s.chan[k].kind = "none", NEW h \in Streams
  PROVE  s.reg[h] # k
<1>1. k # 0 /\ h # None
  BY DEF Chans, Streams, None
<1> QED BY <1>1 DEF Base, BaseBut, RegOK, KindOK

\* A channel that exists at neither peer is created at one of them.
LEMMA UnknownNew ==
  ASSUME NEW s, NEW r, NEW o \in PeerStates, NEW k \in Chans, Unknown(s, o), Unknown(o, s), Base(o),
         o.chan[k].kind = "none", \A j \in Chans \ {k} : SameChan(s.chan[j], r.chan[j]),
         \A j \in DOMAIN Line(r) : Line(r)[j].type = "open" =>
           \/ Line(r)[j].k = k
           \/ \E h \in DOMAIN Line(s) : Line(s)[h] = Line(r)[j]
  PROVE  Unknown(r, o) /\ Unknown(o, r)
<1>1. Unknown(r, o)
  BY DEF Unknown, SameChan
<1>2. ASSUME NEW j \in DOMAIN Line(o), Line(o)[j].type = "open"
      PROVE  Line(o)[j].k \in Chans \ {k}
  BY <1>2, LineOpen, LineOpenFits DEF OpenFits
<1>3. Unknown(o, r)
  BY <1>2 DEF Unknown, SameChan
<1> QED BY <1>1, <1>3

LEMMA Appears ==
  ASSUME NEW p \in Peers, NEW s \in PeerStates, NEW r, NEW o \in PeerStates, NEW sn \in SentSeqs, NEW l,
         Both(p, s, o), Mails(p, s, o, sn, l), Base(s), Base(o), NEW k \in Chans,
         s.chan[k].kind = "none", o.chan[k].kind = "none", s.todo = {},
         r.reg = s.reg, r.stopped = s.stopped, r.sctp = s.sctp, r.task = s.task, r.todo = s.todo,
         Line(r) = Line(s), \A j \in Chans \ {k} : SameChan(s.chan[j], r.chan[j]),
         r.chan[k].kind = "out", ~r.chan[k].bound, r.chan[k].got = {},
         r.chan[k].closed => r.chan[k].byApp,
         r.sctp = "connected" /\ ~r.over => r.unassigned = <<>>
  PROVE  Both(p, r, o) /\ Mails(p, r, o, sn, l)
<1>1. \A h \in Streams : s.reg[h] # k
  BY NotRegistered
<1>2. Local(s) /\ Owns(p, s) /\ Unknown(s, o) /\ Unknown(o, s) /\ ClosedOK(s, o)
  BY DEF Both, Alive
<1>3. ~s.chan[k].bound /\ ~s.chan[k].closed /\ ~s.chan[k].byApp /\ s.chan[k].got = {}
  BY <1>2 DEF Local, ChanOK
<1>4. Remembers(s, r) /\ \A j \in Chans : r.chan[j].got = s.chan[j].got
  BY <1>3 DEF Remembers, SameChan
<1>5. ASSUME NEW h \in Streams PROVE Fit(p, r, o, h, Said(r, o))
  <2>1. SameAt(s, r, h)
    BY <1>1, RegType DEF SameAt, Held, InUse, SameChan
  <2>2. Mirrors(Line(s), Line(r), h)
    BY LineType, SelfMirrors
  <2> QED BY <1>4, <2>1, <2>2, OthersFit
<1>6. Local(r)
  <2>1. ASSUME NEW j \in Chans PROVE ChanOK(r, j)
    <3>1. ChanOK(s, j)
      BY <1>2 DEF Local
    <3> QED BY <3>1 DEF ChanOK, SameChan
  <2>2. ASSUME NEW h \in Streams PROVE RegisteredOK(r, h)
    BY <1>1, <1>2, RegType DEF Local, RegisteredOK, SameChan
  <2> QED BY <1>2, <2>1, <2>2 DEF Local
<1>7. Owns(p, r)
  BY <1>1, <1>2, RegType DEF Owns, SameChan
<1>8. ClosedOK(r, o)
  BY <1>2, <1>4, SaidGrows DEF ClosedOK, Said, SameChan
<1>9. Unknown(r, o) /\ Unknown(o, r)
  BY <1>2, UnknownNew
<1>10. Both(p, r, o)
  BY <1>4, <1>5, <1>6, <1>7, <1>8, <1>9, AliveStep
<1>11. Mails(p, r, o, sn, l)
  BY <1>4, MailSame DEF Mails, Remembers
<1> QED BY <1>10, <1>11

\* OPEN joins the line, or nothing but the shutdown.
LEMMA SaysLine ==
  ASSUME NEW s \in PeerStates, NEW r, NEW m, Says(s, r, m), m.type # "data"
  PROVE  /\ Data(Line(r)) = Data(Line(s))
         /\ \A h \in Streams : h # m.stream => Mirrors(Line(s), Line(r), h)
         /\ m.type # "open" => NoNewOpen(s, r)
         /\ \A j \in DOMAIN Line(r) : Line(r)[j].type = "open" =>
              \/ Line(r)[j].k = m.k
              \/ \E h \in DOMAIN Line(s) : Line(s)[h] = Line(r)[j]
<1>1. Shutdown.type = "shutdown"
  BY DEF Shutdown, Msg
<1>2. CASE s.stopped
  <2>1. Hushed(s, r)
    BY <1>2 DEF Says
  <2>2. Data(Line(r)) = Data(Line(s))
    BY <1>1, <2>1, DataAdds DEF Hushed
  <2>3. NoNewOpen(s, r)
    <3>1. CASE Line(r) = Line(s)
      BY <3>1 DEF NoNewOpen
    <3>2. CASE Adds(Line(s), Line(r), Shutdown)
      BY <1>1, <3>2, NoOpenAdded
    <3> QED BY <2>1, <3>1, <3>2 DEF Hushed
  <2> QED BY <2>1, <2>2, <2>3, HushMirrors DEF NoNewOpen
<1>3. CASE ~s.stopped
  <2>1. Adds(Line(s), Line(r), m)
    BY <1>3 DEF Says
  <2>2. Data(Line(r)) = Data(Line(s)) /\ (m.type # "open" => NoNewOpen(s, r))
    BY <2>1, DataAdds, NoOpenAdded
  <2>3. \A h \in Streams : h # m.stream => Mirrors(Line(s), Line(r), h)
    BY <2>1, AddsMirrors
  <2>4. ASSUME NEW j \in DOMAIN Line(r)
        PROVE Line(r)[j] = m \/ \E h \in DOMAIN Line(s) : Line(s)[h] = Line(r)[j]
    <3> DEFINE q == Line(s)
               u == Line(r)
    <3>1. PICK n \in Nat : /\ DOMAIN q = 1 .. n /\ DOMAIN u = 1 .. (n + 1) /\ u[n + 1] = m
                           /\ \A g \in 1 .. n : u[g] = q[g]
      BY <2>1 DEF Adds
    <3>2. j = n + 1 \/ (j \in DOMAIN q /\ u[j] = q[j])
      BY <3>1
    <3> QED BY <3>1, <3>2
  <2> QED BY <2>2, <2>3, <2>4
<1> QED BY <1>2, <1>3

LEMMA CreateShape ==
  ASSUME NEW o \in PeerStates, NEW k \in Chans
  PROVE  LET c == [o.chan[k] EXCEPT !.kind = "out"]
             s == [With(o, k, c) EXCEPT !.unassigned = Append(o.unassigned, k)] IN
         /\ s \in PeerStates /\ Holds(o, s) /\ s.reg = o.reg /\ s.over = o.over /\ s.shut = o.shut
         /\ s.unassigned = Append(o.unassigned, k)
         /\ \A j \in Chans \ {k} : s.chan[j] = o.chan[j]
         /\ LET d == s.chan[k]
                e == o.chan[k] IN
            d.kind = "out" /\ d.stream = e.stream /\ d.bound = e.bound /\ d.closed = e.closed
            /\ d.got = e.got /\ d.byApp = e.byApp
<1> DEFINE e == o.chan[k]
           c == [e EXCEPT !.kind = "out"]
           w == With(o, k, c)
           q == Append(o.unassigned, k)
           s == [w EXCEPT !.unassigned = q]
<1>1. /\ c \in ChanStates /\ c.kind = "out" /\ c.stream = e.stream /\ c.closed = e.closed
      /\ c.bound = e.bound /\ c.got = e.got /\ c.byApp = e.byApp
  <2>1. e \in ChanStates
    BY DEF PeerStates
  <2> HIDE DEF e
  <2> QED BY <2>1 DEF ChanStates
<1>2. q \in Seq(Chans)
  BY DEF PeerStates
<1> HIDE DEF c, q
<1>3. /\ w \in PeerStates /\ w.chan = [o.chan EXCEPT ![k] = c] /\ Holds(o, w) /\ w.reg = o.reg
      /\ w.over = o.over /\ w.shut = o.shut
  BY <1>1, ChanUpdated DEF Holds
<1> HIDE DEF w
<1>4. /\ s \in PeerStates /\ s.chan = w.chan /\ Holds(o, s) /\ s.reg = o.reg /\ s.over = o.over
      /\ s.shut = o.shut /\ s.unassigned = q
  BY <1>2, <1>3 DEF PeerStates, Holds
<1> HIDE DEF s
<1>5. o.chan \in [Chans -> ChanStates]
  BY DEF PeerStates
<1>6. s.chan[k] = c /\ \A j \in Chans \ {k} : s.chan[j] = o.chan[j]
  BY <1>3, <1>4, <1>5
<1> QED BY <1>1, <1>4, <1>6 DEF s, w, c, q, e

\* A new channel gets a stream and is opened at once.
LEMMA Launches ==
  ASSUME NEW p \in Peers, NEW s \in PeerStates, NEW t \in PeerStates, NEW r, NEW o \in PeerStates,
         NEW sn \in SentSeqs, NEW l, Both(p, s, o), Mails(p, s, o, sn, l), Base(s), Base(o), NEW k \in Chans,
         s.chan[k].kind = "none", o.chan[k].kind = "none", s.todo = {}, ~s.task, s.sctp = "connected",
         NEW i \in Streams, s.reg[i] = 0, i % 2 = Parity(p),
         \A h \in Streams : t.reg[h] = IF h = i THEN k ELSE s.reg[h],
         t.stopped = s.stopped, t.sctp = s.sctp, t.task = s.task, t.todo = s.todo, Line(t) = Line(s),
         \A j \in Chans \ {k} : SameChan(s.chan[j], t.chan[j]),
         NEW c, c.kind = "out", c.stream = i, c.bound, ~c.closed, ~c.byApp, c.got = {}, ~t.chan[k].bound,
         Turns(t, r, k, c), t.unassigned = <<>>,
         NEW m, m.type = "open", m.stream = i, m.k = k, Says(t, r, m)
  PROVE  Both(p, r, o) /\ Mails(p, r, o, sn, l)
<1>1. /\ \A h \in Streams : s.reg[h] # k
      /\ k # 0
  BY NotRegistered DEF Chans
<1>2. Local(s) /\ Owns(p, s) /\ Unknown(s, o) /\ Unknown(o, s) /\ ClosedOK(s, o)
  BY DEF Both, Alive
<1>3. ~s.chan[k].bound /\ ~s.chan[k].closed /\ ~s.chan[k].byApp /\ s.chan[k].got = {}
  BY <1>2 DEF Local, ChanOK
<1>4. /\ r.reg = t.reg /\ r.stopped = s.stopped /\ r.sctp = s.sctp /\ r.task = s.task /\ r.todo = s.todo
      /\ r.unassigned = <<>> /\ r.over = t.over /\ r.stopped = t.stopped
  BY DEF Turns, Rest
<1>5. /\ \A j \in Chans \ {k} : SameChan(s.chan[j], r.chan[j])
      /\ SameChan(c, r.chan[k])
  <2>1. SameChan(c, r.chan[k]) /\ \A j \in Chans \ {k} : SameChan(t.chan[j], r.chan[j])
    BY DEF Turns
  <2>2. ASSUME NEW j \in Chans \ {k} PROVE SameChan(s.chan[j], r.chan[j])
    <3>1. SameChan(s.chan[j], t.chan[j]) /\ SameChan(t.chan[j], r.chan[j])
      BY <2>1
    <3> QED BY <3>1 DEF SameChan
  <2> QED BY <2>1, <2>2
<1>6. Remembers(s, r) /\ \A j \in Chans : r.chan[j].got = s.chan[j].got
  <2>1. ASSUME NEW j \in Chans
        PROVE  (s.chan[j].byApp => r.chan[j].byApp) /\ r.chan[j].got = s.chan[j].got
    <3>1. CASE j = k
      BY <1>3, <1>5, <3>1 DEF SameChan
    <3>2. CASE j # k
      BY <1>5, <3>2 DEF SameChan
    <3> QED BY <3>1, <3>2
  <2> QED BY <2>1 DEF Remembers
<1>7. Says(s, r, m)
  BY DEF Says, Hushed
<1>8. /\ Data(Line(r)) = Data(Line(s))
      /\ \A h \in Streams : h # i => Mirrors(Line(s), Line(r), h)
      /\ \A j \in DOMAIN Line(r) : Line(r)[j].type = "open" =>
           \/ Line(r)[j].k = k
           \/ \E h \in DOMAIN Line(s) : Line(s)[h] = Line(r)[j]
  BY <1>7, SaysLine
<1>9. ASSUME NEW h \in Streams PROVE Fit(p, r, o, h, Said(r, o))
  <2>1. CASE h # i
    <3>1. SameAt(s, r, h)
      BY <1>1, <1>4, <1>5, <2>1, RegType DEF SameAt, Held, InUse, SameChan
    <3> QED BY <1>4, <1>6, <1>8, <2>1, <3>1, OthersFit
  <2>2. CASE h = i
    <3>1. Fit(p, s, o, i, Said(s, o)) /\ Said(s, o) \subseteq Said(r, o)
      BY <1>6, SaidGrows DEF Both, Alive
    <3>2. t.reg[i] = k
      OBVIOUS
    <3>3. Fit(p, t, o, i, Said(s, o))
      BY <3>1, <3>2, FitAssigns
    <3>4. r.reg[i] = k /\ r.chan[k].bound /\ ~r.chan[k].closed
      BY <1>4, <1>5, <3>2 DEF SameChan
    <3>5. Fit(p, r, o, i, Said(s, o))
      BY <1>1, <1>4, <3>2, <3>3, <3>4, FitOpens
    <3>6. /\ SameAt(r, r, i) /\ SameAt(o, o, i) /\ Mirrors(Line(o), Line(o), i)
          /\ Mirrors(Line(r), Line(r), i)
      <4>1. DOMAIN Line(r) \subseteq Nat
        BY <1>7, LineType DEF Says, Hushed, Adds
      <4> QED BY <4>1, LineType, SelfMirrors DEF SameAt
    <3> QED BY <2>2, <3>1, <3>5, <3>6, FitQuiet
  <2> QED BY <2>1, <2>2
<1>10. Local(r)
  <2>1. ASSUME NEW j \in Chans PROVE ChanOK(r, j)
    <3>1. ChanOK(s, j)
      BY <1>2 DEF Local
    <3>2. CASE j = k
      BY <1>4, <1>5, <3>1, <3>2 DEF ChanOK, SameChan
    <3>3. CASE j # k
      <4>1. SameChan(s.chan[j], r.chan[j]) /\ j # 0
        BY <1>5, <3>3 DEF Chans
      <4>2. s.chan[j].stream \in Streams /\ s.reg[s.chan[j].stream] = j => r.reg[s.chan[j].stream] = j
        BY <1>4, <4>1
      <4> QED BY <1>4, <3>1, <4>1, <4>2 DEF ChanOK, SameChan
    <3> QED BY <3>2, <3>3
  <2>2. ASSUME NEW h \in Streams PROVE RegisteredOK(r, h)
    <3>1. CASE h = i
      BY <1>4, <1>5, <3>1 DEF RegisteredOK, SameChan
    <3>2. CASE h # i
      BY <1>1, <1>2, <1>4, <1>5, <3>2, RegType DEF Local, RegisteredOK, SameChan
    <3> QED BY <3>1, <3>2
  <2> QED BY <1>2, <1>4, <2>1, <2>2 DEF Local
<1>11. Owns(p, r)
  BY <1>1, <1>2, <1>4, <1>5, RegType DEF Owns, SameChan
<1>12. ClosedOK(r, o)
  BY <1>2, <1>5, <1>6, SaidGrows DEF ClosedOK, SameChan
<1>13. Unknown(r, o) /\ Unknown(o, r)
  BY <1>2, <1>5, <1>8, UnknownNew
<1>14. Both(p, r, o)
  BY <1>6, <1>9, <1>10, <1>11, <1>12, <1>13, AliveStep
<1>15. Mails(p, r, o, sn, l)
  BY <1>4, <1>6, <1>8, MailSame DEF Mails, Remembers
<1> QED BY <1>14, <1>15

LEMMA StrayCreate ==
  ASSUME ~MayRace, IInv, LInv, NInv, ~Ended, NEW p \in Peers, CreateDataChannel(p)
  PROVE  NInv'
<1> DEFINE o == peer[p]
           k == made + 1
           c == [o.chan[k] EXCEPT !.kind = "out"]
           s == [With(o, k, c) EXCEPT !.unassigned = Append(o.unassigned, k)]
           t == Assign(p, s)
           d == [Close(t, k).chan[k] EXCEPT !.byApp = TRUE]
           u == [t EXCEPT !.chan[k] = d, !.unassigned = o.unassigned]
           v == With(t, k, d)
           x == [v EXCEPT !.unassigned = o.unassigned]
           y == Open(t, k)
           z == peer[Other(p)]
<1>1. /\ o \in PeerStates /\ z \in PeerStates /\ sent \in SentSeqs /\ o.sctp # "disconnected"
      /\ Both(p, o, z) /\ Mails(p, o, z, sent, lost) /\ Local(o) /\ Base(o) /\ Base(z)
  BY Midst
<1>2. k \in Chans /\ UNCHANGED <<sent, lost>> /\ o.sctp # "up" /\ ~o.task /\ o.todo = {}
  BY ConstantsAssumption DEF IInv, CreateDataChannel, Chans, Opening
<1>3. o.chan[k].kind = "none" /\ z.chan[k].kind = "none"
  BY <1>2, OtherPeer DEF LInv, IInv
<1>4. [peer[p] EXCEPT !.chan[k].kind = "out", !.unassigned = Append(@, k)] = s
  BY <1>1, <1>2 DEF With, PeerStates
<1>5. \/ s.sctp \notin {"up", "connected"} /\ Update(p, s)
      \/ s.sctp \in {"up", "connected"} /\ t.over /\ Update(p, u)
      \/ s.sctp \in {"up", "connected"} /\ ~t.over /\ Update(p, y)
  <2> DEFINE s0 == [peer[p] EXCEPT !.chan[k].kind = "out", !.unassigned = Append(@, k)]
             t0 == Assign(p, s0)
             x0 == [t0 EXCEPT !.chan[k] = [Close(t0, k).chan[k] EXCEPT !.byApp = TRUE],
                              !.unassigned = o.unassigned]
  <2>1. IF s0.sctp \notin {"up", "connected"} THEN Update(p, s0)
        ELSE IF t0.over THEN Update(p, x0) ELSE Update(p, Open(t0, k))
    BY DEF CreateDataChannel
  <2>2. s0 = s /\ t0 = t
    BY <1>4, Zenon
  <2>3. x0 = u
    <3> HIDE DEF s0, s, t0
    <3> QED BY <2>2, Zenon
  <2>4. Open(t0, k) = y
    BY <2>2, Zenon
  <2> HIDE DEF s0, s, t0, t, x0, u, y
  <2> QED BY <2>1, <2>2, <2>3, <2>4
<1> HIDE DEF k, o, z
<1>6. /\ s \in PeerStates /\ Holds(o, s) /\ s.reg = o.reg /\ s.over = o.over /\ s.shut = o.shut
      /\ s.unassigned = Append(o.unassigned, k)
      /\ \A j \in Chans \ {k} : s.chan[j] = o.chan[j]
      /\ LET f == s.chan[k]
             e == o.chan[k] IN
         f.kind = "out" /\ f.stream = e.stream /\ f.bound = e.bound /\ f.closed = e.closed
         /\ f.got = e.got /\ f.byApp = e.byApp
  BY <1>1, <1>2, CreateShape
<1>13. Base(s)
  <2>1. FlushOK(o) /\ TodoOK(o)
    BY LowPeer DEF o
  <2> QED BY <1>1, <1>2, <1>3, <2>1, CreateBase
<1> HIDE DEF s, c
<1>14. ShutOK(t)
  BY <1>6, <1>13, AssignHands DEF Hands, Base, BaseBut
<1>7. ~o.chan[k].bound /\ ~o.chan[k].closed /\ ~o.chan[k].byApp /\ o.chan[k].got = {}
  BY <1>1, <1>2, <1>3 DEF Local, ChanOK
<1>8. /\ s.sctp = o.sctp /\ s.stopped = o.stopped /\ s.task = o.task /\ s.todo = o.todo
      /\ Line(s) = Line(o) /\ s.wire = o.wire /\ s.sendq = o.sendq
  BY <1>6 DEF Holds, Line
<1>9. CASE s.sctp \notin {"up", "connected"} /\ Update(p, s)
  <2>1. \A j \in Chans \ {k} : SameChan(o.chan[j], s.chan[j])
    BY <1>6 DEF SameChan
  <2>2. s.chan[k].kind = "out" /\ ~s.chan[k].bound /\ s.chan[k].got = {} /\ ~s.chan[k].closed
    BY <1>6, <1>7
  <2>3. Both(p, s, z) /\ Mails(p, s, z, sent, lost)
    BY <1>1, <1>2, <1>3, <1>6, <1>8, <1>9, <2>1, <2>2, Appears
  <2> QED BY <1>1, <1>2, <1>8, <1>9, <2>3, OneStep DEF z
<1>10. ASSUME s.sctp \in {"up", "connected"}
       PROVE  /\ s.sctp = "connected" /\ t \in PeerStates /\ Holds(s, t)
              /\ \/ t.over /\ t.chan = s.chan /\ t.reg = s.reg
                 \/ t.unassigned = <<>> /\ \E i : Given(p, s, t, k, i)
  <2>1. s.sctp = "connected" /\ o.sctp = "connected"
    BY <1>2, <1>8, <1>10
  <2>2. s.over \/ s.unassigned = <<k>>
    <3>1. ~o.over => o.unassigned = <<>>
      BY <1>1, <2>1 DEF Local
    <3>2. Append(<<>>, k) = <<k>>
      OBVIOUS
    <3> QED BY <1>6, <3>1, <3>2
  <2> QED BY <1>2, <1>6, <2>1, <2>2, AssignLast
<1> HIDE DEF t
<1>11. CASE s.sctp \in {"up", "connected"} /\ t.over /\ Update(p, u)
  <2> DEFINE e == Close(t, k).chan[k]
  <2>1. t \in PeerStates /\ Holds(s, t) /\ t.chan = s.chan /\ t.reg = s.reg
    BY <1>10, <1>11 DEF Given
  <2>2. u = x
    BY Zenon DEF With
  <2>3. d = [e EXCEPT !.byApp = TRUE]
    OBVIOUS
  <2>4. t.chan[k] = s.chan[k] /\ ~t.chan[k].closed /\ t.chan[k] \in ChanStates
    BY <1>2, <1>6, <1>7, <2>1 DEF PeerStates
  <2>5. e \in ChanStates /\ SameChan([t.chan[k] EXCEPT !.closed = TRUE], e)
    <3>1. Close(t, k) \in PeerStates /\ Turns(t, Close(t, k), k, [t.chan[k] EXCEPT !.closed = TRUE])
      BY <1>2, <2>1, <2>4, CloseTurns
    <3> QED BY <1>2, <3>1 DEF Turns, PeerStates
  <2> HIDE DEF e, u, d
  <2>6. d \in ChanStates /\ d.kind = "out" /\ ~d.bound /\ d.got = {} /\ d.byApp
    <3>1. e.kind = "out" /\ ~e.bound /\ e.got = {}
      BY <1>6, <1>7, <2>4, <2>5 DEF SameChan, ChanStates
    <3> QED BY <2>3, <2>5, <3>1 DEF ChanStates
  <2>7. v \in PeerStates /\ Turns(t, v, k, d) /\ v.chan[k] = d /\ v.sendq = t.sendq /\ v.wire = t.wire
    BY <1>2, <2>1, <2>6, WithTurns
  <2> HIDE DEF v
  <2>8. o.unassigned \in Seq(Chans)
    BY <1>1 DEF PeerStates
  <2>9. /\ x.chan = v.chan /\ x.reg = v.reg /\ x.sctp = v.sctp /\ x.stopped = v.stopped /\ x.over = v.over
        /\ x.task = v.task /\ x.todo = v.todo /\ x.wire = v.wire /\ x.sendq = v.sendq
    BY <2>7 DEF PeerStates
  <2> HIDE DEF x
  <2>10. /\ x.reg = o.reg /\ x.stopped = o.stopped /\ x.sctp = o.sctp /\ x.task = o.task
         /\ x.todo = o.todo /\ Line(x) = Line(o) /\ x.over
    BY <1>6, <1>8, <1>11, <2>1, <2>7, <2>9 DEF Turns, Rest, Holds, Line
  <2>11. \A j \in Chans \ {k} : SameChan(o.chan[j], x.chan[j])
    BY <1>6, <2>1, <2>7, <2>9 DEF Turns, SameChan
  <2>13. x.chan[k].kind = "out" /\ ~x.chan[k].bound /\ x.chan[k].got = {} /\ x.chan[k].byApp
    BY <2>6, <2>7, <2>9
  <2>12. Both(p, x, z) /\ Mails(p, x, z, sent, lost)
    BY <1>1, <1>2, <1>3, <2>10, <2>11, <2>13, Appears
  <2> QED BY <1>1, <1>2, <1>11, <2>2, <2>10, <2>12, OneStep DEF z
<1>12. CASE s.sctp \in {"up", "connected"} /\ ~t.over /\ Update(p, y)
  <2>1. t \in PeerStates /\ Holds(s, t) /\ s.sctp = "connected" /\ t.unassigned = <<>>
    BY <1>10, <1>12
  <2>2. PICK i : Given(p, s, t, k, i)
    BY <1>10, <1>12
  <2>3. /\ t.stopped = o.stopped /\ t.sctp = o.sctp /\ t.task = o.task /\ t.todo = o.todo
        /\ Line(t) = Line(o) /\ t.wire = o.wire /\ t.sendq = o.sendq
    BY <1>8, <2>1 DEF Holds, Line
  <2>4. i \in Streams /\ o.reg[i] = 0 /\ i % 2 = Parity(p)
        /\ \A h \in Streams : t.reg[h] = IF h = i THEN k ELSE o.reg[h]
    BY <1>6, <2>2 DEF Given
  <2>5. s.chan[k] \in ChanStates
    BY <1>2, <1>6 DEF PeerStates
  <2> DEFINE f == t.chan[k]
             g == [f EXCEPT !.bound = TRUE]
             m == Msg("open", f.stream, k, 0)
  <2>6. f = [s.chan[k] EXCEPT !.stream = i] /\ \A j \in Chans \ {k} : t.chan[j] = s.chan[j]
    BY <2>2 DEF Given
  <2>7. f \in ChanStates /\ f.kind = "out" /\ f.stream = i /\ ~f.bound /\ ~f.closed /\ ~f.byApp /\ f.got = {}
    <3>1. f \in ChanStates
      BY <1>2, <2>1 DEF PeerStates
    <3> HIDE DEF f
    <3> QED BY <1>6, <1>7, <2>5, <2>6, <3>1 DEF ChanStates
  <2>8. \A j \in Chans \ {k} : SameChan(o.chan[j], t.chan[j])
    BY <1>6, <2>6 DEF SameChan
  <2>10. y \in PeerStates /\ Turns(t, y, k, g) /\ Says(t, y, m)
    <3>1. t.chan[k].stream \in Streams /\ t.sctp \in {"up", "connected"}
      BY <2>1, <2>4, <2>7 DEF Holds
    <3> HIDE DEF k
    <3> QED BY <1>2, <1>14, <2>1, <3>1, OpenTurns
  <2>11. g.kind = "out" /\ g.stream = i /\ g.bound /\ ~g.closed /\ ~g.byApp /\ g.got = {}
    <3> HIDE DEF f
    <3> QED BY <2>7 DEF ChanStates
  <2>12. m.type = "open" /\ m.stream = i /\ m.k = k
    BY <2>7 DEF Msg
  <2>14. ~t.chan[k].bound
    BY <2>7
  <2> HIDE DEF y, g, m, f
  <2>16. o.todo = {} /\ ~o.task /\ o.sctp = "connected" /\ t \in PeerStates /\ t.unassigned = <<>>
    BY <1>2, <1>8, <2>1
  <2>13. Both(p, y, z) /\ Mails(p, y, z, sent, lost)
    BY <1>1, <1>2, <1>3, <2>3, <2>4, <2>8, <2>10, <2>11, <2>12, <2>14, <2>16, Launches, ZenonT(200)
  <2>15. y.sctp # "disconnected"
    BY <1>1, <2>3, <2>10 DEF Turns, Rest
  <2> QED BY <1>1, <1>2, <1>12, <2>13, <2>15, OneStep DEF z
<1> HIDE DEF u, y
<1> QED BY <1>5, <1>9, <1>11, <1>12

\* A step that changes neither channels nor lines.
LEMMA Rolls ==
  ASSUME IInv, LInv, NInv, ~Ended, NEW p \in Peers, NEW r, Update(p, r), UNCHANGED <<sent, lost>>,
         r.reg = peer[p].reg, r.stopped = peer[p].stopped, r.chan = peer[p].chan,
         Line(r) = Line(peer[p]), r.sctp # "disconnected", Local(r)
  PROVE  NInv'
<1> DEFINE s == peer[p]
           o == peer[Other(p)]
<1>1. /\ s \in PeerStates /\ o \in PeerStates /\ sent \in SentSeqs
      /\ Both(p, s, o) /\ Mails(p, s, o, sent, lost)
  BY Midst
<1> HIDE DEF s, o
<1>2. Remembers(s, r) /\ Binds(s, r) /\ NoNewOpen(s, r)
  BY DEF Remembers, Binds, NoNewOpen, s
<1>3. ASSUME NEW h \in Streams PROVE Fit(p, r, o, h, Said(r, o))
  <2>1. SameAt(s, r, h) /\ Mirrors(Line(s), Line(r), h)
    BY <1>1, LineType, SelfMirrors DEF SameAt, Held, InUse, s
  <2> QED BY <1>1, <1>2, <2>1, OthersFit DEF s
<1>4. ClosedOK(r, o)
  BY <1>1 DEF Both, Alive, ClosedOK, Said, s
<1>5. Unknown(r, o) /\ Unknown(o, r) /\ Owns(p, r)
  BY <1>1, <1>2, UnknownStep, OwnsSame DEF Both, Alive, s
<1>6. Both(p, r, o)
  BY <1>1, <1>2, <1>3, <1>4, <1>5, AliveStep
<1>7. Mails(p, r, o, sent, lost)
  BY <1>1, MailSame DEF Mails, s
<1> QED BY <1>6, <1>7, OneStep DEF o

\* assignDataChannels when SCTP comes up.
LEMMA AssignedBoth ==
  ASSUME NEW p \in Peers, NEW s \in PeerStates, NEW t, NEW r, NEW o \in PeerStates, NEW sn \in SentSeqs, NEW l,
         Both(p, s, o), Mails(p, s, o, sn, l), Gives(p, s, t), s.sctp = "up",
         r.chan = t.chan, r.reg = t.reg, r.stopped = t.stopped, Line(r) = Line(t), r.sctp = "connected",
         r.todo = t.todo, ~r.over => r.unassigned = <<>>
  PROVE  Both(p, r, o) /\ Mails(p, r, o, sn, l)
<1>1. Local(s) /\ Owns(p, s) /\ Unknown(s, o) /\ Unknown(o, s) /\ ClosedOK(s, o)
  BY DEF Both, Alive
<1>2. s.todo = {} /\ \A k \in Chans : s.chan[k].kind = "out" => ~s.chan[k].bound
  BY <1>1 DEF Local, ChanOK
<1>3. /\ r.todo = {} /\ r.stopped = s.stopped /\ Line(r) = Line(s)
      /\ \A k \in Chans :
           LET c == s.chan[k]
               d == r.chan[k] IN
           /\ d.kind = c.kind /\ d.bound = c.bound /\ d.closed = c.closed /\ d.got = c.got /\ d.byApp = c.byApp
           /\ d = c \/ c.kind = "out"
      /\ \A i \in Streams :
           \/ r.reg[i] = s.reg[i]
           \/ s.reg[i] = 0 /\ i % 2 = Parity(p) /\ r.reg[i] \in Chans /\ s.chan[r.reg[i]].kind = "out"
  BY <1>2 DEF Gives, Holds, Line
<1>4. Remembers(s, r) /\ Binds(s, r) /\ NoNewOpen(s, r) /\ \A k \in Chans : r.chan[k].got = s.chan[k].got
  BY <1>3 DEF Remembers, Binds, NoNewOpen
<1>5. ASSUME NEW h \in Streams PROVE Fit(p, r, o, h, Said(r, o))
  <2>1. CASE r.reg[h] = s.reg[h]
    <3>1. SameAt(s, r, h) /\ Mirrors(Line(s), Line(r), h)
      <4>1. SameAt(s, r, h)
        BY <1>3, <2>1, RegType DEF SameAt, Held, InUse
      <4> QED BY <1>3, <4>1, LineType, SelfMirrors
    <3> QED BY <1>3, <1>4, <3>1, OthersFit
  <2>2. CASE r.reg[h] # s.reg[h]
    <3>1. s.reg[h] = 0 /\ h % 2 = Parity(p) /\ ~r.chan[r.reg[h]].bound
      BY <1>2, <1>3, <2>2
    <3>2. Fit(p, s, o, h, Said(s, o)) /\ Said(r, o) = Said(s, o)
      BY <1>3 DEF Both, Alive, Said
    <3> QED BY <1>3, <3>1, <3>2, FitAssigns
  <2> QED BY <2>1, <2>2
<1>6. Local(r)
  <2>1. ASSUME NEW k \in Chans PROVE ChanOK(r, k)
    <3>1. ChanOK(s, k) /\ k # 0
      BY <1>1 DEF Local, Chans
    <3>2. r.chan[k].kind = "out" => ~r.chan[k].bound
      BY <1>2, <1>3
    <3>3. r.chan[k].bound => r.chan[k] = s.chan[k]
      BY <1>3, <3>2
    <3>4. r.chan[k].bound /\ ~r.chan[k].closed =>
            r.chan[k].stream \in Streams /\ r.reg[r.chan[k].stream] = k
      BY <1>3, <3>1, <3>3 DEF ChanOK
    <3> QED BY <1>3, <3>1, <3>2, <3>4 DEF ChanOK
  <2>2. ASSUME NEW h \in Streams PROVE RegisteredOK(r, h)
    <3>1. CASE r.reg[h] = s.reg[h]
      BY <1>1, <1>3, <3>1, RegType DEF Local, RegisteredOK
    <3>2. CASE r.reg[h] # s.reg[h]
      <4>1. r.reg[h] \in Chans /\ ~s.chan[r.reg[h]].bound
        BY <1>2, <1>3, <3>2
      <4>2. s.chan[r.reg[h]].closed => s.chan[r.reg[h]].byApp
        BY <1>1, <4>1 DEF Local, ChanOK
      <4> QED BY <1>3, <4>1, <4>2 DEF RegisteredOK
    <3> QED BY <3>1, <3>2
  <2> QED BY <1>3, <2>1, <2>2 DEF Local
<1>7. Owns(p, r)
  <2>1. ASSUME NEW h \in Streams, r.reg[h] # 0, r.chan[r.reg[h]].kind = "out" PROVE h % 2 = Parity(p)
    BY <1>1, <1>3, <2>1, RegType DEF Owns
  <2> QED BY <2>1 DEF Owns
<1>8. ClosedOK(r, o)
  BY <1>1, <1>3, <1>4, SaidGrows DEF ClosedOK
<1>9. Unknown(r, o) /\ Unknown(o, r)
  BY <1>1, <1>4, UnknownStep
<1>10. Both(p, r, o)
  BY <1>4, <1>5, <1>6, <1>7, <1>8, <1>9, AliveStep
<1>11. Mails(p, r, o, sn, l)
  BY <1>3, <1>4, MailSame DEF Mails, Remembers
<1> QED BY <1>10, <1>11

LEMMA StrayConnect ==
  ASSUME IInv, LInv, NInv, NEW p \in Peers, Connect(p)
  PROVE  NInv'
<1> DEFINE s == peer[p]
           o == peer[Other(p)]
           t == Assign(p, s)
           b == ~t.over
           r == [t EXCEPT !.sctp = "connected", !.task = b]
           u == [s EXCEPT !.sctp = "up"]
<1>0. ~Ended
  BY NotEnded DEF Connect
<1>1. /\ s \in PeerStates /\ o \in PeerStates /\ sent \in SentSeqs /\ Base(s)
      /\ Both(p, s, o) /\ Mails(p, s, o, sent, lost) /\ Local(s)
  BY <1>0, Midst
<1>2. /\ UNCHANGED <<sent, lost>>
      /\ \/ s.sctp = "connecting" /\ Update(p, u)
         \/ s.sctp = "up" /\ Update(p, r)
  BY DEF Connect
<1> HIDE DEF s, o
<1>3. CASE s.sctp = "connecting" /\ Update(p, u)
  <2>1. /\ u.sctp = "up" /\ u.chan = s.chan /\ u.reg = s.reg /\ u.stopped = s.stopped
        /\ u.sendq = s.sendq /\ u.wire = s.wire /\ u.task = s.task /\ u.todo = s.todo
    BY <1>1 DEF PeerStates
  <2> HIDE DEF u
  <2>2. ASSUME NEW k \in Chans PROVE ChanOK(u, k)
    <3>1. ChanOK(s, k)
      BY <1>1 DEF Local
    <3> QED BY <1>3, <2>1, <3>1 DEF ChanOK
  <2>3. Local(u)
    BY <1>1, <1>3, <2>1, <2>2 DEF Local, RegisteredOK
  <2> QED BY <1>0, <1>2, <1>3, <2>1, <2>3, Rolls DEF Line, s
<1>4. CASE s.sctp = "up" /\ Update(p, r)
  <2>1. Gives(p, s, t) /\ (~t.over => t.unassigned = <<>>)
    BY <1>1, AssignGives
  <2>2. b \in BOOLEAN
    OBVIOUS
  <2> HIDE DEF t, b
  <2>3. t \in PeerStates
    BY <2>1 DEF Gives
  <2>4. /\ r.chan = t.chan /\ r.reg = t.reg /\ r.stopped = t.stopped /\ r.sctp = "connected"
        /\ r.todo = t.todo /\ r.over = t.over /\ r.unassigned = t.unassigned
        /\ r.wire = t.wire /\ r.sendq = t.sendq
    BY <2>2, <2>3 DEF PeerStates
  <2> HIDE DEF r
  <2>5. Line(r) = Line(t)
    BY <2>4 DEF Line
  <2>6. Both(p, r, o) /\ Mails(p, r, o, sent, lost)
    BY <1>1, <1>4, <2>1, <2>4, <2>5, AssignedBoth
  <2> QED BY <1>0, <1>2, <1>4, <2>4, <2>6, OneStep DEF o
<1> QED BY <1>2, <1>3, <1>4

\* A channel that waited for it is opened.
LEMMA OpensBoth ==
  ASSUME NEW p \in Peers, NEW s \in PeerStates, NEW r, NEW o \in PeerStates, NEW sn \in SentSeqs, NEW l,
         Both(p, s, o), Mails(p, s, o, sn, l), Base(s), Base(o), NEW k \in s.todo, NEW i \in Streams,
         s.chan[k].kind = "out", s.chan[k].stream = i,
         r.reg = s.reg, r.stopped = s.stopped, r.sctp = s.sctp, r.task = s.task, r.todo = s.todo \ {k},
         r.over = s.over, r.unassigned = s.unassigned,
         \A j \in Chans \ {k} : SameChan(s.chan[j], r.chan[j]),
         NEW c, SameChan(c, r.chan[k]), c = [s.chan[k] EXCEPT !.bound = TRUE],
         NEW m, m.type = "open", m.stream = i, m.k = k, Says(s, r, m)
  PROVE  Both(p, r, o) /\ Mails(p, r, o, sn, l)
<1>1. Local(s) /\ Owns(p, s) /\ Unknown(s, o) /\ Unknown(o, s) /\ ClosedOK(s, o)
  BY DEF Both, Alive
<1>2. k \in Chans /\ k # 0
  BY DEF PeerStates, Chans
<1>3. ~s.chan[k].bound /\ ~s.chan[k].closed /\ s.reg[i] = k /\ s.sctp = "connected" /\ ~s.task
  BY <1>1, <1>2 DEF Local, ChanOK
<1>4. i % 2 = Parity(p) /\ o.chan[k].kind = "none"
  BY <1>1, <1>2, <1>3 DEF Owns, Unknown
<1>5. LET d == r.chan[k]
          e == s.chan[k] IN
      d.kind = e.kind /\ d.stream = e.stream /\ d.bound /\ d.closed = e.closed /\ d.got = e.got /\ d.byApp = e.byApp
  <2>1. s.chan[k] \in ChanStates
    BY <1>2 DEF PeerStates
  <2> QED BY <2>1 DEF SameChan, ChanStates
<1>6. /\ Remembers(s, r) /\ \A j \in Chans : r.chan[j].got = s.chan[j].got
      /\ \A j \in Chans : r.chan[j].kind = s.chan[j].kind
  <2>1. ASSUME NEW j \in Chans
        PROVE  /\ s.chan[j].byApp => r.chan[j].byApp
               /\ r.chan[j].got = s.chan[j].got /\ r.chan[j].kind = s.chan[j].kind
    <3>1. CASE j = k
      BY <1>5, <3>1
    <3>2. CASE j # k
      BY <3>2 DEF SameChan
    <3> QED BY <3>1, <3>2
  <2> QED BY <2>1 DEF Remembers
<1>7. /\ Data(Line(r)) = Data(Line(s))
      /\ \A h \in Streams : h # i => Mirrors(Line(s), Line(r), h)
      /\ \A j \in DOMAIN Line(r) : Line(r)[j].type = "open" =>
           \/ Line(r)[j].k = k
           \/ \E h \in DOMAIN Line(s) : Line(s)[h] = Line(r)[j]
  BY SaysLine
<1>8. ASSUME NEW h \in Streams PROVE Fit(p, r, o, h, Said(r, o))
  <2>1. CASE h # i
    <3>1. s.reg[h] # k
      BY <1>2, <2>1 DEF Base, BaseBut, RegOK
    <3>2. SameAt(s, r, h)
      BY <3>1, RegType DEF SameAt, Held, InUse, SameChan
    <3> QED BY <1>6, <1>7, <2>1, <3>2, OthersFit
  <2>2. CASE h = i
    <3>1. Fit(p, s, o, i, Said(s, o)) /\ Said(s, o) \subseteq Said(r, o)
      BY <1>6, SaidGrows DEF Both, Alive
    <3>2. r.reg[i] = k /\ r.chan[k].bound /\ ~r.chan[k].closed
      BY <1>3, <1>5
    <3>3. Fit(p, r, o, i, Said(s, o))
      BY <1>2, <1>3, <1>4, <3>1, <3>2, FitOpens
    <3>4. /\ SameAt(r, r, i) /\ SameAt(o, o, i) /\ Mirrors(Line(o), Line(o), i)
          /\ Mirrors(Line(r), Line(r), i)
      <4>1. DOMAIN Line(r) \subseteq Nat
        BY LineType DEF Says, Hushed, Adds
      <4> QED BY <4>1, LineType, SelfMirrors DEF SameAt
    <3> QED BY <2>2, <3>1, <3>3, <3>4, FitQuiet
  <2> QED BY <2>1, <2>2
<1>9. Local(r)
  <2>1. ASSUME NEW j \in Chans PROVE ChanOK(r, j)
    <3>1. ChanOK(s, j)
      BY <1>1 DEF Local
    <3>2. CASE j = k
      BY <1>3, <1>5, <3>1, <3>2 DEF ChanOK
    <3>3. CASE j # k
      <4>1. SameChan(s.chan[j], r.chan[j]) /\ (j \in r.todo => j \in s.todo)
        BY <3>3
      <4> QED BY <3>1, <4>1 DEF ChanOK, SameChan
    <3> QED BY <3>2, <3>3
  <2>2. ASSUME NEW h \in Streams PROVE RegisteredOK(r, h)
    <3>1. CASE s.reg[h] = k
      BY <1>3, <1>5, <3>1 DEF RegisteredOK
    <3>2. CASE s.reg[h] # k
      BY <1>1, <3>2, RegType DEF Local, RegisteredOK, SameChan
    <3> QED BY <3>1, <3>2
  <2> QED BY <1>1, <1>3, <2>1, <2>2 DEF Local
<1>10. Owns(p, r)
  BY <1>1, <1>6, OwnsSame
<1>11. ClosedOK(r, o)
  <2>1. \A j \in Chans : r.chan[j].closed => s.chan[j].closed
    BY <1>5 DEF SameChan
  <2> QED BY <1>1, <1>6, <2>1, SaidGrows DEF ClosedOK
<1>12. Unknown(r, o) /\ Unknown(o, r)
  BY <1>1, <1>2, <1>4, <1>7, UnknownNew
<1>13. Both(p, r, o)
  BY <1>6, <1>8, <1>9, <1>10, <1>11, <1>12, AliveStep
<1>14. Mails(p, r, o, sn, l)
  BY <1>6, <1>7, MailSame DEF Mails, Remembers
<1> QED BY <1>13, <1>14

LEMMA StrayOpen ==
  ASSUME IInv, LInv, NInv, NEW p \in Peers, OpenDataChannels(p)
  PROVE  NInv'
<1> DEFINE s == peer[p]
           o == peer[Other(p)]
           R == Registered(s)
           r == [s EXCEPT !.task = FALSE, !.todo = R]
           In(k) == s.chan[k].kind = "in" \/ (s.chan[k].open /\ ~s.chan[k].closed)
<1>0. ~Ended
  <2>1. s.task \/ s.todo # {}
    BY DEF OpenDataChannels
  <2> QED BY <2>1, NotEnded
<1>1. /\ s \in PeerStates /\ o \in PeerStates /\ sent \in SentSeqs /\ Base(s) /\ Base(o) /\ OK(s)
      /\ Both(p, s, o) /\ Mails(p, s, o, sent, lost) /\ Local(s) /\ s.sctp # "disconnected"
      /\ UNCHANGED <<sent, lost>>
  BY <1>0, Midst, LowPeer DEF OpenDataChannels
<1>2. CASE s.task /\ Update(p, r)
  <2>1. R \subseteq Chans /\ \A k \in R : ~s.chan[k].closed /\ \E i \in Streams : s.reg[i] = k
    BY DEF Registered
  <2>2. \A k \in R : s.reg[s.chan[k].stream] = k
    <3>1. \A i \in Streams : s.reg[i] # 0 => s.chan[s.reg[i]].stream = i
      BY <1>1 DEF Base, BaseBut, RegOK
    <3>2. \A k \in Chans : k # 0
      BY DEF Chans
    <3> QED BY <2>1, <3>1, <3>2
  <2> HIDE DEF R, s
  <2>3. /\ r.chan = s.chan /\ r.reg = s.reg /\ r.unassigned = s.unassigned /\ r.sctp = s.sctp
        /\ r.wire = s.wire /\ r.sendq = s.sendq /\ r.stopped = s.stopped /\ r.over = s.over
        /\ r.todo = R /\ ~r.task
    BY <1>1 DEF PeerStates
  <2> HIDE DEF r
  <2>4. ASSUME NEW k \in Chans PROVE ChanOK(r, k)
    <3>1. ChanOK(s, k) /\ s.sctp = "connected"
      BY <1>1, <1>2 DEF Local
    <3> QED BY <1>2, <2>1, <2>2, <2>3, <3>1 DEF ChanOK
  <2>5. Local(r)
    BY <1>1, <1>2, <2>3, <2>4 DEF Local, RegisteredOK
  <2> QED BY <1>0, <1>1, <1>2, <2>3, <2>5, Rolls DEF Line, s
<1>3. ASSUME NEW k \in s.todo,
             Update(p, IF In(k) THEN [s EXCEPT !.todo = @ \ {k}]
                       ELSE Open([s EXCEPT !.todo = @ \ {k}], k))
      PROVE  NInv'
  <2> DEFINE T == s.todo \ {k}
             t == [s EXCEPT !.todo = T]
             i == s.chan[k].stream
  <2>1. k \in Chans /\ i \in Streams /\ T \subseteq Chans /\ s.sctp = "connected"
    BY <1>1 DEF OK, StreamOK, PeerStates, Local
  <2>2. [s EXCEPT !.todo = @ \ {k}] = t
    BY Zenon
  <2>3. Update(p, t) \/ (s.chan[k].kind # "in" /\ Update(p, Open(t, k)))
    <3>1. Update(p, IF In(k) THEN t ELSE Open(t, k))
      BY <1>3, <2>2, Zenon
    <3>2. In(k) \/ s.chan[k].kind # "in"
      OBVIOUS
    <3> HIDE DEF t, T, In
    <3> QED BY <3>1, <3>2 DEF In
  <2>4. s.chan[k].kind # "in" => s.chan[k].kind = "out"
    <3>1. s.chan[k].kind \in {"none", "out", "in"}
      BY <1>1, <2>1 DEF PeerStates, ChanStates
    <3>2. s.chan[k].kind # "none"
      BY <1>1, <2>1 DEF Base, BaseBut, KindOK, None, Streams
    <3> QED BY <3>1, <3>2
  <2>5. T \subseteq s.todo
    OBVIOUS
  <2> HIDE DEF s, o
  <2>6. /\ t \in PeerStates /\ t.chan = s.chan /\ t.reg = s.reg /\ t.unassigned = s.unassigned
        /\ t.sctp = s.sctp /\ t.wire = s.wire /\ t.sendq = s.sendq /\ t.stopped = s.stopped
        /\ t.over = s.over /\ t.task = s.task /\ t.todo = s.todo \ {k} /\ t.shut = s.shut
    <3> HIDE DEF T
    <3>1. /\ t \in PeerStates /\ t.chan = s.chan /\ t.reg = s.reg /\ t.unassigned = s.unassigned
          /\ t.sctp = s.sctp /\ t.wire = s.wire /\ t.sendq = s.sendq /\ t.stopped = s.stopped
          /\ t.over = s.over /\ t.task = s.task /\ t.todo = T /\ t.shut = s.shut
      BY <1>1, <2>1 DEF PeerStates
    <3> QED BY <3>1 DEF T
  <2> HIDE DEF t
  <2>7. Line(t) = Line(s)
    BY <2>6 DEF Line
  <2>8. CASE Update(p, t)
    <3>1. ASSUME NEW j \in Chans PROVE ChanOK(t, j)
      <4>1. ChanOK(s, j) /\ (j \in t.todo => j \in s.todo)
        BY <1>1, <2>6 DEF Local
      <4> QED BY <2>6, <4>1 DEF ChanOK
    <3>2. Local(t)
      BY <1>1, <2>6, <3>1 DEF Local, RegisteredOK
    <3> QED BY <1>0, <1>1, <2>6, <2>7, <2>8, <3>2, Rolls DEF s
  <2>9. CASE s.chan[k].kind # "in" /\ Update(p, Open(t, k))
    <3> DEFINE u == Open(t, k)
               c == [s.chan[k] EXCEPT !.bound = TRUE]
               m == Msg("open", i, k, 0)
    <3>1. ShutOK(t)
      <4>1. ShutOK(s)
        BY <1>1 DEF Base, BaseBut
      <4> QED BY <2>6, <4>1 DEF ShutOK
    <3>2. u \in PeerStates /\ Turns(t, u, k, c) /\ Says(t, u, m)
      BY <2>1, <2>6, <3>1, OpenTurns
    <3>3. m.type = "open" /\ m.stream = i /\ m.k = k
      BY DEF Msg
    <3> HIDE DEF u, m
    <3>4. Says(s, u, m)
      BY <2>6, <2>7, <3>2 DEF Says, Hushed
    <3>5. /\ u.reg = s.reg /\ u.stopped = s.stopped /\ u.sctp = s.sctp /\ u.task = s.task
          /\ u.todo = s.todo \ {k} /\ u.over = s.over /\ u.unassigned = s.unassigned
      BY <2>6, <3>2 DEF Turns, Rest
    <3>6. SameChan(c, u.chan[k]) /\ \A j \in Chans \ {k} : SameChan(s.chan[j], u.chan[j])
      <4>1. SameChan(c, u.chan[k]) /\ \A j \in Chans \ {k} : SameChan(t.chan[j], u.chan[j])
        BY <2>1, <3>2 DEF Turns
      <4> QED BY <2>6, <4>1
    <3>7. s.chan[k].kind = "out" /\ c = [s.chan[k] EXCEPT !.bound = TRUE]
      BY <2>4, <2>9
    <3> HIDE DEF c
    <3>8. Both(p, u, o) /\ Mails(p, u, o, sent, lost)
      BY <1>1, <1>3, <2>1, <3>3, <3>4, <3>5, <3>6, <3>7, OpensBoth
    <3> QED BY <1>0, <1>1, <2>9, <3>5, <3>8, OneStep DEF o, u
  <2> QED BY <2>3, <2>8, <2>9
<1>4. \/ s.task /\ Update(p, r)
      \/ \E k \in s.todo : Update(p, IF In(k) THEN [s EXCEPT !.todo = @ \ {k}]
                                     ELSE Open([s EXCEPT !.todo = @ \ {k}], k))
  BY Zenon DEF OpenDataChannels
<1> HIDE DEF s, r, In
<1> QED BY <1>2, <1>3, <1>4

-----------------------------------------------------------------------------
(* A message arrives: p goes from s to r, and the other peer from o to x.  *)

Arrives(p, s, o, x, m) == Both(p, s, o) /\ Stays(o, x) /\ Takes(Line(o), Line(x), m)

\* A stream that is not the message's.
LEMMA ArrivesFit ==
  ASSUME NEW p \in Peers, NEW s \in PeerStates, NEW r, NEW o \in PeerStates, NEW x, NEW m, NEW h \in Streams,
         Arrives(p, s, o, x, m), h # m.stream, Remembers(s, r), r.stopped = s.stopped,
         SameAt(s, r, h), Mirrors(Line(s), Line(r), h)
  PROVE  Fit(p, r, x, h, Said(r, x))
<1>1. Fit(p, s, o, h, Said(s, o))
  BY DEF Arrives, Both, Alive
<1>2. SameAt(o, x, h) /\ x.stopped = o.stopped
  BY StaysIdle, IdleSame DEF Arrives, Stays, Rest
<1>3. Said(s, o) \subseteq Said(r, x)
  BY DEF Arrives, Stays, SameChan, Said, Remembers
<1>4. Mirrors(Line(o), Line(x), h)
  BY TakesMirrors DEF Arrives
<1> QED BY <1>1, <1>2, <1>3, <1>4, FitQuiet

LEMMA ArrivesBoth ==
  ASSUME NEW p \in Peers, NEW s, NEW r, NEW o \in PeerStates, NEW x, NEW m,
         Arrives(p, s, o, x, m), Remembers(s, r),
         \A i \in Streams : Fit(p, r, x, i, Said(r, x)),
         Owns(p, r), Local(r), ClosedOK(r, x), Unknown(r, x), Unknown(x, r)
  PROVE  Both(p, r, x)
<1>1. Alive(p, r, x)
  BY DEF Alive
<1>2. \A i \in Streams : Fit(Other(p), x, r, i, Said(x, r))
  <2>1. Said(x, r) = Said(r, x)
    BY DEF Said
  <2> QED BY <2>1, FitTurn
<1>3. Local(o) /\ ClosedOK(o, s) /\ Owns(Other(p), o) /\ Stays(o, x)
  BY DEF Arrives, Both, Alive
<1>4. Local(x)
  BY <1>3, StaysIdle, IdleLocal
<1>5. Owns(Other(p), x)
  BY <1>3, OwnsSame DEF Stays, Rest, SameChan
<1>6. ClosedOK(x, r)
  BY <1>3 DEF ClosedOK, Said, Remembers, Stays, SameChan
<1> QED BY <1>1, <1>2, <1>4, <1>5, <1>6 DEF Both, Alive

\* Anything but a message of a channel.
LEMMA ArrivesMails ==
  ASSUME NEW p \in Peers, NEW s, NEW r, NEW o, NEW x, NEW m, NEW sn \in SentSeqs, NEW l,
         Arrives(p, s, o, x, m), m.type # "data", Mails(p, s, o, sn, l),
         Data(Line(r)) = Data(Line(s)), r.stopped = s.stopped,
         \A k \in Chans : r.chan[k].got = s.chan[k].got /\ (s.chan[k].byApp => r.chan[k].byApp)
  PROVE  Mails(p, r, x, sn, l)
<1>1. Mail(p, r, o, sn, l) /\ Mail(Other(p), o, r, sn, l)
  BY MailSame DEF Mails
<1>2. Data(Line(x)) = Data(Line(o))
  <2> DEFINE q == Line(o)
             u == Line(x)
  <2>1. Takes(q, u, m)
    BY DEF Arrives
  <2> HIDE DEF q, u
  <2>2. Data(u) \subseteq Data(q) /\ \A e \in Data(q) : e \in Data(u) \/ (e = m /\ m.type = "data")
    BY <2>1, DataTakes
  <2>3. Data(u) = Data(q)
    BY <2>2
  <2> QED BY <2>3 DEF q, u
<1>3. x.stopped = o.stopped /\ \A k \in Chans : x.chan[k].got = o.chan[k].got /\ x.chan[k].byApp = o.chan[k].byApp
  BY DEF Arrives, Stays, Rest, SameChan
<1>4. Other(p) \in Peers /\ Other(Other(p)) = p
  BY OtherPeer
<1>5. Mail(Other(p), x, r, sn, l) /\ Mail(Other(Other(p)), r, x, sn, l)
  BY <1>1, <1>2, <1>3, <1>4, MailSame
<1> QED BY <1>4, <1>5 DEF Mails

LEMMA ArrivesUnknown ==
  ASSUME NEW p, NEW s \in PeerStates, NEW r \in PeerStates, NEW o \in PeerStates, NEW x, NEW m,
         Arrives(p, s, o, x, m), m.type # "open", Binds(s, r), NoNewOpen(s, r)
  PROVE  Unknown(r, x) /\ Unknown(x, r)
<1>1. Unknown(r, o) /\ Unknown(o, r)
  BY UnknownStep DEF Arrives, Both, Alive
<1>2. NoNewOpen(o, x)
  BY NoOpenAdded DEF Arrives
<1>3. Binds(o, x)
  BY DEF Arrives, Stays, SameChan, Binds
<1> QED BY <1>1, <1>2, <1>3, UnknownStep

LEMMA TwoSteps ==
  ASSUME IInv, NEW p \in Peers, NEW r, NEW x, peer' = [peer EXCEPT ![p] = r, ![Other(p)] = x],
         r.sctp # "disconnected", x.sctp # "disconnected", Both(p, r, x), Mails(p, r, x, sent', lost')
  PROVE  NInv'
<1> DEFINE q == Other(p)
<1>1. q \in Peers /\ Other(q) = p /\ q # p /\ \A e \in Peers : e = p \/ e = q
  BY OtherPeer
<1>2. peer'[p] = r /\ peer'[q] = x
  BY <1>1 DEF IInv
<1>3. ~Ended'
  BY <1>1, <1>2 DEF Ended
<1>4. \A e \in Peers : Alive(e, peer'[e], peer'[Other(e)])
  BY <1>1, <1>2 DEF Both
<1>5. \A e \in Peers : Mail(e, peer'[e], peer'[Other(e)], sent', lost')
  BY <1>1, <1>2 DEF Mails
<1> QED BY <1>3, <1>4, <1>5 DEF NInv

\* The sender's end.
LEMMA UpcallTakes ==
  ASSUME NEW o \in PeerStates, o.wire # <<>>
  PROVE  LET x == Upcall([o EXCEPT !.wire = Tail(@)]) IN
         x \in PeerStates /\ Stays(o, x) /\ Takes(Line(o), Line(x), Head(o.wire))
<1> DEFINE w == Tail(o.wire)
           v == [o EXCEPT !.wire = w]
           x == EnqueueFlush(v)
<1>1. Upcall([o EXCEPT !.wire = Tail(@)]) = x
  BY Zenon DEF Upcall
<1>2. /\ o.wire \in Seq(AllMessages) /\ o.sendq \in Seq(AllMessages)
  BY LineType
<1>3. w \in Seq(AllMessages) /\ Takes(o.wire \o o.sendq, w \o o.sendq, Head(o.wire))
  <2> DEFINE a == o.wire
  <2> HIDE DEF a
  <2>1. a \in Seq(AllMessages) /\ a # <<>>
    BY <1>2 DEF a
  <2>2. Tail(a) \in Seq(AllMessages)
    BY <2>1
  <2>3. Takes(a \o o.sendq, Tail(a) \o o.sendq, Head(a))
    BY <1>2, <2>1, LineTakes
  <2> QED BY <2>2, <2>3 DEF a
<1> HIDE DEF w
<1>4. v \in PeerStates /\ Stays(o, v) /\ v.wire = w /\ v.sendq = o.sendq
  BY <1>3 DEF PeerStates, Stays, Rest, SameChan, AllMessages
<1> HIDE DEF v
<1>5. x \in PeerStates /\ Stays(v, x) /\ Line(x) = Line(v)
  BY <1>4, EnqueueStays
<1> HIDE DEF x
<1>6. Takes(Line(o), Line(x), Head(o.wire))
  BY <1>3, <1>4, <1>5 DEF Line
<1> QED BY <1>1, <1>4, <1>5, <1>6, StaysTrans

-----------------------------------------------------------------------------
(* What arrives: a reset.                                                  *)

\* The channel on stream i is taken off it, and closed.
LEMMA ResetShape ==
  ASSUME NEW p \in Peers, NEW s \in PeerStates, NEW i \in Streams, s.reg[i] # 0
  PROVE  LET k == s.reg[i]
             r == StreamReset(p, s, i)
             c == s.chan[k]
             d == r.chan[k] IN
         /\ r \in PeerStates
         /\ r.stopped = s.stopped /\ r.sctp = s.sctp /\ r.unassigned = s.unassigned
         /\ r.task = s.task /\ r.todo = s.todo /\ r.over = s.over
         /\ \A h \in Streams : r.reg[h] = IF h = i THEN 0 ELSE s.reg[h]
         /\ \A j \in Chans \ {k} : SameChan(s.chan[j], r.chan[j])
         /\ d.kind = c.kind /\ d.stream = c.stream /\ d.bound = c.bound /\ d.closed
         /\ d.got = c.got /\ d.byApp = c.byApp
         /\ IF ~c.closed /\ c.bound /\ c.stream # None
            THEN Resets(Line(s), Line(r), c.stream, s.stopped) ELSE Line(r) = Line(s)
<1> DEFINE k == s.reg[i]
           z == [s EXCEPT !.reg[i] = 0]
           m == Msg("reset", i, 0, 0)
           r == StreamReset(p, s, i)
           c == s.chan[k]
<1>1. m.type = "reset" /\ m.stream = i
  BY DEF Msg
<1>2. k \in Chans
  BY RegType
<1>3. r = Incoming(z, k, m)
  <2>1. r = ForwardMessage(p, s, m)
    BY Zenon DEF StreamReset
  <2> HIDE DEF m, r
  <2> QED BY <1>1, <2>1, Zenon DEF ForwardMessage
<1>4. /\ z \in PeerStates /\ z.chan = s.chan /\ Line(z) = Line(s)
      /\ z.stopped = s.stopped /\ z.sctp = s.sctp /\ z.unassigned = s.unassigned
      /\ z.task = s.task /\ z.todo = s.todo /\ z.over = s.over
      /\ \A h \in Streams : z.reg[h] = IF h = i THEN 0 ELSE s.reg[h]
  <2>1. [s.reg EXCEPT ![i] = 0] \in [Streams -> 0 .. MaxChans]
    BY ConstantsAssumption DEF PeerStates
  <2> QED BY <2>1 DEF PeerStates, Line
<1> HIDE DEF z, r, m
<1>5. Incoming(z, k, m) = Close(z, k)
  <2> DEFINE t == Send(z, Msg("ack", z.chan[k].stream, k, 0))
             u == IF t.shut THEN t ELSE [t EXCEPT !.chan[k].open = TRUE]
             o == [z EXCEPT !.chan[k].open = TRUE]
             v == [z EXCEPT !.chan[k].got = @ \cup {m.n}]
             w == Close(z, k)
  <2>1. Incoming(z, k, m) =
          IF z.chan[k].closed THEN z
          ELSE CASE m.type = "open" /\ z.chan[k].kind = "in" -> u
                 [] m.type = "ack" -> o
                 [] m.type = "reset" -> w
                 [] m.type = "data" -> v
                 [] OTHER -> z
    BY Zenon DEF Incoming
  <2>2. z.chan[k].closed => w = z
    BY Zenon DEF Close
  <2> HIDE DEF u, o, v, w
  <2>3. Incoming(z, k, m) = w
    BY <1>1, <2>1, <2>2
  <2> QED BY <2>3 DEF w
<1>6. c \in ChanStates
  BY <1>2 DEF PeerStates
<1> HIDE DEF k
<1>7. CASE c.closed
  <2>1. r = z
    BY <1>3, <1>4, <1>5, <1>7, Zenon DEF Close
  <2> QED BY <1>4, <1>7, <2>1 DEF SameChan, k, r
<1>8. CASE ~c.closed
  <2> DEFINE e == [c EXCEPT !.closed = TRUE]
  <2>1. /\ r \in PeerStates /\ Turns(z, r, k, e)
        /\ IF c.bound /\ c.stream # None THEN Resets(Line(z), Line(r), c.stream, z.stopped)
           ELSE Line(r) = Line(z)
    BY <1>2, <1>3, <1>4, <1>5, <1>8, CloseTurns
  <2>2. /\ e.kind = c.kind /\ e.stream = c.stream /\ e.bound = c.bound /\ e.closed
        /\ e.got = c.got /\ e.byApp = c.byApp
    BY <1>6 DEF ChanStates
  <2> HIDE DEF e
  <2>3. Rest(z, r) /\ SameChan(e, r.chan[k]) /\ \A j \in Chans \ {k} : SameChan(z.chan[j], r.chan[j])
    BY <1>2, <2>1 DEF Turns
  <2>4. /\ r.stopped = s.stopped /\ r.sctp = s.sctp /\ r.unassigned = s.unassigned
        /\ r.task = s.task /\ r.todo = s.todo /\ r.over = s.over
        /\ \A h \in Streams : r.reg[h] = IF h = i THEN 0 ELSE s.reg[h]
    BY <1>4, <2>3 DEF Rest
  <2>5. LET d == r.chan[k] IN
        /\ d.kind = c.kind /\ d.stream = c.stream /\ d.bound = c.bound /\ d.closed
        /\ d.got = c.got /\ d.byApp = c.byApp
    BY <2>2, <2>3 DEF SameChan
  <2>6. \A j \in Chans \ {k} : SameChan(s.chan[j], r.chan[j])
    BY <1>4, <2>3
  <2>7. IF c.bound /\ c.stream # None THEN Resets(Line(s), Line(r), c.stream, s.stopped)
        ELSE Line(r) = Line(s)
    BY <1>4, <2>1
  <2> QED BY <1>8, <2>1, <2>4, <2>5, <2>6, <2>7 DEF k, r, c
<1> QED BY <1>7, <1>8

LEMMA ResetArrives ==
  ASSUME NEW p \in Peers, NEW s \in PeerStates, NEW o \in PeerStates, NEW x, NEW m \in Messages,
         NEW sn \in SentSeqs, NEW l, Arrives(p, s, o, x, m), Mails(p, s, o, sn, l),
         m.type = "reset", Base(s), StreamOK(s), s.sctp = "connected"
  PROVE  LET r == StreamReset(p, s, m.stream) IN
         Both(p, r, x) /\ Mails(p, r, x, sn, l) /\ r.sctp = "connected"
<1> DEFINE i == m.stream
           k == s.reg[i]
           c == s.chan[k]
           r == StreamReset(p, s, i)
<1>1. i \in Streams
  BY DEF Messages
<1>2. /\ Local(s) /\ Owns(p, s) /\ ClosedOK(s, o) /\ Stays(o, x) /\ Fit(p, s, o, i, Said(s, o))
      /\ Takes(Line(o), Line(x), m)
  BY <1>1 DEF Arrives, Both, Alive
<1>3. SameAt(o, x, i) /\ x.stopped = o.stopped
  BY <1>1, <1>2, StaysIdle, IdleSame DEF Stays, Rest
<1>4. DOMAIN Line(s) \subseteq Nat
  BY LineType
<1>5. CASE k = 0
  <2> DEFINE e == Msg("reset", i, 0, 0)
  <2>1. r = s
    <3>1. e.type = "reset" /\ e.stream = i
      BY DEF Msg
    <3>2. r = ForwardMessage(p, s, e)
      BY Zenon DEF StreamReset
    <3> HIDE DEF e, r
    <3> QED BY <1>5, <3>1, <3>2, Zenon DEF ForwardMessage
  <2>2. /\ Remembers(s, s) /\ Binds(s, s) /\ NoNewOpen(s, s) /\ \A h \in Streams : SameAt(s, s, h)
        /\ \A h \in Streams : Mirrors(Line(s), Line(s), h)
    BY <1>4, SelfMirrors DEF Remembers, Binds, NoNewOpen, SameAt
  <2>3. Said(s, x) = Said(s, o)
    BY <1>2 DEF Said, Stays, SameChan
  <2>4. ~InUse(s, i)
    BY <1>5 DEF InUse
  <2>5. Fit(p, s, x, i, Said(s, x))
    BY <1>1, <1>2, <1>3, <1>5, <2>3, <2>4, FitReset
  <2>6. \A h \in Streams : Fit(p, s, x, h, Said(s, x))
    BY <2>2, <2>5, ArrivesFit
  <2>7. ClosedOK(s, x)
    BY <1>2, <2>3 DEF ClosedOK
  <2>8. Unknown(s, x) /\ Unknown(x, s)
    BY <2>2, ArrivesUnknown
  <2>9. Both(p, s, x)
    BY <1>2, <2>2, <2>6, <2>7, <2>8, ArrivesBoth
  <2>10. Mails(p, s, x, sn, l)
    BY ArrivesMails
  <2> QED BY <2>1, <2>9, <2>10
<1>6. CASE k # 0
  <2>1. k \in Chans /\ k \in Said(s, o) /\ c.stream = i /\ c.bound /\ i # None
    <3>1. k \in Chans /\ c.stream = i /\ i # None
      BY <1>1, <1>6, RegType DEF Base, BaseBut, RegOK, Streams, None
    <3>2. /\ k = 0 \/ k \in Said(s, o)
          /\ i % 2 = Parity(p) => c.bound
      <4> DEFINE S == Said(s, o)
      <4>1. Fit(p, s, o, i, S) /\ Takes(Line(o), Line(x), m) /\ m.stream = i
        BY <1>2
      <4> HIDE DEF i, S
      <4>2. MayArrive(p, s, o, i, S, m)
        BY <1>1, <4>1, FitTaken
      <4> QED BY <4>2 DEF S, MayArrive
    <3>3. c.kind = "out" => i % 2 = Parity(p)
      BY <1>1, <1>2, <1>6 DEF Owns
    <3>4. c.kind = "in" => c.bound
      BY <1>2, <3>1 DEF Local, ChanOK
    <3>5. c.kind # "none"
      BY <1>1, <3>1, NotRegistered
    <3>6. c.kind \in {"none", "out", "in"}
      BY <3>1 DEF PeerStates, ChanStates
    <3> QED BY <1>6, <3>1, <3>2, <3>3, <3>4, <3>5, <3>6
  <2>2. LET d == r.chan[k] IN
        /\ r \in PeerStates
        /\ r.stopped = s.stopped /\ r.sctp = s.sctp /\ r.unassigned = s.unassigned
        /\ r.task = s.task /\ r.todo = s.todo /\ r.over = s.over
        /\ \A h \in Streams : r.reg[h] = IF h = i THEN 0 ELSE s.reg[h]
        /\ \A j \in Chans \ {k} : SameChan(s.chan[j], r.chan[j])
        /\ d.kind = c.kind /\ d.stream = c.stream /\ d.bound = c.bound /\ d.closed
        /\ d.got = c.got /\ d.byApp = c.byApp
        /\ IF ~c.closed /\ c.bound /\ c.stream # None
           THEN Resets(Line(s), Line(r), c.stream, s.stopped) ELSE Line(r) = Line(s)
    BY <1>1, <1>6, ResetShape
  <2>3. /\ \A h \in Streams \ {i} : s.reg[h] # k
    BY <1>6, <2>1 DEF Base, BaseBut, RegOK
  <2> HIDE DEF r
  <2>4. IF InUse(s, i) THEN Resets(Line(s), Line(r), i, s.stopped) ELSE Line(r) = Line(s)
    BY <1>6, <2>1, <2>2 DEF InUse
  <2> HIDE DEF k, c, i
  <2>5. /\ Remembers(s, r) /\ Binds(s, r)
        /\ \A j \in Chans : r.chan[j].got = s.chan[j].got /\ (s.chan[j].byApp => r.chan[j].byApp)
    <3>1. ASSUME NEW j \in Chans
          PROVE  /\ r.chan[j].got = s.chan[j].got /\ r.chan[j].byApp = s.chan[j].byApp
                 /\ r.chan[j].kind = s.chan[j].kind /\ r.chan[j].bound = s.chan[j].bound
      BY <2>2 DEF SameChan, c
    <3> QED BY <3>1 DEF Remembers, Binds
  <2>6. Line(r) = Line(s) \/ Resets(Line(s), Line(r), i, s.stopped)
    BY <2>4
  <2>7. /\ Data(Line(r)) = Data(Line(s)) /\ NoNewOpen(s, r)
        /\ \A h \in Streams \ {i} : Mirrors(Line(s), Line(r), h)
    BY <2>6, ResetsLine
  <2>8. Said(s, o) = Said(r, x)
    <3>1. \A j \in Chans : r.chan[j].byApp = s.chan[j].byApp /\ x.chan[j].byApp = o.chan[j].byApp
      BY <1>2, <2>2 DEF SameChan, c, Stays
    <3> QED BY <3>1 DEF Said
  <2>9. Fit(p, r, x, i, Said(r, x))
    <3>1. r.reg[i] = 0 /\ r.stopped = s.stopped
      BY <1>1, <2>2
    <3> QED BY <1>1, <1>2, <1>3, <2>4, <2>8, <3>1, FitReset DEF i
  <2>10. ASSUME NEW h \in Streams, h # i PROVE Fit(p, r, x, h, Said(r, x))
    <3>1. SameAt(s, r, h)
      <4>1. r.reg[h] = s.reg[h] /\ s.reg[h] # k /\ (s.reg[h] = 0 \/ s.reg[h] \in Chans)
        BY <2>2, <2>3, <2>10, RegType
      <4> QED BY <2>2, <4>1 DEF SameAt, Held, InUse, SameChan
    <3> QED BY <2>2, <2>5, <2>7, <2>10, <3>1, ArrivesFit DEF i
  <2>11. Local(r)
    <3>1. ASSUME NEW j \in Chans PROVE ChanOK(r, j)
      <4>1. ChanOK(s, j)
        BY <1>2 DEF Local
      <4>2. CASE j = k
        BY <2>1, <2>2, <4>1, <4>2 DEF ChanOK, c
      <4>3. CASE j # k
        <5>1. SameChan(s.chan[j], r.chan[j]) /\ j # 0
          BY <2>2, <4>3 DEF Chans
        <5>2. s.chan[j].stream \in Streams /\ s.reg[s.chan[j].stream] = j => r.reg[s.chan[j].stream] = j
          BY <2>2, <4>3, <5>1 DEF k
        <5>3. j \in s.todo => s.chan[j].stream \in Streams
          BY DEF StreamOK
        <5> QED BY <2>2, <4>1, <5>1, <5>2, <5>3 DEF ChanOK, SameChan
      <4> QED BY <4>2, <4>3
    <3>2. ASSUME NEW h \in Streams PROVE RegisteredOK(r, h)
      <4>1. CASE h = i
        BY <2>2, <4>1 DEF RegisteredOK
      <4>2. CASE h # i
        <5>1. r.reg[h] = s.reg[h] /\ s.reg[h] # k /\ (s.reg[h] = 0 \/ s.reg[h] \in Chans)
          BY <2>2, <2>3, <4>2, RegType
        <5> QED BY <1>2, <2>2, <5>1 DEF Local, RegisteredOK, SameChan
      <4> QED BY <4>1, <4>2
    <3> QED BY <1>2, <2>2, <3>1, <3>2 DEF Local
  <2>12. ClosedOK(r, x)
    <3> SUFFICES ASSUME NEW j \in Chans, r.chan[j].closed PROVE j \in Said(s, o)
      BY <2>8 DEF ClosedOK
    <3> QED BY <1>2, <2>1, <2>2 DEF ClosedOK, SameChan
  <2>13. Owns(p, r)
    <3> SUFFICES ASSUME NEW h \in Streams, r.reg[h] # 0, r.chan[r.reg[h]].kind = "out"
                 PROVE  h % 2 = Parity(p)
      BY DEF Owns
    <3>1. h # i /\ r.reg[h] = s.reg[h] /\ s.reg[h] \in Chans
      BY <2>2, RegType
    <3>2. s.chan[s.reg[h]].kind = "out"
      BY <2>5, <3>1 DEF Binds
    <3> QED BY <1>2, <3>1, <3>2 DEF Owns
  <2>14. Unknown(r, x) /\ Unknown(x, r)
    BY <2>2, <2>5, <2>7, ArrivesUnknown
  <2>15. \A h \in Streams : Fit(p, r, x, h, Said(r, x))
    BY <2>9, <2>10
  <2>16. Both(p, r, x)
    BY <2>5, <2>11, <2>12, <2>13, <2>14, <2>15, ArrivesBoth
  <2>17. Mails(p, r, x, sn, l)
    BY <2>2, <2>5, <2>7, ArrivesMails
  <2> QED BY <2>2, <2>16, <2>17 DEF r, i
<1> QED BY <1>5, <1>6

-----------------------------------------------------------------------------
(* What arrives: an ACK or a message of a channel.                         *)

\* Channel k hears of m, unless it is closed.
Hears(s, r, k, m) ==
  /\ r \in PeerStates /\ Rest(s, r) /\ Line(r) = Line(s)
  /\ \A j \in Chans :
       LET c == s.chan[j]
           d == r.chan[j] IN
       /\ d.kind = c.kind /\ d.stream = c.stream /\ d.bound = c.bound /\ d.closed = c.closed /\ d.byApp = c.byApp
       /\ d.got = IF j = k /\ m.type = "data" /\ ~c.closed THEN c.got \cup {m.n} ELSE c.got

LEMMA HearsShape ==
  ASSUME NEW p \in Peers, NEW s \in PeerStates, NEW m \in Messages, m.type \in {"ack", "data"},
         s.reg[m.stream] # 0
  PROVE  Hears(s, ForwardMessage(p, s, m), s.reg[m.stream], m)
<1> DEFINE k == s.reg[m.stream]
           r == ForwardMessage(p, s, m)
           c == s.chan[k]
           a == [c EXCEPT !.open = TRUE]
           g == [c EXCEPT !.got = @ \cup {m.n}]
<1>1. k \in Chans
  BY RegType DEF Messages
<1>2. c \in ChanStates
  BY <1>1 DEF PeerStates
<1>3. r = Incoming(s, k, m)
  <2>1. m.type # "open" /\ m.type # "reset"
    OBVIOUS
  <2> QED BY <2>1, Zenon DEF ForwardMessage
<1>4. r = IF c.closed THEN s ELSE IF m.type = "ack" THEN With(s, k, a) ELSE With(s, k, g)
  <2> DEFINE t == Send(s, Msg("ack", s.chan[k].stream, k, 0))
             u == IF t.shut THEN t ELSE [t EXCEPT !.chan[k].open = TRUE]
             o == [s EXCEPT !.chan[k].open = TRUE]
             v == [s EXCEPT !.chan[k].got = @ \cup {m.n}]
             w == Close(s, k)
  <2>1. Incoming(s, k, m) =
          IF s.chan[k].closed THEN s
          ELSE CASE m.type = "open" /\ s.chan[k].kind = "in" -> u
                 [] m.type = "ack" -> o
                 [] m.type = "reset" -> w
                 [] m.type = "data" -> v
                 [] OTHER -> s
    BY Zenon DEF Incoming
  <2>2. o = With(s, k, a) /\ v = With(s, k, g)
    BY Zenon DEF With
  <2> HIDE DEF u, o, v, w, k, r, a, g
  <2> QED BY <1>3, <2>1, <2>2
<1>5. /\ a \in ChanStates /\ SameChan(c, a)
      /\ g \in ChanStates /\ g.kind = c.kind /\ g.stream = c.stream /\ g.bound = c.bound
      /\ g.closed = c.closed /\ g.byApp = c.byApp /\ g.got = c.got \cup {m.n}
  BY <1>2 DEF ChanStates, SameChan, Messages
<1> HIDE DEF a, g, k, r
<1>6. CASE c.closed
  <2>1. r = s
    BY <1>4, <1>6
  <2> QED BY <1>6, <2>1 DEF Hears, Rest, k, r
<1>7. CASE ~c.closed /\ m.type = "ack"
  <2>1. r = With(s, k, a)
    BY <1>4, <1>7
  <2>2. r \in PeerStates /\ Turns(s, r, k, a) /\ Line(r) = Line(s)
    BY <1>1, <1>5, <2>1, WithTurns
  <2>3. Hears(s, r, k, m)
    BY <1>5, <1>7, <2>2 DEF Hears, Turns, SameChan
  <2> QED BY <2>3 DEF k, r
<1>8. CASE ~c.closed /\ m.type = "data"
  <2>1. r = With(s, k, g)
    BY <1>4, <1>8
  <2>2. r \in PeerStates /\ Turns(s, r, k, g) /\ Line(r) = Line(s)
    BY <1>1, <1>5, <2>1, WithTurns
  <2>3. Hears(s, r, k, m)
    BY <1>5, <1>8, <2>2 DEF Hears, Turns, SameChan
  <2> QED BY <2>3 DEF k, r
<1> QED BY <1>6, <1>7, <1>8

LEMMA HearsBoth ==
  ASSUME NEW p \in Peers, NEW s \in PeerStates, NEW o \in PeerStates, NEW x, NEW r, NEW m \in Messages,
         Arrives(p, s, o, x, m), m.type \in {"ack", "data"}, Base(s), s.reg[m.stream] # 0,
         Hears(s, r, s.reg[m.stream], m)
  PROVE  Both(p, r, x)
<1> DEFINE i == m.stream
           k == s.reg[i]
<1>1. i \in Streams /\ k \in Chans
  BY RegType DEF Messages
<1>2. /\ Local(s) /\ Owns(p, s) /\ ClosedOK(s, o) /\ Stays(o, x) /\ Fit(p, s, o, i, Said(s, o))
      /\ Takes(Line(o), Line(x), m)
  BY <1>1 DEF Arrives, Both, Alive
<1>3. SameAt(o, x, i) /\ x.stopped = o.stopped
  BY <1>1, <1>2, StaysIdle, IdleSame DEF Stays, Rest
<1>4. /\ r \in PeerStates /\ Line(r) = Line(s)
      /\ r.reg = s.reg /\ r.stopped = s.stopped /\ r.sctp = s.sctp /\ r.unassigned = s.unassigned
      /\ r.task = s.task /\ r.todo = s.todo /\ r.over = s.over
  BY DEF Hears, Rest
<1>5. /\ \A j \in Chans :
           LET c == s.chan[j]
               d == r.chan[j] IN
           /\ d.kind = c.kind /\ d.stream = c.stream /\ d.bound = c.bound /\ d.closed = c.closed
           /\ d.byApp = c.byApp
      /\ \A j \in Chans \ {k} : r.chan[j].got = s.chan[j].got
  BY DEF Hears
<1>6. Remembers(s, r) /\ Binds(s, r) /\ NoNewOpen(s, r) /\ \A h \in Streams : Mirrors(Line(s), Line(r), h)
  BY <1>4, <1>5, LineType, SelfMirrors DEF Remembers, Binds, NoNewOpen
<1>7. \A h \in Streams : SameAt(s, r, h)
  BY <1>4, <1>5, RegType DEF SameAt, Held, InUse
<1>8. Said(r, x) = Said(s, o)
  BY <1>2, <1>5 DEF Said, Stays, SameChan
<1>9. ASSUME NEW h \in Streams PROVE Fit(p, r, x, h, Said(r, x))
  <2>1. CASE h # i
    BY <1>4, <1>6, <1>7, <2>1, ArrivesFit
  <2>2. CASE h = i
    <3>1. SameAt(s, r, i)
      BY <1>1, <1>7
    <3> QED BY <1>1, <1>2, <1>3, <1>4, <1>8, <2>2, <3>1, FitHears
  <2> QED BY <2>1, <2>2
<1>10. Local(r)
  <2>1. s.chan[k].kind # "none"
    BY <1>1, NotRegistered
  <2>2. ASSUME NEW j \in Chans PROVE ChanOK(r, j)
    <3>1. ChanOK(s, j)
      BY <1>2 DEF Local
    <3> HIDE DEF k
    <3>2. CASE j = k
      BY <1>4, <1>5, <2>1, <3>1, <3>2 DEF ChanOK
    <3>3. CASE j # k
      BY <1>4, <1>5, <3>1, <3>3 DEF ChanOK
    <3> QED BY <3>2, <3>3
  <2>3. ASSUME NEW h \in Streams PROVE RegisteredOK(r, h)
    BY <1>2, <1>4, <1>5, RegType DEF Local, RegisteredOK
  <2> QED BY <1>2, <1>4, <2>2, <2>3 DEF Local
<1>11. ClosedOK(r, x)
  BY <1>2, <1>5, <1>8 DEF ClosedOK
<1>12. Owns(p, r)
  BY <1>2, <1>4, <1>5, OwnsSame
<1>13. Unknown(r, x) /\ Unknown(x, r)
  BY <1>4, <1>6, ArrivesUnknown
<1> QED BY <1>6, <1>9, <1>10, <1>11, <1>12, <1>13, ArrivesBoth

\* A message of a channel is for the channel that gets it, and one that is not taken
\* finds the channel closed by the application.
LEMMA DataMails ==
  ASSUME NEW p \in Peers, NEW s \in PeerStates, NEW o, NEW x, NEW r, NEW m, NEW k \in Chans,
         NEW sn \in SentSeqs, NEW l, Arrives(p, s, o, x, m), Mails(p, s, o, sn, l), m.type = "data",
         m.k = k, Hears(s, r, k, m), s.chan[k].closed => s.chan[k].byApp
  PROVE  Mails(p, r, x, sn, l)
<1> DEFINE q == Other(p)
           a == Line(o)
           b == Line(x)
<1>1. q \in Peers /\ Other(q) = p
  BY OtherPeer
<1>2. Stays(o, x) /\ Takes(a, b, m)
  BY DEF Arrives
<1>3. x.stopped = o.stopped /\ \A j \in Chans : x.chan[j].got = o.chan[j].got /\ x.chan[j].byApp = o.chan[j].byApp
  BY <1>2 DEF Stays, Rest, SameChan
<1>4. /\ r.stopped = s.stopped /\ Line(r) = Line(s)
      /\ \A j \in Chans : /\ r.chan[j].byApp = s.chan[j].byApp /\ s.chan[j].got \subseteq r.chan[j].got
                          /\ j # k => r.chan[j].got = s.chan[j].got
      /\ IF s.chan[k].closed THEN r.chan[k].got = s.chan[k].got ELSE r.chan[k].got = s.chan[k].got \cup {m.n}
  BY DEF Hears, Rest
<1>5. /\ CarriedOK(p, s, sn) /\ GotOK(p, s, sn) /\ (~l => ArriveOK(p, s, o, sn))
      /\ CarriedOK(q, o, sn) /\ GotOK(q, o, sn) /\ (~l => ArriveOK(q, o, s, sn))
  BY DEF Mails, Mail
<1>6. \A n \in DOMAIN sn : sn[n].k \in Chans
  BY SentType
<1> HIDE DEF a, b, q
<1>7. /\ Data(b) \subseteq Data(a) /\ m \in Data(a)
      /\ \A e \in Data(a) : e \in Data(b) \/ e = m
  BY <1>2, DataTakes
<1>8. m.n \in DOMAIN sn /\ sn[m.n].peer = q /\ sn[m.n].k = k
  BY <1>5, <1>7 DEF CarriedOK, a
<1>9. CarriedOK(p, r, sn) /\ CarriedOK(q, x, sn)
  BY <1>4, <1>5, <1>7 DEF CarriedOK, a, b
<1>10. GotOK(q, x, sn)
  BY <1>3, <1>5 DEF GotOK
<1>11. GotOK(p, r, sn)
  <2> SUFFICES ASSUME NEW j \in Chans, NEW n \in r.chan[j].got
               PROVE  n \in DOMAIN sn /\ sn[n].peer = Other(p) /\ sn[n].k = j
    BY DEF GotOK
  <2>1. n \in s.chan[j].got \/ (j = k /\ n = m.n)
    BY <1>4
  <2> QED BY <1>5, <1>8, <2>1 DEF GotOK, q
<1>12. ~l => ArriveOK(p, r, x, sn)
  BY <1>3, <1>4, <1>5, <1>6 DEF ArriveOK, Misses
<1>13. ~l => ArriveOK(q, x, r, sn)
  <2> SUFFICES ASSUME ~l, NEW n \in DOMAIN sn, sn[n].peer = q, ~sn[n].lost, Misses(r, sn, n)
               PROVE  \E e \in Data(b) : e.n = n
    BY DEF ArriveOK, b
  <2>1. Misses(s, sn, n)
    BY <1>4, <1>6 DEF Misses
  <2>2. PICK e \in Data(a) : e.n = n
    BY <1>5, <2>1 DEF ArriveOK, a
  <2>3. CASE e \in Data(b)
    BY <2>2, <2>3
  <2>4. CASE e = m
    <3>1. n = m.n /\ sn[n].k = k
      BY <1>8, <2>2, <2>4
    <3>2. ~r.chan[k].byApp /\ n \notin r.chan[k].got
      BY <3>1 DEF Misses
    <3> QED BY <1>4, <3>1, <3>2
  <2> QED BY <1>7, <2>3, <2>4
<1> QED BY <1>9, <1>10, <1>11, <1>12, <1>13 DEF Mails, Mail, q

LEMMA HearsArrives ==
  ASSUME NEW p \in Peers, NEW s \in PeerStates, NEW o \in PeerStates, NEW x, NEW m \in Messages,
         NEW sn \in SentSeqs, NEW l, Arrives(p, s, o, x, m), Mails(p, s, o, sn, l),
         m.type \in {"ack", "data"}, Base(s)
  PROVE  LET r == ForwardMessage(p, s, m) IN
         Both(p, r, x) /\ Mails(p, r, x, sn, l) /\ r.sctp = s.sctp
<1> DEFINE i == m.stream
           k == s.reg[i]
           r == ForwardMessage(p, s, m)
           S == Said(s, o)
<1>1. i \in Streams
  BY DEF Messages
<1>2. Local(s) /\ Fit(p, s, o, i, S) /\ Takes(Line(o), Line(x), m)
  BY <1>1 DEF Arrives, Both, Alive
<1>3. MayArrive(p, s, o, i, S, m)
  <2> HIDE DEF S
  <2> QED BY <1>1, <1>2, FitTaken
<1>4. k = m.k
  BY <1>3 DEF MayArrive
<1>5. k # 0 /\ k \in Chans
  <2>1. CASE m.type = "ack"
    BY <1>1, <1>3, <2>1, RegType DEF MayArrive
  <2>2. CASE m.type = "data"
    <3>1. m \in Data(Line(o))
      BY <1>2, <2>2, DataTakes
    <3>2. m.n \in DOMAIN sn /\ sn[m.n].k = m.k
      BY <3>1 DEF Mails, Mail, CarriedOK
    <3>3. m.k \in Chans
      BY <3>2, SentType
    <3> QED BY <1>4, <3>3 DEF Chans
  <2> QED BY <2>1, <2>2
<1>6. Hears(s, r, k, m)
  BY <1>5, HearsShape
<1>7. s.chan[k].closed => s.chan[k].byApp
  BY <1>1, <1>2, <1>5 DEF Local, RegisteredOK
<1> HIDE DEF r
<1>8. Both(p, r, x)
  BY <1>5, <1>6, HearsBoth
<1>9. r.sctp = s.sctp
  BY <1>6 DEF Hears, Rest
<1>10. CASE m.type = "data"
  <2> HIDE DEF k
  <2>1. Mails(p, r, x, sn, l)
    BY <1>4, <1>5, <1>6, <1>7, <1>10, DataMails
  <2> QED BY <1>8, <1>9, <2>1 DEF r
<1>11. CASE m.type = "ack"
  <2>1. /\ Data(Line(r)) = Data(Line(s)) /\ r.stopped = s.stopped
        /\ \A j \in Chans : r.chan[j].got = s.chan[j].got /\ r.chan[j].byApp = s.chan[j].byApp
    BY <1>6, <1>11 DEF Hears, Rest
  <2>2. Mails(p, r, x, sn, l)
    BY <1>11, <2>1, ArrivesMails
  <2> QED BY <1>8, <1>9, <2>2 DEF r
<1> QED BY <1>10, <1>11

-----------------------------------------------------------------------------
(* What arrives: OPEN.                                                     *)

\* A new channel k has stream i, and the answer is on its way.
Welcomes(s, r, i, k) ==
  /\ r \in PeerStates
  /\ r.stopped = s.stopped /\ r.sctp = s.sctp /\ r.unassigned = s.unassigned
  /\ r.task = s.task /\ r.todo = s.todo /\ r.over = s.over
  /\ \A h \in Streams : r.reg[h] = IF h = i THEN k ELSE s.reg[h]
  /\ \A j \in Chans \ {k} : SameChan(s.chan[j], r.chan[j])
  /\ SameChan(NewIn(i), r.chan[k])
  /\ Says(s, r, Msg("ack", i, k, 0))

LEMMA NewInFields ==
  ASSUME NEW i
  PROVE  LET c == NewIn(i) IN
         c.kind = "in" /\ c.stream = i /\ c.bound /\ ~c.closed /\ ~c.byApp /\ c.got = {}
BY DEF NewIn, NewChan

LEMMA AcceptShape ==
  ASSUME NEW s \in PeerStates, Base(s), s.sctp = "connected", NEW i \in Streams, s.reg[i] = 0,
         NEW k \in Chans, s.chan[k].kind = "none"
  PROVE  LET n == Accepts(s, i, k) IN
         /\ n \in PeerStates /\ Base(n) /\ Line(n) = Line(s) /\ n.chan[k] = NewIn(i)
         /\ n.stopped = s.stopped /\ n.sctp = s.sctp /\ n.unassigned = s.unassigned
         /\ n.task = s.task /\ n.todo = s.todo /\ n.over = s.over
         /\ \A h \in Streams : n.reg[h] = IF h = i THEN k ELSE s.reg[h]
         /\ \A j \in Chans \ {k} : n.chan[j] = s.chan[j]
<1> DEFINE n == Accepts(s, i, k)
           c == NewIn(i)
<1>1. n \in PeerStates /\ Base(n) /\ \A j \in Chans : j # k => n.chan[j] = s.chan[j]
  BY AcceptBase
<1>2. /\ n.chan = [s.chan EXCEPT ![k] = c] /\ n.reg = [s.reg EXCEPT ![i] = k]
      /\ n.stopped = s.stopped /\ n.sctp = s.sctp /\ n.unassigned = s.unassigned
      /\ n.task = s.task /\ n.todo = s.todo /\ n.over = s.over /\ n.wire = s.wire /\ n.sendq = s.sendq
  <2> HIDE DEF c
  <2>1. n = [s EXCEPT !.reg[i] = k, !.chan[k] = c]
    BY Zenon DEF Accepts, c
  <2> HIDE DEF n
  <2> QED BY <2>1 DEF PeerStates
<1> HIDE DEF n, c
<1>3. s.chan \in [Chans -> ChanStates] /\ s.reg \in [Streams -> 0 .. MaxChans]
  BY DEF PeerStates
<1> QED BY <1>1, <1>2, <1>3 DEF Line, n, c

LEMMA OpenShape ==
  ASSUME NEW p \in Peers, NEW s \in PeerStates, Base(s), s.sctp = "connected", NEW m \in Messages,
         m.type = "open", s.reg[m.stream] = 0, m.stream % 2 # Parity(p), s.chan[m.k].kind = "none"
  PROVE  Welcomes(s, ForwardMessage(p, s, m), m.stream, m.k)
<1> DEFINE i == m.stream
           k == m.k
           n == Accepts(s, i, k)
           a == Msg("ack", i, k, 0)
           t == Send(n, a)
           u == With(t, k, [t.chan[k] EXCEPT !.open = TRUE])
           r == ForwardMessage(p, s, m)
<1>1. i \in Streams /\ k \in Chans
  BY DEF Messages
<1>2. /\ n \in PeerStates /\ Base(n) /\ Line(n) = Line(s) /\ n.chan[k] = NewIn(i)
      /\ n.stopped = s.stopped /\ n.sctp = s.sctp /\ n.unassigned = s.unassigned
      /\ n.task = s.task /\ n.todo = s.todo /\ n.over = s.over
      /\ \A h \in Streams : n.reg[h] = IF h = i THEN k ELSE s.reg[h]
      /\ \A j \in Chans \ {k} : n.chan[j] = s.chan[j]
  BY <1>1, AcceptShape
<1>3. r = Incoming(n, k, m)
  BY Zenon DEF ForwardMessage, Accepts, NewIn
<1>4. n.chan[k].kind = "in" /\ ~n.chan[k].closed /\ n.chan[k].stream = i
  BY <1>2, NewInFields
<1>5. r = IF t.shut THEN t ELSE u
  <2> DEFINE w == IF t.shut THEN t ELSE [t EXCEPT !.chan[k].open = TRUE]
             b == [n EXCEPT !.chan[k].open = TRUE]
             v == [n EXCEPT !.chan[k].got = @ \cup {m.n}]
             z == Close(n, k)
  <2> HIDE DEF n, r, k
  <2>1. Incoming(n, k, m) =
          IF n.chan[k].closed THEN n
          ELSE CASE m.type = "open" /\ n.chan[k].kind = "in" -> w
                 [] m.type = "ack" -> b
                 [] m.type = "reset" -> z
                 [] m.type = "data" -> v
                 [] OTHER -> n
    BY <1>4, Zenon DEF Incoming
  <2>2. w = IF t.shut THEN t ELSE u
    BY Zenon DEF With
  <2> HIDE DEF w, b, v, z, t, u
  <2> QED BY <1>3, <1>4, <2>1, <2>2
<1>6. a \in Messages
  BY <1>1, ConstantsAssumption DEF Msg, Messages, Chans
<1>7. ShutOK(n) /\ n.sctp \in {"up", "connected"}
  BY <1>2 DEF Base, BaseBut
<1> HIDE DEF n, a, i, k, r
<1>8. t \in PeerStates /\ Stays(n, t) /\ Says(n, t, a)
  BY <1>2, <1>6, <1>7, SendStays
<1> HIDE DEF t
<1>9. u \in PeerStates /\ Stays(t, u) /\ Line(u) = Line(t)
  <2> DEFINE c == t.chan[k]
             d == [c EXCEPT !.open = TRUE]
  <2>1. c \in ChanStates
    BY <1>1, <1>8 DEF PeerStates
  <2>2. d \in ChanStates /\ SameChan(c, d)
    BY <2>1 DEF ChanStates, SameChan
  <2> HIDE DEF d
  <2>3. u = With(t, k, d)
    BY DEF d
  <2>4. u \in PeerStates /\ Turns(t, u, k, d) /\ Line(u) = Line(t)
    BY <1>1, <1>8, <2>2, <2>3, WithTurns
  <2> QED BY <2>2, <2>4 DEF Turns, Stays, SameChan
<1> HIDE DEF u
<1>10. r \in PeerStates /\ Stays(n, r) /\ Says(n, r, a)
  <2>1. CASE t.shut
    BY <1>5, <1>8, <2>1
  <2>2. CASE ~t.shut
    BY <1>5, <1>8, <1>9, <2>2, StaysTrans DEF Says, Hushed
  <2> QED BY <2>1, <2>2
<1>11. Says(s, r, a)
  BY <1>2, <1>10 DEF Says, Hushed
<1>12. Rest(n, r) /\ \A j \in Chans : SameChan(n.chan[j], r.chan[j])
  BY <1>10 DEF Stays
<1>13. SameChan(NewIn(i), r.chan[k]) /\ \A j \in Chans \ {k} : SameChan(s.chan[j], r.chan[j])
  BY <1>1, <1>2, <1>12
<1>14. Welcomes(s, r, i, k)
  BY <1>2, <1>10, <1>11, <1>12, <1>13 DEF Welcomes, Rest, a
<1> QED BY <1>14 DEF r, i, k

LEMMA OpenArrives ==
  ASSUME NEW p \in Peers, NEW s \in PeerStates, NEW o \in PeerStates, NEW x \in PeerStates, NEW m \in Messages,
         NEW sn \in SentSeqs, NEW l, Arrives(p, s, o, x, m), Mails(p, s, o, sn, l),
         m.type = "open", Base(s), Base(o), StreamOK(s), s.sctp = "connected"
  PROVE  LET r == ForwardMessage(p, s, m) IN
         Both(p, r, x) /\ Mails(p, r, x, sn, l) /\ r.sctp = s.sctp
<1> DEFINE i == m.stream
           k == m.k
           r == ForwardMessage(p, s, m)
           S == Said(s, o)
           a == Msg("ack", i, k, 0)
<1>1. i \in Streams /\ k \in Chans /\ k # 0
  BY DEF Messages, Chans
<1>2. /\ Local(s) /\ Owns(p, s) /\ ClosedOK(s, o) /\ Stays(o, x) /\ Fit(p, s, o, i, S)
      /\ Takes(Line(o), Line(x), m) /\ Unknown(s, o) /\ Unknown(o, s)
  BY <1>1 DEF Arrives, Both, Alive
<1>3. SameAt(o, x, i) /\ x.stopped = o.stopped
  BY <1>1, <1>2, StaysIdle, IdleSame DEF Stays, Rest
<1>4. i % 2 # Parity(p) /\ s.reg[i] = 0 /\ o.reg[i] = k /\ o.chan[k].bound
  <2>1. MayArrive(p, s, o, i, S, m)
    <3> HIDE DEF S
    <3> QED BY <1>1, <1>2, FitTaken
  <2> QED BY <2>1 DEF MayArrive
<1>5. PICK n \in Nat : /\ DOMAIN Line(x) = 1 .. n /\ DOMAIN Line(o) = 1 .. (n + 1) /\ Line(o)[1] = m
                       /\ \A j \in 1 .. n : Line(x)[j] = Line(o)[j + 1]
  BY <1>2 DEF Takes
<1>6. s.chan[k].kind = "none"
  <2>1. 1 \in DOMAIN Line(o)
    BY <1>5
  <2> QED BY <1>2, <1>5, <2>1 DEF Unknown
<1>7. ~s.chan[k].bound /\ ~s.chan[k].closed /\ ~s.chan[k].byApp /\ s.chan[k].got = {}
  BY <1>1, <1>2, <1>6 DEF Local, ChanOK
<1>8. \A h \in Streams : s.reg[h] # k
  BY <1>1, <1>6, NotRegistered
<1>9. Welcomes(s, r, i, k)
  BY <1>4, <1>6, OpenShape
<1> HIDE DEF r
<1>10. /\ r \in PeerStates
       /\ r.stopped = s.stopped /\ r.sctp = s.sctp /\ r.unassigned = s.unassigned
       /\ r.task = s.task /\ r.todo = s.todo /\ r.over = s.over
       /\ \A h \in Streams : r.reg[h] = IF h = i THEN k ELSE s.reg[h]
       /\ \A j \in Chans \ {k} : SameChan(s.chan[j], r.chan[j])
       /\ Says(s, r, a)
  BY <1>9 DEF Welcomes
<1>11. /\ r.chan[k].kind = "in" /\ r.chan[k].stream = i /\ r.chan[k].bound /\ ~r.chan[k].closed
       /\ ~r.chan[k].byApp /\ r.chan[k].got = {}
  <2>1. SameChan(NewIn(i), r.chan[k])
    BY <1>9 DEF Welcomes
  <2> QED BY <2>1, NewInFields DEF SameChan
<1>12. a.type = "ack" /\ a.stream = i /\ a.k = k
  BY DEF Msg
<1> HIDE DEF a
<1>13. /\ Data(Line(r)) = Data(Line(s)) /\ NoNewOpen(s, r)
       /\ \A h \in Streams : h # i => Mirrors(Line(s), Line(r), h)
  BY <1>10, <1>12, SaysLine
<1>14. /\ \A j \in Chans : r.chan[j].got = s.chan[j].got /\ r.chan[j].byApp = s.chan[j].byApp
       /\ Remembers(s, r)
  <2>1. ASSUME NEW j \in Chans PROVE r.chan[j].got = s.chan[j].got /\ r.chan[j].byApp = s.chan[j].byApp
    <3>1. CASE j = k
      <4>1. r.chan[k] \in ChanStates /\ s.chan[k] \in ChanStates
        BY <1>1, <1>10 DEF PeerStates
      <4>2. r.chan[k].byApp \in BOOLEAN /\ s.chan[k].byApp \in BOOLEAN
        BY <4>1 DEF ChanStates
      <4> QED BY <1>7, <1>11, <3>1, <4>2
    <3>2. CASE j # k
      BY <1>10, <3>2 DEF SameChan
    <3> QED BY <3>1, <3>2
  <2> QED BY <2>1 DEF Remembers
<1>15. Said(r, x) = S
  <2>1. \A j \in Chans : x.chan[j].byApp = o.chan[j].byApp
    BY <1>2 DEF Stays, SameChan
  <2> QED BY <1>14, <2>1 DEF Said
<1>16. ASSUME NEW h \in Streams PROVE Fit(p, r, x, h, Said(r, x))
  <2>1. CASE h # i
    <3>1. SameAt(s, r, h)
      <4>1. r.reg[h] = s.reg[h] /\ s.reg[h] # k /\ (s.reg[h] = 0 \/ s.reg[h] \in Chans)
        BY <1>8, <1>10, <2>1, RegType
      <4> QED BY <1>10, <4>1 DEF SameAt, Held, InUse, SameChan
    <3> QED BY <1>10, <1>13, <1>14, <2>1, <3>1, ArrivesFit
  <2>2. CASE h = i
    <3>1. r.reg[i] = m.k /\ r.chan[m.k].bound /\ ~r.chan[m.k].closed /\ r.stopped = s.stopped
      BY <1>1, <1>10, <1>11
    <3> HIDE DEF S
    <3>2. Fit(p, r, x, i, S)
      BY <1>1, <1>2, <1>3, <1>10, <1>12, <3>1, FitAccepts
    <3> QED BY <1>15, <2>2, <3>2
  <2> QED BY <2>1, <2>2
<1> HIDE DEF k
<1>17. Local(r)
  <2>1. ASSUME NEW j \in Chans PROVE ChanOK(r, j)
    <3>1. ChanOK(s, j)
      BY <1>2 DEF Local
    <3>2. CASE j = k
      BY <1>1, <1>10, <1>11, <3>2 DEF ChanOK
    <3>3. CASE j # k
      <4>1. SameChan(s.chan[j], r.chan[j]) /\ j # 0
        BY <1>10, <3>3 DEF Chans
      <4>2. s.chan[j].stream \in Streams /\ s.reg[s.chan[j].stream] = j => r.reg[s.chan[j].stream] = j
        BY <1>4, <1>10, <4>1
      <4>3. j \in s.todo => s.chan[j].stream \in Streams
        BY DEF StreamOK
      <4> QED BY <1>10, <3>1, <4>1, <4>2, <4>3 DEF ChanOK, SameChan
    <3> QED BY <3>2, <3>3
  <2>2. ASSUME NEW h \in Streams PROVE RegisteredOK(r, h)
    <3>1. CASE h = i
      BY <1>10, <1>11, <3>1 DEF RegisteredOK
    <3>2. CASE h # i
      <4>1. r.reg[h] = s.reg[h] /\ s.reg[h] # k /\ (s.reg[h] = 0 \/ s.reg[h] \in Chans)
        BY <1>8, <1>10, <3>2, RegType
      <4> QED BY <1>2, <1>10, <4>1 DEF Local, RegisteredOK, SameChan
    <3> QED BY <3>1, <3>2
  <2> QED BY <1>2, <1>10, <2>1, <2>2 DEF Local
<1>18. ClosedOK(r, x)
  <2> SUFFICES ASSUME NEW j \in Chans, r.chan[j].closed PROVE j \in S
    BY <1>15 DEF ClosedOK
  <2>1. j # k
    BY <1>11
  <2> QED BY <1>2, <1>10, <2>1 DEF ClosedOK, SameChan
<1>19. Owns(p, r)
  <2> SUFFICES ASSUME NEW h \in Streams, r.reg[h] # 0, r.chan[r.reg[h]].kind = "out"
               PROVE  h % 2 = Parity(p)
    BY DEF Owns
  <2>1. h # i
    BY <1>10, <1>11
  <2>2. r.reg[h] = s.reg[h] /\ s.reg[h] # k /\ s.reg[h] \in Chans
    BY <1>8, <1>10, <2>1, RegType
  <2>3. s.chan[s.reg[h]].kind = "out"
    BY <1>10, <2>2 DEF SameChan
  <2> QED BY <1>2, <2>2, <2>3 DEF Owns
<1>20. \A j \in Chans : x.chan[j].kind = o.chan[j].kind /\ x.chan[j].bound = o.chan[j].bound
  BY <1>2 DEF Stays, SameChan
<1>21. Unknown(r, x)
  <2>1. ASSUME NEW j \in Chans, r.chan[j].kind = "out", ~r.chan[j].bound PROVE x.chan[j].kind = "none"
    <3>1. j # k
      BY <1>11, <2>1
    <3> QED BY <1>2, <1>10, <1>20, <2>1, <3>1 DEF Unknown, SameChan
  <2>2. ASSUME NEW j \in DOMAIN Line(r), Line(r)[j].type = "open" PROVE x.chan[Line(r)[j].k].kind = "none"
    <3>1. PICK h \in DOMAIN Line(s) : Line(s)[h] = Line(r)[j]
      BY <1>13, <2>2 DEF NoNewOpen
    <3>2. Line(s)[h].k \in Chans
      BY <2>2, <3>1, LineOpen
    <3> QED BY <1>2, <1>20, <2>2, <3>1, <3>2 DEF Unknown
  <2> QED BY <2>1, <2>2 DEF Unknown
<1>22. Unknown(x, r)
  <2>1. ASSUME NEW j \in Chans, x.chan[j].kind = "out", ~x.chan[j].bound PROVE r.chan[j].kind = "none"
    <3>1. j # k /\ s.chan[j].kind = "none"
      BY <1>2, <1>4, <1>20, <2>1 DEF Unknown
    <3> QED BY <1>10, <3>1 DEF SameChan
  <2>2. ASSUME NEW j \in DOMAIN Line(x), Line(x)[j].type = "open" PROVE r.chan[Line(x)[j].k].kind = "none"
    <3> DEFINE e == Line(o)[j + 1]
    <3>1. j + 1 \in DOMAIN Line(o) /\ 1 \in DOMAIN Line(o) /\ Line(x)[j] = e /\ e.type = "open" /\ j + 1 # 1
      BY <1>5, <2>2
    <3>2. s.chan[e.k].kind = "none" /\ e.k \in Chans
      BY <1>2, <3>1, LineOpen DEF Unknown
    <3>3. OpenFits(o, e) /\ OpenFits(o, m)
      BY <1>5, <3>1, LineOpenFits
    <3>4. e.k = k => e.stream = i
      BY <3>1, <3>3 DEF OpenFits, k
    <3>5. Spoken(Line(o), i, View(o, s, i).kx)
      BY <1>2, <1>4 DEF Fit, Stream
    <3>6. On(Line(o), i, 1, "open")
      BY <1>5 DEF On
    <3>7. e.stream # i
      <4> SUFFICES ASSUME e.stream = i PROVE FALSE
        OBVIOUS
      <4>1. On(Line(o), i, j + 1, "open")
        BY <3>1 DEF On
      <4> QED BY <3>1, <3>5, <3>6, <4>1 DEF Spoken
    <3>8. e.k # k
      BY <3>4, <3>7
    <3> QED BY <1>10, <3>1, <3>2, <3>8 DEF SameChan
  <2> QED BY <2>1, <2>2 DEF Unknown
<1>23. Both(p, r, x)
  BY <1>14, <1>16, <1>17, <1>18, <1>19, <1>21, <1>22, ArrivesBoth
<1>24. Mails(p, r, x, sn, l)
  BY <1>10, <1>13, <1>14, ArrivesMails
<1> QED BY <1>10, <1>23, <1>24 DEF r

-----------------------------------------------------------------------------
(* The end of the association.                                             *)

\* remoteCloseDataChannels closes channels, and no more.
Ends(s, r) ==
  r.stopped = s.stopped /\ \A k \in Chans : r.chan[k].got = s.chan[k].got /\ r.chan[k].byApp = s.chan[k].byApp

LEMMA CloseEnds ==
  ASSUME NEW s \in PeerStates, NEW k \in Chans, NEW ks
  PROVE  LET r == CloseIn(ks, s, k) IN r \in PeerStates /\ Ends(s, r)
<1> DEFINE r == CloseIn(ks, s, k)
<1>1. CASE r = s
  BY <1>1 DEF Ends
<1>2. CASE ~s.chan[k].closed /\ r = Close(s, k)
  <2> DEFINE c == s.chan[k]
             d == [c EXCEPT !.closed = TRUE]
  <2>1. r \in PeerStates /\ Turns(s, r, k, d)
    BY <1>2, CloseTurns
  <2>2. c \in ChanStates
    BY DEF PeerStates
  <2>3. d.got = c.got /\ d.byApp = c.byApp
    BY <2>2 DEF ChanStates
  <2> HIDE DEF d
  <2>4. Ends(s, r)
    BY <2>1, <2>3 DEF Ends, Turns, Rest, SameChan
  <2> QED BY <2>1, <2>4
<1>3. s.chan[k].closed => Close(s, k) = s
  BY Zenon DEF Close
<1>4. r = s \/ r = Close(s, k)
  BY Zenon DEF CloseIn
<1> QED BY <1>1, <1>2, <1>3, <1>4

LEMMA DisconnectEnds ==
  ASSUME NEW s \in PeerStates
  PROVE  Dead(Disconnect(s)) /\ Ends(s, Disconnect(s))
<1> DEFINE ks == Registered(s)
           t == CloseAll(s, ks)
           r == [t EXCEPT !.sctp = "disconnected", !.wire = <<>>, !.flush = FALSE,
                          !.sendq = <<>>, !.task = FALSE, !.todo = {}]
           D == {u \in PeerStates : Ends(s, u)}
<1>1. Disconnect(s) = r
  BY Zenon DEF Disconnect
<1> HIDE DEF ks
<1>2. PICK f : /\ f[0] = s /\ \A k \in Chans : f[k] = CloseIn(ks, f[k - 1], k)
               /\ t = f[MaxChans]
  BY CloseRounds
<1>3. s \in D
  BY DEF Ends
<1>4. ASSUME NEW k \in 1 .. MaxChans, f[k - 1] \in D PROVE f[k] \in D
  <2> DEFINE a == f[k - 1]
             b == f[k]
  <2>1. a \in PeerStates /\ Ends(s, a) /\ k \in Chans /\ b = CloseIn(ks, a, k)
    BY <1>2, <1>4 DEF Chans
  <2> HIDE DEF a, b
  <2>2. b \in PeerStates /\ Ends(a, b)
    BY <2>1, CloseEnds
  <2>3. Ends(s, b)
    BY <2>1, <2>2 DEF Ends
  <2> QED BY <2>2, <2>3 DEF b
<1>5. f[MaxChans] \in D
  <2> HIDE DEF D
  <2> QED BY <1>2, <1>3, <1>4, ConstantsAssumption, RoundsKeep
<1>6. t \in PeerStates /\ Ends(s, t)
  BY <1>2, <1>5
<1> HIDE DEF t
<1>7. /\ r.sctp = "disconnected" /\ r.wire = <<>> /\ r.sendq = <<>> /\ ~r.task /\ r.todo = {} /\ ~r.flush
      /\ r.stopped = t.stopped /\ r.chan = t.chan
  BY <1>6 DEF PeerStates
<1> HIDE DEF r
<1>8. Line(r) = <<>>
  BY <1>7 DEF Line
<1>9. Dead(r) /\ Ends(s, r)
  BY <1>6, <1>7, <1>8 DEF Dead, Ends
<1> QED BY <1>1, <1>9

\* After the association nothing is owed: unless it broke down, one peer had stopped and
\* had nothing left to send.
LEMMA EndMails ==
  ASSUME NEW p \in Peers, NEW s, NEW r, NEW o, NEW x, NEW sn \in SentSeqs, NEW l, NEW u,
         Mails(p, s, o, sn, l), Ends(s, r), Ends(o, x), Line(r) = <<>>, Line(x) = <<>>,
         ~u => ~l /\ o.stopped /\ Data(Line(o)) = {}
  PROVE  Mails(p, r, x, sn, u)
<1> DEFINE q == Other(p)
<1>1. /\ GotOK(p, s, sn) /\ GotOK(q, o, sn) /\ (~l => ArriveOK(q, o, s, sn))
  BY DEF Mails, Mail
<1>2. \A n \in DOMAIN sn : sn[n].k \in Chans
  BY SentType
<1> HIDE DEF q
<1>3. Data(Line(r)) = {} /\ Data(Line(x)) = {}
  BY DEF Data
<1>4. CarriedOK(p, r, sn) /\ CarriedOK(q, x, sn)
  BY <1>3 DEF CarriedOK
<1>5. GotOK(p, r, sn) /\ GotOK(q, x, sn)
  BY <1>1 DEF GotOK, Ends
<1>6. ~u => ArriveOK(p, r, x, sn)
  BY DEF ArriveOK, Misses, Ends
<1>7. ~u => ArriveOK(q, x, r, sn)
  BY <1>1, <1>2 DEF ArriveOK, Misses, Ends
<1> QED BY <1>4, <1>5, <1>6, <1>7 DEF Mails, Mail, q

LEMMA EndStep ==
  ASSUME IInv, NInv, NEW p \in Peers, \A e \in Peers : peer'[e] = Disconnect(peer[e]), sent' = sent,
         ~lost' => ~lost /\ peer[Other(p)].stopped /\ Data(Line(peer[Other(p)])) = {}
  PROVE  NInv'
<1> DEFINE q == Other(p)
           s == peer[p]
           o == peer[q]
           r == peer'[p]
           x == peer'[q]
<1>1. q \in Peers /\ Other(q) = p /\ \A e \in Peers : e = p \/ e = q
  BY OtherPeer
<1>2. s \in PeerStates /\ o \in PeerStates /\ sent \in SentSeqs
  BY <1>1 DEF IInv, SentSeqs
<1>3. \A e \in Peers : Dead(peer'[e]) /\ Ends(peer[e], peer'[e])
  BY <1>1, <1>2, DisconnectEnds
<1>4. Mails(p, s, o, sent, lost)
  BY InvHas
<1>5. Ends(s, r) /\ Ends(o, x) /\ Line(r) = <<>> /\ Line(x) = <<>> /\ r.sctp = "disconnected"
  BY <1>1, <1>3 DEF Dead
<1>6. Ended'
  BY <1>5 DEF Ended
<1> HIDE DEF s, o, r, x, q
<1>7. Mails(p, r, x, sent, lost')
  BY <1>2, <1>4, <1>5, EndMails DEF o, q
<1>8. \A e \in Peers : Mail(e, peer'[e], peer'[Other(e)], sent', lost')
  BY <1>1, <1>7 DEF Mails, r, x, q
<1> QED BY <1>3, <1>6, <1>8 DEF NInv

\* The shutdown is all that is left.
LEMMA ShutdownLast ==
  ASSUME NEW o \in PeerStates, ShutOK(o), o.wire # <<>>, Head(o.wire).type = "shutdown"
  PROVE  o.stopped /\ Data(Line(o)) = {}
<1>1. o.wire \in Seq(AllMessages)
  BY LineType
<1>2. o.wire[1].type = "shutdown" /\ 1 \in DOMAIN o.wire
  <2> DEFINE w == o.wire
  <2>1. w \in Seq(AllMessages) /\ w # <<>> /\ Head(w).type = "shutdown"
    BY <1>1
  <2> HIDE DEF w
  <2>2. w[1].type = "shutdown" /\ 1 \in DOMAIN w
    BY <2>1
  <2> QED BY <2>2 DEF w
<1>3. Len(o.wire) = 1 /\ o.shut
  BY <1>2 DEF ShutOK
<1>4. o.stopped /\ o.sendq = <<>>
  BY <1>3 DEF ShutOK
<1>5. Line(o) = o.wire
  <2> DEFINE w == o.wire
  <2> HIDE DEF w
  <2>1. w \in Seq(AllMessages)
    BY <1>1 DEF w
  <2>2. w \o <<>> = w
    BY <2>1
  <2> QED BY <1>4, <2>2 DEF Line, w
<1>6. DOMAIN o.wire = {1}
  BY <1>1, <1>3
<1>7. \A j \in DOMAIN Line(o) : Line(o)[j].type # "data"
  BY <1>2, <1>5, <1>6
<1> QED BY <1>4, <1>7 DEF Data

LEMMA StrayLose ==
  ASSUME IInv, NInv, Lose
  PROVE  NInv'
<1>1. \A e \in Peers : peer'[e] = Disconnect(peer[e])
  BY DEF Lose
<1>2. "a" \in Peers /\ sent' = sent /\ lost'
  BY DEF Lose, Peers
<1> QED BY <1>1, <1>2, EndStep

LEMMA StrayReceive ==
  ASSUME IInv, LInv, NInv, NEW p \in Peers, Receive(p)
  PROVE  NInv'
<1> DEFINE q == Other(p)
           s == peer[p]
           o == peer[q]
           m == Head(o.wire)
           d == [peer EXCEPT ![p] = Disconnect(@), ![q] = Disconnect(@)]
           a == IF m.type = "reset" THEN StreamReset(p, s, m.stream) ELSE ForwardMessage(p, s, m)
           b == Upcall([o EXCEPT !.wire = Tail(@)])
<1>1. q \in Peers /\ q # p /\ Other(q) = p /\ \A e \in Peers : e = p \/ e = q
  BY DEF Peers, Other
<1>2. o.wire # <<>> /\ s.sctp = "connected" /\ sent' = sent /\ lost' = lost
  BY DEF Receive, CanReceive
<1>3. ~Ended
  BY <1>2, NotEnded
<1>4. /\ s \in PeerStates /\ o \in PeerStates /\ Base(s) /\ Base(o) /\ sent \in SentSeqs
      /\ Both(p, s, o) /\ Mails(p, s, o, sent, lost) /\ StreamOK(s) /\ peer \in [Peers -> PeerStates]
  BY <1>3, Midst, LowPeer DEF OK, IInv
<1>5. \/ m.type = "shutdown" /\ peer' = d
      \/ m.type # "shutdown" /\ peer' = [peer EXCEPT ![p] = a, ![q] = b]
  <2> DEFINE z == [peer EXCEPT ![p] = a, ![q] = b]
  <2>1. peer' = IF m.type = "shutdown" THEN d ELSE z
    BY Zenon DEF Receive
  <2> HIDE DEF m, z, d
  <2> QED BY <2>1 DEF z
<1>6. CASE m.type = "shutdown" /\ peer' = d
  <2>1. peer'[p] = Disconnect(peer[p]) /\ peer'[q] = Disconnect(peer[q])
    <3> HIDE DEF q
    <3> QED BY <1>1, <1>4, <1>6
  <2>2. \A e \in Peers : peer'[e] = Disconnect(peer[e])
    <3> HIDE DEF q
    <3> QED BY <1>1, <2>1
  <2>3. o.stopped /\ Data(Line(o)) = {}
    BY <1>2, <1>4, <1>6, ShutdownLast DEF Base, BaseBut
  <2> QED BY <1>2, <2>2, <2>3, EndStep
<1>7. CASE m.type # "shutdown" /\ peer' = [peer EXCEPT ![p] = a, ![q] = b]
  <2>1. m \in Messages
    <3>1. o.wire \in Seq(Messages \cup {Shutdown})
      BY <1>4 DEF PeerStates
    <3>2. m \in Messages \cup {Shutdown}
      <4> HIDE DEF o
      <4> QED BY <1>2, <3>1
    <3>3. Shutdown.type = "shutdown"
      BY DEF Shutdown, Msg
    <3> HIDE DEF m
    <3> QED BY <1>7, <3>2, <3>3
  <2>2. b \in PeerStates /\ Stays(o, b) /\ Takes(Line(o), Line(b), m)
    BY <1>2, <1>4, UpcallTakes
  <2> HIDE DEF b, m, s, o
  <2>3. Arrives(p, s, o, b, m)
    BY <1>4, <2>2 DEF Arrives
  <2>4. Both(p, a, b) /\ Mails(p, a, b, sent, lost) /\ a.sctp = "connected"
    <3>1. CASE m.type = "reset"
      <4> DEFINE r == StreamReset(p, s, m.stream)
      <4>1. Both(p, r, b) /\ Mails(p, r, b, sent, lost) /\ r.sctp = "connected"
        BY <1>2, <1>4, <2>1, <2>3, <3>1, ResetArrives
      <4>2. a = r
        BY <3>1
      <4> HIDE DEF a, r
      <4> QED BY <4>1, <4>2
    <3>2. CASE m.type # "reset"
      <4> DEFINE r == ForwardMessage(p, s, m)
      <4>1. m.type \in {"open", "ack", "data"}
        BY <2>1, <3>2 DEF Messages
      <4>2. Both(p, r, b) /\ Mails(p, r, b, sent, lost) /\ r.sctp = s.sctp
        <5>1. CASE m.type = "open"
          BY <1>2, <1>4, <2>1, <2>2, <2>3, <5>1, OpenArrives
        <5>2. CASE m.type \in {"ack", "data"}
          BY <1>2, <1>4, <2>1, <2>2, <2>3, <5>2, HearsArrives
        <5> QED BY <4>1, <5>1, <5>2
      <4>3. a = r
        BY <3>2
      <4> HIDE DEF a, r
      <4> QED BY <1>2, <4>2, <4>3
    <3> QED BY <3>1, <3>2
  <2> HIDE DEF a
  <2>5. b.sctp # "disconnected"
    <3>1. b.sctp = o.sctp
      BY <2>2 DEF Stays, Rest
    <3>2. o.sctp # "disconnected"
      BY <1>1, <1>3 DEF Ended, o
    <3> QED BY <3>1, <3>2
  <2> QED BY <1>2, <1>7, <2>4, <2>5, TwoSteps
<1> QED BY <1>5, <1>6, <1>7

-----------------------------------------------------------------------------
(* The invariant.                                                          *)

LEMMA NothingYet ==
  ASSUME NEW q, NEW r, NEW i, NEW v, NEW S, DOMAIN q = {}, DOMAIN r = {},
         v.ko = 0, v.kx = 0, ~v.bo, ~v.lo, ~v.lx
  PROVE  Stream(q, r, i, v, S)
<1>1. Spoken(q, i, v.kx) /\ Answered(r, i, v.ko, v.bo) /\ Meant(q, r, i, v, S)
  BY DEF Spoken, Answered, Meant, Has
<1>2. Joined(q, r, i, v)
  BY DEF Joined, OpenIsNew, OwnerLives, OpenLives, OtherWaits, OtherLives, OwnerWaits
<1> QED BY <1>1, <1>2 DEF Stream

LEMMA StrayInit == Init => NInv
<1> SUFFICES ASSUME Init PROVE NInv
  OBVIOUS
<1> DEFINE s == NewPeer
<1>1. \A p \in Peers : peer[p] = s /\ Other(p) \in Peers
  BY DEF Init, Peers, Other
<1>2. sent = <<>>
  BY DEF Init
<1>3. \A k \in Chans : LET c == s.chan[k] IN
        c.kind = "none" /\ ~c.bound /\ ~c.closed /\ ~c.byApp /\ c.got = {}
  BY DEF NewPeer, NewChan
<1>4. /\ s.sctp = "connecting" /\ s.unassigned = <<>> /\ s.sendq = <<>> /\ s.wire = <<>>
      /\ ~s.stopped /\ ~s.task /\ s.todo = {} /\ \A i \in Streams : s.reg[i] = 0
  BY DEF NewPeer
<1> HIDE DEF s
<1>5. Line(s) = <<>> /\ DOMAIN Line(s) = {}
  BY <1>4 DEF Line
<1>6. Data(Line(s)) = {}
  BY <1>5 DEF Data
<1>7. ~Ended
  BY <1>1, <1>4 DEF Ended
<1>8. \A p \in Peers : Mail(p, s, s, sent, lost)
  <2>1. DOMAIN sent = {}
    BY <1>2
  <2> QED BY <1>3, <1>6, <2>1 DEF Mail, CarriedOK, GotOK, ArriveOK
<1>9. ASSUME NEW p \in Peers, NEW i \in Streams PROVE Fit(p, s, s, i, Said(s, s))
  <2> DEFINE v == View(s, s, i)
  <2>1. v.ko = 0 /\ v.kx = 0 /\ ~v.bo /\ ~v.lo /\ ~v.lx
    BY <1>4, ViewFields DEF Held, InUse
  <2> HIDE DEF v
  <2>2. Stream(Line(s), Line(s), i, v, Said(s, s))
    BY <1>5, <2>1, NothingYet
  <2> QED BY <2>2 DEF Fit, v
<1>10. Local(s)
  <2>1. \A k \in Chans : ChanOK(s, k)
    BY <1>3 DEF ChanOK
  <2>2. \A i \in Streams : RegisteredOK(s, i)
    BY <1>4 DEF RegisteredOK
  <2> QED BY <1>4, <2>1, <2>2 DEF Local
<1>11. Unknown(s, s) /\ ClosedOK(s, s) /\ \A p \in Peers : Owns(p, s)
  BY <1>3, <1>4, <1>5 DEF Unknown, ClosedOK, Owns
<1>12. \A p \in Peers : Alive(p, s, s)
  BY <1>9, <1>10, <1>11 DEF Alive
<1> QED BY <1>1, <1>7, <1>8, <1>12 DEF NInv

LEMMA StrayNext ==
  ASSUME ~MayRace, IInv, LInv, NInv, [Next]_vars
  PROVE  NInv'
<1>1. CASE UNCHANGED vars
  <2>1. peer' = peer /\ sent' = sent /\ lost' = lost
    BY <1>1 DEF vars
  <2>2. Ended' <=> Ended
    BY <2>1 DEF Ended
  <2> QED BY <2>1, <2>2 DEF NInv
<1>2. ASSUME NEW p \in Peers, Application(p) PROVE NInv'
  <2>1. ~Ended
    BY <1>2 DEF Application
  <2> QED BY <1>2, <2>1, StrayCreate, StrayClosePeer, StraySend, StrayClose, StrayThreshold DEF Application
<1>3. ASSUME NEW p \in Peers, Processors(p) PROVE NInv'
  BY <1>3, StrayConnect, StrayOpen, StrayFlush DEF Processors
<1> QED BY <1>1, <1>2, <1>3, StrayReceive, StrayLose DEF Next

\* On every stream the two ends, and all that is on its way between them, fit: what the owner
\* has sent is the rest of one channel and then the OPEN of the next, what the other peer has
\* sent is for the channel the owner has there, and every reset is for a channel an
\* application has closed. Applications neither create nor close channels while
\* openDataChannels is running.
THEOREM StraysInvariant ==
  ASSUME ~MayRace
  PROVE  Spec => [](IInv /\ LInv /\ NInv)
<1>1. Init => IInv /\ LInv /\ NInv
  BY InitGood, LowInit, StrayInit
<1>2. IInv /\ LInv /\ NInv /\ [Next]_vars => IInv' /\ LInv' /\ NInv'
  BY NextKeeps, LowNext, StrayNext
<1> QED BY <1>1, <1>2, PTL DEF Spec

\* However identifiers are used again, and whichever peer hands them out, what a channel
\* receives was sent on the same channel at the other peer.
THEOREM NothingStrays ==
  ASSUME ~MayRace
  PROVE  Spec => []NoStray
<1>1. NInv => NoStray
  BY DEF NInv, Mail, GotOK, NoStray
<1> QED BY <1>1, StraysInvariant, PTL

\* A reset finds only channels that were closed by an application, at one end or the other:
\* no channel is closed because its identifier was another's before.
THEOREM ChannelsStayOpen ==
  ASSUME ~MayRace
  PROVE  Spec => []StaysOpen
<1>1. NInv => StaysOpen
  <2> SUFFICES ASSUME NInv, ~Ended, NEW p \in Peers, NEW k \in Chans, peer[p].chan[k].closed
               PROVE  \E q \in Peers : peer[q].chan[k].byApp
    BY DEF StaysOpen
  <2>1. ClosedOK(peer[p], peer[Other(p)]) /\ Other(p) \in Peers
    BY OtherPeer DEF NInv, Alive
  <2> QED BY <2>1 DEF ClosedOK, Said
<1> QED BY <1>1, StraysInvariant, PTL

\* When nothing is on its way, nothing is queued, and neither peer has stopped.
LEMMA QuietPeer ==
  ASSUME IInv, LInv, Quiet, ~Ended, NEW p \in Peers
  PROVE  Line(peer[p]) = <<>> /\ ~peer[p].stopped
<1> DEFINE s == peer[p]
<1>1. s \in PeerStates /\ Base(s) /\ FlushOK(s)
  BY LowPeer
<1>2. s.sctp = "connected" /\ s.wire = <<>> /\ ~s.flush
  BY WiresEmpty DEF Quiet
<1> HIDE DEF s
<1>3. ~Full(s)
  <2>1. {j \in DOMAIN <<>> : <<>>[j].type # "reset"} = {}
    OBVIOUS
  <2>2. InBuffer(s.wire) = 0
    BY <1>2, <2>1, FS_EmptySet DEF InBuffer
  <2> QED BY <2>2, ConstantsAssumption DEF Full
<1>4. s.sendq = <<>> /\ (s.stopped => s.shut)
  BY <1>1, <1>2, <1>3 DEF FlushOK
<1>5. ~s.stopped
  BY <1>1, <1>2, <1>4 DEF Base, BaseBut, ShutOK
<1> QED BY <1>2, <1>4, <1>5 DEF Line, s

LEMMA FreedHolds ==
  ASSUME IInv, LInv, NInv
  PROVE  StreamIsFreed
<1> SUFFICES ASSUME Quiet, ~Ended, NEW p \in Peers, NEW i \in Streams, peer[p].reg[i] # 0,
                    peer[p].chan[peer[p].reg[i]].bound, peer[p].chan[peer[p].reg[i]].closed
             PROVE  FALSE
  BY DEF StreamIsFreed
<1> DEFINE s == peer[p]
           o == peer[Other(p)]
<1>1. Line(s) = <<>> /\ ~s.stopped /\ Line(o) = <<>> /\ ~o.stopped
  BY QuietPeer, OtherPeer
<1>2. Fit(p, s, o, i, Said(s, o))
  BY DEF NInv, Alive
<1>3. Held(s, i) /\ ~InUse(s, i) /\ s.reg[i] # 0
  BY DEF Held, InUse
<1> HIDE DEF s, o
<1>4. ~Has(Line(s), i, "reset") /\ ~Has(Line(o), i, "reset") /\ ~Has(Line(s), i, "open")
      /\ ~Has(Line(o), i, "open")
  BY <1>1 DEF Has
<1>5. CASE i % 2 = Parity(p)
  <2> DEFINE v == View(s, o, i)
  <2>1. Joined(Line(s), Line(o), i, v)
    BY <1>2, <1>5 DEF Fit, Stream
  <2>2. ~v.so /\ ~v.sx /\ v.bo /\ ~v.lo /\ v.ko = s.reg[i]
    BY <1>1, <1>3, ViewFields
  <2> HIDE DEF v
  <2>3. v.kx = v.ko
    BY <1>4, <2>1, <2>2 DEF Joined, OwnerWaits
  <2> QED BY <1>3, <1>4, <2>1, <2>2, <2>3 DEF Joined, OtherWaits
<1>6. CASE i % 2 # Parity(p)
  <2> DEFINE v == View(o, s, i)
  <2>1. Stream(Line(o), Line(s), i, v, Said(s, o))
    BY <1>2, <1>6 DEF Fit
  <2>2. ~v.so /\ ~v.sx /\ ~v.lx /\ v.kx = s.reg[i]
    BY <1>1, <1>3, ViewFields
  <2> HIDE DEF v
  <2>3. v.lo /\ v.bo
    BY <1>3, <1>4, <2>1, <2>2 DEF Stream, Joined, OtherWaits
  <2> QED BY <1>4, <2>1, <2>2, <2>3 DEF Stream, Joined, OwnerWaits
<1> QED BY <1>5, <1>6

\* A channel that was opened and is closed at either end is taken off its stream at both once
\* nothing is on its way: every reset is answered, and no identifier is lost.
THEOREM StreamsAreFreed ==
  ASSUME ~MayRace
  PROVE  Spec => []StreamIsFreed
<1>1. IInv /\ LInv /\ NInv => StreamIsFreed
  BY FreedHolds
<1> QED BY <1>1, StraysInvariant, PTL

LEMMA ArrivesHolds ==
  ASSUME IInv, LInv, NInv
  PROVE  AcceptedArrives
<1> SUFFICES ASSUME Quiet \/ Ended, NEW n \in DOMAIN sent, Owed(n) PROVE FALSE
  BY DEF AcceptedArrives
<1> DEFINE p == sent[n].peer
           s == peer[p]
           o == peer[Other(p)]
<1>1. p \in Peers /\ sent \in SentSeqs
  BY SentType DEF IInv, SentSeqs
<1>2. ~sent[n].lost /\ ~lost /\ Misses(o, sent, n)
  BY DEF Owed, Misses
<1>3. ArriveOK(p, s, o, sent)
  BY <1>1, <1>2 DEF NInv, Mail
<1>4. PICK m \in Data(Line(s)) : m.n = n
  BY <1>2, <1>3 DEF ArriveOK
<1>5. Line(s) = <<>>
  <2>1. CASE Ended
    BY <1>1, <2>1 DEF NInv, Dead
  <2>2. CASE ~Ended
    BY <1>1, <2>2, QuietPeer
  <2> QED BY <2>1, <2>2
<1> QED BY <1>4, <1>5 DEF Data

\* What send accepted on an association that does not break down arrives, unless the
\* receiving application closed the channel or the connection: neither a close of the channel
\* nor one of the connection right after it overtakes it.
THEOREM AcceptedMessagesArrive ==
  ASSUME ~MayRace
  PROVE  Spec => []AcceptedArrives
<1>1. IInv /\ LInv /\ NInv => AcceptedArrives
  BY ArrivesHolds
<1> QED BY <1>1, StraysInvariant, PTL
=============================================================================
