-------------------------- MODULE NegotiationProofs --------------------------
(***************************************************************************)
(* Proofs about Negotiation, for any two peers, any tracks and any number  *)
(* of descriptions, candidates and useless descriptions.                   *)
(***************************************************************************)
EXTENDS Negotiation, FiniteSetTheorems, TLAPS

Messages == Descriptions \cup [type : {"candidate"}, cand : 1 .. MaxCand]

PeerStates ==
  [sig : {"stable", "haveLocalOffer", "haveRemoteOffer"},
   role : {"actpass", "active", "passive"},
   local : Descriptions \cup {NoDesc}, current : Descriptions \cup {NoDesc},
   remote : Descriptions \cup {NoDesc}, remoteCands : SUBSET (1 .. MaxCand),
   chans : BOOLEAN, tracks : SUBSET Tracks, gathering : {"new", "inProgress", "complete"},
   found : 0 .. MaxCand, num : 0 .. MaxDesc, out : Seq(Messages),
   hxRemote : BOOLEAN, refused : Nat, rejected : BOOLEAN]

TypeInv ==
  /\ peer \in [Peers -> PeerStates]
  /\ bad \in 0 .. MaxBad /\ glare \in BOOLEAN

\* An operation never leaves a peer with an offer it has not answered, and a
\* candidate never meets a peer without a remote description.
StateOK(s) ==
  /\ s.sig # "haveRemoteOffer"
  /\ s.refused = 0
  /\ s.gathering = "new" => s.found = 0
  /\ s.hxRemote => s.remote # NoDesc \/ s.rejected

-----------------------------------------------------------------------------
(* What holds between a peer s and the peer t its messages go to.          *)

IsDescription(m) == m.type # "candidate"

\* The role s has comes from a description of t; the answers of s tell it.
RoleOK(s, t) ==
  /\ \A i \in 1 .. Len(s.out) : IsDescription(s.out[i]) => s.local # NoDesc
  /\ \A i \in 1 .. Len(s.out) : s.out[i].type = "answer" => s.out[i].role = s.role
  /\ s.role # "actpass" => t.local # NoDesc

\* The first message t gets from s is a description.
FirstOK(s, t) ==
  ~t.hxRemote =>
    \/ s.out = <<>> /\ s.gathering = "new"
    \/ s.out # <<>> /\ IsDescription(s.out[1])

\* Every candidate of s is under way to t, or t has it.
CandOK(s, t) ==
  \A c \in 1 .. s.found :
    \/ \E i \in 1 .. Len(s.out) :
         IF s.out[i].type = "candidate" THEN s.out[i].cand = c ELSE c \in s.out[i].cands
    \/ c \in t.remoteCands
    \/ t.rejected

Count(out, type) == Cardinality({i \in 1 .. Len(out) : out[i].type = type})

\* Answers s is going to get, and whether it waits for one.
Expected(s, t) == Count(s.out, "offer") + Count(t.out, "answer")
Waits(s) == IF s.sig = "haveLocalOffer" THEN 1 ELSE 0

\* The local description of s is the last one it sent.
LatestOK(s, t) ==
  \/ /\ \A i \in 1 .. Len(s.out) : ~IsDescription(s.out[i])
     /\ s.local # NoDesc => t.remote = s.local
  \/ \E i \in 1 .. Len(s.out) :
       s.out[i] = s.local /\ \A j \in i + 1 .. Len(s.out) : ~IsDescription(s.out[j])

\* Nothing of the data channels is left to negotiate.
Settled(s) == s.sig = "stable" /\ s.chans => s.local # NoDesc /\ "app" \in s.local.lines

\* A peer that waits is going to get an answer. One that expects more answers
\* than it waits for has rolled an offer back; one that does not has not, and
\* then its local description is the last one it sent, with its channels.
PairOK(s, t) ==
  /\ Expected(s, t) >= Waits(s)
  /\ Expected(s, t) = Waits(s) =>
       /\ LatestOK(s, t)
       /\ Settled(s)

\* The roles of s and t are opposite, unless offers crossed (g).
OppositeOK(s, t, g) == ~g /\ s.role # "actpass" => s.role # t.role

LinkOK(s, t) == StateOK(s) /\ RoleOK(s, t) /\ FirstOK(s, t) /\ CandOK(s, t)

DirectionOK(s, t, g) ==
  /\ LinkOK(s, t) /\ OppositeOK(s, t, g)
  /\ ~s.rejected /\ ~t.rejected => PairOK(s, t)

IInv ==
  /\ TypeInv
  /\ \A p \in Peers : DirectionOK(peer[p], peer[Other(p)], glare)

-----------------------------------------------------------------------------
(* The two peers, and the descriptions.                                    *)

LEMMA OtherPeer ==
  /\ \A p \in Peers : Other(p) \in Peers /\ Other(p) # p /\ Other(Other(p)) = p
  /\ \A p, q \in Peers : q # p => q = Other(p)
BY ConstantsAssumption DEF Other

LEMMA DescriptionFacts ==
  /\ NoDesc \notin Descriptions
  /\ \A d \in Descriptions :
       /\ d.type \in {"offer", "answer"} /\ d.role \in {"actpass", "active", "passive"}
       /\ d.lines \in SUBSET (Tracks \cup {"app"}) /\ d.cands \in SUBSET (1 .. MaxCand)
       /\ d.type = "answer" => d.role # "actpass"
       /\ d.type # "candidate" /\ IsDescription(d)
  /\ \A m \in Messages : IF m.type = "candidate" THEN m.cand \in 1 .. MaxCand ELSE m \in Descriptions
  /\ \A m \in Messages : ~IsDescription(m) => m.type = "candidate"
BY DEF Descriptions, NoDesc, Messages, IsDescription

\* What making a description leaves alone.
Kept(s, r) ==
  /\ r.role = s.role /\ r.remote = s.remote /\ r.remoteCands = s.remoteCands
  /\ r.chans = s.chans /\ r.found = s.found /\ r.hxRemote = s.hxRemote
  /\ r.refused = s.refused /\ r.rejected = s.rejected

\* r is s after it has made a description of this type.
Made(s, r, type) ==
  /\ r \in PeerStates /\ Kept(s, r)
  /\ r.local \in Descriptions /\ r.local.type = type
  /\ type = "answer" => r.local.role = s.role
  /\ r.sig = (IF type = "offer" THEN "haveLocalOffer" ELSE "stable")
  /\ r.out = Append(s.out, r.local) /\ r.gathering # "new"

LEMMA AppliedLocal ==
  ASSUME NEW s \in PeerStates, NEW type \in {"offer", "answer"}, s.num + 1 <= MaxDesc,
         type = "answer" => s.role # "actpass"
  PROVE  Made(s, ApplyLocal(s, type), type) /\ ApplyLocal(s, type).num = s.num + 1
<1> DEFINE d == NewDescription(s, type)
           u == [s EXCEPT !.local = d, !.current = s.local, !.num = d.num,
                          !.sig = IF type = "offer" THEN "haveLocalOffer" ELSE "stable",
                          !.out = Append(@, d)]
           r == [u EXCEPT !.gathering = IF @ = "new" THEN "inProgress" ELSE @]
<1>1. ApplyLocal(s, type) = r
  BY DEF ApplyLocal, GatherLocalCandidates
<1>2. s.num + 1 \in 1 .. MaxDesc
  BY ConstantsAssumption DEF PeerStates
<1>3. 1 .. s.found \subseteq 1 .. MaxCand
  BY ConstantsAssumption DEF PeerStates
<1>4. LocalLines(s, type) \subseteq Tracks \cup {"app"}
  BY DescriptionFacts DEF LocalLines, PeerStates
<1>5. /\ d \in Descriptions /\ d.type = type /\ d.num = s.num + 1 /\ d.lines = LocalLines(s, type)
      /\ type = "answer" => d.role = s.role
  BY <1>2, <1>3, <1>4 DEF NewDescription, Descriptions, PeerStates
<1> HIDE DEF d
<1>6. Append(s.out, d) \in Seq(Messages)
  BY <1>5 DEF PeerStates, Messages
<1>7. d.num \in 0 .. MaxDesc
  BY <1>2, <1>5
<1>8. u \in PeerStates
  BY <1>5, <1>6, <1>7 DEF PeerStates
<1>9. /\ u.local = d /\ u.num = d.num /\ u.out = Append(s.out, d)
      /\ u.sig = IF type = "offer" THEN "haveLocalOffer" ELSE "stable"
      /\ Kept(s, u)
  BY DEF PeerStates, Kept
<1> HIDE DEF u
<1>10. r \in PeerStates /\ r.gathering # "new"
  BY <1>8 DEF PeerStates
<1>11. /\ r.local = u.local /\ r.num = u.num /\ r.out = u.out /\ r.sig = u.sig
       /\ Kept(u, r)
  BY <1>8 DEF PeerStates, Kept
<1> HIDE DEF r
<1> QED BY <1>1, <1>5, <1>9, <1>10, <1>11 DEF Made, Kept
LEMMA MadeOffer ==
  ASSUME NEW s \in PeerStates, s.num + 1 <= MaxDesc
  PROVE  MakeOffer(s) = s \/ Made(s, MakeOffer(s), "offer")
BY AppliedLocal DEF MakeOffer

LEMMA Renegotiated ==
  ASSUME NEW s \in PeerStates, s.num + 1 <= MaxDesc
  PROVE  \/ Renegotiate(s) = s /\ Settled(s)
         \/ s.sig = "stable" /\ Made(s, Renegotiate(s), "offer")
<1>1. CASE s.sig # "stable" \/ ~NegotiationNeeded(s)
  <2>1. Renegotiate(s) = s
    BY <1>1 DEF Renegotiate
  <2>2. Settled(s)
    BY <1>1 DEF Settled, NegotiationNeeded
  <2> QED BY <2>1, <2>2
<1>2. CASE s.sig = "stable" /\ NegotiationNeeded(s)
  <2>1. Renegotiate(s) = MakeOffer(s)
    BY <1>2 DEF Renegotiate
  <2>2. CASE LocalLines(s, "offer") = {}
    <3>1. ~s.chans
      BY <2>2 DEF LocalLines
    <3> QED BY <2>1, <2>2, <3>1 DEF MakeOffer, Settled
  <2>3. CASE LocalLines(s, "offer") # {}
    BY <1>2, <2>1, <2>3, AppliedLocal DEF MakeOffer
  <2> QED BY <2>2, <2>3
<1> QED BY <1>1, <1>2

LEMMA RolledBack ==
  ASSUME NEW s \in PeerStates
  PROVE  /\ Rollback(s) \in PeerStates /\ Kept(s, Rollback(s)) /\ Rollback(s).num = s.num
         /\ Rollback(s).out = s.out /\ Rollback(s).sig = "stable"
         /\ Rollback(s).gathering = s.gathering
         /\ s.local # NoDesc => Rollback(s).local # NoDesc
BY DescriptionFacts DEF PeerStates, Rollback, Kept

LEMMA ProcessedRemote ==
  ASSUME NEW s \in PeerStates, NEW d \in Descriptions
  PROVE  /\ ProcessRemote(s, d) \in PeerStates
         /\ ProcessRemote(s, d).remote = d /\ ProcessRemote(s, d).role = RemoteRole(s, d)
         /\ ProcessRemote(s, d).role # "actpass"
         /\ ProcessRemote(s, d).remoteCands = s.remoteCands \cup d.cands
         /\ ProcessRemote(s, d).sig = IF d.type = "offer" THEN "haveRemoteOffer" ELSE "stable"
         /\ ProcessRemote(s, d).local = s.local /\ ProcessRemote(s, d).num = s.num
         /\ ProcessRemote(s, d).out = s.out /\ ProcessRemote(s, d).gathering = s.gathering
         /\ ProcessRemote(s, d).chans = s.chans /\ ProcessRemote(s, d).found = s.found
         /\ ProcessRemote(s, d).hxRemote = s.hxRemote /\ ProcessRemote(s, d).refused = s.refused
         /\ ProcessRemote(s, d).rejected = s.rejected
<1> DEFINE role == RemoteRole(s, d)
           tracks == s.tracks \cup (d.lines \ {"app"})
           cands == s.remoteCands \cup d.cands
           sig == IF d.type = "offer" THEN "haveRemoteOffer" ELSE "stable"
           r == [s EXCEPT !.remote = d, !.role = role, !.remoteCands = cands, !.tracks = tracks, !.sig = sig]
<1>1. ProcessRemote(s, d) = r
  BY DEF ProcessRemote, PeerStates
<1>2. role \in {"active", "passive"}
  BY DEF RemoteRole, PeerStates
<1>3. tracks \in SUBSET Tracks /\ cands \in SUBSET (1 .. MaxCand)
  BY DescriptionFacts DEF PeerStates
<1>4. sig \in {"stable", "haveLocalOffer", "haveRemoteOffer"}
  OBVIOUS
<1> HIDE DEF role, tracks, cands, sig
<1>5. r \in PeerStates
  BY <1>2, <1>3, <1>4 DEF PeerStates
<1>6. /\ r.remote = d /\ r.role = role /\ r.remoteCands = cands /\ r.sig = sig
      /\ r.local = s.local /\ r.num = s.num /\ r.out = s.out /\ r.gathering = s.gathering
      /\ r.chans = s.chans /\ r.found = s.found /\ r.hxRemote = s.hxRemote
      /\ r.refused = s.refused /\ r.rejected = s.rejected
  BY DEF PeerStates
<1> HIDE DEF r
<1> QED BY <1>1, <1>2, <1>5, <1>6 DEF role, cands, sig
-----------------------------------------------------------------------------
(* setRemoteDescription as a whole.                                        *)

\* r is s after it has accepted description d.
Heard(s, r, d) ==
  /\ r \in PeerStates /\ r.remote = d /\ r.role = RemoteRole(s, d) /\ r.role # "actpass"
  /\ r.remoteCands = s.remoteCands \cup d.cands /\ r.hxRemote = TRUE
  /\ r.chans = s.chans /\ r.found = s.found /\ r.refused = s.refused /\ r.rejected = s.rejected

\* An offer is answered, and another offer may follow the answer.
LEMMA ReceivedOffer ==
  ASSUME NEW s \in PeerStates, NEW d \in Descriptions, s.num + 2 <= MaxDesc,
         Acceptable(s, d), d.type = "offer"
  PROVE  LET r == SetRemoteDescription(s, d) IN
         /\ Heard(s, r, d) /\ r.gathering # "new" /\ r.local # NoDesc
         /\ \E a \in Descriptions :
              /\ a.type = "answer" /\ a.role = r.role
              /\ \/ r.out = Append(s.out, a) /\ r.local = a /\ r.sig = "stable" /\ Settled(r)
                 \/ /\ r.local \in Descriptions /\ r.local.type = "offer" /\ r.sig = "haveLocalOffer"
                    /\ r.out = Append(Append(s.out, a), r.local)
<1> DEFINE t == [s EXCEPT !.hxRemote = TRUE]
           u == IF s.sig = "haveLocalOffer" THEN Rollback(t) ELSE t
           v == ProcessRemote(u, d)
           w == ApplyLocal(v, "answer")
           r == Renegotiate(w)
<1>1. SetRemoteDescription(s, d) = r
  BY DEF SetRemoteDescription, MakeAnswer
<1>2. t \in PeerStates /\ t.hxRemote = TRUE /\ t.num = s.num /\ t.out = s.out /\ t.role = s.role
      /\ t.remoteCands = s.remoteCands /\ t.chans = s.chans /\ t.found = s.found
      /\ t.refused = s.refused /\ t.rejected = s.rejected
  BY DEF PeerStates
<1> HIDE DEF t
<1>3. u \in PeerStates /\ u.hxRemote = TRUE /\ u.num = s.num /\ u.out = s.out /\ u.role = s.role
      /\ u.remoteCands = s.remoteCands /\ u.chans = s.chans /\ u.found = s.found
      /\ u.refused = s.refused /\ u.rejected = s.rejected
  BY <1>2, RolledBack DEF Kept
<1> HIDE DEF u
<1>4. RemoteRole(u, d) = RemoteRole(s, d)
  BY <1>3 DEF RemoteRole
<1>5. /\ Heard(s, v, d) /\ v.num = s.num /\ v.out = s.out
  BY <1>3, <1>4, ProcessedRemote DEF Heard
<1> HIDE DEF v
<1>6. s.num \in Nat /\ MaxDesc \in Nat
  BY ConstantsAssumption DEF PeerStates
<1>7. Made(v, w, "answer") /\ w.num = s.num + 1
  BY <1>5, <1>6, AppliedLocal DEF Heard
<1> HIDE DEF w
<1>8. \/ r = w /\ Settled(w)
      \/ Made(w, r, "offer")
  <2>1. w \in PeerStates /\ w.num + 1 <= MaxDesc
    BY <1>6, <1>7 DEF Made
  <2> QED BY <2>1, Renegotiated
<1> HIDE DEF r
<1>9. w.local \in Descriptions /\ w.local.type = "answer" /\ w.local.role = v.role
      /\ w.out = Append(s.out, w.local) /\ w.sig = "stable" /\ w.gathering # "new" /\ Heard(s, w, d) /\ w.role = v.role
  BY <1>5, <1>7 DEF Made, Kept, Heard
<1>10. CASE r = w /\ Settled(w)
  BY <1>1, <1>9, <1>10, DescriptionFacts
<1>11. CASE Made(w, r, "offer")
  <2>1. Heard(s, r, d) /\ r.role = v.role /\ r.gathering # "new" /\ r.local \in Descriptions
        /\ r.local.type = "offer" /\ r.sig = "haveLocalOffer" /\ r.out = Append(Append(s.out, w.local), r.local)
    BY <1>9, <1>11 DEF Made, Kept, Heard
  <2> QED BY <1>1, <1>9, <2>1, DescriptionFacts
<1> QED BY <1>8, <1>10, <1>11

\* An answer ends the wait; an offer may follow it.
LEMMA ReceivedAnswer ==
  ASSUME NEW s \in PeerStates, NEW d \in Descriptions, s.num + 2 <= MaxDesc,
         Acceptable(s, d), d.type = "answer"
  PROVE  LET r == SetRemoteDescription(s, d) IN
         /\ s.sig = "haveLocalOffer" /\ Heard(s, r, d)
         /\ \/ /\ r.out = s.out /\ r.local = s.local /\ r.sig = "stable" /\ Settled(r)
               /\ r.gathering = s.gathering
            \/ /\ r.local \in Descriptions /\ r.local.type = "offer" /\ r.sig = "haveLocalOffer"
               /\ r.out = Append(s.out, r.local) /\ r.gathering # "new"
<1> DEFINE t == [s EXCEPT !.hxRemote = TRUE]
           v == ProcessRemote(t, d)
           r == Renegotiate(v)
<1>1. SetRemoteDescription(s, d) = r /\ s.sig = "haveLocalOffer"
  BY DEF SetRemoteDescription, Acceptable
<1>2. t \in PeerStates /\ t.hxRemote = TRUE /\ t.num = s.num /\ t.out = s.out /\ t.role = s.role
      /\ t.remoteCands = s.remoteCands /\ t.chans = s.chans /\ t.found = s.found
      /\ t.refused = s.refused /\ t.rejected = s.rejected
      /\ t.local = s.local /\ t.gathering = s.gathering
  BY DEF PeerStates
<1> HIDE DEF t
<1>3. RemoteRole(t, d) = RemoteRole(s, d)
  BY <1>2 DEF RemoteRole
<1>4. /\ Heard(s, v, d) /\ v.num = s.num /\ v.out = s.out /\ v.local = s.local
      /\ v.gathering = s.gathering /\ v.sig = "stable"
  BY <1>2, <1>3, ProcessedRemote DEF Heard
<1> HIDE DEF v
<1>5. s.num \in Nat /\ MaxDesc \in Nat
  BY ConstantsAssumption DEF PeerStates
<1>6. \/ r = v /\ Settled(v)
      \/ Made(v, r, "offer")
  BY <1>4, <1>5, Renegotiated DEF Heard
<1> HIDE DEF r
<1>7. CASE r = v /\ Settled(v)
  BY <1>1, <1>4, <1>7
<1>8. CASE Made(v, r, "offer")
  <2>1. Heard(s, r, d)
    BY <1>4, <1>8 DEF Made, Kept, Heard
  <2> QED BY <1>1, <1>4, <1>8, <2>1 DEF Made
<1> QED BY <1>6, <1>7, <1>8
-----------------------------------------------------------------------------
(* Counting messages of a type.                                            *)

LEMMA CountType ==
  ASSUME NEW out \in Seq(Messages), NEW type
  PROVE  /\ IsFiniteSet({i \in 1 .. Len(out) : out[i].type = type})
         /\ Count(out, type) \in Nat
<1>1. IsFiniteSet(1 .. Len(out))
  BY FS_Interval
<1>2. IsFiniteSet({i \in 1 .. Len(out) : out[i].type = type})
  BY <1>1, FS_Subset
<1> QED BY <1>2, FS_CardinalityType DEF Count

LEMMA CountEmpty ==
  ASSUME NEW type
  PROVE  Count(<<>>, type) = 0
<1>1. {i \in 1 .. Len(<<>>) : <<>>[i].type = type} = {}
  OBVIOUS
<1> QED BY <1>1, FS_EmptySet DEF Count

LEMMA CountAppend ==
  ASSUME NEW out \in Seq(Messages), NEW m \in Messages, NEW type
  PROVE  Count(Append(out, m), type) = Count(out, type) + (IF m.type = type THEN 1 ELSE 0)
<1> DEFINE S == {i \in 1 .. Len(out) : out[i].type = type}
           n == Append(out, m)
           T == {i \in 1 .. Len(n) : n[i].type = type}
<1>1. /\ Len(n) = Len(out) + 1 /\ n[Len(out) + 1] = m /\ Len(out) \in Nat
      /\ \A i \in 1 .. Len(out) : n[i] = out[i]
  OBVIOUS
<1>5. IsFiniteSet(S) /\ Cardinality(S) \in Nat
  BY CountType DEF Count
<1>6. Len(out) + 1 \notin S
  BY <1>1
<1>2. IsFiniteSet(S) /\ Cardinality(S) \in Nat /\ Len(out) + 1 \notin S
  BY <1>5, <1>6
<1>7. Count(out, type) = Cardinality(S) /\ Count(Append(out, m), type) = Cardinality(T)
  BY DEF Count
<1> HIDE DEF n, S, T
<1>3. CASE m.type = type
  <2>1. T = S \cup {Len(out) + 1}
    BY <1>1, <1>3 DEF S, T
  <2>2. Cardinality(T) = Cardinality(S) + 1
    BY <1>2, <2>1, FS_AddElement
  <2> QED BY <1>3, <1>7, <2>2
<1>4. CASE m.type # type
  <2>1. T = S
    BY <1>1, <1>4 DEF S, T
  <2> QED BY <1>2, <1>4, <1>7, <2>1
<1> QED BY <1>3, <1>4

LEMMA CountTail ==
  ASSUME NEW out \in Seq(Messages), out # <<>>, NEW type
  PROVE  Count(out, type) = Count(Tail(out), type) + (IF Head(out).type = type THEN 1 ELSE 0)
<1> DEFINE tl == Tail(out)
           S == {i \in 1 .. Len(tl) : tl[i].type = type}
           U == {i \in 2 .. Len(out) : out[i].type = type}
           T == {i \in 1 .. Len(out) : out[i].type = type}
           f == [i \in S |-> i + 1]
<1>1. /\ tl \in Seq(Messages) /\ Len(out) \in Nat /\ Len(out) >= 1 /\ Len(tl) = Len(out) - 1
      /\ Head(out) = out[1] /\ \A i \in 1 .. Len(out) - 1 : tl[i] = out[i + 1]
  OBVIOUS
<1>2. IsFiniteSet(S) /\ Cardinality(S) \in Nat
  BY <1>1, CountType DEF Count
<1> HIDE DEF tl
<1>3. f \in Bijection(S, U)
  <2>1. f \in [S -> U]
    BY <1>1
  <2>2. \A i, j \in S : f[i] = f[j] => i = j
    BY <1>1
  <2>3. \A k \in U : \E i \in S : f[i] = k
    <3> SUFFICES ASSUME NEW k \in U PROVE \E i \in S : f[i] = k
      OBVIOUS
    <3>1. k - 1 \in 1 .. Len(out) - 1 /\ (k - 1) + 1 = k
      BY <1>1
    <3>2. k - 1 \in S
      BY <1>1, <3>1
    <3> QED BY <3>1, <3>2
  <2> QED BY <2>1, <2>2, <2>3 DEF Bijection, Injection, Surjection, IsInjective
<1>4. IsFiniteSet(U) /\ Cardinality(U) = Cardinality(S)
  BY <1>2, <1>3, FS_Bijection DEF ExistsBijection
<1>5. 1 \notin U
  OBVIOUS
<1>8. Count(out, type) = Cardinality(T) /\ Count(Tail(out), type) = Cardinality(S)
  BY DEF Count, tl
<1> HIDE DEF S, T, U
<1>6. CASE Head(out).type = type
  <2>1. T = U \cup {1}
    BY <1>1, <1>6 DEF T, U
  <2>2. Cardinality(T) = Cardinality(U) + 1
    BY <1>4, <1>5, <2>1, FS_AddElement
  <2> QED BY <1>4, <1>6, <1>8, <2>2
<1>7. CASE Head(out).type # type
  <2>1. T = U
    BY <1>1, <1>7 DEF T, U
  <2> QED BY <1>2, <1>4, <1>7, <1>8, <2>1
<1> QED BY <1>6, <1>7
-----------------------------------------------------------------------------
(* One direction at a time: the sender s becomes r, the receiver t v.      *)

\* r has sent, after what s had sent, descriptions only.
Extends(s, r) ==
  /\ Len(s.out) <= Len(r.out) /\ \A i \in 1 .. Len(s.out) : r.out[i] = s.out[i]
  /\ \A i \in Len(s.out) + 1 .. Len(r.out) :
       /\ r.out[i] \in Descriptions
       /\ r.out[i].type = "answer" => r.out[i].role = r.role
  /\ s.local # NoDesc \/ Len(r.out) > Len(s.out) => r.local # NoDesc
  /\ r.gathering = s.gathering \/ Len(r.out) > Len(s.out)
  /\ s.role \in {"actpass", r.role} /\ r.found = s.found

\* v knows all that t knows.
Knows(t, v) ==
  /\ t.local # NoDesc => v.local # NoDesc
  /\ t.hxRemote => v.hxRemote
  /\ t.remoteCands \subseteq v.remoteCands
  /\ t.rejected => v.rejected

LEMMA SenderLink ==
  ASSUME NEW s \in PeerStates, NEW r \in PeerStates, NEW t \in PeerStates, NEW v \in PeerStates,
         LinkOK(s, t), StateOK(r), Extends(s, r), Knows(t, v),
         r.role # "actpass" => v.local # NoDesc
  PROVE  LinkOK(r, v)
<1>1. s.out \in Seq(Messages) /\ r.out \in Seq(Messages) /\ Len(s.out) \in Nat /\ Len(r.out) \in Nat
  BY DEF PeerStates
<1>2. RoleOK(r, v)
  <2> SUFFICES ASSUME NEW i \in 1 .. Len(r.out)
               PROVE  /\ IsDescription(r.out[i]) => r.local # NoDesc
                      /\ r.out[i].type = "answer" => r.out[i].role = r.role
    BY DEF RoleOK
  <2>1. CASE i \in 1 .. Len(s.out)
    <3>1. s.out[i] \in Messages
      BY <1>1, <2>1
    <3>2. s.out[i].type = "answer" => s.out[i].role # "actpass"
      BY <3>1, DescriptionFacts
    <3> QED BY <2>1, <3>2 DEF LinkOK, RoleOK, Extends
  <2>2. CASE i \in Len(s.out) + 1 .. Len(r.out)
    <3>1. Len(r.out) > Len(s.out)
      BY <1>1, <2>2
    <3> QED BY <2>2, <3>1 DEF Extends
  <2> QED BY <1>1, <2>1, <2>2
<1>3. FirstOK(r, v)
  <2> SUFFICES ASSUME ~v.hxRemote
               PROVE  \/ r.out = <<>> /\ r.gathering = "new"
                      \/ r.out # <<>> /\ IsDescription(r.out[1])
    BY DEF FirstOK
  <2>1. \/ s.out = <<>> /\ s.gathering = "new"
        \/ s.out # <<>> /\ IsDescription(s.out[1])
    BY DEF LinkOK, FirstOK, Knows
  <2>2. CASE s.out # <<>> /\ IsDescription(s.out[1])
    <3>1. 1 \in 1 .. Len(s.out)
      BY <1>1, <2>2
    <3> QED BY <1>1, <2>2, <3>1 DEF Extends
  <2>3. CASE s.out = <<>> /\ s.gathering = "new"
    <3>1. CASE Len(r.out) > 0
      <4>1. r.out[1] \in Descriptions
        BY <1>1, <2>3, <3>1 DEF Extends
      <4> QED BY <1>1, <3>1, <4>1, DescriptionFacts
    <3>2. CASE Len(r.out) = 0
      BY <1>1, <2>3, <3>2 DEF Extends
    <3> QED BY <1>1, <3>1, <3>2
  <2> QED BY <2>1, <2>2, <2>3
<1>4. CandOK(r, v)
  <2>1. \A i \in 1 .. Len(s.out) : i \in 1 .. Len(r.out) /\ r.out[i] = s.out[i]
    BY <1>1 DEF Extends
  <2> QED BY <2>1 DEF LinkOK, CandOK, Extends, Knows
<1> QED BY <1>2, <1>3, <1>4 DEF LinkOK

\* The head of what s sent has reached t, which becomes v.
LEMMA TailLink ==
  ASSUME NEW s \in PeerStates, NEW r \in PeerStates, NEW t \in PeerStates, NEW v \in PeerStates,
         LinkOK(s, t), Knows(t, v), v.hxRemote, s.out # <<>>,
         r.out = Tail(s.out), r.local = s.local, r.role = s.role, r.found = s.found, StateOK(r),
         Head(s.out).type = "candidate" => Head(s.out).cand \in v.remoteCands \/ v.rejected,
         Head(s.out).type # "candidate" => Head(s.out).cands \subseteq v.remoteCands \/ v.rejected
  PROVE  LinkOK(r, v)
<1>1. s.out \in Seq(Messages) /\ r.out \in Seq(Messages) /\ Len(s.out) \in Nat /\ Len(s.out) > 0
      /\ Len(r.out) = Len(s.out) - 1 /\ Head(s.out) = s.out[1]
      /\ \A i \in 1 .. Len(s.out) - 1 : r.out[i] = s.out[i + 1]
  BY DEF PeerStates
<1>2. \A i \in 1 .. Len(r.out) : i + 1 \in 1 .. Len(s.out) /\ r.out[i] = s.out[i + 1]
  BY <1>1
<1>3. RoleOK(r, v)
  BY <1>2 DEF LinkOK, RoleOK, Knows
<1>4. FirstOK(r, v)
  BY DEF FirstOK
<1>5. CandOK(r, v)
  <2> SUFFICES ASSUME NEW c \in 1 .. r.found, c \notin v.remoteCands, ~v.rejected
               PROVE  \E i \in 1 .. Len(r.out) :
                        IF r.out[i].type = "candidate" THEN r.out[i].cand = c ELSE c \in r.out[i].cands
    BY DEF CandOK
  <2>1. PICK i \in 1 .. Len(s.out) :
          IF s.out[i].type = "candidate" THEN s.out[i].cand = c ELSE c \in s.out[i].cands
    BY DEF LinkOK, CandOK, Knows
  <2>2. i # 1
    BY <1>1, <2>1
  <2>3. i - 1 \in 1 .. Len(r.out) /\ r.out[i - 1] = s.out[i]
    <3>1. i - 1 \in 1 .. Len(s.out) - 1 /\ (i - 1) + 1 = i
      BY <1>1, <2>2
    <3> QED BY <1>1, <3>1
  <2> QED BY <2>1, <2>3
<1> QED BY <1>3, <1>4, <1>5 DEF LinkOK

LEMMA LastIsLatest ==
  ASSUME NEW r, NEW t, NEW x \in Seq(Messages), r.out = Append(x, r.local), r.local \in Descriptions
  PROVE  LatestOK(r, t)
<1>1. r.out[Len(x) + 1] = r.local /\ Len(r.out) = Len(x) + 1 /\ Len(x) \in Nat
  BY DEF Messages
<1>2. Len(x) + 1 \in 1 .. Len(r.out) /\ Len(x) + 1 + 1 .. Len(r.out) = {}
  BY <1>1
<1> QED BY <1>1, <1>2 DEF LatestOK

LEMMA TailLatest ==
  ASSUME NEW s \in PeerStates, NEW r \in PeerStates, NEW t, NEW v, LatestOK(s, t),
         s.out # <<>>, r.out = Tail(s.out), r.local = s.local,
         IF IsDescription(Head(s.out)) THEN v.remote = Head(s.out) ELSE v.remote = t.remote
  PROVE  LatestOK(r, v)
<1>1. s.out \in Seq(Messages) /\ r.out \in Seq(Messages) /\ Len(s.out) \in Nat /\ Len(s.out) > 0
      /\ Len(r.out) = Len(s.out) - 1 /\ Head(s.out) = s.out[1]
      /\ \A i \in 1 .. Len(s.out) - 1 : r.out[i] = s.out[i + 1]
  BY DEF PeerStates
<1>2. \A i \in 1 .. Len(r.out) : i + 1 \in 1 .. Len(s.out) /\ r.out[i] = s.out[i + 1]
  BY <1>1
<1>3. CASE /\ \A i \in 1 .. Len(s.out) : ~IsDescription(s.out[i])
           /\ s.local # NoDesc => t.remote = s.local
  <2>1. ~IsDescription(Head(s.out))
    BY <1>1, <1>3
  <2> QED BY <1>2, <1>3, <2>1 DEF LatestOK
<1>4. ASSUME NEW i \in 1 .. Len(s.out), s.out[i] = s.local,
             \A j \in i + 1 .. Len(s.out) : ~IsDescription(s.out[j])
      PROVE  LatestOK(r, v)
  <2>1. CASE i = 1
    <3>1. \A j \in 1 .. Len(r.out) : ~IsDescription(r.out[j])
      BY <1>1, <1>2, <1>4, <2>1
    <3>2. s.local = Head(s.out)
      BY <1>1, <1>4, <2>1
    <3>3. s.local # NoDesc => IsDescription(s.local)
      BY DescriptionFacts DEF PeerStates
    <3> QED BY <3>1, <3>2, <3>3 DEF LatestOK
  <2>2. CASE i # 1
    <3>1. i - 1 \in 1 .. Len(r.out) /\ r.out[i - 1] = s.out[i]
      <4>1. i - 1 \in 1 .. Len(s.out) - 1 /\ (i - 1) + 1 = i
        BY <1>1, <2>2
      <4> QED BY <1>1, <4>1
    <3>2. \A j \in (i - 1) + 1 .. Len(r.out) : ~IsDescription(r.out[j])
      <4> SUFFICES ASSUME NEW j \in (i - 1) + 1 .. Len(r.out) PROVE ~IsDescription(r.out[j])
        OBVIOUS
      <4>1. j \in 1 .. Len(r.out) /\ j + 1 \in i + 1 .. Len(s.out)
        BY <1>1
      <4> QED BY <1>2, <1>4, <4>1
    <3> QED BY <1>4, <3>1, <3>2 DEF LatestOK
  <2> QED BY <2>1, <2>2
<1> QED BY <1>3, <1>4 DEF LatestOK
-----------------------------------------------------------------------------
(* Steps of the peer alone: s becomes r, the other peer is t.              *)

LEMMA AloneLinks ==
  ASSUME NEW s \in PeerStates, NEW r \in PeerStates, NEW t \in PeerStates,
         LinkOK(s, t), LinkOK(t, s), StateOK(r), Extends(s, r), Knows(s, r), r.role = s.role
  PROVE  LinkOK(r, t) /\ LinkOK(t, r)
<1>1. Knows(t, t) /\ (r.role # "actpass" => t.local # NoDesc)
  BY DEF Knows, LinkOK, RoleOK
<1>2. LinkOK(r, t)
  BY <1>1, SenderLink
<1>3. Extends(t, t)
  <2>1. Len(t.out) \in Nat BY DEF PeerStates
  <2> QED BY <2>1 DEF Extends
<1>4. t.role # "actpass" => r.local # NoDesc
  BY DEF LinkOK, RoleOK, Knows
<1>5. StateOK(t)
  BY DEF LinkOK
<1>6. LinkOK(t, r)
  BY <1>3, <1>4, <1>5, SenderLink
<1> QED BY <1>2, <1>6

LEMMA MadeExtends ==
  ASSUME NEW s \in PeerStates, NEW r, NEW type \in {"offer", "answer"}, Made(s, r, type)
  PROVE  Extends(s, r) /\ Knows(s, r)
<1>1. s.out \in Seq(Messages) /\ r.local \in Messages /\ r.local \in Descriptions
  BY DEF PeerStates, Made, Messages
<1>2. Len(r.out) = Len(s.out) + 1 /\ r.out[Len(s.out) + 1] = r.local /\ Len(s.out) \in Nat
      /\ \A i \in 1 .. Len(s.out) : r.out[i] = s.out[i]
  BY <1>1 DEF Made
<1>3. r.local # NoDesc /\ r.role = s.role /\ r.found = s.found
      /\ (r.local.type = "answer" => r.local.role = r.role)
  BY <1>1, DescriptionFacts DEF Made, Kept
<1>4. \A i \in Len(s.out) + 1 .. Len(r.out) : r.out[i] = r.local
  BY <1>2
<1>5. Extends(s, r)
  BY <1>1, <1>2, <1>3, <1>4 DEF Extends
<1>6. Knows(s, r)
  BY <1>3 DEF Knows, Made, Kept
<1> QED BY <1>5, <1>6

\* What Expected counts, and how it changes.
LEMMA ExpectedType ==
  ASSUME NEW s \in PeerStates, NEW t \in PeerStates
  PROVE  /\ Count(s.out, "offer") \in Nat /\ Count(s.out, "answer") \in Nat
         /\ Count(t.out, "offer") \in Nat /\ Count(t.out, "answer") \in Nat
         /\ Expected(s, t) \in Nat
<1>1. s.out \in Seq(Messages) /\ t.out \in Seq(Messages)
  BY DEF PeerStates
<1>2. /\ Count(s.out, "offer") \in Nat /\ Count(s.out, "answer") \in Nat
      /\ Count(t.out, "offer") \in Nat /\ Count(t.out, "answer") \in Nat
  BY <1>1, CountType
<1> QED BY <1>2 DEF Expected

LEMMA MadeCounts ==
  ASSUME NEW s \in PeerStates, NEW r, NEW type \in {"offer", "answer"}, Made(s, r, type)
  PROVE  /\ Count(r.out, "offer") = Count(s.out, "offer") + (IF type = "offer" THEN 1 ELSE 0)
         /\ Count(r.out, "answer") = Count(s.out, "answer") + (IF type = "answer" THEN 1 ELSE 0)
<1>1. s.out \in Seq(Messages) /\ r.local \in Messages
      /\ r.local.type = type /\ r.out = Append(s.out, r.local)
  BY DEF PeerStates, Made, Messages
<1> QED BY <1>1, CountAppend

\* An offer made in the stable state.
LEMMA OfferStep ==
  ASSUME NEW s \in PeerStates, NEW r, NEW t \in PeerStates, NEW g,
         LinkOK(s, t), LinkOK(t, s), OppositeOK(s, t, g), OppositeOK(t, s, g),
         ~s.rejected /\ ~t.rejected => PairOK(t, s),
         s.sig = "stable", Made(s, r, "offer")
  PROVE  DirectionOK(r, t, g) /\ DirectionOK(t, r, g)
<1>1. r \in PeerStates /\ Kept(s, r) /\ r.sig = "haveLocalOffer" /\ r.gathering # "new"
      /\ r.local \in Descriptions /\ r.out = Append(s.out, r.local) /\ s.out \in Seq(Messages)
  BY DEF Made, PeerStates
<1>2. StateOK(r)
  BY <1>1 DEF StateOK, Kept, LinkOK
<1>3. LinkOK(r, t) /\ LinkOK(t, r)
  BY <1>1, <1>2, MadeExtends, AloneLinks DEF Kept
<1>4. OppositeOK(r, t, g) /\ OppositeOK(t, r, g)
  BY <1>1 DEF OppositeOK, Kept
<1>5. PairOK(r, t)
  <2>1. LatestOK(r, t)
    BY <1>1, LastIsLatest
  <2>2. Settled(r)
    BY <1>1 DEF Settled
  <2>3. Expected(r, t) >= 1
    <3>1. Count(s.out, "offer") \in Nat /\ Count(t.out, "answer") \in Nat
      BY ExpectedType
    <3>2. Count(r.out, "offer") = Count(s.out, "offer") + 1
      BY MadeCounts
    <3> QED BY <3>1, <3>2 DEF Expected
  <2>4. Waits(r) = 1
    BY <1>1 DEF Waits
  <2> QED BY <2>1, <2>2, <2>3, <2>4 DEF PairOK
<1>6. ASSUME PairOK(t, s) PROVE PairOK(t, r)
  <2>1. Count(r.out, "answer") = Count(s.out, "answer")
    <3>1. Count(s.out, "answer") \in Nat BY ExpectedType
    <3> QED BY <3>1, MadeCounts
  <2>2. Expected(t, r) = Expected(t, s)
    BY <2>1 DEF Expected
  <2>3. LatestOK(t, s) => LatestOK(t, r)
    BY <1>1 DEF LatestOK, Kept
  <2> QED BY <1>6, <2>2, <2>3 DEF PairOK
<1>7. r.rejected = s.rejected
  BY <1>1 DEF Kept
<1> QED BY <1>3, <1>4, <1>5, <1>6, <1>7 DEF DirectionOK

\* Nothing that the direction depends on changes, but tracks and channels.
LEMMA SameStep ==
  ASSUME NEW s \in PeerStates, NEW r \in PeerStates, NEW t \in PeerStates, NEW g,
         DirectionOK(s, t, g), DirectionOK(t, s, g),
         r.out = s.out, r.local = s.local, r.sig = s.sig, r.role = s.role, r.remote = s.remote,
         r.remoteCands = s.remoteCands, r.found = s.found, r.hxRemote = s.hxRemote,
         r.refused = s.refused, r.rejected = s.rejected,
         r.gathering = s.gathering \/ (s.gathering # "new" /\ r.gathering # "new")
  PROVE  /\ LinkOK(r, t) /\ LinkOK(t, r) /\ OppositeOK(r, t, g) /\ OppositeOK(t, r, g)
         /\ ~r.rejected /\ ~t.rejected => PairOK(t, r)
         /\ (Settled(s) => Settled(r)) => DirectionOK(r, t, g)
         /\ DirectionOK(t, r, g)
<1>1. StateOK(r)
  BY DEF DirectionOK, LinkOK, StateOK
<1>2. LinkOK(r, t)
  BY <1>1 DEF DirectionOK, LinkOK, RoleOK, FirstOK, CandOK
<1>3. LinkOK(t, r)
  BY DEF DirectionOK, LinkOK, RoleOK, FirstOK, CandOK
<1>4. OppositeOK(r, t, g) /\ OppositeOK(t, r, g)
  BY DEF DirectionOK, OppositeOK
<1>5. PairOK(t, s) => PairOK(t, r)
  BY DEF PairOK, Expected, LatestOK
<1>6. PairOK(s, t) /\ (Settled(s) => Settled(r)) => PairOK(r, t)
  BY DEF PairOK, Expected, Waits, LatestOK
<1> QED BY <1>2, <1>3, <1>4, <1>5, <1>6 DEF DirectionOK
\* A rolled back offer is still going to be answered.
LEMMA RollbackStep ==
  ASSUME NEW s \in PeerStates, NEW t \in PeerStates, NEW g,
         DirectionOK(s, t, g), DirectionOK(t, s, g), s.sig = "haveLocalOffer"
  PROVE  DirectionOK(Rollback(s), t, g) /\ DirectionOK(t, Rollback(s), g)
<1> DEFINE r == Rollback(s)
<1>1. /\ r \in PeerStates /\ Kept(s, r) /\ r.out = s.out /\ r.sig = "stable"
      /\ r.gathering = s.gathering /\ (s.local # NoDesc => r.local # NoDesc)
  BY RolledBack
<1> HIDE DEF r
<1>2. StateOK(r)
  BY <1>1 DEF StateOK, Kept, DirectionOK, LinkOK
<1>3. Extends(s, r) /\ Knows(s, r)
  <2>1. Len(s.out) \in Nat BY DEF PeerStates
  <2> QED BY <1>1, <2>1 DEF Extends, Knows, Kept
<1>4. LinkOK(r, t) /\ LinkOK(t, r)
  BY <1>1, <1>2, <1>3, AloneLinks DEF DirectionOK, Kept
<1>5. OppositeOK(r, t, g) /\ OppositeOK(t, r, g)
  BY <1>1 DEF DirectionOK, OppositeOK, Kept
<1>6. PairOK(s, t) => PairOK(r, t)
  <2>1. Expected(r, t) = Expected(s, t) /\ Expected(s, t) \in Nat
    BY <1>1, ExpectedType DEF Expected
  <2>2. Waits(r) = 0 /\ Waits(s) = 1
    BY <1>1 DEF Waits
  <2> QED BY <2>1, <2>2 DEF PairOK
<1>7. PairOK(t, s) => PairOK(t, r)
  BY <1>1 DEF PairOK, Expected, LatestOK, Kept
<1> QED BY <1>1, <1>4, <1>5, <1>6, <1>7 DEF DirectionOK, Kept, r

\* A candidate is found: it follows the description that started gathering.
LEMMA FindStep ==
  ASSUME NEW s \in PeerStates, NEW r \in PeerStates, NEW t \in PeerStates, NEW g,
         DirectionOK(s, t, g), DirectionOK(t, s, g),
         s.gathering = "inProgress", s.found + 1 \in 1 .. MaxCand,
         r = [s EXCEPT !.found = @ + 1, !.out = Append(@, CandidateMsg(s.found + 1))]
  PROVE  DirectionOK(r, t, g) /\ DirectionOK(t, r, g)
<1> DEFINE m == CandidateMsg(s.found + 1)
<1>1. m \in Messages /\ m.type = "candidate" /\ m.cand = s.found + 1 /\ ~IsDescription(m)
  BY DEF CandidateMsg, Messages, IsDescription
<1> HIDE DEF m
<1>2. /\ r.out = Append(s.out, m) /\ r.found = s.found + 1 /\ r.local = s.local /\ r.sig = s.sig
      /\ r.role = s.role /\ r.remote = s.remote /\ r.remoteCands = s.remoteCands
      /\ r.hxRemote = s.hxRemote /\ r.refused = s.refused /\ r.rejected = s.rejected
      /\ r.gathering = s.gathering /\ r.chans = s.chans
  BY DEF PeerStates, m
<1>3. /\ s.out \in Seq(Messages) /\ Len(s.out) \in Nat /\ Len(r.out) = Len(s.out) + 1
      /\ r.out[Len(s.out) + 1] = m /\ \A i \in 1 .. Len(s.out) : r.out[i] = s.out[i]
  BY <1>1, <1>2 DEF PeerStates
<1>4. \A i \in 1 .. Len(r.out) : i \in 1 .. Len(s.out) \/ r.out[i] = m
  BY <1>3
<1>5. StateOK(r)
  BY <1>2 DEF DirectionOK, LinkOK, StateOK
<1>6. RoleOK(r, t)
  BY <1>1, <1>2, <1>3, <1>4 DEF DirectionOK, LinkOK, RoleOK
<1>7. FirstOK(r, t)
  <2>1. ~t.hxRemote => s.out # <<>> /\ IsDescription(s.out[1])
    BY DEF DirectionOK, LinkOK, FirstOK
  <2>2. ASSUME ~t.hxRemote PROVE r.out # <<>> /\ r.out[1] = s.out[1]
    <3>1. Len(s.out) # 0
      BY <1>3, <2>1, <2>2
    <3> QED BY <1>3, <3>1
  <2> QED BY <2>1, <2>2 DEF FirstOK
<1>8. CandOK(r, t)
  <2> SUFFICES ASSUME NEW c \in 1 .. r.found, c \notin t.remoteCands, ~t.rejected
               PROVE  \E i \in 1 .. Len(r.out) :
                        IF r.out[i].type = "candidate" THEN r.out[i].cand = c ELSE c \in r.out[i].cands
    BY DEF CandOK
  <2>1. CASE c = s.found + 1
    BY <1>1, <1>3, <2>1
  <2>2. CASE c \in 1 .. s.found
    <3>1. PICK i \in 1 .. Len(s.out) :
            IF s.out[i].type = "candidate" THEN s.out[i].cand = c ELSE c \in s.out[i].cands
      BY <2>2 DEF DirectionOK, LinkOK, CandOK
    <3>2. i \in 1 .. Len(r.out) /\ r.out[i] = s.out[i]
      BY <1>3
    <3> QED BY <3>1, <3>2
  <2>3. s.found \in Nat
    BY DEF PeerStates
  <2> QED BY <1>2, <2>1, <2>2, <2>3
<1>9. LinkOK(t, r)
  BY <1>2 DEF DirectionOK, LinkOK, RoleOK, FirstOK, CandOK
<1>10. OppositeOK(r, t, g) /\ OppositeOK(t, r, g)
  BY <1>2 DEF DirectionOK, OppositeOK
<1>11. Count(r.out, "offer") = Count(s.out, "offer") /\ Count(r.out, "answer") = Count(s.out, "answer")
  <2>1. Count(s.out, "offer") \in Nat /\ Count(s.out, "answer") \in Nat
    BY ExpectedType
  <2>2. /\ Count(r.out, "offer") = Count(s.out, "offer") + 0
        /\ Count(r.out, "answer") = Count(s.out, "answer") + 0
    BY <1>1, <1>2, <1>3, CountAppend
  <2> QED BY <2>1, <2>2
<1>12. LatestOK(s, t) => LatestOK(r, t)
  <2>1. CASE /\ \A i \in 1 .. Len(s.out) : ~IsDescription(s.out[i])
             /\ s.local # NoDesc => t.remote = s.local
    BY <1>1, <1>2, <1>3, <1>4, <2>1 DEF LatestOK
  <2>2. ASSUME NEW i \in 1 .. Len(s.out), s.out[i] = s.local,
               \A j \in i + 1 .. Len(s.out) : ~IsDescription(s.out[j])
        PROVE  LatestOK(r, t)
    <3>1. i \in 1 .. Len(r.out) /\ r.out[i] = r.local
      BY <1>2, <1>3, <2>2
    <3>2. \A j \in i + 1 .. Len(r.out) : ~IsDescription(r.out[j])
      <4> SUFFICES ASSUME NEW j \in i + 1 .. Len(r.out) PROVE ~IsDescription(r.out[j])
        OBVIOUS
      <4>1. CASE j = Len(s.out) + 1
        BY <1>1, <1>3, <4>1
      <4>2. CASE j \in i + 1 .. Len(s.out)
        <5>1. j \in 1 .. Len(s.out)
          BY <1>3, <4>2
        <5> QED BY <1>3, <2>2, <4>2, <5>1
      <4> QED BY <1>3, <4>1, <4>2
    <3> QED BY <3>1, <3>2 DEF LatestOK
  <2> QED BY <2>1, <2>2 DEF LatestOK
<1>13. PairOK(s, t) => PairOK(r, t)
  BY <1>2, <1>11, <1>12 DEF PairOK, Expected, Waits, Settled
<1>14. PairOK(t, s) => PairOK(t, r)
  BY <1>2, <1>11 DEF PairOK, Expected, LatestOK
<1> QED BY <1>2, <1>5, <1>6, <1>7, <1>8, <1>9, <1>10, <1>13, <1>14 DEF DirectionOK, LinkOK

\* A description that is turned down changes nothing but the Haxe copy.
LEMMA RejectedStep ==
  ASSUME NEW s \in PeerStates, NEW t \in PeerStates, NEW g,
         DirectionOK(s, t, g), DirectionOK(t, s, g)
  PROVE  LET r == [s EXCEPT !.hxRemote = TRUE, !.rejected = TRUE] IN
         r \in PeerStates /\ DirectionOK(r, t, g) /\ DirectionOK(t, r, g)
<1> DEFINE r == [s EXCEPT !.hxRemote = TRUE, !.rejected = TRUE]
<1>1. /\ r \in PeerStates /\ r.out = s.out /\ r.local = s.local /\ r.sig = s.sig /\ r.role = s.role
      /\ r.remote = s.remote /\ r.remoteCands = s.remoteCands /\ r.found = s.found
      /\ r.refused = s.refused /\ r.gathering = s.gathering /\ r.hxRemote /\ r.rejected
  BY DEF PeerStates
<1> HIDE DEF r
<1>2. LinkOK(r, t)
  BY <1>1 DEF DirectionOK, LinkOK, StateOK, RoleOK, FirstOK, CandOK
<1>3. LinkOK(t, r)
  BY <1>1 DEF DirectionOK, LinkOK, RoleOK, FirstOK, CandOK
<1>4. OppositeOK(r, t, g) /\ OppositeOK(t, r, g)
  BY <1>1 DEF DirectionOK, OppositeOK
<1> QED BY <1>1, <1>2, <1>3, <1>4 DEF DirectionOK, r
-----------------------------------------------------------------------------
(* A message arrives: the receiver s becomes r, the sender t loses the     *)
(* head m of its messages and becomes u.                                   *)

Popped(t) == [t EXCEPT !.out = Tail(@)]
Crossed(s, m, g) == g \/ (m.type = "offer" /\ s.local # NoDesc /\ s.role = "actpass")

LEMMA PoppedFacts ==
  ASSUME NEW t \in PeerStates, t.out # <<>>
  PROVE  /\ Popped(t) \in PeerStates /\ Popped(t).out = Tail(t.out) /\ Kept(t, Popped(t))
         /\ Popped(t).local = t.local /\ Popped(t).sig = t.sig /\ Popped(t).gathering = t.gathering
         /\ Head(t.out) \in Messages /\ t.out \in Seq(Messages)
         /\ Knows(t, Popped(t)) /\ (StateOK(t) => StateOK(Popped(t)))
<1>1. t.out \in Seq(Messages) /\ Tail(t.out) \in Seq(Messages) /\ Head(t.out) \in Messages
  BY DEF PeerStates
<1>2. /\ Popped(t) \in PeerStates /\ Popped(t).out = Tail(t.out) /\ Kept(t, Popped(t))
      /\ Popped(t).local = t.local /\ Popped(t).sig = t.sig /\ Popped(t).gathering = t.gathering
  BY <1>1 DEF PeerStates, Popped, Kept
<1>3. Knows(t, Popped(t)) /\ (StateOK(t) => StateOK(Popped(t)))
  BY <1>2 DEF Knows, StateOK, Kept
<1> QED BY <1>1, <1>2, <1>3

\* Popping a candidate changes no count, popping a description its own.
LEMMA PoppedCounts ==
  ASSUME NEW t \in PeerStates, t.out # <<>>, NEW type \in {"offer", "answer"}
  PROVE  /\ Count(Popped(t).out, type) \in Nat
         /\ Count(t.out, type) = Count(Popped(t).out, type) + (IF Head(t.out).type = type THEN 1 ELSE 0)
<1>1. Tail(t.out) \in Seq(Messages) /\ t.out \in Seq(Messages)
  BY DEF PeerStates
<1>2. Popped(t).out = Tail(t.out)
  BY PoppedFacts
<1>3. Count(Tail(t.out), type) \in Nat
  BY <1>1, CountType
<1>4. Count(t.out, type) = Count(Tail(t.out), type) + (IF Head(t.out).type = type THEN 1 ELSE 0)
  BY <1>1, CountTail
<1> QED BY <1>2, <1>3, <1>4

LEMMA CandidateArrives ==
  ASSUME NEW s \in PeerStates, NEW t \in PeerStates, NEW g \in BOOLEAN,
         DirectionOK(s, t, g), DirectionOK(t, s, g), t.out # <<>>, Head(t.out).type = "candidate"
  PROVE  LET r == AddRemoteCandidate(s, Head(t.out).cand) IN
         r \in PeerStates /\ DirectionOK(r, Popped(t), g) /\ DirectionOK(Popped(t), r, g)
<1> DEFINE u == Popped(t)
           c == Head(t.out).cand
           r == AddRemoteCandidate(s, c)
<1>1. /\ u \in PeerStates /\ u.out = Tail(t.out) /\ Kept(t, u) /\ u.local = t.local /\ u.sig = t.sig
      /\ u.gathering = t.gathering /\ Head(t.out) \in Messages /\ t.out \in Seq(Messages)
      /\ Knows(t, u) /\ StateOK(u)
  BY PoppedFacts DEF DirectionOK, LinkOK
<1> HIDE DEF u
<1>2. c \in 1 .. MaxCand /\ Head(t.out) = t.out[1] /\ ~IsDescription(Head(t.out))
  BY <1>1, DescriptionFacts DEF IsDescription
<1>3. s.hxRemote
  BY <1>2 DEF DirectionOK, LinkOK, FirstOK
<1>4. r = s \/ r = [s EXCEPT !.remoteCands = @ \cup {c}]
  BY <1>3 DEF AddRemoteCandidate
<1>5. c \in r.remoteCands \/ r.rejected
  <2>1. CASE s.remote = NoDesc
    <3>1. s.rejected
      BY <1>3, <2>1 DEF DirectionOK, LinkOK, StateOK
    <3> QED BY <1>3, <2>1, <3>1 DEF AddRemoteCandidate
  <2>2. CASE s.remote # NoDesc
    <3>1. r = [s EXCEPT !.remoteCands = @ \cup {c}]
      BY <1>3, <2>2 DEF AddRemoteCandidate
    <3> QED BY <3>1 DEF PeerStates
  <2> QED BY <2>1, <2>2
<1> HIDE DEF c
<1>6. /\ r \in PeerStates /\ r.out = s.out /\ r.local = s.local /\ r.sig = s.sig /\ r.role = s.role
      /\ r.remote = s.remote /\ s.remoteCands \subseteq r.remoteCands /\ r.found = s.found
      /\ r.refused = s.refused /\ r.gathering = s.gathering /\ r.hxRemote /\ r.rejected = s.rejected
      /\ r.chans = s.chans
  <2>1. CASE r = s
    BY <1>3, <2>1
  <2>2. CASE r = [s EXCEPT !.remoteCands = @ \cup {c}]
    <3> HIDE DEF r
    <3>1. s.remoteCands \cup {c} \in SUBSET (1 .. MaxCand)
      BY <1>2 DEF PeerStates
    <3>2. r \in PeerStates
      BY <2>2, <3>1 DEF PeerStates
    <3>3. /\ r.out = s.out /\ r.local = s.local /\ r.sig = s.sig /\ r.role = s.role
          /\ r.remote = s.remote /\ r.remoteCands = s.remoteCands \cup {c} /\ r.found = s.found
          /\ r.refused = s.refused /\ r.gathering = s.gathering /\ r.hxRemote = s.hxRemote
          /\ r.rejected = s.rejected /\ r.chans = s.chans
      BY <2>2 DEF PeerStates
    <3> QED BY <1>3, <3>2, <3>3
  <2> QED BY <1>4, <2>1, <2>2
<1> HIDE DEF r
<1>7. StateOK(r)
  BY <1>3, <1>6 DEF DirectionOK, LinkOK, StateOK
<1>8. LinkOK(r, u)
  <2>1. Extends(s, r)
    <3>1. Len(s.out) \in Nat BY DEF PeerStates
    <3> QED BY <1>6, <3>1 DEF Extends
  <2>2. r.role # "actpass" => u.local # NoDesc
    BY <1>1, <1>6 DEF DirectionOK, LinkOK, RoleOK
  <2> QED BY <1>1, <1>6, <1>7, <2>1, <2>2, SenderLink DEF DirectionOK
<1>9. LinkOK(u, r)
  <2>1. Knows(s, r)
    BY <1>6 DEF Knows
  <2> QED BY <1>1, <1>5, <1>6, <2>1, TailLink DEF DirectionOK, Kept, c
<1>10. OppositeOK(r, u, g) /\ OppositeOK(u, r, g)
  BY <1>1, <1>6 DEF DirectionOK, OppositeOK, Kept
<1>11. Count(u.out, "offer") = Count(t.out, "offer") /\ Count(u.out, "answer") = Count(t.out, "answer")
  <2>1. /\ Count(u.out, "offer") \in Nat /\ Count(u.out, "answer") \in Nat
        /\ Count(t.out, "offer") = Count(u.out, "offer") + 0
        /\ Count(t.out, "answer") = Count(u.out, "answer") + 0
    BY PoppedCounts DEF u
  <2> QED BY <2>1
<1>12. PairOK(s, t) => PairOK(r, u)
  <2>1. Expected(r, u) = Expected(s, t) /\ Waits(r) = Waits(s)
    BY <1>6, <1>11 DEF Expected, Waits
  <2>2. LatestOK(s, t) => LatestOK(r, u)
    BY <1>1, <1>6 DEF LatestOK, Kept
  <2>3. Settled(s) => Settled(r)
    BY <1>6 DEF Settled
  <2> QED BY <2>1, <2>2, <2>3 DEF PairOK
<1>13. PairOK(t, s) => PairOK(u, r)
  <2>1. Expected(u, r) = Expected(t, s) /\ Waits(u) = Waits(t)
    BY <1>1, <1>6, <1>11 DEF Expected, Waits
  <2>2. LatestOK(t, s) => LatestOK(u, r)
    BY <1>1, <1>2, <1>6, TailLatest
  <2>3. Settled(t) => Settled(u)
    BY <1>1 DEF Settled, Kept
  <2> QED BY <2>1, <2>2, <2>3 DEF PairOK
<1> QED BY <1>1, <1>6, <1>8, <1>9, <1>10, <1>12, <1>13 DEF DirectionOK, Kept, r, u, c

LEMMA RejectedArrives ==
  ASSUME NEW s \in PeerStates, NEW t \in PeerStates, NEW g \in BOOLEAN, NEW h \in BOOLEAN, g => h,
         DirectionOK(s, t, g), DirectionOK(t, s, g), t.out # <<>>
  PROVE  LET r == [s EXCEPT !.hxRemote = TRUE, !.rejected = TRUE] IN
         r \in PeerStates /\ DirectionOK(r, Popped(t), h) /\ DirectionOK(Popped(t), r, h)
<1> DEFINE u == Popped(t)
           r == [s EXCEPT !.hxRemote = TRUE, !.rejected = TRUE]
<1>1. /\ u \in PeerStates /\ u.out = Tail(t.out) /\ Kept(t, u) /\ u.local = t.local
      /\ u.gathering = t.gathering /\ Knows(t, u) /\ StateOK(u)
  BY PoppedFacts DEF DirectionOK, LinkOK
<1> HIDE DEF u
<1>2. r \in PeerStates /\ DirectionOK(r, t, g) /\ DirectionOK(t, r, g)
  BY RejectedStep
<1>3. r.hxRemote /\ r.rejected /\ r.role = s.role
  BY DEF PeerStates
<1> HIDE DEF r
<1>4. LinkOK(r, u)
  BY <1>1, <1>2 DEF DirectionOK, LinkOK, RoleOK, FirstOK, CandOK, Kept
<1>5. LinkOK(u, r)
  <2>1. Knows(r, r)
    BY DEF Knows
  <2> QED BY <1>1, <1>2, <1>3, <2>1, TailLink DEF DirectionOK, Kept
<1>6. OppositeOK(r, u, h) /\ OppositeOK(u, r, h)
  BY <1>1, <1>3 DEF DirectionOK, OppositeOK, Kept
<1> QED BY <1>2, <1>3, <1>4, <1>5, <1>6 DEF DirectionOK, r, u
\* An accepted description reaches the peer, whatever it makes of it.
LEMMA DescriptionLinks ==
  ASSUME NEW s \in PeerStates, NEW t \in PeerStates, NEW r \in PeerStates, NEW g \in BOOLEAN,
         DirectionOK(s, t, g), DirectionOK(t, s, g), t.out # <<>>,
         Head(t.out) \in Descriptions, Heard(s, r, Head(t.out)),
         Acceptable(s, Head(t.out)), Extends(s, r), StateOK(r)
  PROVE  /\ LinkOK(r, Popped(t)) /\ LinkOK(Popped(t), r)
         /\ OppositeOK(r, Popped(t), Crossed(s, Head(t.out), g))
         /\ OppositeOK(Popped(t), r, Crossed(s, Head(t.out), g))
<1> DEFINE u == Popped(t)
           d == Head(t.out)
<1>1. /\ u \in PeerStates /\ u.out = Tail(t.out) /\ Kept(t, u) /\ u.local = t.local
      /\ u.gathering = t.gathering /\ t.out \in Seq(Messages) /\ Knows(t, u) /\ StateOK(u)
  BY PoppedFacts DEF DirectionOK, LinkOK
<1> HIDE DEF u
<1>2. d = t.out[1] /\ 1 \in 1 .. Len(t.out) /\ d.type \in {"offer", "answer"} /\ IsDescription(d)
  BY <1>1, DescriptionFacts
<1> HIDE DEF d
<1>3. t.local # NoDesc /\ (d.type = "answer" => d.role = t.role)
  BY <1>2 DEF DirectionOK, LinkOK, RoleOK
<1>4. Knows(s, r)
  BY DEF Knows, Extends, Heard
<1>5. LinkOK(r, u)
  BY <1>1, <1>3, SenderLink DEF DirectionOK
<1>6. LinkOK(u, r)
  <2>1. d.cands \subseteq r.remoteCands /\ r.hxRemote /\ d.type # "candidate"
    BY <1>2 DEF Heard, d
  <2> QED BY <1>1, <1>4, <2>1, TailLink DEF DirectionOK, Kept, d
<1>7. ASSUME ~Crossed(s, d, g) PROVE r.role # u.role
  <2>1. ~g /\ u.role = t.role /\ r.role = RemoteRole(s, d) /\ RemoteRole(s, d) # d.role
    BY <1>1, <1>7 DEF Crossed, Kept, Heard, Acceptable, d
  <2>2. CASE s.role # "actpass"
    BY <2>1, <2>2 DEF RemoteRole, DirectionOK, OppositeOK
  <2>3. CASE s.role = "actpass" /\ d.type = "answer"
    BY <1>3, <2>1, <2>3
  <2>4. CASE s.role = "actpass" /\ d.type = "offer"
    <3>1. s.local = NoDesc
      BY <1>7, <2>4 DEF Crossed
    <3>2. t.role = "actpass"
      BY <3>1 DEF DirectionOK, LinkOK, RoleOK
    <3> QED BY <2>1, <3>2 DEF Heard
  <2> QED BY <1>2, <2>2, <2>3, <2>4
<1>8. OppositeOK(r, u, Crossed(s, d, g)) /\ OppositeOK(u, r, Crossed(s, d, g))
  BY <1>7 DEF OppositeOK
<1> QED BY <1>5, <1>6, <1>8 DEF u, d

\* The sender of an accepted description: its last one is known, or under way.
LEMMA DescriptionPair ==
  ASSUME NEW s \in PeerStates, NEW t \in PeerStates, NEW r \in PeerStates, t.out # <<>>,
         Head(t.out) \in Descriptions, r.remote = Head(t.out), PairOK(t, s),
         Count(Popped(t).out, "offer") + Count(r.out, "answer") = Count(t.out, "offer") + Count(s.out, "answer")
  PROVE  PairOK(Popped(t), r)
<1> DEFINE u == Popped(t)
<1>1. /\ u \in PeerStates /\ u.out = Tail(t.out) /\ Kept(t, u) /\ u.local = t.local /\ u.sig = t.sig
  BY PoppedFacts
<1> HIDE DEF u
<1>2. LatestOK(t, s) => LatestOK(u, r)
  BY <1>1, TailLatest, DescriptionFacts
<1>3. Expected(u, r) = Expected(t, s)
  BY DEF Expected, u
<1>4. Waits(u) = Waits(t) /\ (Settled(t) => Settled(u))
  BY <1>1 DEF Waits, Settled, Kept
<1>5. PairOK(u, r)
  BY <1>2, <1>3, <1>4 DEF PairOK
<1> QED BY <1>5 DEF u
\* One or two descriptions more.
LEMMA ExtendsOne ==
  ASSUME NEW s \in PeerStates, NEW r \in PeerStates, NEW a \in Descriptions,
         r.out = Append(s.out, a), a.type = "answer" => a.role = r.role, r.local # NoDesc,
         s.role \in {"actpass", r.role}, r.found = s.found
  PROVE  Extends(s, r)
<1>1. s.out \in Seq(Messages) /\ a \in Messages
  BY DEF PeerStates, Messages
<1>2. /\ Len(r.out) = Len(s.out) + 1 /\ r.out[Len(s.out) + 1] = a /\ Len(s.out) \in Nat
      /\ \A i \in 1 .. Len(s.out) : r.out[i] = s.out[i]
  BY <1>1
<1>3. \A i \in Len(s.out) + 1 .. Len(r.out) : r.out[i] = a
  BY <1>2
<1> QED BY <1>2, <1>3 DEF Extends

LEMMA ExtendsTwo ==
  ASSUME NEW s \in PeerStates, NEW r \in PeerStates, NEW a \in Descriptions, NEW b \in Descriptions,
         r.out = Append(Append(s.out, a), b), a.type = "answer" => a.role = r.role,
         b.type = "offer", r.local # NoDesc, s.role \in {"actpass", r.role}, r.found = s.found
  PROVE  Extends(s, r)
<1>1. s.out \in Seq(Messages) /\ a \in Messages /\ b \in Messages
  BY DEF PeerStates, Messages
<1> DEFINE x == Append(s.out, a)
<1>2. /\ x \in Seq(Messages) /\ Len(x) = Len(s.out) + 1 /\ x[Len(s.out) + 1] = a /\ Len(s.out) \in Nat
      /\ \A i \in 1 .. Len(s.out) : x[i] = s.out[i]
  BY <1>1
<1> HIDE DEF x
<1>3. Len(r.out) = Len(x) + 1 /\ r.out[Len(x) + 1] = b /\ \A i \in 1 .. Len(x) : r.out[i] = x[i]
  BY <1>1, <1>2 DEF x
<1>4. \A i \in 1 .. Len(s.out) : r.out[i] = s.out[i]
  BY <1>2, <1>3
<1>5. r.out[Len(s.out) + 1] = a /\ r.out[Len(s.out) + 2] = b /\ Len(r.out) = Len(s.out) + 2
  BY <1>2, <1>3
<1>6. \A i \in Len(s.out) + 1 .. Len(r.out) : i = Len(s.out) + 1 \/ i = Len(s.out) + 2
  BY <1>2, <1>5
<1>7. \A i \in Len(s.out) + 1 .. Len(r.out) : r.out[i] = a \/ r.out[i] = b
  BY <1>5, <1>6
<1>8. Len(s.out) <= Len(r.out) /\ Len(r.out) > Len(s.out)
  BY <1>2, <1>5
<1> QED BY <1>4, <1>7, <1>8 DEF Extends

LEMMA OfferArrives ==
  ASSUME NEW s \in PeerStates, NEW t \in PeerStates, NEW g \in BOOLEAN,
         DirectionOK(s, t, g), DirectionOK(t, s, g), t.out # <<>>, s.num + 2 <= MaxDesc,
         Head(t.out) \in Descriptions, Head(t.out).type = "offer", Acceptable(s, Head(t.out))
  PROVE  LET r == SetRemoteDescription(s, Head(t.out))
             h == Crossed(s, Head(t.out), g)
         IN r \in PeerStates /\ DirectionOK(r, Popped(t), h) /\ DirectionOK(Popped(t), r, h)
<1> DEFINE u == Popped(t)
           d == Head(t.out)
           r == SetRemoteDescription(s, d)
           h == Crossed(s, d, g)
<1>1. /\ Heard(s, r, d) /\ r.gathering # "new" /\ r.local # NoDesc
      /\ \E a \in Descriptions :
           /\ a.type = "answer" /\ a.role = r.role
           /\ \/ r.out = Append(s.out, a) /\ r.local = a /\ r.sig = "stable" /\ Settled(r)
              \/ /\ r.local \in Descriptions /\ r.local.type = "offer" /\ r.sig = "haveLocalOffer"
                 /\ r.out = Append(Append(s.out, a), r.local)
  BY ReceivedOffer
<1> HIDE DEF r
<1>2. PICK a \in Descriptions :
           /\ a.type = "answer" /\ a.role = r.role
           /\ \/ r.out = Append(s.out, a) /\ r.local = a /\ r.sig = "stable" /\ Settled(r)
              \/ /\ r.local \in Descriptions /\ r.local.type = "offer" /\ r.sig = "haveLocalOffer"
                 /\ r.out = Append(Append(s.out, a), r.local)
  BY <1>1
<1>3. /\ r \in PeerStates /\ s.role \in {"actpass", r.role} /\ r.found = s.found /\ r.rejected = s.rejected
      /\ r.remote = d
  BY <1>1 DEF Heard, RemoteRole
<1>4. StateOK(r)
  BY <1>1, <1>2, <1>3, DescriptionFacts DEF StateOK, Heard, DirectionOK, LinkOK
<1>5. Extends(s, r)
  BY <1>1, <1>2, <1>3, ExtendsOne, ExtendsTwo
<1>6. LinkOK(r, u) /\ LinkOK(u, r) /\ OppositeOK(r, u, h) /\ OppositeOK(u, r, h)
  BY <1>1, <1>3, <1>4, <1>5, DescriptionLinks
<1>7. /\ Count(s.out, "offer") \in Nat /\ Count(s.out, "answer") \in Nat
      /\ Count(u.out, "offer") \in Nat /\ Count(u.out, "answer") \in Nat
      /\ Count(t.out, "offer") = Count(u.out, "offer") + 1
      /\ Count(t.out, "answer") = Count(u.out, "answer")
  <2>1. Count(t.out, "offer") = Count(u.out, "offer") + 1 /\ Count(u.out, "offer") \in Nat
    BY PoppedCounts
  <2>2. Count(t.out, "answer") = Count(u.out, "answer") + 0 /\ Count(u.out, "answer") \in Nat
    BY PoppedCounts
  <2>3. Count(s.out, "offer") \in Nat /\ Count(s.out, "answer") \in Nat
    BY ExpectedType
  <2> QED BY <2>1, <2>2, <2>3
<1>8. s.out \in Seq(Messages) /\ a \in Messages /\ Append(s.out, a) \in Seq(Messages)
  BY DEF PeerStates, Messages
<1>9. /\ Count(Append(s.out, a), "offer") = Count(s.out, "offer")
      /\ Count(Append(s.out, a), "answer") = Count(s.out, "answer") + 1
  <2>1. /\ Count(Append(s.out, a), "offer") = Count(s.out, "offer") + 0
        /\ Count(Append(s.out, a), "answer") = Count(s.out, "answer") + 1
    BY <1>2, <1>8, CountAppend
  <2> QED BY <1>7, <2>1
<1>10. /\ LatestOK(r, u) /\ Settled(r) /\ Count(r.out, "answer") = Count(s.out, "answer") + 1
       /\ Expected(r, u) >= Waits(r)
  <2>1. CASE r.out = Append(s.out, a) /\ r.local = a /\ r.sig = "stable" /\ Settled(r)
    <3>1. LatestOK(r, u)
      BY <1>8, <2>1, LastIsLatest
    <3>2. Expected(r, u) = Count(s.out, "offer") + Count(u.out, "answer") /\ Waits(r) = 0
      BY <1>9, <2>1 DEF Expected, Waits
    <3>3. Expected(r, u) >= Waits(r)
      BY <1>7, <3>2
    <3> QED BY <1>9, <2>1, <3>1, <3>3
  <2>2. CASE /\ r.local \in Descriptions /\ r.local.type = "offer" /\ r.sig = "haveLocalOffer"
             /\ r.out = Append(Append(s.out, a), r.local)
    <3>1. LatestOK(r, u) /\ Settled(r)
      BY <1>8, <2>2, LastIsLatest DEF Settled
    <3>2. r.local \in Messages
      BY <2>2 DEF Messages
    <3>3. /\ Count(r.out, "offer") = Count(s.out, "offer") + 1
          /\ Count(r.out, "answer") = (Count(s.out, "answer") + 1) + 0
      <4> DEFINE x == Append(s.out, a)
      <4>1. x \in Seq(Messages) /\ r.out = Append(x, r.local) /\ r.local.type = "offer"
        BY <1>8, <2>2
      <4>2. Count(x, "offer") = Count(s.out, "offer") /\ Count(x, "answer") = Count(s.out, "answer") + 1
        BY <1>9
      <4> HIDE DEF x
      <4>3. Count(r.out, "offer") = Count(x, "offer") + 1 /\ Count(r.out, "answer") = Count(x, "answer") + 0
        BY <3>2, <4>1, CountAppend
      <4> QED BY <4>2, <4>3
    <3>4. Expected(r, u) = (Count(s.out, "offer") + 1) + Count(u.out, "answer") /\ Waits(r) = 1
      BY <2>2, <3>3 DEF Expected, Waits
    <3>5. Expected(r, u) >= Waits(r)
      BY <1>7, <3>4
    <3>6. Count(r.out, "answer") = Count(s.out, "answer") + 1
      BY <1>7, <3>3
    <3> QED BY <3>1, <3>5, <3>6
  <2> QED BY <1>2, <2>1, <2>2
<1>11. PairOK(r, u)
  BY <1>10 DEF PairOK
<1>12. PairOK(t, s) => PairOK(u, r)
  <2>1. Count(u.out, "offer") + Count(r.out, "answer") = Count(t.out, "offer") + Count(s.out, "answer")
    BY <1>7, <1>10
  <2> QED BY <1>3, <2>1, DescriptionPair
<1>13. u.rejected = t.rejected
  BY PoppedFacts DEF Kept
<1> QED BY <1>3, <1>6, <1>11, <1>12, <1>13 DEF DirectionOK, r

LEMMA AnswerArrives ==
  ASSUME NEW s \in PeerStates, NEW t \in PeerStates, NEW g \in BOOLEAN,
         DirectionOK(s, t, g), DirectionOK(t, s, g), t.out # <<>>, s.num + 2 <= MaxDesc,
         Head(t.out) \in Descriptions, Head(t.out).type = "answer", Acceptable(s, Head(t.out))
  PROVE  LET r == SetRemoteDescription(s, Head(t.out))
             h == Crossed(s, Head(t.out), g)
         IN r \in PeerStates /\ DirectionOK(r, Popped(t), h) /\ DirectionOK(Popped(t), r, h)
<1> DEFINE u == Popped(t)
           d == Head(t.out)
           r == SetRemoteDescription(s, d)
           h == Crossed(s, d, g)
<1>1. /\ s.sig = "haveLocalOffer" /\ Heard(s, r, d)
      /\ \/ /\ r.out = s.out /\ r.local = s.local /\ r.sig = "stable" /\ Settled(r)
            /\ r.gathering = s.gathering
         \/ /\ r.local \in Descriptions /\ r.local.type = "offer" /\ r.sig = "haveLocalOffer"
            /\ r.out = Append(s.out, r.local) /\ r.gathering # "new"
  BY ReceivedAnswer
<1> HIDE DEF r
<1>2. /\ r \in PeerStates /\ s.role \in {"actpass", r.role} /\ r.found = s.found /\ r.rejected = s.rejected
      /\ r.remote = d
  BY <1>1 DEF Heard, RemoteRole
<1>3. StateOK(r)
  BY <1>1, <1>2, DescriptionFacts DEF StateOK, Heard, DirectionOK, LinkOK
<1>4. s.out \in Seq(Messages) /\ Len(s.out) \in Nat
  BY DEF PeerStates
<1>5. Extends(s, r)
  <2>1. CASE r.out = s.out /\ r.local = s.local /\ r.gathering = s.gathering
    BY <1>2, <1>4, <2>1 DEF Extends
  <2>2. CASE /\ r.local \in Descriptions /\ r.local.type = "offer" /\ r.out = Append(s.out, r.local)
    BY <1>2, <2>2, ExtendsOne, DescriptionFacts
  <2> QED BY <1>1, <2>1, <2>2
<1>6. LinkOK(r, u) /\ LinkOK(u, r) /\ OppositeOK(r, u, h) /\ OppositeOK(u, r, h)
  BY <1>1, <1>2, <1>3, <1>5, DescriptionLinks
<1>7. /\ Count(s.out, "offer") \in Nat /\ Count(s.out, "answer") \in Nat
      /\ Count(u.out, "offer") \in Nat /\ Count(u.out, "answer") \in Nat
      /\ Count(t.out, "offer") = Count(u.out, "offer")
      /\ Count(t.out, "answer") = Count(u.out, "answer") + 1
  <2>1. Count(t.out, "offer") = Count(u.out, "offer") + 0 /\ Count(u.out, "offer") \in Nat
    BY PoppedCounts
  <2>2. Count(t.out, "answer") = Count(u.out, "answer") + 1 /\ Count(u.out, "answer") \in Nat
    BY PoppedCounts
  <2>3. Count(s.out, "offer") \in Nat /\ Count(s.out, "answer") \in Nat
    BY ExpectedType
  <2> QED BY <2>1, <2>2, <2>3
<1>8. Waits(s) = 1 /\ Expected(s, t) = Count(s.out, "offer") + (Count(u.out, "answer") + 1)
  BY <1>1, <1>7 DEF Waits, Expected
<1>9. u.remote = t.remote /\ u.rejected = t.rejected
  BY PoppedFacts DEF Kept
<1>10. /\ Count(r.out, "answer") = Count(s.out, "answer")
       /\ PairOK(s, t) => PairOK(r, u)
  <2>1. CASE r.out = s.out /\ r.local = s.local /\ r.sig = "stable" /\ Settled(r)
    <3>1. Expected(r, u) = Count(s.out, "offer") + Count(u.out, "answer") /\ Waits(r) = 0
      BY <2>1 DEF Expected, Waits
    <3>2. Expected(r, u) >= Waits(r) /\ (Expected(r, u) = Waits(r) => Expected(s, t) = Waits(s))
      BY <1>7, <1>8, <3>1
    <3>3. LatestOK(s, t) => LatestOK(r, u)
      BY <1>9, <2>1 DEF LatestOK
    <3> QED BY <2>1, <3>2, <3>3 DEF PairOK
  <2>2. CASE /\ r.local \in Descriptions /\ r.local.type = "offer" /\ r.sig = "haveLocalOffer"
             /\ r.out = Append(s.out, r.local)
    <3>1. LatestOK(r, u) /\ Settled(r)
      BY <1>4, <2>2, LastIsLatest DEF Settled
    <3>2. r.local \in Messages
      BY <2>2 DEF Messages
    <3>3. /\ Count(r.out, "offer") = Count(s.out, "offer") + 1
          /\ Count(r.out, "answer") = Count(s.out, "answer") + 0
      BY <1>4, <2>2, <3>2, CountAppend
    <3>4. Expected(r, u) = (Count(s.out, "offer") + 1) + Count(u.out, "answer") /\ Waits(r) = 1
      BY <2>2, <3>3 DEF Expected, Waits
    <3>5. Expected(r, u) >= Waits(r)
      BY <1>7, <3>4
    <3>6. Count(r.out, "answer") = Count(s.out, "answer")
      BY <1>7, <3>3
    <3> QED BY <3>1, <3>5, <3>6 DEF PairOK
  <2> QED BY <1>1, <2>1, <2>2
<1>11. PairOK(t, s) => PairOK(u, r)
  <2>1. Count(u.out, "offer") + Count(r.out, "answer") = Count(t.out, "offer") + Count(s.out, "answer")
    BY <1>7, <1>10
  <2> QED BY <1>2, <2>1, DescriptionPair
<1> QED BY <1>2, <1>6, <1>9, <1>10, <1>11 DEF DirectionOK, r
-----------------------------------------------------------------------------
(* The actions.                                                            *)

LEMMA Assemble ==
  ASSUME NEW p \in Peers, NEW r \in PeerStates, NEW u \in PeerStates, TypeInv,
         peer' = [peer EXCEPT ![p] = r, ![Other(p)] = u], bad' \in 0 .. MaxBad, glare' \in BOOLEAN,
         DirectionOK(r, u, glare'), DirectionOK(u, r, glare')
  PROVE  IInv'
<1>1. Other(p) \in Peers /\ Other(p) # p /\ Other(Other(p)) = p /\ \A q \in Peers : q = p \/ q = Other(p)
  BY OtherPeer
<1>2. peer' \in [Peers -> PeerStates] /\ peer'[p] = r /\ peer'[Other(p)] = u
  BY <1>1 DEF TypeInv
<1>3. TypeInv'
  BY <1>2 DEF TypeInv
<1>4. \A q \in Peers : DirectionOK(peer'[q], peer'[Other(q)], glare')
  BY <1>1, <1>2
<1>5. (\A q \in Peers : DirectionOK(peer[q], peer[Other(q)], glare))'
  BY <1>4, Zenon DEF DirectionOK, LinkOK, StateOK, RoleOK, FirstOK, CandOK, OppositeOK, PairOK, Expected, Waits, LatestOK, Settled
<1> QED BY <1>3, <1>5 DEF IInv

LEMMA AssembleAlone ==
  ASSUME NEW p \in Peers, NEW r \in PeerStates, TypeInv, Update(p, r),
         bad' \in 0 .. MaxBad, glare' = glare,
         DirectionOK(r, peer[Other(p)], glare), DirectionOK(peer[Other(p)], r, glare)
  PROVE  IInv'
<1>1. Other(p) \in Peers /\ Other(p) # p
  BY OtherPeer
<1>2. peer[Other(p)] \in PeerStates /\ glare' \in BOOLEAN
  BY <1>1 DEF TypeInv
<1>3. peer' = [peer EXCEPT ![p] = r, ![Other(p)] = peer[Other(p)]]
  BY <1>1 DEF Update, TypeInv
<1> QED BY <1>2, <1>3, Assemble

LEMMA InitOK == Init => IInv
<1> SUFFICES ASSUME Init PROVE IInv
  OBVIOUS
<1>1. NewPeer \in PeerStates
  BY ConstantsAssumption DEF NewPeer, PeerStates
<1>2. peer = [p \in Peers |-> NewPeer] /\ bad = 0 /\ glare = FALSE
  BY DEF Init
<1>8. bad \in 0 .. MaxBad
  BY <1>2, ConstantsAssumption
<1>3. TypeInv
  BY <1>1, <1>2, <1>8 DEF TypeInv
<1>4. LinkOK(NewPeer, NewPeer) /\ OppositeOK(NewPeer, NewPeer, FALSE)
  BY DEF NewPeer, LinkOK, StateOK, RoleOK, FirstOK, CandOK, OppositeOK
<1>5. PairOK(NewPeer, NewPeer)
  <2>1. Expected(NewPeer, NewPeer) = 0 /\ Waits(NewPeer) = 0
    BY CountEmpty DEF Expected, Waits, NewPeer
  <2>2. LatestOK(NewPeer, NewPeer) /\ Settled(NewPeer)
    BY DEF NewPeer, LatestOK, Settled
  <2> QED BY <2>1, <2>2 DEF PairOK
<1>6. DirectionOK(NewPeer, NewPeer, FALSE)
  BY <1>4, <1>5 DEF DirectionOK
<1>7. \A p \in Peers : DirectionOK(peer[p], peer[Other(p)], glare)
  BY <1>2, <1>6, OtherPeer
<1> QED BY <1>3, <1>7 DEF IInv

\* What the actions start from.
LEMMA Before ==
  ASSUME IInv, NEW p \in Peers
  PROVE  /\ peer[p] \in PeerStates /\ peer[Other(p)] \in PeerStates /\ TypeInv
         /\ bad \in 0 .. MaxBad /\ glare \in BOOLEAN
         /\ DirectionOK(peer[p], peer[Other(p)], glare)
         /\ DirectionOK(peer[Other(p)], peer[p], glare)
<1>1. Other(p) \in Peers /\ Other(Other(p)) = p
  BY OtherPeer
<1>2. TypeInv /\ \A q \in Peers : DirectionOK(peer[q], peer[Other(q)], glare)
  BY DEF IInv
<1>3. DirectionOK(peer[Other(p)], peer[Other(Other(p))], glare)
  BY <1>1, <1>2, Zenon
<1> QED BY <1>1, <1>2, <1>3 DEF TypeInv

LEMMA CreateDataChannelOK ==
  ASSUME IInv, NEW p \in Peers, CreateDataChannel(p)
  PROVE  IInv'
<1> DEFINE s == peer[p]
           t == peer[Other(p)]
           v == [s EXCEPT !.chans = TRUE]
           r == Renegotiate(v)
<1>1. /\ s \in PeerStates /\ t \in PeerStates /\ TypeInv /\ bad \in 0 .. MaxBad /\ glare \in BOOLEAN
      /\ DirectionOK(s, t, glare) /\ DirectionOK(t, s, glare)
  BY Before
<1>2. Update(p, r) /\ s.num + 2 <= MaxDesc /\ UNCHANGED <<bad, glare>>
  BY DEF CreateDataChannel, Room
<1> HIDE DEF s, t
<1>3. /\ v \in PeerStates /\ v.out = s.out /\ v.local = s.local /\ v.sig = s.sig /\ v.role = s.role
      /\ v.remote = s.remote /\ v.remoteCands = s.remoteCands /\ v.found = s.found
      /\ v.hxRemote = s.hxRemote /\ v.refused = s.refused /\ v.rejected = s.rejected
      /\ v.gathering = s.gathering /\ v.num = s.num
  BY <1>1 DEF PeerStates
<1> HIDE DEF v
<1>4. /\ LinkOK(v, t) /\ LinkOK(t, v) /\ OppositeOK(v, t, glare) /\ OppositeOK(t, v, glare)
      /\ ~v.rejected /\ ~t.rejected => PairOK(t, v)
      /\ (Settled(s) => Settled(v)) => DirectionOK(v, t, glare)
      /\ DirectionOK(t, v, glare)
  BY <1>1, <1>3, SameStep
<1>5. v.num + 1 <= MaxDesc
  <2>1. s.num \in Nat BY <1>1 DEF PeerStates
  <2> QED BY <1>2, <1>3, <2>1, ConstantsAssumption
<1>6. r \in PeerStates /\ DirectionOK(r, t, glare) /\ DirectionOK(t, r, glare)
  <2>1. CASE r = v /\ Settled(v)
    BY <1>3, <1>4, <2>1
  <2>2. CASE v.sig = "stable" /\ Made(v, r, "offer")
    BY <1>1, <1>3, <1>4, <2>2, OfferStep DEF Made
  <2> QED BY <1>3, <1>5, <2>1, <2>2, Renegotiated
<1> HIDE DEF r
<1>7. bad' \in 0 .. MaxBad /\ glare' = glare
  BY <1>1, <1>2
<1> QED BY <1>1, <1>2, <1>6, <1>7, AssembleAlone DEF t

LEMMA AddTrackOK ==
  ASSUME IInv, NEW p \in Peers, NEW mid \in Tracks, AddTrack(p, mid)
  PROVE  IInv'
<1> DEFINE s == peer[p]
           t == peer[Other(p)]
           r == [s EXCEPT !.tracks = @ \cup {mid}]
<1>1. /\ s \in PeerStates /\ t \in PeerStates /\ TypeInv /\ bad \in 0 .. MaxBad /\ glare \in BOOLEAN
      /\ DirectionOK(s, t, glare) /\ DirectionOK(t, s, glare)
  BY Before
<1>2. Update(p, r) /\ UNCHANGED <<bad, glare>>
  BY DEF AddTrack
<1> HIDE DEF s, t
<1>3. /\ r \in PeerStates /\ r.out = s.out /\ r.local = s.local /\ r.sig = s.sig /\ r.role = s.role
      /\ r.remote = s.remote /\ r.remoteCands = s.remoteCands /\ r.found = s.found
      /\ r.hxRemote = s.hxRemote /\ r.refused = s.refused /\ r.rejected = s.rejected
      /\ r.gathering = s.gathering /\ r.chans = s.chans
  BY <1>1 DEF PeerStates
<1> HIDE DEF r
<1>4. Settled(s) => Settled(r)
  BY <1>3 DEF Settled
<1>5. DirectionOK(r, t, glare) /\ DirectionOK(t, r, glare)
  BY <1>1, <1>3, <1>4, SameStep
<1>6. bad' \in 0 .. MaxBad /\ glare' = glare
  BY <1>1, <1>2
<1> QED BY <1>1, <1>2, <1>3, <1>5, <1>6, AssembleAlone DEF t

LEMMA EndGatheringOK ==
  ASSUME IInv, NEW p \in Peers, EndGathering(p)
  PROVE  IInv'
<1> DEFINE s == peer[p]
           t == peer[Other(p)]
           r == [s EXCEPT !.gathering = "complete"]
<1>1. /\ s \in PeerStates /\ t \in PeerStates /\ TypeInv /\ bad \in 0 .. MaxBad /\ glare \in BOOLEAN
      /\ DirectionOK(s, t, glare) /\ DirectionOK(t, s, glare)
  BY Before
<1>2. Update(p, r) /\ s.gathering = "inProgress" /\ UNCHANGED <<bad, glare>>
  BY DEF EndGathering
<1> HIDE DEF s, t
<1>3. /\ r \in PeerStates /\ r.out = s.out /\ r.local = s.local /\ r.sig = s.sig /\ r.role = s.role
      /\ r.remote = s.remote /\ r.remoteCands = s.remoteCands /\ r.found = s.found
      /\ r.hxRemote = s.hxRemote /\ r.refused = s.refused /\ r.rejected = s.rejected
      /\ r.gathering = "complete" /\ r.chans = s.chans
  BY <1>1 DEF PeerStates
<1> HIDE DEF r
<1>4. Settled(s) => Settled(r)
  BY <1>3 DEF Settled
<1>5. DirectionOK(r, t, glare) /\ DirectionOK(t, r, glare)
  BY <1>1, <1>2, <1>3, <1>4, SameStep
<1>6. bad' \in 0 .. MaxBad /\ glare' = glare
  BY <1>1, <1>2
<1> QED BY <1>1, <1>2, <1>3, <1>5, <1>6, AssembleAlone DEF t
LEMMA CallSetLocalDescriptionOK ==
  ASSUME IInv, NEW p \in Peers, NEW type \in {"unspec", "rollback"}, CallSetLocalDescription(p, type)
  PROVE  IInv'
<1> DEFINE s == peer[p]
           t == peer[Other(p)]
           r == SetLocalDescription(s, type)
<1>1. /\ s \in PeerStates /\ t \in PeerStates /\ TypeInv /\ bad \in 0 .. MaxBad /\ glare \in BOOLEAN
      /\ DirectionOK(s, t, glare) /\ DirectionOK(t, s, glare)
  BY Before
<1>2. Update(p, r) /\ s.num + 2 <= MaxDesc /\ UNCHANGED <<bad, glare>>
  BY DEF CallSetLocalDescription, Room
<1> HIDE DEF s, t
<1>3. s.num + 1 <= MaxDesc
  <2>1. s.num \in Nat BY <1>1 DEF PeerStates
  <2> QED BY <1>2, <2>1, ConstantsAssumption
<1>4. \/ r = s
      \/ s.sig = "haveLocalOffer" /\ r = Rollback(s)
      \/ s.sig = "stable" /\ Made(s, r, "offer")
  <2>1. s.sig # "haveRemoteOffer"
    BY <1>1 DEF DirectionOK, LinkOK, StateOK
  <2>2. CASE type = "rollback"
    BY <2>2 DEF SetLocalDescription
  <2>3. CASE type = "unspec" /\ s.sig = "stable"
    <3>1. r = MakeOffer(s)
      BY <2>3 DEF SetLocalDescription
    <3> QED BY <1>1, <1>3, <2>3, <3>1, MadeOffer
  <2>4. CASE type = "unspec" /\ s.sig # "stable"
    BY <2>1, <2>4 DEF SetLocalDescription
  <2> QED BY <2>2, <2>3, <2>4
<1>5. r \in PeerStates /\ DirectionOK(r, t, glare) /\ DirectionOK(t, r, glare)
  <2>1. CASE r = s
    BY <1>1, <2>1
  <2>2. CASE s.sig = "haveLocalOffer" /\ r = Rollback(s)
    BY <1>1, <2>2, RollbackStep, RolledBack
  <2>3. CASE s.sig = "stable" /\ Made(s, r, "offer")
    <3>1. LinkOK(s, t) /\ LinkOK(t, s) /\ OppositeOK(s, t, glare) /\ OppositeOK(t, s, glare)
          /\ (~s.rejected /\ ~t.rejected => PairOK(t, s))
      BY <1>1 DEF DirectionOK
    <3> QED BY <1>1, <2>3, <3>1, OfferStep DEF Made
  <2> QED BY <1>4, <2>1, <2>2, <2>3
<1> HIDE DEF r
<1>6. bad' \in 0 .. MaxBad /\ glare' = glare
  BY <1>1, <1>2
<1> QED BY <1>1, <1>2, <1>5, <1>6, AssembleAlone DEF t

LEMMA FindCandidateOK ==
  ASSUME IInv, NEW p \in Peers, FindCandidate(p)
  PROVE  IInv'
<1> DEFINE s == peer[p]
           t == peer[Other(p)]
           r == [s EXCEPT !.found = @ + 1, !.out = Append(@, CandidateMsg(s.found + 1))]
<1>1. /\ s \in PeerStates /\ t \in PeerStates /\ TypeInv /\ bad \in 0 .. MaxBad /\ glare \in BOOLEAN
      /\ DirectionOK(s, t, glare) /\ DirectionOK(t, s, glare)
  BY Before
<1>2. Update(p, r) /\ s.gathering = "inProgress" /\ s.found < MaxCand /\ UNCHANGED <<bad, glare>>
  BY DEF FindCandidate
<1> HIDE DEF s, t
<1>3. s.found + 1 \in 1 .. MaxCand /\ s.found + 1 \in 0 .. MaxCand
  <2>1. s.found \in 0 .. MaxCand BY <1>1 DEF PeerStates
  <2> QED BY <1>2, <2>1, ConstantsAssumption
<1>4. CandidateMsg(s.found + 1) \in Messages
  BY <1>3 DEF CandidateMsg, Messages
<1>5. Append(s.out, CandidateMsg(s.found + 1)) \in Seq(Messages)
  BY <1>1, <1>4 DEF PeerStates
<1>6. r \in PeerStates
  BY <1>1, <1>3, <1>5 DEF PeerStates
<1>7. DirectionOK(r, t, glare) /\ DirectionOK(t, r, glare)
  BY <1>1, <1>2, <1>3, <1>6, FindStep
<1> HIDE DEF r
<1>8. bad' \in 0 .. MaxBad /\ glare' = glare
  BY <1>1, <1>2
<1> QED BY <1>1, <1>2, <1>6, <1>7, <1>8, AssembleAlone DEF t

LEMMA PassBadDescriptionOK ==
  ASSUME IInv, NEW p \in Peers, PassBadDescription(p)
  PROVE  IInv'
<1> DEFINE s == peer[p]
           t == peer[Other(p)]
           r == [s EXCEPT !.hxRemote = TRUE, !.rejected = TRUE]
<1>1. /\ s \in PeerStates /\ t \in PeerStates /\ TypeInv /\ bad \in 0 .. MaxBad /\ glare \in BOOLEAN
      /\ DirectionOK(s, t, glare) /\ DirectionOK(t, s, glare)
  BY Before
<1>2. Update(p, r) /\ glare' = glare /\ bad' = bad + 1 /\ bad < MaxBad
  BY DEF PassBadDescription
<1> HIDE DEF s, t
<1>3. r \in PeerStates /\ DirectionOK(r, t, glare) /\ DirectionOK(t, r, glare)
  BY <1>1, RejectedStep
<1> HIDE DEF r
<1>4. bad' \in 0 .. MaxBad
  BY <1>1, <1>2, ConstantsAssumption
<1> QED BY <1>1, <1>2, <1>3, <1>4, AssembleAlone DEF t

LEMMA ArriveOK ==
  ASSUME IInv, NEW p \in Peers, Arrive(p)
  PROVE  IInv'
<1> DEFINE s == peer[p]
           t == peer[Other(p)]
           m == Head(t.out)
           r == IF m.type = "candidate" THEN AddRemoteCandidate(s, m.cand) ELSE SetRemoteDescription(s, m)
           h == Crossed(s, m, glare)
<1>1. /\ s \in PeerStates /\ t \in PeerStates /\ TypeInv /\ bad \in 0 .. MaxBad /\ glare \in BOOLEAN
      /\ DirectionOK(s, t, glare) /\ DirectionOK(t, s, glare)
  BY Before
<1>2. /\ t.out # <<>> /\ (m.type = "candidate" \/ s.num + 2 <= MaxDesc) /\ bad' = bad
      /\ glare' = h /\ peer' = [peer EXCEPT ![p] = r, ![Other(p)].out = Tail(@)]
  BY DEF Arrive, Room, Crossed
<1>3. Other(p) \in Peers /\ Other(p) # p
  BY OtherPeer
<1>4. peer' = [peer EXCEPT ![p] = r, ![Other(p)] = Popped(t)]
  BY <1>2, <1>3 DEF TypeInv, Popped
<1> HIDE DEF s, t
<1>5. m \in Messages
  BY <1>1, <1>2, PoppedFacts
<1>6. h \in BOOLEAN /\ (glare => h)
  BY <1>1 DEF Crossed
<1>7. CASE m.type = "candidate"
  <2>1. h = glare
    BY <1>1, <1>7 DEF Crossed
  <2>2. r = AddRemoteCandidate(s, m.cand)
    BY <1>7
  <2>3. r \in PeerStates /\ DirectionOK(r, Popped(t), glare) /\ DirectionOK(Popped(t), r, glare)
    BY <1>1, <1>2, <1>7, <2>2, CandidateArrives
  <2>4. Popped(t) \in PeerStates
    BY <1>1, <1>2, PoppedFacts
  <2>5. DirectionOK(r, Popped(t), h) /\ DirectionOK(Popped(t), r, h)
    BY <2>1, <2>3
  <2>6. glare' = h /\ glare' \in BOOLEAN /\ bad' \in 0 .. MaxBad
    BY <1>1, <1>2, <1>6
  <2>7. r \in PeerStates
    BY <2>3
  <2> HIDE DEF r, h, m
  <2> QED BY <1>1, <1>4, <2>4, <2>5, <2>6, <2>7, Assemble
<1>8. CASE m.type # "candidate"
  <2>1. m \in Descriptions /\ m.type \in {"offer", "answer"} /\ r = SetRemoteDescription(s, m)
    BY <1>5, <1>8, DescriptionFacts
  <2>2. r \in PeerStates /\ DirectionOK(r, Popped(t), h) /\ DirectionOK(Popped(t), r, h)
    <3>1. CASE ~Acceptable(s, m)
      <4>1. r = [[s EXCEPT !.hxRemote = TRUE] EXCEPT !.rejected = TRUE]
        BY <2>1, <3>1 DEF SetRemoteDescription
      <4>2. r = [s EXCEPT !.hxRemote = TRUE, !.rejected = TRUE]
        BY <4>1
      <4> HIDE DEF r, h
      <4> QED BY <1>1, <1>2, <1>6, <4>2, RejectedArrives
    <3>2. CASE Acceptable(s, m) /\ m.type = "offer"
      BY <1>1, <1>2, <2>1, <3>2, OfferArrives
    <3>3. CASE Acceptable(s, m) /\ m.type = "answer"
      BY <1>1, <1>2, <2>1, <3>3, AnswerArrives
    <3> QED BY <2>1, <3>1, <3>2, <3>3
  <2>3. Popped(t) \in PeerStates
    BY <1>1, <1>2, PoppedFacts
  <2> HIDE DEF r, h
  <2> QED BY <1>1, <1>2, <1>4, <1>6, <2>2, <2>3, Assemble
<1> QED BY <1>7, <1>8

LEMMA Inductive == IInv /\ [Next]_vars => IInv'
<1> SUFFICES ASSUME IInv, [Next]_vars PROVE IInv'
  OBVIOUS
<1>1. ASSUME NEW p \in Peers, CreateDataChannel(p) PROVE IInv' BY <1>1, CreateDataChannelOK
<1>2. ASSUME NEW p \in Peers, NEW mid \in Tracks, AddTrack(p, mid) PROVE IInv' BY <1>2, AddTrackOK
<1>3. ASSUME NEW p \in Peers, NEW type \in {"unspec", "rollback"}, CallSetLocalDescription(p, type)
      PROVE  IInv'
  BY <1>3, CallSetLocalDescriptionOK
<1>4. ASSUME NEW p \in Peers, FindCandidate(p) PROVE IInv' BY <1>4, FindCandidateOK
<1>5. ASSUME NEW p \in Peers, EndGathering(p) PROVE IInv' BY <1>5, EndGatheringOK
<1>6. ASSUME NEW p \in Peers, PassBadDescription(p) PROVE IInv' BY <1>6, PassBadDescriptionOK
<1>7. ASSUME NEW p \in Peers, Arrive(p) PROVE IInv' BY <1>7, ArriveOK
<1>8. CASE UNCHANGED vars
  <2>1. peer' = peer /\ bad' = bad /\ glare' = glare
    BY <1>8 DEF vars
  <2>2. TypeInv'
    BY <2>1 DEF IInv, TypeInv
  <2>3. (\A p \in Peers : DirectionOK(peer[p], peer[Other(p)], glare))'
    BY <2>1 DEF IInv
  <2> QED BY <2>2, <2>3 DEF IInv
<1> QED BY <1>1, <1>2, <1>3, <1>4, <1>5, <1>6, <1>7, <1>8 DEF Next

-----------------------------------------------------------------------------
(* The theorems.                                                           *)

\* Roles, candidates and descriptions of the two peers and of what is under
\* way between them fit together in every state, whatever the order in which
\* setLocalDescription, setRemoteDescription and rollbacks are called.
THEOREM NegotiationInvariant == Spec => []IInv
<1>1. Init => IInv
  BY InitOK
<1>2. IInv /\ [Next]_vars => IInv'
  BY Inductive
<1> QED BY <1>1, <1>2, PTL DEF Spec

\* No operation of a peer connection leaves the states a peer can be in; no
\* candidate makes RTCPeerConnection.addRemoteCandidate throw.
THEOREM NegotiationTypes == Spec => []TypeOK
<1>1. IInv => TypeOK
  <2> SUFFICES ASSUME IInv PROVE TypeOK
    OBVIOUS
  <2>1. TypeInv /\ \A p \in Peers : peer[p] \in PeerStates /\ peer[p].refused = 0
    BY DEF IInv, TypeInv, DirectionOK, LinkOK, StateOK
  <2>2. ASSUME NEW p \in Peers PROVE PeerOK(peer[p])
    <3> DEFINE s == peer[p]
    <3>1. s \in PeerStates /\ s.refused = 0
      BY <2>1
    <3> HIDE DEF s
    <3>2. IsDesc(s.local) /\ IsDesc(s.current) /\ IsDesc(s.remote)
      BY <3>1 DEF PeerStates, IsDesc
    <3>3. s.refused \in 0 .. MaxCand
      BY <3>1, ConstantsAssumption
    <3>4. \A i \in DOMAIN s.out : s.out[i].type = "candidate" \/ s.out[i] \in Descriptions
      <4>1. s.out \in Seq(Messages)
        BY <3>1 DEF PeerStates
      <4>2. \A i \in DOMAIN s.out : s.out[i] \in Messages
        BY <4>1
      <4> QED BY <4>2, DescriptionFacts
    <3>5. PeerOK(s)
      BY <3>1, <3>2, <3>3, <3>4 DEF PeerOK, PeerStates
    <3> QED BY <3>5 DEF s
  <2> QED BY <2>1, <2>2 DEF TypeOK, TypeInv
<1> QED BY <1>1, NegotiationInvariant, PTL

\* One peer is the DTLS client and the other the server, as long as no offers
\* crossed before a role was fixed.
THEOREM RolesStayOpposite == Spec => []RolesOpposite
<1>1. IInv => RolesOpposite
  BY OtherPeer DEF IInv, DirectionOK, OppositeOK, RolesOpposite
<1> QED BY <1>1, NegotiationInvariant, PTL

\* A candidate is under way to the other peer or in its remote description,
\* unless that peer was given a description it did not accept.
THEOREM CandidatesNeverLost == Spec => []CandidatesArrive
<1>1. IInv => CandidatesArrive
  <2> SUFFICES ASSUME IInv, NEW p \in Peers, NEW c \in 1 .. peer[p].found
               PROVE  \/ InFlight(p, c)
                      \/ c \in peer[Other(p)].remoteCands
                      \/ peer[Other(p)].rejected
    BY DEF CandidatesArrive
  <2>1. CandOK(peer[p], peer[Other(p)])
    BY DEF IInv, DirectionOK, LinkOK
  <2>2. DOMAIN peer[p].out = 1 .. Len(peer[p].out)
    BY DEF IInv, TypeInv, PeerStates
  <2> QED BY <2>1, <2>2 DEF CandOK, InFlight
<1> QED BY <1>1, NegotiationInvariant, PTL

\* Once every message has arrived, and none was turned down, both peers are
\* stable, each has the other's last description and all data channels are
\* negotiated.
THEOREM PairsWhenQuiet == Spec => []PairedWhenQuiet
<1>1. IInv => PairedWhenQuiet
  <2> SUFFICES ASSUME IInv, Quiet, ~Rejected, NEW p \in Peers
               PROVE  /\ peer[p].sig = "stable"
                      /\ peer[p].chans => "app" \in peer[p].local.lines
                      /\ peer[p].local # NoDesc => SameDescription(peer[Other(p)].remote, peer[p].local)
    BY DEF PairedWhenQuiet
  <2> DEFINE s == peer[p]
             t == peer[Other(p)]
  <2>1. Other(p) \in Peers
    BY OtherPeer
  <2>2. s.out = <<>> /\ t.out = <<>> /\ ~s.rejected /\ ~t.rejected
    BY <2>1 DEF Quiet, Rejected
  <2>3. s \in PeerStates /\ StateOK(s) /\ PairOK(s, t)
    BY <2>2 DEF IInv, TypeInv, DirectionOK, LinkOK
  <2> HIDE DEF s, t
  <2>4. Expected(s, t) = 0
    <3>1. Count(s.out, "offer") = 0 /\ Count(t.out, "answer") = 0
      BY <2>2, CountEmpty
    <3> QED BY <3>1 DEF Expected
  <2>5. Waits(s) = 0 /\ s.sig # "haveLocalOffer"
    BY <2>3, <2>4 DEF PairOK, Waits
  <2>6. s.sig = "stable"
    BY <2>3, <2>5 DEF StateOK, PeerStates
  <2>7. LatestOK(s, t) /\ Settled(s)
    BY <2>3, <2>4, <2>5 DEF PairOK
  <2>8. s.chans => "app" \in s.local.lines
    BY <2>6, <2>7 DEF Settled
  <2>9. s.local # NoDesc => t.remote = s.local
    BY <2>2, <2>7 DEF LatestOK
  <2> QED BY <2>6, <2>8, <2>9 DEF s, t, SameDescription
<1> QED BY <1>1, NegotiationInvariant, PTL
=============================================================================
