---------------------------- MODULE Negotiation -----------------------------
(***************************************************************************)
(* Two peer connections that negotiate: PeerConnection::setLocalDescription*)
(* and setRemoteDescription with the signalling state, roles, automatic    *)
(* (re)negotiation, rollback and trickled candidates, under the binding's  *)
(* set_remote_description and RTCPeerConnection.addRemoteCandidate.        *)
(*                                                                         *)
(* A peer's descriptions and candidates reach its application through the  *)
(* processor and the event queue, both FIFO, and the application sends     *)
(* them on over a FIFO signalling channel: all three are the sequence out. *)
(***************************************************************************)
EXTENDS Integers, Sequences

CONSTANTS Peers,      \* the two peers
          Tracks,     \* mids of the tracks the applications may add
          MaxDesc,    \* bound: descriptions a peer makes
          MaxCand,    \* bound: candidates a peer finds
          MaxBad      \* bound: useless descriptions an application passes in

ASSUME ConstantsAssumption ==
    /\ \E a, b \in Peers : a # b /\ Peers = {a, b}
    /\ "app" \notin Tracks
    /\ MaxDesc \in Nat /\ MaxCand \in Nat /\ MaxBad \in Nat

Other(p) == CHOOSE q \in Peers : q # p

\* What the properties tell apart of a description: its type, its setup role,
\* its media lines ("app" for data channels), the candidates in it, its number.
\* An answer has taken a role.
Descriptions ==
    {d \in [type : {"offer", "answer"}, role : {"actpass", "active", "passive"},
            lines : SUBSET (Tracks \cup {"app"}), cands : SUBSET (1 .. MaxCand),
            num : 1 .. MaxDesc] :
        d.type = "answer" => d.role # "actpass"}
NoDesc == [type |-> "none"]
CandidateMsg(c) == [type |-> "candidate", cand |-> c]
IsDesc(d) == d = NoDesc \/ d \in Descriptions

VARIABLES peer,   \* the state of each peer
          bad,    \* useless descriptions passed in so far
          glare   \* history: offers crossed before any role was fixed

vars == <<peer, bad, glare>>

\* The fields of a peer's state, and their types.
PeerOK(s) ==
    /\ s.sig \in {"stable", "haveLocalOffer", "haveRemoteOffer"} \* signalingState
    /\ s.role \in {"actpass", "active", "passive"}  \* IceTransport::mRole
    /\ IsDesc(s.local)       \* mLocalDescription
    /\ IsDesc(s.current)     \* mCurrentLocalDescription
    /\ IsDesc(s.remote)      \* mRemoteDescription
    /\ s.remoteCands \subseteq 1 .. MaxCand         \* the candidates in it
    /\ s.chans \in BOOLEAN   \* there are data channels
    /\ s.tracks \subseteq Tracks                    \* mTracks
    /\ s.gathering \in {"new", "inProgress", "complete"}
    /\ s.found \in 0 .. MaxCand                     \* local candidates found
    /\ s.num \in 0 .. MaxDesc                       \* descriptions made
    /\ \A i \in DOMAIN s.out :                      \* on its way to the other peer
         s.out[i].type = "candidate" \/ s.out[i] \in Descriptions
    /\ s.hxRemote \in BOOLEAN     \* RTCPeerConnection.remoteDescription # null
    /\ s.refused \in 0 .. MaxCand \* candidates addRemoteCandidate threw at
    /\ s.rejected \in BOOLEAN     \* history: a description was not accepted

\* The types of the variables: no operation of a peer leaves its states.
TypeOK ==
    /\ \A p \in Peers : PeerOK(peer[p])
    /\ bad \in 0 .. MaxBad /\ glare \in BOOLEAN

NewPeer ==
    [sig |-> "stable", role |-> "actpass", local |-> NoDesc, current |-> NoDesc,
     remote |-> NoDesc, remoteCands |-> {}, chans |-> FALSE, tracks |-> {},
     gathering |-> "new", found |-> 0, num |-> 0, out |-> <<>>,
     hxRemote |-> FALSE, refused |-> 0, rejected |-> FALSE]

Init == peer = [p \in Peers |-> NewPeer] /\ bad = 0 /\ glare = FALSE

-----------------------------------------------------------------------------
(* The functions of PeerConnection, from the state of a peer to the next. *)

\* populateLocalDescription: every line of the remote description is
\* answered; an offer adds the lines of the peer's own tracks and channels.
LocalLines(s, type) ==
    (IF s.remote = NoDesc THEN {} ELSE s.remote.lines)
    \cup (IF type = "offer" THEN s.tracks \cup (IF s.chans THEN {"app"} ELSE {}) ELSE {})

\* negotiationNeeded: something of this peer is not in its local description.
NegotiationNeeded(s) ==
    ~(s.tracks \cup (IF s.chans THEN {"app"} ELSE {})
        \subseteq (IF s.local = NoDesc THEN {} ELSE s.local.lines))

\* IceTransport::getLocalDescription: an offer says actpass, an answer mRole;
\* the agent's description lists the candidates it has found by now.
NewDescription(s, type) ==
    [type |-> type, role |-> IF type = "offer" THEN "actpass" ELSE s.role,
     lines |-> LocalLines(s, type), cands |-> 1 .. s.found, num |-> s.num + 1]

\* gatherLocalCandidates, once: the agent may find them before it returns.
GatherLocalCandidates(s) == [s EXCEPT !.gathering = IF @ = "new" THEN "inProgress" ELSE @]

\* processLocalDescription, changeSignalingState and the start of gathering.
ApplyLocal(s, type) ==
    LET d == NewDescription(s, type) IN
    GatherLocalCandidates(
        [s EXCEPT !.local = d, !.current = s.local, !.num = d.num,
                  !.sig = IF type = "offer" THEN "haveLocalOffer" ELSE "stable",
                  !.out = Append(@, d)])

\* Nothing to negotiate throws before anything has changed.
MakeOffer(s) == IF LocalLines(s, "offer") = {} THEN s ELSE ApplyLocal(s, "offer")

\* In a stable state, with autonegotiation, a new offer is made if needed.
Renegotiate(s) == IF s.sig = "stable" /\ NegotiationNeeded(s) THEN MakeOffer(s) ELSE s

MakeAnswer(s) == Renegotiate(ApplyLocal(s, "answer"))

\* rollbackLocalDescription: the candidates found stay with the description.
Rollback(s) ==
    [s EXCEPT !.local = IF s.current = NoDesc THEN @ ELSE s.current,
              !.current = NoDesc, !.sig = "stable"]

\* setLocalDescription as the application calls it. A pending offer makes it
\* a warning, an answer without an offer throws: neither changes anything.
SetLocalDescription(s, type) ==
    CASE type = "rollback" -> IF s.sig = "haveLocalOffer" THEN Rollback(s) ELSE s
      [] type = "unspec" /\ s.sig = "stable" -> MakeOffer(s)
      [] type = "unspec" /\ s.sig = "haveRemoteOffer" -> MakeAnswer(s)
      [] OTHER -> s

\* Mutant: a peer that has a role takes the opposite of the remote one anew.
RemoteRoleAgain(s, d) == IF d.role = "active" THEN "passive" ELSE "active"

\* IceTransport::setRemoteDescription: the role is taken once.
RemoteRole(s, d) ==
    IF s.role # "actpass" THEN s.role
    ELSE IF d.role = "active" THEN "passive" ELSE "active"

\* The description types the signalling state accepts, and roles that fit.
Acceptable(s, d) ==
    /\ d.type = "offer" \/ s.sig = "haveLocalOffer"
    /\ s.sig # "haveRemoteOffer"
    /\ RemoteRole(s, d) # d.role

\* processRemoteDescription with the tracks it creates: known candidates stay,
\* those in the description are added at the end.
ProcessRemote(s, d) ==
    [s EXCEPT !.remote = d, !.role = RemoteRole(s, d), !.remoteCands = @ \cup d.cands,
              !.tracks = @ \cup (d.lines \ {"app"}),
              !.sig = IF d.type = "offer" THEN "haveRemoteOffer" ELSE "stable"]

\* Mutant: an answer does not look for what is still to be negotiated.
SetRemoteNoRenegotiation(s, d) ==
    LET t == [s EXCEPT !.hxRemote = TRUE] IN
    IF ~Acceptable(s, d) THEN [t EXCEPT !.rejected = TRUE]
    ELSE IF d.type = "offer"
    THEN ApplyLocal(ProcessRemote(IF s.sig = "haveLocalOffer" THEN Rollback(t) ELSE t, d), "answer")
    ELSE ProcessRemote(t, d)

\* setRemoteDescription, with the answer or the new offer it entails. What it
\* throws is logged below rtcSetRemoteDescription; the Haxe copy is set.
SetRemoteDescription(s, d) ==
    LET t == [s EXCEPT !.hxRemote = TRUE] IN
    IF ~Acceptable(s, d) THEN [t EXCEPT !.rejected = TRUE]
    ELSE IF d.type = "offer"
    THEN MakeAnswer(ProcessRemote(IF s.sig = "haveLocalOffer" THEN Rollback(t) ELSE t, d))
    ELSE Renegotiate(ProcessRemote(t, d))

\* Mutant: a candidate is dropped while a negotiation is under way.
AddRemoteWhenStable(s, c) ==
    IF ~s.hxRemote THEN [s EXCEPT !.refused = @ + 1]
    ELSE IF s.remote = NoDesc \/ s.sig # "stable" THEN s
    ELSE [s EXCEPT !.remoteCands = @ \cup {c}]

\* RTCPeerConnection.addRemoteCandidate throws without a (Haxe) remote
\* description; processRemoteCandidate throws without a native one, unseen.
AddRemoteCandidate(s, c) ==
    IF ~s.hxRemote THEN [s EXCEPT !.refused = @ + 1]
    ELSE IF s.remote = NoDesc THEN s
    ELSE [s EXCEPT !.remoteCands = @ \cup {c}]

-----------------------------------------------------------------------------
(* The steps. *)

\* Room for the descriptions the step may make.
Room(p) == peer[p].num + 2 <= MaxDesc

Update(p, s) == peer' = [peer EXCEPT ![p] = s]

\* createDataChannel makes an offer when the peer connection is stable.
CreateDataChannel(p) ==
    /\ ~peer[p].chans /\ Room(p)
    /\ Update(p, Renegotiate([peer[p] EXCEPT !.chans = TRUE]))
    /\ UNCHANGED <<bad, glare>>

\* emplaceTrack makes none: the application has to ask for it.
AddTrack(p, mid) ==
    /\ mid \notin peer[p].tracks
    /\ Update(p, [peer[p] EXCEPT !.tracks = @ \cup {mid}])
    /\ UNCHANGED <<bad, glare>>

CallSetLocalDescription(p, type) ==
    /\ Room(p)
    /\ Update(p, SetLocalDescription(peer[p], type))
    /\ UNCHANGED <<bad, glare>>

\* A candidate is found: processLocalCandidate.
FindCandidate(p) ==
    /\ peer[p].gathering = "inProgress" /\ peer[p].found < MaxCand
    /\ Update(p, [peer[p] EXCEPT !.found = @ + 1, !.out = Append(@, CandidateMsg(peer[p].found + 1))])
    /\ UNCHANGED <<bad, glare>>

\* endLocalCandidates
EndGathering(p) ==
    /\ peer[p].gathering = "inProgress"
    /\ Update(p, [peer[p] EXCEPT !.gathering = "complete"])
    /\ UNCHANGED <<bad, glare>>

\* The application passes text that is no valid description, or a type other
\* than "offer" and "answer": nothing native happens, the Haxe copy is set.
PassBadDescription(p) ==
    /\ bad < MaxBad
    /\ bad' = bad + 1
    /\ Update(p, [peer[p] EXCEPT !.hxRemote = TRUE, !.rejected = TRUE])
    /\ UNCHANGED glare

\* The other peer's next message arrives.
Arrive(p) ==
    LET q == Other(p)
        m == Head(peer[q].out)
        s == IF m.type = "candidate" THEN AddRemoteCandidate(peer[p], m.cand)
             ELSE SetRemoteDescription(peer[p], m)
    IN
    /\ peer[q].out # <<>>
    /\ m.type = "candidate" \/ Room(p)
    /\ peer' = [peer EXCEPT ![p] = s, ![q].out = Tail(@)]
    /\ glare' = (glare \/ (m.type = "offer" /\ peer[p].local # NoDesc
                            /\ peer[p].role = "actpass"))
    /\ UNCHANGED bad

Next ==
    \E p \in Peers :
        \/ CreateDataChannel(p)
        \/ \E mid \in Tracks : AddTrack(p, mid)
        \/ \E type \in {"unspec", "rollback"} : CallSetLocalDescription(p, type)
        \/ FindCandidate(p) \/ EndGathering(p)
        \/ PassBadDescription(p)
        \/ Arrive(p)

Spec == Init /\ [][Next]_vars

-----------------------------------------------------------------------------
Rejected == \E p \in Peers : peer[p].rejected
Quiet == \A p \in Peers : peer[p].out = <<>>
SameDescription(d, e) == d # NoDesc /\ d.num = e.num /\ d.type = e.type /\ d.lines = e.lines

\* One peer is the DTLS client and the other the server, however offers,
\* answers, rollbacks and renegotiations interleave: with equal roles no
\* handshake starts and both would use the same stream identifiers. Offers
\* that cross before any role is fixed make both peers active (glare).
RolesOpposite ==
    \A p, q \in Peers :
        p # q /\ ~glare /\ peer[p].role # "actpass" => peer[p].role # peer[q].role

\* When all messages have arrived and none was turned down, no peer is left in
\* the middle of a negotiation, each holds the other's last description, lines
\* included, and the data channels of both are negotiated, however offers,
\* rollbacks, answers and the offers that follow them have interleaved.
PairedWhenQuiet ==
    Quiet /\ ~Rejected =>
        \A p \in Peers :
            /\ peer[p].sig = "stable"
            /\ peer[p].chans => "app" \in peer[p].local.lines
            /\ peer[p].local # NoDesc => SameDescription(peer[Other(p)].remote, peer[p].local)

\* Candidate c of p is on its way, alone or in a description.
InFlight(p, c) ==
    \E i \in DOMAIN peer[p].out :
        LET m == peer[p].out[i] IN
        IF m.type = "candidate" THEN m.cand = c ELSE c \in m.cands

\* A candidate is never lost by a description that follows it, nor meets a
\* peer without remote description, although descriptions replace each other
\* and candidates overtake none of them: it is under way or in the remote
\* description, unless the application was let through addRemoteCandidate's
\* guard by the Haxe copy of a description that was not accepted.
CandidatesArrive ==
    \A p \in Peers : \A c \in 1 .. peer[p].found :
        \/ InFlight(p, c)
        \/ c \in peer[Other(p)].remoteCands
        \/ peer[Other(p)].rejected
=============================================================================
