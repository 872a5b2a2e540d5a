------------------------------ MODULE Streams -------------------------------
(***************************************************************************)
(* The data channels of two peers over their SCTP association: stream      *)
(* identifiers, the establishment protocol (OPEN, ACK), messages, the send *)
(* queue with its buffered amount, resets, and the end of the association. *)
(*                                                                         *)
(* Channel k is the object at the peer that creates it and the object the  *)
(* OPEN message makes at the other peer. A peer's threads: the application,*)
(* the connection's processor (openDataChannels) and SCTP's processor. A   *)
(* function of SctpTransport runs under mSendMutex; every message has size *)
(* one, and usrsctp is a FIFO that holds SndBuf messages of a direction    *)
(* (external; a stream reset waits for the data before it).                *)
(***************************************************************************)
EXTENDS Integers, Sequences, FiniteSets

CONSTANTS MaxChans,   \* bound: channels created
          MaxMsgs,    \* bound: messages sent
          MaxStream,  \* SctpTransport::maxStream
          SndBuf,     \* messages usrsctp takes
          Senders,    \* the peers whose applications send messages
          Stoppers,   \* the peers whose applications close the connection
          MayRace     \* whether they create and close channels meanwhile (Opening)

ASSUME ConstantsAssumption ==
    /\ MaxChans \in Nat /\ MaxMsgs \in Nat /\ MaxStream \in Nat
    /\ SndBuf \in Nat \ {0}
    /\ MayRace \in BOOLEAN

Peers == {"a", "b"}           \* "a" has the role active
Other(p) == IF p = "a" THEN "b" ELSE "a"
Chans == 1 .. MaxChans
Streams == 0 .. MaxStream
None == -1
Parity(p) == IF p = "a" THEN 0 ELSE 1

VARIABLES peer,   \* the state of each peer
          made,   \* channels created so far
          sent,   \* the messages sent: <<peer, channel>> of each
          lost    \* history: the association broke down

vars == <<peer, made, sent, lost>>

\* DataChannel and Channel
NewChan ==
    [kind |-> "none",        \* "out", "in": OutgoingDataChannel, IncomingDataChannel
     stream |-> None,        \* mStream
     bound |-> FALSE,        \* mSctpTransport is set
     open |-> FALSE, closed |-> FALSE,
     amount |-> 0, threshold |-> 0,   \* bufferedAmount, bufferedAmountLowThreshold
     waits |-> FALSE,        \* the application waits for onBufferedAmountLow
     got |-> {},             \* messages received
     byApp |-> FALSE]        \* history: closed by the application

\* PeerConnection and SctpTransport
NewPeer ==
    [sctp |-> "connecting",  \* SctpTransport::mState, "up" before its callback
     chan |-> [k \in Chans |-> NewChan],
     reg |-> [i \in Streams |-> 0],      \* mDataChannels, 0 for none
     unassigned |-> <<>>,    \* mUnassignedDataChannels
     task |-> FALSE, todo |-> {},        \* openDataChannels: queued, still to open
     sendq |-> <<>>, stopped |-> FALSE, shut |-> FALSE,  \* mSendQueue, mSendShutdown
     amount |-> [i \in Streams |-> 0],   \* mBufferedAmount
     flush |-> FALSE,        \* a flush is queued at the processor
     wire |-> <<>>,          \* in usrsctp, on the way to the other peer
     over |-> FALSE]         \* history: there were too many channels

Init ==
    /\ peer = [p \in Peers |-> NewPeer]
    /\ made = 0 /\ sent = <<>> /\ lost = FALSE

-----------------------------------------------------------------------------
(* SctpTransport: sending. *)

Msg(type, stream, k, n) == [type |-> type, stream |-> stream, k |-> k, n |-> n]
Size(m) == IF m.type = "data" THEN 1 ELSE 0    \* message_size_func
Sized(q, i) == Cardinality({j \in DOMAIN q : q[j].stream = i /\ Size(q[j]) = 1})

\* Channel::triggerBufferedAmount: low is reported when the amount crosses the
\* threshold on its way down. (From forwardBufferedAmount, by stream.)
Triggered(c, n) ==
    [c EXCEPT !.amount = n,
              !.waits = @ /\ ~(c.amount > c.threshold /\ n <= c.threshold)]

ForwardBufferedAmount(s, i, n) ==
    IF s.reg[i] = 0 THEN s ELSE [s EXCEPT !.chan[s.reg[i]] = Triggered(@, n)]

\* Mutant: the sign of the amount sent is lost.
UpdateBufferedAmountUp(s, i, d) ==
    IF d = 0 THEN s
    ELSE LET n == s.amount[i] + (IF d < 0 THEN 0 - d ELSE d) IN
         ForwardBufferedAmount([s EXCEPT !.amount[i] = n], i, n)

\* updateBufferedAmount, with the callback under mSendMutex.
UpdateBufferedAmount(s, i, d) ==
    IF d = 0 THEN s
    ELSE LET n == IF s.amount[i] + d > 0 THEN s.amount[i] + d ELSE 0 IN
         ForwardBufferedAmount([s EXCEPT !.amount[i] = n], i, n)

InBuffer(q) == Cardinality({j \in DOMAIN q : q[j].type # "reset"})

\* trySendMessage: usrsctp takes a message while it has room, a reset always.
TrySendMessage(s, m) ==
    s.sctp \in {"up", "connected"} /\ (m.type = "reset" \/ InBuffer(s.wire) < SndBuf)

\* One message off mSendQueue.
SendFirst(s) ==
    LET m == Head(s.sendq) IN
    UpdateBufferedAmount([s EXCEPT !.sendq = Tail(@), !.wire = Append(@, m)],
                         m.stream, 0 - Size(m))

SendNext(s) ==
    IF s.sendq # <<>> /\ TrySendMessage(s, Head(s.sendq)) THEN SendFirst(s) ELSE s

\* trySendQueue: as many as usrsctp takes; at the end of a stopped queue the
\* association is shut down.
TrySendQueue(s) ==
    LET f[i \in 0 .. Len(s.sendq)] == IF i = 0 THEN s ELSE SendNext(f[i - 1])
        t == f[Len(s.sendq)]
    IN  IF t.sendq = <<>> /\ t.stopped /\ ~t.shut /\ t.sctp \in {"up", "connected"}
        THEN [t EXCEPT !.shut = TRUE, !.wire = Append(@, Msg("shutdown", None, 0, 0))]
        ELSE t

\* Queue::push: a stopped queue swallows it.
Push(s, m) == IF s.stopped THEN s ELSE [s EXCEPT !.sendq = Append(@, m)]

\* Mutant: a message goes straight to usrsctp, past the queue.
SendPastQueue(s, m) ==
    IF s.sctp \notin {"up", "connected"} THEN s
    ELSE IF TrySendMessage(s, m) THEN [s EXCEPT !.wire = Append(@, m)]
    ELSE UpdateBufferedAmount(Push(s, m), m.stream, Size(m))

\* send: the queue first, then the message, which is queued if need be. After
\* the shutdown usrsctp refuses it, and send throws.
Send(s, m) ==
    IF s.sctp \notin {"up", "connected"} THEN s
    ELSE LET t == TrySendQueue(s) IN
         IF t.shut THEN t
         ELSE IF t.sendq = <<>> /\ TrySendMessage(t, m) THEN [t EXCEPT !.wire = Append(@, m)]
         ELSE UpdateBufferedAmount(Push(t, m), m.stream, Size(m))

\* A flush is queued; one that would find nothing to do is left out.
EnqueueFlush(s) == [s EXCEPT !.flush = s.sendq # <<>> \/ (s.stopped /\ ~s.shut)]

\* closeStream
CloseStream(s, i) == EnqueueFlush(Push(s, Msg("reset", i, 0, 0)))

-----------------------------------------------------------------------------
(* DataChannel and PeerConnection. *)

\* Mutant: the identifier is free at once, not when the other side resets too.
CloseUnregisters(s, k) ==
    LET c == s.chan[k]
        t == [s EXCEPT !.chan[k].closed = TRUE,
                       !.reg = [i \in Streams |-> IF @[i] = k THEN 0 ELSE @[i]]] IN
    IF c.closed THEN s
    ELSE IF c.bound /\ c.stream # None THEN CloseStream(t, c.stream) ELSE t

\* DataChannel::close; remoteClose is the same.
Close(s, k) ==
    LET c == s.chan[k]
        t == [s EXCEPT !.chan[k].closed = TRUE] IN
    IF c.closed THEN s
    ELSE IF c.bound /\ c.stream # None THEN CloseStream(t, c.stream) ELSE t

CloseIn(ks, s, k) == IF k \in ks THEN Close(s, k) ELSE s

CloseAll(s, ks) ==
    LET f[k \in 0 .. MaxChans] == IF k = 0 THEN s ELSE CloseIn(ks, f[k - 1], k)
    IN  f[MaxChans]

\* iterateDataChannels: the registered channels that are not closed.
Registered(s) == {k \in Chans : (\E i \in Streams : s.reg[i] = k) /\ ~s.chan[k].closed}

\* OutgoingDataChannel::open: binds the transport and sends OPEN, closed or not.
Open(s, k) ==
    Send([s EXCEPT !.chan[k].bound = TRUE], Msg("open", s.chan[k].stream, k, 0))

\* Mutant: any free identifier will do.
FreeAnyParity(p, s) == {i \in Streams : s.reg[i] = 0}

\* The identifiers a peer may choose: its parity, not in use.
Free(p, s) == {i \in Streams : i % 2 = Parity(p) /\ s.reg[i] = 0}

\* The lowest one is for channel k. Without one assignDataChannels throws, and
\* DataChannel::assignStream does so for a channel assigned earlier.
AssignOne(p, s, k) ==
    LET i == CHOOSE i \in Free(p, s) : \A h \in Free(p, s) : i <= h IN
    IF s.over THEN s
    ELSE IF Free(p, s) = {} \/ s.chan[k].stream # None THEN [s EXCEPT !.over = TRUE]
    ELSE [s EXCEPT !.chan[k].stream = i, !.reg[i] = k]

\* assignDataChannels, which leaves the list as it is when it throws.
Assign(p, s) ==
    LET q == s.unassigned
        f[j \in 0 .. Len(q)] == IF j = 0 THEN s ELSE AssignOne(p, f[j - 1], q[j])
        t == f[Len(q)]
    IN  IF t.over THEN t ELSE [t EXCEPT !.unassigned = <<>>]

\* IncomingDataChannel::processOpenMessage, DataChannel::incoming
Incoming(s, k, m) ==
    LET t == Send(s, Msg("ack", s.chan[k].stream, k, 0)) IN
    IF s.chan[k].closed THEN s
    ELSE CASE m.type = "open" /\ s.chan[k].kind = "in" ->
                IF t.shut THEN t ELSE [t EXCEPT !.chan[k].open = TRUE]
           [] m.type = "ack" -> [s EXCEPT !.chan[k].open = TRUE]
           [] m.type = "reset" -> Close(s, k)
           [] m.type = "data" -> [s EXCEPT !.chan[k].got = @ \cup {m.n}]
           [] OTHER -> s

\* Mutant: a channel keeps its stream after the reset.
ForwardKeepsStream(p, s, m) ==
    LET i == m.stream
        k == s.reg[i] IN
    IF m.type = "open" /\ k = 0
    THEN Incoming([s EXCEPT !.reg[i] = m.k,
                            !.chan[m.k] = [NewChan EXCEPT !.kind = "in", !.stream = i, !.bound = TRUE]],
                  m.k, m)
    ELSE IF k = 0 THEN s ELSE Incoming(s, k, m)

\* PeerConnection::forwardMessage: by stream identifier.
ForwardMessage(p, s, m) ==
    LET i == m.stream
        k == s.reg[i] IN
    IF m.type = "open"
    THEN IF k # 0 THEN (IF s.chan[k].closed THEN CloseStream(s, i) ELSE Close(s, k))
         ELSE IF i % 2 = Parity(p) THEN CloseStream(s, i)
         ELSE Incoming([s EXCEPT !.reg[i] = m.k,
                                 !.chan[m.k] = [NewChan EXCEPT !.kind = "in", !.stream = i,
                                                               !.bound = TRUE]], m.k, m)
    ELSE IF k = 0 THEN (IF m.type = "reset" THEN s ELSE CloseStream(s, i))
    ELSE IF m.type = "reset" THEN Incoming([s EXCEPT !.reg[i] = 0], k, m)
    ELSE Incoming(s, k, m)

\* processNotification, SCTP_STREAM_RESET_EVENT: of an incoming stream only its
\* number is known, and whatever channel has it by now gets the reset.
StreamReset(p, s, i) == ForwardMessage(p, s, Msg("reset", i, 0, 0))

\* processNotification, SCTP_ASSOC_CHANGE: the association is over; remoteCloseDataChannels. What
\* is still queued stays where it is and is of no more use.
Disconnect(s) ==
    [CloseAll(s, Registered(s)) EXCEPT !.sctp = "disconnected", !.wire = <<>>, !.flush = FALSE,
                                       !.sendq = <<>>, !.task = FALSE, !.todo = {}]

-----------------------------------------------------------------------------
(* The application of a peer. *)

Update(p, s) == peer' = [peer EXCEPT ![p] = s]

\* SCTP has come up and openDataChannels is not over.
Opening(s) == s.sctp = "up" \/ s.task \/ s.todo # {}

\* emplaceDataChannel; if SCTP is connected, assigned and opened at once. When
\* that throws the new channel is destroyed, and its entry in the list is void.
CreateDataChannel(p) ==
    LET k == made + 1
        s == [peer[p] EXCEPT !.chan[k].kind = "out", !.unassigned = Append(@, k)]
        t == Assign(p, s)
    IN  /\ made < MaxChans
        /\ MayRace \/ ~Opening(peer[p])
        /\ made' = k
        /\ IF s.sctp \notin {"up", "connected"} THEN Update(p, s)
           ELSE IF t.over
           THEN Update(p, [t EXCEPT !.chan[k] = [Close(t, k).chan[k] EXCEPT !.byApp = TRUE],
                                    !.unassigned = peer[p].unassigned])
           ELSE Update(p, Open(t, k))
        /\ UNCHANGED <<sent, lost>>

\* DataChannel::outgoing throws on a closed or unbound channel.
SendMessage(p, k) ==
    LET c == peer[p].chan[k]
        n == Len(sent) + 1 IN
    /\ c.kind # "none" /\ c.bound /\ ~c.closed /\ c.stream # None
    /\ n <= MaxMsgs /\ p \in Senders
    /\ sent' = Append(sent, [peer |-> p, k |-> k, lost |-> peer[p].stopped
                                   \/ peer[p].sctp \notin {"up", "connected"}])
    /\ Update(p, Send(peer[p], Msg("data", c.stream, k, n)))
    /\ UNCHANGED <<made, lost>>

\* DataChannel::close, or the destructor when the handle is deleted.
CloseChannel(p, k) ==
    /\ peer[p].chan[k].kind # "none" /\ ~peer[p].chan[k].closed
    /\ MayRace \/ ~Opening(peer[p])
    /\ Update(p, [Close(peer[p], k) EXCEPT !.chan[k].byApp = TRUE])
    /\ UNCHANGED <<made, sent, lost>>

\* The application sets a threshold, finds the amount above it and waits for
\* onBufferedAmountLow; it may change its mind while it waits.
SetThreshold(p, k, v) ==
    LET c == peer[p].chan[k] IN
    /\ c.kind # "none" /\ ~c.closed /\ c.amount > v
    /\ Update(p, [peer[p] EXCEPT !.chan[k].threshold = v, !.chan[k].waits = TRUE])
    /\ UNCHANGED <<made, sent, lost>>

\* PeerConnection::close as far as SCTP is concerned: SctpTransport::close.
ClosePeer(p) ==
    /\ p \in Stoppers /\ ~peer[p].stopped /\ peer[p].sctp = "connected"
    /\ Update(p, [peer[p] EXCEPT !.stopped = TRUE, !.flush = TRUE])
    /\ UNCHANGED <<made, sent, lost>>

-----------------------------------------------------------------------------
(* The processors. *)

\* SCTP_COMM_UP: the state first, then its callback assigns the streams and
\* queues openDataChannels, unless assignDataChannels throws.
Connect(p) ==
    /\ UNCHANGED <<made, sent, lost>>
    /\ \/ /\ peer[p].sctp = "connecting"
          /\ Update(p, [peer[p] EXCEPT !.sctp = "up"])
       \/ /\ peer[p].sctp = "up"
          /\ LET t == Assign(p, peer[p]) IN
             Update(p, [t EXCEPT !.sctp = "connected", !.task = ~t.over])

\* openDataChannels: which channels, then one by one.
OpenDataChannels(p) ==
    LET s == peer[p] IN
    /\ UNCHANGED <<made, sent, lost>>
    /\ \/ /\ s.task
          /\ Update(p, [s EXCEPT !.task = FALSE, !.todo = Registered(s)])
       \/ \E k \in s.todo :
            LET t == [s EXCEPT !.todo = @ \ {k}] IN
            /\ \A j \in s.todo : s.chan[k].stream <= s.chan[j].stream
            /\ Update(p, IF s.chan[k].kind = "in" \/ (s.chan[k].open /\ ~s.chan[k].closed)
                         THEN t ELSE Open(t, k))

\* doFlush and flush
Flush(p) ==
    /\ peer[p].flush
    /\ Update(p, LET t == [peer[p] EXCEPT !.flush = FALSE] IN
                 IF t.sctp \in {"up", "connected"} THEN TrySendQueue(t) ELSE t)
    /\ UNCHANGED <<made, sent, lost>>

\* Mutant: room in usrsctp is not passed on.
UpcallLost(s) == s

\* handleUpcall, enqueueFlush: usrsctp has room again.
Upcall(s) == EnqueueFlush(s)

\* There is a message for p. A shut down association ends when both sides have
\* delivered what they had.
CanReceive(p) ==
    LET w == peer[Other(p)].wire
        v == peer[p].wire IN
    /\ w # <<>> /\ peer[p].sctp = "connected"
    /\ Head(w).type = "shutdown" => \A j \in DOMAIN v : v[j].type = "shutdown"

\* doRecv: the first message on the wire arrives.
Receive(p) ==
    LET q == Other(p)
        m == Head(peer[q].wire)
        rest == [peer[q] EXCEPT !.wire = Tail(@)] IN
    /\ CanReceive(p)
    /\ peer' = IF m.type = "shutdown"
               THEN [peer EXCEPT ![p] = Disconnect(@),
                                 ![q] = Disconnect(@)]
               ELSE [peer EXCEPT ![p] = IF m.type = "reset" THEN StreamReset(p, @, m.stream)
                                        ELSE ForwardMessage(p, @, m),
                                 ![q] = Upcall(rest)]
    /\ UNCHANGED <<made, sent, lost>>

\* The association breaks down at both ends.
Lose ==
    /\ ~lost /\ lost' = TRUE
    /\ \A p \in Peers : peer[p].sctp = "connected"
    /\ peer' = [p \in Peers |-> Disconnect(peer[p])]
    /\ UNCHANGED <<made, sent>>

Processors(p) == Connect(p) \/ OpenDataChannels(p) \/ Flush(p)

\* What the applications do after the end of the association is left out.
Ended == \E p \in Peers : peer[p].sctp = "disconnected"

Application(p) ==
    /\ ~Ended
    /\ \/ CreateDataChannel(p) \/ ClosePeer(p)
       \/ \E k \in Chans : SendMessage(p, k) \/ CloseChannel(p, k)
                             \/ \E v \in 0 .. MaxMsgs - 1 : SetThreshold(p, k, v)

Next ==
    \/ \E p \in Peers : Application(p) \/ Processors(p) \/ Receive(p)
    \/ Lose

Spec == Init /\ [][Next]_vars

-----------------------------------------------------------------------------
\* What a channel receives was sent on the same channel at the other peer,
\* although identifiers are used again and both peers hand them out.
NoStray ==
    \A p \in Peers, k \in Chans : \A n \in peer[p].chan[k].got :
        sent[n].peer = Other(p) /\ sent[n].k = k

\* mBufferedAmount is what mSendQueue holds for each stream, until the queue
\* is stopped (a message it swallows then stays counted).
AmountIsExact ==
    \A p \in Peers : ~peer[p].stopped /\ ~Ended =>
        \A i \in Streams : peer[p].amount[i] = Sized(peer[p].sendq, i)

\* A channel that no application closed stays open while the association
\* does, whatever happens to the stream identifiers meanwhile.
StaysOpen ==
    \A p \in Peers, k \in Chans :
        peer[p].chan[k].closed => (\E q \in Peers : peer[q].chan[k].byApp) \/ Ended

\* Nothing is on its way: what has not happened by now never will.
Quiet ==
    \A p \in Peers :
        ~Opening(peer[p]) /\ ~peer[p].flush /\ ~CanReceive(p) /\ peer[p].sctp # "connecting"

\* A closed channel gives its identifier back at both ends: neither peer runs
\* out of them, unless it was closed before it was opened.
StreamIsFreed ==
    Quiet /\ ~Ended =>
        \A p \in Peers, i \in Streams :
            LET k == peer[p].reg[i] IN
            k = 0 \/ ~peer[p].chan[k].bound \/ ~peer[p].chan[k].closed

\* The receiver has done nothing to lose message n, and it has not arrived.
Owed(n) ==
    /\ ~sent[n].lost /\ ~lost
    /\ LET q == peer[Other(sent[n].peer)] IN
        ~q.stopped /\ ~q.chan[sent[n].k].byApp /\ n \notin q.chan[sent[n].k].got

\* A message that was accepted arrives, even if the sender closes the channel
\* or the connection right after it.
AcceptedArrives == Quiet \/ Ended => \A n \in DOMAIN sent : ~Owed(n)

\* An application that finds bufferedAmount above its threshold and waits for
\* onBufferedAmountLow hears of it, whatever else it sends meanwhile: nobody
\* waits when the queue has nothing left to do.
LowIsReported ==
    Quiet /\ ~Ended =>
        \A p \in Peers, k \in Chans : peer[p].chan[k].waits => peer[p].chan[k].closed
=============================================================================
