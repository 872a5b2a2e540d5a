----------------------------- MODULE Transports -----------------------------
(***************************************************************************)
(* The transports of one PeerConnection, ICE below DTLS below SCTP, from   *)
(* initIceTransport to the TearDownProcessor. The threads: the application *)
(* (close), the ICE agent (its state changes start DTLS), the pool worker  *)
(* in DtlsTransport::doRecv (the handshake, the packets for SCTP, the end  *)
(* of the handshake starts SCTP), SCTP's processor, the connection's own   *)
(* processor and the TearDownProcessor. A function below is one critical   *)
(* section; emplaceTransport, close and the wait in SctpTransport::incoming*)
(* take several steps of their thread. The state is one record. Packets    *)
(* are "data" or "bye" (close notify), and a queue is empty or the kind of *)
(* its last packet: DTLS does not rely on their number.                    *)
(***************************************************************************)
EXTENDS Integers, Sequences

CONSTANT MaxTimers   \* bound: handshake timers set

ASSUME ConstantsAssumption == MaxTimers \in Nat

Layers == {"ice", "dtls", "sctp"}
Tasks == {"report", "remoteClose"}

VARIABLE x
vars == <<x>>

Init ==
    x = [state |-> "new",     \* PeerConnection::state
         closing |-> FALSE,
         callback |-> TRUE,   \* stateChangeCallback is set
         tasks |-> {},        \* what the connection's mProcessor has to do
         reported |-> "open", \* the last the application heard: "closed", "late"?
         member |-> {},       \* mIceTransport, mDtlsTransport, mSctpTransport set
         life |-> [l \in Layers |-> "none"],
         st |-> [l \in Layers |-> "disconnected"],  \* Transport::mState
         cb |-> {},           \* layers with an mStateChangeCallback
         recv |-> {},         \* layers whose mRecvCallback is the layer above
         held |-> [l \in Layers |-> "none"],           \* mPendingRecv
         tear |-> {},         \* transports handed to the TearDownProcessor
         app |-> "idle", ice |-> "idle",            \* where these threads are
         worker |-> "idle",
         inq |-> "none", inqOpen |-> TRUE,            \* DTLS mIncomingQueue
         jobs |-> 0, pending |-> 0, timers |-> 0, set |-> 0, \* doRecv in the pool, mPendingRecvCount
         written |-> FALSE,   \* SCTP mWrittenOnce
         answered |-> FALSE,  \* the remote peer's SCTP has been heard
         flushing |-> FALSE, shut |-> FALSE,  \* SCTP's processor, mSendShutdown
         missed |-> FALSE,    \* history: a notification the worker missed
         threw |-> FALSE]     \* history: SctpTransport::start threw

-----------------------------------------------------------------------------
(* PeerConnection: its state and what reacts to the transports' states. *)

\* The order of the tasks, reports of states and calls of remoteClose, is left
\* open, and one call stands for several.
Enqueue(y, t) == [y EXCEPT !.tasks = @ \cup {t}]

\* Mutant: the callback stays after Closed has been reported.
ChangeStateKeeps(y, s) ==
    IF y.state \in {"closed", s} THEN y
    ELSE IF s = "closed" THEN [y EXCEPT !.state = s, !.reported = "closed"]
    ELSE Enqueue([y EXCEPT !.state = s], "report")

\* changeState: Closed is final, reported at once and the last to be reported.
ChangeState(y, s) ==
    IF y.state \in {"closed", s} THEN y
    ELSE IF s = "closed"
    THEN [y EXCEPT !.state = s, !.callback = FALSE,
                    !.reported = IF y.callback THEN "closed" ELSE @]
    ELSE Enqueue([y EXCEPT !.state = s], "report")

\* DtlsTransport::enqueueRecv
EnqueueRecv(y) ==
    IF y.pending > 0 THEN y ELSE [y EXCEPT !.pending = @ + 1, !.jobs = @ + 1]

\* Transport::onRecv with no callback: what was kept is dropped.
Unregister(y, l) == [y EXCEPT !.recv = @ \ {l}, !.held[l] = "none"]

\* DtlsTransport::stop, also the first thing its destructor does.
StopDtls(y) == EnqueueRecv([Unregister(y, "ice") EXCEPT !.inqOpen = FALSE])

\* notify_all without mWriteMutex: a worker that has tested but not begun to
\* sleep misses it.
Wake(y) ==
    CASE y.worker = "asleep" -> [y EXCEPT !.worker = "awake"]
      [] y.worker = "falling" -> [y EXCEPT !.missed = TRUE]
      [] OTHER -> y

\* The state callbacks of initIceTransport, initDtlsTransport and
\* initSctpTransport. The ICE thread goes on to start DTLS, the worker SCTP.
OnTransportState(y, l, s) ==
    IF s \in {"failed", "disconnected"} THEN Enqueue(ChangeState(y, s), "remoteClose")
    ELSE IF l = "ice" /\ s = "connecting" THEN ChangeState(y, "connecting")
    ELSE IF l = "ice" /\ s = "connected" THEN [y EXCEPT !.ice = "loadIce"]
    ELSE IF l = "dtls" /\ s = "connected" THEN [y EXCEPT !.worker = "loadDtls"]
    ELSE IF l = "sctp" /\ s = "connected" THEN ChangeState(y, s)
    ELSE y

\* Transport::changeState
SetState(y, l, s) ==
    IF y.st[l] = s THEN y
    ELSE IF l \in y.cb THEN OnTransportState([y EXCEPT !.st[l] = s], l, s)
    ELSE [y EXCEPT !.st[l] = s]

\* SctpTransport::close; its state change is not under mWriteMutex.
StopSctp(y) ==
    CASE y.st.sctp = "connected" -> [y EXCEPT !.flushing = TRUE]
      [] y.st.sctp = "connecting" -> Wake(SetState(y, "sctp", "failed"))
      [] OTHER -> y

Stop(y, l) ==
    CASE l = "sctp" -> StopSctp(y) [] l = "dtls" -> StopDtls(y) [] OTHER -> y

\* closeTransports: the pointers go to the TearDownProcessor, callbacks off.
CloseTransports(y) ==
    IF y.state = "closed" THEN y
    ELSE [ChangeState(y, "closed") EXCEPT
            !.tear = y.member, !.member = {}, !.cb = @ \ y.member]

\* remoteClose after its close(): tear down even if SCTP has not finished.
FinishClose(y) ==
    IF y.state = "closed" THEN y ELSE CloseTransports(y)

\* close: SCTP is shut down first, and its end closes the rest.
Close(y) ==
    LET z == [y EXCEPT !.closing = TRUE] IN
    IF y.closing THEN y
    ELSE IF "sctp" \in y.member THEN Stop(z, "sctp") ELSE FinishClose(z)

RemoteClose(y) == FinishClose(Close(y))

-----------------------------------------------------------------------------
(* Lifetimes. A transport lives while someone holds a shared_ptr to it: the
   connection, a tear-down, the transport above, a thread that emplaces it or
   runs one of its tasks. *)

Held(y, l) ==
    \/ l \in y.member
    \/ l \in y.tear
    \/ l = "ice" /\ (y.life.dtls = "live" \/ y.app \in {"startIce", "checkIce"}
                       \/ y.ice = "newDtls")
    \/ l = "dtls" /\ (y.life.sctp \in {"live", "dying"} \/ y.ice \in {"startDtls", "checkDtls"}
                       \/ y.worker # "idle")
    \/ l = "sctp" /\ (y.worker \in {"startSctp", "checkSctp"} \/ y.flushing)

\* The worker is inside SctpTransport::incoming.
InIncoming(y) == y.worker \in {"testing", "falling", "asleep", "awake"}

\* Mutant: the destructor leaves the worker in incoming() alone.
DestroySilently(y, l) ==
    IF l = "sctp" THEN [y EXCEPT !.life[l] = "dying", !.cb = @ \ {l}]
    ELSE [StopDtls(y) EXCEPT !.life[l] = "dead", !.recv = @ \ {"ice"}, !.cb = @ \ {l}]

\* Mutant: the destructor does not unregister from the layer below.
DestroyRegistered(y, l) ==
    IF l = "sctp" THEN StopDtls([y EXCEPT !.life[l] = "dead", !.cb = @ \ {l}])
    ELSE [y EXCEPT !.life[l] = "dead", !.cb = @ \ {l}, !.jobs = 0, !.timers = 0]

\* ~SctpTransport as far as it has to wait for a worker inside incoming();
\* ~DtlsTransport and ~Transport. Jobs that are left find DTLS gone.
Destroy(y, l) ==
    IF l = "sctp"
    THEN Wake([y EXCEPT !.life[l] = "dying", !.cb = @ \ {l}, !.written = TRUE])
    ELSE [Unregister(y, "ice") EXCEPT
                   !.life[l] = "dead", !.cb = @ \ {l}, !.inqOpen = FALSE, !.inq = "none", !.jobs = 0, !.timers = 0, !.set = 0, !.pending = 0]

Reap(y, l) == IF y.life[l] = "live" /\ ~Held(y, l) THEN Destroy(y, l) ELSE y

\* A step of a thread, with the destructors it runs.
Step(y) ==
    \E a \in {y} : \E b \in {Reap(a, "sctp")} : \E c \in {Reap(b, "dtls")} :
        x' = Reap(c, "ice")

New(y, l) == [y EXCEPT !.life[l] = "live", !.cb = @ \cup {l}, !.member = @ \cup {l}]

\* The constructors: libjuice, MbedTLS or usrsctp may refuse (no memory, no
\* port, an option that is not accepted), and then initXTransport fails the
\* connection. The base ~Transport has run by then: it takes the callback of
\* the layer below away, with the packets kept for it, and stops that layer.
NewIce(y) == {[New(y, "ice") EXCEPT !.app = "checkIce"], ChangeState(y, "failed")}

NewDtls(y) ==
    {[New(y, "dtls") EXCEPT !.ice = "startDtls"],
     [ChangeState(Unregister(y, "ice"), "failed")
        EXCEPT !.ice = "idle"]}

NewSctp(y) ==
    {[New(y, "sctp") EXCEPT !.worker = "startSctp"],
     [ChangeState(StopDtls(Unregister(y, "dtls")), "failed")
        EXCEPT !.worker = "read"]}

\* emplaceTransport, after start: closing while it started undoes it.
Check(y, l) ==
    IF y.closing \/ y.state = "closed" THEN Stop([y EXCEPT !.member = @ \ {l}], l) ELSE y

-----------------------------------------------------------------------------
(* The application: the first setLocalDescription makes the ICE transport. *)

InitIce ==
    \/ /\ x.app = "idle" /\ x.life.ice = "none" /\ x.state # "closed"
       /\ \E y \in NewIce(x) : Step(y)
    \/ /\ x.app = "checkIce"
       /\ Step([Check(x, "ice") EXCEPT !.app = "idle"])

\* The application closes: the flag and what follows are two steps.
CallClose ==
    \/ /\ x.app = "idle" /\ ~x.closing
       /\ Step([x EXCEPT !.closing = TRUE, !.app = "close"])
    \/ /\ x.app = "close"
       /\ Step([(IF "sctp" \in x.member THEN StopSctp(x) ELSE FinishClose(x))
                  EXCEPT !.app = "idle"])

-----------------------------------------------------------------------------
(* The ICE agent's thread: StateChangeCallback, RecvCallback, and the start of
   DTLS in the callback. *)

\* The agent's states; Completed changes nothing here and goes with Connected.
\* An answer that comes after the connectivity timer has expired connects an
\* agent that has failed; one that lost its connection is not followed further.
IceFollows(y) ==
    CASE y.st.ice = "disconnected" -> {"connecting"}
      [] y.st.ice = "connecting" -> {"connected", "failed"}
      [] y.st.ice = "connected" -> {"failed"}
      [] OTHER -> IF y.life.dtls = "none" THEN {"connected"} ELSE {}

IceChanges(s) ==
    /\ x.ice = "idle" /\ x.life.ice = "live" /\ s \in IceFollows(x)
    /\ Step(SetState(x, "ice", s))

\* Transport::recv: without a callback up to 8 packets are kept.
Receive(y, l, m) == [y EXCEPT !.held[l] = m]

\* DtlsTransport::incoming
Incoming(y, m) ==
    IF m = "none" THEN y
    ELSE EnqueueRecv(IF y.inqOpen THEN [y EXCEPT !.inq = m] ELSE y)

Packet(m) ==
    /\ x.ice = "idle" /\ x.life.ice = "live" /\ x.st.ice = "connected"
    /\ "bye" \notin {x.inq, x.held["ice"]}
    /\ Step(IF "ice" \in x.recv THEN Incoming(x, m) ELSE Receive(x, "ice", m))

\* DtlsTransport::start: registerIncoming replays what was kept; the first
\* doRecv starts the handshake.
StartDtls(y) ==
    LET z == Incoming([y EXCEPT !.recv = @ \cup {"ice"}, !.held["ice"] = "none"], y.held["ice"])
    IN  EnqueueRecv(SetState(z, "dtls", "connecting"))

InitDtls ==
    \/ /\ x.ice = "loadIce"
       /\ Step(IF "dtls" \in x.member THEN [x EXCEPT !.ice = "idle"]
               ELSE IF "ice" \in x.member THEN [x EXCEPT !.ice = "newDtls"]
               ELSE [ChangeState(x, "failed") EXCEPT !.ice = "idle"])
    \/ x.ice = "newDtls" /\ \E y \in NewDtls(x) : Step(y)
    \/ x.ice = "startDtls" /\ Step([StartDtls(x) EXCEPT !.ice = "checkDtls"])
    \/ x.ice = "checkDtls" /\ Step([Check(x, "dtls") EXCEPT !.ice = "idle"])

-----------------------------------------------------------------------------
(* The worker in DtlsTransport::doRecv, one at a time (mRecvMutex). *)

\* Mutant: mPendingRecvCount goes down when doRecv is over, not at once.
BeginRecvCounted(y) == y

BeginRecv(y) == [y EXCEPT !.pending = @ - 1]

\* A job, or the timer of the handshake, begins: without the transport, or in
\* another state, it does nothing.
DoRecv ==
    /\ x.worker = "idle"
    /\ \E timer \in BOOLEAN :
        /\ IF timer THEN x.timers > 0 ELSE x.jobs > 0
        /\ LET y == IF timer THEN [x EXCEPT !.timers = @ - 1] ELSE [x EXCEPT !.jobs = @ - 1]
           IN  IF x.life.dtls # "live" THEN Step(y)
               ELSE IF x.st.dtls = "connecting"
               THEN Step([BeginRecv(y) EXCEPT !.worker = "handshake"])
               ELSE IF x.st.dtls = "connected"
               THEN Step([BeginRecv(y) EXCEPT !.worker = "read"])
               ELSE Step(BeginRecv(y))

\* ReadCallback: a packet, nothing yet, or the end once the queue is stopped
\* and empty.
ReadCallback(y) ==
    IF y.inq # "none" THEN y.inq ELSE IF y.inqOpen THEN "wantRead" ELSE "end"

\* mbedtls_ssl_handshake reads what there is. It may want more, and a timer is
\* set; it fails on an alert, a fingerprint that does not match (checkFingerprint)
\* or a stopped queue; or it is done.
Handshake ==
    /\ x.worker = "handshake"
    /\ LET y == [x EXCEPT !.inq = "none", !.worker = "idle"] IN
       \/ /\ x.inqOpen /\ x.set < MaxTimers
          /\ Step([y EXCEPT !.timers = @ + 1, !.set = @ + 1])
       \/ /\ ReadCallback(x) # "wantRead"
          /\ Step(SetState(y, "dtls", "failed"))
       \/ /\ ReadCallback(x) = "data"
          /\ Step(SetState([y EXCEPT !.worker = "read"], "dtls", "connected"))

\* SctpTransport::incoming, once it does not have to wait: a packet reaches
\* usrsctp, no packet means the end of DTLS.
SctpIncoming(y, m) ==
    IF y.st.sctp = "failed" THEN y
    ELSE IF m = "end" THEN SetState(y, "sctp", "disconnected")
    ELSE [y EXCEPT !.answered = TRUE]

\* A packet goes up. SCTP waits with it until it has sent something itself.
GoesUp(y, m, next) ==
    IF "dtls" \notin y.recv
    THEN [(IF m = "end" THEN y ELSE Receive(y, "dtls", m)) EXCEPT !.worker = next]
    ELSE IF ~y.written
    THEN [y EXCEPT !.worker = "testing", !.held["sctp"] = m]
    ELSE [SctpIncoming(y, m) EXCEPT !.worker = next]

\* mbedtls_ssl_read: a packet, nothing yet, or the end of the connection (the
\* remote peer's close notify or the stopped queue), which goes up as well.
Read ==
    /\ x.worker = "read" /\ x.st.dtls = "connected"
    /\ IF ReadCallback(x) = "wantRead" THEN Step([x EXCEPT !.worker = "idle"])
       ELSE IF ReadCallback(x) = "data" THEN Step(GoesUp([x EXCEPT !.inq = "none"], "data", "read"))
       ELSE Step(GoesUp(SetState([x EXCEPT !.inq = "none"], "dtls", "disconnected"), "end", "idle"))

\* The wait in SctpTransport::incoming: the predicate is tested and the worker
\* sleeps under mWriteMutex, but not every change of it is.
Waits ==
    /\ x.worker \in {"testing", "awake"}
    /\ IF x.written \/ x.st.sctp = "failed"
       THEN Step([SctpIncoming([x EXCEPT !.held["sctp"] = "none"], x.held["sctp"]) EXCEPT
                    !.worker = IF x.held["sctp"] = "end" THEN "idle" ELSE "read"])
       ELSE Step([x EXCEPT !.worker = "falling"])

FallsAsleep == x.worker = "falling" /\ Step([x EXCEPT !.worker = "asleep"])

\* SctpTransport::start: what DTLS kept is replayed, SCTP connects.
StartSctp(y) ==
    SetState([y EXCEPT !.recv = @ \cup {"dtls"}, !.held["dtls"] = "none",
                       !.answered = y.held["dtls"] # "none"], "sctp", "connecting")

InitSctp ==
    \/ /\ x.worker = "loadDtls"
       /\ Step(IF "sctp" \in x.member THEN [x EXCEPT !.worker = "read"]
               ELSE IF "dtls" \in x.member THEN [x EXCEPT !.worker = "newSctp"]
               ELSE [ChangeState(x, "failed") EXCEPT !.worker = "read"])
    \/ x.worker = "newSctp" /\ \E y \in NewSctp(x) : Step(y)
    \/ x.worker = "startSctp" /\ Step([StartSctp(x) EXCEPT !.worker = "checkSctp"])
    \/ x.worker = "checkSctp" /\ Step([Check(x, "sctp") EXCEPT !.worker = "read"])
    \/ /\ x.worker = "startSctp"
       /\ Step([ChangeState([x EXCEPT !.member = @ \ {"sctp"}], "failed")
                  EXCEPT !.worker = "read", !.threw = TRUE])

-----------------------------------------------------------------------------
(* SCTP: usrsctp's notifications and writes, and its processor. *)

\* handleWrite, under mWriteMutex: not while the worker tests and falls asleep.
SctpWrites ==
    /\ x.life.sctp = "live" /\ x.st.sctp = "connecting" /\ ~x.written
    /\ x.st.dtls = "connected" /\ x.st.ice = "connected"
    /\ x.worker # "falling"
    /\ Step(Wake([x EXCEPT !.written = TRUE]))

\* processNotification: the association is up, once both have been heard.
SctpUp ==
    /\ x.life.sctp = "live" /\ x.st.sctp = "connecting" /\ x.written /\ x.answered
    /\ Step(SetState(x, "sctp", "connected"))

\* processNotification: the association is over, or never came up.
SctpLost ==
    /\ x.life.sctp = "live" /\ x.st.sctp \in {"connecting", "connected"}
    /\ Step(Wake(SetState(x, "sctp", IF x.st.sctp = "connected" THEN "disconnected" ELSE "failed")))

\* The rest of ~SctpTransport: unregisterIncoming waits for the callback that
\* runs, and ~Transport stops the DTLS transport.
SctpDies ==
    /\ x.life.sctp = "dying" /\ ~InIncoming(x)
    /\ Step(StopDtls([Unregister(x, "dtls") EXCEPT !.life["sctp"] = "dead"]))

\* flush after close: the queue is empty, usrsctp_shutdown.
SctpTask ==
    /\ x.flushing
    /\ Step([x EXCEPT !.flushing = FALSE, !.shut = @ \/ x.st.sctp = "connected"])

-----------------------------------------------------------------------------
(* The processors. *)

\* trigger<State> and remoteClose; openDataChannels and closeDataChannels,
\* which run there too, do not touch the transports.
RunTask(t) ==
    /\ t \in x.tasks
    /\ LET y == [x EXCEPT !.tasks = @ \ {t}] IN
        Step(IF t = "remoteClose" THEN RemoteClose(y)
             ELSE IF ~y.callback THEN y
             ELSE [y EXCEPT !.reported = IF @ = "open" THEN @ ELSE "late"])

\* The task of closeTransports stops the topmost transport and lets go of all.
TearDown ==
    /\ x.tear # {}
    /\ LET top == CASE "sctp" \in x.tear -> "sctp" [] "dtls" \in x.tear -> "dtls" [] OTHER -> "ice"
       IN  Step([Stop(x, top) EXCEPT !.tear = {}])

Worker ==
    DoRecv \/ Handshake \/ Read \/ Waits \/ FallsAsleep \/ InitSctp

Next ==
    \/ InitIce \/ CallClose
    \/ \E s \in {"connecting", "connected", "failed"} : IceChanges(s)
    \/ \E m \in {"data", "bye"} : Packet(m)
    \/ InitDtls \/ Worker
    \/ SctpWrites \/ SctpUp \/ SctpLost \/ SctpTask \/ SctpDies \/ TearDown
    \/ \E t \in Tasks : RunTask(t)

Spec == Init /\ [][Next]_vars

\* Threads that can go on do; the agent, the remote peer and the application
\* need not act, but SCTP's timers end an association that is shut down.
FairSpec ==
    /\ Spec
    /\ WF_vars(x.app # "idle" /\ (InitIce \/ CallClose))
    /\ WF_vars(InitDtls) /\ WF_vars(Worker)
    /\ WF_vars(SctpTask) /\ WF_vars(SctpDies) /\ WF_vars(TearDown)
    /\ WF_vars((x.shut \/ x.st.sctp = "connecting") /\ SctpLost)
    /\ \A t \in Tasks : WF_vars(RunTask(t))

-----------------------------------------------------------------------------
\* The application hears of Closed at most once and of nothing after it,
\* although states of several threads are on their way to it (changeState).
ClosedIsLast == x.reported # "late"

\* The receive callback of a transport never points to a transport that is
\* gone: packets come in on threads that outlive the layer above.
TargetIsAlive ==
    /\ "ice" \in x.recv => x.life.dtls = "live"
    /\ "dtls" \in x.recv => x.life.sctp \in {"live", "dying"}

\* No packet waits in mIncomingQueue without a doRecv to come for it, whatever
\* the timers of the handshake do to mPendingRecvCount.
NoLostWakeup ==
    x.inq # "none" /\ x.life.dtls = "live" /\ x.st.dtls \in {"connecting", "connected"}
      => x.jobs + x.timers > 0 \/ x.worker # "idle"

Gone == \A l \in Layers : x.life[l] \in {"none", "dead"}

\* Closing ends: from any point of the set-up, the connection reaches Closed
\* and every transport is destroyed, the worker that waits in SCTP's incoming()
\* released, unless it missed the notification or SctpTransport::start threw.
CloseEnds ==
    x.closing ~> (x.state = "closed" /\ Gone /\ x.worker = "idle") \/ x.missed \/ x.threw

\* The destructor of SCTP does not leave the worker blocked in incoming(), as
\* its comment says it makes sure of.
WorkerIsReleased == x.life.sctp = "dying" ~> x.worker # "asleep"
=============================================================================
