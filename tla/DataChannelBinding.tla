------------------------- MODULE DataChannelBinding -------------------------
(***************************************************************************)
(* One data channel, from libdatachannel's receiving threads through the   *)
(* C binding to the Haxe object: rtc::impl::Channel and DataChannel with   *)
(* their callbacks, hl_rtc_make_datachannel, and RTCDataChannel.           *)
(*                                                                         *)
(* Three threads meet here. "sctp" is the SCTP transport's processor,      *)
(* which receives; "proc" is the peer connection's processor, which opens  *)
(* and closes channels; "app" is the application's thread, which creates   *)
(* or adopts the channel, installs the callbacks one by one and runs       *)
(* process_events. The binding's event queue is the FIFO channel that      *)
(* EventQueue is shown to implement: posted holds every event ever queued, *)
(* the first taken of which have reached their closure.                    *)
(***************************************************************************)
EXTENDS Integers, Sequences

CONSTANTS Kinds,     \* how the channel may come to be, a subset of AllKinds
          MaxMsg,    \* bound: messages received
          MayClose   \* whether the channel may be closed at all

\* "early": created by the application before the descriptions are exchanged;
\* "late": created by the application at any time, SCTP connected or not;
\* "in": opened by the remote peer.
AllKinds == {"early", "late", "in"}

ASSUME ConstantsAssumption ==
    /\ Kinds \subseteq AllKinds
    /\ MaxMsg \in Nat
    /\ MayClose \in BOOLEAN

Threads == {"app", "sctp", "proc"}

\* Where a thread may stand: the application's own labels, then those of the
\* functions that several threads run.
Labels == {"start", "setOpen", "setClosed", "setMessage", "attach", "loop",
           "idle", "accept", "ack", "trigger", "openCb", "flush", "more", "call",
           "close", "closedCb", "resetOpen", "resetClosed", "resetMessage"}

OpenEvent == [ev |-> "open", n |-> 0]
ClosedEvent == [ev |-> "closed", n |-> 0]
MessageEvent(n) == [ev |-> "message", n |-> n]
Events == [ev : {"open", "closed", "message"}, n : 0 .. MaxMsg]

VARIABLES
    kind,           \* which of Kinds this channel is
    stage,          \* its stream: none, created, assigned, OPEN sent (or got)
    removed,        \* a Reset has unregistered its stream
    isOpen,         \* mIsOpen
    isClosed,       \* mIsClosed
    openTriggered,  \* mOpenTriggered
    recvQueue,      \* mRecvQueue; messages are numbered as they are received
    received,       \* history: messages pushed on mRecvQueue
    openCallback, closedCallback, messageCallback,
    storedOpen,     \* openCallback has a missed call to replay
    storedClosed,   \* closedCallback has one
    announced,      \* dataChannelCallback has queued the channel
    attached,       \* hldc->openCb, ... are set (set_datachannel_callbacks)
    posted, taken,  \* the event queue
    hx,             \* RTCDataChannel.state
    pc,             \* per thread: where it stands
    next            \* per thread: flushPendingMessages' local variable next

nativeVars == <<stage, removed, isOpen, isClosed>>
recvVars == <<recvQueue, received, next>>
cbVars == <<openCallback, closedCallback, messageCallback>>
storedVars == <<storedOpen, storedClosed>>
bindingVars == <<announced, attached, hx, taken>>
vars == <<kind, nativeVars, openTriggered, recvVars, cbVars, storedVars,
          bindingVars, posted, pc>>

TypeOK ==
    /\ kind \in Kinds
    /\ stage \in {"none", "created", "assigned", "sent"}
    /\ removed \in BOOLEAN
    /\ isOpen \in BOOLEAN
    /\ isClosed \in BOOLEAN
    /\ openTriggered \in BOOLEAN
    /\ recvQueue \in Seq(1 .. MaxMsg)
    /\ received \in 0 .. MaxMsg
    /\ openCallback \in {"none", "announce", "binding"}
    /\ closedCallback \in {"none", "binding"}
    /\ messageCallback \in {"none", "binding"}
    /\ storedOpen \in BOOLEAN
    /\ storedClosed \in BOOLEAN
    /\ announced \in BOOLEAN
    /\ attached \in BOOLEAN
    /\ posted \in Seq(Events)
    /\ taken \in 0 .. Len(posted)
    /\ hx \in {"none", "Closed", "Open"}
    /\ pc \in [Threads -> Labels]
    /\ next \in [Threads -> 0 .. MaxMsg]

Init ==
    /\ kind \in Kinds
    /\ stage = "none"
    /\ removed = FALSE
    /\ isOpen = FALSE
    /\ isClosed = FALSE
    /\ openTriggered = FALSE
    /\ recvQueue = <<>>
    /\ received = 0
    /\ openCallback = "none"
    /\ closedCallback = "none"
    /\ messageCallback = "none"
    /\ storedOpen = FALSE
    /\ storedClosed = FALSE
    /\ announced = FALSE
    /\ attached = FALSE
    /\ posted = <<>>
    /\ taken = 0
    /\ hx = "none"
    /\ pc = [t \in Threads |-> IF t = "app" THEN "start" ELSE "idle"]
    /\ next = [t \in Threads |-> 0]

Goto(t, label) == pc' = [pc EXCEPT ![t] = label]
At(t, label) == pc[t] = label

\* The binding's openCallback drops the event while hldc->openCb is NULL.
PostOpen == posted' = IF attached THEN Append(posted, OpenEvent) ELSE posted

(***************************************************************************)
(* The application's thread.                                               *)
(***************************************************************************)

\* rtcCreateDataChannel, with which create_datachannel begins.
Create ==
    /\ At("app", "start") /\ kind # "in"
    /\ stage' = "created"
    /\ Goto("app", "setOpen")
    /\ UNCHANGED <<kind, removed, isOpen, isClosed, openTriggered, recvVars,
                   cbVars, storedVars, bindingVars, posted>>

\* process_events finds the channel that dataChannelCallback queued.
Adopt ==
    /\ At("app", "start") /\ announced
    /\ Goto("app", "setOpen")
    /\ UNCHANGED <<kind, nativeVars, openTriggered, recvVars, cbVars,
                   storedVars, bindingVars, posted>>

\* rtcSetOpenCallback; a missed call is replayed at once, on this thread.
SetOpenCallback ==
    /\ At("app", "setOpen")
    /\ openCallback' = "binding"
    /\ storedOpen' = FALSE
    /\ IF storedOpen THEN PostOpen ELSE posted' = posted
    /\ Goto("app", "setClosed")
    /\ UNCHANGED <<kind, nativeVars, openTriggered, recvVars, bindingVars,
                   closedCallback, messageCallback, storedClosed>>

\* Mutant: setting the callback forgets the missed call, without a replay.
SetClosedCallbackForgets ==
    /\ At("app", "setClosed")
    /\ closedCallback' = "binding"
    /\ storedClosed' = FALSE
    /\ Goto("app", "setMessage")
    /\ UNCHANGED <<kind, nativeVars, openTriggered, recvVars, bindingVars,
                   posted, openCallback, messageCallback, storedOpen>>

\* rtcSetClosedCallback; closedCallback queues the event in any case.
SetClosedCallback ==
    /\ At("app", "setClosed")
    /\ closedCallback' = "binding"
    /\ storedClosed' = FALSE
    /\ posted' = IF storedClosed THEN Append(posted, ClosedEvent) ELSE posted
    /\ Goto("app", "setMessage")
    /\ UNCHANGED <<kind, nativeVars, openTriggered, recvVars, bindingVars,
                   openCallback, messageCallback, storedOpen>>

\* Mutant: setting the message callback does not flush what is pending.
SetMessageCallbackNoFlush ==
    /\ At("app", "setMessage")
    /\ messageCallback' = "binding"
    /\ Goto("app", "attach")
    /\ UNCHANGED <<kind, nativeVars, openTriggered, recvVars, storedVars,
                   bindingVars, posted, openCallback, closedCallback>>

\* rtcSetMessageCallback goes on to flush the pending messages.
SetMessageCallback ==
    /\ At("app", "setMessage")
    /\ messageCallback' = "binding"
    /\ Goto("app", "flush")
    /\ UNCHANGED <<kind, nativeVars, openTriggered, recvVars, storedVars,
                   bindingVars, posted, openCallback, closedCallback>>

\* The constructor says Closed; the peer connection's closure that wraps an
\* incoming channel then says Open.
InitialState == IF kind = "in" THEN "Open" ELSE "Closed"

\* The RTCDataChannel constructor, with set_datachannel_callbacks.
Attach ==
    /\ At("app", "attach")
    /\ attached' = TRUE
    /\ hx' = InitialState
    /\ Goto("app", "loop")
    /\ UNCHANGED <<kind, nativeVars, openTriggered, recvVars, cbVars,
                   storedVars, announced, posted, taken>>

\* process_events calls the closure of the next event.
Deliver ==
    /\ At("app", "loop")
    /\ taken < Len(posted)
    /\ taken' = taken + 1
    /\ hx' = CASE posted[taken'].ev = "open" -> "Open"
               [] posted[taken'].ev = "closed" -> "Closed"
               [] OTHER -> hx
    /\ UNCHANGED <<kind, nativeVars, openTriggered, recvVars, cbVars,
                   storedVars, announced, attached, posted, pc>>

(***************************************************************************)
(* Opening.                                                                *)
(***************************************************************************)

\* SCTP is connected: assignDataChannels. The descriptions that an early
\* channel waits for are exchanged by the application, from its loop.
Assign ==
    /\ stage = "created"
    /\ kind = "early" => At("app", "loop")
    /\ stage' = "assigned"
    /\ UNCHANGED <<kind, removed, isOpen, isClosed, openTriggered, recvVars,
                   cbVars, storedVars, bindingVars, posted, pc>>

\* openDataChannels: OutgoingDataChannel::open sends the OPEN message.
SendOpen ==
    /\ stage = "assigned" /\ ~isClosed
    /\ stage' = "sent"
    /\ UNCHANGED <<kind, removed, isOpen, isClosed, openTriggered, recvVars,
                   cbVars, storedVars, bindingVars, posted, pc>>

\* forwardMessage registers a new incoming channel.
ReceiveOpen ==
    /\ At("sctp", "idle")
    /\ kind = "in" /\ stage = "none"
    /\ stage' = "sent"
    /\ openCallback' = "announce"
    /\ Goto("sctp", "accept")
    /\ UNCHANGED <<kind, removed, isOpen, isClosed, openTriggered, recvVars,
                   storedVars, bindingVars, posted, closedCallback,
                   messageCallback>>

\* triggerDataChannel, the internal openCallback of an incoming channel: it
\* removes itself, dataChannelCallback queues the channel for process_events,
\* and the channel's own triggerOpen follows. A peer connection that is being
\* closed may have reset its dataChannelCallback already.
TriggerDataChannel ==
    /\ openTriggered' = FALSE
    /\ openCallback' = "none"
    /\ \/ announced' = TRUE /\ Goto("sctp", "trigger")
       \/ MayClose /\ announced' = announced /\ Goto("sctp", "flush")
    /\ UNCHANGED storedOpen

\* incoming and IncomingDataChannel::processOpenMessage. A channel that is
\* closed after incoming's test goes on, but when resetCallbacks has removed
\* the internal callback by then, it is never announced.
Accept ==
    /\ At("sctp", "accept")
    /\ \/ /\ isClosed
          /\ Goto("sctp", "idle")
          /\ UNCHANGED <<isOpen, openTriggered, openCallback, storedOpen, announced>>
       \/ /\ openCallback = "announce"
          /\ isOpen' = TRUE
          /\ TriggerDataChannel
       \/ /\ openCallback # "announce"
          /\ isOpen' = TRUE
          /\ openTriggered' = TRUE
          /\ storedOpen' = TRUE
          /\ Goto("sctp", "flush")
          /\ UNCHANGED <<openCallback, announced>>
    /\ UNCHANGED <<kind, stage, removed, isClosed, recvVars, attached, hx, taken,
                   posted, closedCallback, messageCallback, storedClosed>>

\* The remote peer's ACK of an outgoing channel passes incoming's test.
ReceiveAck ==
    /\ At("sctp", "idle")
    /\ kind # "in" /\ stage = "sent" /\ ~removed
    /\ ~isOpen /\ ~isClosed
    /\ Goto("sctp", "ack")
    /\ UNCHANGED <<kind, nativeVars, openTriggered, recvVars, cbVars,
                   storedVars, bindingVars, posted>>

Acknowledge ==
    /\ At("sctp", "ack")
    /\ isOpen' = TRUE
    /\ Goto("sctp", "trigger")
    /\ UNCHANGED <<kind, stage, removed, isClosed, openTriggered, recvVars,
                   cbVars, storedVars, bindingVars, posted>>

\* triggerOpen, in three steps: the flag, the callback, the flush.
TriggerOpen ==
    /\ At("sctp", "trigger")
    /\ openTriggered' = TRUE
    /\ Goto("sctp", "openCb")
    /\ UNCHANGED <<kind, nativeVars, recvVars, cbVars, storedVars,
                   bindingVars, posted>>

\* Mutant: triggerOpen does not call openCallback.
CallOpenCallbackSkipped ==
    /\ At("sctp", "openCb")
    /\ Goto("sctp", "flush")
    /\ UNCHANGED <<kind, nativeVars, openTriggered, recvVars, cbVars,
                   storedVars, bindingVars, posted>>

CallOpenCallback ==
    /\ At("sctp", "openCb")
    /\ \/ openCallback = "binding" /\ PostOpen /\ storedOpen' = storedOpen
       \/ /\ openCallback # "binding"
          /\ storedOpen' = TRUE
          /\ posted' = posted
    /\ Goto("sctp", "flush")
    /\ UNCHANGED <<kind, nativeVars, openTriggered, recvVars, cbVars,
                   bindingVars, storedClosed>>

(***************************************************************************)
(* Messages.                                                               *)
(***************************************************************************)

\* incoming: a message for a channel that is not closed is pushed, then
\* triggerAvailable flushes. Data sent unordered may overtake the ACK.
ReceiveData ==
    /\ At("sctp", "idle")
    /\ stage = "sent" /\ ~removed /\ ~isClosed
    /\ received < MaxMsg
    /\ received' = received + 1
    /\ recvQueue' = Append(recvQueue, received')
    /\ Goto("sctp", "flush")
    /\ UNCHANGED <<kind, nativeVars, openTriggered, next, cbVars, storedVars,
                   bindingVars, posted>>

\* Where the caller of flushPendingMessages goes on.
Done(t) == Goto(t, IF t = "app" THEN "attach" ELSE "idle")

\* flushPendingMessages, on the thread that receives or on the one that sets
\* the callback: nothing before triggerOpen.
FlushPendingMessages(t) ==
    /\ At(t, "flush")
    /\ \/ ~openTriggered /\ Done(t)
       \/ openTriggered /\ Goto(t, "more")
    /\ UNCHANGED <<kind, nativeVars, openTriggered, recvVars, cbVars,
                   storedVars, bindingVars, posted>>

\* Mutant: the message is looked at and not removed.
PopMessagePeeks(t) ==
    /\ At(t, "more")
    /\ \/ /\ messageCallback = "binding" /\ recvQueue # <<>>
          /\ next' = [next EXCEPT ![t] = Head(recvQueue)]
          /\ Goto(t, "call")
       \/ /\ messageCallback = "none" \/ recvQueue = <<>>
          /\ Done(t)
          /\ UNCHANGED next
    /\ UNCHANGED <<kind, nativeVars, openTriggered, received, recvQueue,
                   cbVars, storedVars, bindingVars, posted>>

\* Mutant: the newest message is taken first.
PopMessageNewest(t) ==
    /\ At(t, "more")
    /\ \/ /\ messageCallback = "binding" /\ recvQueue # <<>>
          /\ next' = [next EXCEPT ![t] = recvQueue[Len(recvQueue)]]
          /\ recvQueue' = SubSeq(recvQueue, 1, Len(recvQueue) - 1)
          /\ Goto(t, "call")
       \/ /\ messageCallback = "none" \/ recvQueue = <<>>
          /\ Done(t)
          /\ UNCHANGED <<recvQueue, next>>
    /\ UNCHANGED <<kind, nativeVars, openTriggered, received, cbVars,
                   storedVars, bindingVars, posted>>

\* The loop's test and receive().
PopMessage(t) ==
    /\ At(t, "more")
    /\ \/ /\ messageCallback = "binding" /\ recvQueue # <<>>
          /\ next' = [next EXCEPT ![t] = Head(recvQueue)]
          /\ recvQueue' = Tail(recvQueue)
          /\ Goto(t, "call")
       \/ /\ messageCallback = "none" \/ recvQueue = <<>>
          /\ Done(t)
          /\ UNCHANGED <<recvQueue, next>>
    /\ UNCHANGED <<kind, nativeVars, openTriggered, received, cbVars,
                   storedVars, bindingVars, posted>>

\* messageCallback(*next): a callback reset meanwhile drops the message.
CallMessageCallback(t) ==
    /\ At(t, "call")
    /\ posted' = IF messageCallback = "binding"
                 THEN Append(posted, MessageEvent(next[t])) ELSE posted
    /\ next' = [next EXCEPT ![t] = 0]
    /\ Goto(t, "more")
    /\ UNCHANGED <<kind, nativeVars, openTriggered, recvQueue, received,
                   cbVars, storedVars, bindingVars>>

(***************************************************************************)
(* Closing: DataChannel::close, on the thread that receives (a Reset, or   *)
(* the transport is gone) and on the peer connection's (closeDataChannels).*)
(***************************************************************************)

ReceiveReset ==
    /\ MayClose
    /\ At("sctp", "idle")
    /\ stage = "sent" /\ ~removed
    /\ removed' = TRUE
    /\ IF isClosed THEN UNCHANGED pc ELSE Goto("sctp", "close")
    /\ UNCHANGED <<kind, stage, isOpen, isClosed, openTriggered, recvVars,
                   cbVars, storedVars, bindingVars, posted>>

\* closeDataChannels and remoteCloseDataChannels: the registered channels
\* that are not closed.
CloseDataChannels(t) ==
    /\ MayClose
    /\ At(t, "idle")
    /\ stage \in {"assigned", "sent"} /\ ~removed /\ ~isClosed
    /\ Goto(t, "close")
    /\ UNCHANGED <<kind, nativeVars, openTriggered, recvVars, cbVars,
                   storedVars, bindingVars, posted>>

\* Mutant: mIsClosed is set, not exchanged.
CloseUnchecked(t) ==
    /\ At(t, "close")
    /\ isClosed' = TRUE
    /\ Goto(t, "closedCb")
    /\ UNCHANGED <<kind, stage, removed, isOpen, openTriggered, recvVars,
                   cbVars, storedVars, bindingVars, posted>>

\* mIsClosed.exchange(true)
Close(t) ==
    /\ At(t, "close")
    /\ isClosed' = TRUE
    /\ Goto(t, IF isClosed THEN "idle" ELSE "closedCb")
    /\ UNCHANGED <<kind, stage, removed, isOpen, openTriggered, recvVars,
                   cbVars, storedVars, bindingVars, posted>>

\* triggerClosed
CallClosedCallback(t) ==
    /\ At(t, "closedCb")
    /\ \/ /\ closedCallback = "binding"
          /\ posted' = Append(posted, ClosedEvent)
          /\ UNCHANGED storedClosed
       \/ /\ closedCallback = "none"
          /\ storedClosed' = TRUE
          /\ UNCHANGED posted
    /\ Goto(t, "resetOpen")
    /\ UNCHANGED <<kind, nativeVars, openTriggered, recvVars, cbVars,
                   bindingVars, storedOpen>>

\* resetCallbacks, one callback after the other; stored calls stay.
ResetOpen(t) ==
    /\ At(t, "resetOpen")
    /\ openTriggered' = FALSE
    /\ openCallback' = "none"
    /\ Goto(t, "resetClosed")
    /\ UNCHANGED <<kind, nativeVars, recvVars, storedVars, bindingVars,
                   posted, closedCallback, messageCallback>>

ResetClosed(t) ==
    /\ At(t, "resetClosed")
    /\ closedCallback' = "none"
    /\ Goto(t, "resetMessage")
    /\ UNCHANGED <<kind, nativeVars, openTriggered, recvVars, storedVars,
                   bindingVars, posted, openCallback, messageCallback>>

ResetMessage(t) ==
    /\ At(t, "resetMessage")
    /\ messageCallback' = "none"
    /\ Goto(t, "idle")
    /\ UNCHANGED <<kind, nativeVars, openTriggered, recvVars, storedVars,
                   bindingVars, posted, openCallback, closedCallback>>

-----------------------------------------------------------------------------

Flushing(t) == \/ FlushPendingMessages(t) \/ PopMessage(t)
               \/ CallMessageCallback(t)

Closing(t) == \/ Close(t) \/ CallClosedCallback(t)
              \/ ResetOpen(t) \/ ResetClosed(t) \/ ResetMessage(t)

\* What each thread does once it has begun.
App == \/ Adopt \/ SetOpenCallback \/ SetClosedCallback \/ SetMessageCallback
       \/ Flushing("app") \/ Attach \/ Deliver
Sctp == \/ Accept \/ Acknowledge \/ TriggerOpen \/ CallOpenCallback
        \/ Flushing("sctp") \/ Closing("sctp")
Proc == Closing("proc")

\* What the application, the peer connection and the remote peer begin.
Begin == \/ Create \/ Assign \/ SendOpen
         \/ ReceiveOpen \/ ReceiveAck \/ ReceiveData \/ ReceiveReset
         \/ \E t \in {"sctp", "proc"} : CloseDataChannels(t)

Next == App \/ Sctp \/ Proc \/ Begin

Spec == Init /\ [][Next]_vars

\* The threads keep running, and the application keeps calling process_events.
\* Nothing obliges the remote peer to answer, to send or to close.
Fairness == WF_vars(App) /\ WF_vars(Sctp) /\ WF_vars(Proc)

FairSpec == Spec /\ Fairness

(***************************************************************************)
(* Correctness.                                                            *)
(***************************************************************************)

Delivered(e) == \E i \in 1 .. taken : posted[i] = e

\* "Called when the DataChannel is closed": whichever threads close the
\* channel, and whether that is before, while or after the binding installs
\* its callbacks, onClosed is called at most once.
ClosedOnce ==
    \A i, j \in DOMAIN posted :
        posted[i] = ClosedEvent /\ posted[j] = ClosedEvent => i = j

\* No message reaches onMessage twice, whichever threads flush.
NoDuplicate ==
    \A i, j \in DOMAIN posted :
        posted[i] = posted[j] /\ posted[i].ev = "message" => i = j

\* Messages reach onMessage in the order they were received.
MessagesInOrder ==
    \A i, j \in DOMAIN posted :
        /\ i < j
        /\ posted[i].ev = "message" /\ posted[j].ev = "message"
        => posted[i].n < posted[j].n

\* On a channel wired before the connection one thread alone flushes, so the
\* order holds whatever closes the channel meanwhile.
EarlyInOrder == kind = "early" => MessagesInOrder

\* The channel being closed is reported to the Haxe object, even when it was
\* closed before the callbacks were there.
ClosedIsReported == isClosed /\ attached ~> Delivered(ClosedEvent)

\* The application has or will have the channel. An incoming channel is not
\* announced once the connection has reset its callbacks to close.
Known == kind = "in" => announced

\* "Called when a message is received": every message that libdatachannel
\* accepted reaches onMessage while the channel is not closed; none is stranded
\* in mRecvQueue between a receiving thread that finds no callback and an
\* application that finds no open channel.
MessageIsReported ==
    \A n \in 1 .. MaxMsg :
        received >= n /\ isOpen /\ Known ~> Delivered(MessageEvent(n)) \/ isClosed

\* "The state of this DataChannel": it becomes Open when the channel opens.
StateOpens == isOpen ~> hx = "Open"

\* "Called when the DataChannel is opened".
OnOpenIsCalled == isOpen ~> Delivered(OpenEvent)

\* OnOpenIsCalled for a channel wired before the connection: its open event
\* finds hldc->openCb set and comes through the event queue.
EarlyOnOpen == kind = "early" /\ isOpen ~> Delivered(OpenEvent) \/ isClosed

\* "The state of this DataChannel": after onClosed it is never Open again.
ClosedIsFinal == [][Delivered(ClosedEvent) => hx' # "Open"]_vars

(***************************************************************************)
(* The inductive invariant.                                                *)
(***************************************************************************)

ClosedPosted == \E i \in DOMAIN posted : posted[i] = ClosedEvent

\* The exchange of mIsClosed lets one thread through to triggerClosed, and its
\* call is in one place: still to be made, stored, or posted.
ClosedInv ==
    /\ \A t, u \in Threads : At(t, "closedCb") /\ At(u, "closedCb") => t = u
    /\ \A t \in Threads :
          At(t, "closedCb") => isClosed /\ ~storedClosed /\ ~ClosedPosted
    /\ storedClosed \/ ClosedPosted => isClosed
    /\ storedClosed => ~ClosedPosted

Carries(q, n) == \E i \in DOMAIN q : q[i] = MessageEvent(n)

\* A received message is in one place: mRecvQueue, a flushing thread's local
\* variable, or the event queue.
MessageInv ==
    /\ \A i \in DOMAIN recvQueue :
          /\ recvQueue[i] <= received
          /\ ~Carries(posted, recvQueue[i])
          /\ \A j \in DOMAIN recvQueue : recvQueue[i] = recvQueue[j] => i = j
    /\ \A t \in Threads : At(t, "call") =>
          /\ next[t] \in 1 .. received
          /\ ~Carries(posted, next[t])
          /\ \A i \in DOMAIN recvQueue : recvQueue[i] # next[t]
          /\ \A u \in Threads : At(u, "call") /\ next[u] = next[t] => t = u
    /\ \A i \in DOMAIN posted :
          posted[i].ev = "message" => posted[i].n \in 1 .. received

\* Every message posted is older than message n.
PostedBefore(q, n) == \A i \in DOMAIN q : q[i].ev = "message" => q[i].n < n

\* The stages of an early channel: the application is in its loop, done with
\* setting callbacks, before the channel has a stream. So "sctp" alone flushes,
\* and what is posted, in its hand and in mRecvQueue is in order.
EarlyInv ==
    /\ received # 0 => stage = "sent"
    /\ stage \in {"assigned", "sent"} => At("app", "loop")

OrderInv ==
    /\ \A i, j \in DOMAIN recvQueue : i < j => recvQueue[i] < recvQueue[j]
    /\ \A i \in DOMAIN recvQueue : PostedBefore(posted, recvQueue[i])
    /\ At("sctp", "call") =>
          /\ PostedBefore(posted, next["sctp"])
          /\ \A i \in DOMAIN recvQueue : next["sctp"] < recvQueue[i]
    /\ MessagesInOrder

\* The peer connection's thread does not flush.
ProcInv == pc["proc"] \notin {"flush", "more", "call"}

IInv ==
    /\ TypeOK /\ ClosedInv /\ ClosedOnce /\ MessageInv /\ NoDuplicate
    /\ ProcInv
    /\ kind = "early" => EarlyInv /\ OrderInv
=============================================================================
