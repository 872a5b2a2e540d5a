---------------------- MODULE DataChannelBindingProofs ----------------------
(***************************************************************************)
(* Proofs that, for any number of messages and any kind of channel, the    *)
(* close of a channel is reported at most once and no message twice, and   *)
(* that a channel created before the connection keeps its messages in      *)
(* order.                                                                  *)
(***************************************************************************)
EXTENDS DataChannelBinding, SequenceTheorems, TLAPS

\* Every step is one of these actions; the threads that flush and close are
\* threads. Used to split the proofs below.
LEMMA NextCases ==
    ASSUME [Next]_vars
    PROVE  \/ Adopt \/ SetOpenCallback \/ SetClosedCallback \/ SetMessageCallback
           \/ Attach \/ Deliver
           \/ Accept \/ Acknowledge \/ TriggerOpen \/ CallOpenCallback
           \/ Create \/ Assign \/ SendOpen
           \/ ReceiveOpen \/ ReceiveAck \/ ReceiveData \/ ReceiveReset
           \/ \E t \in Threads : Flushing(t) \/ Closing(t) \/ CloseDataChannels(t)
           \/ UNCHANGED vars
BY DEF Next, App, Sctp, Proc, Begin, Threads

-----------------------------------------------------------------------------

LEMMA InitType == Init => TypeOK
<1> SUFFICES ASSUME Init PROVE TypeOK
    OBVIOUS
<1>1. /\ recvQueue \in Seq(1 .. MaxMsg)
      /\ posted \in Seq(Events)
      /\ Len(posted) = 0
    BY DEF Init
<1>2. /\ pc \in [Threads -> Labels]
      /\ next \in [Threads -> 0 .. MaxMsg]
    BY ConstantsAssumption DEF Init, Threads, Labels
<1>3. /\ {removed, isOpen, isClosed, openTriggered} \subseteq BOOLEAN
      /\ {storedOpen, storedClosed, announced, attached} \subseteq BOOLEAN
    BY Zenon DEF Init
<1>4. kind \in Kinds /\ stage = "none" /\ hx = "none"
      /\ received \in 0 .. MaxMsg /\ taken \in 0 .. Len(posted)
      /\ openCallback = "none" /\ closedCallback = "none"
      /\ messageCallback = "none"
    BY <1>1, ConstantsAssumption DEF Init
<1> QED BY <1>1, <1>2, <1>3, <1>4 DEF TypeOK

\* Events are what the queue holds.
LEMMA EventTypes ==
    /\ OpenEvent \in Events
    /\ ClosedEvent \in Events
    /\ \A n \in 0 .. MaxMsg : MessageEvent(n) \in Events
BY ConstantsAssumption DEF OpenEvent, ClosedEvent, MessageEvent, Events

\* Posting an event keeps the queue a queue.
LEMMA PostType ==
    ASSUME TypeOK, NEW e \in Events
    PROVE  /\ Append(posted, e) \in Seq(Events)
           /\ taken \in 0 .. Len(Append(posted, e))
BY DEF TypeOK

LEMMA TypeStep == TypeOK /\ [Next]_vars => TypeOK'
<1> SUFFICES ASSUME TypeOK, [Next]_vars PROVE TypeOK'
    OBVIOUS
<1> USE ConstantsAssumption, EventTypes, PostType
    DEF Goto, Labels, nativeVars, recvVars, cbVars, storedVars, bindingVars
<1>1. CASE Adopt
    BY <1>1 DEF TypeOK, Adopt, Threads
<1>2. CASE SetOpenCallback
    <2>1. posted' \in Seq(Events) /\ taken' \in 0 .. Len(posted')
        BY <1>2 DEF TypeOK, SetOpenCallback, PostOpen
    <2>2. storedOpen' \in BOOLEAN
        BY <1>2, Zenon DEF TypeOK, SetOpenCallback
    <2> QED BY <1>2, <2>1, <2>2 DEF TypeOK, SetOpenCallback, Threads
<1>3. CASE SetClosedCallback
    <2>1. posted' \in Seq(Events) /\ taken' \in 0 .. Len(posted')
        BY <1>3 DEF TypeOK, SetClosedCallback
    <2>2. storedClosed' \in BOOLEAN
        BY <1>3, Zenon DEF TypeOK, SetClosedCallback
    <2> QED BY <1>3, <2>1, <2>2 DEF TypeOK, SetClosedCallback, Threads
<1>4. CASE SetMessageCallback
    BY <1>4 DEF TypeOK, SetMessageCallback, Threads
<1>5. CASE Attach
    BY <1>5 DEF TypeOK, Attach, InitialState, Threads
<1>6. CASE Deliver
    BY <1>6 DEF TypeOK, Deliver, Threads
<1>7. CASE Accept
    <2>1. /\ isOpen' \in BOOLEAN
          /\ openTriggered' \in BOOLEAN
          /\ openCallback' \in {"none", "announce", "binding"}
          /\ storedOpen' \in BOOLEAN
          /\ announced' \in BOOLEAN
        BY <1>7, Zenon DEF TypeOK, Accept, TriggerDataChannel
    <2>2. pc' \in [Threads -> Labels]
        BY <1>7 DEF TypeOK, Accept, TriggerDataChannel
    <2> QED BY <1>7, <2>1, <2>2 DEF TypeOK, Accept
<1>8. CASE Acknowledge
    BY <1>8 DEF TypeOK, Acknowledge, Threads
<1>9. CASE TriggerOpen
    BY <1>9 DEF TypeOK, TriggerOpen, Threads
<1>10. CASE CallOpenCallback
    <2>1. posted' \in Seq(Events) /\ taken' \in 0 .. Len(posted')
        BY <1>10 DEF TypeOK, CallOpenCallback, PostOpen
    <2>2. storedOpen' \in BOOLEAN
        BY <1>10, Zenon DEF TypeOK, CallOpenCallback
    <2> QED BY <1>10, <2>1, <2>2 DEF TypeOK, CallOpenCallback, Threads
<1>11. CASE Create
    BY <1>11 DEF TypeOK, Create, Threads
<1>12. CASE Assign
    BY <1>12 DEF TypeOK, Assign, Threads
<1>13. CASE SendOpen
    BY <1>13 DEF TypeOK, SendOpen, Threads
<1>14. CASE ReceiveOpen
    BY <1>14 DEF TypeOK, ReceiveOpen, Threads
<1>15. CASE ReceiveAck
    BY <1>15 DEF TypeOK, ReceiveAck, Threads
<1>16. CASE ReceiveData
    BY <1>16 DEF TypeOK, ReceiveData, Threads
<1>17. CASE ReceiveReset
    BY <1>17 DEF TypeOK, ReceiveReset, Threads
<1>18. ASSUME NEW t \in Threads, Flushing(t) PROVE TypeOK'
    <2>1. CASE FlushPendingMessages(t)
        BY <2>1 DEF TypeOK, FlushPendingMessages, Done
    <2>2. CASE PopMessage(t)
        <3>1. recvQueue # <<>> => /\ Head(recvQueue) \in 0 .. MaxMsg
                                  /\ Tail(recvQueue) \in Seq(1 .. MaxMsg)
            BY HeadTailProperties DEF TypeOK
        <3>2. recvQueue' \in Seq(1 .. MaxMsg) /\ next' \in [Threads -> 0 .. MaxMsg]
            BY <2>2, <3>1 DEF TypeOK, PopMessage
        <3>3. pc' \in [Threads -> Labels]
            BY <2>2 DEF TypeOK, PopMessage, Done
        <3> QED BY <2>2, <3>2, <3>3 DEF TypeOK, PopMessage
    <2>3. CASE CallMessageCallback(t)
        BY <2>3 DEF TypeOK, CallMessageCallback
    <2> QED BY <1>18, <2>1, <2>2, <2>3 DEF Flushing
<1>19. ASSUME NEW t \in Threads, Closing(t) PROVE TypeOK'
    <2>1. CASE Close(t)
        BY <2>1 DEF TypeOK, Close
    <2>2. CASE CallClosedCallback(t)
        <3>1. posted' \in Seq(Events) /\ taken' \in 0 .. Len(posted')
            BY <2>2 DEF TypeOK, CallClosedCallback
        <3>2. storedClosed' \in BOOLEAN
            BY <2>2 DEF TypeOK, CallClosedCallback
        <3> QED BY <2>2, <3>1, <3>2 DEF TypeOK, CallClosedCallback
    <2>3. CASE ResetOpen(t)
        <3>1. openTriggered' \in BOOLEAN
            BY <2>3, Zenon DEF ResetOpen
        <3> QED BY <2>3, <3>1 DEF TypeOK, ResetOpen
    <2>4. CASE ResetClosed(t)
        BY <2>4 DEF TypeOK, ResetClosed
    <2>5. CASE ResetMessage(t)
        BY <2>5 DEF TypeOK, ResetMessage
    <2> QED BY <1>19, <2>1, <2>2, <2>3, <2>4, <2>5 DEF Closing
<1>20. ASSUME NEW t \in Threads, CloseDataChannels(t) PROVE TypeOK'
    BY <1>20 DEF TypeOK, CloseDataChannels
<1>21. CASE UNCHANGED vars
    BY <1>21 DEF TypeOK, vars
<1> QED BY NextCases, <1>1, <1>2, <1>3, <1>4, <1>5, <1>6, <1>7, <1>8, <1>9,
           <1>10, <1>11, <1>12, <1>13, <1>14, <1>15, <1>16, <1>17, <1>18, <1>19,
           <1>20, <1>21

-----------------------------------------------------------------------------

\* What Append does to the queue of events.
LEMMA AppendEvent ==
    ASSUME NEW q \in Seq(Events), NEW e \in Events
    PROVE  /\ DOMAIN Append(q, e) = DOMAIN q \cup {Len(q) + 1}
           /\ \A i \in DOMAIN q : Append(q, e)[i] = q[i]
           /\ Append(q, e)[Len(q) + 1] = e
           /\ Len(q) + 1 \notin DOMAIN q
BY DEF Events

\* An event other than ClosedEvent leaves the reports of a close as they are.
LEMMA PostOther ==
    ASSUME TypeOK, NEW e \in Events, e # ClosedEvent, posted' = Append(posted, e)
    PROVE  /\ ClosedPosted' <=> ClosedPosted
           /\ ClosedOnce => ClosedOnce'
<1>1. posted \in Seq(Events)
    BY DEF TypeOK
<1> QED BY <1>1, AppendEvent DEF ClosedPosted, ClosedOnce

\* The first report of a close is the only one.
LEMMA PostClosed ==
    ASSUME TypeOK, ~ClosedPosted, posted' = Append(posted, ClosedEvent)
    PROVE  ClosedPosted' /\ ClosedOnce'
<1>1. posted \in Seq(Events)
    BY DEF TypeOK
<1> QED BY <1>1, AppendEvent, EventTypes DEF ClosedPosted, ClosedOnce

LEMMA PostNothing ==
    ASSUME posted' = posted
    PROVE  /\ ClosedPosted' <=> ClosedPosted
           /\ ClosedOnce => ClosedOnce'
BY DEF ClosedPosted, ClosedOnce

LEMMA DistinctEvents ==
    /\ OpenEvent # ClosedEvent
    /\ \A n : MessageEvent(n) # ClosedEvent /\ MessageEvent(n) # OpenEvent
BY DEF OpenEvent, ClosedEvent, MessageEvent

\* A step that reports no close and brings no thread to triggerClosed.
LEMMA ClosedQuiet ==
    ASSUME ClosedInv, ClosedPosted' <=> ClosedPosted,
           isClosed' = isClosed, storedClosed' = storedClosed,
           \A t \in Threads : pc'[t] = "closedCb" => pc[t] = "closedCb"
    PROVE  ClosedInv'
BY DEF ClosedInv, At

LEMMA ClosedStep ==
    ASSUME TypeOK, ClosedInv, ClosedOnce, [Next]_vars
    PROVE  ClosedInv' /\ ClosedOnce'
<1> USE EventTypes, DistinctEvents, PostNothing, ClosedQuiet
    DEF Goto, nativeVars, storedVars, bindingVars, Threads
<1> pc \in [Threads -> Labels]
    BY DEF TypeOK
<1>1. CASE SetOpenCallback \/ CallOpenCallback
    <2>1. posted' \in {posted, Append(posted, OpenEvent)}
        BY <1>1 DEF SetOpenCallback, CallOpenCallback, PostOpen
    <2>2. /\ ClosedPosted' <=> ClosedPosted
          /\ ClosedOnce'
        BY <2>1, PostOther
    <2> QED BY <1>1, <2>2 DEF SetOpenCallback, CallOpenCallback
<1>2. CASE SetClosedCallback
    <2>1. CASE storedClosed
        <3>1. ~ClosedPosted /\ isClosed /\ posted' = Append(posted, ClosedEvent)
            BY <1>2, <2>1 DEF ClosedInv, SetClosedCallback
        <3>2. ClosedPosted' /\ ClosedOnce'
            BY <3>1, PostClosed
        <3>3. \A t \in Threads : pc'[t] # "closedCb"
            BY <1>2, <2>1 DEF ClosedInv, SetClosedCallback, At
        <3>4. ~storedClosed' /\ isClosed'
            BY <1>2, <3>1 DEF SetClosedCallback
        <3> QED BY <3>2, <3>3, <3>4 DEF ClosedInv, At
    <2>2. CASE ~storedClosed
        BY <1>2, <2>2 DEF SetClosedCallback, TypeOK
    <2> QED BY <2>1, <2>2
<1>3. CASE Adopt \/ SetMessageCallback \/ Attach \/ Deliver
    BY <1>3 DEF Adopt, SetMessageCallback, Attach, Deliver
<1>4. CASE Accept
    BY <1>4 DEF Accept, TriggerDataChannel
<1>5. CASE Acknowledge \/ TriggerOpen
    BY <1>5 DEF Acknowledge, TriggerOpen
<1>6. CASE Create \/ Assign \/ SendOpen
    BY <1>6 DEF Create, Assign, SendOpen
<1>7. CASE ReceiveOpen \/ ReceiveAck \/ ReceiveData \/ ReceiveReset
    BY <1>7 DEF ReceiveOpen, ReceiveAck, ReceiveData, ReceiveReset
<1>8. ASSUME NEW t \in Threads, FlushPendingMessages(t) \/ PopMessage(t)
      PROVE  ClosedInv' /\ ClosedOnce'
    BY <1>8 DEF FlushPendingMessages, PopMessage, Done
<1>9. ASSUME NEW t \in Threads, CallMessageCallback(t)
      PROVE  ClosedInv' /\ ClosedOnce'
    <2>1. MessageEvent(next[t]) \in Events
        BY DEF TypeOK
    <2>2. posted' \in {posted, Append(posted, MessageEvent(next[t]))}
        BY <1>9 DEF CallMessageCallback
    <2>3. /\ ClosedPosted' <=> ClosedPosted
          /\ ClosedOnce'
        BY <2>1, <2>2, PostOther
    <2> QED BY <1>9, <2>3 DEF CallMessageCallback
<1>10. ASSUME NEW t \in Threads, Close(t)
       PROVE  ClosedInv' /\ ClosedOnce'
    <2>1. CASE isClosed
        BY <1>10, <2>1 DEF Close, TypeOK
    <2>2. CASE ~isClosed
        <3>1. ~storedClosed' /\ ~ClosedPosted' /\ isClosed'
            BY <1>10, <2>2 DEF Close, ClosedInv
        <3>2. \A u \in Threads : pc'[u] = "closedCb" => u = t
            BY <1>10, <2>2 DEF Close, ClosedInv, At
        <3> QED BY <1>10, <3>1, <3>2 DEF Close, ClosedInv, At
    <2> QED BY <2>1, <2>2
<1>11. ASSUME NEW t \in Threads, CallClosedCallback(t)
       PROVE  ClosedInv' /\ ClosedOnce'
    <2>1. isClosed' /\ ~storedClosed /\ ~ClosedPosted
        BY <1>11 DEF CallClosedCallback, ClosedInv
    <2>2. \A u \in Threads : pc'[u] # "closedCb"
        BY <1>11 DEF CallClosedCallback, ClosedInv, At
    <2>3. CASE posted' = Append(posted, ClosedEvent) /\ storedClosed' = storedClosed
        <3>1. ClosedPosted' /\ ClosedOnce'
            BY <2>1, <2>3, PostClosed
        <3> QED BY <2>1, <2>2, <2>3, <3>1 DEF ClosedInv, At
    <2>4. CASE posted' = posted
        BY <2>1, <2>2, <2>4 DEF ClosedInv, At
    <2> QED BY <1>11, <2>3, <2>4 DEF CallClosedCallback
<1>12. ASSUME NEW t \in Threads, ResetOpen(t) \/ ResetClosed(t) \/ ResetMessage(t)
       PROVE  ClosedInv' /\ ClosedOnce'
    BY <1>12 DEF ResetOpen, ResetClosed, ResetMessage
<1>13. ASSUME NEW t \in Threads, CloseDataChannels(t)
       PROVE  ClosedInv' /\ ClosedOnce'
    BY <1>13 DEF CloseDataChannels
<1>14. CASE UNCHANGED vars
    BY <1>14 DEF vars
<1> QED BY NextCases, <1>1, <1>2, <1>3, <1>4, <1>5, <1>6, <1>7, <1>8, <1>9,
           <1>10, <1>11, <1>12, <1>13, <1>14 DEF Flushing, Closing

-----------------------------------------------------------------------------

\* A record of Events whose ev is "message" is a MessageEvent.
LEMMA MessageEvents ==
    ASSUME NEW e \in Events
    PROVE  /\ e.ev = "message" => e = MessageEvent(e.n)
           /\ \A n : e = MessageEvent(n) => e.ev = "message" /\ e.n = n
BY DEF Events, MessageEvent

\* An open or a closed event changes nothing about the messages posted.
LEMMA PostNoMessage ==
    ASSUME TypeOK, NEW e \in {OpenEvent, ClosedEvent},
           posted' \in {posted, Append(posted, e)}, received' = received
    PROVE  /\ \A n : Carries(posted', n) <=> Carries(posted, n)
           /\ NoDuplicate => NoDuplicate'
           /\ (\A i \in DOMAIN posted : posted[i].ev = "message"
                                          => posted[i].n \in 1 .. received)
              => \A i \in DOMAIN posted' : posted'[i].ev = "message"
                                          => posted'[i].n \in 1 .. received'
<1>1. posted \in Seq(Events) /\ e \in Events
    BY EventTypes DEF TypeOK
<1>2. e.ev # "message" /\ \A n : e # MessageEvent(n)
    BY DistinctEvents DEF OpenEvent, ClosedEvent
<1>3. CASE posted' = posted
    BY <1>3 DEF NoDuplicate
<1>4. CASE posted' = Append(posted, e)
    <2>1. /\ DOMAIN posted' = DOMAIN posted \cup {Len(posted) + 1}
          /\ \A i \in DOMAIN posted : posted'[i] = posted[i]
          /\ posted'[Len(posted) + 1] = e
        BY <1>1, <1>4, AppendEvent
    <2> QED BY <1>2, <2>1 DEF NoDuplicate, Carries
<1> QED BY <1>3, <1>4

\* What is queued for the application is a number between 1 and received.
LEMMA QueuedRange ==
    ASSUME TypeOK, MessageInv
    PROVE  \A i \in DOMAIN recvQueue : recvQueue[i] \in 1 .. received
<1>1. recvQueue \in Seq(1 .. MaxMsg)
    BY DEF TypeOK
<1>2. \A i \in DOMAIN recvQueue : recvQueue[i] \in 1 .. MaxMsg
    BY <1>1, ElementOfSeq, LenProperties
<1>3. received \in Int /\ MaxMsg \in Int
    BY ConstantsAssumption DEF TypeOK
<1> QED BY <1>2, <1>3 DEF MessageInv

\* A step that moves no message.
LEMMA MessageQuiet ==
    ASSUME TypeOK, MessageInv, NoDuplicate,
           NEW e \in {OpenEvent, ClosedEvent},
           posted' \in {posted, Append(posted, e)},
           recvQueue' = recvQueue, received' = received, next' = next,
           \A t \in Threads : pc'[t] = "call" => pc[t] = "call"
    PROVE  MessageInv' /\ NoDuplicate'
BY PostNoMessage DEF MessageInv, At

LEMMA MessageStep ==
    ASSUME TypeOK, MessageInv, NoDuplicate, [Next]_vars
    PROVE  MessageInv' /\ NoDuplicate'
<1> USE MessageQuiet DEF Goto, recvVars, Threads
<1> pc \in [Threads -> Labels]
    BY DEF TypeOK
<1>1. CASE SetOpenCallback \/ CallOpenCallback
    <2>1. posted' \in {posted, Append(posted, OpenEvent)}
        BY <1>1 DEF SetOpenCallback, CallOpenCallback, PostOpen
    <2> QED BY <1>1, <2>1 DEF SetOpenCallback, CallOpenCallback
<1>2. CASE SetClosedCallback
    BY <1>2 DEF SetClosedCallback
<1>3. CASE Adopt \/ SetMessageCallback \/ Attach \/ Deliver
    BY <1>3 DEF Adopt, SetMessageCallback, Attach, Deliver
<1>4. CASE Accept
    BY <1>4 DEF Accept, TriggerDataChannel
<1>5. CASE Acknowledge \/ TriggerOpen
    BY <1>5 DEF Acknowledge, TriggerOpen
<1>6. CASE Create \/ Assign \/ SendOpen
    BY <1>6 DEF Create, Assign, SendOpen
<1>7. CASE ReceiveOpen \/ ReceiveAck \/ ReceiveReset
    BY <1>7 DEF ReceiveOpen, ReceiveAck, ReceiveReset
<1>8. CASE ReceiveData
    <2>1. /\ received \in Nat /\ received' = received + 1
          /\ recvQueue \in Seq(1 .. MaxMsg)
          /\ recvQueue' = Append(recvQueue, received + 1)
          /\ posted \in Seq(Events)
          /\ posted' = posted /\ next' = next
        BY <1>8, ConstantsAssumption DEF TypeOK, ReceiveData
    <2>2. \A t \in Threads : pc'[t] = "call" => pc[t] = "call"
        BY <1>8 DEF ReceiveData
    <2>3. ~Carries(posted, received + 1)
        BY <2>1, MessageEvents DEF MessageInv, Carries
    <2>4. \A i \in DOMAIN recvQueue' :
             \/ i \in DOMAIN recvQueue /\ recvQueue'[i] = recvQueue[i]
             \/ i = Len(recvQueue) + 1 /\ recvQueue'[i] = received + 1
        BY <2>1
    <2>5. \A i \in DOMAIN recvQueue : recvQueue[i] \in 1 .. received
        BY QueuedRange
    <2>6. \A i \in DOMAIN recvQueue' :
             /\ recvQueue'[i] <= received'
             /\ ~Carries(posted', recvQueue'[i])
             /\ \A j \in DOMAIN recvQueue' : recvQueue'[i] = recvQueue'[j] => i = j
        BY <2>1, <2>3, <2>4, <2>5 DEF MessageInv
    <2>7. \A t \in Threads : pc'[t] = "call" =>
             /\ next'[t] \in 1 .. received'
             /\ ~Carries(posted', next'[t])
             /\ \A i \in DOMAIN recvQueue' : recvQueue'[i] # next'[t]
             /\ \A u \in Threads : pc'[u] = "call" /\ next'[u] = next'[t] => t = u
        BY <2>1, <2>2, <2>4 DEF MessageInv, At
    <2>8. \A i \in DOMAIN posted' :
             posted'[i].ev = "message" => posted'[i].n \in 1 .. received'
        BY <2>1 DEF MessageInv
    <2>9. NoDuplicate'
        BY <2>1 DEF NoDuplicate
    <2> QED BY <2>6, <2>7, <2>8, <2>9 DEF MessageInv, At
<1>9. ASSUME NEW t \in Threads, FlushPendingMessages(t)
      PROVE  MessageInv' /\ NoDuplicate'
    BY <1>9 DEF FlushPendingMessages, Done
<1>10. ASSUME NEW t \in Threads, PopMessage(t)
       PROVE  MessageInv' /\ NoDuplicate'
    <2>1. CASE recvQueue' = recvQueue /\ next' = next
        <3>1. \A u \in Threads : pc'[u] = "call" => pc[u] = "call"
            BY <1>10, <2>1 DEF PopMessage, Done, TypeOK
        <3> QED BY <1>10, <2>1, <3>1 DEF PopMessage
    <2>2. CASE /\ recvQueue # <<>>
               /\ next' = [next EXCEPT ![t] = Head(recvQueue)]
               /\ recvQueue' = Tail(recvQueue)
               /\ pc' = [pc EXCEPT ![t] = "call"]
        <3>1. /\ received \in Nat /\ received' = received
              /\ recvQueue \in Seq(1 .. MaxMsg)
              /\ posted' = posted
              /\ pc[t] = "more"
              /\ next \in [Threads -> 0 .. MaxMsg]
            BY <1>10 DEF TypeOK, PopMessage, At
        <3>2. /\ 1 \in DOMAIN recvQueue
              /\ recvQueue[1] \in 1 .. received
              /\ next'[t] = recvQueue[1]
              /\ \A u \in Threads \ {t} : next'[u] = next[u] /\ pc'[u] = pc[u]
            BY <2>2, <3>1, QueuedRange
        <3>3. \A i \in DOMAIN recvQueue' :
                 i + 1 \in DOMAIN recvQueue \ {1} /\ recvQueue'[i] = recvQueue[i + 1]
            BY <2>2, <3>1
        <3>4. \A i \in DOMAIN recvQueue' :
                 /\ recvQueue'[i] <= received'
                 /\ ~Carries(posted', recvQueue'[i])
                 /\ recvQueue'[i] # recvQueue[1]
                 /\ \A j \in DOMAIN recvQueue' : recvQueue'[i] = recvQueue'[j] => i = j
            <4> SUFFICES ASSUME NEW i \in DOMAIN recvQueue'
                         PROVE  /\ recvQueue'[i] <= received'
                                /\ ~Carries(posted', recvQueue'[i])
                                /\ recvQueue'[i] # recvQueue[1]
                                /\ \A j \in DOMAIN recvQueue' :
                                      recvQueue'[i] = recvQueue'[j] => i = j
                OBVIOUS
            <4>1. i \in Int /\ \A j \in DOMAIN recvQueue' : j \in Int
                BY <2>2, <3>1
            <4> QED BY <3>1, <3>2, <3>3, <4>1 DEF MessageInv
        <3>5. \A u \in Threads : pc'[u] = "call" =>
                 /\ next'[u] \in 1 .. received'
                 /\ ~Carries(posted', next'[u])
                 /\ \A i \in DOMAIN recvQueue' : recvQueue'[i] # next'[u]
                 /\ \A v \in Threads : pc'[v] = "call" /\ next'[v] = next'[u] => u = v
            <4>1. \A u \in Threads \ {t} : pc[u] = "call" =>
                     /\ next[u] \in 1 .. received
                     /\ ~Carries(posted, next[u])
                     /\ \A i \in DOMAIN recvQueue : recvQueue[i] # next[u]
                     /\ \A v \in Threads : pc[v] = "call" /\ next[v] = next[u] => u = v
                BY DEF MessageInv, At
            <4>2. ~Carries(posted, recvQueue[1])
                BY <3>2 DEF MessageInv
            <4> QED BY <3>1, <3>2, <3>3, <3>4, <4>1, <4>2
        <3>6. NoDuplicate'
            BY <3>1 DEF NoDuplicate
        <3> QED BY <3>1, <3>4, <3>5, <3>6 DEF MessageInv, At
    <2> QED BY <1>10, <2>1, <2>2 DEF PopMessage
<1>11. ASSUME NEW t \in Threads, CallMessageCallback(t)
       PROVE  MessageInv' /\ NoDuplicate'
    <2>1. /\ pc[t] = "call" /\ pc' = [pc EXCEPT ![t] = "more"]
          /\ next \in [Threads -> 0 .. MaxMsg] /\ next' = [next EXCEPT ![t] = 0]
          /\ recvQueue' = recvQueue /\ received' = received
          /\ posted \in Seq(Events)
          /\ MessageEvent(next[t]) \in Events
          /\ posted' \in {posted, Append(posted, MessageEvent(next[t]))}
        BY <1>11, EventTypes DEF CallMessageCallback, At, TypeOK
    <2>2. \A u \in Threads : pc'[u] = "call" =>
             u # t /\ pc[u] = "call" /\ next'[u] = next[u]
        BY <2>1
    <2>3. CASE posted' = posted
        BY <2>1, <2>2, <2>3 DEF MessageInv, NoDuplicate, At
    <2>4. CASE posted' = Append(posted, MessageEvent(next[t]))
        <3>1. /\ DOMAIN posted' = DOMAIN posted \cup {Len(posted) + 1}
              /\ \A i \in DOMAIN posted : posted'[i] = posted[i]
              /\ posted'[Len(posted) + 1] = MessageEvent(next[t])
            BY <2>1, <2>4, AppendEvent
        <3>2. next[t] \in 1 .. received /\ ~Carries(posted, next[t])
            BY <2>1 DEF MessageInv, At
        <3>3. \A n : Carries(posted', n) <=> Carries(posted, n) \/ n = next[t]
            BY <3>1 DEF Carries, MessageEvent
        <3>4. NoDuplicate'
            BY <3>1, <3>2 DEF NoDuplicate, Carries
        <3>5. \A i \in DOMAIN posted' :
                 posted'[i].ev = "message" => posted'[i].n \in 1 .. received'
            BY <2>1, <3>1, <3>2 DEF MessageInv, MessageEvent
        <3>6. \A i \in DOMAIN recvQueue' :
                 /\ recvQueue'[i] <= received'
                 /\ ~Carries(posted', recvQueue'[i])
                 /\ \A j \in DOMAIN recvQueue' : recvQueue'[i] = recvQueue'[j] => i = j
            BY <2>1, <3>3 DEF MessageInv, At
        <3>7. \A u \in Threads : pc'[u] = "call" =>
                 /\ next'[u] \in 1 .. received'
                 /\ ~Carries(posted', next'[u])
                 /\ \A i \in DOMAIN recvQueue' : recvQueue'[i] # next'[u]
                 /\ \A v \in Threads : pc'[v] = "call" /\ next'[v] = next'[u] => u = v
            BY <2>1, <2>2, <3>3 DEF MessageInv, At
        <3> QED BY <3>4, <3>5, <3>6, <3>7 DEF MessageInv, At
    <2> QED BY <2>1, <2>3, <2>4
<1>12. ASSUME NEW t \in Threads, Close(t)
       PROVE  MessageInv' /\ NoDuplicate'
    BY <1>12 DEF Close
<1>13. ASSUME NEW t \in Threads, CallClosedCallback(t)
       PROVE  MessageInv' /\ NoDuplicate'
    BY <1>13 DEF CallClosedCallback
<1>14. ASSUME NEW t \in Threads, ResetOpen(t) \/ ResetClosed(t) \/ ResetMessage(t)
       PROVE  MessageInv' /\ NoDuplicate'
    BY <1>14 DEF ResetOpen, ResetClosed, ResetMessage
<1>15. ASSUME NEW t \in Threads, CloseDataChannels(t)
       PROVE  MessageInv' /\ NoDuplicate'
    BY <1>15 DEF CloseDataChannels
<1>16. CASE UNCHANGED vars
    BY <1>16 DEF vars
<1> QED BY NextCases, <1>1, <1>2, <1>3, <1>4, <1>5, <1>6, <1>7, <1>8, <1>9, <1>10,
           <1>11, <1>12, <1>13, <1>14, <1>15, <1>16 DEF Flushing, Closing

-----------------------------------------------------------------------------

\* The peer connection's thread only closes.
LEMMA ProcStep ==
    ASSUME TypeOK, ProcInv, [Next]_vars
    PROVE  ProcInv'
<1> USE DEF Goto, At, Threads
<1> pc \in [Threads -> Labels]
    BY DEF TypeOK
<1>1. CASE Adopt \/ SetOpenCallback \/ SetClosedCallback \/ SetMessageCallback
    BY <1>1 DEF ProcInv, Adopt, SetOpenCallback, SetClosedCallback, SetMessageCallback
<1>2. CASE Attach \/ Deliver \/ Create \/ Assign \/ SendOpen
    BY <1>2 DEF ProcInv, Attach, Deliver, Create, Assign, SendOpen
<1>3. CASE Accept \/ Acknowledge \/ TriggerOpen \/ CallOpenCallback
    BY <1>3 DEF ProcInv, Accept, TriggerDataChannel, Acknowledge, TriggerOpen,
                CallOpenCallback
<1>4. CASE ReceiveOpen \/ ReceiveAck \/ ReceiveData \/ ReceiveReset
    BY <1>4 DEF ProcInv, ReceiveOpen, ReceiveAck, ReceiveData, ReceiveReset
<1>5. ASSUME NEW t \in Threads, Flushing(t) PROVE ProcInv'
    BY <1>5 DEF ProcInv, Flushing, FlushPendingMessages, PopMessage,
                CallMessageCallback, Done
<1>6. ASSUME NEW t \in Threads, Closing(t) PROVE ProcInv'
    BY <1>6 DEF ProcInv, Closing, Close, CallClosedCallback, ResetOpen,
                ResetClosed, ResetMessage
<1>7. ASSUME NEW t \in Threads, CloseDataChannels(t) PROVE ProcInv'
    BY <1>7 DEF ProcInv, CloseDataChannels
<1>8. CASE UNCHANGED vars
    BY <1>8 DEF ProcInv, vars
<1> QED BY NextCases, <1>1, <1>2, <1>3, <1>4, <1>5, <1>6, <1>7, <1>8

\* An early channel gets its stream after the application has wired it.
LEMMA EarlyStep ==
    ASSUME TypeOK, kind = "early", EarlyInv, [Next]_vars
    PROVE  EarlyInv'
<1> USE DEF Goto, At, Threads, nativeVars, recvVars
<1> pc \in [Threads -> Labels]
    BY DEF TypeOK
<1>1. CASE Adopt \/ SetOpenCallback \/ SetClosedCallback \/ SetMessageCallback
    BY <1>1 DEF EarlyInv, Adopt, SetOpenCallback, SetClosedCallback, SetMessageCallback
<1>2. CASE Attach \/ Deliver \/ Create \/ Assign \/ SendOpen
    BY <1>2 DEF EarlyInv, Attach, Deliver, Create, Assign, SendOpen
<1>3. CASE Accept \/ Acknowledge \/ TriggerOpen \/ CallOpenCallback
    BY <1>3 DEF EarlyInv, Accept, TriggerDataChannel, Acknowledge, TriggerOpen,
                CallOpenCallback
<1>4. CASE ReceiveOpen \/ ReceiveAck \/ ReceiveData \/ ReceiveReset
    BY <1>4 DEF EarlyInv, ReceiveOpen, ReceiveAck, ReceiveData, ReceiveReset
<1>5. ASSUME NEW t \in Threads, Flushing(t) PROVE EarlyInv'
    BY <1>5 DEF EarlyInv, Flushing, FlushPendingMessages, PopMessage,
                CallMessageCallback, Done
<1>6. ASSUME NEW t \in Threads, Closing(t) PROVE EarlyInv'
    BY <1>6 DEF EarlyInv, Closing, Close, CallClosedCallback, ResetOpen,
                ResetClosed, ResetMessage
<1>7. ASSUME NEW t \in Threads, CloseDataChannels(t) PROVE EarlyInv'
    BY <1>7 DEF EarlyInv, CloseDataChannels
<1>8. CASE UNCHANGED vars
    BY <1>8 DEF EarlyInv, vars
<1> QED BY NextCases, <1>1, <1>2, <1>3, <1>4, <1>5, <1>6, <1>7, <1>8

\* So the receiving thread alone ever holds a message of it.
LEMMA SctpAloneFlushes ==
    ASSUME TypeOK, MessageInv, ProcInv, EarlyInv,
           NEW t \in Threads,
           pc[t] = "call" \/ (pc[t] = "more" /\ recvQueue # <<>>)
    PROVE  t = "sctp"
<1>1. received \in Nat /\ recvQueue \in Seq(1 .. MaxMsg)
    BY ConstantsAssumption DEF TypeOK
<1>2. received # 0
    <2>1. CASE pc[t] = "call"
        BY <1>1, <2>1 DEF MessageInv, At
    <2>2. CASE recvQueue # <<>>
        <3>1. 1 \in DOMAIN recvQueue
            BY <1>1, <2>2
        <3> QED BY <1>1, <3>1, QueuedRange
    <2> QED BY <2>1, <2>2
<1>3. pc["app"] = "loop"
    BY <1>2 DEF EarlyInv, At
<1> QED BY <1>3 DEF ProcInv, At, Threads

\* An open or a closed event does not disturb the order of messages.
LEMMA PostNoOrder ==
    ASSUME TypeOK, NEW e \in {OpenEvent, ClosedEvent},
           posted' \in {posted, Append(posted, e)}
    PROVE  /\ \A n : PostedBefore(posted, n) => PostedBefore(posted', n)
           /\ MessagesInOrder => MessagesInOrder'
<1>1. posted \in Seq(Events) /\ e \in Events
    BY EventTypes DEF TypeOK
<1>2. e.ev # "message"
    BY DEF OpenEvent, ClosedEvent
<1>3. CASE posted' = posted
    BY <1>3 DEF MessagesInOrder
<1>4. CASE posted' = Append(posted, e)
    <2>1. /\ DOMAIN posted' = DOMAIN posted \cup {Len(posted) + 1}
          /\ \A i \in DOMAIN posted : posted'[i] = posted[i]
          /\ posted'[Len(posted) + 1] = e
        BY <1>1, <1>4, AppendEvent
    <2> QED BY <1>2, <2>1 DEF MessagesInOrder, PostedBefore
<1> QED BY <1>3, <1>4

\* A step that moves no message.
LEMMA OrderQuiet ==
    ASSUME TypeOK, OrderInv, NEW e \in {OpenEvent, ClosedEvent},
           posted' \in {posted, Append(posted, e)},
           recvQueue' = recvQueue, next' = next,
           pc'["sctp"] = "call" => pc["sctp"] = "call"
    PROVE  OrderInv'
BY PostNoOrder DEF OrderInv, At

LEMMA OrderStep ==
    ASSUME TypeOK, MessageInv, ProcInv, EarlyInv, OrderInv, [Next]_vars
    PROVE  OrderInv'
<1> USE OrderQuiet DEF Goto, recvVars, Threads
<1> pc \in [Threads -> Labels]
    BY DEF TypeOK
<1>1. CASE SetOpenCallback \/ CallOpenCallback
    <2>1. posted' \in {posted, Append(posted, OpenEvent)}
        BY <1>1 DEF SetOpenCallback, CallOpenCallback, PostOpen
    <2> QED BY <1>1, <2>1 DEF SetOpenCallback, CallOpenCallback
<1>2. CASE SetClosedCallback
    BY <1>2 DEF SetClosedCallback
<1>3. CASE Adopt \/ SetMessageCallback \/ Attach \/ Deliver
    BY <1>3 DEF Adopt, SetMessageCallback, Attach, Deliver
<1>4. CASE Accept
    BY <1>4 DEF Accept, TriggerDataChannel
<1>5. CASE Acknowledge \/ TriggerOpen
    BY <1>5 DEF Acknowledge, TriggerOpen
<1>6. CASE Create \/ Assign \/ SendOpen
    BY <1>6 DEF Create, Assign, SendOpen
<1>7. CASE ReceiveOpen \/ ReceiveAck \/ ReceiveReset
    BY <1>7 DEF ReceiveOpen, ReceiveAck, ReceiveReset
<1>8. CASE ReceiveData
    <2>1. /\ received \in Nat
          /\ recvQueue \in Seq(1 .. MaxMsg)
          /\ recvQueue' = Append(recvQueue, received + 1)
          /\ posted \in Seq(Events) /\ posted' = posted
          /\ ~At("sctp", "call")'
        BY <1>8, ConstantsAssumption DEF TypeOK, ReceiveData, At
    <2>2. PostedBefore(posted, received + 1)
        BY <2>1 DEF MessageInv, PostedBefore
    <2>3. \A i \in DOMAIN recvQueue : recvQueue[i] \in 1 .. received
        BY QueuedRange
    <2>4. \A i \in DOMAIN recvQueue' : i \in Int /\
             \/ i \in DOMAIN recvQueue /\ recvQueue'[i] = recvQueue[i]
             \/ /\ i = Len(recvQueue) + 1 /\ recvQueue'[i] = received + 1
                /\ \A j \in DOMAIN recvQueue' : j <= i
        BY <2>1
    <2>5. \A i, j \in DOMAIN recvQueue' : i < j => recvQueue'[i] < recvQueue'[j]
        <3> SUFFICES ASSUME NEW i \in DOMAIN recvQueue', NEW j \in DOMAIN recvQueue',
                            i < j
                     PROVE  recvQueue'[i] < recvQueue'[j]
            OBVIOUS
        <3>1. i \in DOMAIN recvQueue /\ recvQueue'[i] = recvQueue[i]
            BY <2>4
        <3>2. CASE j \in DOMAIN recvQueue /\ recvQueue'[j] = recvQueue[j]
            BY <3>1, <3>2 DEF OrderInv
        <3>3. CASE recvQueue'[j] = received + 1
            BY <2>1, <2>3, <3>1, <3>3
        <3> QED BY <2>4, <3>2, <3>3
    <2>6. \A i \in DOMAIN recvQueue' : PostedBefore(posted', recvQueue'[i])
        <3> SUFFICES ASSUME NEW i \in DOMAIN recvQueue'
                     PROVE  PostedBefore(posted, recvQueue'[i])
            BY <2>1
        <3>1. CASE i \in DOMAIN recvQueue /\ recvQueue'[i] = recvQueue[i]
            BY <3>1 DEF OrderInv
        <3>2. CASE recvQueue'[i] = received + 1
            BY <2>2, <3>2
        <3> QED BY <2>4, <3>1, <3>2
    <2>7. MessagesInOrder'
        BY <2>1 DEF OrderInv, MessagesInOrder
    <2> QED BY <2>1, <2>5, <2>6, <2>7 DEF OrderInv
<1>9. ASSUME NEW t \in Threads, FlushPendingMessages(t)
      PROVE  OrderInv'
    BY <1>9 DEF FlushPendingMessages, Done
<1>10. ASSUME NEW t \in Threads, PopMessage(t)
       PROVE  OrderInv'
    <2>1. CASE recvQueue' = recvQueue /\ next' = next
        <3>1. pc'["sctp"] = "call" => pc["sctp"] = "call"
            BY <1>10, <2>1 DEF PopMessage, Done, TypeOK
        <3> QED BY <1>10, <2>1, <3>1 DEF PopMessage
    <2>2. CASE /\ recvQueue # <<>>
               /\ next' = [next EXCEPT ![t] = Head(recvQueue)]
               /\ recvQueue' = Tail(recvQueue)
        <3>1. /\ recvQueue \in Seq(1 .. MaxMsg)
              /\ posted' = posted
              /\ next \in [Threads -> 0 .. MaxMsg]
              /\ pc[t] = "more"
            BY <1>10 DEF TypeOK, PopMessage, At
        <3>2. t = "sctp"
            BY <2>2, <3>1, SctpAloneFlushes
        <3>3. 1 \in DOMAIN recvQueue /\ next'["sctp"] = recvQueue[1]
            BY <2>2, <3>1, <3>2
        <3>4. \A i \in DOMAIN recvQueue' :
                 /\ i \in Int /\ i + 1 \in DOMAIN recvQueue /\ 1 < i + 1
                 /\ recvQueue'[i] = recvQueue[i + 1]
            BY <2>2, <3>1
        <3>5. \A i, j \in DOMAIN recvQueue' : i < j => recvQueue'[i] < recvQueue'[j]
            BY <3>4 DEF OrderInv
        <3>6. \A i \in DOMAIN recvQueue' :
                 /\ PostedBefore(posted', recvQueue'[i])
                 /\ next'["sctp"] < recvQueue'[i]
            BY <3>1, <3>3, <3>4 DEF OrderInv
        <3>7. PostedBefore(posted', next'["sctp"])
            BY <3>1, <3>3 DEF OrderInv
        <3>8. MessagesInOrder'
            BY <3>1 DEF OrderInv, MessagesInOrder
        <3> QED BY <3>5, <3>6, <3>7, <3>8 DEF OrderInv
    <2> QED BY <1>10, <2>1, <2>2 DEF PopMessage
<1>11. ASSUME NEW t \in Threads, CallMessageCallback(t)
       PROVE  OrderInv'
    <2>1. /\ At(t, "call") /\ ~At(t, "call")'
          /\ recvQueue' = recvQueue
          /\ posted \in Seq(Events)
          /\ MessageEvent(next[t]) \in Events
          /\ posted' \in {posted, Append(posted, MessageEvent(next[t]))}
        BY <1>11, EventTypes DEF CallMessageCallback, At, TypeOK
    <2>2. t = "sctp"
        <3>1. pc[t] = "call"
            BY <2>1 DEF At
        <3> QED BY <3>1, SctpAloneFlushes
    <2>3. CASE posted' = posted
        BY <2>1, <2>2, <2>3 DEF OrderInv, MessagesInOrder
    <2>4. CASE posted' = Append(posted, MessageEvent(next[t]))
        <3>1. /\ DOMAIN posted' = DOMAIN posted \cup {Len(posted) + 1}
              /\ \A i \in DOMAIN posted : posted'[i] = posted[i]
              /\ posted'[Len(posted) + 1].n = next[t]
            BY <2>1, <2>4, AppendEvent DEF MessageEvent
        <3>2. /\ PostedBefore(posted, next[t])
              /\ \A i \in DOMAIN recvQueue : next[t] < recvQueue[i]
            BY <2>1, <2>2 DEF OrderInv
        <3>3. \A i \in DOMAIN recvQueue' : PostedBefore(posted', recvQueue'[i])
            BY <2>1, <3>1, <3>2 DEF OrderInv, PostedBefore
        <3>4. \A i \in DOMAIN posted : i \in Int /\ i < Len(posted) + 1
            BY <2>1
        <3>5. MessagesInOrder'
            BY <2>1, <3>1, <3>2, <3>4 DEF OrderInv, MessagesInOrder, PostedBefore
        <3> QED BY <2>1, <2>2, <3>3, <3>5 DEF OrderInv
    <2> QED BY <2>1, <2>3, <2>4
<1>12. ASSUME NEW t \in Threads, Close(t)
       PROVE  OrderInv'
    BY <1>12 DEF Close
<1>13. ASSUME NEW t \in Threads, CallClosedCallback(t)
       PROVE  OrderInv'
    BY <1>13 DEF CallClosedCallback
<1>14. ASSUME NEW t \in Threads, ResetOpen(t) \/ ResetClosed(t) \/ ResetMessage(t)
       PROVE  OrderInv'
    BY <1>14 DEF ResetOpen, ResetClosed, ResetMessage
<1>15. ASSUME NEW t \in Threads, CloseDataChannels(t)
       PROVE  OrderInv'
    BY <1>15 DEF CloseDataChannels
<1>16. CASE UNCHANGED vars
    BY <1>16 DEF vars
<1> QED BY NextCases, <1>1, <1>2, <1>3, <1>4, <1>5, <1>6, <1>7, <1>8, <1>9, <1>10,
           <1>11, <1>12, <1>13, <1>14, <1>15, <1>16 DEF Flushing, Closing

\* A channel stays of its kind.
LEMMA KindStep == [Next]_vars => kind' = kind
BY DEF Next, App, Sctp, Proc, Begin, Flushing, Closing, vars, Adopt,
       SetOpenCallback, SetClosedCallback, SetMessageCallback, Attach, Deliver,
       Accept, Acknowledge, TriggerOpen, CallOpenCallback, FlushPendingMessages,
       PopMessage, CallMessageCallback, Close, CallClosedCallback, ResetOpen,
       ResetClosed, ResetMessage, Create, Assign, SendOpen, ReceiveOpen,
       ReceiveAck, ReceiveData, ReceiveReset, CloseDataChannels

-----------------------------------------------------------------------------

\* The inductive invariant holds: a close and a message are each in one place,
\* and an early channel keeps its messages in order.
THEOREM Invariance == Spec => []IInv
<1>1. Init => IInv
    <2> SUFFICES ASSUME Init PROVE IInv
        OBVIOUS
    <2>1. posted = <<>> /\ recvQueue = <<>> /\ ~storedClosed
          /\ \A t \in Threads : pc[t] \notin {"closedCb", "call"}
        BY DEF Init, Threads
    <2>2. ClosedInv /\ ClosedOnce
        BY <2>1 DEF ClosedInv, ClosedOnce, ClosedPosted, At
    <2>3. MessageInv /\ NoDuplicate
        BY <2>1 DEF MessageInv, NoDuplicate, At
    <2>4. ProcInv /\ EarlyInv
        BY DEF Init, ProcInv, EarlyInv, Threads
    <2>5. OrderInv
        BY <2>1 DEF OrderInv, MessagesInOrder, At, Threads
    <2> QED BY <2>2, <2>3, <2>4, <2>5, InitType DEF IInv
<1>2. IInv /\ [Next]_vars => IInv'
    BY TypeStep, ClosedStep, MessageStep, ProcStep, EarlyStep, OrderStep, KindStep
    DEF IInv
<1> QED BY <1>1, <1>2, PTL DEF Spec

\* The variables of the channel and of its binding keep their types.
THEOREM TypeCorrect == Spec => []TypeOK
BY Invariance, PTL DEF IInv

\* onClosed is called at most once, for every kind of channel.
THEOREM ClosedReportedOnce == Spec => []ClosedOnce
BY Invariance, PTL DEF IInv

\* No message reaches onMessage twice, for any number of messages, although
\* two threads may flush at once.
THEOREM NoMessageTwice == Spec => []NoDuplicate
BY Invariance, PTL DEF IInv

\* The messages of a channel created before the connection reach onMessage in
\* the order they were received, for any number of messages, whoever closes it.
THEOREM EarlyMessagesInOrder == Spec => []EarlyInOrder
<1>1. IInv => EarlyInOrder
    BY DEF IInv, OrderInv, EarlyInOrder
<1> QED BY <1>1, Invariance, PTL
=============================================================================
