----------------------------- MODULE EventQueue -----------------------------
(***************************************************************************)
(* The event queue of the HashLink binding (cpp/src/datachannel.c).        *)
(*                                                                         *)
(* libdatachannel runs the binding's callbacks (descriptionCallback,       *)
(* messageCallback, ...) on its own threads. A callback takes              *)
(* callback_result_mutex, links a malloc'ed node at the end of             *)
(* callback_results, fills it, releases the mutex and then releases one    *)
(* token of callback_result_semaphore. dataChannelCallback does the same   *)
(* with datachannel_callbacks and no token. process_events, called by the  *)
(* application, first drains datachannel_callbacks, then takes one token   *)
(* per node of callback_results, and calls the Haxe closures.              *)
(***************************************************************************)
EXTENDS Integers, Sequences, FiniteSets

CONSTANTS Threads,      \* libdatachannel's (and the application's other) threads
          App,          \* the thread that calls RTC.processEvents
          Nobody,       \* the owner of a free mutex
          MaxEvents,    \* bound: nodes malloc'ed for one list
          MaxFinalize   \* bound: calls of RTC.finalize

Procs == Threads \cup {App}

ASSUME ConstantsAssumption ==
    /\ IsFiniteSet(Threads)
    /\ App \notin Threads
    /\ Nobody \notin Procs
    /\ MaxEvents \in Nat
    /\ MaxFinalize \in Nat

NULL == 0

\* callback_results and datachannel_callbacks
Lists == {"results", "dcs"}

\* A node's address. malloc never returns the address of a node in use, so
\* the n-th node of a list gets address n.
Nodes == 1 .. MaxEvents

\* The payload of a node: the callback that filled it and which of that
\* thread's callbacks on that list it was. num = 0 is malloc's garbage.
Items == [from : Procs, num : Nat]
Garbage == [from |-> App, num |-> 0]

VARIABLES
    up,         \* the mutex and the semaphores are allocated
    mutex,      \* the owner of callback_result_mutex
    tokens,     \* the count of callback_result_semaphore
    head, end,  \* per list: callback_results, callback_results_end (and dcs)
    next,       \* per list and node: its next field
    item,       \* per list and node: its payload
    fresh,      \* per list: nodes malloc'ed so far
    freed,      \* per list: nodes free'd so far
    pc,         \* per thread: where its callback stands
    target,     \* per thread: the list its callback appends to
    res,        \* per thread: the callback's local variable res
    cpc,        \* where process_events stands
    clist,      \* the loop of process_events: the list it drains
    cres,       \* process_events' local variable res
    sent,       \* history: per thread and list, nodes it has filled
    delivered,  \* history: per list, the payloads the closures were called with
    finals,     \* history: calls of finalize
    fault       \* a NULL or a held lock was used as the code must not

listVars == <<head, end, next, fresh>>
producerVars == <<pc, target, res>>
consumerVars == <<cpc, clist, cres>>
syncVars == <<up, mutex, tokens>>
vars == <<syncVars, listVars, item, freed, producerVars, consumerVars,
          sent, delivered, finals, fault>>

TypeOK ==
    /\ up \in BOOLEAN
    /\ mutex \in Procs \cup {Nobody}
    /\ tokens \in Nat
    /\ head \in [Lists -> Nodes \cup {NULL}]
    /\ end \in [Lists -> Nodes \cup {NULL}]
    /\ next \in [Lists -> [Nodes -> Nodes \cup {NULL}]]
    /\ item \in [Lists -> [Nodes -> Items]]
    /\ fresh \in [Lists -> 0 .. MaxEvents]
    /\ freed \in [Lists -> SUBSET Nodes]
    /\ pc \in [Procs -> {"idle", "alloc", "fill", "post"}]
    /\ target \in [Procs -> Lists]
    /\ res \in [Procs -> Nodes \cup {NULL}]
    /\ cpc \in {"app", "try", "lock", "pop", "unlock", "deliver", "call"}
    /\ clist \in Lists
    /\ cres \in Nodes \cup {NULL}
    /\ sent \in [Procs -> [Lists -> Nat]]
    /\ delivered \in [Lists -> Seq(Items)]
    /\ finals \in 0 .. MaxFinalize
    /\ fault \in BOOLEAN

\* The state RTC.init leaves: no connection exists before it.
Init ==
    /\ up = TRUE
    /\ mutex = Nobody
    /\ tokens = 0
    /\ head = [l \in Lists |-> NULL]
    /\ end = [l \in Lists |-> NULL]
    /\ next = [l \in Lists |-> [n \in Nodes |-> NULL]]
    /\ item = [l \in Lists |-> [n \in Nodes |-> Garbage]]
    /\ fresh = [l \in Lists |-> 0]
    /\ freed = [l \in Lists |-> {}]
    /\ pc = [t \in Procs |-> "idle"]
    /\ target = [t \in Procs |-> "results"]
    /\ res = [t \in Procs |-> NULL]
    /\ cpc = "app"
    /\ clist = "dcs"
    /\ cres = NULL
    /\ sent = [t \in Procs |-> [l \in Lists |-> 0]]
    /\ delivered = [l \in Lists |-> <<>>]
    /\ finals = 0
    /\ fault = FALSE

(***************************************************************************)
(* The producers.                                                          *)
(***************************************************************************)

\* libdatachannel calls a callback at any time on its own threads; on the
\* application's thread only under a call that application code makes
\* (rtcSetMessageCallback flushes pending messages, ...).
MayCallBack(t) == t = App => cpc \in {"app", "call"}

\* The callback's hl_mutex_acquire.
CallbackLock(t, l) ==
    /\ ~fault /\ up
    /\ pc[t] = "idle" /\ MayCallBack(t)
    /\ mutex = Nobody
    /\ fresh[l] < MaxEvents
    /\ mutex' = t
    /\ pc' = [pc EXCEPT ![t] = "alloc"]
    /\ target' = [target EXCEPT ![t] = l]
    /\ UNCHANGED <<up, tokens, listVars, item, freed, res, consumerVars,
                   sent, delivered, finals, fault>>

\* callback_result_alloc and datachannel_callback_alloc: link a new last node.
Alloc(t) ==
    LET l == target[t]
        n == fresh[l] + 1
    IN  /\ ~fault
        /\ pc[t] = "alloc"
        /\ fresh' = [fresh EXCEPT ![l] = n]
        /\ end' = [end EXCEPT ![l] = n]
        /\ \/ /\ end[l] = NULL
              /\ head' = [head EXCEPT ![l] = n]
              /\ next' = [next EXCEPT ![l][n] = NULL]
           \/ /\ end[l] # NULL
              /\ next' = [next EXCEPT ![l][end[l]] = n, ![l][n] = NULL]
              /\ head' = head
        /\ res' = [res EXCEPT ![t] = n]
        /\ pc' = [pc EXCEPT ![t] = "fill"]
        /\ UNCHANGED <<syncVars, item, freed, target, consumerVars,
                       sent, delivered, finals, fault>>

\* Mutant: a token only for the first node of an empty list.
FillAndUnlockFirstPosts(t) ==
    LET l == target[t]
        k == sent[t][l] + 1
    IN  /\ ~fault /\ up
        /\ pc[t] = "fill"
        /\ item' = [item EXCEPT ![l][res[t]] = [from |-> t, num |-> k]]
        /\ sent' = [sent EXCEPT ![t][l] = k]
        /\ mutex' = Nobody
        /\ pc' = [pc EXCEPT ![t] = IF l = "results" /\ head[l] = res[t]
                                   THEN "post" ELSE "idle"]
        /\ UNCHANGED <<up, tokens, listVars, freed, target, res, consumerVars,
                       delivered, finals, fault>>

\* Mutant: dataChannelCallback releases the same semaphore.
FillAndUnlockAllPost(t) ==
    LET l == target[t]
        k == sent[t][l] + 1
    IN  /\ ~fault /\ up
        /\ pc[t] = "fill"
        /\ item' = [item EXCEPT ![l][res[t]] = [from |-> t, num |-> k]]
        /\ sent' = [sent EXCEPT ![t][l] = k]
        /\ mutex' = Nobody
        /\ pc' = [pc EXCEPT ![t] = "post"]
        /\ UNCHANGED <<up, tokens, listVars, freed, target, res, consumerVars,
                       delivered, finals, fault>>

\* The callback fills the node and releases the mutex; dataChannelCallback
\* ends here, the others still owe the semaphore a token.
FillAndUnlock(t) ==
    LET l == target[t]
        k == sent[t][l] + 1
    IN  /\ ~fault /\ up
        /\ pc[t] = "fill"
        /\ item' = [item EXCEPT ![l][res[t]] = [from |-> t, num |-> k]]
        /\ sent' = [sent EXCEPT ![t][l] = k]
        /\ mutex' = Nobody
        /\ pc' = [pc EXCEPT ![t] = IF l = "results" THEN "post" ELSE "idle"]
        /\ UNCHANGED <<up, tokens, listVars, freed, target, res, consumerVars,
                       delivered, finals, fault>>

\* hl_semaphore_release.
Post(t) ==
    /\ ~fault /\ up
    /\ pc[t] = "post"
    /\ tokens' = tokens + 1
    /\ pc' = [pc EXCEPT ![t] = "idle"]
    /\ UNCHANGED <<up, mutex, listVars, item, freed, target, res, consumerVars,
                   sent, delivered, finals, fault>>

(***************************************************************************)
(* process_events, on the application's thread.                            *)
(***************************************************************************)

\* The thread is in process_events and not inside a callback under it.
InProcessEvents == ~fault /\ pc[App] = "idle"

\* Entry: the loop over datachannel_callbacks takes no token.
ProcessEvents ==
    /\ InProcessEvents
    /\ cpc = "app"
    /\ cpc' = "lock"
    /\ clist' = "dcs"
    /\ UNCHANGED <<syncVars, listVars, item, freed, producerVars, cres,
                   sent, delivered, finals, fault>>

\* hl_semaphore_try_acquire: without a token process_events returns.
TryAcquire ==
    /\ InProcessEvents /\ up
    /\ cpc = "try"
    /\ \/ tokens = 0 /\ cpc' = "app" /\ tokens' = tokens
       \/ tokens > 0 /\ cpc' = "lock" /\ tokens' = tokens - 1
    /\ UNCHANGED <<up, mutex, listVars, item, freed, producerVars, clist, cres,
                   sent, delivered, finals, fault>>

\* Mutant: process_events does not wait for the mutex.
LockWithoutMutex ==
    /\ InProcessEvents /\ up
    /\ cpc = "lock"
    /\ cpc' = "pop"
    /\ UNCHANGED <<syncVars, listVars, item, freed, producerVars, clist, cres,
                   sent, delivered, finals, fault>>

Lock ==
    /\ InProcessEvents /\ up
    /\ cpc = "lock"
    /\ mutex = Nobody
    /\ mutex' = App
    /\ cpc' = "pop"
    /\ UNCHANGED <<up, tokens, listVars, item, freed, producerVars, clist, cres,
                   sent, delivered, finals, fault>>

\* res = head, and head = head->next when there is one.
Pop ==
    /\ InProcessEvents
    /\ cpc = "pop"
    /\ cres' = head[clist]
    /\ \/ head[clist] = NULL /\ head' = head
       \/ /\ head[clist] # NULL
          /\ head' = [head EXCEPT ![clist] = next[clist][head[clist]]]
    /\ cpc' = "unlock"
    /\ UNCHANGED <<syncVars, end, next, fresh, item, freed, producerVars, clist,
                   sent, delivered, finals, fault>>

\* Mutant: callback_results_end is left at the last, unlinked node.
UnlockEndKept ==
    /\ InProcessEvents /\ up
    /\ cpc = "unlock"
    /\ mutex' = Nobody
    /\ \/ cres # NULL /\ cpc' = "deliver" /\ clist' = clist
       \/ cres = NULL /\ clist = "dcs" /\ cpc' = "try" /\ clist' = "results"
       \/ cres = NULL /\ clist = "results" /\ cpc' = "app" /\ clist' = clist
    /\ UNCHANGED <<up, tokens, listVars, item, freed, producerVars, cres,
                   sent, delivered, finals, fault>>

\* The end pointer follows a list that became empty; then the mutex is
\* released. Without a node, the dcs loop goes on to the results loop and the
\* results loop returns.
Unlock ==
    /\ InProcessEvents /\ up
    /\ cpc = "unlock"
    /\ end' = IF cres # NULL /\ head[clist] = NULL
              THEN [end EXCEPT ![clist] = NULL] ELSE end
    /\ mutex' = Nobody
    /\ \/ cres # NULL /\ cpc' = "deliver" /\ clist' = clist
       \/ cres = NULL /\ clist = "dcs" /\ cpc' = "try" /\ clist' = "results"
       \/ cres = NULL /\ clist = "results" /\ cpc' = "app" /\ clist' = clist
    /\ UNCHANGED <<up, tokens, head, next, fresh, item, freed, producerVars, cres,
                   sent, delivered, finals, fault>>

\* The node's fields are read and hl_dyn_call enters the Haxe closure.
Deliver ==
    /\ InProcessEvents
    /\ cpc = "deliver"
    /\ delivered' = [delivered EXCEPT ![clist] = Append(@, item[clist][cres])]
    /\ cpc' = "call"
    /\ UNCHANGED <<syncVars, listVars, item, freed, producerVars, clist, cres,
                   sent, finals, fault>>

\* The closure returns, the node is free'd and the loop runs again.
Return ==
    /\ InProcessEvents
    /\ cpc = "call"
    /\ freed' = [freed EXCEPT ![clist] = @ \cup {cres}]
    /\ cres' = NULL
    /\ cpc' = IF clist = "dcs" THEN "lock" ELSE "try"
    /\ UNCHANGED <<syncVars, listVars, item, producerVars, clist,
                   sent, delivered, finals, fault>>

(***************************************************************************)
(* RTC.init and RTC.finalize, called by application code: outside          *)
(* process_events or in a closure it calls. Neither touches the lists.     *)
(***************************************************************************)

InAppCode == InProcessEvents /\ cpc \in {"app", "call"}

Initialize ==
    /\ InAppCode
    /\ ~up
    /\ up' = TRUE
    /\ tokens' = 0
    /\ UNCHANGED <<mutex, listVars, item, freed, producerVars, consumerVars,
                   sent, delivered, finals, fault>>

\* Freeing the mutex while a callback holds it is undefined.
Finalize ==
    /\ InAppCode
    /\ up
    /\ finals < MaxFinalize
    /\ up' = FALSE
    /\ tokens' = 0
    /\ finals' = finals + 1
    /\ fault' = (mutex # Nobody)
    /\ UNCHANGED <<mutex, listVars, item, freed, producerVars, consumerVars,
                   sent, delivered>>

\* A callback or process_events uses a lock that is NULL.
UsesLock(t) ==
    \/ pc[t] = "idle" /\ MayCallBack(t)
    \/ pc[t] \in {"fill", "post"}
    \/ t = App /\ pc[t] = "idle" /\ cpc \in {"try", "lock", "unlock"}

NullLock(t) ==
    /\ ~fault /\ ~up
    /\ UsesLock(t)
    /\ fault' = TRUE
    /\ UNCHANGED <<syncVars, listVars, item, freed, producerVars, consumerVars,
                   sent, delivered, finals>>

-----------------------------------------------------------------------------

Continue(t) == Alloc(t) \/ FillAndUnlock(t) \/ Post(t)

Consume == TryAcquire \/ Lock \/ Pop \/ Unlock \/ Deliver \/ Return

Next ==
    \/ \E t \in Procs, l \in Lists : CallbackLock(t, l)
    \/ \E t \in Procs : Continue(t)
    \/ ProcessEvents
    \/ Consume
    \/ Initialize
    \/ Finalize
    \/ \E t \in Procs : NullLock(t)

Spec == Init /\ [][Next]_vars

\* A callback that has begun runs on, and so does process_events; the
\* application calls process_events again and again ("Hashlink needs this",
\* README.md), and its closures return.
Fairness ==
    /\ \A t \in Procs : WF_vars(Continue(t))
    /\ WF_vars(Consume)
    /\ WF_vars(ProcessEvents)

FairSpec == Spec /\ Fairness

(***************************************************************************)
(* Correctness.                                                            *)
(***************************************************************************)

\* Nodes of list l that process_events has unlinked: head is the first one left.
Popped(l) == IF head[l] = NULL THEN fresh[l] ELSE head[l] - 1

\* process_events has unlinked a node and not yet looked at the end pointer.
MidPop(l) == cpc = "unlock" /\ clist = l /\ cres # NULL

\* At every moment the pointers of both lists describe exactly the nodes
\* malloc'ed and not unlinked, in allocation order, and none of them, nor the
\* end pointer that the next callback_result_alloc writes through, nor the
\* node process_events holds, is free'd. It fails if callback_results_end is
\* not cleared with the last node.
ListIntact ==
    \A l \in Lists :
        /\ head[l] <= fresh[l]
        /\ head[l] # NULL => end[l] = fresh[l]
        /\ head[l] = NULL => end[l] = (IF MidPop(l) THEN fresh[l] ELSE NULL)
        /\ \A n \in Nodes :
              /\ n = fresh[l] => next[l][n] = NULL
              /\ n < fresh[l] /\ n > Popped(l) => next[l][n] = n + 1
        /\ \A n \in freed[l] : n <= Popped(l) /\ (clist = l => n # cres)

\* Threads that have linked a node of callback_results and not yet released
\* the semaphore for it.
Owing == {t \in Procs : pc[t] \in {"fill", "post"} /\ target[t] = "results"}

\* The token process_events has taken for a node it has not unlinked yet.
Taken == IF clist = "results" /\ cpc \in {"lock", "pop"} THEN 1 ELSE 0

\* Semaphore tokens, counting those the callbacks still owe and the one
\* process_events has in hand.
Accounted == tokens + Cardinality(Owing) + Taken

\* "Regular callbacks: one semaphore token per queued item" (the comment in
\* process_events): tokens account for the nodes of callback_results exactly.
OneTokenPerItem == Accounted = fresh["results"] - Popped("results")

\* OneTokenPerItem holds until RTC.finalize frees the semaphore and its count;
\* the nodes stay linked, and from then on tokens deliver older events.
TokensMatch == finals = 0 => OneTokenPerItem

\* Even when RTC.finalize has thrown tokens away, a token process_events takes
\* always finds a node: the `res == NULL` exit of the second loop never
\* swallows a token or ends process_events early.
TokenFindsNode ==
    clist = "results" /\ cpc = "unlock" => cres # NULL

\* What the closures have been called with, thread by thread: the callbacks of
\* one thread arrive complete, once each and in the order they ran, and no
\* node is read before it is filled.
DeliveredInOrder ==
    \A l \in Lists :
        /\ \A i \in DOMAIN delivered[l] :
              /\ delivered[l][i].num \in 1 .. sent[delivered[l][i].from][l]
              /\ \A m \in 1 .. delivered[l][i].num - 1 :
                    \E j \in 1 .. i - 1 :
                        delivered[l][j] = [from |-> delivered[l][i].from, num |-> m]
        /\ \A i, j \in DOMAIN delivered[l] :
              i < j /\ delivered[l][i].from = delivered[l][j].from
                => delivered[l][i].num < delivered[l][j].num

(***************************************************************************)
(* The inductive invariant.                                                *)
(***************************************************************************)

\* Who is inside the critical section holds the mutex, and the application's
\* thread runs a callback only from application code.
MutexInv ==
    /\ \A t \in Procs : pc[t] \in {"alloc", "fill"} => mutex = t
    /\ cpc \in {"pop", "unlock"} => mutex = App
    /\ pc[App] # "idle" => cpc \in {"app", "call"}

\* What each control point knows of the local variables.
PhaseInv ==
    /\ \A t \in Procs :
          /\ pc[t] = "alloc" => fresh[target[t]] < MaxEvents
          /\ pc[t] = "fill" => /\ head[target[t]] # NULL
                               /\ res[t] = fresh[target[t]]
          /\ pc[t] = "post" => target[t] = "results"
    /\ cpc \in {"app", "try", "lock", "pop"} => cres = NULL
    /\ cpc \in {"deliver", "call"} => cres # NULL
    /\ cpc = "try" => clist = "results"
    /\ cres # NULL => cres = Popped(clist)

\* The tokens never promise more than the list holds.
TokenInv ==
    /\ Accounted <= fresh["results"] - Popped("results")
    /\ finals = 0 => up /\ OneTokenPerItem

\* RTC.finalize, as the tests and examples call it (with live connections),
\* leaves no callback and no process_events with a NULL or freed lock.
NoFault == ~fault

\* Nodes of list l whose payload is written.
Filled(l) ==
    IF \E t \in Procs : pc[t] = "fill" /\ target[t] = l
    THEN fresh[l] - 1 ELSE fresh[l]

\* The node of list l that process_events holds and has not delivered.
InHand(l) ==
    IF clist = l /\ cpc \in {"unlock", "deliver"} /\ cres # NULL THEN 1 ELSE 0

\* The payloads delivered are those of the first nodes.
DeliveredPrefix(l) ==
    /\ Len(delivered[l]) = Popped(l) - InHand(l)
    /\ \A i \in 1 .. Len(delivered[l]) : delivered[l][i] = item[l][i]

\* Every callback that has run has its node.
AllKept(l) ==
    \A t \in Procs : \A m \in 1 .. sent[t][l] :
        \E i \in 1 .. Filled(l) : item[l][i] = [from |-> t, num |-> m]

\* The payloads of one thread lie in the order its callbacks ran.
KeptInOrder(l) ==
    \A i \in 1 .. Filled(l) :
        /\ item[l][i].num \in 1 .. sent[item[l][i].from][l]
        /\ \A j \in 1 .. Filled(l) :
              i < j /\ item[l][i].from = item[l][j].from
                => item[l][i].num < item[l][j].num

HistoryInv == \A l \in Lists : DeliveredPrefix(l) /\ AllKept(l) /\ KeptInOrder(l)

IInv == TypeOK /\ MutexInv /\ PhaseInv /\ ListIntact /\ TokenFindsNode
        /\ TokenInv /\ HistoryInv

\* The abstract queue: filled payloads the closures have not been called with.
Pending(l) ==
    [i \in 1 .. Filled(l) - Len(delivered[l]) |-> item[l][i + Len(delivered[l])]]

Channel == INSTANCE EventChannel WITH
    queue <- [l \in Lists |-> Pending(l)]

\* The pointers, the mutex and the semaphore implement two lossless FIFO
\* channels, whatever the threads' interleaving, with finalize and initialize.
RefinesChannel == Channel!Spec

\* An event a callback has queued reaches its closure, without another event
\* having to follow it, as long as the application keeps calling
\* process_events and does not call finalize.
QueuedIsDelivered ==
    \A t \in Procs, l \in Lists, k \in 1 .. MaxEvents :
        sent[t][l] >= k ~>
            \/ \E i \in DOMAIN delivered[l] : delivered[l][i] = [from |-> t, num |-> k]
            \/ finals > 0
=============================================================================
