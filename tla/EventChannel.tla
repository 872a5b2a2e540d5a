---------------------------- MODULE EventChannel ----------------------------
(***************************************************************************)
(* What the binding's event queue promises: every event a callback         *)
(* submits is handed to its Haxe closure once, in submission order; new    *)
(* incoming data channels ("dcs") and all other events ("results") travel  *)
(* separately.                                                             *)
(***************************************************************************)
EXTENDS Naturals, Sequences

CONSTANTS Procs,  \* the threads that submit events
          Lists   \* the separate channels

VARIABLES queue,     \* per list: events submitted and not handed over
          delivered, \* per list: events handed over
          sent       \* per thread and list: how many it has submitted

vars == <<queue, delivered, sent>>

Init ==
    /\ queue = [l \in Lists |-> <<>>]
    /\ delivered = [l \in Lists |-> <<>>]
    /\ sent = [t \in Procs |-> [l \in Lists |-> 0]]

Submit(t, l) ==
    /\ sent' = [sent EXCEPT ![t][l] = @ + 1]
    /\ queue' = [queue EXCEPT ![l] = Append(@, [from |-> t, num |-> sent'[t][l]])]
    /\ UNCHANGED delivered

HandOver(l) ==
    /\ queue[l] # <<>>
    /\ delivered' = [delivered EXCEPT ![l] = Append(@, Head(queue[l]))]
    /\ queue' = [queue EXCEPT ![l] = Tail(@)]
    /\ UNCHANGED sent

Next ==
    \/ \E t \in Procs, l \in Lists : Submit(t, l)
    \/ \E l \in Lists : HandOver(l)

Spec == Init /\ [][Next]_vars
=============================================================================
