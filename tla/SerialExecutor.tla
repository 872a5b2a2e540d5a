--------------------------- MODULE SerialExecutor ---------------------------
(***************************************************************************)
(* What a processor promises ("Processed tasks in order by delegating them *)
(* to the thread pool", impl/processor.hpp): the tasks given to one        *)
(* processor run one at a time, in the order they were given, whichever    *)
(* threads of the pool run them.                                           *)
(***************************************************************************)
EXTENDS Naturals, Sequences

CONSTANT Processors

VARIABLES given,    \* per processor: tasks given to it so far
          started,  \* per processor: the tasks begun, in order
          ended     \* per processor: how many of them have ended

vars == <<given, started, ended>>

Init ==
    /\ given = [p \in Processors |-> 0]
    /\ started = [p \in Processors |-> <<>>]
    /\ ended = [p \in Processors |-> 0]

Give(p) ==
    /\ given' = [given EXCEPT ![p] = @ + 1]
    /\ UNCHANGED <<started, ended>>

Start(p) ==
    /\ ended[p] = Len(started[p])
    /\ Len(started[p]) < given[p]
    /\ started' = [started EXCEPT ![p] = Append(@, Len(@) + 1)]
    /\ UNCHANGED <<given, ended>>

End(p) ==
    /\ ended[p] < Len(started[p])
    /\ ended' = [ended EXCEPT ![p] = @ + 1]
    /\ UNCHANGED <<given, started>>

Next == \E p \in Processors : Give(p) \/ Start(p) \/ End(p)

Spec == Init /\ [][Next]_vars
=============================================================================
