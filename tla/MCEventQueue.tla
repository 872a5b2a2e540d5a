---------------------------- MODULE MCEventQueue ----------------------------
(* EventQueue on small instances. The threads are interchangeable. *)
EXTENDS EventQueue, TLC

Symmetry == Permutations(Threads)
=============================================================================
