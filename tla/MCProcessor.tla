---------------------------- MODULE MCProcessor -----------------------------
(* Processor on a small instance: one object with three tasks, one with one. *)
EXTENDS Processor

CONSTANT first  \* the object with three tasks

MCMaxTasks == [p \in Processors |-> IF p = first THEN 3 ELSE 1]
=============================================================================
