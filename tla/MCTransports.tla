---------------------------- MODULE MCTransports ----------------------------
(* One connection, a few packets. *)
EXTENDS Transports
=============================================================================
