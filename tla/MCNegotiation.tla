--------------------------- MODULE MCNegotiation ----------------------------
(* Two peers, one track. *)
EXTENDS Negotiation
=============================================================================
