------------------------ MODULE MCDataChannelBinding ------------------------
(* DataChannelBinding on small instances; the cfg files choose the kinds. *)
EXTENDS DataChannelBinding
=============================================================================
