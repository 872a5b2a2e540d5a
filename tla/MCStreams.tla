----------------------------- MODULE MCStreams ------------------------------
(* Two peers, two channels; the cfg files choose what they do. *)
EXTENDS Streams
=============================================================================
