-------------------------- MODULE MCLlamaGeneration -------------------------
(***************************************************************************)
(* LlamaGeneration for TLC: two generations of up to three tokens, the     *)
(* second one blank, a channel of one piece, and a context that one        *)
(* generation fills.                                                       *)
(***************************************************************************)
EXTENDS LlamaGeneration
=============================================================================
