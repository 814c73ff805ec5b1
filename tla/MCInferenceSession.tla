------------------------ MODULE MCInferenceSession ------------------------
(* InferenceSession for TLC: the constants' values are in the .cfg.        *)
EXTENDS InferenceSession

=============================================================================
