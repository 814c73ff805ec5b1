-------------------------- MODULE MCFfiLifecycle --------------------------
(* FfiLifecycle for TLC: the sets are model values, given in the cfg files. *)
EXTENDS FfiLifecycle
=============================================================================
