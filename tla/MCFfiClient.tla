---------------------------- MODULE MCFfiClient ----------------------------
(***************************************************************************)
(* FfiClient with a small session channel and a small Kotlin channel.      *)
(***************************************************************************)
EXTENDS FfiClient

=============================================================================
