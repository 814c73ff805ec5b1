------------------------- MODULE MCForemanViewModel -------------------------
(***************************************************************************)
(* ForemanViewModel for TLC.                                               *)
(***************************************************************************)
EXTENDS ForemanViewModel
=============================================================================
