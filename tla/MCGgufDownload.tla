--------------------------- MODULE MCGgufDownload ---------------------------
(***************************************************************************)
(* GgufDownload for TLC: two models and a page that is no model, files of  *)
(* three blocks, two view models, so that two downloads can overlap or one *)
(* can follow the other or a kill, and two faults, so that a resumed       *)
(* download can itself be interrupted.                                     *)
(***************************************************************************)
EXTENDS GgufDownload
=============================================================================
