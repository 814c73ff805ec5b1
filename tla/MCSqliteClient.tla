-------------------------- MODULE MCSqliteClient --------------------------
(***************************************************************************)
(* SqliteClient with a few broker instances and a small channel.           *)
(***************************************************************************)
EXTENDS SqliteClient

=============================================================================
