--------------------------- MODULE MCEngineTrace ---------------------------
(* EngineTrace for TLC: three slots, two recording threads, enough spans to *)
(* go round the ring twice.                                                 *)
EXTENDS EngineTrace, TLC

ThreadSymmetry == Permutations(Threads)

=============================================================================
