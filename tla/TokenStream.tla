---------------------------- MODULE TokenStream ----------------------------
(***************************************************************************)
(* What one inference session promises the host that consumes it, whatever *)
(* transport carries the tokens: the tokens arrive with consecutive        *)
(* indexes from 0, at most one of them is the final marker and nothing     *)
(* follows it, and the stream is closed exactly once, after the final      *)
(* marker ("complete") or before it ("cut": a cancellation or a fault).    *)
(***************************************************************************)
EXTENDS Naturals, Sequences

CONSTANT MaxFragments   \* bound on the fragments one generation yields

VARIABLES stream, status

streamVars == <<stream, status>>

Fragment(i) == [index |-> i, isFinal |-> FALSE]
Final(i) == [index |-> i, isFinal |-> TRUE]
Token == [index : Nat, isFinal : BOOLEAN]

HasFinal(s) == \E i \in DOMAIN s : s[i].isFinal

StreamTypeOK ==
    /\ stream \in Seq(Token)
    /\ status \in {"open", "complete", "cut"}

StreamInit ==
    /\ stream = <<>>
    /\ status = "open"

Emit(token) ==
    /\ status = "open"
    /\ ~HasFinal(stream)
    /\ stream' = Append(stream, token)
    /\ UNCHANGED status

Close ==
    /\ status = "open"
    /\ status' = IF HasFinal(stream) THEN "complete" ELSE "cut"
    /\ UNCHANGED stream

StreamNext ==
    \/ Len(stream) < MaxFragments /\ Emit(Fragment(Len(stream)))
    \/ Emit(Final(Len(stream)))
    \/ Close

StreamSafety == StreamInit /\ [][StreamNext]_streamVars

StreamFairness == WF_streamVars(StreamNext)

StreamSpec == StreamSafety /\ StreamFairness
=============================================================================
