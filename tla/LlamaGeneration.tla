--------------------------- MODULE LlamaGeneration --------------------------
(***************************************************************************)
(* The on-device model: LlamaLanguageModel.GenerateAsync runs the shim's   *)
(* dni_llama_generate on a pool thread, which calls OnPiece for every      *)
(* piece; OnPiece finds the call's channel by its key and the enumerator   *)
(* reads it.  All generations of a model share one llama.cpp context, and  *)
(* nothing keeps two of them apart: a cancelled one decodes on while the   *)
(* next begins.                                                            *)
(*                                                                         *)
(* The context is the sequence of the generations whose tokens it holds.   *)
(* Two decodes at the same time are a data race in the context; here they  *)
(* interleave, and any of them may fail.                                   *)
(***************************************************************************)
EXTENDS Naturals, Sequences, Functions

CONSTANTS
    Gens,        \* the calls of GenerateAsync
    MaxTokens,   \* max_tokens of a request
    Blank,       \* tokens without text, by their number in the output
    Prompt,      \* tokens of a prompt
    Context,     \* n_ctx
    Capacity     \* of the piece channel

ASSUME BoundsAssumption ==
    /\ MaxTokens \in Nat
    /\ Blank \subseteq 1..MaxTokens
    /\ Prompt \in Nat \ {0}
    /\ Context \in Nat
    /\ Capacity \in Nat \ {0}

VARIABLES
    task,       \* the pool task of each call
    reader,     \* its enumerator
    canceled,   \* its cancellation token
    writers,    \* the keys in Writers
    channel,    \* pieces written and not read, each the number of its token
    closed,     \* TryComplete was called
    kv,         \* the shared context
    decoded,    \* tokens sampled so far
    yielded,    \* pieces handed to the orchestrator
    dropped,    \* pieces OnPiece could not write (history)
    overlapped, \* another generation decoded in the meantime (history)
    mixed       \* sampled from a context that was not its own (history)

taskVars == <<task, writers, closed, kv, decoded, dropped, overlapped, mixed>>
vars == <<taskVars, reader, canceled, channel, yielded>>

TypeOK ==
    /\ task \in [Gens -> {"none", "queued", "decoding", "returned", "finished", "neverRan"}]
    /\ reader \in [Gens -> {"none", "reading", "completed", "canceled"}]
    /\ canceled \in [Gens -> BOOLEAN]
    /\ writers \subseteq Gens
    /\ channel \in [Gens -> Seq(1..MaxTokens)]
    /\ closed \in [Gens -> BOOLEAN]
    /\ kv \in Seq(Gens)
    /\ decoded \in [Gens -> 0..MaxTokens]
    /\ yielded \in [Gens -> Seq(1..MaxTokens)]
    /\ dropped \in [Gens -> SUBSET (1..MaxTokens)]
    /\ overlapped \in [Gens -> BOOLEAN]
    /\ mixed \in [Gens -> BOOLEAN]

Init ==
    /\ task = [g \in Gens |-> "none"]
    /\ reader = [g \in Gens |-> "none"]
    /\ canceled = [g \in Gens |-> FALSE]
    /\ writers = {}
    /\ channel = [g \in Gens |-> <<>>]
    /\ closed = [g \in Gens |-> FALSE]
    /\ kv = <<>>
    /\ decoded = [g \in Gens |-> 0]
    /\ yielded = [g \in Gens |-> <<>>]
    /\ dropped = [g \in Gens |-> {}]
    /\ overlapped = [g \in Gens |-> FALSE]
    /\ mixed = [g \in Gens |-> FALSE]

----------------------------------------------------------------------------
\* LlamaLanguageModel.GenerateAsync

\* The first MoveNext: register the channel's writer, queue the task, read.
GenerateAsync(g) ==
    /\ task[g] = "none"
    /\ writers' = writers \cup {g}
    /\ task' = [task EXCEPT ![g] = "queued"]
    /\ reader' = [reader EXCEPT ![g] = "reading"]
    /\ UNCHANGED <<canceled, channel, closed, kv, decoded, yielded, dropped, overlapped, mixed>>

Cancel(g) ==
    /\ reader[g] = "reading"
    /\ ~canceled[g]
    /\ canceled' = [canceled EXCEPT ![g] = TRUE]
    /\ UNCHANGED <<taskVars, reader, channel, yielded>>

\* Task.Run with a token that is already cancelled does not run the lambda, nor
\* its finally: the key stays in Writers.
NeverRuns(g) ==
    /\ task[g] = "queued"
    /\ canceled[g]
    /\ task' = [task EXCEPT ![g] = "neverRan"]
    /\ UNCHANGED <<writers, closed, kv, decoded, dropped, overlapped, mixed, reader, canceled, channel, yielded>>

ReadPiece(g) ==
    /\ reader[g] = "reading"
    /\ channel[g] # <<>>
    /\ yielded' = [yielded EXCEPT ![g] = Append(@, Head(channel[g]))]
    /\ channel' = [channel EXCEPT ![g] = Tail(@)]
    /\ UNCHANGED <<taskVars, reader, canceled>>

\* The channel is at its end; what dni_llama_generate returned is not looked at.
EndOfPieces(g) ==
    /\ reader[g] = "reading"
    /\ channel[g] = <<>> /\ closed[g]
    /\ reader' = [reader EXCEPT ![g] = "completed"]
    /\ UNCHANGED <<taskVars, canceled, channel, yielded>>

\* The wait for a piece, or the consumer between two pieces, sees the cancel.
ReadCanceled(g) ==
    /\ reader[g] = "reading"
    /\ canceled[g]
    /\ reader' = [reader EXCEPT ![g] = "canceled"]
    /\ UNCHANGED <<taskVars, canceled, channel, yielded>>

\* Mutant: the key is not removed.
FinishTaskKeepsKey(g) ==
    /\ task[g] = "returned"
    /\ task' = [task EXCEPT ![g] = "finished"]
    /\ closed' = [closed EXCEPT ![g] = TRUE]
    /\ UNCHANGED <<writers, kv, decoded, dropped, overlapped, mixed, reader, canceled, channel, yielded>>

\* The task's finally.
FinishTask(g) ==
    /\ task[g] = "returned"
    /\ task' = [task EXCEPT ![g] = "finished"]
    /\ closed' = [closed EXCEPT ![g] = TRUE]
    /\ writers' = writers \ {g}
    /\ UNCHANGED <<kv, decoded, dropped, overlapped, mixed, reader, canceled, channel, yielded>>

----------------------------------------------------------------------------
\* dni_llama_generate

Decoding == {g \in Gens : task[g] = "decoding"}

\* Mutant: what the last generation left in the context stays there.
GenerateOnDirtyContext(g) ==
    /\ task[g] = "queued"
    /\ task' = [task EXCEPT ![g] = "decoding"]
    /\ overlapped' = [h \in Gens |->
          overlapped[h] \/ (h = g /\ Decoding # {}) \/ h \in Decoding]
    /\ UNCHANGED <<kv, writers, closed, decoded, dropped, mixed, reader, canceled, channel, yielded>>

\* Clear the context, tokenize, build the sampler; a prompt or a grammar that is
\* refused returns at once.
Generate(g) ==
    /\ task[g] = "queued"
    /\ kv' = <<>>
    /\ \/ task' = [task EXCEPT ![g] = "decoding"]
       \/ task' = [task EXCEPT ![g] = "returned"]
    /\ overlapped' = [h \in Gens |->
          overlapped[h] \/ (h = g /\ Decoding # {}) \/ h \in Decoding]
    /\ UNCHANGED <<writers, closed, decoded, dropped, mixed, reader, canceled, channel, yielded>>

\* Mutant: wait for room in the channel.
OnPieceWaits(g, piece) ==
    /\ piece \in Blank \/ Len(channel[g]) < Capacity
    /\ channel' = [channel EXCEPT ![g] = IF piece \in Blank THEN @ ELSE Append(@, piece)]
    /\ UNCHANGED dropped

\* Mutant: the newest unread piece is overwritten when the channel is full.
OnPieceOverwrites(g, piece) ==
    /\ channel' = [channel EXCEPT ![g] = Append(SubSeq(@, 1, Capacity - 1), piece)]
    /\ UNCHANGED dropped

\* OnPiece: a piece without text is skipped; the result of TryWrite is not
\* looked at.
OnPiece(g, piece) ==
    \/ /\ piece \in Blank
       /\ UNCHANGED <<channel, dropped>>
    \/ /\ piece \notin Blank
       /\ g \in writers /\ Len(channel[g]) < Capacity
       /\ channel' = [channel EXCEPT ![g] = Append(@, piece)]
       /\ UNCHANGED dropped
    \/ /\ piece \notin Blank
       /\ g \notin writers \/ Len(channel[g]) >= Capacity
       /\ dropped' = [dropped EXCEPT ![g] = @ \cup {piece}]
       /\ UNCHANGED channel

\* The tokens of the batch: the prompt, then the token sampled last.
Batch(g) == IF decoded[g] = 0 THEN Prompt ELSE 1
Own(g, n) == [i \in 1..n |-> g]

\* llama_decode of the batch, and the sample taken from the context after it.
Decode(g) ==
    /\ task[g] = "decoding"
    /\ decoded[g] < MaxTokens
    /\ Len(kv) + Batch(g) <= Context
    /\ kv' = kv \o Own(g, Batch(g))
    /\ mixed' = [mixed EXCEPT ![g] = @ \/ kv' # Own(g, Prompt + decoded[g])]

\* One turn of the loop that samples a token with a piece.
DecodeToken(g) ==
    /\ Decode(g)
    /\ decoded' = [decoded EXCEPT ![g] = @ + 1]
    /\ OnPiece(g, decoded[g] + 1)
    /\ UNCHANGED <<task, writers, closed, overlapped, reader, canceled, yielded>>

\* The last turn: end of generation, or a token that has no piece.
LastToken(g) ==
    /\ Decode(g)
    /\ task' = [task EXCEPT ![g] = "returned"]
    /\ UNCHANGED <<writers, closed, decoded, dropped, overlapped, reader, canceled, channel, yielded>>

\* max_tokens, or a context that has no room for the batch: llama_decode fails.
Return(g) ==
    /\ task[g] = "decoding"
    /\ decoded[g] = MaxTokens \/ Len(kv) + Batch(g) > Context
    /\ task' = [task EXCEPT ![g] = "returned"]
    /\ UNCHANGED <<writers, closed, kv, decoded, dropped, overlapped, mixed, reader, canceled, channel, yielded>>

\* llama_decode fails for another reason.
DecodeFails(g) ==
    /\ task[g] = "decoding"
    /\ decoded[g] < MaxTokens
    /\ task' = [task EXCEPT ![g] = "returned"]
    /\ UNCHANGED <<writers, closed, kv, decoded, dropped, overlapped, mixed, reader, canceled, channel, yielded>>

----------------------------------------------------------------------------

TaskStep(g) == NeverRuns(g) \/ Generate(g) \/ DecodeToken(g) \/ Return(g) \/ FinishTask(g)
ReaderStep(g) == ReadPiece(g) \/ EndOfPieces(g) \/ ReadCanceled(g)

Next ==
    \E g \in Gens : \/ GenerateAsync(g) \/ Cancel(g) \/ LastToken(g) \/ DecodeFails(g)
                    \/ TaskStep(g) \/ ReaderStep(g)

\* The pool thread runs, and whoever enumerates goes on until the stream ends.
\* Neither the end of the text nor a failing decode is counted on.
Fairness == \A g \in Gens : WF_vars(TaskStep(g)) /\ WF_vars(ReaderStep(g))

Spec == Init /\ [][Next]_vars /\ Fairness

----------------------------------------------------------------------------

\* Pieces reach the orchestrator in the order they were generated, none twice,
\* and none disappears but those that found the channel full: a reader that
\* is never a channel behind gets the whole text.
PiecesAccounted ==
    \A g \in Gens :
        LET pieces == yielded[g] \o channel[g]
        IN  /\ \A i, j \in 1..Len(pieces) : i < j => pieces[i] < pieces[j]
            /\ Range(pieces) \cup dropped[g] = (1..decoded[g]) \ Blank
            /\ Range(pieces) \cap dropped[g] = {}

\* A stream that completes has handed over everything that was written, after
\* the native call returned and its key was removed; only a call cancelled
\* before it ran leaves its key behind.
CompletedIsDrained ==
    \A g \in Gens :
        /\ reader[g] = "completed" => task[g] = "finished" /\ channel[g] = <<>>
        /\ g \in writers <=> task[g] \in {"queued", "decoding", "returned", "neverRan"}

\* A generation samples from its own prompt and its own tokens alone, unless it
\* overlapped with another one: clearing the context on entry removes what an
\* earlier call left there, and cannot keep a concurrent one out.
GenerationIsolated ==
    \A g \in Gens : mixed[g] => overlapped[g]

\* The native call ends whether or not anybody still reads, since OnPiece never
\* waits for room; and the enumeration ends.
GenerationEnds ==
    \A g \in Gens :
        /\ task[g] = "queued" ~> task[g] \in {"finished", "neverRan"}
        /\ reader[g] = "reading" ~> reader[g] \in {"completed", "canceled"}
=============================================================================
