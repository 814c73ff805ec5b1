------------------------- MODULE InferenceSession -------------------------
(***************************************************************************)
(* One running inference: the orchestrator that numbers the model's        *)
(* fragments, the pump that writes them into a bounded channel, the drain  *)
(* task that hands them to the native callback, and the host that may      *)
(* cancel or free the session at any moment, also from inside the          *)
(* callback.                                                               *)
(***************************************************************************)
EXTENDS Naturals, Sequences

CONSTANTS
    Capacity,       \* depth of the bounded channel (64 in the code)
    MaxFragments    \* bound on the fragments one generation yields

ASSUME CapacityAssumption == Capacity \in Nat \ {0}
ASSUME FragmentsAssumption == MaxFragments \in Nat

VARIABLES
    index,      \* InferenceOrchestrator.RunAsync's local counter
    pump,       \* where PumpAsync is
    held,       \* the token RunAsync yielded that WriteAsync has not taken: <<>> or <<t>>
    channel,    \* the buffered tokens
    closed,     \* how the channel's writer was completed
    canceled,   \* the session's CancellationTokenSource
    drain,      \* where DrainAsync is
    taken,      \* the token DrainAsync read and is passing to the callback: <<>> or <<t>>
    delivered,  \* what the callback has received (history)
    dispose,    \* where DisposeAsync is
    freer       \* the thread inside dni_session_free

vars == <<index, pump, held, channel, closed, canceled,
          drain, taken, delivered, dispose, freer>>

Fragment(i) == [index |-> i, isFinal |-> FALSE]
Final(i) == [index |-> i, isFinal |-> TRUE]
Token == [index : Nat, isFinal : BOOLEAN]

HasFinal(s) == \E i \in DOMAIN s : s[i].isFinal

AtMostOne(s) == Len(s) <= 1

TypeOK ==
    /\ index \in 0..MaxFragments
    /\ pump \in {"generating", "writing", "completing", "done"}
    /\ held \in Seq(Token) /\ AtMostOne(held)
    /\ channel \in Seq(Token) /\ Len(channel) <= Capacity
    /\ closed \in {"open", "completed", "faulted"}
    /\ canceled \in BOOLEAN
    /\ drain \in {"reading", "invoking", "ended", "aborted"}
    /\ taken \in Seq(Token) /\ AtMostOne(taken)
    /\ delivered \in Seq(Token)
    /\ dispose \in {"live", "disposing", "disposed"}
    /\ freer \in {"none", "host", "callback"}

\* InferenceSession.Start, and Task.Run(DrainAsync) by the export that started it.
Init ==
    /\ index = 0
    /\ pump = "generating"
    /\ held = <<>>
    /\ channel = <<>>
    /\ closed = "open"
    /\ canceled = FALSE
    /\ drain = "reading"
    /\ taken = <<>>
    /\ delivered = <<>>
    /\ dispose = "live"
    /\ freer = "none"

----------------------------------------------------------------------------
\* The producer: InferenceOrchestrator.RunAsync inside PumpAsync.

consumerVars == <<canceled, drain, taken, delivered, dispose, freer>>

\* The model yields a fragment; a fragment computed before it looked at its
\* cancellation token is still yielded.
YieldFragment ==
    /\ pump = "generating"
    /\ index < MaxFragments
    /\ held' = <<Fragment(index)>>
    /\ index' = index + 1
    /\ pump' = "writing"
    /\ UNCHANGED <<channel, closed, consumerVars>>

\* The model's stream ends; the orchestrator yields the final marker without
\* consulting the cancellation token.
YieldFinal ==
    /\ pump = "generating"
    /\ held' = <<Final(index)>>
    /\ pump' = "writing"
    /\ UNCHANGED <<index, channel, closed, consumerVars>>

\* Mutant: TryWrite instead of WriteAsync, a full channel drops the token.
WriteTokenOrDrop ==
    /\ pump = "writing"
    /\ ~canceled
    /\ channel' = IF Len(channel) < Capacity THEN Append(channel, held[1]) ELSE channel
    /\ held' = <<>>
    /\ pump' = IF HasFinal(held) THEN "completing" ELSE "generating"
    /\ UNCHANGED <<index, closed, consumerVars>>

\* WriteAsync accepts the token: it waits while the channel is full, and
\* throws once the session is cancelled.
WriteToken ==
    /\ pump = "writing"
    /\ ~canceled
    /\ Len(channel) < Capacity
    /\ channel' = Append(channel, held[1])
    /\ held' = <<>>
    /\ pump' = IF HasFinal(held) THEN "completing" ELSE "generating"
    /\ UNCHANGED <<index, closed, consumerVars>>

\* The await foreach ran to its end.
CompleteNormally ==
    /\ pump = "completing"
    /\ closed' = "completed"
    /\ pump' = "done"
    /\ UNCHANGED <<index, held, channel, consumerVars>>

\* Mutant: a writer blocked on a full channel does not see the cancellation.
CompleteCanceledBetweenTokens ==
    /\ pump = "generating"
    /\ canceled
    /\ closed' = "completed"
    /\ pump' = "done"
    /\ UNCHANGED <<index, held, channel, consumerVars>>

\* OperationCanceledException, out of the model or out of WriteAsync: the
\* token in hand is lost and the channel completes without an error.
CompleteCanceled ==
    /\ pump \in {"generating", "writing"}
    /\ canceled
    /\ closed' = "completed"
    /\ held' = <<>>
    /\ pump' = "done"
    /\ UNCHANGED <<index, channel, consumerVars>>

\* Mutant: the fault is not passed to TryComplete.
CompleteFaultedQuietly ==
    /\ pump = "generating"
    /\ closed' = "completed"
    /\ pump' = "done"
    /\ UNCHANGED <<index, held, channel, consumerVars>>

\* Any other exception out of the model.
CompleteFaulted ==
    /\ pump = "generating"
    /\ closed' = "faulted"
    /\ pump' = "done"
    /\ UNCHANGED <<index, held, channel, consumerVars>>

PumpAsync ==
    \/ YieldFragment
    \/ YieldFinal
    \/ WriteToken
    \/ CompleteNormally
    \/ CompleteCanceled
    \/ CompleteFaulted

----------------------------------------------------------------------------
\* The consumer: DrainAsync, and the callback it invokes.

producerVars == <<index, pump, held, closed>>

ReadToken ==
    /\ drain = "reading"
    /\ channel # <<>>
    /\ taken' = <<Head(channel)>>
    /\ channel' = Tail(channel)
    /\ drain' = "invoking"
    /\ UNCHANGED <<producerVars, canceled, delivered, dispose, freer>>

\* The native callback returns; one that is itself inside dni_session_free
\* cannot return before that call does.
Invoke ==
    /\ drain = "invoking"
    /\ freer = "callback" => dispose = "disposed"
    /\ delivered' = Append(delivered, taken[1])
    /\ taken' = <<>>
    /\ drain' = "reading"
    /\ UNCHANGED <<producerVars, channel, canceled, dispose, freer>>

\* ReadAllAsync ends: normally when the writer completed, with the writer's
\* error otherwise, which DrainAsync logs (FfiDrainAborted).
EndDrain ==
    /\ drain = "reading"
    /\ channel = <<>>
    /\ closed # "open"
    /\ drain' = IF closed = "faulted" THEN "aborted" ELSE "ended"
    /\ UNCHANGED <<producerVars, channel, canceled, taken, delivered, dispose, freer>>

DrainAsync == ReadToken \/ Invoke \/ EndDrain

----------------------------------------------------------------------------
\* The host's calls on the session.

\* dni_session_cancel; Cancel after Dispose is swallowed.
Cancel ==
    /\ canceled' = TRUE
    /\ UNCHANGED <<producerVars, channel, drain, taken, delivered, dispose, freer>>

\* dni_session_free, by a host thread or from inside the callback: the session
\* leaves the registry and DisposeAsync requests cancellation.
BeginDispose(caller) ==
    /\ dispose = "live"
    /\ caller = "callback" => drain = "invoking"
    /\ dispose' = "disposing"
    /\ freer' = caller
    /\ canceled' = TRUE
    /\ UNCHANGED <<producerVars, channel, drain, taken, delivered>>

\* Mutant: DisposeAsync also waits until the drain has ended.
EndDisposeAfterDrain ==
    /\ dispose = "disposing"
    /\ pump = "done"
    /\ drain \in {"ended", "aborted"}
    /\ dispose' = "disposed"
    /\ UNCHANGED <<producerVars, channel, canceled, drain, taken, delivered, freer>>

\* DisposeAsync awaits the pump, and only the pump.
EndDispose ==
    /\ dispose = "disposing"
    /\ pump = "done"
    /\ dispose' = "disposed"
    /\ UNCHANGED <<producerVars, channel, canceled, drain, taken, delivered, freer>>

Next ==
    \/ PumpAsync
    \/ DrainAsync
    \/ Cancel
    \/ \E caller \in {"host", "callback"} : BeginDispose(caller)
    \/ EndDispose

Spec == Init /\ [][Next]_vars

\* The thread pool runs the pump, the drain's own steps and a dispose that can
\* go on. Nothing is known of the host: its callback may never return.
FairSpec ==
    /\ Spec
    /\ WF_vars(PumpAsync)
    /\ WF_vars(ReadToken \/ EndDrain)
    /\ WF_vars(EndDispose)

\* A host whose callbacks return.
CallbacksReturn == WF_vars(Invoke)

----------------------------------------------------------------------------
\* Safety.

FinalYielded == \E s \in {delivered, taken, channel, held} : HasFinal(s)

Yielded == index + (IF FinalYielded THEN 1 ELSE 0)

\* The host sees the tokens numbered 0, 1, 2, ... in that order, none twice,
\* and no token after the final marker, whatever it cancels or frees and
\* whenever: the order of RunAsync survives the pump, the channel and the drain.
InOrder ==
    \A i \in DOMAIN delivered :
        /\ delivered[i].index = i - 1
        /\ delivered[i].isFinal => i = Len(delivered)

\* "Backpressure, never a dropped token": as long as nobody cancelled, every
\* token the orchestrator yielded is held by the pump, buffered, in the
\* callback, or delivered.
NothingDropped ==
    ~canceled => Len(delivered) + Len(taken) + Len(channel) + Len(held) = Yielded

\* A drain that ends quietly has delivered the final marker or was cancelled,
\* and one that aborts with the model's fault has not delivered it: a host that
\* did not cancel can tell a complete answer from a failed one.
EndsHonestly ==
    /\ drain = "ended" => HasFinal(delivered) \/ canceled
    /\ drain = "aborted" => ~HasFinal(delivered)

----------------------------------------------------------------------------
\* Liveness and refinement.

\* dni_session_free returns, even when the callback never does and even when it
\* is called from inside the callback: DisposeAsync waits for the pump, which
\* its cancellation unblocks, and not for the drain.
FreeReturns == dispose = "disposing" ~> dispose = "disposed"

\* What the host observes of the session is a token stream, and it is closed
\* sooner or later.
Stream == INSTANCE TokenStream WITH
    stream <- delivered,
    status <- IF drain \in {"reading", "invoking"} THEN "open"
              ELSE IF HasFinal(delivered) THEN "complete" ELSE "cut"

\* The session implements TokenStream, and its liveness too when the host's
\* callbacks return.
ImplementsTokenStream ==
    /\ Stream!StreamSafety
    /\ CallbacksReturn => Stream!StreamFairness

=============================================================================
