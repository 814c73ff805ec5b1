----------------------------- MODULE FfiClient -----------------------------
(***************************************************************************)
(* The Android client of one FFI session, composed with the session:       *)
(* jni_bridge.c passes each callback of the drain on to a listener, the    *)
(* listener puts the token into a Kotlin channel without blocking, and a   *)
(* flow emits what it takes out of the channel, until the channel is       *)
(* closed or the collector's job is cancelled.  FfiClient, FfiRagService   *)
(* and FfiAgentService share this code.                                    *)
(***************************************************************************)
EXTENDS InferenceSession

CONSTANT Buffer     \* slots of the Kotlin channel (64 in the code)

ASSUME BufferAssumption == Buffer \in Nat \ {0}

VARIABLES
    flow,       \* where the flow's coroutine is
    outcome,    \* how the flow ends
    jobCanceled,
    buffer, bufferClosed,   \* the Kotlin channel
    emitted,    \* what the collector has received (history)
    callbackState,          \* jni_bridge.c's heap record for the callback
    jvmFailed   \* a token was lost on the way into the JVM (history)

clientVars == <<flow, outcome, jobCanceled, buffer, bufferClosed, emitted, callbackState,
                jvmFailed>>

ClientTypeOK ==
    /\ flow \in {"calling", "starting", "collecting", "cleanup", "canceled", "freeing", "ended"}
    /\ outcome \in {"none", "refused", "canceledAtStart", "completed", "error", "canceled"}
    /\ jobCanceled \in BOOLEAN
    /\ buffer \in Seq(Token) /\ Len(buffer) <= Buffer
    /\ bufferClosed \in {"open", "closed", "overflow"}
    /\ emitted \in Seq(Token)
    /\ callbackState \in {"live", "freed"}
    /\ jvmFailed \in BOOLEAN

\* start_streaming has allocated the record and calls dni_session_start.
ClientInit ==
    /\ Init
    /\ flow = "calling" /\ outcome = "none" /\ jobCanceled = FALSE
    /\ buffer = <<>> /\ bufferClosed = "open"
    /\ emitted = <<>>
    /\ callbackState = "live" /\ jvmFailed = FALSE

----------------------------------------------------------------------------
\* nativeSessionStart

\* The session runs, and calls back, before the native call returns its id.
SessionStarted ==
    /\ flow = "calling"
    /\ flow' = "starting"
    /\ UNCHANGED <<outcome, jobCanceled, buffer, bufferClosed, emitted, callbackState, jvmFailed, vars>>

\* A status instead of an id: the record is freed and the flow throws.
SessionRefused ==
    /\ flow = "calling"
    /\ flow' = "ended"
    /\ outcome' = "refused"
    /\ callbackState' = "freed"
    /\ UNCHANGED <<jobCanceled, buffer, bufferClosed, emitted, jvmFailed, vars>>

\* The id arrives in the coroutine; withContext throws instead when the job was
\* cancelled meanwhile, outside the try block that cleans up.
StartReturns ==
    /\ flow = "starting"
    /\ IF jobCanceled
       THEN flow' = "ended" /\ outcome' = "canceledAtStart"
       ELSE flow' = "collecting" /\ UNCHANGED outcome
    /\ UNCHANGED <<jobCanceled, buffer, bufferClosed, emitted, callbackState, jvmFailed, vars>>

----------------------------------------------------------------------------
\* ffi_token_callback and onToken, on the drain's thread.

Fits == bufferClosed = "open" /\ Len(buffer) < Buffer

\* Mutant: a token that does not fit is dropped and the channel stays open.
ClosedAfterDropping(token) ==
    IF bufferClosed # "open" THEN bufferClosed
    ELSE IF token.isFinal THEN "closed" ELSE "open"

\* How the token leaves the channel: the first close counts.
ClosedAfter(token) ==
    IF bufferClosed # "open" THEN bufferClosed
    ELSE IF token.isFinal THEN "closed"
    ELSE IF Fits THEN "open" ELSE "overflow"

FreesAlways(token) == TRUE          \* mutant: the record is freed by every call
Frees(token) == token.isFinal

OnToken ==
    /\ Invoke
    /\ buffer' = IF Fits THEN Append(buffer, taken[1]) ELSE buffer
    /\ bufferClosed' = ClosedAfter(taken[1])
    /\ callbackState' = IF Frees(taken[1]) THEN "freed" ELSE callbackState
    /\ UNCHANGED <<flow, outcome, jobCanceled, emitted, jvmFailed>>

\* The early returns of ffi_token_callback: the thread cannot be attached or the
\* string not be made.
TokenLost ==
    /\ Invoke
    /\ jvmFailed' = TRUE
    /\ UNCHANGED <<flow, outcome, jobCanceled, buffer, bufferClosed, emitted, callbackState>>

----------------------------------------------------------------------------
\* The flow.

\* The loop takes a token and emits it.
Emit ==
    /\ flow = "collecting"
    /\ ~jobCanceled
    /\ buffer # <<>>
    /\ emitted' = Append(emitted, Head(buffer))
    /\ buffer' = Tail(buffer)
    /\ UNCHANGED <<flow, outcome, jobCanceled, bufferClosed, callbackState, jvmFailed, vars>>

\* Mutant: a loop that ends by itself returns past the cleanup.
LoopEndsNoCleanup ==
    /\ flow = "collecting"
    /\ buffer = <<>>
    /\ bufferClosed # "open"
    /\ flow' = "ended"
    /\ outcome' = IF bufferClosed = "overflow" THEN "error" ELSE "completed"
    /\ UNCHANGED <<jobCanceled, buffer, bufferClosed, emitted, callbackState, jvmFailed, vars>>

\* The channel is closed and empty: the loop ends, or throws the close's cause.
LoopEnds ==
    /\ flow = "collecting"
    /\ buffer = <<>>
    /\ bufferClosed # "open"
    /\ flow' = "cleanup"
    /\ outcome' = IF bufferClosed = "overflow" THEN "error" ELSE "completed"
    /\ UNCHANGED <<jobCanceled, buffer, bufferClosed, emitted, callbackState, jvmFailed, vars>>

\* Mutant: the cancellation is only seen when there is a token to emit.
LoopCanceledAtEmit ==
    /\ flow = "collecting"
    /\ jobCanceled
    /\ buffer # <<>>
    /\ flow' = "cleanup"
    /\ outcome' = "canceled"
    /\ UNCHANGED <<jobCanceled, buffer, bufferClosed, emitted, callbackState, jvmFailed, vars>>

LoopCanceled ==
    /\ flow = "collecting"
    /\ jobCanceled
    /\ flow' = "cleanup"
    /\ outcome' = "canceled"
    /\ UNCHANGED <<jobCanceled, buffer, bufferClosed, emitted, callbackState, jvmFailed, vars>>

\* The collector leaves.
CancelJob ==
    /\ flow # "ended"
    /\ jobCanceled' = TRUE
    /\ UNCHANGED <<flow, outcome, buffer, bufferClosed, emitted, callbackState, jvmFailed, vars>>

\* The finally block: nativeSessionCancel, then nativeSessionFree, which blocks.
CleanupCancel ==
    /\ flow = "cleanup"
    /\ Cancel
    /\ flow' = "canceled"
    /\ UNCHANGED <<outcome, jobCanceled, buffer, bufferClosed, emitted, callbackState, jvmFailed>>

CleanupFree ==
    /\ flow = "canceled"
    /\ BeginDispose("host")
    /\ flow' = "freeing"
    /\ UNCHANGED <<outcome, jobCanceled, buffer, bufferClosed, emitted, callbackState, jvmFailed>>

CleanupReturns ==
    /\ EndDispose
    /\ flow' = "ended"
    /\ UNCHANGED <<outcome, jobCanceled, buffer, bufferClosed, emitted, callbackState, jvmFailed>>

----------------------------------------------------------------------------

\* The engine's side of the session.
Engine ==
    /\ flow # "calling" /\ outcome # "refused"
    /\ PumpAsync \/ ReadToken \/ EndDrain
    /\ UNCHANGED clientVars

Start == SessionStarted \/ SessionRefused \/ StartReturns
Loop == Emit \/ LoopEnds \/ LoopCanceled
Cleanup == CleanupCancel \/ CleanupFree \/ CleanupReturns

ClientNext ==
    \/ Engine \/ OnToken \/ TokenLost
    \/ Start \/ Loop \/ Cleanup
    \/ CancelJob

ClientSpec == ClientInit /\ [][ClientNext]_<<vars, clientVars>>

\* The engine's tasks, its callbacks and the coroutine go on; nobody has to
\* cancel the job.
FairClientSpec ==
    /\ ClientSpec
    /\ WF_<<vars, clientVars>>(PumpAsync /\ Engine)
    /\ WF_<<vars, clientVars>>((ReadToken \/ EndDrain) /\ Engine)
    /\ WF_<<vars, clientVars>>(OnToken \/ TokenLost)
    /\ WF_<<vars, clientVars>>(Start)
    /\ WF_<<vars, clientVars>>(Loop)
    /\ WF_<<vars, clientVars>>(Cleanup)

----------------------------------------------------------------------------
\* Properties.

\* jni_bridge.c's record is live whenever the drain is inside the callback that
\* dereferences it, although the callback frees it and the client frees the
\* session without waiting for the drain.
CallbackStateIsLive == drain = "invoking" => callbackState = "live"

\* A flow that completes normally has seen the end of the answer, and unless the
\* JVM failed it has emitted every fragment the engine delivered: a full buffer
\* turns into an error, not into a gap.
CompletedIsWhole ==
    outcome = "completed" =>
        /\ HasFinal(delivered)
        /\ jvmFailed \/ \A i \in DOMAIN delivered :
              delivered[i].isFinal \/ (i \in DOMAIN emitted /\ emitted[i] = delivered[i])

\* What the collector observes is a token stream: in order, without gaps,
\* nothing after the final token and nothing after the flow has ended.
EmittedStream == INSTANCE TokenStream WITH
    stream <- emitted,
    status <- IF flow # "ended" THEN "open"
              ELSE IF HasFinal(emitted) THEN "complete" ELSE "cut"

\* The flow implements TokenStream up to its liveness, as long as the JVM takes
\* every token.
EmitsTokenStream ==
    /\ EmittedStream!StreamInit
    /\ [][jvmFailed \/ EmittedStream!StreamNext]_(EmittedStream!streamVars)

\* A flow that ends has cancelled and freed its session, however it ended.  The
\* one exception: a job cancelled while nativeSessionStart runs loses the id
\* before the try block is entered, and the session is never freed.
EndReleasesSession ==
    flow = "ended" /\ outcome \notin {"refused", "canceledAtStart"} => dispose = "disposed"

\* A flow ends by itself, and a collector that leaves gets its coroutine back in
\* whatever state engine and channel are: the cleanup is not skipped and does
\* not wait for callbacks.  A session that faults makes no further callback, so
\* the flow waits until it is cancelled, as it does when the final token is lost.
FlowEnds ==
    /\ flow = "collecting" ~> flow = "ended" \/ closed = "faulted" \/ jvmFailed
    /\ jobCanceled ~> flow = "ended"

=============================================================================
