-------------------------- MODULE ForemanViewModel --------------------------
(***************************************************************************)
(* The Foreman screen's view model over the engine's turns: AgentViewModel *)
(* on Android, ForemanViewModel on iOS.  A turn on the screen is updated   *)
(* through the LAST slot of the list, by a job that a newer ask or a       *)
(* cancel may have superseded; the job of a superseded turn lives on until *)
(* the engine's session is freed.  The platforms differ in what such a job *)
(* still does, so the platform is part of the state.                       *)
(***************************************************************************)
EXTENDS ForemanTurn

CONSTANT Platforms   \* the clients considered, of "android" and "ios"

ASSUME PlatformsAssumption == Platforms \subseteq {"android", "ios"}

VARIABLES
    platform,
    turns,         \* the list on the screen; turn t is in slot t
    running,
    job,           \* the coroutine or task of each turn
    jobCanceled,
    failed,        \* the stream threw: no session, or the buffer overflowed
    taken          \* fragments the job has received, until it ends

viewVars == <<platform, turns, running, job, jobCanceled, failed, taken>>
vars == <<agentVars, viewVars>>

Slot == [answer : Seq(Text), outcome : StopReason \cup {"Streaming"}]

TypeOK ==
    /\ AgentTypeOK
    /\ platform \in {"android", "ios"}
    /\ turns \in Seq(Slot) /\ Len(turns) <= MaxAsks
    /\ running \in BOOLEAN
    /\ job \in [Turns -> {"none", "starting", "collecting", "draining", "freeing", "closed", "ended"}]
    /\ jobCanceled \in [Turns -> BOOLEAN]
    /\ failed \in [Turns -> BOOLEAN]
    /\ taken \in [Turns -> Nat]

Init ==
    /\ AgentInit
    /\ platform \in Platforms
    /\ turns = <<>>
    /\ running = FALSE
    /\ job = [t \in Turns |-> "none"]
    /\ jobCanceled = [t \in Turns |-> FALSE]
    /\ failed = [t \in Turns |-> FALSE]
    /\ taken = [t \in Turns |-> 0]

Newest == Len(turns)

\* updateLastTurn: whatever job calls it.
WithOutcome(outcome) == [turns EXCEPT ![Newest].outcome = outcome]
Resolved == IF Newest > 0 /\ turns[Newest].outcome = "Streaming" THEN WithOutcome("Error") ELSE turns

CancelJob == [t \in Turns |-> jobCanceled[t] \/ (t = Newest /\ job[t] # "ended")]

----------------------------------------------------------------------------

\* ask(), which the screen offers when nothing runs: cancel the job of the last
\* turn, which may still be closing, add a slot, launch the next job.  iOS also
\* resolves the last turn.
Ask ==
    /\ Newest < MaxAsks
    /\ ~running
    /\ jobCanceled' = CancelJob
    /\ turns' = Append(IF platform = "ios" THEN Resolved ELSE turns,
                       [answer |-> <<>>, outcome |-> "Streaming"])
    /\ running' = TRUE
    /\ job' = [job EXCEPT ![Newest + 1] = "starting"]
    /\ UNCHANGED <<agentVars, platform, failed, taken>>

\* Mutant: the cancelled turn is left to its job.
CancelKeepsSpinner ==
    /\ running
    /\ running' = FALSE
    /\ jobCanceled' = CancelJob
    /\ UNCHANGED <<agentVars, platform, turns, job, failed, taken>>

\* cancel(), offered while a turn runs.  iOS resolves the turn here.
Cancel ==
    /\ running
    /\ running' = FALSE
    /\ jobCanceled' = CancelJob
    /\ turns' = IF platform = "ios" THEN Resolved ELSE turns
    /\ UNCHANGED <<agentVars, platform, job, failed, taken>>

----------------------------------------------------------------------------
\* The agent service: one session per turn.

\* The flow's finally, or the stream's onTermination: cancel the session, then
\* free it, which waits for its pump and with it for the turn.
Close(t) ==
    /\ sessionCanceled' = [sessionCanceled EXCEPT ![t] = TRUE]
    /\ job' = [job EXCEPT ![t] = "freeing"]

\* dni_agent_session_start returns; the turn runs.  On Android the call is made
\* in a withContext, which throws in a job cancelled meanwhile: the session is
\* never cancelled.  On iOS the stream is terminated by its reader.
StartSession(t) ==
    /\ job[t] = "starting"
    /\ phase' = [phase EXCEPT ![t] = "deciding"]
    /\ \/ /\ ~jobCanceled[t]
          /\ job' = [job EXCEPT ![t] = "collecting"]
          /\ UNCHANGED sessionCanceled
       \/ /\ jobCanceled[t] /\ platform = "android"
          /\ job' = [job EXCEPT ![t] = "closed"]
          /\ UNCHANGED sessionCanceled
       \/ /\ jobCanceled[t] /\ platform = "ios"
          /\ Close(t)
    /\ UNCHANGED <<steps, reason, sent, conversation, ended, resets,
                   platform, turns, running, jobCanceled, failed, taken>>

\* The start is refused.
StartFails(t) ==
    /\ job[t] = "starting"
    /\ job' = [job EXCEPT ![t] = "closed"]
    /\ failed' = [failed EXCEPT ![t] = TRUE]
    /\ UNCHANGED <<agentVars, platform, turns, running, jobCanceled, taken>>

\* The coroutine is cancelled before it got to the call.
StartSkipped(t) ==
    /\ job[t] = "starting"
    /\ platform = "android" /\ jobCanceled[t]
    /\ job' = [job EXCEPT ![t] = "closed"]
    /\ UNCHANGED <<agentVars, platform, turns, running, jobCanceled, failed, taken>>

\* Android's channel is bounded; iOS buffers without bound.
BufferOverflows(t) ==
    /\ job[t] = "collecting" /\ ~jobCanceled[t]
    /\ platform = "android"
    /\ taken[t] < Len(sent[t])
    /\ Close(t)
    /\ failed' = [failed EXCEPT ![t] = TRUE]
    /\ UNCHANGED <<phase, steps, reason, sent, conversation, ended, resets,
                   platform, turns, running, jobCanceled, taken>>

\* After the last fragment and the final marker, or with the cancellation, with
\* which a cancelled job is resumed whatever it waited for.
StreamEnds(t) ==
    /\ \/ /\ job[t] = "collecting" /\ ~jobCanceled[t]
          /\ phase[t] = "completed" /\ taken[t] = Len(sent[t])
       \/ job[t] \in {"collecting", "draining"} /\ jobCanceled[t]
    /\ Close(t)
    /\ UNCHANGED <<phase, steps, reason, sent, conversation, ended, resets,
                   platform, turns, running, jobCanceled, failed, taken>>

----------------------------------------------------------------------------
\* The job of a turn, on the main thread.

Fragment(t) == sent[t][taken[t] + 1]

\* Mutant: a fragment that was under way is taken in spite of the cancel.
ReceiveCanceled(t) ==
    /\ job[t] = "collecting"
    /\ taken[t] < Len(sent[t])
    /\ taken' = [taken EXCEPT ![t] = @ + 1]
    /\ \/ /\ Fragment(t) \in Text
          /\ turns' = [turns EXCEPT ![Newest].answer = Append(@, Fragment(t))]
          /\ UNCHANGED job
       \/ /\ Fragment(t) \in StopReason
          /\ job' = [job EXCEPT ![t] = "draining"]
          /\ UNCHANGED turns
    /\ UNCHANGED <<agentVars, platform, running, jobCanceled, failed>>

\* Text goes to the last slot; a status leaves the main thread for the spans.
Receive(t) ==
    /\ job[t] = "collecting" /\ ~jobCanceled[t]
    /\ taken[t] < Len(sent[t])
    /\ taken' = [taken EXCEPT ![t] = @ + 1]
    /\ \/ /\ Fragment(t) \in Text
          /\ turns' = [turns EXCEPT ![Newest].answer = Append(@, Fragment(t))]
          /\ UNCHANGED job
       \/ /\ Fragment(t) \in StopReason
          /\ job' = [job EXCEPT ![t] = "draining"]
          /\ UNCHANGED turns
    /\ UNCHANGED <<agentVars, platform, running, jobCanceled, failed>>

\* applyStatus, back from the drain.
ApplyStatus(t) ==
    /\ job[t] = "draining" /\ ~jobCanceled[t]
    /\ turns' = WithOutcome(sent[t][taken[t]])
    /\ job' = [job EXCEPT ![t] = "collecting"]
    /\ UNCHANGED <<agentVars, platform, running, jobCanceled, failed, taken>>

\* There was no session to close, or it is freed; iOS frees it in a detached task
\* that the job does not wait for.
Closed(t) ==
    \/ job[t] = "closed"
    \/ job[t] = "freeing" /\ (platform = "ios" \/ phase[t] \in {"completed", "canceled"})

\* Mutant: iOS without its guards on Task.isCancelled.
EpilogueUnguarded(t) ==
    /\ Closed(t)
    /\ job' = [job EXCEPT ![t] = "ended"]
    /\ taken' = [taken EXCEPT ![t] = 0]
    /\ turns' = IF failed[t] \/ jobCanceled[t] THEN WithOutcome("Error") ELSE Resolved
    /\ running' = FALSE
    /\ UNCHANGED <<agentVars, platform, jobCanceled, failed>>

\* How a job ends.  Android's runCatching also catches the cancellation, so the
\* job of a superseded turn marks the last slot; iOS returns when cancelled.
Epilogue(t) ==
    /\ Closed(t)
    /\ job' = [job EXCEPT ![t] = "ended"]
    /\ taken' = [taken EXCEPT ![t] = 0]
    /\ IF platform = "ios" /\ jobCanceled[t]
       THEN UNCHANGED <<turns, running>>
       ELSE /\ turns' = IF failed[t] \/ jobCanceled[t] THEN WithOutcome("Error") ELSE Resolved
            /\ running' = FALSE
    /\ UNCHANGED <<agentVars, platform, jobCanceled, failed>>

----------------------------------------------------------------------------

JobStep(t) ==
    \/ StartSession(t) \/ StreamEnds(t) \/ Receive(t) \/ ApplyStatus(t) \/ Epilogue(t)

Next ==
    \/ Ask \/ Cancel
    \/ ResetConversation /\ UNCHANGED viewVars
    \/ \E t \in Turns : \/ AgentStep(t) /\ UNCHANGED viewVars
                        \/ JobStep(t)
                        \/ StartFails(t) \/ StartSkipped(t) \/ BufferOverflows(t)

\* The turn's task and the job of the turn go on; the user need not do anything.
Fairness == \A t \in Turns :
    /\ WF_vars(AgentStep(t) /\ UNCHANGED viewVars)
    /\ WF_vars(JobStep(t))

Spec == Init /\ [][Next]_vars /\ Fairness

----------------------------------------------------------------------------

\* A slot shows its own turn: only fragments of that turn, in order, and the
\* outcomes that claim an answer only when the engine said so of that turn and
\* all its text is there, although every job writes to the last slot.
ShowsOwnTurn ==
    \A t \in 1..Newest :
        /\ Len(turns[t].answer) <= Len(Answer(sent[t]))
        /\ turns[t].answer = SubSeq(Answer(sent[t]), 1, Len(turns[t].answer))
        /\ turns[t].outcome \in {"Answered", "StepCapReached"} =>
              /\ HasStatus(sent[t]) /\ turns[t].outcome = sent[t][Len(sent[t])]
              /\ turns[t].answer = Answer(sent[t])

\* The outcome on the screen is the stop reason on the wire: a turn that was
\* neither cancelled nor failed in transport shows Error only if the engine
\* sent it.  On Android one that follows a cancelled turn may be marked by the
\* job of that turn, whose cancellation runCatching takes for a failure.
OutcomeMatchesWire ==
    \A t \in 1..Newest :
        /\ turns[t].outcome = "Error"
        /\ ~jobCanceled[t] /\ ~failed[t]
        /\ platform = "android" => \A earlier \in 1..t - 1 : ~jobCanceled[earlier]
        => HasStatus(sent[t]) /\ sent[t][Len(sent[t])] = "Error"

Spinning(t) == t \in DOMAIN turns /\ turns[t].outcome = "Streaming"

\* Every turn comes to an end: the engine's loop is cut off at MaxToolSteps, the
\* job ends once the session is freed, and on iOS no slot keeps its spinner.
TurnsResolve ==
    \A t \in Turns :
        job[t] = "starting" ~> /\ job[t] = "ended"
                               /\ phase[t] \in {"none", "completed", "canceled"}
                               /\ platform = "ios" => ~Spinning(t)
=============================================================================
