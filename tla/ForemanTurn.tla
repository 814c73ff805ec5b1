----------------------------- MODULE ForemanTurn ----------------------------
(***************************************************************************)
(* The engine's side of a Foreman turn: ForemanAgent.RunTurnAsync loops    *)
(* over the brain's decisions and the tool calls, ForemanLanguageModel     *)
(* streams the answer and closes it with one status fragment, and          *)
(* ConversationSession keeps the last turns for the whole process.         *)
(* Nothing keeps two turns apart: each runs on its own task.               *)
(***************************************************************************)
EXTENDS Naturals, Sequences

CONSTANTS
    MaxAsks,        \* turns asked
    MaxToolSteps,   \* ForemanAgent.MaxToolSteps
    MaxTurns,       \* ConversationSession.MaxTurns
    MaxText,        \* fragments of an answer
    MaxResets

ASSUME AgentAssumption ==
    /\ MaxAsks \in Nat /\ MaxToolSteps \in Nat /\ MaxText \in Nat /\ MaxResets \in Nat
    /\ MaxTurns \in Nat \ {0}

VARIABLES
    phase,             \* where each turn is
    steps,             \* its tool steps, while it may take more
    reason,            \* why it stops, until that is sent
    sent,              \* the fragments it has streamed
    sessionCanceled,   \* its cancellation token
    conversation,      \* the shared memory
    ended,             \* history: the turns that ended by themselves since the last reset
    resets

agentVars == <<phase, steps, reason, sent, sessionCanceled, conversation, ended, resets>>

Turns == 1..MaxAsks
StopReason == {"Answered", "StepCapReached", "Error"}
Text == {"text", "agent error"}
Entry == [turn : Turns, answer : Seq(Text)]

\* A stream that is closed ends with its status; the rest of it is answer text.
HasStatus(fragments) == fragments # <<>> /\ fragments[Len(fragments)] \in StopReason
Answer(fragments) ==
    IF HasStatus(fragments) THEN SubSeq(fragments, 1, Len(fragments) - 1) ELSE fragments

AgentTypeOK ==
    /\ phase \in [Turns -> {"none", "deciding", "answering", "finished", "completed", "canceled"}]
    /\ steps \in [Turns -> 0..MaxToolSteps]
    /\ reason \in [Turns -> StopReason]
    /\ sent \in [Turns -> Seq(Text \cup StopReason)]
    /\ sessionCanceled \in [Turns -> BOOLEAN]
    /\ conversation \in Seq(Entry) /\ Len(conversation) <= MaxTurns
    /\ ended \in Seq(Turns)
    /\ resets \in 0..MaxResets

AgentInit ==
    /\ phase = [t \in Turns |-> "none"]
    /\ steps = [t \in Turns |-> 0]
    /\ reason = [t \in Turns |-> "Error"]
    /\ sent = [t \in Turns |-> <<>>]
    /\ sessionCanceled = [t \in Turns |-> FALSE]
    /\ conversation = <<>> /\ ended = <<>>
    /\ resets = 0

----------------------------------------------------------------------------
\* ConversationSession

\* Mutant: a full memory takes no more turns.
AppendedWhileRoom(t, fragments) ==
    LET turns == Append(conversation, [turn |-> t, answer |-> Answer(fragments)])
    IN  IF Len(turns) > MaxTurns THEN conversation ELSE turns

\* Append, which evicts the oldest beyond MaxTurns.
Appended(t, fragments) ==
    LET turns == Append(conversation, [turn |-> t, answer |-> Answer(fragments)])
    IN  IF Len(turns) > MaxTurns THEN Tail(turns) ELSE turns

\* agent~reset, from any client at any time.
ResetConversation ==
    /\ resets < MaxResets
    /\ resets' = resets + 1
    /\ conversation' = <<>> /\ ended' = <<>>
    /\ UNCHANGED <<phase, steps, reason, sent, sessionCanceled>>

----------------------------------------------------------------------------
\* ForemanAgent.RunTurnAsync

\* The return points: record what the sink got, once, and return the reason.
Finish(t, why, fragments) ==
    /\ phase' = [phase EXCEPT ![t] = "finished"]
    /\ reason' = [reason EXCEPT ![t] = why]
    /\ sent' = [sent EXCEPT ![t] = fragments]
    /\ conversation' = Appended(t, fragments)
    /\ ended' = Append(ended, t)
    /\ steps' = [steps EXCEPT ![t] = 0]
    /\ UNCHANGED <<sessionCanceled, resets>>

\* The brain calls a tool; one that is unknown or throws has an error for its
\* result, and the brain decides again.
CallTool(t) ==
    /\ phase[t] = "deciding"
    /\ steps[t] < MaxToolSteps
    /\ steps' = [steps EXCEPT ![t] = @ + 1]
    /\ UNCHANGED <<phase, reason, sent, sessionCanceled, conversation, ended, resets>>

\* The brain answers, of its own accord or because it may call no more tools.
BeginAnswer(t) ==
    /\ phase[t] = "deciding"
    /\ phase' = [phase EXCEPT ![t] = "answering"]
    /\ \/ reason' = [reason EXCEPT ![t] = "Answered"]
       \/ /\ steps[t] >= MaxToolSteps
          /\ reason' = [reason EXCEPT ![t] = "StepCapReached"]
    /\ steps' = [steps EXCEPT ![t] = 0]
    /\ UNCHANGED <<sent, sessionCanceled, conversation, ended, resets>>

DecideFails(t) ==
    /\ phase[t] = "deciding"
    /\ Finish(t, "Error", Append(sent[t], "agent error"))

\* StreamAnswerAsync sinks a fragment, is through, or throws.
StreamAnswer(t) ==
    /\ phase[t] = "answering"
    /\ \/ /\ Len(sent[t]) < MaxText
          /\ sent' = [sent EXCEPT ![t] = Append(@, "text")]
          /\ UNCHANGED <<phase, steps, reason, sessionCanceled, conversation, ended, resets>>
       \/ Finish(t, reason[t], sent[t])
       \/ Finish(t, "Error", Append(sent[t], "agent error"))

\* OperationCanceledException leaves the turn from any of its awaits: nothing is
\* recorded, and the stream ends without a status.
TurnCanceled(t) ==
    /\ phase[t] \in {"deciding", "answering"}
    /\ sessionCanceled[t]
    /\ phase' = [phase EXCEPT ![t] = "canceled"]
    /\ steps' = [steps EXCEPT ![t] = 0]
    /\ reason' = [reason EXCEPT ![t] = "Error"]
    /\ UNCHANGED <<sent, sessionCanceled, conversation, ended, resets>>

\* ForemanLanguageModel: the status is the last fragment; the channel closes.
SendStatus(t) ==
    /\ phase[t] = "finished"
    /\ sent' = [sent EXCEPT ![t] = Append(@, reason[t])]
    /\ phase' = [phase EXCEPT ![t] = "completed"]
    /\ reason' = [reason EXCEPT ![t] = "Error"]
    /\ UNCHANGED <<steps, sessionCanceled, conversation, ended, resets>>

AgentStep(t) ==
    \/ CallTool(t) \/ BeginAnswer(t) \/ DecideFails(t) \/ StreamAnswer(t)
    \/ TurnCanceled(t) \/ SendStatus(t)

----------------------------------------------------------------------------

Recorded(t) == phase[t] \in {"finished", "completed"}
Memory(t) == [turn |-> t, answer |-> Answer(sent[t])]

\* The memory is exactly the newest MaxTurns of the turns that ended by themselves
\* since the last reset, oldest first, in the order in which they ended whatever
\* the order they were asked in, each once and with the text it streamed, contained
\* errors included.  A turn that is cancelled or still running is not among them.
ConversationMirrorsTurns ==
    /\ Len(conversation) = IF Len(ended) < MaxTurns THEN Len(ended) ELSE MaxTurns
    /\ \A i \in 1..Len(conversation) :
          conversation[i] = Memory(ended[Len(ended) - Len(conversation) + i])
    /\ \A i, j \in 1..Len(ended) : ended[i] = ended[j] => i = j
    /\ \A i \in 1..Len(ended) : Recorded(ended[i])
    /\ resets = 0 => \A t \in Turns : Recorded(t) => \E i \in 1..Len(ended) : ended[i] = t
=============================================================================
