----------------------- MODULE ForemanViewModelProofs -----------------------
(***************************************************************************)
(* For any number of turns, fragments, tool steps and resets, and for both *)
(* platforms: the conversation the engine remembers mirrors the turns that *)
(* ended, a slot of the screen shows its own turn, and the outcome shown   *)
(* is the one on the wire, however turns, jobs, cancels and resets are     *)
(* interleaved.                                                            *)
(***************************************************************************)
EXTENDS ForemanViewModel, TLAPS

Fragments == Text \cup StopReason

----------------------------------------------------------------------------
\* Sequences of fragments.

\* The answer in a stream of n text fragments and perhaps a status.
LEMMA AnswerFacts ==
    ASSUME NEW s \in Seq(Fragments), NEW n \in Nat, \A i \in 1..n : s[i] \in Text,
           n = Len(s) \/ (Len(s) = n + 1 /\ s[n + 1] \in StopReason)
    PROVE  /\ Answer(s) \in Seq(Text) /\ Len(Answer(s)) = n
           /\ \A i \in 1..n : Answer(s)[i] = s[i]
<1>1. CASE n = Len(s)
  <2>1. \A f \in Text : f \notin StopReason
    BY DEF Text, StopReason
  <2>2. s # <<>> => s[Len(s)] \in Text
    BY <1>1
  <2>3. Answer(s) = s
    BY <2>1, <2>2 DEF Answer, HasStatus
  <2>4. s \in Seq(Text)
    BY <1>1
  <2> QED BY <1>1, <2>3, <2>4
<1>2. CASE Len(s) = n + 1 /\ s[n + 1] \in StopReason
  <2>1. HasStatus(s)
    BY <1>2 DEF HasStatus
  <2>2. Answer(s) = SubSeq(s, 1, n)
    BY <1>2, <2>1 DEF Answer
  <2>3. /\ SubSeq(s, 1, n) \in Seq(Fragments) /\ Len(SubSeq(s, 1, n)) = n
        /\ \A i \in 1..n : SubSeq(s, 1, n)[i] = s[i]
    BY <1>2
  <2>4. SubSeq(s, 1, n) \in Seq(Text)
    BY <2>3
  <2> QED BY <2>2, <2>3, <2>4
<1> QED BY <1>1, <1>2

\* A prefix, by its elements.
LEMMA PrefixFacts ==
    ASSUME NEW s \in Seq(Text), NEW w \in Seq(Text), Len(s) <= Len(w), \A i \in 1..Len(s) : s[i] = w[i]
    PROVE  /\ s = SubSeq(w, 1, Len(s))
           /\ Len(s) = Len(w) => s = w
<1>1. PICK n \in Nat : n = Len(s)
  OBVIOUS
<1>2. SubSeq(s, 1, n) = [i \in 1..n |-> s[i]] /\ SubSeq(w, 1, n) = [i \in 1..n |-> w[i]]
  BY <1>1
<1>3. SubSeq(s, 1, n) = SubSeq(w, 1, n)
  BY <1>1, <1>2
<1>4. s = SubSeq(w, 1, Len(s))
  BY <1>1, <1>2, <1>3
<1>5. Len(s) = Len(w) => s = w
  OBVIOUS
<1> QED BY <1>4, <1>5

\* A stream grows by one fragment.
LEMMA AppendFragment ==
    ASSUME NEW s \in Seq(Fragments), NEW f \in Fragments
    PROVE  /\ Append(s, f) \in Seq(Fragments) /\ Len(s) \in Nat /\ Len(Append(s, f)) = Len(s) + 1
           /\ \A i \in 1..Len(s) : Append(s, f)[i] = s[i]
           /\ Append(s, f)[Len(s) + 1] = f
  OBVIOUS

----------------------------------------------------------------------------
\* What a turn streams: text, and once it is completed one status after it.
TextLen(t) == IF phase[t] = "completed" THEN Len(sent[t]) - 1 ELSE Len(sent[t])

Worded(t) ==
    /\ \A i \in 1..TextLen(t) : sent[t][i] \in Text
    /\ phase[t] = "completed" => Len(sent[t]) > 0 /\ sent[t][Len(sent[t])] \in StopReason

\* A turn runs from the time its session is started.
Started(t) == job[t] \in {"none", "starting"} => phase[t] = "none"

\* What a step of the agent does to its turn.
Decides(t) ==
    /\ phase[t] \in {"deciding", "answering"} /\ phase'[t] \in {"deciding", "answering", "canceled"}
    /\ sent'[t] = sent[t] /\ UNCHANGED <<conversation, ended>>
Streams(t) ==
    /\ phase[t] = "answering" /\ phase'[t] = "answering"
    /\ sent'[t] = Append(sent[t], "text") /\ UNCHANGED <<conversation, ended>>
Finishes(t) ==
    /\ phase[t] \in {"deciding", "answering"} /\ phase'[t] = "finished"
    /\ sent'[t] = sent[t] \/ sent'[t] = Append(sent[t], "agent error")
    /\ conversation' = Appended(t, sent'[t]) /\ ended' = Append(ended, t)
Completes(t) ==
    /\ phase[t] = "finished" /\ phase'[t] = "completed"
    /\ \E status \in StopReason : sent'[t] = Append(sent[t], status)
    /\ UNCHANGED <<conversation, ended>>

\* Every step of ForemanAgent and ForemanLanguageModel is one of these, and leaves
\* the other turns alone.
LEMMA AgentFacts ==
    ASSUME AgentTypeOK, NEW t \in Turns, AgentStep(t)
    PROVE  /\ Decides(t) \/ Streams(t) \/ Finishes(t) \/ Completes(t)
           /\ \A u \in Turns \ {t} : phase'[u] = phase[u] /\ sent'[u] = sent[u]
           /\ UNCHANGED <<sessionCanceled, resets>>
<1>0. phase \in [Turns -> {"none", "deciding", "answering", "finished", "completed", "canceled"}]
      /\ sent \in [Turns -> Seq(Fragments)] /\ reason[t] \in StopReason
  BY DEF AgentTypeOK, Fragments
<1>1. CASE CallTool(t)
  BY <1>0, <1>1, Zenon DEF CallTool, Decides
<1>2. CASE BeginAnswer(t)
  BY <1>0, <1>2, Zenon DEF BeginAnswer, Decides
<1>3. CASE DecideFails(t)
  BY <1>0, <1>3, Zenon DEF DecideFails, Finish, Finishes
<1>4. CASE StreamAnswer(t)
  <2>1. CASE Finish(t, reason[t], sent[t]) \/ Finish(t, "Error", Append(sent[t], "agent error"))
    BY <1>0, <1>4, <2>1, Zenon DEF StreamAnswer, Finish, Finishes
  <2>2. CASE sent' = [sent EXCEPT ![t] = Append(@, "text")] /\ UNCHANGED <<phase, sessionCanceled, conversation, ended, resets>>
    BY <1>0, <1>4, <2>2, Zenon DEF StreamAnswer, Streams
  <2> QED BY <1>4, <2>1, <2>2, Zenon DEF StreamAnswer
<1>5. CASE TurnCanceled(t)
  BY <1>0, <1>5, Zenon DEF TurnCanceled, Decides
<1>6. CASE SendStatus(t)
  BY <1>0, <1>6, Zenon DEF SendStatus, Completes
<1> QED BY <1>1, <1>2, <1>3, <1>4, <1>5, <1>6, Zenon DEF AgentStep

\* Its own variables stay in their types; the conversation is for later.
LEMMA AgentTypes ==
    ASSUME AgentTypeOK, NEW t \in Turns, AgentStep(t)
    PROVE  /\ phase' \in [Turns -> {"none", "deciding", "answering", "finished", "completed", "canceled"}]
           /\ steps' \in [Turns -> 0..MaxToolSteps]
           /\ reason' \in [Turns -> StopReason]
           /\ sent' \in [Turns -> Seq(Fragments)]
<1>0. /\ phase \in [Turns -> {"none", "deciding", "answering", "finished", "completed", "canceled"}]
      /\ steps \in [Turns -> 0..MaxToolSteps] /\ reason \in [Turns -> StopReason]
      /\ sent \in [Turns -> Seq(Fragments)]
  BY Zenon DEF AgentTypeOK, Fragments
<1>1. 0 \in 0..MaxToolSteps /\ "Error" \in StopReason /\ "Answered" \in StopReason /\ "StepCapReached" \in StopReason
  BY AgentAssumption DEF StopReason
<1>2. ASSUME NEW f \in Fragments PROVE Append(sent[t], f) \in Seq(Fragments)
  BY <1>0, AppendFragment, Zenon
<1>3. "text" \in Fragments /\ "agent error" \in Fragments /\ reason[t] \in Fragments
  BY <1>0, Zenon DEF Fragments, Text
<1>4. ASSUME NEW why \in StopReason, NEW fragments \in Seq(Fragments), Finish(t, why, fragments)
      PROVE  /\ phase' \in [Turns -> {"none", "deciding", "answering", "finished", "completed", "canceled"}]
             /\ steps' \in [Turns -> 0..MaxToolSteps]
             /\ reason' \in [Turns -> StopReason] /\ sent' \in [Turns -> Seq(Fragments)]
  BY <1>0, <1>1, <1>4, Zenon DEF Finish
<1>5. CASE CallTool(t)
  <2>1. steps[t] + 1 \in 0..MaxToolSteps
    BY <1>0, <1>5, AgentAssumption DEF CallTool
  <2> QED BY <1>0, <1>5, <2>1, Zenon DEF CallTool
<1>6. CASE BeginAnswer(t)
  BY <1>0, <1>1, <1>6, Zenon DEF BeginAnswer
<1>7. CASE DecideFails(t)
  BY <1>1, <1>2, <1>3, <1>4, <1>7, Zenon DEF DecideFails
<1>8. CASE StreamAnswer(t)
  <2>1. CASE Finish(t, reason[t], sent[t])
    BY <1>0, <1>4, <2>1, Zenon
  <2>2. CASE Finish(t, "Error", Append(sent[t], "agent error"))
    BY <1>1, <1>2, <1>3, <1>4, <2>2, Zenon
  <2>3. CASE sent' = [sent EXCEPT ![t] = Append(@, "text")] /\ UNCHANGED <<phase, steps, reason>>
    BY <1>0, <1>2, <1>3, <2>3, Zenon
  <2> QED BY <1>8, <2>1, <2>2, <2>3, Zenon DEF StreamAnswer
<1>9. CASE TurnCanceled(t)
  BY <1>0, <1>1, <1>9, Zenon DEF TurnCanceled
<1>10. CASE SendStatus(t)
  BY <1>0, <1>1, <1>2, <1>3, <1>10, Zenon DEF SendStatus
<1> QED BY <1>5, <1>6, <1>7, <1>8, <1>9, <1>10, Zenon DEF AgentStep

\* Its stream is still text and then a status.
LEMMA AgentWords ==
    ASSUME AgentTypeOK, NEW t \in Turns, Worded(t), AgentStep(t)
    PROVE  Worded(t)'
<1>0. sent[t] \in Seq(Fragments)
  BY DEF AgentTypeOK, Fragments
<1>1. PICK n \in Nat : n = Len(sent[t])
  BY <1>0
<1>2. ASSUME phase[t] # "completed"
      PROVE  \A i \in 1..n : sent[t][i] \in Text
  BY <1>1, <1>2 DEF Worded, TextLen
<1>3. ASSUME NEW f \in Fragments
      PROVE  /\ Len(Append(sent[t], f)) = n + 1 /\ Append(sent[t], f)[n + 1] = f
             /\ \A i \in 1..n : Append(sent[t], f)[i] = sent[t][i]
  BY <1>0, <1>1, AppendFragment, Zenon
<1>4. n + 1 > 0 /\ (n + 1) - 1 = n /\ \A i \in 1..(n + 1) : i \in 1..n \/ i = n + 1
  OBVIOUS
<1>5. \A f \in Text \cup StopReason : f \in Fragments
  BY DEF Fragments
<1>6. CASE sent'[t] = sent[t] /\ phase[t] # "completed" /\ phase'[t] # "completed"
  BY <1>6, Zenon DEF Worded, TextLen
<1>7. ASSUME NEW f \in Text, sent'[t] = Append(sent[t], f), phase[t] # "completed", phase'[t] # "completed"
      PROVE  Worded(t)'
  <2>1. Len(sent'[t]) = n + 1 /\ \A i \in 1..n + 1 : sent'[t][i] \in Text
    <3>1. /\ Len(sent'[t]) = n + 1 /\ sent'[t][n + 1] = f
          /\ \A i \in 1..n : sent'[t][i] = sent[t][i]
      BY <1>3, <1>5, <1>7
    <3> QED BY <1>2, <1>4, <1>7, <3>1, Zenon
  <2> QED BY <1>7, <2>1, Zenon DEF Worded, TextLen
<1>8. ASSUME NEW f \in StopReason, sent'[t] = Append(sent[t], f), phase[t] # "completed", phase'[t] = "completed"
      PROVE  Worded(t)'
  <2>1. /\ Len(sent'[t]) = n + 1 /\ sent'[t][n + 1] \in StopReason
        /\ \A i \in 1..n : sent'[t][i] \in Text
    <3>1. /\ Len(sent'[t]) = n + 1 /\ sent'[t][n + 1] = f
          /\ \A i \in 1..n : sent'[t][i] = sent[t][i]
      BY <1>3, <1>5, <1>8
    <3> QED BY <1>2, <1>8, <3>1, Zenon
  <2> QED BY <1>4, <1>8, <2>1, Zenon DEF Worded, TextLen
<1>9. "text" \in Text /\ "agent error" \in Text
  BY DEF Text
<1> QED BY <1>6, <1>7, <1>8, <1>9, AgentFacts, Zenon DEF Decides, Streams, Finishes, Completes

----------------------------------------------------------------------------
\* The conversation and the slots of the screen.

\* The entries after ConversationSession.Append, of which k left the memory.
Shifted(t, fragments, k) ==
    /\ Len(Appended(t, fragments)) = Len(conversation) + 1 - k
    /\ Len(conversation) + 1 - k <= MaxTurns
    /\ k = 1 => Len(conversation) = MaxTurns
    /\ \A i \in 1..(Len(conversation) + 1 - k) :
          Appended(t, fragments)[i] =
              IF i + k = Len(conversation) + 1
              THEN [turn |-> t, answer |-> Answer(fragments)] ELSE conversation[i + k]

\* ConversationSession.Append: the new turn is last, and the oldest one makes
\* room for it when the memory is full.
LEMMA AppendedFacts ==
    ASSUME conversation \in Seq(Entry), Len(conversation) <= MaxTurns,
           NEW t \in Turns, NEW fragments, Answer(fragments) \in Seq(Text)
    PROVE  /\ Appended(t, fragments) \in Seq(Entry)
           /\ \E k \in {0, 1} : Shifted(t, fragments, k)
<1> DEFINE entry == [turn |-> t, answer |-> Answer(fragments)]
           longer == Append(conversation, entry)
<1>1. entry \in Entry
  BY DEF Entry
<1> HIDE DEF entry
<1>2. /\ longer \in Seq(Entry) /\ Len(longer) = Len(conversation) + 1 /\ Len(conversation) \in Nat
      /\ \A i \in 1..Len(conversation) + 1 :
            longer[i] = IF i = Len(conversation) + 1 THEN entry ELSE conversation[i]
  BY <1>1
<1>3. CASE Len(longer) > MaxTurns
  <2>1. Appended(t, fragments) = Tail(longer)
    BY <1>3 DEF Appended, entry
  <2> HIDE DEF longer
  <2>2. /\ Tail(longer) \in Seq(Entry) /\ Len(Tail(longer)) = Len(conversation)
        /\ \A i \in 1..Len(conversation) : Tail(longer)[i] = longer[i + 1]
    BY <1>2
  <2>3. Len(conversation) = MaxTurns /\ Len(conversation) + 1 - 1 = Len(conversation)
    BY <1>2, <1>3, AgentAssumption
  <2>4. \A i \in 1..Len(conversation) : Tail(longer)[i] =
            IF i + 1 = Len(conversation) + 1 THEN entry ELSE conversation[i + 1]
    BY <1>2, <2>2
  <2>5. Shifted(t, fragments, 1)
    BY <2>1, <2>2, <2>3, <2>4 DEF entry, Shifted
  <2> QED BY <2>1, <2>2, <2>5, Zenon
<1>4. CASE ~(Len(longer) > MaxTurns)
  <2>1. Appended(t, fragments) = longer
    BY <1>4 DEF Appended, entry
  <2> HIDE DEF longer
  <2>2. Len(conversation) + 1 - 0 = Len(conversation) + 1 /\ Len(conversation) + 1 <= MaxTurns
        /\ \A i \in 1..Len(conversation) + 1 : i + 0 = i
    BY <1>2, <1>4, AgentAssumption
  <2>3. Shifted(t, fragments, 0)
    BY <1>2, <2>1, <2>2 DEF entry, Shifted
  <2> QED BY <1>2, <2>1, <2>3, Zenon
<1> QED BY <1>3, <1>4, Zenon

\* updateLastTurn writes the outcome of the last slot and nothing else.
LEMMA OutcomeFacts ==
    ASSUME turns \in Seq(Slot), Newest > 0, NEW o \in StopReason \cup {"Streaming"}
    PROVE  /\ WithOutcome(o) \in Seq(Slot) /\ Len(WithOutcome(o)) = Newest
           /\ \A i \in 1..Newest :
                 /\ WithOutcome(o)[i].answer = turns[i].answer
                 /\ WithOutcome(o)[i].outcome = IF i = Newest THEN o ELSE turns[i].outcome
<1>1. Newest \in 1..Len(turns)
  BY DEF Newest
<1>2. WithOutcome(o) = [turns EXCEPT ![Newest] = [turns[Newest] EXCEPT !.outcome = o]]
  BY DEF WithOutcome
<1>3. turns[Newest] \in Slot
  BY <1>1
<1>4. /\ [turns[Newest] EXCEPT !.outcome = o] \in Slot
      /\ [turns[Newest] EXCEPT !.outcome = o].answer = turns[Newest].answer
      /\ [turns[Newest] EXCEPT !.outcome = o].outcome = o
  BY <1>3, Zenon DEF Slot
<1> QED BY <1>1, <1>2, <1>4 DEF Newest

\* Resolved does that only to a slot that still streams.
LEMMA ResolvedFacts ==
    ASSUME turns \in Seq(Slot)
    PROVE  /\ Resolved \in Seq(Slot) /\ Len(Resolved) = Newest
           /\ \A i \in 1..Newest :
                 /\ Resolved[i].answer = turns[i].answer
                 /\ Resolved[i].outcome = IF i = Newest /\ turns[i].outcome = "Streaming"
                                          THEN "Error" ELSE turns[i].outcome
<1>1. CASE Newest > 0 /\ turns[Newest].outcome = "Streaming"
  <2>1. "Error" \in StopReason \cup {"Streaming"}
    BY DEF StopReason
  <2>2. Resolved = WithOutcome("Error")
    BY <1>1 DEF Resolved
  <2> QED BY <1>1, <2>1, <2>2, OutcomeFacts, Zenon
<1>2. CASE ~(Newest > 0 /\ turns[Newest].outcome = "Streaming")
  <2>1. Resolved = turns
    BY <1>2 DEF Resolved
  <2>2. \A i \in 1..Newest : i = Newest => Newest > 0
    BY DEF Newest
  <2> QED BY <1>2, <2>1, <2>2, Zenon DEF Newest
<1> QED BY <1>1, <1>2

\* A fragment goes to the answer of the last slot.
LEMMA AnswerGrows ==
    ASSUME turns \in Seq(Slot), Newest > 0, NEW f \in Text,
           turns' = [turns EXCEPT ![Newest].answer = Append(@, f)]
    PROVE  /\ turns' \in Seq(Slot) /\ Len(turns') = Newest
           /\ \A i \in 1..Newest :
                 /\ turns'[i].answer = IF i = Newest THEN Append(turns[i].answer, f) ELSE turns[i].answer
                 /\ turns'[i].outcome = turns[i].outcome
<1>1. Newest \in 1..Len(turns)
  BY DEF Newest
<1>2. turns' = [turns EXCEPT ![Newest] = [turns[Newest] EXCEPT !.answer = Append(turns[Newest].answer, f)]]
  OBVIOUS
<1>3. turns[Newest] \in Slot
  BY <1>1
<1>4. Append(turns[Newest].answer, f) \in Seq(Text)
  <2>1. turns[Newest].answer \in Seq(Text)
    BY <1>3, Zenon DEF Slot
  <2> QED BY <2>1
<1>5. /\ [turns[Newest] EXCEPT !.answer = Append(turns[Newest].answer, f)] \in Slot
      /\ [turns[Newest] EXCEPT !.answer = Append(turns[Newest].answer, f)].answer = Append(turns[Newest].answer, f)
      /\ [turns[Newest] EXCEPT !.answer = Append(turns[Newest].answer, f)].outcome = turns[Newest].outcome
  BY <1>3, <1>4, Zenon DEF Slot
<1> QED BY <1>1, <1>2, <1>5 DEF Newest

----------------------------------------------------------------------------
\* The types, with what a turn streams, are invariant.

\* Nothing that leaves a stream and its completion alone touches its words.
LEMMA WordsKept ==
    ASSUME NEW u \in Turns, Worded(u), sent'[u] = sent[u],
           (phase'[u] = "completed") <=> (phase[u] = "completed")
    PROVE  Worded(u)'
<1>1. CASE phase[u] = "completed"
  BY <1>1, Zenon DEF Worded, TextLen
<1>2. CASE phase[u] # "completed"
  BY <1>2, Zenon DEF Worded, TextLen
<1> QED BY <1>1, <1>2

\* The answer of a turn in progress is the text it has streamed.
LEMMA TurnAnswer ==
    ASSUME AgentTypeOK, NEW t \in Turns, Worded(t)
    PROVE  /\ TextLen(t) \in Nat /\ sent[t] \in Seq(Fragments)
           /\ TextLen(t) <= Len(sent[t])
           /\ Answer(sent[t]) \in Seq(Text) /\ Len(Answer(sent[t])) = TextLen(t)
           /\ \A i \in 1..TextLen(t) : Answer(sent[t])[i] = sent[t][i]
<1>1. sent[t] \in Seq(Fragments)
  BY DEF AgentTypeOK, Fragments
<1>2. /\ TextLen(t) \in Nat /\ TextLen(t) <= Len(sent[t])
      /\ TextLen(t) = Len(sent[t]) \/ (Len(sent[t]) = TextLen(t) + 1 /\ sent[t][TextLen(t) + 1] \in StopReason)
  BY <1>1 DEF Worded, TextLen
<1> QED BY <1>1, <1>2, AnswerFacts, Zenon DEF Worded

\* A step of a turn keeps the agent's types and words.
LEMMA AgentStays ==
    ASSUME AgentTypeOK, \A u \in Turns : Worded(u), NEW t \in Turns, AgentStep(t)
    PROVE  AgentTypeOK' /\ \A u \in Turns : Worded(u)'
<1>1. \A u \in Turns : Worded(u)'
  <2> SUFFICES ASSUME NEW u \in Turns PROVE Worded(u)'
    OBVIOUS
  <2>1. CASE u = t
    BY <2>1, AgentWords, Zenon
  <2>2. CASE u # t
    BY <2>2, AgentFacts, WordsKept, Zenon
  <2> QED BY <2>1, <2>2
<1>2. conversation' \in Seq(Entry) /\ Len(conversation') <= MaxTurns
  <2>1. conversation \in Seq(Entry) /\ Len(conversation) <= MaxTurns
    BY DEF AgentTypeOK
  <2>2. CASE conversation' = conversation
    BY <2>1, <2>2
  <2>3. CASE Finishes(t)
    <3>1. PICK n \in Nat : n = Len(sent'[t])
      BY AgentTypes
    <3>2. sent'[t] \in Seq(Fragments) /\ \A i \in 1..n : sent'[t][i] \in Text
      BY <1>1, <2>3, <3>1, AgentTypes, Zenon DEF Worded, TextLen, Finishes
    <3>3. PICK fragments : fragments = sent'[t]
      OBVIOUS
    <3>4. Answer(fragments) \in Seq(Text)
      BY <3>1, <3>2, <3>3, AnswerFacts
    <3>5. conversation' = Appended(t, fragments)
      BY <2>3, <3>3, Zenon DEF Finishes
    <3>6. PICK k \in {0, 1} : Shifted(t, fragments, k)
      BY <2>1, <3>4, AppendedFacts, Zenon
    <3> QED BY <2>1, <3>4, <3>5, <3>6, AppendedFacts, Zenon DEF Shifted
  <2> QED BY <2>2, <2>3, AgentFacts, Zenon DEF Decides, Streams, Completes
<1>3. sessionCanceled' \in [Turns -> BOOLEAN] /\ resets' \in 0..MaxResets
  BY AgentFacts, Zenon DEF AgentTypeOK
<1>4. ended' \in Seq(Turns)
  <2>1. ended \in Seq(Turns) /\ Append(ended, t) \in Seq(Turns)
    BY DEF AgentTypeOK
  <2> QED BY <2>1, AgentFacts, Zenon DEF Decides, Streams, Finishes, Completes
<1> QED BY <1>1, <1>2, <1>3, <1>4, AgentTypes, Zenon DEF AgentTypeOK, Fragments

\* A slot belongs to every turn that was asked, and to no other.
Placed(t) == job[t] = "none" <=> t > Newest

\* Every fragment of the turn was received, the status included.
StatusTaken(t) == phase[t] = "completed" /\ taken[t] = Len(sent[t])

\* A job that drains the spans has received the status.
Drains(t) == job[t] = "draining" => StatusTaken(t)

TurnInv == TypeOK /\ \A t \in Turns : Worded(t) /\ Started(t) /\ Placed(t) /\ Drains(t)

\* The newest slot is there for every job that writes to it.
LEMMA JobHasSlot ==
    ASSUME TurnInv, NEW t \in Turns, job[t] # "none"
    PROVE  t <= Newest /\ Newest > 0 /\ Newest \in Turns
<1>1. t \in 1..MaxAsks /\ ~(t > Newest) /\ Newest \in Nat /\ Newest <= MaxAsks
  BY DEF TurnInv, TypeOK, Placed, Newest, Turns
<1> QED BY <1>1, AgentAssumption DEF Turns

JobStates == {"none", "starting", "collecting", "draining", "freeing", "closed", "ended"}

\* The job of a turn that was asked moves on, and no other does.
LEMMA JobMoves ==
    ASSUME TurnInv, NEW t \in Turns, job[t] # "none", Len(turns') = Len(turns),
           NEW state \in JobStates \ {"none", "starting"}, job' = [job EXCEPT ![t] = state],
           \A u \in Turns \ {t} : phase'[u] = phase[u]
    PROVE  job' \in [Turns -> JobStates] /\ \A u \in Turns : Started(u)' /\ Placed(u)'
<1>1. job \in [Turns -> JobStates]
  BY Zenon DEF TurnInv, TypeOK, JobStates
<1>2. job' \in [Turns -> JobStates] /\ job'[t] = state /\ \A u \in Turns \ {t} : job'[u] = job[u]
  BY <1>1, Zenon
<1>3. ASSUME NEW u \in Turns PROVE Started(u)' /\ Placed(u)'
  <2>1. Newest' = Newest
    BY DEF Newest
  <2>2. Started(u) /\ Placed(u)
    BY DEF TurnInv
  <2>3. CASE u = t
    BY <1>2, <2>1, <2>2, <2>3, Zenon DEF Started, Placed
  <2>4. CASE u # t
    BY <1>2, <2>1, <2>2, <2>4, Zenon DEF Started, Placed
  <2> QED BY <2>3, <2>4
<1> QED BY <1>2, <1>3

\* An ask launches the job of the next turn in a slot of its own.
LEMMA AskFacts ==
    ASSUME TurnInv, Ask
    PROVE  /\ Newest + 1 \in Turns /\ job[Newest + 1] = "none" /\ job'[Newest + 1] = "starting"
           /\ job' \in [Turns -> JobStates] /\ \A u \in Turns \ {Newest + 1} : job'[u] = job[u]
           /\ turns' \in Seq(Slot) /\ Len(turns') = Newest + 1
           /\ turns'[Newest + 1] = [answer |-> <<>>, outcome |-> "Streaming"]
           /\ platform = "ios" => \A i \in 1..Newest : turns'[i] = Resolved[i]
           /\ platform # "ios" => \A i \in 1..Newest : turns'[i] = turns[i]
<1>1. turns \in Seq(Slot) /\ Newest = Len(turns) /\ job \in [Turns -> JobStates]
  BY Zenon DEF TurnInv, TypeOK, Newest, JobStates
<1>2. Newest + 1 \in Turns /\ Newest + 1 > Newest
  BY <1>1, AgentAssumption DEF Ask, Turns
<1>3. job[Newest + 1] = "none"
  BY <1>2, Zenon DEF TurnInv, Placed
<1>4. job' = [job EXCEPT ![Newest + 1] = "starting"]
  BY Zenon DEF Ask
<1>5. /\ job' \in [Turns -> JobStates] /\ job'[Newest + 1] = "starting"
      /\ \A u \in Turns \ {Newest + 1} : job'[u] = job[u]
  BY <1>1, <1>2, <1>4, Zenon DEF JobStates
<1>6. [answer |-> <<>>, outcome |-> "Streaming"] \in Slot
  BY DEF Slot
<1>7. ASSUME NEW base \in Seq(Slot), Len(base) = Newest,
             turns' = Append(base, [answer |-> <<>>, outcome |-> "Streaming"])
      PROVE  /\ turns' \in Seq(Slot) /\ Len(turns') = Newest + 1
             /\ turns'[Newest + 1] = [answer |-> <<>>, outcome |-> "Streaming"]
             /\ \A i \in 1..Newest : turns'[i] = base[i]
  BY <1>6, <1>7
<1>8. Resolved \in Seq(Slot) /\ Len(Resolved) = Newest
  BY <1>1, ResolvedFacts, Zenon
<1>9. CASE platform = "ios"
  <2>1. turns' = Append(Resolved, [answer |-> <<>>, outcome |-> "Streaming"])
    BY <1>9, Zenon DEF Ask
  <2> QED BY <1>2, <1>3, <1>5, <1>7, <1>8, <1>9, <2>1, Zenon
<1>10. CASE platform # "ios"
  <2>1. turns' = Append(turns, [answer |-> <<>>, outcome |-> "Streaming"])
    BY <1>10, Zenon DEF Ask
  <2> QED BY <1>1, <1>2, <1>3, <1>5, <1>7, <1>10, <2>1, Zenon
<1> QED BY <1>9, <1>10

\* What every step of a job on the screen's side does to the slots.
SlotTypes == turns' \in Seq(Slot) /\ Len(turns') = Newest

\* Receiving, applying a status and ending keep the list a list of slots.
LEMMA SlotsTyped ==
    ASSUME TurnInv, NEW t \in Turns,
           Receive(t) \/ ApplyStatus(t) \/ Epilogue(t),
           ApplyStatus(t) => sent[t][taken[t]] \in StopReason
    PROVE  SlotTypes
<1>1. turns \in Seq(Slot) /\ Len(turns) = Newest
  BY DEF TurnInv, TypeOK, Newest
<1>2. job[t] # "none"
  BY Zenon DEF Receive, ApplyStatus, Epilogue, Closed
<1>3. Newest > 0
  BY <1>2, JobHasSlot, Zenon
<1>4. "Error" \in StopReason \cup {"Streaming"}
  BY DEF StopReason
<1>5. ASSUME NEW o \in StopReason \cup {"Streaming"}, turns' = WithOutcome(o)
      PROVE  SlotTypes
  BY <1>1, <1>3, <1>5, OutcomeFacts, Zenon DEF SlotTypes
<1>6. CASE turns' = turns
  BY <1>1, <1>6, Zenon DEF SlotTypes
<1>7. CASE turns' = Resolved
  BY <1>1, <1>7, ResolvedFacts, Zenon DEF SlotTypes
<1>8. CASE Receive(t)
  <2>1. CASE Fragment(t) \in Text /\ turns' = [turns EXCEPT ![Newest].answer = Append(@, Fragment(t))]
    <3>1. PICK f \in Text : f = Fragment(t)
      BY <2>1
    <3> QED BY <1>1, <1>3, <2>1, <3>1, AnswerGrows, Zenon DEF SlotTypes
  <2> QED BY <1>6, <1>8, <2>1, Zenon DEF Receive
<1>9. CASE ApplyStatus(t)
  BY <1>5, <1>9, Zenon DEF ApplyStatus
<1>10. CASE Epilogue(t)
  BY <1>4, <1>5, <1>6, <1>7, <1>10, Zenon DEF Epilogue
<1> QED BY <1>8, <1>9, <1>10

\* A job that receives a status has received everything.
LEMMA StatusIsLast ==
    ASSUME TurnInv, NEW t \in Turns, taken[t] < Len(sent[t]), Fragment(t) \in StopReason
    PROVE  phase[t] = "completed" /\ taken[t] + 1 = Len(sent[t])
<1>1. Worded(t) /\ AgentTypeOK /\ taken[t] \in Nat
  BY DEF TurnInv, TypeOK
<1>2. TextLen(t) \in Nat /\ TextLen(t) <= Len(sent[t]) /\ sent[t] \in Seq(Fragments)
  BY <1>1, TurnAnswer, Zenon
<1>3. ~(taken[t] + 1 \in 1..TextLen(t))
  <2>1. \A f \in Text : f \notin StopReason
    BY DEF Text, StopReason
  <2> QED BY <1>1, <2>1, Zenon DEF Worded, Fragment
<1> QED BY <1>1, <1>2, <1>3 DEF TextLen

\* The types of the client's own variables.
ViewTypeOK ==
    /\ platform \in {"android", "ios"}
    /\ turns \in Seq(Slot) /\ Len(turns) <= MaxAsks
    /\ running \in BOOLEAN
    /\ job \in [Turns -> JobStates]
    /\ jobCanceled \in [Turns -> BOOLEAN]
    /\ failed \in [Turns -> BOOLEAN]
    /\ taken \in [Turns -> Nat]

\* The step of one job: what is left of the types once its own part is known.
LEMMA JobTypes ==
    ASSUME TurnInv, NEW t \in Turns, Newest' = Newest,
           job' \in [Turns -> JobStates], \A u \in Turns : Started(u)' /\ Placed(u)',
           AgentTypeOK', turns' \in Seq(Slot), running' \in BOOLEAN,
           jobCanceled' = jobCanceled, platform' = platform,
           failed' \in [Turns -> BOOLEAN], taken' \in [Turns -> Nat], sent' = sent,
           \A u \in Turns : (phase'[u] = "completed") <=> (phase[u] = "completed"),
           \A u \in Turns \ {t} : job'[u] = job[u] /\ taken'[u] = taken[u],
           Drains(t)'
    PROVE  TurnInv'
<1>1. ViewTypeOK'
  BY Zenon DEF TurnInv, TypeOK, ViewTypeOK, Newest
<1>2. TypeOK'
  BY <1>1, Zenon DEF TypeOK, ViewTypeOK, JobStates
<1>3. ASSUME NEW u \in Turns PROVE Worded(u)' /\ Drains(u)'
  <2>1. Worded(u)'
    BY WordsKept, Zenon DEF TurnInv
  <2>2. CASE u = t
    BY <2>1, <2>2
  <2>3. CASE u # t
    BY <2>1, <2>3, Zenon DEF TurnInv, Drains, StatusTaken
  <2> QED BY <2>2, <2>3
<1> QED BY <1>2, <1>3, Zenon DEF TurnInv

\* Every step of the agent, the screen and the jobs keeps the types and the words.
LEMMA TurnInvStep == TurnInv /\ [Next]_vars => TurnInv'
<1> SUFFICES ASSUME TurnInv, [Next]_vars PROVE TurnInv'
  OBVIOUS
<1>0. /\ AgentTypeOK /\ ViewTypeOK /\ TypeOK
      /\ \A u \in Turns : Worded(u) /\ Started(u) /\ Placed(u) /\ Drains(u)
  BY Zenon DEF TurnInv, TypeOK, ViewTypeOK, JobStates
<1>1. phase \in [Turns -> {"none", "deciding", "answering", "finished", "completed", "canceled"}]
      /\ sent \in [Turns -> Seq(Fragments)] /\ job \in [Turns -> JobStates]
      /\ taken \in [Turns -> Nat] /\ sessionCanceled \in [Turns -> BOOLEAN]
  BY <1>0, Zenon DEF AgentTypeOK, ViewTypeOK, Fragments
<1>2. ASSUME UNCHANGED agentVars PROVE AgentTypeOK' /\ phase' = phase /\ sent' = sent
  BY <1>0, <1>2, Zenon DEF AgentTypeOK, agentVars
<1>3. CASE Ask
  <2>1. AgentTypeOK' /\ phase' = phase /\ sent' = sent
    BY <1>2, <1>3, Zenon DEF Ask
  <2>2. ViewTypeOK'
    <3>1. jobCanceled' \in [Turns -> BOOLEAN]
      BY <1>3 DEF Ask, CancelJob
    <3>2. Len(turns') <= MaxAsks
      BY <1>0, <1>3, AskFacts, AgentAssumption DEF Turns
    <3> QED BY <1>0, <1>3, <3>1, <3>2, AskFacts, Zenon DEF Ask, ViewTypeOK
  <2>3. ASSUME NEW u \in Turns PROVE Worded(u)' /\ Started(u)' /\ Placed(u)' /\ Drains(u)'
    <3>1. Worded(u)'
      BY <1>0, <2>1, WordsKept, Zenon
    <3>2. Started(u)'
      BY <1>0, <1>3, <2>1, AskFacts, Zenon DEF Started
    <3>3. Placed(u)'
      <4>1. CASE u = Newest + 1
        <5>1. ~(Newest + 1 > Newest + 1)
          BY <1>0 DEF ViewTypeOK, Newest
        <5> QED BY <1>3, <4>1, <5>1, AskFacts, Zenon DEF Placed, Newest
      <4>2. CASE u # Newest + 1
        <5>1. u > Newest + 1 <=> u > Newest
          BY <1>0, <4>2 DEF ViewTypeOK, Newest, Turns
        <5> QED BY <1>0, <1>3, <4>2, <5>1, AskFacts, Zenon DEF Placed, Newest
      <4> QED BY <4>1, <4>2
    <3>4. Drains(u)'
      <4>1. taken' = taken
        BY <1>3, Zenon DEF Ask
      <4>2. job'[u] = "draining" => job[u] = "draining"
        BY <1>3, AskFacts, Zenon
      <4> QED BY <1>0, <2>1, <4>1, <4>2, Zenon DEF Drains, StatusTaken
    <3> QED BY <3>1, <3>2, <3>3, <3>4
  <2> QED BY <2>1, <2>2, <2>3, Zenon DEF TurnInv, TypeOK, ViewTypeOK, JobStates
<1>4. CASE Cancel
  <2>1. AgentTypeOK' /\ phase' = phase /\ sent' = sent /\ job' = job /\ taken' = taken
    BY <1>2, <1>4, Zenon DEF Cancel
  <2>2. turns' \in Seq(Slot) /\ Len(turns') = Len(turns)
    BY <1>0, <1>4, ResolvedFacts, Zenon DEF Cancel, ViewTypeOK, Newest
  <2>3. jobCanceled' \in [Turns -> BOOLEAN]
    BY <1>4 DEF Cancel, CancelJob
  <2>4. ViewTypeOK'
    BY <1>0, <1>4, <2>1, <2>2, <2>3, Zenon DEF Cancel, ViewTypeOK
  <2>5. ASSUME NEW u \in Turns PROVE Worded(u)' /\ Started(u)' /\ Placed(u)' /\ Drains(u)'
    BY <1>0, <2>1, <2>2, WordsKept, Zenon DEF Started, Placed, Drains, StatusTaken, Newest
  <2> QED BY <2>1, <2>4, <2>5, Zenon DEF TurnInv, TypeOK, ViewTypeOK, JobStates
<1>5. CASE ResetConversation /\ UNCHANGED viewVars
  <2>1. phase' = phase /\ sent' = sent /\ steps' = steps /\ reason' = reason /\ sessionCanceled' = sessionCanceled
    BY <1>5, Zenon DEF ResetConversation
  <2>2. /\ resets' \in 0..MaxResets /\ ended' \in Seq(Turns)
        /\ conversation' \in Seq(Entry) /\ Len(conversation') <= MaxTurns
    BY <1>0, <1>5, AgentAssumption DEF ResetConversation, AgentTypeOK
  <2>3. AgentTypeOK'
    BY <1>0, <2>1, <2>2, Zenon DEF AgentTypeOK
  <2>4. TypeOK'
    BY <1>0, <1>5, <2>3, Zenon DEF TypeOK, viewVars
  <2>5. ASSUME NEW u \in Turns PROVE Worded(u)' /\ Started(u)' /\ Placed(u)' /\ Drains(u)'
    BY <1>0, <1>5, <2>1, WordsKept, Zenon DEF Started, Placed, Drains, StatusTaken, Newest, viewVars
  <2> QED BY <2>4, <2>5, Zenon DEF TurnInv
<1>6. ASSUME NEW t \in Turns, AgentStep(t), UNCHANGED viewVars PROVE TurnInv'
  <2>1. AgentTypeOK' /\ \A u \in Turns : Worded(u)'
    BY <1>0, <1>6, AgentStays, Zenon
  <2>2. TypeOK'
    BY <1>0, <1>6, <2>1, Zenon DEF TypeOK, viewVars
  <2>3. ASSUME NEW u \in Turns PROVE Started(u)' /\ Placed(u)' /\ Drains(u)'
    <3>1. u # t => phase'[u] = phase[u] /\ sent'[u] = sent[u]
      BY <1>0, <1>6, AgentFacts, Zenon
    <3>2. phase[t] \notin {"none", "completed"}
      BY <1>0, <1>6, AgentFacts, Zenon DEF Decides, Streams, Finishes, Completes
    <3>3. CASE u = t
      BY <1>0, <1>6, <3>2, <3>3, Zenon DEF Started, Placed, Drains, StatusTaken, Newest, viewVars
    <3>4. CASE u # t
      BY <1>0, <1>6, <3>1, <3>4, Zenon DEF Started, Placed, Drains, StatusTaken, Newest, viewVars
    <3> QED BY <3>3, <3>4
  <2> QED BY <2>1, <2>2, <2>3, Zenon DEF TurnInv
<1>7. ASSUME NEW t \in Turns, StartSession(t) PROVE TurnInv'
  <2>1. /\ job[t] # "none" /\ phase[t] = "none" /\ phase' = [phase EXCEPT ![t] = "deciding"]
        /\ sent' = sent /\ taken' = taken /\ turns' = turns
    BY <1>0, <1>7, Zenon DEF StartSession, Started
  <2>2. PICK state \in {"collecting", "closed", "freeing"} : job' = [job EXCEPT ![t] = state]
    BY <1>7, Zenon DEF StartSession, Close
  <2>3. state \in JobStates \ {"none", "starting"} /\ state # "draining"
    BY <2>2 DEF JobStates
  <2>4. sessionCanceled' \in [Turns -> BOOLEAN]
    BY <1>1, <1>7, Zenon DEF StartSession, Close
  <2>5. AgentTypeOK'
    BY <1>0, <1>7, <2>1, <2>4, Zenon DEF StartSession, AgentTypeOK
  <2>6. /\ \A u \in Turns : (phase'[u] = "completed") <=> (phase[u] = "completed")
        /\ \A u \in Turns \ {t} : phase'[u] = phase[u] /\ job'[u] = job[u]
        /\ job'[t] = state
    BY <1>1, <2>1, <2>2, Zenon
  <2>7. job' \in [Turns -> JobStates] /\ \A u \in Turns : Started(u)' /\ Placed(u)'
    BY <2>1, <2>2, <2>3, <2>6, JobMoves, Zenon
  <2>8. Drains(t)'
    BY <2>3, <2>6, Zenon DEF Drains
  <2>9. Newest' = Newest /\ turns' \in Seq(Slot) /\ running' \in BOOLEAN /\ jobCanceled' = jobCanceled
        /\ platform' = platform /\ failed' \in [Turns -> BOOLEAN] /\ taken' \in [Turns -> Nat]
    BY <1>0, <1>7, Zenon DEF StartSession, ViewTypeOK, Newest
  <2> QED BY <2>1, <2>5, <2>6, <2>7, <2>8, <2>9, JobTypes, Zenon
<1>8. ASSUME NEW t \in Turns, NEW state \in {"closed", "freeing", "collecting", "ended"}, job[t] # "none",
             job' = [job EXCEPT ![t] = state],
             phase' = phase, sent' = sent, AgentTypeOK', SlotTypes, running' \in BOOLEAN,
             jobCanceled' = jobCanceled, platform' = platform,
             failed' \in [Turns -> BOOLEAN], taken' \in [Turns -> Nat],
             \A u \in Turns \ {t} : taken'[u] = taken[u]
      PROVE  TurnInv'
  <2>1. state \in JobStates \ {"none", "starting"} /\ state # "draining"
    BY <1>8 DEF JobStates
  <2>2. job'[t] = state /\ \A u \in Turns \ {t} : job'[u] = job[u]
    BY <1>1, <1>8, Zenon
  <2>3. Newest' = Newest /\ Len(turns') = Len(turns) /\ turns' \in Seq(Slot)
    BY <1>8, Zenon DEF SlotTypes, Newest
  <2>4. job' \in [Turns -> JobStates] /\ \A u \in Turns : Started(u)' /\ Placed(u)'
    BY <1>8, <2>1, <2>3, JobMoves, Zenon
  <2>5. Drains(t)'
    BY <2>1, <2>2, Zenon DEF Drains
  <2> QED BY <1>8, <2>2, <2>3, <2>4, <2>5, JobTypes, Zenon
<1>9. ASSUME NEW t \in Turns, Close(t),
             UNCHANGED <<phase, steps, reason, sent, conversation, ended, resets>>
      PROVE  AgentTypeOK' /\ phase' = phase /\ sent' = sent
  <2>1. sessionCanceled' \in [Turns -> BOOLEAN]
    BY <1>1, <1>9, Zenon DEF Close
  <2> QED BY <1>0, <1>9, <2>1, Zenon DEF AgentTypeOK
<1>10. turns' = turns => SlotTypes
  BY <1>0, Zenon DEF SlotTypes, ViewTypeOK, Newest
<1>11. ASSUME NEW t \in Turns, StartFails(t) \/ StartSkipped(t) PROVE TurnInv'
  <2>1. failed' \in [Turns -> BOOLEAN]
    BY <1>0, <1>11, Zenon DEF StartFails, StartSkipped, ViewTypeOK
  <2>2. /\ job[t] # "none" /\ job' = [job EXCEPT ![t] = "closed"] /\ turns' = turns
        /\ running' = running /\ jobCanceled' = jobCanceled /\ platform' = platform /\ taken' = taken
        /\ AgentTypeOK' /\ phase' = phase /\ sent' = sent
    BY <1>2, <1>11, Zenon DEF StartFails, StartSkipped
  <2> QED BY <1>0, <1>8, <1>10, <2>1, <2>2, Zenon DEF ViewTypeOK
<1>12. ASSUME NEW t \in Turns, BufferOverflows(t) \/ StreamEnds(t) PROVE TurnInv'
  <2>1. failed' \in [Turns -> BOOLEAN]
    BY <1>0, <1>12, Zenon DEF BufferOverflows, StreamEnds, ViewTypeOK
  <2>2. /\ job[t] # "none" /\ job' = [job EXCEPT ![t] = "freeing"] /\ turns' = turns
        /\ running' = running /\ jobCanceled' = jobCanceled /\ platform' = platform /\ taken' = taken
    BY <1>12, Zenon DEF BufferOverflows, StreamEnds, Close
  <2>3. AgentTypeOK' /\ phase' = phase /\ sent' = sent
    BY <1>9, <1>12, Zenon DEF BufferOverflows, StreamEnds
  <2> QED BY <1>0, <1>8, <1>10, <2>1, <2>2, <2>3, Zenon DEF ViewTypeOK
<1>13. ASSUME NEW t \in Turns, Receive(t) PROVE TurnInv'
  <2>1. /\ job[t] = "collecting" /\ taken[t] < Len(sent[t]) /\ taken' = [taken EXCEPT ![t] = @ + 1]
        /\ AgentTypeOK' /\ phase' = phase /\ sent' = sent
        /\ running' = running /\ jobCanceled' = jobCanceled /\ platform' = platform /\ failed' = failed
    BY <1>2, <1>13, Zenon DEF Receive
  <2>2. /\ taken' \in [Turns -> Nat] /\ taken'[t] = taken[t] + 1
        /\ \A u \in Turns \ {t} : taken'[u] = taken[u]
    BY <1>1, <2>1
  <2>3. SlotTypes
    <3>1. ~ApplyStatus(t)
      BY <2>1, Zenon DEF ApplyStatus
    <3> QED BY <1>13, <3>1, SlotsTyped, Zenon
  <2>4. CASE job' = job
    <3>1. job' = [job EXCEPT ![t] = "collecting"]
      BY <1>1, <2>1, <2>4, Zenon
    <3> QED BY <1>0, <1>8, <2>1, <2>2, <2>3, <3>1, Zenon DEF ViewTypeOK
  <2>5. CASE Fragment(t) \in StopReason /\ job' = [job EXCEPT ![t] = "draining"]
    <3>1. phase[t] = "completed" /\ taken[t] + 1 = Len(sent[t])
      BY <2>1, <2>5, StatusIsLast, Zenon
    <3>2. Drains(t)'
      BY <2>1, <2>2, <3>1, Zenon DEF Drains, StatusTaken
    <3>3. Newest' = Newest /\ Len(turns') = Len(turns) /\ turns' \in Seq(Slot)
      BY <2>3, Zenon DEF SlotTypes, Newest
    <3>4. "draining" \in JobStates \ {"none", "starting"} /\ job[t] # "none"
      BY <2>1 DEF JobStates
    <3>5. job' \in [Turns -> JobStates] /\ \A u \in Turns : Started(u)' /\ Placed(u)'
      BY <2>1, <2>5, <3>3, <3>4, JobMoves, Zenon
    <3>6. \A u \in Turns \ {t} : job'[u] = job[u]
      BY <1>1, <2>5, Zenon
    <3> QED BY <1>0, <2>1, <2>2, <3>2, <3>3, <3>5, <3>6, JobTypes, Zenon DEF ViewTypeOK
  <2> QED BY <1>13, <2>4, <2>5, Zenon DEF Receive
<1>14. ASSUME NEW t \in Turns, ApplyStatus(t) PROVE TurnInv'
  <2>1. /\ job[t] = "draining" /\ job' = [job EXCEPT ![t] = "collecting"] /\ taken' = taken
        /\ AgentTypeOK' /\ phase' = phase /\ sent' = sent
        /\ running' = running /\ jobCanceled' = jobCanceled /\ platform' = platform /\ failed' = failed
    BY <1>2, <1>14, Zenon DEF ApplyStatus
  <2>2. sent[t][taken[t]] \in StopReason
    BY <1>0, <2>1, Zenon DEF Drains, StatusTaken, Worded
  <2>3. SlotTypes
    BY <1>14, <2>2, SlotsTyped, Zenon
  <2> QED BY <1>0, <1>8, <2>1, <2>3, Zenon DEF ViewTypeOK
<1>15. ASSUME NEW t \in Turns, Epilogue(t) PROVE TurnInv'
  <2>1. /\ job[t] \in {"closed", "freeing"} /\ job' = [job EXCEPT ![t] = "ended"] /\ taken' = [taken EXCEPT ![t] = 0]
        /\ AgentTypeOK' /\ phase' = phase /\ sent' = sent
        /\ jobCanceled' = jobCanceled /\ platform' = platform /\ failed' = failed
    BY <1>2, <1>15, Zenon DEF Epilogue, Closed
  <2>2. running' \in BOOLEAN
    BY <1>0, <1>15, Zenon DEF Epilogue, ViewTypeOK
  <2>3. taken' \in [Turns -> Nat] /\ \A u \in Turns \ {t} : taken'[u] = taken[u]
    BY <1>1, <2>1
  <2>4. SlotTypes
    <3>1. ~ApplyStatus(t)
      BY <2>1, Zenon DEF ApplyStatus
    <3> QED BY <1>15, <3>1, SlotsTyped, Zenon
  <2> QED BY <1>0, <1>8, <2>1, <2>2, <2>3, <2>4, Zenon DEF ViewTypeOK
<1>16. CASE UNCHANGED vars
  <2>1. AgentTypeOK' /\ phase' = phase /\ sent' = sent
    BY <1>2, <1>16, Zenon DEF vars
  <2> QED BY <1>0, <1>16, <2>1, Zenon
        DEF TurnInv, TypeOK, Worded, TextLen, Started, Placed, Drains, StatusTaken, Newest, vars, viewVars
<1> QED
  BY <1>3, <1>4, <1>5, <1>6, <1>7, <1>11, <1>12, <1>13, <1>14, <1>15, <1>16, Zenon DEF Next, JobStep

\* The types and the words hold from the start.
LEMMA TurnInvariance == Spec => []TurnInv
<1>1. Init => TurnInv
  <2> SUFFICES ASSUME Init PROVE TurnInv
    OBVIOUS
  <2>1. AgentTypeOK
    BY AgentAssumption DEF Init, AgentInit, AgentTypeOK, StopReason
  <2>2. TypeOK
    <3>1. platform \in {"android", "ios"}
      BY PlatformsAssumption DEF Init
    <3>2. turns \in Seq(Slot) /\ Len(turns) <= MaxAsks /\ taken \in [Turns -> Nat]
      BY AgentAssumption DEF Init
    <3> QED BY <2>1, <3>1, <3>2, Zenon DEF Init, TypeOK
  <2>3. Newest = 0 /\ \A t \in Turns : t > 0 /\ Len(sent[t]) = 0 /\ phase[t] = "none" /\ job[t] = "none"
    BY DEF Init, AgentInit, Newest, Turns
  <2>4. ASSUME NEW t \in Turns PROVE Worded(t) /\ Started(t) /\ Placed(t) /\ Drains(t)
    <3>1. Worded(t)
      BY <2>3 DEF Worded, TextLen
    <3> QED BY <2>3, <3>1, Zenon DEF Started, Placed, Drains
  <2> QED BY <2>2, <2>4, Zenon DEF TurnInv
<1> QED BY <1>1, TurnInvStep, PTL DEF Spec

\* The agent's and the client's variables keep their types: in particular the
\* memory never holds more than MaxTurns turns, and every slot is a slot.
THEOREM TypeCorrect == Spec => []TypeOK
<1>1. TurnInv => TypeOK
  BY DEF TurnInv
<1> QED BY <1>1, TurnInvariance, PTL

----------------------------------------------------------------------------
\* The conversation.

\* No turn that is recorded changes its answer, or its being recorded.
LEMMA RecordedStays ==
    ASSUME TurnInv, TurnInv', [Next]_vars, NEW u \in Turns, Recorded(u)
    PROVE  Recorded(u)' /\ Answer(sent'[u]) = Answer(sent[u])
<1>0. AgentTypeOK /\ Worded(u) /\ AgentTypeOK' /\ Worded(u)'
  BY DEF TurnInv, TypeOK
<1>1. CASE phase'[u] = phase[u] /\ sent'[u] = sent[u]
  BY <1>1, Zenon DEF Recorded
<1>2. ASSUME NEW t \in Turns, AgentStep(t) PROVE Recorded(u)' /\ Answer(sent'[u]) = Answer(sent[u])
  <2>1. CASE u # t
    BY <1>0, <1>1, <1>2, <2>1, AgentFacts, Zenon
  <2>2. CASE u = t
    <3>1. Completes(t)
      BY <1>0, <1>2, <2>2, AgentFacts, Zenon DEF Recorded, Decides, Streams, Finishes
    <3>2. PICK status \in StopReason : sent'[u] = Append(sent[u], status)
      BY <2>2, <3>1, Zenon DEF Completes
    <3>3. phase[u] = "finished" /\ phase'[u] = "completed"
      BY <2>2, <3>1, Zenon DEF Completes
    <3>4. PICK n \in Nat : n = Len(sent[u])
      BY <1>0, TurnAnswer
    <3>5. sent[u] \in Seq(Fragments) /\ status \in Fragments /\ \A i \in 1..n : sent[u][i] \in Text
      BY <1>0, <3>3, <3>4, TurnAnswer, Zenon DEF Worded, TextLen, Fragments
    <3>6. PICK longer : longer = Append(sent[u], status)
      OBVIOUS
    <3>7. /\ longer \in Seq(Fragments) /\ Len(longer) = n + 1 /\ longer[n + 1] \in StopReason
          /\ \A i \in 1..n : longer[i] = sent[u][i]
      BY <3>4, <3>5, <3>6, AppendFragment, Zenon
    <3>8. /\ Answer(longer) \in Seq(Text) /\ Len(Answer(longer)) = n
          /\ \A i \in 1..n : Answer(longer)[i] = longer[i]
      BY <3>5, <3>7, AnswerFacts, Zenon
    <3>9. /\ Answer(sent[u]) \in Seq(Text) /\ Len(Answer(sent[u])) = n
          /\ \A i \in 1..n : Answer(sent[u])[i] = sent[u][i]
      BY <3>4, <3>5, AnswerFacts, Zenon
    <3>10. n <= n /\ \A i \in 1..n : Answer(longer)[i] = Answer(sent[u])[i]
      BY <3>7, <3>8, <3>9
    <3>11. Answer(longer) = Answer(sent[u])
      BY <3>8, <3>9, <3>10, PrefixFacts, Zenon
    <3>12. Answer(sent'[u]) = Answer(longer)
      BY <3>2, <3>6
    <3> QED BY <3>3, <3>11, <3>12, Zenon DEF Recorded
  <2> QED BY <2>1, <2>2
<1>3. ASSUME NEW t \in Turns, StartSession(t) PROVE phase'[u] = phase[u] /\ sent'[u] = sent[u]
  <2>1. phase[t] = "none"
    BY <1>3, Zenon DEF TurnInv, Started, StartSession
  <2>2. u # t
    BY <2>1, Zenon DEF Recorded
  <2>3. sent' = sent /\ phase' = [phase EXCEPT ![t] = "deciding"]
    BY <1>3, Zenon DEF StartSession
  <2> QED BY <1>0, <2>2, <2>3, Zenon DEF AgentTypeOK
<1>4. ASSUME NEW t \in Turns,
             StreamEnds(t) \/ Receive(t) \/ ApplyStatus(t) \/ Epilogue(t)
                 \/ StartFails(t) \/ StartSkipped(t) \/ BufferOverflows(t)
      PROVE  phase' = phase /\ sent' = sent
  BY <1>4, Zenon
     DEF StreamEnds, Receive, ApplyStatus, Epilogue, StartFails, StartSkipped, BufferOverflows, agentVars
<1>5. Ask \/ Cancel \/ ResetConversation \/ UNCHANGED vars => phase' = phase /\ sent' = sent
  BY Zenon DEF Ask, Cancel, ResetConversation, agentVars, vars
<1> QED BY <1>1, <1>2, <1>3, <1>4, <1>5, Zenon DEF Next, JobStep

\* The conversation changes when a turn ends by itself, and with a reset.
LEMMA ConversationSteps ==
    ASSUME TurnInv, [Next]_vars
    PROVE  \/ UNCHANGED <<conversation, ended, resets>> /\ \A u \in Turns : Recorded(u)' => Recorded(u)
           \/ conversation' = <<>> /\ ended' = <<>> /\ resets' = resets + 1
           \/ \E t \in Turns : Finishes(t) /\ UNCHANGED resets
                               /\ \A u \in Turns \ {t} : phase'[u] = phase[u]
<1>0. AgentTypeOK
  BY DEF TurnInv, TypeOK
<1>1. phase' = phase => \A u \in Turns : Recorded(u)' => Recorded(u)
  BY Zenon DEF Recorded
<1>2. CASE ResetConversation
  BY <1>2, Zenon DEF ResetConversation
<1>3. ASSUME NEW t \in Turns, AgentStep(t), ~Finishes(t)
      PROVE  UNCHANGED <<conversation, ended, resets>> /\ \A u \in Turns : Recorded(u)' => Recorded(u)
  <2>1. UNCHANGED <<conversation, ended, resets>> /\ (Recorded(t)' => Recorded(t))
    BY <1>0, <1>3, AgentFacts, Zenon DEF Decides, Streams, Completes, Recorded
  <2>2. ASSUME NEW u \in Turns, u # t PROVE Recorded(u)' => Recorded(u)
    BY <1>0, <1>3, <2>2, AgentFacts, Zenon DEF Recorded
  <2> QED BY <2>1, <2>2, Zenon
<1>4. ASSUME NEW t \in Turns, AgentStep(t), Finishes(t)
      PROVE  UNCHANGED resets /\ \A u \in Turns \ {t} : phase'[u] = phase[u]
  BY <1>0, <1>4, AgentFacts, Zenon
<1>5. ASSUME NEW t \in Turns, StartSession(t)
      PROVE  UNCHANGED <<conversation, ended, resets>> /\ \A u \in Turns : Recorded(u)' => Recorded(u)
  <2>1. UNCHANGED <<conversation, ended, resets>> /\ phase' = [phase EXCEPT ![t] = "deciding"]
    BY <1>5, Zenon DEF StartSession
  <2> QED BY <1>0, <2>1, Zenon DEF AgentTypeOK, Recorded
<1>6. ASSUME NEW t \in Turns,
             StreamEnds(t) \/ Receive(t) \/ ApplyStatus(t) \/ Epilogue(t)
                 \/ StartFails(t) \/ StartSkipped(t) \/ BufferOverflows(t)
      PROVE  UNCHANGED <<phase, conversation, ended, resets>>
  BY <1>6, Zenon
     DEF StreamEnds, Receive, ApplyStatus, Epilogue, StartFails, StartSkipped, BufferOverflows, agentVars
<1>7. Ask \/ Cancel \/ UNCHANGED vars => UNCHANGED <<phase, conversation, ended, resets>>
  BY Zenon DEF Ask, Cancel, agentVars, vars
<1> QED BY <1>1, <1>2, <1>3, <1>4, <1>5, <1>6, <1>7, Zenon DEF Next, JobStep

\* What the sequence of the ended turns says of the turns.
Listed(t) == \E i \in 1..Len(ended) : ended[i] = t
EndedHolds ==
    /\ \A i, j \in 1..Len(ended) : ended[i] = ended[j] => i = j
    /\ \A i \in 1..Len(ended) : Recorded(ended[i])
    /\ resets = 0 => \A t \in Turns : Recorded(t) => Listed(t)

\* What the memory keeps of them.
Window ==
    /\ Len(conversation) = IF Len(ended) < MaxTurns THEN Len(ended) ELSE MaxTurns
    /\ \A i \in 1..Len(conversation) :
          conversation[i] = Memory(ended[Len(ended) - Len(conversation) + i])

\* Together they are ConversationMirrorsTurns.
LEMMA MirrorsParts == ConversationMirrorsTurns <=> EndedHolds /\ Window
  BY Zenon DEF ConversationMirrorsTurns, EndedHolds, Window, Listed

\* A turn that ended keeps its entry, step by step.
LEMMA MemoryStays ==
    ASSUME TurnInv, TurnInv', [Next]_vars, NEW u \in Turns, Recorded(u)
    PROVE  Recorded(u)' /\ Memory(u)' = Memory(u)
  BY RecordedStays, Zenon DEF Memory

\* The sequence of the ended turns grows at its end.
LEMMA FinishList ==
    ASSUME TurnInv, NEW t \in Turns, Finishes(t), NEW m \in Nat, m = Len(ended)
    PROVE  /\ Len(ended') = m + 1 /\ ended'[m + 1] = t
           /\ \A i \in 1..m : ended'[i] = ended[i] /\ ended[i] \in Turns
<1>1. ended \in Seq(Turns)
  BY DEF TurnInv, TypeOK, AgentTypeOK
<1>2. ended' = Append(ended, t)
  BY Zenon DEF Finishes
<1> QED BY <1>1, <1>2

\* A turn that ends by itself joins the ended ones: it was not among them.
LEMMA FinishEnded ==
    ASSUME TurnInv, TurnInv', [Next]_vars, EndedHolds, NEW t \in Turns, Finishes(t),
           UNCHANGED resets, \A u \in Turns \ {t} : phase'[u] = phase[u]
    PROVE  EndedHolds'
<1>1. PICK m \in Nat : m = Len(ended)
  BY DEF TurnInv, TypeOK, AgentTypeOK
<1>2. /\ Len(ended') = m + 1 /\ ended'[m + 1] = t
      /\ \A i \in 1..m : ended'[i] = ended[i] /\ ended[i] \in Turns
  BY <1>1, FinishList, Zenon
<1>3. \A i \in 1..(m + 1) : i \in 1..m \/ i = m + 1
  OBVIOUS
<1>4. ~Recorded(t) /\ Recorded(t)'
  BY Zenon DEF Finishes, Recorded
<1>5. \A i \in 1..m : ended[i] # t
  BY <1>1, <1>4, Zenon DEF EndedHolds
<1>6. ASSUME NEW i \in 1..(m + 1), NEW j \in 1..(m + 1), ended'[i] = ended'[j] PROVE i = j
  BY <1>1, <1>2, <1>3, <1>5, <1>6, Zenon DEF EndedHolds
<1>7. ASSUME NEW i \in 1..(m + 1) PROVE Recorded(ended[i])'
  <2>1. CASE i \in 1..m
    <3>1. PICK u \in Turns : u = ended[i]
      BY <1>2, <2>1, Zenon
    <3>2. Recorded(u)' /\ ended'[i] = u
      BY <1>1, <1>2, <2>1, <3>1, RecordedStays, Zenon DEF EndedHolds
    <3> QED BY <3>2, Zenon DEF Recorded
  <2>2. CASE i = m + 1
    BY <1>2, <1>4, <2>2, Zenon DEF Recorded
  <2> QED BY <1>3, <2>1, <2>2, Zenon
<1>8. ASSUME resets' = 0, NEW u \in Turns, Recorded(u)' PROVE Listed(u)'
  <2>1. m + 1 \in 1..(m + 1) /\ \A i \in 1..m : i \in 1..(m + 1)
    OBVIOUS
  <2>2. CASE u = t
    BY <1>2, <2>1, <2>2, Zenon DEF Listed
  <2>3. CASE u # t
    <3>1. Listed(u)
      BY <1>8, <2>3, Zenon DEF EndedHolds, Recorded
    <3>2. PICK i \in 1..m : ended[i] = u
      BY <1>1, <3>1, Zenon DEF Listed
    <3> QED BY <1>2, <2>1, <3>2, Zenon DEF Listed
  <2> QED BY <2>2, <2>3
<1> QED BY <1>2, <1>6, <1>7, <1>8, Zenon DEF EndedHolds

\* Its entry is appended, and the oldest leaves a memory that is full.
LEMMA FinishWindow ==
    ASSUME TurnInv, TurnInv', [Next]_vars, EndedHolds, Window, NEW t \in Turns, Finishes(t)
    PROVE  Window'
<1>1. PICK n \in Nat : n = Len(conversation)
  BY DEF TurnInv, TypeOK, AgentTypeOK
<1>2. PICK m \in Nat : m = Len(ended)
  BY DEF TurnInv, TypeOK, AgentTypeOK
<1>3. /\ Len(ended') = m + 1 /\ ended'[m + 1] = t
      /\ \A i \in 1..m : ended'[i] = ended[i] /\ ended[i] \in Turns
  BY <1>2, FinishList, Zenon
<1>4. PICK entry : entry = [turn |-> t, answer |-> Answer(sent'[t])]
  OBVIOUS
<1>5. PICK k \in {0, 1} :
        /\ Len(conversation') = n + 1 - k /\ n + 1 - k <= MaxTurns
        /\ k = 1 => n = MaxTurns
        /\ \A i \in 1..(n + 1 - k) : conversation'[i] = IF i + k = n + 1 THEN entry ELSE conversation[i + k]
  <2>1. PICK fragments : fragments = sent'[t]
    OBVIOUS
  <2>2. Answer(fragments) \in Seq(Text)
    <3>1. AgentTypeOK' /\ Worded(t)'
      BY DEF TurnInv, TypeOK
    <3>2. PICK l \in Nat : l = Len(sent'[t])
      BY <3>1 DEF AgentTypeOK
    <3>3. sent'[t] \in Seq(Fragments) /\ \A i \in 1..l : sent'[t][i] \in Text
      BY <3>1, <3>2, Zenon DEF AgentTypeOK, Fragments, Worded, TextLen, Finishes
    <3> QED BY <2>1, <3>2, <3>3, AnswerFacts
  <2>3. conversation' = Appended(t, fragments) /\ entry = [turn |-> t, answer |-> Answer(fragments)]
    BY <1>4, <2>1, Zenon DEF Finishes
  <2>4. conversation \in Seq(Entry) /\ Len(conversation) <= MaxTurns
    BY DEF TurnInv, TypeOK, AgentTypeOK
  <2>5. PICK k \in {0, 1} : Shifted(t, fragments, k)
    BY <2>2, <2>4, AppendedFacts, Zenon
  <2> QED BY <1>1, <2>3, <2>5, Zenon DEF Shifted
<1>6. n = IF m < MaxTurns THEN m ELSE MaxTurns
  BY <1>1, <1>2, Zenon DEF Window
<1>7. n + 1 - k = IF m + 1 < MaxTurns THEN m + 1 ELSE MaxTurns
  BY <1>5, <1>6, AgentAssumption
<1>8. ASSUME NEW i \in 1..(n + 1 - k)
      PROVE  conversation'[i] = Memory(ended[(m + 1) - (n + 1 - k) + i])'
  <2>1. CASE i + k = n + 1
    <3>1. (m + 1) - (n + 1 - k) + i = m + 1
      BY <1>5, <2>1
    <3>2. conversation'[i] = entry
      BY <1>5, <2>1, Zenon
    <3>3. entry = Memory(t)'
      BY <1>4, Zenon DEF Memory
    <3> QED BY <1>3, <3>1, <3>2, <3>3, Zenon DEF Memory
  <2>2. CASE i + k # n + 1
    <3>1. PICK j \in 1..n : j = i + k
      BY <1>5, <2>2
    <3>2. PICK d \in 1..m : d = m - n + j
      BY <1>6, <3>1, AgentAssumption
    <3>3. (m + 1) - (n + 1 - k) + i = d
      BY <1>5, <3>1, <3>2
    <3>4. conversation'[i] = conversation[j]
      BY <1>5, <2>2, <3>1, Zenon
    <3>5. conversation[j] = Memory(ended[d])
      BY <1>1, <1>2, <3>2, Zenon DEF Window
    <3>6. PICK u \in Turns : u = ended[d] /\ u = ended'[d]
      BY <1>3, Zenon
    <3>7. Recorded(u)
      BY <1>2, <3>6, Zenon DEF EndedHolds
    <3>8. Memory(u)' = Memory(u)
      BY <3>7, MemoryStays, Zenon
    <3> QED BY <3>3, <3>4, <3>5, <3>6, <3>8, Zenon DEF Memory
  <2> QED BY <2>1, <2>2
<1>9. Len(conversation') = n + 1 - k
  BY <1>5
<1> QED BY <1>3, <1>7, <1>8, <1>9, Zenon DEF Window

\* A step that ends no turn and resets nothing leaves both as they are.
LEMMA OtherMirrors ==
    ASSUME TurnInv, TurnInv', [Next]_vars, EndedHolds, Window,
           UNCHANGED <<conversation, ended, resets>>, \A u \in Turns : Recorded(u)' => Recorded(u)
    PROVE  EndedHolds' /\ Window'
<1>1. PICK m \in Nat : m = Len(ended) /\ m = Len(ended')
  BY DEF TurnInv, TypeOK, AgentTypeOK
<1>2. \A i \in 1..m : ended'[i] = ended[i] /\ ended[i] \in Turns
  BY <1>1 DEF TurnInv, TypeOK, AgentTypeOK
<1>3. ASSUME NEW i \in 1..m PROVE Recorded(ended[i])' /\ Memory(ended[i])' = Memory(ended[i])
  <2>1. PICK u \in Turns : u = ended[i] /\ u = ended'[i]
    BY <1>2, Zenon
  <2>2. Recorded(u)
    BY <1>1, <2>1, Zenon DEF EndedHolds
  <2>3. Recorded(u)' /\ Memory(u)' = Memory(u)
    BY <2>2, MemoryStays, Zenon
  <2> QED BY <2>1, <2>3, Zenon DEF Recorded, Memory
<1>4. EndedHolds'
  <2>1. resets' = 0 => \A u \in Turns : Recorded(u)' => Listed(u)'
    BY Zenon DEF EndedHolds, Listed
  <2> QED BY <1>1, <1>3, <2>1, Zenon DEF EndedHolds
<1>5. PICK n \in Nat : n = Len(conversation) /\ n = Len(conversation')
  BY DEF TurnInv, TypeOK, AgentTypeOK
<1>6. ASSUME NEW i \in 1..n PROVE conversation'[i] = Memory(ended[m - n + i])'
  <2>1. n = IF m < MaxTurns THEN m ELSE MaxTurns
    BY <1>1, <1>5, Zenon DEF Window
  <2>2. PICK d \in 1..m : d = m - n + i
    BY <2>1, AgentAssumption
  <2>3. conversation[i] = Memory(ended[d])
    BY <1>1, <1>5, <2>2, Zenon DEF Window
  <2> QED BY <1>3, <2>2, <2>3, Zenon
<1>7. Window'
  BY <1>1, <1>5, <1>6, Zenon DEF Window
<1> QED BY <1>4, <1>7

\* Every step of the agent, the screen and the jobs keeps what the memory holds.
LEMMA MirrorsStep ==
    ASSUME TurnInv, TurnInv', [Next]_vars, ConversationMirrorsTurns
    PROVE  ConversationMirrorsTurns'
<1>0. EndedHolds /\ Window
  BY MirrorsParts
<1> SUFFICES EndedHolds' /\ Window'
  BY Zenon DEF ConversationMirrorsTurns, EndedHolds, Window, Listed
<1>1. CASE UNCHANGED <<conversation, ended, resets>> /\ \A u \in Turns : Recorded(u)' => Recorded(u)
  BY <1>0, <1>1, OtherMirrors, Zenon
<1>2. CASE conversation' = <<>> /\ ended' = <<>> /\ resets' = resets + 1
  <2>1. resets' # 0
    BY <1>2, AgentAssumption DEF TurnInv, TypeOK, AgentTypeOK
  <2>2. Len(conversation') = 0 /\ Len(ended') = 0 /\ 0 < MaxTurns /\ \A i \in 1..0 : FALSE
    BY <1>2, AgentAssumption
  <2> QED BY <2>1, <2>2, Zenon DEF EndedHolds, Window
<1>3. ASSUME NEW t \in Turns, Finishes(t), UNCHANGED resets, \A u \in Turns \ {t} : phase'[u] = phase[u]
      PROVE  EndedHolds' /\ Window'
  BY <1>0, <1>3, FinishEnded, FinishWindow, Zenon
<1> QED BY <1>1, <1>2, <1>3, ConversationSteps, Zenon

\* ConversationSession remembers exactly the newest MaxTurns of the turns that
\* ended by themselves since the last reset, in the order they ended, each once
\* and with the text it streamed, however turns overlap and whenever the
\* conversation is reset.
THEOREM ConversationIsTheTurns == Spec => []ConversationMirrorsTurns
<1>1. Init => ConversationMirrorsTurns
  <2> SUFFICES ASSUME Init PROVE EndedHolds /\ Window
    BY MirrorsParts
  <2>1. Len(conversation) = 0 /\ Len(ended) = 0 /\ 0 < MaxTurns /\ \A i \in 1..0 : FALSE
    BY AgentAssumption DEF Init, AgentInit
  <2>2. \A t \in Turns : ~Recorded(t)
    BY DEF Init, AgentInit, Recorded
  <2> QED BY <2>1, <2>2, Zenon DEF EndedHolds, Window
<1>2. TurnInv /\ TurnInv' /\ ConversationMirrorsTurns /\ [Next]_vars => ConversationMirrorsTurns'
  BY MirrorsStep
<1> QED BY <1>1, <1>2, TurnInvariance, PTL DEF Spec

----------------------------------------------------------------------------
\* The screen.

Live == {"starting", "collecting", "draining"}

\* A job that has not started has received nothing; the one of a turn that is
\* not the last is cancelled or has ended; one without a session was cancelled or
\* refused.
JobInv(t) ==
    /\ job[t] \in {"none", "starting"} => taken[t] = 0 /\ failed[t] = FALSE
    /\ job[t] = "none" => jobCanceled[t] = FALSE
    /\ t < Newest /\ job[t] # "ended" => jobCanceled[t] = TRUE
    /\ job[t] = "closed" => jobCanceled[t] = TRUE \/ failed[t] = TRUE

\* What a slot shows is a prefix of its turn's text.
ShowsPrefix(t) ==
    /\ Len(turns[t].answer) <= TextLen(t)
    /\ \A i \in 1..Len(turns[t].answer) : turns[t].answer[i] = sent[t][i]

\* While its job lives, the slot shows what was received of the turn, and it has
\* no outcome of the engine's before the status.
ShowsReceived(t) ==
    /\ job[t] \in Live => taken[t] <= Len(sent[t])
    /\ job[t] \in Live /\ StatusTaken(t) => Len(turns[t].answer) = TextLen(t)
    /\ job[t] \in Live /\ ~StatusTaken(t) => /\ Len(turns[t].answer) = taken[t]
                                             /\ turns[t].outcome \in {"Streaming", "Error"}
    /\ job[t] = "collecting" /\ StatusTaken(t) => turns[t].outcome # "Streaming"

\* A job that was neither cancelled nor failed frees its session with an outcome.
FreedWithOutcome(t) ==
    job[t] = "freeing" /\ jobCanceled[t] = FALSE /\ failed[t] = FALSE => turns[t].outcome # "Streaming"

\* An outcome that claims an answer is the engine's, and the answer is there.
ClaimHolds(t) ==
    turns[t].outcome \in {"Answered", "StepCapReached"} =>
        /\ phase[t] = "completed" /\ turns[t].outcome = sent[t][Len(sent[t])]
        /\ Len(turns[t].answer) = TextLen(t)

\* Turns whose Error can only be the engine's.
Undisturbed(t) ==
    /\ jobCanceled[t] = FALSE /\ failed[t] = FALSE
    /\ platform = "android" => \A earlier \in 1..t - 1 : jobCanceled[earlier] = FALSE

ErrorIsSent(t) ==
    turns[t].outcome = "Error" /\ Undisturbed(t) =>
        phase[t] = "completed" /\ sent[t][Len(sent[t])] = "Error"

SlotInv(t) ==
    t <= Newest => /\ ShowsPrefix(t) /\ ShowsReceived(t) /\ FreedWithOutcome(t)
                   /\ ClaimHolds(t) /\ ErrorIsSent(t)

\* While the screen offers Cancel the last job is under way; on iOS no slot is
\* left with its spinner when it does not.
ScreenInv ==
    /\ running = TRUE => Newest > 0 /\ job[Newest] # "ended" /\ jobCanceled[Newest] = FALSE
    /\ platform = "ios" /\ running = FALSE /\ Newest > 0 => turns[Newest].outcome # "Streaming"

ViewInv == (\A t \in Turns : JobInv(t) /\ SlotInv(t)) /\ ScreenInv

\* A step that leaves the turn's stream and its slot alone, or only resolves the
\* slot, keeps what the slot shows.
Keeps(t) ==
    /\ turns'[t].answer = turns[t].answer /\ sent'[t] = sent[t]
    /\ (phase'[t] = "completed") <=> (phase[t] = "completed")
    /\ turns'[t].outcome = turns[t].outcome \/ turns'[t].outcome = "Error"
    /\ job'[t] \in Live => job[t] \in Live /\ taken'[t] = taken[t]
    /\ job'[t] = "collecting" => job[t] = "collecting" \/ ~StatusTaken(t)

\* Such a step keeps the three facts about what the slot shows.
LEMMA SlotKept ==
    ASSUME NEW t \in Turns, ShowsPrefix(t), ShowsReceived(t), ClaimHolds(t), Keeps(t)
    PROVE  ShowsPrefix(t)' /\ ShowsReceived(t)' /\ ClaimHolds(t)'
<1>1. TextLen(t)' = TextLen(t)
  <2>1. CASE phase[t] = "completed"
    BY <2>1, Zenon DEF TextLen, Keeps
  <2>2. CASE phase[t] # "completed"
    BY <2>2, Zenon DEF TextLen, Keeps
  <2> QED BY <2>1, <2>2
<1>2. ShowsPrefix(t)'
  BY <1>1, Zenon DEF ShowsPrefix, Keeps
<1>3. job'[t] \in Live => (StatusTaken(t)' <=> StatusTaken(t))
  BY Zenon DEF Keeps, StatusTaken
<1>4. "collecting" \in Live
  BY DEF Live
<1>5. job'[t] \in Live => taken'[t] <= Len(sent'[t])
  BY Zenon DEF Keeps, ShowsReceived
<1>6. job'[t] \in Live /\ StatusTaken(t)' => Len(turns'[t].answer) = TextLen(t)'
  BY <1>1, <1>3, Zenon DEF Keeps, ShowsReceived
<1>7. job'[t] \in Live /\ ~StatusTaken(t)' => /\ Len(turns'[t].answer) = taken'[t]
                                              /\ turns'[t].outcome \in {"Streaming", "Error"}
  BY <1>3, Zenon DEF Keeps, ShowsReceived
<1>8. job'[t] = "collecting" /\ StatusTaken(t)' => turns'[t].outcome # "Streaming"
  BY <1>3, <1>4, Zenon DEF Keeps, ShowsReceived
<1>9. ShowsReceived(t)'
  BY <1>5, <1>6, <1>7, <1>8, Zenon DEF ShowsReceived
<1>10. ClaimHolds(t)'
  BY <1>1, Zenon DEF Keeps, ClaimHolds
<1> QED BY <1>2, <1>9, <1>10

\* The last fragment of a turn was received, or the next one is text of the answer.
LEMMA TextFragment ==
    ASSUME TurnInv, NEW t \in Turns, taken[t] < Len(sent[t]), Fragment(t) \in Text
    PROVE  /\ taken[t] \in Nat /\ TextLen(t) \in Nat /\ taken[t] + 1 <= TextLen(t)
           /\ phase[t] = "completed" => taken[t] + 1 < Len(sent[t])
<1>1. Worded(t) /\ AgentTypeOK /\ taken[t] \in Nat
  BY DEF TurnInv, TypeOK
<1>2. TextLen(t) \in Nat /\ TextLen(t) <= Len(sent[t]) /\ sent[t] \in Seq(Fragments)
  BY <1>1, TurnAnswer, Zenon
<1>3. phase[t] = "completed" => taken[t] + 1 # Len(sent[t])
  <2>1. \A f \in Text : f \notin StopReason
    BY DEF Text, StopReason
  <2> QED BY <1>1, <2>1, Zenon DEF Worded, Fragment
<1>4. Len(sent[t]) \in Nat
  BY <1>2
<1>5. CASE phase[t] = "completed"
  BY <1>1, <1>2, <1>3, <1>4, <1>5 DEF TextLen
<1>6. CASE phase[t] # "completed"
  BY <1>1, <1>2, <1>4, <1>6 DEF TextLen
<1> QED BY <1>5, <1>6

\* The flags are Booleans.
LEMMA Flags ==
    ASSUME TurnInv, NEW t \in Turns
    PROVE  /\ jobCanceled[t] = TRUE \/ jobCanceled[t] = FALSE
           /\ failed[t] = TRUE \/ failed[t] = FALSE
           /\ running = TRUE \/ running = FALSE
<1>1. jobCanceled[t] \in BOOLEAN /\ failed[t] \in BOOLEAN /\ running \in BOOLEAN
  BY Zenon DEF TurnInv, TypeOK
<1> QED BY <1>1, Zenon

\* Only the job of the last turn may write: any other is cancelled by then.
LEMMA WriterIsLast ==
    ASSUME TurnInv, ViewInv, NEW t \in Turns, job[t] \notin {"none", "ended"}, ~jobCanceled[t]
    PROVE  t = Newest /\ jobCanceled[t] = FALSE
<1>1. jobCanceled[t] = FALSE
  BY Flags, Zenon
<1>2. t <= Newest /\ Newest \in Turns
  BY JobHasSlot, Zenon
<1>3. ~(t < Newest)
  BY <1>1, Zenon DEF ViewInv, JobInv
<1> QED BY <1>1, <1>2, <1>3 DEF Turns

\* A turn disturbed once stays disturbed.
LEMMA DisturbedStays ==
    ASSUME TurnInv, NEW t \in Turns, platform' = platform,
           \A u \in Turns : jobCanceled[u] = TRUE => jobCanceled'[u] = TRUE,
           failed[t] = TRUE => failed'[t] = TRUE, Undisturbed(t)'
    PROVE  Undisturbed(t)
<1>1. \A earlier \in 1..t - 1 : earlier \in Turns
  BY AgentAssumption DEF Turns
<1> QED BY <1>1, Flags, Zenon DEF Undisturbed

\* The slot of a turn that was asked, over a step that keeps it.
LEMMA SlotStays ==
    ASSUME TurnInv, ViewInv, NEW t \in Turns, t <= Newest, Keeps(t),
           \/ job'[t] # "freeing" \/ jobCanceled'[t] # FALSE \/ failed'[t] # FALSE
           \/ job[t] = "freeing" /\ jobCanceled[t] = FALSE /\ failed[t] = FALSE
           \/ turns'[t].outcome # "Streaming",
           turns'[t].outcome = "Error" /\ Undisturbed(t)' => turns[t].outcome = "Error" /\ Undisturbed(t)
    PROVE  SlotInv(t)'
<1>1. ShowsPrefix(t) /\ ShowsReceived(t) /\ FreedWithOutcome(t) /\ ClaimHolds(t) /\ ErrorIsSent(t)
  BY Zenon DEF ViewInv, SlotInv
<1>2. ShowsPrefix(t)' /\ ShowsReceived(t)' /\ ClaimHolds(t)'
  BY <1>1, SlotKept, Zenon
<1>3. FreedWithOutcome(t)'
  BY <1>1, Zenon DEF FreedWithOutcome, Keeps
<1>4. ErrorIsSent(t)'
  BY <1>1, Zenon DEF ErrorIsSent, Keeps
<1> QED BY <1>2, <1>3, <1>4, Zenon DEF SlotInv

\* The step of another turn's job.
Apart(t) ==
    /\ job'[t] = job[t] /\ taken'[t] = taken[t] /\ failed'[t] = failed[t]
    /\ phase'[t] = phase[t] /\ sent'[t] = sent[t]

\* It leaves the facts about the turn as they are.
LEMMA OtherKept ==
    ASSUME TurnInv, ViewInv, NEW t \in Turns, Apart(t), Newest' = Newest,
           UNCHANGED <<platform, jobCanceled>>,
           t <= Newest => turns'[t].answer = turns[t].answer /\ turns'[t].outcome = turns[t].outcome
    PROVE  JobInv(t)' /\ SlotInv(t)'
<1>1. JobInv(t)'
  BY Zenon DEF ViewInv, JobInv, Apart
<1>2. CASE t <= Newest
  <2>1. Keeps(t)
    BY <1>2, Zenon DEF Keeps, Apart
  <2>2. Undisturbed(t)' => Undisturbed(t)
    BY DisturbedStays, Zenon DEF Apart
  <2>3. job'[t] = "freeing" /\ jobCanceled'[t] = FALSE /\ failed'[t] = FALSE
        => job[t] = "freeing" /\ jobCanceled[t] = FALSE /\ failed[t] = FALSE
    BY Zenon DEF Apart
  <2>4. turns'[t].outcome = "Error" => turns[t].outcome = "Error"
    BY <1>2
  <2> QED BY <1>1, <1>2, <2>1, <2>2, <2>3, <2>4, SlotStays, Zenon
<1>3. CASE ~(t <= Newest)
  BY <1>1, <1>3, Zenon DEF SlotInv
<1> QED BY <1>2, <1>3

\* ask: the last turn is over or is cancelled here, and its slot is left as it is,
\* on iOS because a slot that still streams has a running job.
LEMMA AskKeeps ==
    ASSUME TurnInv, ViewInv, Ask
    PROVE  ViewInv'
<1>1. /\ UNCHANGED <<phase, sent, platform, failed, taken>> /\ jobCanceled' = CancelJob
      /\ running' = TRUE /\ running = FALSE
  <2>1. running = FALSE
    BY Zenon DEF Ask, TurnInv, TypeOK
  <2> QED BY <2>1, Zenon DEF Ask, agentVars
<1>2. Newest' = Newest + 1 /\ Newest \in Nat /\ Newest + 1 \in Turns
  <2>1. Newest \in Nat
    BY DEF TurnInv, TypeOK, Newest
  <2> QED BY <2>1, AskFacts, Zenon DEF Newest
<1>3. ASSUME NEW t \in Turns
      PROVE  /\ jobCanceled'[t] = (jobCanceled[t] \/ (t = Newest /\ job[t] # "ended"))
             /\ jobCanceled[t] = TRUE => jobCanceled'[t] = TRUE
             /\ jobCanceled[t] = FALSE /\ t # Newest => jobCanceled'[t] = FALSE
             /\ t = Newest /\ job[t] # "ended" => jobCanceled'[t] = TRUE
             /\ jobCanceled'[t] = FALSE => jobCanceled[t] = FALSE
  BY <1>1, Flags DEF CancelJob
<1>4. ASSUME NEW i \in 1..Newest PROVE turns'[i].answer = turns[i].answer /\ turns'[i].outcome = turns[i].outcome
  <2>1. CASE platform = "ios"
    <3>1. Newest > 0
      BY <1>2
    <3>2. turns[Newest].outcome # "Streaming"
      BY <1>1, <2>1, <3>1, Zenon DEF ViewInv, ScreenInv
    <3>3. turns \in Seq(Slot)
      BY DEF TurnInv, TypeOK
    <3>4. Resolved[i].answer = turns[i].answer /\ Resolved[i].outcome = turns[i].outcome
      BY <3>2, <3>3, ResolvedFacts, Zenon
    <3> QED BY <2>1, <3>4, AskFacts, Zenon
  <2>2. CASE platform # "ios"
    BY <2>2, AskFacts, Zenon
  <2> QED BY <2>1, <2>2
<1>5. ASSUME NEW t \in Turns, t # Newest + 1 PROVE JobInv(t)' /\ SlotInv(t)'
  <2>1. JobInv(t) /\ Placed(t) /\ job'[t] = job[t]
    BY <1>5, AskFacts, Zenon DEF ViewInv, TurnInv
  <2>2. t < Newest + 1 => t < Newest \/ t = Newest
    BY <1>2 DEF Turns
  <2>3. t = Newest => ~(t > Newest)
    BY <1>2
  <2>4. job[t] = "none" => t # Newest
    BY <2>1, <2>3, Zenon DEF Placed
  <2>5. JobInv(t)'
    BY <1>1, <1>2, <1>3, <2>1, <2>2, <2>4, Zenon DEF JobInv
  <2>6. CASE t <= Newest
    <3>1. t \in 1..Newest
      BY <1>2, <2>6 DEF Turns
    <3>2. Keeps(t)
      BY <1>1, <1>4, <2>1, <3>1, Zenon DEF Keeps
    <3>3. Undisturbed(t)' => Undisturbed(t)
      BY <1>1, <1>3, DisturbedStays, Zenon
    <3>4. job'[t] = "freeing" /\ jobCanceled'[t] = FALSE /\ failed'[t] = FALSE
          => job[t] = "freeing" /\ jobCanceled[t] = FALSE /\ failed[t] = FALSE
      BY <1>1, <1>3, <2>1, Zenon
    <3>5. turns'[t].outcome = "Error" => turns[t].outcome = "Error"
      BY <1>4, <3>1, Zenon
    <3> QED BY <2>5, <2>6, <3>2, <3>3, <3>4, <3>5, SlotStays, Zenon
  <2>7. CASE ~(t <= Newest)
    <3>1. ~(t <= Newest + 1)
      BY <1>2, <1>5, <2>7 DEF Turns
    <3> QED BY <1>2, <2>5, <3>1, Zenon DEF SlotInv
  <2> QED BY <2>6, <2>7
<1>6. ASSUME NEW t \in Turns, t = Newest + 1 PROVE JobInv(t)' /\ SlotInv(t)' /\ jobCanceled'[t] = FALSE
  <2>1. /\ job[t] = "none" /\ job'[t] = "starting"
        /\ turns'[t].answer = <<>> /\ turns'[t].outcome = "Streaming"
    BY <1>6, AskFacts
  <2>2. taken[t] = 0 /\ failed[t] = FALSE /\ jobCanceled[t] = FALSE
    BY <2>1, Zenon DEF ViewInv, JobInv
  <2>3. t # Newest /\ ~(t < Newest + 1)
    BY <1>2, <1>6
  <2>4. jobCanceled'[t] = FALSE
    BY <1>3, <2>2, <2>3, Zenon
  <2>5. JobInv(t)'
    BY <1>1, <1>2, <2>1, <2>2, <2>3, <2>4, Zenon DEF JobInv
  <2>6. phase[t] = "none" /\ AgentTypeOK /\ Worded(t)
    BY <2>1, Zenon DEF TurnInv, TypeOK, Started
  <2>7. TextLen(t) \in Nat /\ TextLen(t) <= Len(sent[t]) /\ TextLen(t)' = TextLen(t) /\ Len(sent[t]) \in Nat
    BY <1>1, <2>6, TurnAnswer DEF TextLen
  <2>8. Len(turns'[t].answer) = 0 /\ 0 <= TextLen(t) /\ 0 <= Len(sent[t]) /\ \A i \in 1..0 : FALSE
    BY <2>1, <2>7
  <2>9. ShowsPrefix(t)'
    BY <2>7, <2>8, Zenon DEF ShowsPrefix
  <2>10. ShowsReceived(t)'
    BY <1>1, <2>1, <2>2, <2>6, <2>8, Zenon DEF ShowsReceived, StatusTaken
  <2>11. FreedWithOutcome(t)' /\ ClaimHolds(t)' /\ ErrorIsSent(t)'
    BY <2>1, Zenon DEF FreedWithOutcome, ClaimHolds, ErrorIsSent
  <2> QED BY <2>4, <2>5, <2>9, <2>10, <2>11, Zenon DEF SlotInv
<1>7. ScreenInv'
  <2>1. Newest + 1 > 0
    BY <1>2
  <2>2. job'[Newest + 1] # "ended" /\ jobCanceled'[Newest + 1] = FALSE
    BY <1>2, <1>6, AskFacts, Zenon
  <2> QED BY <1>1, <1>2, <2>1, <2>2, Zenon DEF ScreenInv
<1> QED BY <1>5, <1>6, <1>7, Zenon DEF ViewInv

\* cancel: the job of the last turn is cancelled, so its slot may show Error.
LEMMA CancelKeeps ==
    ASSUME TurnInv, ViewInv, Cancel
    PROVE  ViewInv'
<1>1. /\ UNCHANGED <<phase, sent, platform, failed, taken, job>> /\ jobCanceled' = CancelJob
      /\ running' = FALSE /\ running = TRUE
  <2>1. running = TRUE
    BY Zenon DEF Cancel, TurnInv, TypeOK
  <2> QED BY <2>1, Zenon DEF Cancel, agentVars
<1>2. turns \in Seq(Slot) /\ Newest \in Nat
  BY DEF TurnInv, TypeOK, Newest
<1>3. Newest > 0 /\ job[Newest] # "ended" /\ jobCanceled[Newest] = FALSE
  BY <1>1, Zenon DEF ViewInv, ScreenInv
<1>4. Newest \in Turns /\ Newest' = Newest
  <2>1. Newest <= MaxAsks
    BY DEF TurnInv, TypeOK, Newest
  <2>2. Newest' = Newest
    BY <1>2, ResolvedFacts, Zenon DEF Cancel, Newest
  <2> QED BY <1>2, <1>3, <2>1, <2>2, AgentAssumption DEF Turns
<1>5. ASSUME NEW i \in 1..Newest
      PROVE  /\ turns'[i].answer = turns[i].answer
             /\ turns'[i].outcome = turns[i].outcome \/ (i = Newest /\ turns'[i].outcome = "Error")
             /\ i = Newest /\ platform = "ios" => turns'[i].outcome # "Streaming"
  <2>1. CASE platform = "ios"
    <3>1. turns' = Resolved
      BY <2>1, Zenon DEF Cancel
    <3> QED BY <1>2, <3>1, ResolvedFacts
  <2>2. CASE platform # "ios"
    BY <2>2, Zenon DEF Cancel
  <2> QED BY <2>1, <2>2
<1>6. ASSUME NEW t \in Turns
      PROVE  /\ jobCanceled[t] = TRUE => jobCanceled'[t] = TRUE
             /\ t # Newest => jobCanceled'[t] = jobCanceled[t]
             /\ jobCanceled'[t] = FALSE => jobCanceled[t] = FALSE
             /\ t = Newest => jobCanceled'[t] = TRUE
  <2>1. jobCanceled'[t] = (jobCanceled[t] \/ (t = Newest /\ job[t] # "ended"))
    BY <1>1 DEF CancelJob
  <2> QED BY <1>3, <2>1, Flags
<1>7. ASSUME NEW t \in Turns PROVE JobInv(t)' /\ SlotInv(t)'
  <2>1. JobInv(t) /\ Placed(t)
    BY Zenon DEF ViewInv, TurnInv
  <2>2. job[t] = "none" => t # Newest
    <3>1. ~(Newest > Newest)
      BY <1>2
    <3> QED BY <2>1, <3>1, Zenon DEF Placed
  <2>3. JobInv(t)'
    BY <1>1, <1>4, <1>6, <2>1, <2>2, Zenon DEF JobInv
  <2>4. CASE t <= Newest
    <3>1. t \in 1..Newest
      BY <1>2, <2>4 DEF Turns
    <3>2. Keeps(t)
      BY <1>1, <1>5, <3>1, Zenon DEF Keeps
    <3>3. Undisturbed(t)' => Undisturbed(t) /\ t # Newest
      BY <1>1, <1>6, DisturbedStays, Zenon DEF Undisturbed
    <3>4. job'[t] = "freeing" /\ jobCanceled'[t] = FALSE /\ failed'[t] = FALSE
          => job[t] = "freeing" /\ jobCanceled[t] = FALSE /\ failed[t] = FALSE
      BY <1>1, <1>6, Zenon
    <3>5. t # Newest => turns'[t].outcome = turns[t].outcome
      BY <1>5, <3>1, Zenon
    <3> QED BY <2>3, <2>4, <3>2, <3>3, <3>4, <3>5, SlotStays, Zenon
  <2>5. CASE ~(t <= Newest)
    BY <1>4, <2>3, <2>5, Zenon DEF SlotInv
  <2> QED BY <2>4, <2>5
<1>8. ScreenInv'
  <2>1. Newest \in 1..Newest
    BY <1>2, <1>3
  <2>2. platform = "ios" => turns'[Newest].outcome # "Streaming"
    BY <1>5, <2>1, Zenon
  <2> QED BY <1>1, <1>4, <2>2, Zenon DEF ScreenInv
<1> QED BY <1>7, <1>8, Zenon DEF ViewInv

\* Nor does a step disturb the screen that neither ends the last job nor takes
\* away the last outcome.
LEMMA ScreenKept ==
    ASSUME ViewInv, UNCHANGED <<running, platform, jobCanceled>>, Newest' = Newest,
           Newest > 0 => /\ job'[Newest] = "ended" => job[Newest] = "ended"
                         /\ turns'[Newest].outcome = "Streaming" => turns[Newest].outcome = "Streaming"
    PROVE  ScreenInv'
  BY Zenon DEF ViewInv, ScreenInv

\* The engine's turn goes on: the job has not received what is added, and a turn
\* that is completed does not go on.
LEMMA AgentKeeps ==
    ASSUME TurnInv, ViewInv, NEW t \in Turns, AgentStep(t), UNCHANGED viewVars
    PROVE  ViewInv'
<1>0. /\ UNCHANGED <<platform, turns, running, job, jobCanceled, failed, taken>> /\ Newest' = Newest
      /\ AgentTypeOK /\ Worded(t) /\ taken[t] \in Nat
  BY Zenon DEF viewVars, Newest, TurnInv, TypeOK
<1>1. ASSUME NEW u \in Turns, u # t PROVE JobInv(u)' /\ SlotInv(u)'
  <2>1. Apart(u)
    BY <1>0, <1>1, AgentFacts, Zenon DEF Apart
  <2> QED BY <1>0, <2>1, OtherKept, Zenon
<1>2. JobInv(t)'
  BY <1>0, Zenon DEF ViewInv, JobInv
<1>3. ASSUME t <= Newest PROVE SlotInv(t)'
  <2>0. ShowsPrefix(t) /\ ShowsReceived(t) /\ FreedWithOutcome(t) /\ ClaimHolds(t) /\ ErrorIsSent(t)
    BY <1>3, Zenon DEF ViewInv, SlotInv
  <2>1. phase[t] # "completed"
    BY <1>0, AgentFacts, Zenon DEF Decides, Streams, Finishes, Completes
  <2>2. PICK n \in Nat : n = Len(sent[t])
    BY <1>0, TurnAnswer
  <2>3. TextLen(t) = n
    BY <2>1, <2>2, Zenon DEF TextLen
  <2>4. PICK m \in Nat : m = Len(turns[t].answer)
    <3>1. t \in 1..Len(turns)
      BY <1>3 DEF TurnInv, TypeOK, Newest, Turns
    <3>2. turns[t] \in Slot
      BY <3>1 DEF TurnInv, TypeOK
    <3>3. turns[t].answer \in Seq(Text)
      BY <3>2, Zenon DEF Slot
    <3> QED BY <3>3
  <2>5. m <= n /\ \A i \in 1..m : i \in 1..n /\ turns[t].answer[i] = sent[t][i]
    BY <2>0, <2>3, <2>4 DEF ShowsPrefix
  <2>6. \/ /\ sent'[t] = sent[t] /\ phase'[t] # "completed"
        \/ /\ Len(sent'[t]) = n + 1 /\ \A i \in 1..n : sent'[t][i] = sent[t][i]
    <3>1. sent[t] \in Seq(Fragments) /\ "text" \in Fragments /\ "agent error" \in Fragments /\ StopReason \subseteq Fragments
      BY <1>0, TurnAnswer DEF Fragments, Text
    <3>2. ASSUME NEW f \in Fragments, sent'[t] = Append(sent[t], f)
          PROVE  Len(sent'[t]) = n + 1 /\ \A i \in 1..n : sent'[t][i] = sent[t][i]
      <4>1. PICK longer : longer = Append(sent[t], f)
        OBVIOUS
      <4>2. Len(longer) = n + 1 /\ \A i \in 1..n : longer[i] = sent[t][i]
        BY <2>2, <3>1, <4>1, AppendFragment, Zenon
      <4> QED BY <3>2, <4>1, <4>2
    <3>3. CASE Decides(t)
      BY <3>3, Zenon DEF Decides
    <3>4. CASE Streams(t)
      BY <3>1, <3>2, <3>4, Zenon DEF Streams
    <3>5. CASE Finishes(t)
      BY <3>1, <3>2, <3>5, Zenon DEF Finishes
    <3>6. CASE Completes(t)
      <4>1. PICK status \in StopReason : sent'[t] = Append(sent[t], status)
        BY <3>6, Zenon DEF Completes
      <4>2. status \in Fragments
        BY <3>1
      <4> QED BY <3>2, <4>1, <4>2, Zenon
    <3> QED BY <1>0, <3>3, <3>4, <3>5, <3>6, AgentFacts, Zenon
  <2>7. PICK l \in {n, n + 1} : l = Len(sent'[t]) /\ (l = n => phase'[t] # "completed")
    BY <2>2, <2>6
  <2>8. TextLen(t)' = n \/ TextLen(t)' = n + 1
    BY <2>7 DEF TextLen
  <2>9. \A i \in 1..n : sent'[t][i] = sent[t][i]
    BY <2>6, Zenon
  <2>10. ShowsPrefix(t)'
    <3>1. m <= TextLen(t)'
      BY <2>5, <2>8
    <3> QED BY <1>0, <2>4, <2>5, <2>9, <3>1, Zenon DEF ShowsPrefix
  <2>11. job[t] \in Live => taken[t] = m /\ turns[t].outcome \in {"Streaming", "Error"} /\ taken[t] <= n
    BY <2>0, <2>1, <2>2, <2>4, Zenon DEF ShowsReceived, StatusTaken
  <2>12. job[t] \in Live => taken[t] <= l /\ ~StatusTaken(t)'
    <3>1. job[t] \in Live => taken[t] <= l /\ (taken[t] = l => l = n)
      BY <1>0, <2>7, <2>11
    <3>2. job[t] \in Live /\ taken[t] = Len(sent'[t]) => phase'[t] # "completed"
      BY <2>7, <3>1, Zenon
    <3> QED BY <1>0, <3>1, <3>2, Zenon DEF StatusTaken
  <2>13. "collecting" \in Live
    BY DEF Live
  <2>14. ShowsReceived(t)'
    BY <1>0, <2>4, <2>7, <2>11, <2>12, <2>13, Zenon DEF ShowsReceived
  <2>15. FreedWithOutcome(t)'
    BY <1>0, <2>0, Zenon DEF FreedWithOutcome
  <2>16. ClaimHolds(t)'
    BY <1>0, <2>0, <2>1, Zenon DEF ClaimHolds
  <2>17. ErrorIsSent(t)'
    <3>1. Undisturbed(t)' => Undisturbed(t)
      BY <1>0, DisturbedStays, Zenon
    <3> QED BY <1>0, <2>0, <2>1, <3>1, Zenon DEF ErrorIsSent
  <2> QED BY <2>10, <2>14, <2>15, <2>16, <2>17, Zenon DEF SlotInv
<1>4. SlotInv(t)'
  BY <1>0, <1>3, Zenon DEF SlotInv
<1>5. ScreenInv'
  BY <1>0, ScreenKept, Zenon
<1> QED BY <1>1, <1>2, <1>4, <1>5, Zenon DEF ViewInv

\* A job that starts, or ends without having written to its slot.
LEMMA MoveKeeps ==
    ASSUME TurnInv, ViewInv, NEW t \in Turns, job[t] \notin {"none", "ended"},
           UNCHANGED <<turns, running, platform, jobCanceled, taken, sent>>,
           \A u \in Turns \ {t} : job'[u] = job[u] /\ failed'[u] = failed[u] /\ phase'[u] = phase[u],
           (phase'[t] = "completed") <=> (phase[t] = "completed"),
           failed[t] = TRUE => failed'[t] = TRUE,
           job'[t] \in {"collecting", "closed", "freeing"},
           job'[t] = "collecting" => job[t] \in Live /\ ~StatusTaken(t),
           job'[t] = "closed" => jobCanceled[t] = TRUE \/ failed'[t] = TRUE,
           job'[t] = "freeing" => jobCanceled[t] = TRUE \/ failed'[t] = TRUE \/ turns[t].outcome # "Streaming"
    PROVE  ViewInv'
<1>1. Newest' = Newest
  BY Zenon DEF Newest
<1>2. ASSUME NEW u \in Turns, u # t PROVE JobInv(u)' /\ SlotInv(u)'
  <2>1. Apart(u)
    BY <1>2, Zenon DEF Apart
  <2> QED BY <1>1, <2>1, OtherKept, Zenon
<1>3. JobInv(t)'
  BY <1>1, Zenon DEF ViewInv, JobInv
<1>4. t <= Newest
  BY JobHasSlot, Zenon
<1>5. SlotInv(t)'
  <2>1. Keeps(t)
    BY Zenon DEF Keeps, Live
  <2>2. Undisturbed(t)' => Undisturbed(t)
    BY DisturbedStays, Zenon
  <2>3. \/ job'[t] # "freeing" \/ jobCanceled'[t] # FALSE \/ failed'[t] # FALSE
        \/ turns'[t].outcome # "Streaming"
    BY Zenon
  <2> QED BY <1>4, <2>1, <2>2, <2>3, SlotStays, Zenon
<1>6. ScreenInv'
  <2>1. job'[Newest] = "ended" => job[Newest] = "ended"
    <3>1. Newest \in Turns
      BY JobHasSlot, Zenon
    <3> QED BY <3>1, Zenon
  <2> QED BY <1>1, <2>1, ScreenKept, Zenon
<1> QED BY <1>2, <1>3, <1>5, <1>6, Zenon DEF ViewInv

\* The agent service: the start of a session, and the end of its stream.
LEMMA ServiceKeeps ==
    ASSUME TurnInv, ViewInv, NEW t \in Turns,
           StartSession(t) \/ StartFails(t) \/ StartSkipped(t) \/ BufferOverflows(t) \/ StreamEnds(t)
    PROVE  ViewInv'
<1>0. /\ phase \in [Turns -> {"none", "deciding", "answering", "finished", "completed", "canceled"}]
      /\ job \in [Turns -> JobStates] /\ failed \in [Turns -> BOOLEAN]
      /\ jobCanceled[t] \in BOOLEAN /\ failed[t] \in BOOLEAN
  BY Zenon DEF TurnInv, TypeOK, AgentTypeOK, JobStates
<1>1. jobCanceled[t] => jobCanceled[t] = TRUE
  BY <1>0, Zenon
<1>2. /\ UNCHANGED <<turns, running, platform, jobCanceled, taken, sent>>
      /\ job[t] \in {"starting", "collecting", "draining"}
  BY Zenon DEF StartSession, StartFails, StartSkipped, BufferOverflows, StreamEnds, agentVars
<1>3. ASSUME NEW state \in JobStates, job' = [job EXCEPT ![t] = state]
      PROVE  job'[t] = state /\ \A u \in Turns \ {t} : job'[u] = job[u]
  BY <1>0, <1>3, Zenon
<1>4. job[t] \notin {"none", "ended"} /\ {"collecting", "closed", "freeing"} \subseteq JobStates /\ "starting" \in Live
  BY <1>2 DEF JobStates, Live
<1>5. CASE StartSession(t)
  <2>1. /\ phase[t] = "none" /\ phase' = [phase EXCEPT ![t] = "deciding"]
        /\ job[t] = "starting" /\ failed' = failed
    BY <1>5, Zenon DEF StartSession, TurnInv, Started
  <2>2. \/ ~jobCanceled[t] /\ job' = [job EXCEPT ![t] = "collecting"]
        \/ jobCanceled[t] /\ job' = [job EXCEPT ![t] = "closed"]
        \/ jobCanceled[t] /\ job' = [job EXCEPT ![t] = "freeing"]
    BY <1>5, Zenon DEF StartSession, Close
  <2>3. phase'[t] = "deciding" /\ \A u \in Turns \ {t} : phase'[u] = phase[u]
    BY <1>0, <2>1, Zenon
  <2>4. job'[t] \in {"collecting", "closed", "freeing"} /\ (job'[t] \in {"closed", "freeing"} => jobCanceled[t])
        /\ \A u \in Turns \ {t} : job'[u] = job[u]
    BY <1>3, <1>4, <2>2, Zenon
  <2>5. ~StatusTaken(t)
    BY <2>1, Zenon DEF StatusTaken
  <2> QED BY <1>1, <1>2, <1>4, <2>1, <2>3, <2>4, <2>5, MoveKeeps, Zenon
<1>6. CASE StartFails(t) \/ StartSkipped(t)
  <2>1. phase' = phase /\ job' = [job EXCEPT ![t] = "closed"]
    BY <1>6, Zenon DEF StartFails, StartSkipped, agentVars
  <2>2. job'[t] = "closed" /\ \A u \in Turns \ {t} : job'[u] = job[u]
    BY <1>3, <1>4, <2>1, Zenon
  <2>3. /\ failed[t] = TRUE => failed'[t] = TRUE
        /\ \A u \in Turns \ {t} : failed'[u] = failed[u]
        /\ jobCanceled[t] = TRUE \/ failed'[t] = TRUE
    BY <1>0, <1>1, <1>6, Zenon DEF StartFails, StartSkipped
  <2> QED BY <1>2, <1>4, <2>1, <2>2, <2>3, MoveKeeps, Zenon
<1>7. CASE BufferOverflows(t) \/ StreamEnds(t)
  <2>1. phase' = phase /\ job' = [job EXCEPT ![t] = "freeing"]
    BY <1>7, Zenon DEF BufferOverflows, StreamEnds, Close
  <2>2. job'[t] = "freeing" /\ \A u \in Turns \ {t} : job'[u] = job[u]
    BY <1>3, <1>4, <2>1, Zenon
  <2>3. failed[t] = TRUE => failed'[t] = TRUE
    BY <1>0, <1>7, Zenon DEF BufferOverflows, StreamEnds
  <2>4. \A u \in Turns \ {t} : failed'[u] = failed[u]
    BY <1>0, <1>7, Zenon DEF BufferOverflows, StreamEnds
  <2>5. jobCanceled[t] = TRUE \/ failed'[t] = TRUE \/ turns[t].outcome # "Streaming"
    <3>1. CASE BufferOverflows(t)
      BY <1>0, <3>1, Zenon DEF BufferOverflows
    <3>2. CASE job[t] = "collecting" /\ phase[t] = "completed" /\ taken[t] = Len(sent[t])
      <4>1. t <= Newest
        BY <1>4, JobHasSlot, Zenon
      <4> QED BY <3>2, <4>1, Zenon DEF ViewInv, SlotInv, ShowsReceived, StatusTaken
    <3> QED BY <1>1, <1>7, <3>1, <3>2, Zenon DEF StreamEnds
  <2> QED BY <1>2, <1>4, <2>1, <2>2, <2>3, <2>4, <2>5, MoveKeeps, Zenon
<1> QED BY <1>5, <1>6, <1>7

\* A fragment is received by the job of the last turn, into its own slot.
LEMMA ReceiveKeeps ==
    ASSUME TurnInv, ViewInv, NEW t \in Turns, Receive(t)
    PROVE  ViewInv'
<1>0. /\ UNCHANGED <<phase, sent, platform, running, jobCanceled, failed>>
      /\ job[t] = "collecting" /\ ~jobCanceled[t] /\ taken[t] < Len(sent[t])
      /\ taken' = [taken EXCEPT ![t] = @ + 1]
  BY Zenon DEF Receive, agentVars
<1>1. t = Newest /\ jobCanceled[t] = FALSE
  BY <1>0, WriterIsLast, Zenon
<1>2. taken'[t] = taken[t] + 1 /\ taken[t] \in Nat /\ \A u \in Turns \ {t} : taken'[u] = taken[u]
  BY <1>0 DEF TurnInv, TypeOK
<1>3. /\ turns \in Seq(Slot) /\ job \in [Turns -> JobStates] /\ Newest > 0 /\ t \in 1..Newest /\ t <= Newest
      /\ \A u \in Turns : u <= Newest => u \in 1..Newest
  <2>1. turns \in Seq(Slot) /\ job \in [Turns -> JobStates]
    BY Zenon DEF TurnInv, TypeOK, JobStates
  <2> QED BY <1>1, <2>1 DEF Turns, Newest
<1>4. ShowsPrefix(t) /\ ShowsReceived(t) /\ FreedWithOutcome(t) /\ ClaimHolds(t) /\ ErrorIsSent(t)
  BY <1>3, Zenon DEF ViewInv, SlotInv
<1>5. Len(sent[t]) \in Nat
  BY TurnAnswer DEF TurnInv, TypeOK
<1>6. ~StatusTaken(t) /\ "collecting" \in Live /\ "draining" \in Live
  BY <1>0, <1>2, <1>5 DEF StatusTaken, Live
<1>7. Len(turns[t].answer) = taken[t] /\ turns[t].outcome \in {"Streaming", "Error"}
  BY <1>0, <1>4, <1>6, Zenon DEF ShowsReceived
<1>8. ASSUME NEW u \in Turns, u # t, job'[u] = job[u], Newest' = Newest,
             u <= Newest => turns'[u].answer = turns[u].answer /\ turns'[u].outcome = turns[u].outcome
      PROVE  JobInv(u)' /\ SlotInv(u)'
  <2>1. Apart(u)
    BY <1>0, <1>2, <1>8, Zenon DEF Apart
  <2> QED BY <1>0, <1>8, <2>1, OtherKept, Zenon
<1>9. CASE Fragment(t) \in Text /\ turns' = [turns EXCEPT ![Newest].answer = Append(@, Fragment(t))] /\ job' = job
  <2>1. PICK f \in Text : f = sent[t][taken[t] + 1] /\ f = Fragment(t)
    BY <1>9, Zenon DEF Fragment
  <2>2. /\ Len(turns') = Newest
        /\ \A i \in 1..Newest :
              /\ turns'[i].answer = IF i = Newest THEN Append(turns[i].answer, f) ELSE turns[i].answer
              /\ turns'[i].outcome = turns[i].outcome
    BY <1>3, <1>9, <2>1, AnswerGrows, Zenon
  <2>3. Newest' = Newest
    BY <2>2, Zenon DEF Newest
  <2>4. turns'[t].answer = Append(turns[t].answer, f) /\ turns'[t].outcome = turns[t].outcome
    BY <1>1, <1>3, <2>2, Zenon
  <2>5. turns[t].answer \in Seq(Text)
    <3>1. turns[t] \in Slot
      BY <1>3 DEF Newest
    <3> QED BY <3>1, Zenon DEF Slot
  <2>6. /\ Len(turns'[t].answer) = taken[t] + 1 /\ turns'[t].answer[taken[t] + 1] = f
        /\ \A i \in 1..taken[t] : turns'[t].answer[i] = turns[t].answer[i]
    BY <1>7, <2>4, <2>5
  <2>7. /\ TextLen(t) \in Nat /\ taken[t] + 1 <= TextLen(t)
        /\ phase[t] = "completed" => taken[t] + 1 < Len(sent[t])
    BY <1>0, <1>9, TextFragment, Zenon
  <2>8. TextLen(t)' = TextLen(t)
    BY <1>0, Zenon DEF TextLen
  <2>9. \A i \in 1..taken[t] + 1 : i \in 1..taken[t] \/ i = taken[t] + 1
    BY <1>2
  <2>10. \A i \in 1..taken[t] + 1 : turns'[t].answer[i] = sent[t][i]
    BY <1>4, <1>7, <2>1, <2>6, <2>9, Zenon DEF ShowsPrefix
  <2>11. ShowsPrefix(t)'
    BY <1>0, <2>6, <2>7, <2>8, <2>10, Zenon DEF ShowsPrefix
  <2>12. ~StatusTaken(t)' /\ taken[t] + 1 <= Len(sent[t])
    <3>1. phase[t] = "completed" => taken[t] + 1 # Len(sent[t])
      BY <1>2, <1>5, <2>7
    <3>2. taken[t] + 1 <= Len(sent[t])
      BY <1>0, <1>2, <1>5
    <3> QED BY <1>0, <1>2, <3>1, <3>2, Zenon DEF StatusTaken
  <2>13. ShowsReceived(t)'
    BY <1>0, <1>2, <1>7, <2>4, <2>6, <2>12, Zenon DEF ShowsReceived
  <2>14. FreedWithOutcome(t)' /\ ClaimHolds(t)'
    BY <1>0, <1>7, <1>9, <2>4, Zenon DEF FreedWithOutcome, ClaimHolds
  <2>15. ErrorIsSent(t)'
    BY <1>0, <1>4, <2>4, Zenon DEF ErrorIsSent, Undisturbed
  <2>16. JobInv(t)'
    BY <1>0, <1>9, <2>3, Zenon DEF ViewInv, JobInv
  <2>17. ScreenInv'
    BY <1>0, <1>1, <1>9, <2>3, <2>4, ScreenKept, Zenon
  <2>18. ASSUME NEW u \in Turns, u # t PROVE JobInv(u)' /\ SlotInv(u)'
    BY <1>1, <1>3, <1>8, <1>9, <2>2, <2>3, <2>18, Zenon
  <2> QED BY <2>11, <2>13, <2>14, <2>15, <2>16, <2>17, <2>18, Zenon DEF ViewInv, SlotInv
<1>10. CASE Fragment(t) \in StopReason /\ job' = [job EXCEPT ![t] = "draining"] /\ turns' = turns
  <2>1. phase[t] = "completed" /\ taken[t] + 1 = Len(sent[t])
    BY <1>0, <1>10, StatusIsLast, Zenon
  <2>2. job'[t] = "draining" /\ \A u \in Turns \ {t} : job'[u] = job[u]
    BY <1>3, <1>10, Zenon
  <2>3. Newest' = Newest
    BY <1>10, Zenon DEF Newest
  <2>4. StatusTaken(t)'
    BY <1>0, <1>2, <2>1, Zenon DEF StatusTaken
  <2>5. TextLen(t)' = taken[t]
    <3>1. Len(sent[t]) - 1 = taken[t]
      BY <1>2, <1>5, <2>1
    <3> QED BY <1>0, <2>1, <3>1, Zenon DEF TextLen
  <2>6. TextLen(t)' = TextLen(t)
    BY <1>0, Zenon DEF TextLen
  <2>7. taken'[t] <= Len(sent'[t])
    BY <1>0, <1>2, <1>5, <2>1
  <2>8. ShowsPrefix(t)'
    BY <1>0, <1>4, <1>10, <2>6, Zenon DEF ShowsPrefix
  <2>9. ShowsReceived(t)'
    BY <1>7, <1>10, <2>2, <2>4, <2>5, <2>7, Zenon DEF ShowsReceived
  <2>10. FreedWithOutcome(t)' /\ ClaimHolds(t)'
    BY <1>7, <1>10, <2>2, Zenon DEF FreedWithOutcome, ClaimHolds
  <2>11. ErrorIsSent(t)'
    BY <1>0, <1>4, <1>10, Zenon DEF ErrorIsSent, Undisturbed
  <2>12. JobInv(t)'
    BY <1>0, <1>1, <2>2, <2>3, <1>3, Zenon DEF ViewInv, JobInv
  <2>13. ScreenInv'
    BY <1>0, <1>1, <1>10, <2>2, <2>3, ScreenKept, Zenon
  <2>14. ASSUME NEW u \in Turns, u # t PROVE JobInv(u)' /\ SlotInv(u)'
    BY <1>8, <1>10, <2>2, <2>3, <2>14, Zenon
  <2> QED BY <2>8, <2>9, <2>10, <2>11, <2>12, <2>13, <2>14, Zenon DEF ViewInv, SlotInv
<1> QED BY <1>9, <1>10, Zenon DEF Receive

\* applyStatus writes the outcome of the job's own turn.
LEMMA StatusKeeps ==
    ASSUME TurnInv, ViewInv, NEW t \in Turns, ApplyStatus(t)
    PROVE  ViewInv'
<1>0. /\ UNCHANGED <<phase, sent, platform, running, jobCanceled, failed, taken>>
      /\ job[t] = "draining" /\ ~jobCanceled[t]
      /\ job' = [job EXCEPT ![t] = "collecting"] /\ turns' = WithOutcome(sent[t][taken[t]])
  BY Zenon DEF ApplyStatus, agentVars
<1>1. t = Newest /\ jobCanceled[t] = FALSE
  BY <1>0, WriterIsLast, Zenon
<1>2. /\ turns \in Seq(Slot) /\ job \in [Turns -> JobStates] /\ Newest > 0 /\ t \in 1..Newest /\ t <= Newest
      /\ \A u \in Turns : u <= Newest => u \in 1..Newest
  <2>1. turns \in Seq(Slot) /\ job \in [Turns -> JobStates]
    BY Zenon DEF TurnInv, TypeOK, JobStates
  <2> QED BY <1>1, <2>1 DEF Turns, Newest
<1>3. ShowsPrefix(t) /\ ShowsReceived(t) /\ FreedWithOutcome(t) /\ ClaimHolds(t) /\ ErrorIsSent(t)
  BY <1>2, Zenon DEF ViewInv, SlotInv
<1>4. StatusTaken(t) /\ phase[t] = "completed"
  BY <1>0, Zenon DEF TurnInv, Drains, StatusTaken
<1>5. PICK o \in StopReason : o = sent[t][taken[t]] /\ o = sent[t][Len(sent[t])]
  BY <1>4, Zenon DEF TurnInv, Worded, StatusTaken
<1>6. o # "Streaming" /\ o \in StopReason \cup {"Streaming"} /\ "draining" \in Live
  BY <1>5 DEF StopReason, Live
<1>7. /\ Len(turns') = Newest
      /\ \A i \in 1..Newest :
            /\ turns'[i].answer = turns[i].answer
            /\ turns'[i].outcome = IF i = Newest THEN o ELSE turns[i].outcome
  BY <1>0, <1>2, <1>5, <1>6, OutcomeFacts, Zenon
<1>8. Newest' = Newest
  BY <1>7, Zenon DEF Newest
<1>9. turns'[t].answer = turns[t].answer /\ turns'[t].outcome = o
  BY <1>1, <1>2, <1>7, Zenon
<1>10. job'[t] = "collecting" /\ \A u \in Turns \ {t} : job'[u] = job[u]
  BY <1>0, <1>2, Zenon
<1>11. TextLen(t)' = TextLen(t) /\ StatusTaken(t)'
  BY <1>0, <1>4, Zenon DEF TextLen, StatusTaken
<1>12. ShowsPrefix(t)'
  BY <1>0, <1>3, <1>9, <1>11, Zenon DEF ShowsPrefix
<1>13. Len(turns[t].answer) = TextLen(t)
  BY <1>0, <1>3, <1>4, <1>6, Zenon DEF ShowsReceived
<1>14. ShowsReceived(t)'
  <2>1. taken'[t] <= Len(sent'[t])
    BY <1>0, <1>3, <1>6, Zenon DEF ShowsReceived
  <2> QED BY <1>6, <1>9, <1>11, <1>13, <2>1, Zenon DEF ShowsReceived
<1>15. FreedWithOutcome(t)' /\ ClaimHolds(t)' /\ ErrorIsSent(t)'
  BY <1>0, <1>4, <1>5, <1>6, <1>9, <1>11, <1>13, Zenon DEF FreedWithOutcome, ClaimHolds, ErrorIsSent
<1>16. JobInv(t)'
  BY <1>0, <1>1, <1>8, <1>10, Zenon DEF ViewInv, JobInv
<1>17. ScreenInv'
  BY <1>0, <1>1, <1>6, <1>8, <1>9, <1>10, ScreenKept, Zenon
<1>18. ASSUME NEW u \in Turns, u # t PROVE JobInv(u)' /\ SlotInv(u)'
  <2>1. Apart(u)
    BY <1>0, <1>10, <1>18, Zenon DEF Apart
  <2>2. u <= Newest => turns'[u].answer = turns[u].answer /\ turns'[u].outcome = turns[u].outcome
    BY <1>1, <1>2, <1>7, <1>18, Zenon
  <2> QED BY <1>0, <1>8, <2>1, <2>2, OtherKept, Zenon
<1> QED BY <1>12, <1>14, <1>15, <1>16, <1>17, <1>18, Zenon DEF ViewInv, SlotInv

\* A job that ends marks the last slot only when that is its own, or on Android
\* when it was cancelled, which disturbs every later turn.
LEMMA EpilogueWrites ==
    ASSUME TurnInv, ViewInv, NEW t \in Turns, Epilogue(t)
    PROVE  /\ Newest' = Newest /\ Newest \in Turns /\ Newest \in 1..Newest
           /\ \A i \in 1..Newest :
                 /\ turns'[i].answer = turns[i].answer
                 /\ i # Newest => turns'[i].outcome = turns[i].outcome
           /\ \/ turns'[Newest].outcome = turns[Newest].outcome
              \/ /\ turns'[Newest].outcome = "Error"
                 /\ \/ t = Newest /\ (jobCanceled[t] = TRUE \/ failed[t] = TRUE)
                    \/ t < Newest /\ jobCanceled[t] = TRUE /\ platform = "android"
           /\ \/ running' = running /\ (running = TRUE => t # Newest) /\ turns' = turns
              \/ running' = FALSE /\ (platform = "ios" => turns'[Newest].outcome # "Streaming")
<1>0. job[t] \in {"closed", "freeing"} /\ job[t] \notin {"none", "ended"}
  BY Zenon DEF Epilogue, Closed
<1>1. t <= Newest /\ Newest > 0 /\ Newest \in Turns
  BY <1>0, JobHasSlot, Zenon
<1>2. turns \in Seq(Slot) /\ Newest \in 1..Newest /\ platform \in {"android", "ios"} /\ Newest = Len(turns)
  <2>1. turns \in Seq(Slot) /\ platform \in {"android", "ios"} /\ Newest = Len(turns)
    BY Zenon DEF TurnInv, TypeOK, Newest
  <2> QED BY <1>1, <2>1
<1>3. /\ jobCanceled[t] = TRUE \/ jobCanceled[t] = FALSE
      /\ failed[t] = TRUE \/ failed[t] = FALSE
  BY Flags, Zenon
<1>4. t < Newest \/ t = Newest
  BY <1>1 DEF Turns
<1>5. t < Newest => jobCanceled[t] = TRUE
  BY <1>0, Zenon DEF ViewInv, JobInv
<1>6. CASE platform = "ios" /\ jobCanceled[t] = TRUE
  <2>1. UNCHANGED <<turns, running>>
    BY <1>6, Zenon DEF Epilogue
  <2>2. running = TRUE => t # Newest
    BY <1>6, Zenon DEF ViewInv, ScreenInv
  <2> QED BY <1>1, <1>2, <2>1, <2>2, Zenon DEF Newest
<1>7. CASE ~(platform = "ios" /\ jobCanceled[t] = TRUE) /\ (jobCanceled[t] = TRUE \/ failed[t] = TRUE)
  <2>1. turns' = WithOutcome("Error") /\ running' = FALSE
    BY <1>3, <1>7, Zenon DEF Epilogue
  <2>2. "Error" \in StopReason \cup {"Streaming"}
    BY DEF StopReason
  <2>3. /\ Len(turns') = Newest
        /\ \A i \in 1..Newest :
              /\ turns'[i].answer = turns[i].answer
              /\ turns'[i].outcome = IF i = Newest THEN "Error" ELSE turns[i].outcome
    BY <1>1, <1>2, <2>1, <2>2, OutcomeFacts, Zenon
  <2>4. turns'[Newest].outcome = "Error" /\ "Error" # "Streaming"
    BY <1>2, <2>3
  <2>5. t < Newest => platform = "android"
    BY <1>2, <1>5, <1>7, Zenon
  <2>6. Newest' = Newest
    BY <2>3, Zenon DEF Newest
  <2> QED BY <1>1, <1>2, <1>4, <1>5, <1>7, <2>1, <2>3, <2>4, <2>5, <2>6, Zenon
<1>8. CASE jobCanceled[t] = FALSE /\ failed[t] = FALSE
  <2>1. turns' = Resolved /\ running' = FALSE
    BY <1>8, Zenon DEF Epilogue
  <2>2. t = Newest
    BY <1>4, <1>5, <1>8, Zenon
  <2>3. job[t] = "freeing"
    BY <1>0, <1>8, Zenon DEF ViewInv, JobInv
  <2>4. turns[Newest].outcome # "Streaming"
    BY <1>1, <1>8, <2>2, <2>3, Zenon DEF ViewInv, SlotInv, FreedWithOutcome
  <2>5. turns' = turns
    BY <2>1, <2>4, Zenon DEF Resolved
  <2> QED BY <1>1, <1>2, <2>1, <2>4, <2>5, Zenon DEF Newest
<1> QED BY <1>3, <1>6, <1>7, <1>8, Zenon

\* The end of a job keeps the facts about all slots, those of later turns included.
LEMMA EpilogueKeeps ==
    ASSUME TurnInv, ViewInv, NEW t \in Turns, Epilogue(t)
    PROVE  ViewInv'
<1>0. /\ UNCHANGED <<phase, sent, platform, jobCanceled, failed>>
      /\ job[t] \in {"closed", "freeing"} /\ job[t] # "none"
      /\ job' = [job EXCEPT ![t] = "ended"] /\ taken' = [taken EXCEPT ![t] = 0]
  BY Zenon DEF Epilogue, Closed, agentVars
<1>1. /\ job'[t] = "ended" /\ \A u \in Turns \ {t} : job'[u] = job[u] /\ taken'[u] = taken[u]
  BY <1>0, Zenon DEF TurnInv, TypeOK
<1>2. /\ Newest' = Newest /\ Newest \in Turns /\ Newest \in 1..Newest
      /\ \A i \in 1..Newest :
            /\ turns'[i].answer = turns[i].answer
            /\ i # Newest => turns'[i].outcome = turns[i].outcome
      /\ \/ turns'[Newest].outcome = turns[Newest].outcome
         \/ /\ turns'[Newest].outcome = "Error"
            /\ \/ t = Newest /\ (jobCanceled[t] = TRUE \/ failed[t] = TRUE)
               \/ t < Newest /\ jobCanceled[t] = TRUE /\ platform = "android"
      /\ \/ running' = running /\ (running = TRUE => t # Newest) /\ turns' = turns
         \/ running' = FALSE /\ (platform = "ios" => turns'[Newest].outcome # "Streaming")
  BY EpilogueWrites, Zenon
<1>3. \A u \in Turns : u <= Newest => u \in 1..Newest
  BY <1>2 DEF Turns
<1>4. t < Newest => t \in 1..Newest - 1
  BY <1>2 DEF Turns
<1>5. ASSUME NEW u \in Turns PROVE JobInv(u)' /\ SlotInv(u)'
  <2>1. JobInv(u)'
    <3>1. CASE u = t
      BY <1>1, <3>1, Zenon DEF JobInv
    <3>2. CASE u # t
      <4>1. JobInv(u) /\ Newest' = Newest
        BY <1>2, Zenon DEF ViewInv
      <4>2. job'[u] = job[u] /\ taken'[u] = taken[u]
        BY <1>1, <3>2, Zenon
      <4>3. jobCanceled'[u] = jobCanceled[u] /\ failed'[u] = failed[u]
        BY <1>0, Zenon
      <4> QED BY <4>1, <4>2, <4>3, Zenon DEF JobInv
    <3> QED BY <3>1, <3>2, Zenon
  <2>2. CASE u <= Newest
    <3>1. u \in 1..Newest
      BY <1>3, <2>2
    <3>2. /\ turns'[u].answer = turns[u].answer
          /\ turns'[u].outcome = turns[u].outcome \/ turns'[u].outcome = "Error"
      BY <1>2, <3>1, Zenon
    <3>3. job'[u] = "ended" \/ (job'[u] = job[u] /\ taken'[u] = taken[u])
      BY <1>1, Zenon
    <3>4. "ended" \notin Live
      BY DEF Live
    <3>5. Keeps(u)
      BY <1>0, <3>2, <3>3, <3>4, Zenon DEF Keeps
    <3>6. Undisturbed(u)' => Undisturbed(u)
      BY <1>0, DisturbedStays, Zenon
    <3>7. turns'[u].outcome = turns[u].outcome \/ ~Undisturbed(u)'
      <4>1. CASE u # Newest
        BY <1>2, <3>1, <4>1, Zenon
      <4>2. CASE u = Newest
        BY <1>0, <1>2, <1>4, <4>2, Zenon DEF Undisturbed
      <4> QED BY <4>1, <4>2
    <3>8. job'[u] = "freeing" /\ jobCanceled'[u] = FALSE /\ failed'[u] = FALSE
          => job[u] = "freeing" /\ jobCanceled[u] = FALSE /\ failed[u] = FALSE
      BY <1>0, <3>3, Zenon
    <3> QED BY <2>1, <2>2, <3>5, <3>6, <3>7, <3>8, SlotStays, Zenon
  <2>3. CASE ~(u <= Newest)
    BY <1>2, <2>1, <2>3, Zenon DEF SlotInv
  <2> QED BY <2>2, <2>3
<1>6. ScreenInv'
  <2>1. CASE running' = running /\ (running = TRUE => t # Newest) /\ turns' = turns
    <3>1. running = TRUE => job'[Newest] = job[Newest]
      BY <1>1, <1>2, <2>1, Zenon
    <3>2. /\ running = TRUE => Newest > 0 /\ job[Newest] # "ended" /\ jobCanceled[Newest] = FALSE
          /\ platform = "ios" /\ running = FALSE /\ Newest > 0 => turns[Newest].outcome # "Streaming"
      BY Zenon DEF ViewInv, ScreenInv
    <3>3. running' = TRUE => Newest' > 0 /\ job'[Newest'] # "ended" /\ jobCanceled'[Newest'] = FALSE
      BY <1>0, <1>2, <2>1, <3>1, <3>2
    <3>4. platform' = "ios" /\ running' = FALSE /\ Newest' > 0 => turns'[Newest'].outcome # "Streaming"
      BY <1>0, <1>2, <2>1, <3>2
    <3> QED BY <3>3, <3>4, Zenon DEF ScreenInv
  <2>2. CASE running' = FALSE /\ (platform = "ios" => turns'[Newest].outcome # "Streaming")
    BY <1>0, <1>2, <2>2, Zenon DEF ScreenInv
  <2> QED BY <1>2, <2>1, <2>2, Zenon
<1> QED BY <1>5, <1>6, Zenon DEF ViewInv

\* A step of neither the screen nor the jobs nor the streams.
LEMMA ViewUnchanged ==
    ASSUME TurnInv, ViewInv,
           UNCHANGED <<platform, turns, running, job, jobCanceled, failed, taken, phase, sent>>
    PROVE  ViewInv'
<1>1. Newest' = Newest
  BY Zenon DEF Newest
<1>2. ASSUME NEW t \in Turns PROVE JobInv(t)' /\ SlotInv(t)'
  <2>1. Apart(t)
    BY Zenon DEF Apart
  <2> QED BY <1>1, <2>1, OtherKept, Zenon
<1>3. ScreenInv'
  BY <1>1, ScreenKept, Zenon
<1> QED BY <1>2, <1>3, Zenon DEF ViewInv

----------------------------------------------------------------------------
\* What the screen shows, and that it is true.

\* What is known of jobs, slots and the screen holds in every state.
LEMMA ViewInvariance == Spec => []ViewInv
<1>1. Init => ViewInv
  <2> SUFFICES ASSUME Init PROVE ViewInv
    OBVIOUS
  <2>1. /\ Newest = 0 /\ running = FALSE /\ \A t \in Turns : ~(t <= 0) /\ ~(t < 0)
        /\ \A t \in Turns : job[t] = "none" /\ taken[t] = 0 /\ failed[t] = FALSE /\ jobCanceled[t] = FALSE
    BY DEF Init, Newest, Turns
  <2>2. ~(0 > 0)
    OBVIOUS
  <2>3. ASSUME NEW t \in Turns PROVE JobInv(t) /\ SlotInv(t)
    BY <2>1, Zenon DEF JobInv, SlotInv
  <2>4. ScreenInv
    BY <2>1, <2>2, Zenon DEF ScreenInv
  <2> QED BY <2>3, <2>4, Zenon DEF ViewInv
<1>2. TurnInv /\ ViewInv /\ [Next]_vars => ViewInv'
  <2> SUFFICES ASSUME TurnInv, ViewInv, [Next]_vars PROVE ViewInv'
    OBVIOUS
  <2>1. CASE ResetConversation /\ UNCHANGED viewVars
    BY <2>1, ViewUnchanged, Zenon DEF ResetConversation, viewVars
  <2>2. CASE UNCHANGED vars
    BY <2>2, ViewUnchanged, Zenon DEF vars, agentVars, viewVars
  <2> QED BY <2>1, <2>2, AskKeeps, CancelKeeps, AgentKeeps, ServiceKeeps, ReceiveKeeps, StatusKeeps,
             EpilogueKeeps, Zenon DEF Next, JobStep
<1> QED BY <1>1, <1>2, TurnInvariance, PTL DEF Spec

\* Although every job writes to the last slot, a slot shows fragments of its own
\* turn in order, and an answer is claimed only when the engine said so of that
\* turn and all of it is there.
THEOREM SlotsShowTheirTurns == Spec => []ShowsOwnTurn
<1>1. TurnInv /\ ViewInv => ShowsOwnTurn
  <2> SUFFICES ASSUME TurnInv, ViewInv, NEW t \in 1..Newest
               PROVE  /\ Len(turns[t].answer) <= Len(Answer(sent[t]))
                      /\ turns[t].answer = SubSeq(Answer(sent[t]), 1, Len(turns[t].answer))
                      /\ turns[t].outcome \in {"Answered", "StepCapReached"} =>
                            /\ HasStatus(sent[t]) /\ turns[t].outcome = sent[t][Len(sent[t])]
                            /\ turns[t].answer = Answer(sent[t])
    BY Zenon DEF ShowsOwnTurn
  <2>1. turns \in Seq(Slot) /\ t \in Turns /\ t <= Newest /\ Newest = Len(turns)
    BY AgentAssumption DEF TurnInv, TypeOK, Newest, Turns
  <2>2. ShowsPrefix(t) /\ ClaimHolds(t) /\ Worded(t) /\ AgentTypeOK
    BY <2>1, Zenon DEF ViewInv, SlotInv, TurnInv, TypeOK
  <2>3. turns[t].answer \in Seq(Text)
    <3>1. turns[t] \in Slot
      BY <2>1
    <3> QED BY <3>1, Zenon DEF Slot
  <2>4. /\ Answer(sent[t]) \in Seq(Text) /\ Len(Answer(sent[t])) = TextLen(t) /\ TextLen(t) \in Nat
        /\ sent[t] \in Seq(Fragments)
        /\ \A i \in 1..TextLen(t) : Answer(sent[t])[i] = sent[t][i]
    BY <2>1, <2>2, TurnAnswer, Zenon
  <2>5. /\ Len(turns[t].answer) <= Len(Answer(sent[t]))
        /\ \A i \in 1..Len(turns[t].answer) : turns[t].answer[i] = Answer(sent[t])[i]
    <3>1. Len(turns[t].answer) \in Nat /\ Len(turns[t].answer) <= TextLen(t)
      BY <2>2, <2>3 DEF ShowsPrefix
    <3>2. \A i \in 1..Len(turns[t].answer) : i \in 1..TextLen(t)
      BY <2>4, <3>1
    <3> QED BY <2>2, <2>4, <3>1, <3>2, Zenon DEF ShowsPrefix
  <2>6. /\ turns[t].answer = SubSeq(Answer(sent[t]), 1, Len(turns[t].answer))
        /\ Len(turns[t].answer) = Len(Answer(sent[t])) => turns[t].answer = Answer(sent[t])
    BY <2>3, <2>4, <2>5, PrefixFacts, Zenon
  <2>7. phase[t] = "completed" => HasStatus(sent[t])
    <3>1. phase[t] = "completed" => Len(sent[t]) > 0 /\ sent[t][Len(sent[t])] \in StopReason
      BY <2>2, Zenon DEF Worded
    <3>2. Len(sent[t]) > 0 => sent[t] # <<>>
      BY <2>4
    <3> QED BY <3>1, <3>2, Zenon DEF HasStatus
  <2> QED BY <2>2, <2>4, <2>5, <2>6, <2>7, Zenon DEF ClaimHolds
<1> QED BY <1>1, TurnInvariance, ViewInvariance, PTL

\* A turn that was neither cancelled nor failed in transport, nor follows on
\* Android a turn that was cancelled, shows Error only if the engine sent it.
THEOREM ErrorsAreTheEngines == Spec => []OutcomeMatchesWire
<1>1. TurnInv /\ ViewInv => OutcomeMatchesWire
  <2> SUFFICES ASSUME TurnInv, ViewInv, NEW t \in 1..Newest, turns[t].outcome = "Error",
                      ~jobCanceled[t], ~failed[t],
                      platform = "android" => \A earlier \in 1..t - 1 : ~jobCanceled[earlier]
               PROVE  HasStatus(sent[t]) /\ sent[t][Len(sent[t])] = "Error"
    BY Zenon DEF OutcomeMatchesWire
  <2>1. t \in Turns /\ t <= Newest /\ \A earlier \in 1..t - 1 : earlier \in Turns
    BY AgentAssumption DEF TurnInv, TypeOK, Newest, Turns
  <2>2. Undisturbed(t)
    BY <2>1, Flags, Zenon DEF Undisturbed
  <2>3. phase[t] = "completed" /\ sent[t][Len(sent[t])] = "Error"
    BY <2>1, <2>2, Zenon DEF ViewInv, SlotInv, ErrorIsSent
  <2>4. sent[t] \in Seq(Fragments) /\ Len(sent[t]) > 0
    BY <2>1, <2>3, TurnAnswer DEF TurnInv, TypeOK, Worded
  <2>5. sent[t] # <<>>
    BY <2>4
  <2> QED BY <2>3, <2>5 DEF HasStatus, StopReason
<1> QED BY <1>1, TurnInvariance, ViewInvariance, PTL

=============================================================================
