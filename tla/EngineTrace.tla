---------------------------- MODULE EngineTrace ----------------------------
(***************************************************************************)
(* The span ring (EngineTrace) and the metrics aggregator (EngineMetrics)  *)
(* it feeds: any thread that ends a span counts it in the metrics and then *)
(* inserts it into the bounded ring, evicting the oldest span when the     *)
(* ring is full; a client drains the ring now and then.  Each of the two   *)
(* classes has a lock of its own, and Record takes them several times, so  *)
(* the steps of different threads interleave between the critical          *)
(* sections.  A span is represented by its rank in the order of insertion. *)
(***************************************************************************)
EXTENDS Integers, Sequences, FiniteSets

CONSTANTS
    Capacity,       \* slots of the ring (512 in the code)
    Threads,        \* threads that end spans
    MaxRecorded     \* bound on the spans of a behaviour

ASSUME CapacityAssumption == Capacity \in Nat \ {0}
ASSUME ThreadsAssumption == IsFiniteSet(Threads) /\ "free" \notin Threads
ASSUME RecordedAssumption == MaxRecorded \in Nat

VARIABLES
    Ring, start, count,                             \* the array, its oldest slot, its live slots
    droppedSinceDrain, droppedTotal, recordedTotal,
    gate,           \* the thread that holds EngineTrace.Gate across a step, or "free"
    spansRecorded, durationCount, spansDropped,     \* EngineMetrics
    pc,             \* where each thread is in Record
    drained,        \* rank of the last span handed to a client (history)
    lastDrain       \* the last payload, and the value of drained before it (history)

ringVars == <<Ring, start, count, droppedSinceDrain, droppedTotal, recordedTotal, gate>>
metricVars == <<spansRecorded, durationCount, spansDropped>>
historyVars == <<drained, lastDrain>>
vars == <<ringVars, metricVars, pc, historyVars>>

Slots == 0..Capacity - 1
Empty == 0                      \* a null slot; ranks start at 1

TypeOK ==
    /\ Ring \in [Slots -> Nat]
    /\ start \in Slots
    /\ count \in 0..Capacity
    /\ droppedSinceDrain \in Nat /\ droppedTotal \in Nat /\ recordedTotal \in Nat
    /\ gate \in Threads \cup {"free"}
    /\ spansRecorded \in Nat /\ durationCount \in Nat /\ spansDropped \in Nat
    /\ pc \in [Threads -> {"idle", "counted", "timed", "evicted"}]
    /\ drained \in Nat
    /\ lastDrain \in [after : Nat, dropped : Nat, spans : Seq(Nat)]

Init ==
    /\ Ring = [s \in Slots |-> Empty]
    /\ start = 0 /\ count = 0
    /\ droppedSinceDrain = 0 /\ droppedTotal = 0 /\ recordedTotal = 0
    /\ gate = "free"
    /\ spansRecorded = 0 /\ durationCount = 0 /\ spansDropped = 0
    /\ pc = [t \in Threads |-> "idle"]
    /\ drained = 0
    /\ lastDrain = [after |-> 0, dropped |-> 0, spans |-> <<>>]

----------------------------------------------------------------------------
\* Record, called when a span ends.

\* SpansRecorded.Add, into the aggregator under EngineMetrics.Gate.
CountSpan(t) ==
    /\ pc[t] = "idle"
    /\ spansRecorded < MaxRecorded
    /\ spansRecorded' = spansRecorded + 1
    /\ pc' = [pc EXCEPT ![t] = "counted"]
    /\ UNCHANGED <<ringVars, durationCount, spansDropped, historyVars>>

\* Mutant: a span that will evict another is not timed.
TimeSpanUnlessFull(t) ==
    /\ pc[t] = "counted"
    /\ durationCount' = IF count = Capacity THEN durationCount ELSE durationCount + 1
    /\ pc' = [pc EXCEPT ![t] = "timed"]
    /\ UNCHANGED <<ringVars, spansRecorded, spansDropped, historyVars>>

\* SpanDurationUs.Record, again under EngineMetrics.Gate.
TimeSpan(t) ==
    /\ pc[t] = "counted"
    /\ durationCount' = durationCount + 1
    /\ pc' = [pc EXCEPT ![t] = "timed"]
    /\ UNCHANGED <<ringVars, spansRecorded, spansDropped, historyVars>>

Full == count = Capacity

NextSlot == (start + 1) % Capacity

FreeSlotAfter == (start + count + 1) % Capacity     \* mutant: off by one
FreeSlot == (start + count) % Capacity

\* The critical section on a full ring, up to SpansDropped.Add: the oldest span
\* goes, and EngineTrace.Gate stays held.
EvictOldest(t) ==
    /\ pc[t] = "timed"
    /\ gate = "free"
    /\ Full
    /\ recordedTotal' = recordedTotal + 1
    /\ start' = NextSlot
    /\ count' = count - 1
    /\ droppedSinceDrain' = droppedSinceDrain + 1
    /\ droppedTotal' = droppedTotal + 1
    /\ spansDropped' = spansDropped + 1
    /\ gate' = t
    /\ pc' = [pc EXCEPT ![t] = "evicted"]
    /\ UNCHANGED <<Ring, spansRecorded, durationCount, historyVars>>

\* The write of the span, to the end of the critical section.
InsertSpan(t) ==
    /\ \/ pc[t] = "timed" /\ gate = "free" /\ ~Full
       \/ pc[t] = "evicted"
    /\ recordedTotal' = IF pc[t] = "evicted" THEN recordedTotal ELSE recordedTotal + 1
    /\ Ring' = [Ring EXCEPT ![FreeSlot] = recordedTotal']
    /\ count' = count + 1
    /\ gate' = "free"
    /\ pc' = [pc EXCEPT ![t] = "idle"]
    /\ UNCHANGED <<start, droppedSinceDrain, droppedTotal, metricVars, historyVars>>

----------------------------------------------------------------------------
\* The client's calls. Stats and Snapshot change nothing: what they may return
\* is what the variables hold while the lock they take is free.

\* The live spans, oldest first.
Spans == [i \in 1..count |-> Ring[(start + i - 1) % Capacity]]

KeptAfterDrain == droppedSinceDrain     \* mutant: the drop count is not reset
DroppedAfterDrain == 0

Drain ==
    /\ gate = "free"
    /\ lastDrain' = [after |-> drained, dropped |-> droppedSinceDrain, spans |-> Spans]
    /\ drained' = drained + droppedSinceDrain + count
    /\ Ring' = [s \in Slots |-> Empty]
    /\ start' = 0
    /\ count' = 0
    /\ droppedSinceDrain' = DroppedAfterDrain
    /\ UNCHANGED <<droppedTotal, recordedTotal, gate, metricVars, pc>>

Next ==
    \/ \E t \in Threads : CountSpan(t) \/ TimeSpan(t) \/ EvictOldest(t) \/ InsertSpan(t)
    \/ Drain

Spec == Init /\ [][Next]_vars

----------------------------------------------------------------------------
\* Properties.

\* "Overflow is disclosed, never silent": the spans of a drain are consecutive
\* and oldest first, and the dropped count it reports is exactly the number of
\* spans missing since the previous drain.
OverflowIsDisclosed ==
    \A i \in DOMAIN lastDrain.spans :
        lastDrain.spans[i] = lastDrain.after + lastDrain.dropped + i

\* A client that adds up what it was given and what it was told was dropped,
\* and what is still in the ring, gets the number of spans recorded.
EverySpanAccounted ==
    gate = "free" => recordedTotal = drained + droppedSinceDrain + count

InRecord(phases) == {t \in Threads : pc[t] \in phases}

\* metrics~snapshot and trace~stats agree up to the spans being recorded: the
\* metrics are ahead of the ring by exactly the threads that are in Record and
\* have not reached the ring, and both count the same drops.
MetricsAgreeWithRing ==
    /\ spansRecorded = recordedTotal + Cardinality(InRecord({"counted", "timed"}))
    /\ durationCount = recordedTotal + Cardinality(InRecord({"timed"}))
    /\ spansDropped = droppedTotal

=============================================================================
