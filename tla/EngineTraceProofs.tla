------------------------- MODULE EngineTraceProofs -------------------------
(***************************************************************************)
(* TLAPS proofs about EngineTrace, for every ring capacity and every       *)
(* finite set of recording threads.                                        *)
(***************************************************************************)
EXTENDS EngineTrace, FiniteSetTheorems, TLAPS

\* The thread between eviction and insertion holds the gate, and has made room.
GateHeld ==
    /\ \A t \in Threads : pc[t] = "evicted" <=> gate = t
    /\ gate # "free" => count = Capacity - 1

\* Every span is drained, dropped since the last drain, live, or on its way from
\* an eviction to its slot.
Accounted ==
    recordedTotal = drained + droppedSinceDrain + count + (IF gate = "free" THEN 0 ELSE 1)

\* The live spans are the most recent ones, oldest first, wherever the window
\* starts in the array.
WindowOrdered ==
    \A i \in 1..count :
        Ring[(start + i - 1) % Capacity] = drained + droppedSinceDrain + i

IInv ==
    /\ TypeOK
    /\ GateHeld
    /\ Accounted
    /\ WindowOrdered
    /\ OverflowIsDisclosed

----------------------------------------------------------------------------
\* Index arithmetic.

\* An index is a slot, and wraps at most once.
LEMMA Wrap ==
    ASSUME NEW N \in Nat \ {0}, NEW s \in 0..N - 1, NEW k \in 0..N
    PROVE  (s + k) % N = IF s + k < N THEN s + k ELSE s + k - N
  OBVIOUS

\* An index is a slot.
LEMMA SlotInRing ==
    ASSUME NEW N \in Nat \ {0}, NEW s \in 0..N - 1, NEW k \in 0..N
    PROVE  (s + k) % N \in 0..N - 1
  BY Wrap

\* Two offsets below the capacity name two slots: an insertion overwrites no
\* live span.
LEMMA SlotsDistinct ==
    ASSUME NEW N \in Nat \ {0}, NEW s \in 0..N - 1,
           NEW j \in 0..N - 1, NEW k \in 0..N - 1, j # k
    PROVE  (s + j) % N # (s + k) % N
<1>1. (s + j) % N = IF s + j < N THEN s + j ELSE s + j - N
  OBVIOUS
<1>2. (s + k) % N = IF s + k < N THEN s + k ELSE s + k - N
  OBVIOUS
<1> QED
  BY <1>1, <1>2

\* Moving the start of the window by one moves every offset by one.
LEMMA SlotShift ==
    ASSUME NEW N \in Nat \ {0}, NEW s \in 0..N - 1, NEW k \in 0..N - 1
    PROVE  (((s + 1) % N) + k) % N = (s + k + 1) % N
<1>1. (s + 1) % N = IF s + 1 < N THEN s + 1 ELSE s + 1 - N
  OBVIOUS
<1>2. (s + k + 1) % N = IF s + k + 1 < N THEN s + k + 1 ELSE s + k + 1 - N
  OBVIOUS
<1>3. PICK r \in 0..N - 1 : r = (s + 1) % N
  BY <1>1
<1>4. (r + k) % N = IF r + k < N THEN r + k ELSE r + k - N
  OBVIOUS
<1> QED
  BY <1>1, <1>2, <1>3, <1>4

----------------------------------------------------------------------------
\* The inductive invariant.

\* An empty ring satisfies the invariant.
LEMMA InitInv == Init => IInv
<1> SUFFICES ASSUME Init PROVE IInv
  OBVIOUS
<1>1. TypeOK
  BY CapacityAssumption DEF Init, TypeOK, Slots, Empty
<1>2. GateHeld /\ Accounted /\ WindowOrdered /\ OverflowIsDisclosed
  BY ThreadsAssumption DEF Init, GateHeld, Accounted, WindowOrdered, OverflowIsDisclosed
<1> QED
  BY <1>1, <1>2 DEF IInv

\* Every step of Record and of Drain keeps the invariant.
LEMMA NextInv == IInv /\ [Next]_vars => IInv'
<1> SUFFICES ASSUME IInv, [Next]_vars PROVE IInv'
  OBVIOUS
<1> USE CapacityAssumption, ThreadsAssumption DEF ringVars, metricVars, historyVars
<1>0. TypeOK /\ GateHeld /\ Accounted /\ WindowOrdered /\ OverflowIsDisclosed
  BY DEF IInv
<1>1. ASSUME NEW t \in Threads, CountSpan(t) \/ TimeSpan(t)
      PROVE  IInv'
  <2>1. TypeOK'
    <3>1. pc' \in [Threads -> {"idle", "counted", "timed", "evicted"}]
      <4>1. pc' = [pc EXCEPT ![t] = "counted"] \/ pc' = [pc EXCEPT ![t] = "timed"]
        BY <1>1, Zenon DEF CountSpan, TimeSpan
      <4>2. pc \in [Threads -> {"idle", "counted", "timed", "evicted"}]
        BY <1>0, Zenon DEF TypeOK
      <4> QED
        BY <4>1, <4>2
    <3>2. spansRecorded' \in Nat /\ durationCount' \in Nat
      <4>1. /\ spansRecorded' = spansRecorded + 1 \/ spansRecorded' = spansRecorded
            /\ durationCount' = durationCount + 1 \/ durationCount' = durationCount
        BY <1>1, Zenon DEF CountSpan, TimeSpan
      <4>2. spansRecorded \in Nat /\ durationCount \in Nat
        BY <1>0, Zenon DEF TypeOK
      <4> QED
        BY <4>1, <4>2
    <3>3. UNCHANGED <<ringVars, spansDropped, historyVars>>
      BY <1>1 DEF CountSpan, TimeSpan
    <3> QED
      BY <1>0, <3>1, <3>2, <3>3 DEF TypeOK
  <2>2. GateHeld'
    BY <1>0, <1>1 DEF CountSpan, TimeSpan, TypeOK, GateHeld
  <2>3. Accounted' /\ WindowOrdered' /\ OverflowIsDisclosed'
    BY <1>0, <1>1
    DEF CountSpan, TimeSpan, Accounted, WindowOrdered, OverflowIsDisclosed
  <2> QED
    BY <2>1, <2>2, <2>3 DEF IInv
<1>2. ASSUME NEW t \in Threads, EvictOldest(t)
      PROVE  IInv'
  <2>1. start' = (start + 1) % Capacity /\ start' \in Slots
    BY <1>0, <1>2, SlotInRing DEF EvictOldest, NextSlot, TypeOK, Slots
  <2>2. TypeOK'
    BY <1>0, <1>2, <2>1 DEF EvictOldest, Full, TypeOK
  <2>3. GateHeld'
    BY <1>0, <1>2 DEF EvictOldest, Full, TypeOK, GateHeld
  <2>4. Accounted'
    <3>1. gate = "free" /\ gate' # "free"
      BY <1>2 DEF EvictOldest
    <3> QED
      BY <1>0, <1>2, <3>1 DEF EvictOldest, TypeOK, Accounted
  <2>5. WindowOrdered'
    <3> SUFFICES ASSUME NEW i \in 1..count - 1
        PROVE  Ring[(start' + i - 1) % Capacity] = drained + droppedSinceDrain + 1 + i
      BY <1>0, <1>2 DEF EvictOldest, TypeOK, WindowOrdered
    <3>1. start \in 0..Capacity - 1 /\ i - 1 \in 0..Capacity - 1 /\ i + 1 \in 1..count
      BY <1>0 DEF TypeOK, Slots
    <3>2. (start' + (i - 1)) % Capacity = (start + (i - 1) + 1) % Capacity
      BY <2>1, <3>1, SlotShift
    <3>3. /\ start' + (i - 1) = start' + i - 1
          /\ start + (i - 1) + 1 = start + (i + 1) - 1
      BY <1>0, <2>1, <3>1 DEF TypeOK, Slots
    <3>4. Ring[(start + (i + 1) - 1) % Capacity] = drained + droppedSinceDrain + (i + 1)
      BY <1>0, <3>1 DEF WindowOrdered
    <3> QED
      BY <1>0, <3>2, <3>3, <3>4 DEF TypeOK
  <2>6. OverflowIsDisclosed'
    BY <1>0, <1>2 DEF EvictOldest, OverflowIsDisclosed
  <2> QED
    BY <2>2, <2>3, <2>4, <2>5, <2>6 DEF IInv
<1>3. ASSUME NEW t \in Threads, InsertSpan(t)
      PROVE  IInv'
  <2>1. count \in 0..Capacity - 1 /\ count' = count + 1
    BY <1>0, <1>3 DEF InsertSpan, Full, TypeOK, GateHeld
  <2>2. FreeSlot \in Slots
    BY <1>0, <2>1, SlotInRing DEF FreeSlot, TypeOK, Slots
  <2>0. /\ recordedTotal' = drained + droppedSinceDrain + count + 1
        /\ recordedTotal' \in Nat
    BY <1>0, <1>3 DEF InsertSpan, TypeOK, GateHeld, Accounted
  <2>3. /\ Ring' = [Ring EXCEPT ![FreeSlot] = recordedTotal']
        /\ Ring' \in [Slots -> Nat]
    BY <1>0, <1>3, <2>0, <2>2 DEF InsertSpan, TypeOK
  <2>4. TypeOK'
    BY <1>0, <1>3, <2>0, <2>1, <2>3 DEF InsertSpan, TypeOK
  <2>5. GateHeld'
    BY <1>0, <1>3 DEF InsertSpan, TypeOK, GateHeld
  <2>6. Accounted'
    BY <1>0, <1>3, <2>0, <2>1 DEF InsertSpan, TypeOK, Accounted
  <2>7. WindowOrdered'
    <3> SUFFICES ASSUME NEW i \in 1..count + 1
        PROVE  Ring'[(start + i - 1) % Capacity] = drained + droppedSinceDrain + i
      BY <1>0, <1>3, <2>1 DEF InsertSpan, TypeOK, WindowOrdered
    <3>1. start \in 0..Capacity - 1 /\ i - 1 \in 0..Capacity - 1
      BY <1>0, <2>1 DEF TypeOK, Slots
    <3>2. start + (i - 1) = start + i - 1
      BY <3>1
    <3>3. CASE i = count + 1
      <4>1. FreeSlot = (start + i - 1) % Capacity
        BY <3>1, <3>2, <3>3, <2>1 DEF FreeSlot
      <4>2. Ring'[FreeSlot] = recordedTotal'
        BY <1>0, <2>2, <2>3 DEF TypeOK
      <4> QED
        BY <1>0, <2>0, <2>1, <3>3, <4>1, <4>2 DEF TypeOK
    <3>4. CASE i # count + 1
      <4>1. i \in 1..count /\ i - 1 # count
        BY <2>1, <3>4
      <4>2. (start + (i - 1)) % Capacity # FreeSlot
        BY <2>1, <3>1, <4>1, SlotsDistinct DEF FreeSlot
      <4>3. (start + i - 1) % Capacity \in Slots
        BY <3>1, <3>2, SlotInRing DEF Slots
      <4>4. Ring'[(start + i - 1) % Capacity] = Ring[(start + i - 1) % Capacity]
        BY <1>0, <2>2, <2>3, <3>2, <4>2, <4>3 DEF TypeOK
      <4> QED
        BY <1>0, <4>1, <4>4 DEF WindowOrdered
    <3> QED
      BY <3>3, <3>4
  <2>8. OverflowIsDisclosed'
    BY <1>0, <1>3 DEF InsertSpan, OverflowIsDisclosed
  <2> QED
    BY <2>4, <2>5, <2>6, <2>7, <2>8 DEF IInv
<1>4. CASE Drain
  <2>1. Spans \in Seq(Nat) /\ DOMAIN Spans = 1..count
    <3>1. \A i \in 1..count : Ring[(start + i - 1) % Capacity] \in Nat
      BY <1>0 DEF WindowOrdered, TypeOK
    <3>2. Spans \in [1..count -> Nat]
      BY <3>1 DEF Spans
    <3> QED
      BY <1>0, <3>2 DEF TypeOK
  <2>2. TypeOK'
    BY <1>0, <1>4, <2>1 DEF Drain, DroppedAfterDrain, TypeOK, Slots, Empty
  <2>3. GateHeld' /\ Accounted' /\ WindowOrdered'
    BY <1>0, <1>4
    DEF Drain, DroppedAfterDrain, TypeOK, GateHeld, Accounted, WindowOrdered
  <2>4. OverflowIsDisclosed'
    BY <1>0, <1>4, <2>1 DEF Drain, Spans, WindowOrdered, OverflowIsDisclosed
  <2> QED
    BY <2>2, <2>3, <2>4 DEF IInv
<1>5. CASE UNCHANGED vars
  <2>1. TypeOK'
    BY <1>0, <1>5 DEF vars, TypeOK
  <2>2. GateHeld' /\ Accounted' /\ WindowOrdered' /\ OverflowIsDisclosed'
    BY <1>0, <1>5 DEF vars, GateHeld, Accounted, WindowOrdered, OverflowIsDisclosed
  <2> QED
    BY <2>1, <2>2 DEF IInv
<1> QED
  BY <1>1, <1>2, <1>3, <1>4, <1>5 DEF Next

\* The invariant holds in every reachable state.
LEMMA Invariant == Spec => []IInv
  BY InitInv, NextInv, PTL DEF Spec

----------------------------------------------------------------------------
\* The threads inside Record.

\* A thread that reaches one of the phases adds one to the threads in them.
LEMMA EnterPhases ==
    ASSUME NEW phases, NEW where \in phases, NEW t \in Threads,
           pc \in [Threads -> {"idle", "counted", "timed", "evicted"}],
           pc[t] \notin phases, pc' = [pc EXCEPT ![t] = where]
    PROVE  Cardinality(InRecord(phases)') = Cardinality(InRecord(phases)) + 1
<1>1. InRecord(phases)' = InRecord(phases) \cup {t} /\ t \notin InRecord(phases)
  BY DEF InRecord
<1>2. IsFiniteSet(InRecord(phases))
  BY ThreadsAssumption, FS_Subset DEF InRecord
<1> QED
  BY <1>1, <1>2, FS_AddElement

\* A thread that leaves the phases takes one away.
LEMMA LeavePhases ==
    ASSUME NEW phases, NEW where, where \notin phases, NEW t \in Threads,
           pc \in [Threads -> {"idle", "counted", "timed", "evicted"}],
           pc[t] \in phases, pc' = [pc EXCEPT ![t] = where]
    PROVE  Cardinality(InRecord(phases)') = Cardinality(InRecord(phases)) - 1
<1>1. InRecord(phases)' = InRecord(phases) \ {t} /\ t \in InRecord(phases)
  BY DEF InRecord
<1>2. IsFiniteSet(InRecord(phases))
  BY ThreadsAssumption, FS_Subset DEF InRecord
<1> QED
  BY <1>1, <1>2, FS_RemoveElement

\* A thread that moves within the phases, or outside them, changes nothing.
LEMMA KeepPhases ==
    ASSUME NEW phases, NEW where, NEW t \in Threads,
           pc \in [Threads -> {"idle", "counted", "timed", "evicted"}],
           pc[t] \in phases <=> where \in phases, pc' = [pc EXCEPT ![t] = where]
    PROVE  InRecord(phases)' = InRecord(phases)
  BY DEF InRecord

\* The number of threads in the phases is a number.
LEMMA PhasesCount ==
    ASSUME NEW phases
    PROVE  Cardinality(InRecord(phases)) \in Nat
<1>1. IsFiniteSet(InRecord(phases))
  BY ThreadsAssumption, FS_Subset DEF InRecord
<1> QED
  BY <1>1, FS_CardinalityType

\* Every step of Record and of Drain keeps the metrics and the ring in agreement.
LEMMA MetricsStep == IInv /\ MetricsAgreeWithRing /\ [Next]_vars => MetricsAgreeWithRing'
<1> SUFFICES ASSUME IInv, MetricsAgreeWithRing, [Next]_vars
    PROVE  MetricsAgreeWithRing'
  OBVIOUS
<1> DEFINE P == {"counted", "timed"}
           Q == {"timed"}
           p == Cardinality(InRecord(P))
           q == Cardinality(InRecord(Q))
<1>0. /\ spansRecorded \in Nat /\ durationCount \in Nat /\ recordedTotal \in Nat
      /\ pc \in [Threads -> {"idle", "counted", "timed", "evicted"}]
  BY DEF IInv, TypeOK
<1>1. p \in Nat /\ q \in Nat
  BY PhasesCount
<1>2. /\ spansRecorded = recordedTotal + p
      /\ durationCount = recordedTotal + q
      /\ spansDropped = droppedTotal
  BY DEF MetricsAgreeWithRing
<1>3. SUFFICES /\ spansRecorded' = recordedTotal' + p'
               /\ durationCount' = recordedTotal' + q'
               /\ spansDropped' = droppedTotal'
  BY DEF MetricsAgreeWithRing
<1> USE DEF ringVars, metricVars
<1>4. ASSUME NEW t \in Threads, CountSpan(t)
      PROVE  /\ spansRecorded' = recordedTotal' + p'
             /\ durationCount' = recordedTotal' + q'
             /\ spansDropped' = droppedTotal'
  <2>1. pc[t] = "idle" /\ pc' = [pc EXCEPT ![t] = "counted"]
    BY <1>4 DEF CountSpan
  <2>2. p' = p + 1
    BY <1>0, <2>1, EnterPhases
  <2>3. q' = q
    <3>1. InRecord(Q)' = InRecord(Q)
      BY <1>0, <2>1, KeepPhases
    <3> QED
      BY <3>1
  <2> HIDE DEF p, q
  <2> QED
    BY <1>0, <1>1, <1>2, <1>4, <2>2, <2>3 DEF CountSpan
<1>5. ASSUME NEW t \in Threads, TimeSpan(t)
      PROVE  /\ spansRecorded' = recordedTotal' + p'
             /\ durationCount' = recordedTotal' + q'
             /\ spansDropped' = droppedTotal'
  <2>1. pc[t] = "counted" /\ pc' = [pc EXCEPT ![t] = "timed"]
    BY <1>5 DEF TimeSpan
  <2>2. p' = p
    <3>1. InRecord(P)' = InRecord(P)
      BY <1>0, <2>1, KeepPhases
    <3> QED
      BY <3>1
  <2>3. q' = q + 1
    BY <1>0, <2>1, EnterPhases
  <2> HIDE DEF p, q
  <2> QED
    BY <1>0, <1>1, <1>2, <1>5, <2>2, <2>3 DEF TimeSpan
<1>6. ASSUME NEW t \in Threads, NEW where \in {"idle", "evicted"},
             pc[t] = "timed", pc' = [pc EXCEPT ![t] = where]
      PROVE  p' = p - 1 /\ q' = q - 1
  BY <1>0, <1>6, LeavePhases
<1>7. ASSUME NEW t \in Threads, EvictOldest(t)
      PROVE  /\ spansRecorded' = recordedTotal' + p'
             /\ durationCount' = recordedTotal' + q'
             /\ spansDropped' = droppedTotal'
  <2>1. p' = p - 1 /\ q' = q - 1
    BY <1>6, <1>7 DEF EvictOldest
  <2> HIDE DEF p, q
  <2> QED
    BY <1>0, <1>1, <1>2, <1>7, <2>1 DEF EvictOldest
<1>8. ASSUME NEW t \in Threads, InsertSpan(t)
      PROVE  /\ spansRecorded' = recordedTotal' + p'
             /\ durationCount' = recordedTotal' + q'
             /\ spansDropped' = droppedTotal'
  <2>1. CASE pc[t] = "timed"
    <3>1. p' = p - 1 /\ q' = q - 1
      BY <1>6, <1>8, <2>1 DEF InsertSpan
    <3> HIDE DEF p, q
    <3> QED
      BY <1>0, <1>1, <1>2, <1>8, <2>1, <3>1 DEF InsertSpan
  <2>2. CASE pc[t] = "evicted"
    <3>1. InRecord(P)' = InRecord(P) /\ InRecord(Q)' = InRecord(Q)
      BY <1>0, <1>8, <2>2, KeepPhases DEF InsertSpan
    <3>2. p' = p /\ q' = q
      BY <3>1
    <3> HIDE DEF p, q
    <3> QED
      BY <1>2, <1>8, <2>2, <3>2 DEF InsertSpan
  <2> QED
    BY <1>8, <2>1, <2>2 DEF InsertSpan
<1>9. CASE Drain \/ UNCHANGED vars
  <2>1. UNCHANGED <<spansRecorded, durationCount, spansDropped, recordedTotal, droppedTotal, pc>>
    BY <1>9 DEF Drain, vars
  <2> QED
    BY <1>2, <2>1 DEF InRecord
<1> QED
  BY <1>4, <1>5, <1>7, <1>8, <1>9 DEF Next

----------------------------------------------------------------------------
\* The theorems.

\* The indexes stay inside the array and the counters keep their types.
THEOREM TypeCorrect == Spec => []TypeOK
<1>1. IInv => TypeOK
  BY DEF IInv
<1> QED
  BY <1>1, Invariant, PTL

\* Every drain discloses exactly the spans that ring overflow took from it.
THEOREM DrainDisclosesDrops == Spec => []OverflowIsDisclosed
<1>1. IInv => OverflowIsDisclosed
  BY DEF IInv
<1> QED
  BY <1>1, Invariant, PTL

\* Recorded spans are drained, dropped or live, and none of them twice.
THEOREM SpansAccounted == Spec => []EverySpanAccounted
<1>1. IInv => EverySpanAccounted
  BY DEF IInv, TypeOK, Accounted, EverySpanAccounted
<1> QED
  BY <1>1, Invariant, PTL

\* However the threads interleave between the two locks, the aggregator is
\* ahead of the ring by exactly the spans still inside Record.
THEOREM MetricsAgree == Spec => []MetricsAgreeWithRing
<1>1. Init => MetricsAgreeWithRing
  <2> SUFFICES ASSUME Init PROVE MetricsAgreeWithRing
    OBVIOUS
  <2>1. InRecord({"counted", "timed"}) = {} /\ InRecord({"timed"}) = {}
    BY DEF Init, InRecord
  <2>2. /\ Cardinality(InRecord({"counted", "timed"})) = 0
        /\ Cardinality(InRecord({"timed"})) = 0
    BY <2>1, FS_EmptySet
  <2>3. /\ spansRecorded = 0 /\ durationCount = 0 /\ spansDropped = 0
        /\ recordedTotal = 0 /\ droppedTotal = 0
    BY DEF Init
  <2> QED
    BY <2>2, <2>3 DEF MetricsAgreeWithRing
<1> QED
  BY <1>1, MetricsStep, Invariant, PTL DEF Spec

=============================================================================
