------------------------- MODULE SqliteBrokerProofs -------------------------
(***************************************************************************)
(* For any number of brokers, requests and fragments, over stops, starts,  *)
(* kills and failing statements in any order: the status of a request says *)
(* what its rows are, requests are served in order, none is processed      *)
(* twice as long as no start overlaps with a stop, and a client's stream   *)
(* that completes has every row of its request.                            *)
(***************************************************************************)
EXTENDS SqliteClient, TLAPS

Row == {"fragment", "final"}

\* The types, without the bounds of the counters.
Types ==
    /\ requests \in Seq(Status)
    /\ responseTokens \in Seq(Seq(Row)) /\ Len(responseTokens) = Len(requests)
    /\ broker \in Brokers \cup {"null"}
    /\ loop \in [Brokers -> Alive \cup {"none", "ended", "dead", "killed"}]
    /\ claim \in [Brokers -> Nat]
    /\ index \in [Brokers -> Nat]
    /\ conn \in [Brokers -> {"none", "open", "disposed"}]
    /\ stopping \subseteq Brokers
    /\ \A b \in Brokers : loop[b] \in Busy => claim[b] \in DOMAIN requests

\* The two tables have the same keys, the ids in the order of insertion.
LEMMA DomainFact == Types => DOMAIN requests = 1..Len(requests) /\ DOMAIN responseTokens = 1..Len(requests)
                             /\ Len(requests) \in Nat
BY DEF Types

\* What one step of a poll loop writes, in terms of its claim.
LEMMA TypesStep == Types /\ [Next]_vars => Types'
<1> SUFFICES ASSUME Types, [Next]_vars PROVE Types'
  OBVIOUS
<1> USE DEF Types, dbVars, Goto, Busy, Alive, Status
<1>0. DOMAIN requests = 1..Len(requests) /\ DOMAIN responseTokens = 1..Len(requests) /\ Len(requests) \in Nat
  BY DomainFact
<1>1. ASSUME Insert PROVE Types'
  <2>1. /\ requests' \in Seq(Status) /\ Len(requests') = Len(requests) + 1
        /\ DOMAIN requests \subseteq DOMAIN requests'
    BY <1>1, <1>0 DEF Insert
  <2>2. responseTokens' \in Seq(Seq(Row)) /\ Len(responseTokens') = Len(requests')
    <3>1. <<>> \in Seq(Row)
      OBVIOUS
    <3> QED BY <1>1, <2>1, <3>1 DEF Insert
  <2> QED BY <1>1, <2>1, <2>2 DEF Insert
<1>2. ASSUME NEW b \in Brokers, Start(b) PROVE Types'
  BY <1>2 DEF Start
<1>3. ASSUME NEW b \in Brokers, StopTake(b) PROVE Types'
  BY <1>3 DEF StopTake
<1>4. ASSUME NEW b \in Brokers, StopCancel(b) PROVE Types'
  BY <1>4 DEF StopCancel
<1>5. ASSUME NEW b \in Brokers, StopReturn(b) PROVE Types'
  BY <1>5 DEF StopReturn
<1>6. ASSUME Kill PROVE Types'
  BY <1>6 DEF Kill
<1>7. ASSUME NEW b \in Brokers, Select(b) PROVE Types'
  BY <1>0, <1>7 DEF Select
<1>8. ASSUME NEW b \in Brokers, NEW s \in Status, loop[b] \in Busy, MarkStatus(claim[b], s)
      PROVE  requests' \in Seq(Status) /\ Len(requests') = Len(requests) /\ DOMAIN requests' = DOMAIN requests
  BY <1>0, <1>8 DEF MarkStatus
<1>9. ASSUME NEW b \in Brokers, MarkRunning(b) PROVE Types'
  BY <1>8, <1>9 DEF MarkRunning
<1>10. ASSUME NEW b \in Brokers, MarkDone(b) \/ Fault(b) PROVE Types'
  BY <1>8, <1>10 DEF MarkDone, Fault
<1>11. ASSUME NEW b \in Brokers, NEW token \in Row, loop[b] \in Busy, InsertToken(b, token)
       PROVE  /\ responseTokens' \in Seq(Seq(Row)) /\ Len(responseTokens') = Len(responseTokens)
              /\ index' \in [Brokers -> Nat]
  <2>1. claim[b] \in 1..Len(responseTokens) /\ Append(responseTokens[claim[b]], token) \in Seq(Row)
    BY <1>0, <1>11
  <2> QED BY <1>11, <2>1 DEF InsertToken
<1>12. ASSUME NEW b \in Brokers, WriteFragment(b) PROVE Types'
  BY <1>11, <1>12 DEF WriteFragment, Row
<1>13. ASSUME NEW b \in Brokers, WriteFinal(b) PROVE Types'
  BY <1>11, <1>13 DEF WriteFinal, Row
<1>14. ASSUME NEW b \in Brokers, LoopEnds(b) \/ LoopDies(b) PROVE Types'
  BY <1>14 DEF LoopEnds, LoopDies
<1>15. CASE UNCHANGED vars
  BY <1>15 DEF vars
<1> QED BY <1>1, <1>2, <1>3, <1>4, <1>5, <1>6, <1>7, <1>9, <1>10, <1>12, <1>13, <1>14, <1>15 DEF Next, Loop, Stop

\* Types is an invariant of the broker.
LEMMA TypesInvariant == Spec => []Types
<1>1. Init => Types
  <2> SUFFICES ASSUME Init PROVE Types
    OBVIOUS
  <2>1. requests \in Seq(Status) /\ responseTokens \in Seq(Seq(Row)) /\ Len(responseTokens) = Len(requests)
    BY DEF Init
  <2> QED BY <2>1 DEF Init, Types, Busy, Alive
<1> QED BY <1>1, TypesStep, PTL DEF Spec

----------------------------------------------------------------------------
\* One loop at a time

\* Without an overlap, a broker that lives is the published one or the one that
\* is being stopped, and there are never both.
OneBroker ==
    overlapped \/ /\ \A b \in Brokers : loop[b] \in Alive => b = broker \/ b \in stopping
                  /\ \A b, c \in Brokers : b \in stopping /\ c \in stopping => b = c
                  /\ broker \in Brokers => stopping = {}

\* Start takes the slot only when it is empty, and Stop and a kill empty it.
LEMMA OneBrokerInvariant == Spec => []OneBroker
<1>1. Init => OneBroker
  BY DEF Init, OneBroker, Alive, Busy
<1>2. Types /\ OneBroker /\ [Next]_vars => OneBroker'
  <2> SUFFICES ASSUME Types, OneBroker, [Next]_vars PROVE OneBroker'
    OBVIOUS
  <2> USE BrokersAssumption DEF Types, OneBroker, Goto, Busy, Alive
  <2>1. ASSUME Insert PROVE OneBroker'
    BY <2>1 DEF Insert
  <2>2. ASSUME NEW b \in Brokers, Start(b) PROVE OneBroker'
    BY <2>2 DEF Start
  <2>3. ASSUME NEW b \in Brokers, StopTake(b) \/ StopCancel(b) PROVE OneBroker'
    BY <2>3 DEF StopTake, StopCancel
  <2>4. ASSUME NEW b \in Brokers, StopReturn(b) PROVE OneBroker'
    BY <2>4 DEF StopReturn
  <2>5. ASSUME Kill PROVE OneBroker'
    BY <2>5 DEF Kill
  <2>6. ASSUME NEW b \in Brokers, Loop(b) \/ LoopDies(b) PROVE OneBroker'
    <3>1. UNCHANGED <<broker, stopping, overlapped>> /\ loop[b] \in Alive
      BY <2>6 DEF Loop, Select, MarkRunning, WriteFragment, WriteFinal, MarkDone, Fault, LoopEnds, LoopDies
    <3>2. \A c \in Brokers : c # b => loop'[c] = loop[c]
      BY <2>6 DEF Loop, Select, MarkRunning, WriteFragment, WriteFinal, MarkDone, Fault, LoopEnds, LoopDies
    <3> QED BY <3>1, <3>2
  <2>7. CASE UNCHANGED vars
    BY <2>7 DEF vars
  <2> QED BY <2>1, <2>2, <2>3, <2>4, <2>5, <2>6, <2>7 DEF Next, Stop
<1> QED BY <1>1, <1>2, TypesInvariant, PTL DEF Spec

\* A request is processed by one poll loop at most, for any number of starts,
\* stops and kills of which no start overlaps with a stop.
THEOREM ProcessedOnce == Spec => []ClaimedOnce
<1>1. Types /\ OneBroker => ClaimedOnce
  BY DEF Types, OneBroker, ClaimedOnce, Owners, Alive
<1> QED BY <1>1, TypesInvariant, OneBrokerInvariant, PTL

----------------------------------------------------------------------------
\* Order

\* What a loop works on was the oldest: nothing before it is pending.
SelectedOldest ==
    \A b \in Brokers : loop[b] \in Busy =>
        \A id \in DOMAIN requests : id < claim[b] => requests[id] # "pending"

\* No step makes a request pending again.
LEMMA NeverPendingAgain ==
    ASSUME Types, [Next]_vars
    PROVE  /\ DOMAIN requests \subseteq DOMAIN requests'
           /\ \A id \in DOMAIN requests : requests'[id] = "pending" => requests[id] = "pending"
           /\ \A id \in DOMAIN requests' \ DOMAIN requests : \A old \in DOMAIN requests : old < id
<1> USE DEF Types, dbVars
<1>0. DOMAIN requests = 1..Len(requests) /\ Len(requests) \in Nat
  BY DomainFact
<1>1. ASSUME Insert PROVE /\ DOMAIN requests' = 1..(Len(requests) + 1)
                          /\ \A id \in DOMAIN requests : requests'[id] = requests[id]
  BY <1>0, <1>1 DEF Insert
<1>2. ASSUME NEW id, NEW status, status # "pending", MarkStatus(id, status)
      PROVE  /\ DOMAIN requests' = DOMAIN requests
             /\ \A other \in DOMAIN requests : requests'[other] = "pending" => requests[other] = "pending"
  BY <1>2 DEF MarkStatus
<1>3. CASE requests' = requests
  BY <1>3
<1>4. CASE \E b \in Brokers : MarkRunning(b) \/ MarkDone(b) \/ Fault(b)
  BY <1>2, <1>4 DEF MarkRunning, MarkDone, Fault
<1>5. CASE Insert
  BY <1>0, <1>1, <1>5
<1>6. requests' = requests \/ Insert \/ \E b \in Brokers : MarkRunning(b) \/ MarkDone(b) \/ Fault(b)
  BY DEF Next, Loop, Stop, Start, StopTake, StopCancel, StopReturn, Kill, Select, WriteFragment, WriteFinal,
     LoopEnds, LoopDies, vars
<1> QED BY <1>3, <1>4, <1>5, <1>6

\* SelectOldest reads the oldest pending row, and nothing older becomes pending.
LEMMA OrderInvariant == Spec => [](SelectedOldest /\ ServedInOrder)
<1>1. Init => SelectedOldest /\ ServedInOrder
  BY DEF Init, SelectedOldest, ServedInOrder
<1>2. Types /\ Types' /\ SelectedOldest /\ ServedInOrder /\ [Next]_vars => SelectedOldest' /\ ServedInOrder'
  <2> SUFFICES ASSUME Types, Types', SelectedOldest, ServedInOrder, [Next]_vars
               PROVE  SelectedOldest' /\ ServedInOrder'
    OBVIOUS
  <2>0. /\ DOMAIN requests = 1..Len(requests) /\ Len(requests) \in Nat
        /\ DOMAIN requests' = 1..Len(requests') /\ Len(requests') \in Nat
    BY DEF Types
  <2>1. /\ DOMAIN requests \subseteq DOMAIN requests'
        /\ \A id \in DOMAIN requests : requests'[id] = "pending" => requests[id] = "pending"
        /\ \A id \in DOMAIN requests' \ DOMAIN requests : \A old \in DOMAIN requests : old < id
    BY NeverPendingAgain
  <2>2. ASSUME NEW b \in Brokers, loop[b] \in Busy, claim'[b] = claim[b],
               NEW id \in DOMAIN requests', id < claim'[b]
        PROVE  requests'[id] # "pending"
    <3>1. claim[b] \in DOMAIN requests
      BY <2>2 DEF Types
    <3>2. id \in DOMAIN requests
      BY <2>0, <2>2, <3>1
    <3> QED BY <2>1, <2>2, <3>2 DEF SelectedOldest
  <2>3. ASSUME NEW b \in Brokers, Select(b) PROVE SelectedOldest' /\ ServedInOrder'
    <3>1. requests' = requests /\ \A c \in Brokers : c # b => loop'[c] = loop[c] /\ claim'[c] = claim[c]
      BY <2>3 DEF Select, Goto, dbVars, Types
    <3>2. PICK id \in DOMAIN requests : OldestPending(id) /\ claim'[b] = id
      BY <2>3 DEF Select, Types
    <3>3. \A other \in DOMAIN requests : other < id => requests[other] # "pending"
      BY <2>0, <3>2 DEF OldestPending, Pending
    <3> QED BY <3>1, <3>2, <3>3 DEF SelectedOldest, ServedInOrder
  <2>4. ASSUME \A b \in Brokers : loop'[b] \in Busy => loop[b] \in Busy /\ claim'[b] = claim[b]
        PROVE  SelectedOldest'
    BY <2>2, <2>4 DEF SelectedOldest
  <2>5. ASSUME NEW b \in Brokers, MarkRunning(b) \/ MarkDone(b) \/ Fault(b) PROVE SelectedOldest' /\ ServedInOrder'
    <3>1. \A c \in Brokers : loop'[c] \in Busy => loop[c] \in Busy /\ claim'[c] = claim[c]
      BY <2>5 DEF MarkRunning, MarkDone, Fault, Goto, Types, Busy
    <3>2. claim[b] \in DOMAIN requests /\ \A id \in DOMAIN requests : id < claim[b] => requests[id] # "pending"
      BY <2>5 DEF MarkRunning, MarkDone, Fault, Types, Busy, SelectedOldest
    <3>3. PICK status \in {"running", "done", "error"} : requests' = [requests EXCEPT ![claim[b]] = status]
      BY <2>5 DEF MarkRunning, MarkDone, Fault, MarkStatus
    <3>4. ServedInOrder'
      <4> SUFFICES ASSUME NEW id \in DOMAIN requests, NEW later \in DOMAIN requests,
                          id < later, requests'[id] = "pending"
                   PROVE  requests'[later] = "pending"
        BY <3>3 DEF ServedInOrder
      <4>1. requests[id] = "pending" /\ requests[later] = "pending"
        BY <2>1 DEF ServedInOrder
      <4>2. later # claim[b]
        BY <3>2, <4>1
      <4> QED BY <3>3, <4>1, <4>2
    <3> QED BY <2>4, <3>1, <3>4
  <2>6. ASSUME Insert PROVE SelectedOldest' /\ ServedInOrder'
    <3>1. /\ \A id \in DOMAIN requests : requests'[id] = requests[id]
          /\ \A id \in DOMAIN requests' \ DOMAIN requests : requests'[id] = "pending"
      BY <2>0, <2>6 DEF Insert, Types
    <3>2. ServedInOrder'
      BY <2>0, <2>1, <3>1 DEF ServedInOrder
    <3>3. UNCHANGED <<loop, claim>>
      BY <2>6 DEF Insert
    <3> QED BY <2>4, <3>2, <3>3
  <2>7. ASSUME requests' = requests, \A b \in Brokers : loop'[b] \in Busy => loop[b] \in Busy /\ claim'[b] = claim[b]
        PROVE  SelectedOldest' /\ ServedInOrder'
    BY <2>4, <2>7 DEF ServedInOrder
  <2>8. ASSUME NEW b \in Brokers, Start(b) \/ StopTake(b) \/ Stop(b) PROVE SelectedOldest' /\ ServedInOrder'
    BY <2>7, <2>8 DEF Start, StopTake, Stop, StopCancel, StopReturn, Goto, dbVars, Types, Busy
  <2>9. ASSUME NEW b \in Brokers, WriteFragment(b) \/ WriteFinal(b) \/ LoopEnds(b) \/ LoopDies(b)
        PROVE  SelectedOldest' /\ ServedInOrder'
    <3>1. CASE WriteFragment(b)
      BY <2>7, <3>1 DEF WriteFragment, Goto, dbVars, Types, Busy
    <3>2. CASE WriteFinal(b)
      BY <2>7, <3>2 DEF WriteFinal, Goto, dbVars, Types, Busy
    <3>3. CASE LoopEnds(b)
      BY <2>7, <3>3 DEF LoopEnds, Goto, dbVars, Types, Busy
    <3>4. CASE LoopDies(b)
      BY <2>7, <3>4 DEF LoopDies, Goto, dbVars, Types, Busy
    <3> QED BY <2>9, <3>1, <3>2, <3>3, <3>4
  <2>10. ASSUME Kill PROVE SelectedOldest' /\ ServedInOrder'
    BY <2>7, <2>10 DEF Kill, dbVars, Busy
  <2>11. CASE UNCHANGED vars
    BY <2>7, <2>11 DEF vars, dbVars
  <2> QED BY <2>3, <2>5, <2>6, <2>8, <2>9, <2>10, <2>11 DEF Next, Loop
<1> QED BY <1>1, <1>2, TypesInvariant, PTL DEF Spec

\* Requests are claimed in the order of their ids, whatever is stopped, killed
\* or fails, and also when two loops run at once.
THEOREM ClaimsInOrder == Spec => []ServedInOrder
BY OrderInvariant, PTL

----------------------------------------------------------------------------
\* Transcripts

\* What a loop that has claimed its request knows of it.  A loop whose index is
\* the next one has not been overtaken: no final row is there.
ClaimHolds ==
    \A b \in Brokers :
        LET rows == responseTokens[claim[b]] IN
        /\ loop[b] \in {"running", "finishing"} => requests[claim[b]] # "pending"
        /\ loop[b] = "running" =>
             index[b] <= Len(rows) /\ (index[b] = Len(rows) => \A i \in 1..Len(rows) : rows[i] # "final")
        /\ loop[b] = "finishing" => Len(rows) > 0 /\ rows[Len(rows)] = "final"

TranscriptInv == ClaimHolds /\ TranscriptMatchesStatus

\* The step of a loop that adds a row.
LEMMA RowStep ==
    ASSUME Types, TranscriptInv, NEW b \in Brokers, NEW token \in Row, loop[b] = "running", KeyIsNew(b),
           InsertToken(b, token), requests' = requests, claim' = claim,
           NEW where \in {"running", "finishing"}, loop' = [loop EXCEPT ![b] = where],
           token = "final" <=> where = "finishing"
    PROVE  TranscriptInv'
<1> DEFINE k == claim[b]
           rows == responseTokens[k]
           n == Len(rows)
           new == responseTokens'[k]
<1>1. k \in DOMAIN requests /\ k \in 1..Len(responseTokens) /\ rows \in Seq(Row) /\ n \in Nat /\ index[b] = n
  BY DEF Types, Busy, KeyIsNew, Rows
<1>2. /\ responseTokens' = [responseTokens EXCEPT ![k] = Append(rows, token)]
      /\ index' = [index EXCEPT ![b] = n + 1]
  BY <1>1 DEF InsertToken
<1>3. new = Append(rows, token) /\ \A id \in DOMAIN requests : id # k => responseTokens'[id] = responseTokens[id]
  BY <1>1, <1>2 DEF Types
<1>4. Len(new) = n + 1 /\ new[n + 1] = token /\ \A i \in 1..n : new[i] = rows[i]
  BY <1>1, <1>3
<1>5. \A i \in 1..n : rows[i] # "final"
  BY <1>1 DEF TranscriptInv, ClaimHolds
<1>6. DOMAIN new = 1..(n + 1)
  BY <1>1, <1>3
<1> HIDE DEF k, rows, n, new
<1>7. TranscriptMatchesStatus'
  <2> SUFFICES ASSUME NEW id \in DOMAIN requests
               PROVE  /\ requests[id] = "pending" => responseTokens'[id] = <<>>
                      /\ requests[id] = "done" => /\ responseTokens'[id] # <<>>
                                                  /\ responseTokens'[id][Len(responseTokens'[id])] = "final"
                      /\ \A i \in DOMAIN responseTokens'[id] :
                            responseTokens'[id][i] = "final" => i = Len(responseTokens'[id])
    BY DEF TranscriptMatchesStatus
  <2>1. CASE id # k
    BY <1>3, <2>1 DEF TranscriptInv, TranscriptMatchesStatus
  <2>2. CASE id = k
    <3>1. requests[k] # "pending"
      BY DEF TranscriptInv, ClaimHolds, k
    <3>2. requests[k] # "done"
      <4> SUFFICES ASSUME requests[k] = "done" PROVE FALSE
        OBVIOUS
      <4>1. rows # <<>> /\ rows[n] = "final"
        BY <1>1 DEF TranscriptInv, TranscriptMatchesStatus, rows, n
      <4>2. n > 0
        BY <1>1, <4>1 DEF n
      <4> QED BY <1>1, <1>5, <4>1, <4>2
    <3>3. \A i \in DOMAIN new : new[i] = "final" => i = n + 1
      BY <1>1, <1>4, <1>5, <1>6
    <3> QED BY <1>4, <2>2, <3>1, <3>2, <3>3 DEF new
  <2> QED BY <2>1, <2>2
<1>8. ClaimHolds'
  <2> SUFFICES ASSUME NEW c \in Brokers
               PROVE  /\ loop'[c] \in {"running", "finishing"} => requests[claim[c]] # "pending"
                      /\ loop'[c] = "running" =>
                           /\ index'[c] <= Len(responseTokens'[claim[c]])
                           /\ index'[c] = Len(responseTokens'[claim[c]]) =>
                                 \A i \in 1..Len(responseTokens'[claim[c]]) : responseTokens'[claim[c]][i] # "final"
                      /\ loop'[c] = "finishing" =>
                           /\ Len(responseTokens'[claim[c]]) > 0
                           /\ responseTokens'[claim[c]][Len(responseTokens'[claim[c]])] = "final"
    BY DEF ClaimHolds
  <2>1. CASE c = b
    <3>1. index'[c] = n + 1 /\ loop'[c] = where /\ responseTokens'[claim[c]] = new
      BY <1>2, <2>1 DEF Types, new, k
    <3>2. requests[claim[c]] # "pending"
      BY <2>1 DEF TranscriptInv, ClaimHolds
    <3>3. where = "running" => \A i \in 1..(n + 1) : new[i] # "final"
      <4> SUFFICES ASSUME where = "running", NEW i \in 1..(n + 1) PROVE new[i] # "final"
        OBVIOUS
      <4>1. CASE i = n + 1
        BY <1>1, <1>4, <4>1
      <4>2. CASE i \in 1..n
        BY <1>1, <1>4, <1>5, <4>2
      <4> QED BY <1>1, <4>1, <4>2
    <3>4. Len(new) = n + 1 /\ n \in Nat
      BY <1>1, <1>4
    <3>5. where = "finishing" => new[n + 1] = "final"
      BY <1>1, <1>4
    <3> QED BY <3>1, <3>2, <3>3, <3>4, <3>5
  <2>2. CASE c # b /\ claim[c] # k
    <3>1. loop'[c] = loop[c] /\ index'[c] = index[c]
      BY <1>2, <2>2 DEF Types
    <3>2. loop[c] \in {"running", "finishing"} => responseTokens'[claim[c]] = responseTokens[claim[c]]
      BY <1>3, <2>2 DEF Types, Busy
    <3> QED BY <3>1, <3>2 DEF TranscriptInv, ClaimHolds
  <2>3. CASE c # b /\ claim[c] = k
    <3>1. loop'[c] = loop[c] /\ index'[c] = index[c] /\ index[c] \in Nat
      BY <1>2, <2>3 DEF Types
    <3>2. loop[c] # "finishing"
      <4> SUFFICES ASSUME loop[c] = "finishing" PROVE FALSE
        OBVIOUS
      <4>1. n > 0 /\ rows[n] = "final"
        BY <2>3 DEF TranscriptInv, ClaimHolds, rows, n
      <4> QED BY <1>1, <1>5, <4>1
    <3>3. loop[c] = "running" => index[c] <= n /\ requests[k] # "pending"
      BY <2>3 DEF TranscriptInv, ClaimHolds, rows, n
    <3>4. responseTokens'[claim[c]] = new
      BY <2>3 DEF new
    <3>5. loop[c] = "running" => index[c] <= Len(new) /\ index[c] # Len(new)
      BY <1>1, <1>4, <3>1, <3>3
    <3> QED BY <2>3, <3>1, <3>2, <3>3, <3>4, <3>5, Zenon
  <2> QED BY <2>1, <2>2, <2>3
<1> QED BY <1>7, <1>8 DEF TranscriptInv

\* The step of a loop that changes the status of its request.
LEMMA MarkStep ==
    ASSUME Types, TranscriptInv, NEW b \in Brokers, loop[b] \in Busy,
           NEW status \in {"running", "done", "error"}, MarkStatus(claim[b], status),
           responseTokens' = responseTokens, claim' = claim,
           status = "done" => loop[b] = "finishing",
           \/ loop' = [loop EXCEPT ![b] = "polling"] /\ index' = index
           \/ loop' = [loop EXCEPT ![b] = "running"] /\ index' = [index EXCEPT ![b] = 0]
    PROVE  TranscriptInv'
<1> DEFINE k == claim[b]
           rows == responseTokens[k]
<1>1. k \in DOMAIN requests /\ k \in DOMAIN responseTokens /\ rows \in Seq(Row) /\ Len(rows) \in Nat
  BY DEF Types
<1>2. /\ DOMAIN requests' = DOMAIN requests /\ requests'[k] = status
      /\ \A id \in DOMAIN requests : id # k => requests'[id] = requests[id]
  BY <1>1 DEF MarkStatus
<1>3. status = "done" => rows # <<>> /\ rows[Len(rows)] = "final"
  BY <1>1 DEF TranscriptInv, ClaimHolds
<1> HIDE DEF k, rows
<1>4. TranscriptMatchesStatus'
  <2> SUFFICES ASSUME NEW id \in DOMAIN requests
               PROVE  /\ requests'[id] = "pending" => responseTokens[id] = <<>>
                      /\ requests'[id] = "done" => /\ responseTokens[id] # <<>>
                                                   /\ responseTokens[id][Len(responseTokens[id])] = "final"
                      /\ \A i \in DOMAIN responseTokens[id] :
                            responseTokens[id][i] = "final" => i = Len(responseTokens[id])
    BY <1>2 DEF TranscriptMatchesStatus
  <2>1. CASE id # k
    BY <1>2, <2>1 DEF TranscriptInv, TranscriptMatchesStatus
  <2>2. CASE id = k
    BY <1>2, <1>3, <2>2 DEF TranscriptInv, TranscriptMatchesStatus, rows
  <2> QED BY <2>1, <2>2
<1>5. ASSUME NEW c \in Brokers, loop'[c] \in {"running", "finishing"} PROVE requests'[claim[c]] # "pending"
  <2>1. CASE claim[c] = k
    BY <1>2, <2>1
  <2>2. CASE claim[c] # k
    <3>1. c # b /\ loop'[c] = loop[c]
      BY <2>2 DEF Types, k
    <3>2. claim[c] \in DOMAIN requests /\ requests[claim[c]] # "pending"
      BY <1>5, <3>1 DEF Types, Busy, TranscriptInv, ClaimHolds
    <3> QED BY <1>2, <2>2, <3>2
  <2> QED BY <2>1, <2>2
<1>6. ASSUME NEW c \in Brokers
      PROVE  /\ loop'[c] = "running" =>
                  /\ index'[c] <= Len(responseTokens[claim[c]])
                  /\ index'[c] = Len(responseTokens[claim[c]]) =>
                        \A i \in 1..Len(responseTokens[claim[c]]) : responseTokens[claim[c]][i] # "final"
             /\ loop'[c] = "finishing" =>
                  Len(responseTokens[claim[c]]) > 0 /\ responseTokens[claim[c]][Len(responseTokens[claim[c]])] = "final"
  <2>1. CASE c # b
    <3>1. loop'[c] = loop[c] /\ index'[c] = index[c]
      BY <2>1 DEF Types
    <3> QED BY <3>1 DEF TranscriptInv, ClaimHolds
  <2>2. CASE c = b
    <3>1. loop'[b] = "running" => index'[b] = 0
      BY DEF Types
    <3>2. loop'[b] # "finishing" /\ responseTokens[claim[c]] = rows
      BY <2>2 DEF Types, rows, k
    <3> QED BY <1>1, <2>2, <3>1, <3>2
  <2> QED BY <2>1, <2>2
<1>7. ClaimHolds'
  BY <1>5, <1>6 DEF ClaimHolds
<1> QED BY <1>4, <1>7 DEF TranscriptInv

\* A step that leaves the tables alone, and moves no loop into its work.
LEMMA OtherStep ==
    ASSUME TranscriptInv, requests' = requests, responseTokens' = responseTokens,
           \A b \in Brokers : loop'[b] \in {"running", "finishing"} =>
                loop'[b] = loop[b] /\ claim'[b] = claim[b] /\ index'[b] = index[b]
    PROVE  TranscriptInv'
<1>1. TranscriptMatchesStatus'
  BY DEF TranscriptInv, TranscriptMatchesStatus
<1>2. ClaimHolds'
  BY DEF TranscriptInv, ClaimHolds
<1> QED BY <1>1, <1>2 DEF TranscriptInv

\* What the loops know of their requests, and the statuses, in every reachable state.
LEMMA TranscriptInvariance == Spec => []TranscriptInv
<1>1. Init => TranscriptInv
  BY DEF Init, TranscriptInv, TranscriptMatchesStatus, ClaimHolds
<1>2. Types /\ TranscriptInv /\ [Next]_vars => TranscriptInv'
  <2> SUFFICES ASSUME Types, TranscriptInv, [Next]_vars PROVE TranscriptInv'
    OBVIOUS
  <2> USE DEF dbVars, Goto
  <2>1. ASSUME Insert PROVE TranscriptInv'
    <3>0. DOMAIN requests = 1..Len(requests) /\ DOMAIN responseTokens = 1..Len(requests) /\ Len(requests) \in Nat
      BY DomainFact
    <3>1. /\ \A id \in DOMAIN requests : requests'[id] = requests[id] /\ responseTokens'[id] = responseTokens[id]
          /\ DOMAIN requests' = 1..(Len(requests) + 1)
          /\ responseTokens'[Len(requests) + 1] = <<>> /\ requests'[Len(requests) + 1] = "pending"
      BY <2>1, <3>0 DEF Insert, Types
    <3>2. \A id \in DOMAIN requests' : id \in DOMAIN requests \/ id = Len(requests) + 1
      BY <3>0, <3>1
    <3>3. TranscriptMatchesStatus'
      BY <3>1, <3>2 DEF TranscriptInv, TranscriptMatchesStatus
    <3>4. ClaimHolds'
      <4>1. UNCHANGED <<loop, claim, index>>
        BY <2>1 DEF Insert
      <4>2. \A b \in Brokers : loop[b] \in {"running", "finishing"} => claim[b] \in DOMAIN requests
        BY DEF Types, Busy
      <4> QED BY <3>1, <4>1, <4>2 DEF TranscriptInv, ClaimHolds
    <3> QED BY <3>3, <3>4 DEF TranscriptInv
  <2>2. ASSUME NEW b \in Brokers, WriteFragment(b) PROVE TranscriptInv'
    <3>1. loop' = [loop EXCEPT ![b] = "running"]
      BY <2>2 DEF WriteFragment, Types
    <3> QED BY <2>2, <3>1, RowStep DEF WriteFragment, Row
  <2>3. ASSUME NEW b \in Brokers, WriteFinal(b) PROVE TranscriptInv'
    BY <2>3, RowStep DEF WriteFinal, Row
  <2>4. ASSUME NEW b \in Brokers, MarkRunning(b) PROVE TranscriptInv'
    BY <2>4, MarkStep DEF MarkRunning, Busy
  <2>5. ASSUME NEW b \in Brokers, MarkDone(b) PROVE TranscriptInv'
    BY <2>5, MarkStep DEF MarkDone, Busy
  <2>6. ASSUME NEW b \in Brokers, Fault(b) PROVE TranscriptInv'
    BY <2>6, MarkStep DEF Fault, Busy
  <2>7. ASSUME NEW b \in Brokers, Start(b) \/ StopTake(b) \/ Stop(b) \/ Select(b) \/ LoopEnds(b) \/ LoopDies(b)
        PROVE  TranscriptInv'
    <3>1. requests' = requests /\ responseTokens' = responseTokens
      BY <2>7 DEF Start, StopTake, Stop, StopCancel, StopReturn, Select, LoopEnds, LoopDies
    <3>2. \A c \in Brokers : loop'[c] \in {"running", "finishing"} =>
                loop'[c] = loop[c] /\ claim'[c] = claim[c] /\ index'[c] = index[c]
      BY <2>7 DEF Start, StopTake, Stop, StopCancel, StopReturn, Select, LoopEnds, LoopDies, Types
    <3> QED BY <3>1, <3>2, OtherStep
  <2>8. ASSUME Kill PROVE TranscriptInv'
    BY <2>8, OtherStep DEF Kill
  <2>9. CASE UNCHANGED vars
    BY <2>9, OtherStep DEF vars
  <2> QED BY <2>1, <2>2, <2>3, <2>4, <2>5, <2>6, <2>7, <2>8, <2>9 DEF Next, Loop
<1> QED BY <1>1, <1>2, TypesInvariant, PTL DEF Spec

\* The status of a request says what its rows are, for any number of loops, also
\* when two of them have claimed the same request.
THEOREM TranscriptIsHonest == Spec => []TranscriptMatchesStatus
<1>1. TranscriptInv => TranscriptMatchesStatus
  BY DEF TranscriptInv
<1> QED BY <1>1, TranscriptInvariance, PTL

----------------------------------------------------------------------------
\* The client

\* Rows are only ever added, and none to a transcript that has its final row.
LEMMA RowsKept ==
    ASSUME Types, TranscriptInv, [Next]_vars, NEW id \in DOMAIN requests
    PROVE  /\ Len(responseTokens[id]) \in Nat /\ Len(responseTokens'[id]) >= Len(responseTokens[id])
           /\ \A i \in 1..Len(responseTokens[id]) :
                 responseTokens[id][i] = "final" => responseTokens'[id] = responseTokens[id]
<1>0. DOMAIN requests = 1..Len(requests) /\ DOMAIN responseTokens = 1..Len(requests) /\ Len(requests) \in Nat
  BY DomainFact
<1>1. responseTokens[id] \in Seq(Row) /\ Len(responseTokens[id]) \in Nat
  BY <1>0 DEF Types
<1>2. CASE responseTokens'[id] = responseTokens[id]
  BY <1>1, <1>2
<1>3. CASE Insert
  <2>1. responseTokens' = Append(responseTokens, <<>>) /\ responseTokens \in Seq(Seq(Row)) /\ id \in 1..Len(responseTokens)
    BY <1>0, <1>3 DEF Insert, Types
  <2>2. responseTokens'[id] = responseTokens[id]
    BY <2>1
  <2> QED BY <1>2, <2>2
<1>4. ASSUME NEW b \in Brokers, NEW token \in Row, loop[b] = "running", KeyIsNew(b), InsertToken(b, token)
      PROVE  /\ Len(responseTokens'[id]) >= Len(responseTokens[id])
             /\ \A i \in 1..Len(responseTokens[id]) :
                   responseTokens[id][i] = "final" => responseTokens'[id] = responseTokens[id]
  <2>1. responseTokens' = [responseTokens EXCEPT ![claim[b]] = Append(responseTokens[claim[b]], token)]
    BY <1>4 DEF InsertToken
  <2>2. CASE id # claim[b]
    <3>1. responseTokens'[id] = responseTokens[id]
      BY <1>0, <2>1, <2>2
    <3> QED BY <1>1, <3>1
  <2>3. CASE id = claim[b]
    <3>1. responseTokens'[id] = Append(responseTokens[id], token)
      BY <1>0, <2>1, <2>3
    <3>2. Len(responseTokens'[id]) = Len(responseTokens[id]) + 1
      BY <1>1, <3>1
    <3>3. \A i \in 1..Len(responseTokens[id]) : responseTokens[id][i] # "final"
      BY <1>4, <2>3 DEF TranscriptInv, ClaimHolds, KeyIsNew, Rows
    <3> QED BY <1>1, <3>2, <3>3
  <2> QED BY <2>2, <2>3
<1>5. ASSUME NEW b \in Brokers, WriteFragment(b) \/ WriteFinal(b)
      PROVE  \E token \in Row : loop[b] = "running" /\ KeyIsNew(b) /\ InsertToken(b, token)
  BY <1>5 DEF WriteFragment, WriteFinal, Row
<1>6. ASSUME NEW b \in Brokers,
             \/ Start(b) \/ StopTake(b) \/ Stop(b) \/ Select(b) \/ MarkRunning(b) \/ MarkDone(b) \/ Fault(b)
             \/ LoopEnds(b) \/ LoopDies(b)
      PROVE  responseTokens' = responseTokens
  BY <1>6 DEF Start, StopTake, Stop, StopCancel, StopReturn, Select, MarkRunning, MarkDone, Fault, LoopEnds, LoopDies, dbVars
<1>7. CASE Kill \/ UNCHANGED vars
  BY <1>2, <1>7 DEF Kill, vars, dbVars
<1> QED BY <1>1, <1>2, <1>3, <1>4, <1>5, <1>6, <1>7 DEF Next, Loop

\* What the client does to the tables, and to the broker, the broker's own steps do.
LEMMA ClientRunsBroker == ClientSpec => Spec
<1>1. ClientInit => Init
  BY DEF ClientInit
<1>2. [ClientNext]_<<vars, clientVars>> => [Next]_vars
  <2> SUFFICES ASSUME [ClientNext]_<<vars, clientVars>> PROVE [Next]_vars
    OBVIOUS
  <2>1. CASE StreamStart
    BY <2>1 DEF StreamStart, Next
  <2>2. CASE Streaming \/ StreamCancel
    BY <2>2 DEF Streaming, QueryTokens, Forward, CloseOnFinal, QueryStatus, EmitToken, StreamEnd, StreamCancel
  <2>3. CASE KillApp
    BY <2>3 DEF KillApp, Next
  <2>4. ASSUME NEW b \in Brokers, Broker(b) PROVE Next
    BY <2>4 DEF Broker, Next
  <2>5. CASE UNCHANGED <<vars, clientVars>>
    BY <2>5
  <2> QED BY <2>1, <2>2, <2>3, <2>4, <2>5 DEF ClientNext
<1> QED BY <1>1, <1>2, PTL DEF ClientSpec, Spec

\* The first n rows of the transcript are all of it, and it is complete.
Delivered(n) == n = Len(Transcript) /\ n > 0 /\ Transcript[n] = "final"

\* The channel is closed normally only behind the final row, and the final row is
\* the last there will ever be, although the broker still writes the table.
ClientInv ==
    /\ requestId \in 0..Len(requests)
    /\ forwarded \in Nat /\ emitted \in 0..forwarded
    /\ channel \in {"open", "closed", "error"}
    /\ (stream = "streaming" \/ outcome = "completed") => requestId # 0
    /\ rowsSeen \in Nat
    /\ requestId # 0 => forwarded <= Len(Transcript) /\ rowsSeen <= Len(Transcript)
    /\ stream = "streaming" => outcome = "none"
    /\ (stream = "streaming" /\ (observer = "sawFinal" \/ channel = "closed")) => Delivered(forwarded)
    /\ outcome = "completed" => emitted = forwarded /\ Delivered(forwarded)

\* The steps of the broker under the client.
LEMMA BrokerKeepsClient ==
    ASSUME Types, TranscriptInv, ClientInv, [Next]_vars, Len(requests') = Len(requests),
           UNCHANGED clientVars
    PROVE  ClientInv'
<1> USE DEF clientVars
<1>1. /\ requestId' \in 0..Len(requests') /\ forwarded' \in Nat /\ emitted' \in 0..forwarded'
      /\ channel' \in {"open", "closed", "error"}
      /\ rowsSeen' \in Nat
      /\ (stream' = "streaming" \/ outcome' = "completed") => requestId' # 0
      /\ stream' = "streaming" => outcome' = "none"
  BY DEF ClientInv
<1>2. requestId # 0 => requestId \in DOMAIN requests
  BY DomainFact DEF ClientInv
<1>3. Transcript' = responseTokens'[requestId]
  BY DEF Transcript
<1>4. requestId # 0 => Len(Transcript) \in Nat /\ Len(Transcript)' >= Len(Transcript)
  BY <1>2, <1>3, RowsKept DEF Transcript
<1>5. requestId' # 0 => forwarded' <= Len(Transcript)' /\ rowsSeen' <= Len(Transcript)'
  <2> SUFFICES ASSUME requestId # 0 PROVE forwarded <= Len(Transcript)' /\ rowsSeen <= Len(Transcript)'
    OBVIOUS
  <2>0. Types'
    BY TypesStep
  <2>1. Types' /\ requestId \in DOMAIN responseTokens'
    <3>1. Len(requests) \in Nat /\ requestId \in 1..Len(requests)
      BY <1>2 DEF Types
    <3>2. responseTokens' \in Seq(Seq(Row)) /\ Len(responseTokens') = Len(requests)
      BY <2>0 DEF Types
    <3> QED BY <2>0, <3>1, <3>2
  <2>2. Len(Transcript)' \in Nat
    BY <1>3, <2>1 DEF Types
  <2> QED BY <1>4, <2>2 DEF ClientInv
<1>6. ASSUME requestId # 0, Delivered(forwarded) PROVE Delivered(forwarded)'
  <2>1. forwarded \in 1..Len(responseTokens[requestId]) /\ responseTokens[requestId][forwarded] = "final"
    BY <1>4, <1>6 DEF Delivered, Transcript, ClientInv
  <2>2. Transcript' = Transcript
    BY <1>2, <1>3, <1>6, <2>1, RowsKept DEF Transcript
  <2> QED BY <1>6, <2>2 DEF Delivered
<1>7. (stream' = "streaming" /\ (observer' = "sawFinal" \/ channel' = "closed")) => Delivered(forwarded)'
  BY <1>6 DEF ClientInv
<1>8. outcome' = "completed" => emitted' = forwarded' /\ Delivered(forwarded)'
  BY <1>6 DEF ClientInv
<1> QED BY <1>1, <1>5, <1>7, <1>8 DEF ClientInv

\* A stream that is over without having completed leaves nothing behind.
LEMMA EndedKeepsClient ==
    ASSUME Types, ClientInv, Ended("none"), UNCHANGED <<requestId, dbVars>>
    PROVE  ClientInv'
<1>1. /\ stream' = "idle" /\ outcome' = "none" /\ channel' = "closed"
      /\ forwarded' = 0 /\ emitted' = 0 /\ rowsSeen' = 0
      /\ UNCHANGED <<requestId, requests, responseTokens>>
  BY DEF Ended, dbVars
<1>2. requestId # 0 => requestId \in DOMAIN responseTokens
  BY DomainFact DEF ClientInv
<1>3. requestId' # 0 => Len(Transcript)' \in Nat
  BY <1>1, <1>2 DEF Transcript, Types
<1> QED BY <1>1, <1>3 DEF ClientInv

\* The client's invariant holds in every reachable state of client and broker.
LEMMA ClientInvariance == ClientSpec => []ClientInv
<1>1. ClientInit => ClientInv
  BY DEF ClientInit, Init, ClientInv
<1>2. Types /\ TranscriptInv /\ ClientInv /\ [ClientNext]_<<vars, clientVars>> => ClientInv'
  <2> SUFFICES ASSUME Types, TranscriptInv, ClientInv, [ClientNext]_<<vars, clientVars>> PROVE ClientInv'
    OBVIOUS
  <2>0. UNCHANGED vars => Transcript' = responseTokens[requestId'] /\ requests' = requests
    BY DEF vars, dbVars, Transcript
  <2>1. CASE StreamStart
    <3>1. /\ Insert /\ requestId' = Len(requests') /\ stream' = "streaming" /\ outcome' = "none"
          /\ forwarded' = 0 /\ emitted' = 0 /\ rowsSeen' = 0
          /\ observer' = "observing" /\ channel' = "open"
      BY <2>1 DEF StreamStart
    <3>2. Len(requests') = Len(requests) + 1 /\ Len(requests) \in Nat
      BY <3>1, DomainFact DEF Insert, Types
    <3>3. Transcript' = <<>>
      <4>1. requestId' = Len(responseTokens) + 1 /\ responseTokens' = Append(responseTokens, <<>>)
            /\ responseTokens \in Seq(Seq(Row)) /\ <<>> \in Seq(Row)
        BY <3>1, <3>2 DEF Insert, Types
      <4>2. responseTokens'[Len(responseTokens) + 1] = <<>>
        BY <4>1
      <4> QED BY <4>1, <4>2 DEF Transcript
    <3>4. Len(Transcript)' = 0
      BY <3>3
    <3> QED BY <3>1, <3>2, <3>4 DEF ClientInv
  <2>2. CASE Forward
    <3>1. /\ stream = "streaming" /\ observer = "observing" /\ forwarded < rowsSeen
          /\ requestId' = requestId /\ UNCHANGED vars
      BY <2>2 DEF Forward
    <3>2. requestId # 0 /\ requestId \in DOMAIN requests /\ requestId \in DOMAIN responseTokens /\ outcome = "none"
      BY <3>1, DomainFact DEF ClientInv
    <3>3. Transcript' = Transcript /\ Transcript \in Seq(Row) /\ Len(Transcript) \in Nat
      BY <2>0, <3>1, <3>2 DEF Transcript, Types
    <3>4. \A i \in 1..Len(Transcript) : Transcript[i] = "final" => i = Len(Transcript)
      BY <3>2, <3>3 DEF TranscriptInv, TranscriptMatchesStatus, Transcript
    <3>5. CASE channel = "open"
      <4>1. /\ forwarded' = forwarded + 1
            /\ observer' = IF Transcript[forwarded + 1] = "final" THEN "sawFinal" ELSE observer
            /\ UNCHANGED <<stream, outcome, emitted, rowsSeen, channel>>
        BY <2>2, <3>5 DEF Forward
      <4>2. forwarded + 1 \in 1..Len(Transcript) /\ emitted \in 0..forwarded + 1 /\ forwarded + 1 \in Nat
        BY <3>1, <3>2, <3>3 DEF ClientInv
      <4>3. observer' = "sawFinal" => Delivered(forwarded)'
        BY <3>1, <3>3, <3>4, <4>1, <4>2 DEF Delivered
      <4> QED BY <2>0, <3>1, <3>2, <3>3, <3>5, <4>1, <4>2, <4>3 DEF ClientInv
    <3>6. CASE channel # "open"
      BY <2>2, <3>1, <3>6, EndedKeepsClient DEF Forward, vars
    <3> QED BY <3>5, <3>6
  <2>3. CASE QueryTokens \/ CloseOnFinal \/ QueryStatus \/ EmitToken \/ StreamEnd
    <3>1. /\ stream = "streaming" /\ requestId' = requestId /\ UNCHANGED vars
          /\ requestId # 0 /\ outcome = "none"
      BY <2>3 DEF QueryTokens, CloseOnFinal, QueryStatus, EmitToken, StreamEnd, ClientInv
    <3>2. Transcript' = Transcript /\ requests' = requests
      BY <2>0, <3>1 DEF Transcript
    <3>3. forwarded' = forwarded /\ Delivered(forwarded) => Delivered(forwarded)'
      BY <3>1, <3>2 DEF Delivered
    <3>4. CASE QueryTokens
      <4>1. rowsSeen' = Len(Transcript) /\ UNCHANGED <<stream, outcome, forwarded, emitted, observer, channel>>
        BY <3>4 DEF QueryTokens
      <4>2. Len(Transcript) \in Nat
        BY <3>1, DomainFact DEF ClientInv, Transcript, Types
      <4> QED BY <3>1, <3>2, <3>3, <4>1, <4>2 DEF ClientInv
    <3>5. CASE CloseOnFinal
      <4>1. /\ observer = "sawFinal" /\ observer' = "ended" /\ channel' = (IF channel = "open" THEN "closed" ELSE channel)
            /\ UNCHANGED <<stream, outcome, forwarded, emitted, rowsSeen>>
        BY <3>5 DEF CloseOnFinal
      <4> QED BY <3>1, <3>2, <3>3, <4>1 DEF ClientInv
    <3>6. CASE QueryStatus
      <4>1. channel' = "error" /\ UNCHANGED <<stream, outcome, forwarded, emitted, rowsSeen, observer>>
        BY <3>6 DEF QueryStatus
      <4> QED BY <3>1, <3>2, <3>3, <4>1 DEF ClientInv
    <3>7. CASE EmitToken
      <4>1. /\ emitted < forwarded /\ emitted' = emitted + 1
            /\ UNCHANGED <<stream, outcome, forwarded, rowsSeen, observer, channel>>
        BY <3>7 DEF EmitToken
      <4> QED BY <3>1, <3>2, <3>3, <4>1 DEF ClientInv
    <3>8. CASE StreamEnd /\ channel = "error"
      BY <3>1, <3>8, EndedKeepsClient DEF StreamEnd, vars
    <3>9. CASE StreamEnd /\ channel # "error"
      <4>1. emitted = forwarded /\ channel = "closed" /\ Ended("completed")
        BY <3>9 DEF StreamEnd, ClientInv
      <4>2. /\ stream' = "idle" /\ outcome' = "completed" /\ channel' = "closed" /\ rowsSeen' = 0
            /\ UNCHANGED <<forwarded, emitted>>
        BY <4>1 DEF Ended
      <4>3. Delivered(forwarded)' /\ Len(Transcript) \in Nat
        BY <3>1, <3>3, <4>1, <4>2, DomainFact DEF ClientInv, Transcript, Types
      <4> QED BY <3>1, <3>2, <4>1, <4>2, <4>3 DEF ClientInv
    <3> QED BY <2>3, <3>4, <3>5, <3>6, <3>7, <3>8, <3>9
  <2>4. CASE StreamCancel
    BY <2>4, EndedKeepsClient DEF StreamCancel, vars
  <2>5. CASE KillApp
    BY <2>5, EndedKeepsClient DEF KillApp, Kill
  <2>6. ASSUME NEW b \in Brokers, Broker(b), UNCHANGED clientVars PROVE ClientInv'
    <3>1. Next
      BY <2>6 DEF Broker, Next
    <3>2. Len(requests') = Len(requests)
      <4>1. CASE MarkRunning(b) \/ MarkDone(b) \/ Fault(b)
        <5>1. claim[b] \in DOMAIN requests /\ \E s \in Status : MarkStatus(claim[b], s)
          BY <4>1 DEF MarkRunning, MarkDone, Fault, Types, Busy, Status
        <5> QED BY <5>1 DEF MarkStatus, Types
      <4>2. CASE ~(MarkRunning(b) \/ MarkDone(b) \/ Fault(b))
        <5>1. requests' = requests
          BY <2>6, <4>2 DEF Broker, Start, StopTake, Stop, StopCancel, StopReturn, Loop, Select, WriteFragment, WriteFinal,
                            LoopEnds, LoopDies, dbVars
        <5> QED BY <5>1
      <4> QED BY <4>1, <4>2
    <3> QED BY <2>6, <3>1, <3>2, BrokerKeepsClient
  <2>7. CASE UNCHANGED <<vars, clientVars>>
    <3>1. UNCHANGED vars /\ requests' = requests
      BY <2>7 DEF vars, dbVars
    <3> QED BY <2>7, <3>1, BrokerKeepsClient
  <2> QED BY <2>1, <2>2, <2>3, <2>4, <2>5, <2>6, <2>7 DEF ClientNext, Streaming
<1> QED BY <1>1, <1>2, ClientRunsBroker, TypesInvariant, TranscriptInvariance, PTL DEF ClientSpec

\* CompletedIsWhole: a stream that completes has emitted every row of its request,
\* the final marker last, whatever the observers and the broker did in which order.
THEOREM CompletedStreamIsWhole == ClientSpec => []CompletedIsWhole
<1>1. ClientInv => CompletedIsWhole
  BY DEF ClientInv, CompletedIsWhole, Delivered
<1> QED BY <1>1, ClientInvariance, PTL

=============================================================================
