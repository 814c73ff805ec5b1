--------------------------- MODULE SqliteBroker ---------------------------
(***************************************************************************)
(* The SQLite WAL message broker: the host inserts requests, a poll loop   *)
(* claims the oldest pending one, runs the orchestrator and writes one row *)
(* per token.  dni_broker_start and dni_broker_stop replace the broker,    *)
(* and the app may be killed at any point; the two tables survive both.    *)
(***************************************************************************)
EXTENDS Naturals, Sequences

CONSTANTS
    Brokers,        \* broker instances: bounds the calls of dni_broker_start
    MaxRequests,    \* bound on the requests the host inserts
    MaxFragments,   \* bound on the fragments of one answer
    DbFails         \* whether a statement of the broker may fail

ASSUME BrokersAssumption == "null" \notin Brokers
ASSUME BoundsAssumption == MaxRequests \in Nat /\ MaxFragments \in Nat
ASSUME DbFailsAssumption == DbFails \in BOOLEAN

VARIABLES
    requests,       \* status of every row of the table requests, by id
    responseTokens, \* the rows of response_tokens, by request id and idx
    broker,         \* SqliteExports._broker
    loop,           \* where each broker's poll loop is
    claim,          \* the id it selected
    index,          \* tokens it has written for that request
    canceled,       \* its CancellationTokenSource
    conn,           \* its connection
    stopping,       \* brokers inside dni_broker_stop
    overlapped      \* a broker was started while another one stopped (history)

dbVars == <<requests, responseTokens>>
vars == <<dbVars, broker, loop, claim, index, canceled, conn, stopping, overlapped>>

Status == {"pending", "running", "done", "error"}
Busy == {"claiming", "running", "finishing"}
Alive == Busy \cup {"polling"}

TypeOK ==
    /\ requests \in Seq(Status) /\ Len(requests) <= MaxRequests
    /\ responseTokens \in [DOMAIN requests -> Seq({"fragment", "final"})]
    /\ broker \in Brokers \cup {"null"}
    /\ loop \in [Brokers -> Alive \cup {"none", "ended", "dead", "killed"}]
    /\ claim \in [Brokers -> 0..MaxRequests]
    /\ index \in [Brokers -> 0..MaxFragments + 1]
    /\ canceled \in [Brokers -> BOOLEAN]
    /\ conn \in [Brokers -> {"none", "open", "disposed"}]
    /\ stopping \subseteq Brokers
    /\ overlapped \in BOOLEAN

Init ==
    /\ requests = <<>> /\ responseTokens = <<>>
    /\ broker = "null"
    /\ loop = [b \in Brokers |-> "none"]
    /\ claim = [b \in Brokers |-> 0] /\ index = [b \in Brokers |-> 0]
    /\ canceled = [b \in Brokers |-> FALSE]
    /\ conn = [b \in Brokers |-> "none"]
    /\ stopping = {} /\ overlapped = FALSE

Goto(b, label) == loop' = [loop EXCEPT ![b] = label]

----------------------------------------------------------------------------
\* The host.

\* A row inserted by a client.
Insert ==
    /\ Len(requests) < MaxRequests
    /\ requests' = Append(requests, "pending")
    /\ responseTokens' = Append(responseTokens, <<>>)
    /\ UNCHANGED <<broker, loop, claim, index, canceled, conn, stopping, overlapped>>

\* A new broker object. Which of the unused names it gets makes no difference.
NewBroker == CHOOSE b \in Brokers : loop[b] = "none"

\* dni_broker_start; a second call finds a broker and changes nothing.
Start(b) ==
    /\ broker = "null"
    /\ loop[b] = "none" /\ b = NewBroker
    /\ broker' = b
    /\ conn' = [conn EXCEPT ![b] = "open"]
    /\ Goto(b, "polling")
    /\ overlapped' = (overlapped \/ stopping # {})
    /\ UNCHANGED <<dbVars, claim, index, canceled, stopping>>

\* dni_broker_stop takes the broker under the lock, and stops it outside.
StopTake(b) ==
    /\ broker = b
    /\ broker' = "null"
    /\ stopping' = stopping \cup {b}
    /\ UNCHANGED <<dbVars, loop, claim, index, canceled, conn, overlapped>>

StopCancel(b) ==
    /\ b \in stopping
    /\ canceled' = [canceled EXCEPT ![b] = TRUE]
    /\ UNCHANGED <<dbVars, broker, loop, claim, index, conn, stopping, overlapped>>

\* Mutant: Stop does not wait for the loop.
StopReturnAtOnce(b) ==
    /\ b \in stopping /\ canceled[b]
    /\ conn' = [conn EXCEPT ![b] = "disposed"]
    /\ stopping' = stopping \ {b}
    /\ UNCHANGED <<dbVars, broker, loop, claim, index, canceled, overlapped>>

\* Stop has waited for the loop, then Dispose; the exception of a dead loop goes
\* past Dispose.
StopReturn(b) ==
    /\ b \in stopping /\ canceled[b]
    /\ loop[b] \in {"ended", "dead"}
    /\ conn' = [conn EXCEPT ![b] = IF loop[b] = "ended" THEN "disposed" ELSE @]
    /\ stopping' = stopping \ {b}
    /\ UNCHANGED <<dbVars, broker, loop, claim, index, canceled, overlapped>>

\* The app is killed; what was written is on disk.
Kill ==
    /\ \E b \in Brokers : loop[b] \notin {"none", "killed"}
    /\ broker' = "null"
    /\ loop' = [b \in Brokers |-> IF loop[b] = "none" THEN "none" ELSE "killed"]
    /\ conn' = [b \in Brokers |-> IF conn[b] = "open" THEN "disposed" ELSE conn[b]]
    /\ stopping' = {}
    /\ UNCHANGED <<dbVars, claim, index, canceled, overlapped>>

----------------------------------------------------------------------------
\* PollLoopAsync and ProcessNextPendingAsync.

Pending == {id \in DOMAIN requests : requests[id] = "pending"}

\* Mutant: the newest pending request.
LatestPending(id) == id \in Pending /\ \A other \in Pending : other <= id

\* Mutant: the next request once all the earlier ones are done.
NextPending(id) == id \in Pending /\ \A other \in 1..id - 1 : requests[other] = "done"

OldestPending(id) == id \in Pending /\ \A other \in Pending : id <= other

\* The SELECT; the row is not marked yet.
Select(b) ==
    /\ loop[b] = "polling"
    /\ ~canceled[b]
    /\ \E id \in DOMAIN requests :
          OldestPending(id) /\ claim' = [claim EXCEPT ![b] = id]
    /\ Goto(b, "claiming")
    /\ UNCHANGED <<dbVars, broker, index, canceled, conn, stopping, overlapped>>

MarkStatus(id, status) == requests' = [requests EXCEPT ![id] = status]

MarkRunning(b) ==
    /\ loop[b] = "claiming"
    /\ MarkStatus(claim[b], "running")
    /\ index' = [index EXCEPT ![b] = 0]
    /\ Goto(b, "running")
    /\ UNCHANGED <<responseTokens, broker, claim, canceled, conn, stopping, overlapped>>

Rows(b) == responseTokens[claim[b]]

\* The primary key (request_id, idx) of the next row is not taken: it would be
\* by the rows of another loop that claimed the same request.
KeyIsNew(b) == index[b] = Len(Rows(b))

InsertToken(b, token) ==
    /\ responseTokens' = [responseTokens EXCEPT ![claim[b]] = Append(@, token)]
    /\ index' = [index EXCEPT ![b] = @ + 1]

WriteFragment(b) ==
    /\ loop[b] = "running"
    /\ KeyIsNew(b)
    /\ index[b] < MaxFragments
    /\ InsertToken(b, "fragment")
    /\ UNCHANGED <<requests, broker, loop, claim, canceled, conn, stopping, overlapped>>

\* The final marker comes whether or not the loop is cancelled by now.
WriteFinal(b) ==
    /\ loop[b] = "running"
    /\ KeyIsNew(b)
    /\ InsertToken(b, "final")
    /\ Goto(b, "finishing")
    /\ UNCHANGED <<requests, broker, claim, canceled, conn, stopping, overlapped>>

MarkDone(b) ==
    /\ loop[b] = "finishing"
    /\ MarkStatus(claim[b], "done")
    /\ Goto(b, "polling")
    /\ UNCHANGED <<responseTokens, broker, claim, index, canceled, conn, stopping, overlapped>>

\* Mutant: the fault is swallowed and the row marked done.
FaultMarkedDone(b) ==
    /\ loop[b] \in {"running", "finishing"}
    /\ loop[b] = "finishing" => DbFails
    /\ MarkStatus(claim[b], "done")
    /\ Goto(b, "polling")
    /\ UNCHANGED <<responseTokens, broker, claim, index, canceled, conn, stopping, overlapped>>

\* The model, an insert or the last update throws; the loop goes on.
Fault(b) ==
    /\ loop[b] \in {"running", "finishing"}
    /\ loop[b] = "finishing" => DbFails
    /\ MarkStatus(claim[b], "error")
    /\ Goto(b, "polling")
    /\ UNCHANGED <<responseTokens, broker, claim, index, canceled, conn, stopping, overlapped>>

\* Mutant: the wait between two polls does not look at the token.
LoopEndsInModel(b) ==
    /\ loop[b] = "running"
    /\ canceled[b]
    /\ Goto(b, "ended")
    /\ UNCHANGED <<dbVars, broker, claim, index, canceled, conn, stopping, overlapped>>

\* OperationCanceledException, out of the delay, the SELECT or the model; a row
\* in progress stays 'running'.
LoopEnds(b) ==
    /\ loop[b] \in {"polling", "running"}
    /\ canceled[b]
    /\ Goto(b, "ended")
    /\ UNCHANGED <<dbVars, broker, claim, index, canceled, conn, stopping, overlapped>>

\* A statement outside the try block, or the update of the error, fails.
LoopDies(b) ==
    /\ DbFails
    /\ loop[b] \in Alive
    /\ Goto(b, "dead")
    /\ UNCHANGED <<dbVars, broker, claim, index, canceled, conn, stopping, overlapped>>

Loop(b) ==
    \/ Select(b) \/ MarkRunning(b)
    \/ WriteFragment(b) \/ WriteFinal(b) \/ MarkDone(b)
    \/ Fault(b) \/ LoopEnds(b)

----------------------------------------------------------------------------

Stop(b) == StopCancel(b) \/ StopReturn(b)

Next ==
    \/ Insert
    \/ \E b \in Brokers : Start(b) \/ StopTake(b) \/ Stop(b) \/ Loop(b) \/ LoopDies(b)
    \/ Kill

Spec == Init /\ [][Next]_vars

----------------------------------------------------------------------------
\* Properties.

\* The status says what the rows are: none before the request is claimed, all of
\* them and the final marker when it is done, and never a row after the final
\* marker, over stops, kills and restarts at any point.
TranscriptMatchesStatus ==
    \A id \in DOMAIN requests :
        LET rows == responseTokens[id] IN
        /\ requests[id] = "pending" => rows = <<>>
        /\ requests[id] = "done" => rows # <<>> /\ rows[Len(rows)] = "final"
        /\ \A i \in DOMAIN rows : rows[i] = "final" => i = Len(rows)

\* Requests are claimed in the order of their ids: none is passed over, also not
\* when the broker that claimed it was stopped or killed.
ServedInOrder ==
    \A id \in DOMAIN requests : \A later \in DOMAIN requests :
        id < later /\ requests[id] = "pending" => requests[later] = "pending"

Owners(id) == {b \in Brokers : loop[b] \in Busy /\ claim[b] = id}

\* A request is processed by at most one poll loop, as long as the host waits for
\* dni_broker_stop before it starts a broker again.  When the two overlap, the
\* claim, a SELECT and an UPDATE without a transaction, is not atomic.
ClaimedOnce == ~overlapped =>
    \A b, c \in Brokers : \A id \in DOMAIN requests :
        b \in Owners(id) /\ c \in Owners(id) => b = c

\* The poll loop a client can rely on.
Serving == \E b \in Brokers : broker = b /\ loop[b] \in Alive

\* A pending request is claimed by a broker that stays up.
PendingIsServed ==
    \A id \in 1..MaxRequests :
        (id \in Pending /\ Serving) ~> (id \notin Pending \/ ~Serving)

\* dni_broker_stop returns.
StopReturns == \A b \in Brokers : b \in stopping ~> b \notin stopping

=============================================================================
