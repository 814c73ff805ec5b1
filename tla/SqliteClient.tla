---------------------------- MODULE SqliteClient ----------------------------
(***************************************************************************)
(* The Android client of the SQLite broker, composed with the broker: it   *)
(* inserts a request, observes the request's rows and status through Room, *)
(* passes new rows through a channel and emits them.  One stream at a      *)
(* time and no stop during one, as in the app; a start that overlaps with  *)
(* a stop, which the app avoids and the exports allow, is left in.         *)
(* Room is external: an observer queries its table when it is launched,   *)
(* and again when Room's invalidation tracker notices a write, which       *)
(* nothing guarantees of a write the broker makes through a connection of  *)
(* its own.  Rows are only ever added, so the result of a query is a       *)
(* number of rows.                                                         *)
(***************************************************************************)
EXTENDS SqliteBroker

CONSTANT Buffer     \* slots of the channel (64 in the code)

ASSUME BufferAssumption == Buffer \in Nat \ {0}

VARIABLES
    requestId,              \* the request of the current or last stream, 0 before the first
    stream,                 \* "idle" or "streaming"
    outcome,                \* "completed" when the last stream has completed, else "none"
    forwarded, emitted,     \* rows sent, the last maybe suspended (lastSeenIdx + 1); rows emitted
    rowsSeen,               \* rows in the token observer's last result
    observer,               \* the token observer
    channel                 \* "open", or how it was closed

clientVars == <<requestId, stream, outcome, forwarded, emitted, rowsSeen, observer, channel>>

ClientTypeOK ==
    /\ requestId \in 0..Len(requests)
    /\ stream \in {"idle", "streaming"}
    /\ outcome \in {"none", "completed"}
    /\ forwarded \in 0..MaxFragments + 1
    /\ emitted \in 0..forwarded /\ forwarded - emitted <= Buffer + 1
    /\ rowsSeen \in 0..MaxFragments + 1
    /\ observer \in {"observing", "sawFinal", "ended"}
    /\ channel \in {"open", "closed", "error"}

ClientInit ==
    /\ Init
    /\ requestId = 0 /\ stream = "idle" /\ outcome = "none"
    /\ forwarded = 0 /\ emitted = 0 /\ rowsSeen = 0
    /\ observer = "ended" /\ channel = "closed"

Transcript == responseTokens[requestId]

\* The observer is not suspended in a send: what it sent is in the channel.
SendReturned == forwarded - emitted <= Buffer

----------------------------------------------------------------------------

\* A stream is over, and its coroutines and locals are gone.
Ended(how) ==
    /\ stream' = "idle" /\ outcome' = how
    /\ rowsSeen' = 0 /\ observer' = "ended" /\ channel' = "closed"
    /\ IF how = "completed" THEN UNCHANGED <<forwarded, emitted>>
                            ELSE forwarded' = 0 /\ emitted' = 0

\* The client was started; the row is inserted and the observers are launched.
StreamStart ==
    /\ stream = "idle"
    /\ broker # "null"
    /\ Insert
    /\ requestId' = Len(requests')
    /\ stream' = "streaming" /\ outcome' = "none"
    /\ forwarded' = 0 /\ emitted' = 0 /\ rowsSeen' = 0
    /\ observer' = "observing" /\ channel' = "open"

\* The token observer's query is answered, the first time or again, with rows it
\* has not seen; an answer without any changes nothing.
QueryTokens ==
    /\ stream = "streaming"
    /\ observer = "observing"
    /\ rowsSeen < Len(Transcript)
    /\ rowsSeen' = Len(Transcript)
    /\ UNCHANGED <<requestId, stream, outcome, forwarded, emitted, observer, channel, vars>>

\* The token observer sends the next row. A send that is suspended when the
\* channel is closed still gets through; a later one throws the cause, which is
\* not the exception the observer catches: the scope fails with it and the
\* emitting loop is cancelled, with rows of the channel not emitted. (Only
\* CloseOnFinal closes without a cause, and nothing is sent after it.)
Forward ==
    /\ stream = "streaming"
    /\ observer = "observing" /\ SendReturned
    /\ forwarded < rowsSeen
    /\ IF channel = "open"
       THEN /\ forwarded' = forwarded + 1
            /\ observer' = IF Transcript[forwarded + 1] = "final" THEN "sawFinal" ELSE observer
            /\ UNCHANGED <<stream, outcome, emitted, rowsSeen, channel>>
       ELSE Ended("none")
    /\ UNCHANGED <<requestId, vars>>

\* Mutant: every batch of rows closes the channel.
CloseAfterBatch ==
    /\ stream = "streaming"
    /\ observer \in {"observing", "sawFinal"} /\ forwarded > 0
    /\ observer' = "ended"
    /\ channel' = IF channel = "open" THEN "closed" ELSE channel
    /\ UNCHANGED <<requestId, stream, outcome, forwarded, emitted, rowsSeen, vars>>

CloseOnFinal ==
    /\ stream = "streaming"
    /\ observer = "sawFinal" /\ SendReturned
    /\ observer' = "ended"
    /\ channel' = IF channel = "open" THEN "closed" ELSE channel
    /\ UNCHANGED <<requestId, stream, outcome, forwarded, emitted, rowsSeen, vars>>

\* Mutant: the status is looked at only before the first row.
QueryStatusEarly ==
    /\ stream = "streaming"
    /\ channel = "open"
    /\ requests[requestId] = "error" /\ forwarded = 0
    /\ channel' = "error"
    /\ UNCHANGED <<requestId, stream, outcome, forwarded, emitted, rowsSeen, observer, vars>>

\* The status observer's query is answered with 'error', which closes the channel.
\* (So does 'canceled', which the broker never writes.)
QueryStatus ==
    /\ stream = "streaming"
    /\ channel = "open"
    /\ requests[requestId] = "error"
    /\ channel' = "error"
    /\ UNCHANGED <<requestId, stream, outcome, forwarded, emitted, rowsSeen, observer, vars>>

EmitToken ==
    /\ stream = "streaming"
    /\ emitted < forwarded
    /\ emitted' = emitted + 1
    /\ UNCHANGED <<requestId, stream, outcome, forwarded, rowsSeen, observer, channel, vars>>

\* The loop over the channel ends or throws, and the observers are cancelled.
StreamEnd ==
    /\ stream = "streaming"
    /\ emitted = forwarded
    /\ channel # "open"
    /\ Ended(IF channel = "error" THEN "none" ELSE "completed")
    /\ UNCHANGED <<requestId, vars>>

\* The collector is cancelled: the observers go, the request stays.
StreamCancel ==
    /\ stream = "streaming"
    /\ Ended("none")
    /\ UNCHANGED <<requestId, vars>>

\* The client is killed with the app.
KillApp ==
    /\ Kill
    /\ Ended("none")
    /\ UNCHANGED requestId

Streaming ==
    \/ QueryTokens \/ Forward \/ CloseOnFinal \/ QueryStatus \/ EmitToken \/ StreamEnd

\* start and stop of the client, and what the broker does by itself.
Broker(b) ==
    \/ Start(b) \/ (stream = "idle" /\ StopTake(b)) \/ Stop(b)
    \/ Loop(b) \/ LoopDies(b)

ClientNext ==
    \/ StreamStart \/ Streaming \/ StreamCancel \/ KillApp
    \/ (\E b \in Brokers : Broker(b)) /\ UNCHANGED clientVars

ClientSpec == ClientInit /\ [][ClientNext]_<<vars, clientVars>>

\* Poll loops run, and a stop goes on once it has begun; statements need not fail.
\* The client's coroutines go on. A first query needs no fairness: at the launch
\* the request is pending and has no rows, and an answer of then changes nothing.
FairClientSpec ==
    /\ ClientSpec
    /\ \A b \in Brokers :
          /\ WF_<<vars, clientVars>>(Loop(b) /\ UNCHANGED clientVars)
          /\ WF_<<vars, clientVars>>(Stop(b) /\ UNCHANGED clientVars)
    /\ WF_<<vars, clientVars>>(Forward \/ CloseOnFinal)
    /\ WF_<<vars, clientVars>>(EmitToken \/ StreamEnd)

\* What the client takes Room to do: an observer queries again after a write.
RoomNotifies ==
    WF_<<vars, clientVars>>(QueryTokens) /\ WF_<<vars, clientVars>>(QueryStatus)

----------------------------------------------------------------------------
\* Properties.

\* A stream that completes has emitted the whole transcript, final marker
\* included, whatever the observers, the broker and the emitting loop did in
\* which order.
CompletedIsWhole ==
    outcome = "completed" =>
        emitted = Len(Transcript) /\ emitted > 0 /\ Transcript[emitted] = "final"

Finished == requestId > 0 /\ requests[requestId] \in {"done", "error"}

\* The stream of a finished request ends if Room notices the broker's writes; in
\* particular the broker's 'error' reaches a client that will never see a final
\* row, whatever is suspended in a send and whichever observer comes first. (The
\* loops of a start that overlapped with a stop may take a status back.)
NotifiedStreamEnds ==
    RoomNotifies => ((stream = "streaming" /\ Finished) ~> (stream = "idle" \/ overlapped))

----------------------------------------------------------------------------
\* What the repository's comments say of the observers, and nothing guarantees.

\* observeTokensAfter "re-emits whenever the table changes" and observeStatus "on
\* every write to the row", so the stream of a finished request ends.
FinishedStreamEnds == (stream = "streaming" /\ Finished) ~> stream = "idle"

=============================================================================
