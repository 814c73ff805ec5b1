------------------------------ MODULE PbChannel -----------------------------
(***************************************************************************)
(* The framed-protobuf transport: PbFrameServer with its optional          *)
(* post-quantum handshake, and Android's PbTransport, which starts the     *)
(* server on demand, keeps one shared connection for requests behind a     *)
(* mutex, opens a connection of its own for every stream, and restarts the *)
(* server to change between plaintext and PQ.                              *)
(*                                                                         *)
(* A server instance is named by the number of its start, which is also    *)
(* its port; Stop cancels its token, so an instance other than the live    *)
(* one is a cancelled one.  A frame is what it carries and whether it is   *)
(* encrypted; an end with a cipher takes an encrypted frame and no other.  *)
(***************************************************************************)
EXTENDS Naturals, Sequences

CONSTANTS
    MaxServers,   \* starts of the server
    MaxConns,     \* connections
    MaxCalls,     \* callers, each with one request for the shared connection
    MaxResets     \* connections the system drops

ASSUME BoundsAssumption ==
    /\ MaxServers \in Nat /\ MaxConns \in Nat
    /\ MaxCalls \in Nat /\ MaxResets \in Nat

VARIABLES
    \* PbFrameServer
    listener,     \* the live instance, 0 when there is none
    started,      \* instances so far
    pq,           \* the mode each was started in (history)
    requirePq,    \* _requirePq, which outlives its instance
    identity,     \* the instance _pqcIdentity belongs to, 0 when null
    posture,      \* the instance whose PQ channel TrustPosture reports, 0 when null
    \* the connections
    conns,        \* how many there are
    server,       \* the instance each was made to
    handler,      \* the server's task for it
    toServer, toClient,
    sCipher, cCipher,   \* the server's and the client's end have a cipher
    cOpen,        \* the client's end is open
    \* PbTransport and its users
    secureMode, port, shared, lastParams,
    mutex,        \* who holds it
    call,         \* withConnection, for each caller
    stream,       \* the streaming client
    \* history
    resets, executed, replies,
    rejected,     \* connections with a frame the reader could not accept
    switchCanceled

serverVars == <<listener, started, pq, requirePq, identity, posture>>
connVars == <<conns, server, handler, toServer, toClient, sCipher, cCipher, cOpen>>
clientVars == <<secureMode, port, shared, lastParams, mutex, call, stream>>
historyVars == <<resets, executed, replies, rejected, switchCanceled>>
vars == <<serverVars, connVars, clientVars, historyVars>>

Servers == 1..MaxServers
Conns == 1..MaxConns
Calls == 1..MaxCalls

\* The holders of the mutex: a caller is its number.
Nobody == 0
Streamer == MaxCalls + 1
Switcher == MaxCalls + 2

\* of: the request a frame carries or answers; 0 in the handshake and on a stream.
Frame == [kind : {"offer", "reply", "run", "rag", "response", "chunk", "final", "error"},
          of : 0..MaxCalls, encrypted : BOOLEAN]

\* Where HandleClientAsync is; in the backlog it does not run yet.
HandlerStates ==
    {"none", "backlog", "accepted", "offered", "publishing", "reading", "streaming", "closed"}

TypeOK ==
    /\ listener \in 0..MaxServers /\ started \in 0..MaxServers
    /\ pq \in [Servers -> BOOLEAN]
    /\ requirePq \in BOOLEAN
    /\ identity \in 0..MaxServers /\ posture \in 0..MaxServers
    /\ conns \in 0..MaxConns
    /\ server \in [Conns -> 0..MaxServers]
    /\ handler \in [Conns -> HandlerStates]
    /\ toServer \in [Conns -> Seq(Frame)] /\ toClient \in [Conns -> Seq(Frame)]
    /\ sCipher \in [Conns -> BOOLEAN] /\ cCipher \in [Conns -> BOOLEAN]
    /\ cOpen \in [Conns -> BOOLEAN]
    /\ secureMode \in BOOLEAN
    /\ port \in 0..MaxServers /\ shared \in 0..MaxConns /\ lastParams \in 0..MaxServers
    /\ mutex \in 0..Switcher
    /\ call \in [Calls -> [pc : {"idle", "opening", "handshaking", "sending", "waiting", "done"},
                           conn : 0..MaxConns, retried : BOOLEAN]]
    /\ stream \in [pc : {"idle", "opening", "handshaking", "sending", "reading",
                         "completed", "failed", "canceled"},
                   conn : 0..MaxConns, final : BOOLEAN]
    /\ resets \in 0..MaxResets
    /\ executed \in [Calls -> Nat] /\ replies \in [Calls -> 0..MaxCalls]
    /\ rejected \subseteq Conns
    /\ switchCanceled \in BOOLEAN

Init ==
    /\ listener = 0 /\ started = 0
    /\ pq = [i \in Servers |-> FALSE]
    /\ requirePq = FALSE
    /\ identity = 0 /\ posture = 0
    /\ conns = 0
    /\ server = [c \in Conns |-> 0]
    /\ handler = [c \in Conns |-> "none"]
    /\ toServer = [c \in Conns |-> <<>>] /\ toClient = [c \in Conns |-> <<>>]
    /\ sCipher = [c \in Conns |-> FALSE] /\ cCipher = [c \in Conns |-> FALSE]
    /\ cOpen = [c \in Conns |-> FALSE]
    /\ secureMode = FALSE
    /\ port = 0 /\ shared = 0 /\ lastParams = 0
    /\ mutex = Nobody
    /\ call = [r \in Calls |-> [pc |-> "idle", conn |-> 0, retried |-> FALSE]]
    /\ stream = [pc |-> "idle", conn |-> 0, final |-> FALSE]
    /\ resets = 0
    /\ executed = [r \in Calls |-> 0] /\ replies = [r \in Calls |-> 0]
    /\ rejected = {}
    /\ switchCanceled = FALSE

----------------------------------------------------------------------------
\* PbFrameServer: one task per connection.  A cancelled token makes every read
\* and write of it throw, which ends the task and closes the socket.

Live(c) == server[c] = listener

FromServer(c, kind, r) ==
    toClient' = [toClient EXCEPT ![c] = Append(@, [kind |-> kind, of |-> r, encrypted |-> sCipher[c]])]

HandlerGoes(c, where) == handler' = [handler EXCEPT ![c] = where]

Accept(c) ==
    /\ handler[c] = "backlog" /\ Live(c)
    /\ HandlerGoes(c, "accepted")
    /\ UNCHANGED <<serverVars, conns, server, toServer, toClient, sCipher, cCipher, cOpen, clientVars, historyVars>>

\* Publishing is the one stretch of a handler that does not look at the token.
HandlerCanceled(c) ==
    /\ handler[c] \notin {"none", "publishing", "closed"} /\ ~Live(c)
    /\ HandlerGoes(c, "closed")
    /\ UNCHANGED <<serverVars, conns, server, toServer, toClient, sCipher, cCipher, cOpen, clientVars, historyVars>>

HandlerSeesEof(c) ==
    /\ handler[c] \in {"offered", "reading"} /\ Live(c)
    /\ ~cOpen[c] /\ toServer[c] = <<>>
    /\ HandlerGoes(c, "closed")
    /\ UNCHANGED <<serverVars, conns, server, toServer, toClient, sCipher, cCipher, cOpen, clientVars, historyVars>>

\* HandleClientAsync looks at the server's mode when it runs, which may be that
\* of a later instance than the one that accepted the connection.
EnterPlain(c) ==
    /\ handler[c] = "accepted" /\ ~requirePq
    /\ HandlerGoes(c, "reading")
    /\ UNCHANGED <<serverVars, conns, server, toServer, toClient, sCipher, cCipher, cOpen, clientVars, historyVars>>

SendOffer(c) ==
    /\ handler[c] = "accepted" /\ requirePq
    /\ identity # 0 /\ Live(c)
    /\ FromServer(c, "offer", 0)
    /\ HandlerGoes(c, "offered")
    /\ UNCHANGED <<serverVars, conns, server, toServer, sCipher, cCipher, cOpen, clientVars, historyVars>>

\* Mutant: the server goes on without a cipher.
ReadReplyNoCipher(c) ==
    /\ handler[c] = "offered" /\ Live(c)
    /\ toServer[c] # <<>>
    /\ toServer' = [toServer EXCEPT ![c] = Tail(@)]
    /\ HandlerGoes(c, "publishing")
    /\ UNCHANGED <<serverVars, conns, server, toClient, sCipher, cCipher, cOpen, clientVars, historyVars>>

\* The reply gives both directions their keys; anything else fails the handshake.
ReadReply(c) ==
    /\ handler[c] = "offered" /\ Live(c)
    /\ toServer[c] # <<>>
    /\ toServer' = [toServer EXCEPT ![c] = Tail(@)]
    /\ IF Head(toServer[c]).kind = "reply"
       THEN /\ sCipher' = [sCipher EXCEPT ![c] = TRUE]
            /\ HandlerGoes(c, "publishing")
            /\ UNCHANGED toClient
       ELSE /\ FromServer(c, "error", 0)
            /\ HandlerGoes(c, "closed")
            /\ UNCHANGED sCipher
    /\ UNCHANGED <<serverVars, conns, server, cCipher, cOpen, clientVars, historyVars>>

\* Mutant: the posture is published whether or not the server was stopped.
PublishAnyway(c) ==
    /\ handler[c] = "publishing"
    /\ posture' = server[c]
    /\ HandlerGoes(c, "reading")
    /\ UNCHANGED <<listener, started, pq, requirePq, identity, conns, server, toServer, toClient,
                   sCipher, cCipher, cOpen, clientVars, historyVars>>

\* Under the gate, and only if the token is not cancelled.
Publish(c) ==
    /\ handler[c] = "publishing"
    /\ posture' = IF Live(c) THEN server[c] ELSE posture
    /\ HandlerGoes(c, "reading")
    /\ UNCHANGED <<listener, started, pq, requirePq, identity, conns, server, toServer, toClient,
                   sCipher, cCipher, cOpen, clientVars, historyVars>>

\* ReadFrameAsync, ParseFrom and the execution of a request.  A frame that does
\* not decrypt is answered with ErrorTamper and the connection is closed.
ReadRequest(c) ==
    /\ handler[c] = "reading" /\ Live(c)
    /\ toServer[c] # <<>>
    /\ toServer' = [toServer EXCEPT ![c] = Tail(@)]
    /\ LET frame == Head(toServer[c])
       IN  \/ /\ frame.encrypted = sCipher[c] /\ frame.kind = "run"
              /\ executed' = [executed EXCEPT ![frame.of] = @ + 1]
              /\ FromServer(c, "response", frame.of)
              /\ UNCHANGED <<handler, rejected>>
           \/ /\ frame.encrypted = sCipher[c] /\ frame.kind = "rag"
              /\ HandlerGoes(c, "streaming")
              /\ UNCHANGED <<toClient, executed, rejected>>
           \/ /\ frame.encrypted # sCipher[c] \/ frame.kind \notin {"run", "rag"}
              /\ FromServer(c, "error", 0)
              /\ HandlerGoes(c, "closed")
              /\ rejected' = rejected \cup {c}
              /\ UNCHANGED executed
    /\ UNCHANGED <<serverVars, conns, server, sCipher, cCipher, cOpen, clientVars,
                   resets, replies, switchCanceled>>

\* StreamRagAsync: a chunk per token, the last marked final.
SendChunk(c) ==
    /\ handler[c] = "streaming" /\ Live(c)
    /\ toClient[c] = <<>>
    /\ FromServer(c, "chunk", 0)
    /\ UNCHANGED <<serverVars, conns, server, handler, toServer, sCipher, cCipher, cOpen, clientVars, historyVars>>

SendFinal(c) ==
    /\ handler[c] = "streaming" /\ Live(c)
    /\ FromServer(c, "final", 0)
    /\ HandlerGoes(c, "reading")
    /\ UNCHANGED <<serverVars, conns, server, toServer, sCipher, cCipher, cOpen, clientVars, historyVars>>

\* The session faults: the exception leaves HandleClientAsync, which closes the
\* socket without a frame.  So does a write to a client that is gone.
StreamFaults(c) ==
    /\ handler[c] = "streaming" /\ Live(c)
    /\ HandlerGoes(c, "closed")
    /\ UNCHANGED <<serverVars, conns, server, toServer, toClient, sCipher, cCipher, cOpen, clientVars, historyVars>>

\* The system drops a connection, with what was under way in both directions.
Reset(c) ==
    /\ resets < MaxResets
    /\ handler[c] \notin {"none", "publishing", "closed"}
    /\ resets' = resets + 1
    /\ HandlerGoes(c, "closed")
    /\ toServer' = [toServer EXCEPT ![c] = <<>>]
    /\ toClient' = [toClient EXCEPT ![c] = <<>>]
    /\ UNCHANGED <<serverVars, conns, server, sCipher, cCipher, cOpen, clientVars,
                   executed, replies, rejected, switchCanceled>>

----------------------------------------------------------------------------
\* PbTransport and PbConnection.  Everything up to the frames of a stream runs
\* under the mutex.

FromClient(c, kind, r) ==
    toServer' = [toServer EXCEPT ![c] = Append(@, [kind |-> kind, of |-> r, encrypted |-> cCipher[c]])]

Lost(c) == handler[c] = "closed" /\ toClient[c] = <<>>

CallAt(r, pc, c, retried) ==
    call' = [call EXCEPT ![r] = [pc |-> pc, conn |-> c, retried |-> retried]]

CallDone(r) ==
    /\ CallAt(r, "done", 0, call[r].retried)
    /\ mutex' = Nobody

\* A bound on the model: a call starts when the connections it may need are left.
ConnectionsLeft == conns + (IF shared = 0 THEN 2 ELSE 1) <= MaxConns

\* Mutant: callers do not wait for one another.
CallUnlocked(r) ==
    /\ mutex \in {Nobody} \cup Calls
    /\ call[r].pc = "idle" /\ ConnectionsLeft
    /\ mutex' = r
    /\ CallAt(r, IF shared = 0 THEN "opening" ELSE "sending", shared, FALSE)
    /\ UNCHANGED <<serverVars, connVars, secureMode, port, shared, lastParams, stream, historyVars>>

\* withConnection.
Call(r) ==
    /\ mutex = Nobody
    /\ call[r].pc = "idle" /\ ConnectionsLeft
    /\ mutex' = r
    /\ CallAt(r, IF shared = 0 THEN "opening" ELSE "sending", shared, FALSE)
    /\ UNCHANGED <<serverVars, connVars, secureMode, port, shared, lastParams, stream, historyVars>>

\* openConnection, for a stream.
StreamStarts ==
    /\ mutex = Nobody
    /\ stream.pc = "idle" /\ conns < MaxConns
    /\ mutex' = Streamer
    /\ stream' = [stream EXCEPT !.pc = "opening"]
    /\ UNCHANGED <<serverVars, connVars, secureMode, port, shared, lastParams, call, historyVars>>

\* Mutant: the mode of the first start stays.
StartKeepsMode ==
    /\ started < MaxServers
    /\ started' = started + 1
    /\ listener' = started'
    /\ pq' = [pq EXCEPT ![started'] = secureMode]
    /\ identity' = IF secureMode THEN started' ELSE identity
    /\ UNCHANGED <<requirePq, posture>>

\* A new instance, with an identity of its own in PQ mode.
Start ==
    /\ started < MaxServers
    /\ started' = started + 1
    /\ listener' = started'
    /\ pq' = [pq EXCEPT ![started'] = secureMode]
    /\ requirePq' = secureMode
    /\ identity' = IF secureMode THEN started' ELSE identity
    /\ UNCHANGED posture

\* ensurePort: the cached port, or that of the server dni_pb_start finds up or
\* starts now.  A live one in the other mode refuses, which is no IOException.
EnsurePort ==
    \/ /\ port # 0
       /\ UNCHANGED <<serverVars, port>>
    \/ /\ port = 0 /\ listener # 0 /\ requirePq = secureMode
       /\ port' = listener
       /\ UNCHANGED serverVars
    \/ /\ port = 0 /\ listener = 0
       /\ Start
       /\ port' = listener'

StartRefused == port = 0 /\ listener # 0 /\ requirePq # secureMode

\* PbConnection.open: the socket connects when its port is that of a listener.
Connect ==
    /\ conns < MaxConns
    /\ EnsurePort
    /\ port' = listener'
    /\ conns' = conns + 1
    /\ server' = [server EXCEPT ![conns'] = port']
    /\ handler' = [handler EXCEPT ![conns'] = "backlog"]
    /\ cOpen' = [cOpen EXCEPT ![conns'] = TRUE]

CloseEnd(c) == cOpen' = [d \in Conns |-> cOpen[d] /\ d # c]

CallConnects(r) ==
    /\ call[r].pc = "opening"
    /\ Connect
    /\ CallAt(r, IF secureMode THEN "handshaking" ELSE "sending", conns', call[r].retried)
    /\ shared' = IF secureMode THEN shared ELSE conns'
    /\ UNCHANGED <<toServer, toClient, sCipher, cCipher, secureMode, lastParams, mutex, stream, historyVars>>

\* PqHandshakeClient: the offer is answered in plaintext, then the cipher is attached.
Handshake(c) ==
    /\ toClient[c] # <<>> /\ Head(toClient[c]).kind = "offer"
    /\ toClient' = [toClient EXCEPT ![c] = Tail(@)]
    /\ FromClient(c, "reply", 0)
    /\ cCipher' = [cCipher EXCEPT ![c] = TRUE]
    /\ lastParams' = server[c]

CallHandshakes(r) ==
    /\ call[r].pc = "handshaking"
    /\ Handshake(call[r].conn)
    /\ shared' = call[r].conn
    /\ CallAt(r, "sending", call[r].conn, call[r].retried)
    /\ UNCHANGED <<serverVars, conns, server, handler, sCipher, cOpen,
                   secureMode, port, mutex, stream, historyVars>>

CallSends(r) ==
    /\ call[r].pc = "sending"
    /\ FromClient(call[r].conn, "run", r)
    /\ CallAt(r, "waiting", call[r].conn, call[r].retried)
    /\ UNCHANGED <<serverVars, conns, server, handler, toClient, sCipher, cCipher, cOpen,
                   secureMode, port, shared, lastParams, mutex, stream, historyVars>>

CallReceives(r) ==
    LET c == call[r].conn
        frame == Head(toClient[c])
    IN  /\ call[r].pc = "waiting" /\ toClient[c] # <<>>
        /\ frame.encrypted = cCipher[c] /\ frame.kind = "response"
        /\ toClient' = [toClient EXCEPT ![c] = Tail(@)]
        /\ replies' = [replies EXCEPT ![r] = frame.of]
        /\ CallDone(r)
        /\ UNCHANGED <<serverVars, conns, server, handler, toServer, sCipher, cCipher, cOpen,
                       secureMode, port, shared, lastParams, stream,
                       resets, executed, rejected, switchCanceled>>

\* Neither a refused start, nor a failed handshake, nor an error frame, nor a
\* frame that does not decrypt is an IOException: withConnection passes it on.
CallThrows(r) ==
    LET c == call[r].conn
        unreadable == toClient[c] # <<>> /\ \/ Head(toClient[c]).kind # "response"
                                            \/ Head(toClient[c]).encrypted # cCipher[c]
    IN  /\ \/ call[r].pc = "opening" /\ StartRefused /\ UNCHANGED <<toClient, cOpen, rejected>>
           \/ /\ call[r].pc = "handshaking"
              /\ Lost(c) \/ (toClient[c] # <<>> /\ Head(toClient[c]).kind # "offer")
              /\ CloseEnd(c)
              /\ UNCHANGED <<toClient, rejected>>
           \/ /\ call[r].pc = "waiting" /\ unreadable
              /\ toClient' = [toClient EXCEPT ![c] = Tail(@)]
              /\ rejected' = rejected \cup {c}
              /\ UNCHANGED cOpen
        /\ CallDone(r)
        /\ UNCHANGED <<serverVars, conns, server, handler, toServer, sCipher, cCipher,
                       secureMode, port, shared, lastParams, stream,
                       resets, executed, replies, switchCanceled>>

\* The connection is refused or lost: once more on a new one.  A second loss is
\* passed on, and a shared connection lost then stays until the next caller meets it.
CallIOException(r) ==
    LET again == ~call[r].retried
    IN  /\ \/ call[r].pc = "opening" /\ port \notin {0, listener}
           \/ call[r].pc \in {"handshaking", "waiting"} /\ Lost(call[r].conn)
        /\ IF again \/ call[r].pc = "handshaking" THEN CloseEnd(call[r].conn) ELSE UNCHANGED cOpen
        /\ shared' = IF again THEN 0 ELSE shared
        /\ CallAt(r, IF again THEN "opening" ELSE "done", 0, TRUE)
        /\ mutex' = IF again THEN mutex ELSE Nobody
        /\ UNCHANGED <<serverVars, conns, server, handler, toServer, toClient, sCipher, cCipher,
                       secureMode, port, lastParams, stream, historyVars>>

----------------------------------------------------------------------------
\* PbInferenceClient.

\* openConnection returns to its caller; cancelled meanwhile, withContext drops the
\* open connection and nobody closes it.
StreamOpened(c) ==
    /\ \E pc \in {"sending", "canceled"} : stream' = [stream EXCEPT !.pc = pc, !.conn = c]
    /\ mutex' = Nobody

StreamConnects ==
    /\ stream.pc = "opening"
    /\ Connect
    /\ IF secureMode
       THEN /\ stream' = [stream EXCEPT !.pc = "handshaking", !.conn = conns']
            /\ UNCHANGED mutex
       ELSE StreamOpened(conns')
    /\ UNCHANGED <<toServer, toClient, sCipher, cCipher, secureMode, shared, lastParams, call, historyVars>>

StreamHandshakes ==
    /\ stream.pc = "handshaking"
    /\ Handshake(stream.conn)
    /\ StreamOpened(stream.conn)
    /\ UNCHANGED <<serverVars, conns, server, handler, sCipher, cOpen,
                   secureMode, port, shared, call, historyVars>>

StreamOpenFails ==
    LET c == stream.conn
    IN  /\ \/ stream.pc = "opening" /\ (StartRefused \/ port \notin {0, listener})
           \/ /\ stream.pc = "handshaking"
              /\ Lost(c) \/ (toClient[c] # <<>> /\ Head(toClient[c]).kind # "offer")
        /\ CloseEnd(c)
        /\ stream' = [stream EXCEPT !.pc = "failed"]
        /\ mutex' = Nobody
        /\ UNCHANGED <<serverVars, conns, server, handler, toServer, toClient, sCipher, cCipher,
                       secureMode, port, shared, lastParams, call, historyVars>>

StreamSends ==
    /\ stream.pc = "sending"
    /\ FromClient(stream.conn, "rag", 0)
    /\ stream' = [stream EXCEPT !.pc = "reading"]
    /\ UNCHANGED <<serverVars, conns, server, handler, toClient, sCipher, cCipher, cOpen,
                   secureMode, port, shared, lastParams, mutex, call, historyVars>>

\* A chunk is emitted, which is where a cancelled flow ends; the final chunk ends it too.
StreamReceives ==
    LET c == stream.conn
        frame == Head(toClient[c])
    IN  /\ stream.pc = "reading" /\ toClient[c] # <<>>
        /\ frame.encrypted = cCipher[c] /\ frame.kind \in {"chunk", "final"}
        /\ toClient' = [toClient EXCEPT ![c] = Tail(@)]
        /\ \/ frame.kind = "chunk" /\ UNCHANGED <<stream, cOpen>>
           \/ /\ frame.kind = "chunk"
              /\ CloseEnd(c)
              /\ stream' = [stream EXCEPT !.pc = "canceled"]
           \/ /\ frame.kind = "final"
              /\ CloseEnd(c)
              /\ stream' = [stream EXCEPT !.pc = "completed", !.final = TRUE]
        /\ UNCHANGED <<serverVars, conns, server, handler, toServer, sCipher, cCipher,
                       secureMode, port, shared, lastParams, mutex, call, historyVars>>

StreamThrows ==
    LET c == stream.conn
        unreadable == toClient[c] # <<>> /\ \/ Head(toClient[c]).kind \notin {"chunk", "final"}
                                            \/ Head(toClient[c]).encrypted # cCipher[c]
    IN  /\ stream.pc = "reading"
        /\ \/ unreadable /\ rejected' = rejected \cup {c}
           \/ Lost(c) /\ UNCHANGED rejected
        /\ CloseEnd(c)
        /\ stream' = [stream EXCEPT !.pc = "failed"]
        /\ UNCHANGED <<serverVars, conns, server, handler, toServer, toClient, sCipher, cCipher,
                       secureMode, port, shared, lastParams, mutex, call,
                       resets, executed, replies, switchCanceled>>

\* A lost connection that reads as end of file ends the flow as if it were whole.
StreamEof ==
    /\ stream.pc = "reading" /\ Lost(stream.conn)
    /\ CloseEnd(stream.conn)
    /\ stream' = [stream EXCEPT !.pc = "completed"]
    /\ UNCHANGED <<serverVars, conns, server, handler, toServer, toClient, sCipher, cCipher,
                   secureMode, port, shared, lastParams, mutex, call, historyVars>>

----------------------------------------------------------------------------
\* setSecure: the shared connection and the server go, then the fields change,
\* unless the caller was cancelled while the server was being stopped.

Stop ==
    /\ listener' = 0 /\ identity' = 0 /\ posture' = 0
    /\ UNCHANGED <<started, pq, requirePq>>

SetSecure ==
    /\ mutex = Nobody
    /\ started < MaxServers
    /\ mutex' = Switcher
    /\ CloseEnd(shared)
    /\ shared' = 0
    /\ Stop
    /\ UNCHANGED <<conns, server, handler, toServer, toClient, sCipher, cCipher,
                   secureMode, port, lastParams, call, stream, historyVars>>

\* Mutant: the port of the stopped server is kept.
SwitchDoneKeepsPort ==
    /\ mutex = Switcher
    /\ mutex' = Nobody
    /\ secureMode' = ~secureMode
    /\ lastParams' = 0
    /\ switchCanceled' = FALSE
    /\ UNCHANGED <<serverVars, connVars, port, shared, call, stream,
                   resets, executed, replies, rejected>>

SwitchDone ==
    /\ mutex = Switcher
    /\ mutex' = Nobody
    /\ port' = 0 /\ lastParams' = 0
    /\ secureMode' = ~secureMode
    /\ switchCanceled' = FALSE
    /\ UNCHANGED <<serverVars, connVars, shared, call, stream,
                   resets, executed, replies, rejected>>

SwitchCanceled ==
    /\ mutex = Switcher
    /\ mutex' = Nobody
    /\ switchCanceled' = TRUE
    /\ UNCHANGED <<serverVars, connVars, secureMode, port, shared, lastParams, call, stream,
                   resets, executed, replies, rejected>>

----------------------------------------------------------------------------
HandlerStep(c) ==
    \/ Accept(c) \/ EnterPlain(c) \/ SendOffer(c) \/ ReadReply(c) \/ Publish(c)
    \/ ReadRequest(c) \/ SendFinal(c)
    \/ HandlerCanceled(c) \/ HandlerSeesEof(c)

CallStep(r) ==
    \/ CallConnects(r) \/ CallHandshakes(r) \/ CallSends(r) \/ CallReceives(r)
    \/ CallThrows(r) \/ CallIOException(r)

StreamStep ==
    \/ StreamConnects \/ StreamHandshakes \/ StreamOpenFails \/ StreamSends
    \/ StreamReceives \/ StreamThrows \/ StreamEof

SwitchStep == SwitchDone \/ SwitchCanceled

Next ==
    \/ \E c \in Conns : HandlerStep(c) \/ SendChunk(c) \/ StreamFaults(c) \/ Reset(c)
    \/ \E r \in Calls : Call(r) \/ CallStep(r)
    \/ StreamStarts \/ StreamStep
    \/ SetSecure \/ SwitchStep

Fairness ==
    /\ \A c \in Conns : WF_vars(HandlerStep(c))
    /\ \A r \in Calls : WF_vars(CallStep(r))
    /\ WF_vars(StreamStep)
    /\ WF_vars(SwitchStep)

Spec == Init /\ [][Next]_vars /\ Fairness

----------------------------------------------------------------------------
\* The Trust inspector reports a PQ channel only while the server that negotiated
\* it is up and in PQ mode: a handshake that ends after Stop does not bring the
\* readout back (PbFrameServer.TryHandshakeAsync against Stop).
PostureHonest == posture # 0 => posture = listener /\ pq[posture]

\* On a server in PQ mode nothing but the handshake crosses in plaintext, and the
\* two ends attach their ciphers between the same two frames, so that neither
\* ever rejects a frame of the other (TryHandshakeAsync, PqHandshakeClient).
ChannelHolds ==
    /\ \A c \in Conns : server[c] # 0 /\ pq[server[c]] =>
          \A i \in 1..Len(toServer[c] \o toClient[c]) :
              LET frame == (toServer[c] \o toClient[c])[i]
              IN  frame.kind \notin {"offer", "reply"} => frame.encrypted
    /\ rejected = {}

\* Nothing compares the id of a response with that of its request: that a caller
\* gets the answer to its own request, after at most one lost attempt of it, rests
\* on the mutex and on the new connection of the retry (withConnection).
AnswersMatchRequests ==
    \A r \in Calls : /\ replies[r] \in {0, r}
                     /\ executed[r] <= IF call[r].retried THEN 2 ELSE 1
                     /\ replies[r] = r => executed[r] >= 1

\* The cached port is that of the live server, which is in the mode the transport
\* claims, and the negotiated parameters shown are those of that server, unless a
\* switch was cancelled between the stop and the fields (setSecure, ensurePort).
PortIsLive ==
    mutex # Switcher /\ ~switchCanceled =>
        /\ port = listener
        /\ port # 0 => pq[port] = secureMode
        /\ lastParams # 0 => lastParams = port /\ secureMode

\* Every use of the transport ends: neither side waits for a frame the other will
\* not send, although no read has a timeout (PbConnection.request, Start's comment
\* on two ends that "would block on read").
CallsReturn ==
    /\ (mutex # Nobody) ~> (mutex = Nobody)
    /\ (stream.pc = "reading") ~> (stream.pc \in {"completed", "failed", "canceled"})

----------------------------------------------------------------------------
\* What the repository's comments say of the transport, and the code does not do.

\* InferenceClient.stream: "The final [Token] always has [Token.isFinal] == true",
\* and an implementation must "complete the flow normally after the final token".
\* PbFrameServer: errors are "surfaced to the client as a typed payload (never a
\* silent close)".
CompletedHasFinal == stream.pc = "completed" => stream.final

=============================================================================
