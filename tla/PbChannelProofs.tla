-------------------------- MODULE PbChannelProofs ---------------------------
(***************************************************************************)
(* For any number of servers, connections, callers and dropped             *)
(* connections: the Trust inspector never reports the channel of a server  *)
(* that is down; the port the Android transport caches is that of the live *)
(* server, in the mode the transport claims; on a PQ connection everything *)
(* after the handshake is encrypted and no end rejects a frame of the      *)
(* other; a caller takes the answer to its own request; and a stream that  *)
(* completes is whole or was cut off by the server's side.                 *)
(***************************************************************************)
EXTENDS PbChannel, TLAPS

\* The server's part of the inductive invariant.  An instance's mode is fixed
\* when it starts; only a connection to an instance in PQ mode is ever offered a
\* handshake, because a handler that looks at the mode of a later instance has a
\* cancelled token and does not get to the offer.
ServerInv ==
    /\ started \in 0..MaxServers
    /\ listener \in 0..started
    /\ posture \in 0..started
    /\ pq \in [Servers -> BOOLEAN]
    /\ secureMode \in BOOLEAN
    /\ listener # 0 => requirePq = pq[listener]
    /\ conns \in 0..MaxConns
    /\ server \in [Conns -> 0..MaxServers]
    /\ handler \in [Conns -> HandlerStates]
    /\ \A c \in Conns :
          /\ server[c] <= started
          /\ handler[c] # "none" => server[c] # 0
          /\ handler[c] \in {"offered", "publishing"} => pq[server[c]]
    /\ PostureHonest

\* Starting a server names a new instance and leaves what is known of the others.
LEMMA StartFacts ==
    ASSUME ServerInv, Start, listener = 0
    PROVE  /\ started' = started + 1 /\ started' \in 1..MaxServers /\ listener' = started'
           /\ pq' \in [Servers -> BOOLEAN] /\ pq'[started'] = secureMode /\ requirePq' = secureMode
           /\ \A i \in 1..started : pq'[i] = pq[i]
           /\ posture' = 0 /\ posture = 0
<1>1. started' = started + 1 /\ started' \in 1..MaxServers /\ listener' = started'
  BY BoundsAssumption DEF ServerInv, Start
<1>2. pq' \in [Servers -> BOOLEAN] /\ pq'[started'] = secureMode /\ requirePq' = secureMode
  BY <1>1, Zenon DEF ServerInv, Start, Servers
<1>3. \A i \in 1..started : pq'[i] = pq[i]
  BY <1>1, BoundsAssumption DEF ServerInv, Start, Servers
<1>4. posture' = 0 /\ posture = 0
  BY Zenon DEF ServerInv, Start, PostureHonest
<1> QED BY <1>1, <1>2, <1>3, <1>4, Zenon

\* A connection that opens keeps the server's invariant, and is to the port the
\* transport then has, which is the live server's.
LEMMA ConnectFacts ==
    ASSUME ServerInv, Connect, UNCHANGED secureMode
    PROVE  /\ ServerInv'
           /\ port' = listener' /\ port' # 0
           /\ conns' \in Conns /\ server'[conns'] = port'
           /\ \A c \in Conns : c # conns' => server'[c] = server[c]
           /\ \/ port = port' /\ UNCHANGED <<listener, pq>>
              \/ port = 0 /\ pq'[port'] = secureMode
<1>1. /\ conns' = conns + 1 /\ conns' \in Conns
      /\ port' = listener'
      /\ server' = [server EXCEPT ![conns'] = port']
      /\ handler' = [handler EXCEPT ![conns'] = "backlog"]
  BY BoundsAssumption DEF ServerInv, Connect, Conns
<1>2. CASE /\ UNCHANGED serverVars
           /\ \/ port # 0 /\ UNCHANGED port
              \/ port = 0 /\ listener # 0 /\ requirePq = secureMode /\ port' = listener
  <2>1. ServerInv'
    <3>1. UNCHANGED <<listener, started, pq, requirePq, posture, secureMode>>
      BY <1>2, Zenon DEF serverVars
    <3>2. port' \in 1..started /\ port' \in 0..MaxServers
      <4>1. port' # 0 /\ port' = listener /\ listener \in 0..started /\ started \in 0..MaxServers
        BY <1>1, <1>2, <3>1, Zenon DEF ServerInv
      <4> QED BY <4>1, BoundsAssumption
    <3>3. server' \in [Conns -> 0..MaxServers] /\ handler' \in [Conns -> HandlerStates]
      BY <1>1, <3>2, Zenon DEF ServerInv, HandlerStates
    <3>4. ASSUME NEW c \in Conns
          PROVE  /\ server'[c] <= started
                 /\ handler'[c] # "none" => server'[c] # 0
                 /\ handler'[c] \in {"offered", "publishing"} => pq[server'[c]]
      BY <1>1, <3>2 DEF ServerInv
    <3> QED BY <1>1, <3>1, <3>3, <3>4 DEF ServerInv, PostureHonest, Conns
  <2>2. port' = listener /\ port' # 0 /\ UNCHANGED <<listener, pq>>
    BY <1>1, <1>2, Zenon DEF serverVars
  <2>3. \/ port = port' /\ UNCHANGED <<listener, pq>>
        \/ port = 0 /\ pq'[port'] = secureMode
    BY <1>2, <2>2, Zenon DEF ServerInv
  <2> QED BY <1>1, <2>1, <2>2, <2>3, Zenon DEF ServerInv
<1>3. CASE port = 0 /\ listener = 0 /\ Start
  <2>1. /\ started' = started + 1 /\ started' \in 1..MaxServers /\ listener' = started'
        /\ pq' \in [Servers -> BOOLEAN] /\ pq'[started'] = secureMode /\ requirePq' = secureMode
        /\ \A i \in 1..started : pq'[i] = pq[i]
        /\ posture' = 0 /\ posture = 0
    BY <1>3, StartFacts, Zenon
  <2>2. server' \in [Conns -> 0..MaxServers] /\ handler' \in [Conns -> HandlerStates]
    <3>1. port' \in 0..MaxServers
      BY <1>1, <2>1, BoundsAssumption
    <3> QED BY <1>1, <3>1, Zenon DEF ServerInv, HandlerStates
  <2>3. ASSUME NEW c \in Conns
        PROVE  /\ server'[c] <= started'
               /\ handler'[c] # "none" => server'[c] # 0
               /\ handler'[c] \in {"offered", "publishing"} => pq'[server'[c]]
    <3>1. CASE c = conns'
      BY <1>1, <2>1, <3>1 DEF ServerInv
    <3>2. CASE c # conns'
      <4>1. server'[c] = server[c] /\ handler'[c] = handler[c]
        BY <1>1, <3>2, Zenon DEF ServerInv
      <4>2. server[c] \in 0..started /\ started \in Nat
        BY BoundsAssumption DEF ServerInv
      <4> QED BY <2>1, <4>1, <4>2 DEF ServerInv
    <3> QED BY <3>1, <3>2, Zenon
  <2>4. ServerInv'
    BY <1>1, <2>1, <2>2, <2>3, BoundsAssumption DEF ServerInv, PostureHonest, Conns
  <2> QED BY <1>1, <1>3, <2>1, <2>4, Zenon DEF ServerInv
<1> QED BY <1>2, <1>3, Zenon DEF Connect, EnsurePort

\* Every step of the system, as the server sees it.
THEOREM ServerInvariance == Spec => []ServerInv
<1>1. Init => ServerInv
  <2> SUFFICES ASSUME Init PROVE ServerInv
    OBVIOUS
  <2>1. /\ started \in 0..MaxServers /\ listener \in 0..started /\ posture \in 0..started
        /\ listener = 0 /\ PostureHonest /\ conns \in 0..MaxConns
    BY BoundsAssumption DEF Init, PostureHonest
  <2>2. pq \in [Servers -> BOOLEAN] /\ secureMode \in BOOLEAN
    BY Zenon DEF Init
  <2>3. server \in [Conns -> 0..MaxServers] /\ handler \in [Conns -> HandlerStates]
    BY BoundsAssumption DEF Init, HandlerStates
  <2>4. \A c \in Conns : server[c] <= started /\ handler[c] = "none"
    BY DEF Init
  <2> QED BY <2>1, <2>2, <2>3, <2>4, Zenon DEF ServerInv
<1>2. ServerInv /\ [Next]_vars => ServerInv'
  <2> SUFFICES ASSUME ServerInv, [Next]_vars PROVE ServerInv'
    OBVIOUS
  <2>1. ASSUME UNCHANGED <<listener, started, pq, requirePq, posture, secureMode, conns, server, handler>>
        PROVE  ServerInv'
    BY <2>1, Zenon DEF ServerInv, PostureHonest
  <2>2. ASSUME NEW c \in Conns, NEW where \in HandlerStates, HandlerGoes(c, where), handler[c] # "none",
               where \in {"offered", "publishing"} => pq[server[c]],
               UNCHANGED <<listener, started, pq, requirePq, posture, secureMode, conns, server>>
        PROVE  ServerInv'
    <3>1. handler' \in [Conns -> HandlerStates] /\ \A d \in Conns : handler'[d] = IF d = c THEN where ELSE handler[d]
      BY <2>2, Zenon DEF HandlerGoes, ServerInv
    <3> QED BY <2>2, <3>1, Zenon DEF ServerInv, PostureHonest
  <2>3. ASSUME NEW c \in Conns, Accept(c) \/ EnterPlain(c) PROVE ServerInv'
    BY <2>2, <2>3, Zenon DEF Accept, EnterPlain, serverVars, clientVars, HandlerStates
  <2>4. ASSUME NEW c \in Conns, SendOffer(c) PROVE ServerInv'
    <3>1. pq[server[c]]
      BY <2>4, Zenon DEF SendOffer, Live, ServerInv
    <3> QED BY <2>2, <2>4, <3>1, Zenon DEF SendOffer, serverVars, clientVars, HandlerStates
  <2>5. ASSUME NEW c \in Conns, ReadReply(c) PROVE ServerInv'
    <3>1. pq[server[c]]
      BY <2>5, Zenon DEF ReadReply, ServerInv
    <3> QED BY <2>2, <2>5, <3>1, Zenon DEF ReadReply, serverVars, clientVars, HandlerStates
  <2>6. ASSUME NEW c \in Conns, Publish(c) PROVE ServerInv'
    <3>1. /\ pq[server[c]] /\ server[c] # 0 /\ server[c] \in 0..started
          /\ posture' = IF Live(c) THEN server[c] ELSE posture
          /\ UNCHANGED <<listener, started, pq, requirePq, secureMode, conns, server>>
      BY <2>6, BoundsAssumption DEF Publish, ServerInv, clientVars
    <3>2. posture' \in 0..started' /\ PostureHonest'
      BY <3>1, Zenon DEF ServerInv, PostureHonest, Live
    <3>3. handler' \in [Conns -> HandlerStates] /\ \A d \in Conns : handler'[d] = IF d = c THEN "reading" ELSE handler[d]
      BY <2>6, Zenon DEF Publish, HandlerGoes, ServerInv, HandlerStates
    <3> QED BY <3>1, <3>2, <3>3, Zenon DEF ServerInv
  <2>7. ASSUME NEW c \in Conns, ReadRequest(c) PROVE ServerInv'
    BY <2>1, <2>2, <2>7, Zenon DEF ReadRequest, serverVars, clientVars, HandlerStates
  <2>8. ASSUME NEW c \in Conns, SendFinal(c) \/ StreamFaults(c) PROVE ServerInv'
    BY <2>2, <2>8, Zenon DEF SendFinal, StreamFaults, serverVars, clientVars, HandlerStates
  <2>9. ASSUME NEW c \in Conns, HandlerCanceled(c) \/ HandlerSeesEof(c) \/ Reset(c) PROVE ServerInv'
    BY <2>2, <2>9, Zenon DEF HandlerCanceled, HandlerSeesEof, Reset, serverVars, clientVars, HandlerStates
  <2>10. ASSUME NEW c \in Conns, SendChunk(c) PROVE ServerInv'
    BY <2>1, <2>10, Zenon DEF SendChunk, serverVars, clientVars
  <2>11. ASSUME NEW r \in Calls, CallConnects(r) PROVE ServerInv'
    BY <2>11, ConnectFacts, Zenon DEF CallConnects
  <2>12. ASSUME StreamConnects PROVE ServerInv'
    BY <2>12, ConnectFacts, Zenon DEF StreamConnects
  <2>13. ASSUME NEW r \in Calls,
                \/ Call(r) \/ CallHandshakes(r) \/ CallSends(r) \/ CallReceives(r)
                \/ CallThrows(r) \/ CallIOException(r)
         PROVE  ServerInv'
    BY <2>1, <2>13, Zenon DEF Call, CallHandshakes, CallSends, CallReceives, CallThrows, CallIOException,
                       serverVars, connVars
  <2>14. ASSUME \/ StreamStarts \/ StreamHandshakes \/ StreamOpenFails \/ StreamSends
                \/ StreamReceives \/ StreamThrows \/ StreamEof
         PROVE  ServerInv'
    BY <2>1, <2>14, Zenon DEF StreamStarts, StreamHandshakes, StreamOpenFails, StreamSends, StreamReceives,
                       StreamThrows, StreamEof, serverVars, connVars
  <2>15. ASSUME SetSecure PROVE ServerInv'
    <3>1. /\ listener' = 0 /\ posture' = 0
          /\ UNCHANGED <<started, pq, requirePq, secureMode, conns, server, handler>>
      BY <2>15, Zenon DEF SetSecure, Stop
    <3> QED BY <3>1, BoundsAssumption DEF ServerInv, PostureHonest
  <2>16. ASSUME SwitchStep PROVE ServerInv'
    BY <2>16, Zenon DEF SwitchStep, SwitchDone, SwitchCanceled, ServerInv, PostureHonest, serverVars, connVars
  <2>17. CASE UNCHANGED vars
    BY <2>1, <2>17, Zenon DEF vars, serverVars, connVars, clientVars
  <2> QED BY <2>3, <2>4, <2>5, <2>6, <2>7, <2>8, <2>9, <2>10, <2>11, <2>12, <2>13, <2>14,
             <2>15, <2>16, <2>17, Zenon DEF Next, HandlerStep, CallStep, StreamStep
<1> QED BY <1>1, <1>2, PTL DEF Spec

\* The Trust inspector's PQ channel is that of the live server, which is in PQ
\* mode, however handshakes, stops and starts interleave.
THEOREM PostureIsHonest == Spec => []PostureHonest
<1>1. ServerInv => PostureHonest
  BY Zenon DEF ServerInv
<1> QED BY <1>1, ServerInvariance, PTL

----------------------------------------------------------------------------
\* The client's part: who is in the middle of a use of the transport holds the
\* mutex, and a handshake under way is with the server of the cached port.
PortInv ==
    /\ \A r \in Calls :
          /\ call[r].pc \in {"opening", "handshaking", "sending", "waiting"} => mutex = r
          /\ call[r].pc = "handshaking" => secureMode /\ server[call[r].conn] = port /\ call[r].conn \in Conns
    /\ stream.pc \in {"opening", "handshaking"} => mutex = Streamer
    /\ stream.pc = "handshaking" => secureMode /\ server[stream.conn] = port /\ stream.conn \in Conns
    /\ mutex = Switcher => listener = 0
    /\ PortIsLive

CallType == [pc : {"idle", "opening", "handshaking", "sending", "waiting", "done"},
             conn : 0..MaxConns, retried : BOOLEAN]
StreamType == [pc : {"idle", "opening", "handshaking", "sending", "reading",
                     "completed", "failed", "canceled"},
               conn : 0..MaxConns, final : BOOLEAN]

\* The holders of the mutex are different.
LEMMA Holders ==
    /\ Nobody \notin Calls /\ Streamer \notin Calls /\ Switcher \notin Calls
    /\ Nobody # Streamer /\ Nobody # Switcher /\ Streamer # Switcher
  BY BoundsAssumption DEF Nobody, Streamer, Switcher, Calls

\* A caller's step changes its own record only.
LEMMA CallAtFacts ==
    ASSUME call \in [Calls -> CallType], NEW r \in Calls,
           NEW pc \in {"idle", "opening", "handshaking", "sending", "waiting", "done"},
           NEW c \in 0..MaxConns, NEW retried \in BOOLEAN, CallAt(r, pc, c, retried)
    PROVE  /\ call' \in [Calls -> CallType]
           /\ call'[r].pc = pc /\ call'[r].conn = c /\ call'[r].retried = retried
           /\ \A q \in Calls \ {r} : call'[q] = call[q]
<1>1. [pc |-> pc, conn |-> c, retried |-> retried] \in CallType
  BY Zenon DEF CallType
<1> QED BY <1>1, Zenon DEF CallAt

ClientType == /\ call \in [Calls -> CallType] /\ stream \in StreamType
              /\ shared \in 0..MaxConns

\* The clients' records stay records.
THEOREM ClientTypes == Spec => []ClientType
<1>1. Init => ClientType
  BY BoundsAssumption DEF Init, ClientType, CallType, StreamType
<1>2. ServerInv /\ ClientType /\ [Next]_vars => ClientType'
  <2> SUFFICES ASSUME ServerInv, ClientType, [Next]_vars PROVE ClientType'
    OBVIOUS
  <2>1. ASSUME Connect, UNCHANGED secureMode PROVE conns' \in 0..MaxConns
    BY <2>1, ConnectFacts, BoundsAssumption DEF Conns
  <2>2. ASSUME UNCHANGED <<call, stream, shared>> PROVE ClientType'
    BY <2>2, Zenon DEF ClientType
  <2>3. ASSUME NEW c \in Conns, HandlerStep(c) \/ SendChunk(c) \/ StreamFaults(c) \/ Reset(c)
        PROVE  UNCHANGED <<call, stream, shared>>
    BY <2>3, Zenon DEF HandlerStep, Accept, EnterPlain, SendOffer, ReadReply, Publish, ReadRequest, SendFinal,
                HandlerCanceled, HandlerSeesEof, SendChunk, StreamFaults, Reset, clientVars
  <2>4. ASSUME NEW r \in Calls, Call(r) PROVE ClientType'
    BY <2>4, CallAtFacts, Zenon DEF Call, ClientType
  <2>5. ASSUME NEW r \in Calls, CallConnects(r) PROVE ClientType'
    <3>1. conns' \in 0..MaxConns /\ call[r].retried \in BOOLEAN
      BY <2>1, <2>5, Zenon DEF CallConnects, ClientType, CallType
    <3>2. call' \in [Calls -> CallType]
      BY <2>5, <3>1, CallAtFacts, Zenon DEF CallConnects, ClientType
    <3> QED BY <2>5, <3>1, <3>2, Zenon DEF CallConnects, ClientType
  <2>6. ASSUME NEW r \in Calls, CallHandshakes(r) \/ CallSends(r) PROVE ClientType'
    <3>1. call[r].conn \in 0..MaxConns /\ call[r].retried \in BOOLEAN
      BY Zenon DEF ClientType, CallType
    <3> QED BY <2>6, <3>1, CallAtFacts, Zenon DEF CallHandshakes, CallSends, ClientType
  <2>7. ASSUME NEW r \in Calls, CallReceives(r) \/ CallThrows(r) PROVE ClientType'
    <3>1. 0 \in 0..MaxConns /\ call[r].retried \in BOOLEAN
      BY BoundsAssumption DEF ClientType, CallType
    <3>2. CallAt(r, "done", 0, call[r].retried) /\ UNCHANGED <<stream, shared>>
      BY <2>7, Zenon DEF CallReceives, CallThrows, CallDone
    <3> QED BY <3>1, <3>2, CallAtFacts, Zenon DEF ClientType
  <2>8. ASSUME NEW r \in Calls, CallIOException(r) PROVE ClientType'
    <3>1. 0 \in 0..MaxConns
      BY BoundsAssumption
    <3>2. call' \in [Calls -> CallType]
      BY <2>8, <3>1, CallAtFacts, Zenon DEF CallIOException, ClientType
    <3> QED BY <2>8, <3>1, <3>2, Zenon DEF CallIOException, ClientType
  <2>9. ASSUME StreamConnects PROVE ClientType'
    BY <2>1, <2>9, Zenon DEF StreamConnects, StreamOpened, ClientType, StreamType
  <2>10. ASSUME StreamStarts \/ StreamHandshakes \/ StreamOpenFails \/ StreamSends PROVE ClientType'
    BY <2>10, Zenon DEF StreamStarts, StreamHandshakes, StreamOpened, StreamOpenFails, StreamSends, ClientType, StreamType
  <2>11. ASSUME StreamReceives \/ StreamThrows \/ StreamEof PROVE ClientType'
    BY <2>11, Zenon DEF StreamReceives, StreamThrows, StreamEof, ClientType, StreamType
  <2>12. ASSUME SetSecure \/ SwitchStep PROVE ClientType'
    BY <2>12, BoundsAssumption DEF SetSecure, SwitchStep, SwitchDone, SwitchCanceled, ClientType
  <2>13. CASE UNCHANGED vars
    BY <2>2, <2>13, Zenon DEF vars, clientVars
  <2> QED BY <2>2, <2>3, <2>4, <2>5, <2>6, <2>7, <2>8, <2>9, <2>10, <2>11, <2>12, <2>13, Zenon
          DEF Next, CallStep, StreamStep
<1> QED BY <1>1, <1>2, ServerInvariance, PTL DEF Spec

\* Every step of the system, as the transport's fields see it.
LEMMA PortInvariance == Spec => []PortInv
<1>1. Init => PortInv
  BY Holders DEF Init, PortInv, PortIsLive
<1>2. ServerInv /\ ClientType /\ PortInv /\ [Next]_vars => PortInv'
  <2> SUFFICES ASSUME ServerInv, ClientType, PortInv, [Next]_vars PROVE PortInv'
    OBVIOUS
  <2>0. call \in [Calls -> CallType] /\ 0 \in 0..MaxConns
    BY BoundsAssumption DEF ClientType
  <2>1. ASSUME UNCHANGED <<listener, pq, server, clientVars, switchCanceled>> PROVE PortInv'
    BY <2>1, Zenon DEF PortInv, PortIsLive, clientVars
  <2>2. ASSUME NEW c \in Conns, HandlerStep(c) \/ SendChunk(c) \/ StreamFaults(c) \/ Reset(c)
        PROVE  PortInv'
    BY <2>1, <2>2, Zenon DEF HandlerStep, Accept, EnterPlain, SendOffer, ReadReply, Publish, ReadRequest, SendFinal,
                      HandlerCanceled, HandlerSeesEof, SendChunk, StreamFaults, Reset, serverVars, historyVars
  <2>3. ASSUME NEW r \in Calls, mutex = r, UNCHANGED <<listener, pq, server, secureMode, port, stream, switchCanceled>>,
               lastParams' = lastParams \/ (lastParams' = port /\ secureMode),
               mutex' \in {Nobody, r},
               call'[r].pc \in {"opening", "sending", "waiting"} => mutex' = r,
               call'[r].pc # "handshaking",
               \A q \in Calls \ {r} : call'[q] = call[q]
        PROVE  PortInv'
    <3>1. ASSUME NEW q \in Calls \ {r} PROVE call'[q].pc \notin {"opening", "handshaking", "sending", "waiting"}
      BY <2>3, Zenon DEF PortInv
    <3>2. stream'.pc \notin {"opening", "handshaking"} /\ mutex' # Switcher /\ mutex # Switcher
      BY <2>3, Holders, Zenon DEF PortInv
    <3>3. PortIsLive'
      BY <2>3, <3>2, Zenon DEF PortInv, PortIsLive
    <3> QED BY <2>3, <3>1, <3>2, <3>3, Zenon DEF PortInv
  <2>4. ASSUME NEW r \in Calls, Call(r) PROVE PortInv'
    <3>1. /\ call'[r].pc \in {"opening", "sending"} /\ \A q \in Calls \ {r} : call'[q] = call[q]
      BY <2>0, <2>4, CallAtFacts, Zenon DEF Call, ClientType
    <3>2. /\ mutex = Nobody /\ mutex' = r
          /\ UNCHANGED <<listener, pq, server, secureMode, port, lastParams, stream, switchCanceled>>
      BY <2>4, Zenon DEF Call, serverVars, connVars, historyVars
    <3>3. ASSUME NEW q \in Calls \ {r} PROVE call'[q].pc \notin {"opening", "handshaking", "sending", "waiting"}
      BY <3>1, <3>2, Holders, Zenon DEF PortInv
    <3>4. PortIsLive'
      BY <3>2, Holders, Zenon DEF PortInv, PortIsLive
    <3> QED BY <3>1, <3>2, <3>3, <3>4, Holders, Zenon DEF PortInv
  <2>5. ASSUME Connect, UNCHANGED <<secureMode, lastParams, switchCanceled>>,
               mutex # Switcher, mutex' # Switcher
        PROVE  PortIsLive'
    <3>1. /\ port' = listener' /\ port' # 0
          /\ \/ port = port' /\ UNCHANGED <<listener, pq>>
             \/ port = 0 /\ pq'[port'] = secureMode
      BY <2>5, ConnectFacts, Zenon
    <3> QED BY <2>5, <3>1 DEF PortInv, PortIsLive
  <2>6. ASSUME NEW r \in Calls, CallConnects(r) PROVE PortInv'
    <3>1. /\ Connect /\ call[r].pc = "opening"
          /\ UNCHANGED <<secureMode, lastParams, mutex, stream, switchCanceled>>
      BY <2>6, Zenon DEF CallConnects, historyVars
    <3>2. mutex = r /\ mutex # Switcher /\ stream.pc \notin {"opening", "handshaking"}
      BY <3>1, Holders, Zenon DEF PortInv
    <3>3. conns' \in Conns /\ conns' \in 0..MaxConns /\ server'[conns'] = port'
      BY <3>1, ConnectFacts, BoundsAssumption DEF Conns
    <3>4. call[r].retried \in BOOLEAN
      BY <2>0, Zenon DEF CallType
    <3>5. /\ call'[r].pc = (IF secureMode THEN "handshaking" ELSE "sending") /\ call'[r].conn = conns'
          /\ \A q \in Calls \ {r} : call'[q] = call[q]
      BY <2>0, <2>6, <3>3, <3>4, CallAtFacts DEF CallConnects
    <3>6. PortIsLive'
      BY <2>5, <3>1, <3>2, Zenon
    <3>7. ASSUME NEW q \in Calls \ {r} PROVE call'[q].pc \notin {"opening", "handshaking", "sending", "waiting"}
      BY <3>2, <3>5, Zenon DEF PortInv
    <3> QED BY <3>1, <3>2, <3>3, <3>5, <3>6, <3>7, Zenon DEF PortInv
  <2>7. ASSUME NEW r \in Calls, CallHandshakes(r) PROVE PortInv'
    <3>1. call[r].conn \in 0..MaxConns /\ call[r].retried \in BOOLEAN
      BY <2>0, Zenon DEF CallType
    <3>2. call'[r].pc = "sending" /\ \A q \in Calls \ {r} : call'[q] = call[q]
      BY <2>0, <2>7, <3>1, CallAtFacts DEF CallHandshakes
    <3>3. mutex = r /\ mutex' = r /\ lastParams' = port /\ secureMode
      BY <2>7, Zenon DEF CallHandshakes, Handshake, PortInv
    <3> QED BY <2>3, <2>7, <3>2, <3>3, Zenon DEF CallHandshakes, serverVars, historyVars
  <2>8. ASSUME NEW r \in Calls, CallSends(r) PROVE PortInv'
    <3>1. call[r].conn \in 0..MaxConns /\ call[r].retried \in BOOLEAN
      BY <2>0, Zenon DEF CallType
    <3>2. call'[r].pc = "waiting" /\ \A q \in Calls \ {r} : call'[q] = call[q]
      BY <2>0, <2>8, <3>1, CallAtFacts DEF CallSends
    <3>3. mutex = r /\ mutex' = r
      BY <2>8, Zenon DEF CallSends, PortInv
    <3> QED BY <2>3, <2>8, <3>2, <3>3, Zenon DEF CallSends, serverVars, historyVars
  <2>9. ASSUME NEW r \in Calls, CallReceives(r) \/ CallThrows(r) PROVE PortInv'
    <3>1. call[r].retried \in BOOLEAN
      BY <2>0, Zenon DEF CallType
    <3>2. call'[r].pc = "done" /\ (\A q \in Calls \ {r} : call'[q] = call[q])
      <4>1. CallDone(r)
        BY <2>9, Zenon DEF CallReceives, CallThrows
      <4>2. CallAt(r, "done", 0, call[r].retried)
        BY <4>1, Zenon DEF CallDone
      <4> QED BY <2>0, <3>1, <4>2, CallAtFacts, BoundsAssumption
    <3>3. mutex = r /\ mutex' = Nobody
      BY <2>9, Zenon DEF CallReceives, CallThrows, CallDone, PortInv
    <3> QED BY <2>3, <2>9, <3>2, <3>3, Zenon DEF CallReceives, CallThrows, serverVars, historyVars
  <2>10. ASSUME NEW r \in Calls, CallIOException(r) PROVE PortInv'
    <3>1. /\ call'[r].pc = (IF ~call[r].retried THEN "opening" ELSE "done")
          /\ \A q \in Calls \ {r} : call'[q] = call[q]
      BY <2>0, <2>10, CallAtFacts, Zenon DEF CallIOException
    <3>2. mutex = r /\ mutex' = (IF ~call[r].retried THEN mutex ELSE Nobody)
      BY <2>10, Zenon DEF CallIOException, PortInv
    <3> QED BY <2>3, <2>10, <3>1, <3>2, Zenon DEF CallIOException, serverVars, historyVars
  <2>11. ASSUME mutex \in {Nobody, Streamer}, mutex' \in {Nobody, Streamer}, UNCHANGED <<call, secureMode>>,
                stream'.pc \in {"opening", "handshaking"} => mutex' = Streamer,
                stream'.pc = "handshaking" => secureMode /\ server'[stream'.conn] = port' /\ stream'.conn \in Conns,
                PortIsLive'
         PROVE  PortInv'
    <3>1. ASSUME NEW q \in Calls PROVE call'[q].pc \notin {"opening", "handshaking", "sending", "waiting"}
      BY <2>11, Holders, Zenon DEF PortInv
    <3> QED BY <2>11, <3>1, Holders, Zenon DEF PortInv
  <2>12. ASSUME StreamStarts PROVE PortInv'
    <3>1. stream'.pc = "opening"
      BY <2>12, Zenon DEF StreamStarts, ClientType, StreamType
    <3>2. PortIsLive'
      BY <2>12, Holders, Zenon DEF StreamStarts, PortInv, PortIsLive, serverVars, historyVars
    <3> QED BY <2>11, <2>12, <3>1, <3>2, Zenon DEF StreamStarts
  <2>13. ASSUME StreamConnects PROVE PortInv'
    <3>1. /\ Connect /\ mutex = Streamer /\ mutex' \in {Nobody, Streamer}
          /\ UNCHANGED <<call, secureMode, lastParams, switchCanceled>>
      BY <2>13, Zenon DEF StreamConnects, StreamOpened, PortInv, historyVars
    <3>2. conns' \in Conns /\ server'[conns'] = port'
      BY <3>1, ConnectFacts, Zenon
    <3>3. PortIsLive'
      BY <2>5, <3>1, Holders, Zenon
    <3>4. \/ stream'.pc = "handshaking" /\ stream'.conn = conns' /\ secureMode /\ mutex' = mutex
          \/ stream'.pc \in {"sending", "canceled"}
      BY <2>13, Zenon DEF StreamConnects, StreamOpened, ClientType, StreamType
    <3> QED BY <2>11, <3>1, <3>2, <3>3, <3>4, Zenon
  <2>14. ASSUME StreamHandshakes \/ StreamOpenFails PROVE PortInv'
    <3>1. /\ mutex = Streamer /\ mutex' = Nobody
          /\ UNCHANGED <<call, secureMode, port, listener, pq, switchCanceled>>
          /\ lastParams' = lastParams \/ (lastParams' = port /\ secureMode)
      BY <2>14, Zenon DEF StreamHandshakes, StreamOpened, StreamOpenFails, Handshake, PortInv, serverVars, historyVars
    <3>2. stream'.pc \in {"sending", "canceled", "failed"}
      BY <2>14, Zenon DEF StreamHandshakes, StreamOpened, StreamOpenFails, ClientType, StreamType
    <3>3. PortIsLive'
      BY <3>1, Holders, Zenon DEF PortInv, PortIsLive
    <3> QED BY <2>11, <3>1, <3>2, <3>3, Zenon
  <2>15. ASSUME StreamSends \/ StreamReceives \/ StreamThrows \/ StreamEof PROVE PortInv'
    <3>1. UNCHANGED <<call, secureMode, port, listener, pq, server, switchCanceled, lastParams, mutex>>
      BY <2>15, Zenon DEF StreamSends, StreamReceives, StreamThrows, StreamEof, serverVars, historyVars
    <3>2. stream'.pc \notin {"opening", "handshaking"}
      BY <2>15, Zenon DEF StreamSends, StreamReceives, StreamThrows, StreamEof, ClientType, StreamType
    <3> QED BY <3>1, <3>2, Zenon DEF PortInv, PortIsLive
  <2>16. ASSUME SetSecure PROVE PortInv'
    <3>1. mutex = Nobody /\ mutex' = Switcher /\ listener' = 0 /\ UNCHANGED <<call, stream>>
      BY <2>16, Zenon DEF SetSecure, Stop
    <3>2. ASSUME NEW q \in Calls PROVE call'[q].pc \notin {"opening", "handshaking", "sending", "waiting"}
      BY <3>1, Holders, Zenon DEF PortInv
    <3>3. stream'.pc \notin {"opening", "handshaking"}
      BY <3>1, Holders, Zenon DEF PortInv
    <3> QED BY <3>1, <3>2, <3>3, Zenon DEF PortInv, PortIsLive
  <2>17. ASSUME SwitchStep PROVE PortInv'
    <3>1. /\ mutex = Switcher /\ mutex' = Nobody /\ listener = 0 /\ UNCHANGED <<call, stream, listener>>
          /\ \/ port' = 0 /\ lastParams' = 0
             \/ switchCanceled'
      BY <2>17, Zenon DEF SwitchStep, SwitchDone, SwitchCanceled, serverVars, PortInv
    <3>2. ASSUME NEW q \in Calls PROVE call'[q].pc \notin {"opening", "handshaking", "sending", "waiting"}
      BY <3>1, Holders, Zenon DEF PortInv
    <3>3. stream'.pc \notin {"opening", "handshaking"}
      BY <3>1, Holders, Zenon DEF PortInv
    <3> QED BY <3>1, <3>2, <3>3, Holders, Zenon DEF PortInv, PortIsLive
  <2>18. CASE UNCHANGED vars
    BY <2>1, <2>18, Zenon DEF vars, serverVars, connVars, historyVars
  <2> QED BY <2>2, <2>4, <2>6, <2>7, <2>8, <2>9, <2>10, <2>12, <2>13, <2>14, <2>15, <2>16, <2>17, <2>18, Zenon
          DEF Next, CallStep, StreamStep
<1> QED BY <1>1, <1>2, ServerInvariance, ClientTypes, PTL DEF Spec

\* What the cached port and the parameters say is true of the live server, unless
\* a switch was cancelled after the stop: ensurePort, open and setSecure.
THEOREM PortStaysLive == Spec => []PortIsLive
<1>1. PortInv => PortIsLive
  BY Zenon DEF PortInv
<1> QED BY <1>1, PortInvariance, PTL

----------------------------------------------------------------------------
\* The live server is in the mode the transport claims, a cancelled switch or
\* not: setSecure changes its field only after the server is gone.
ModeHolds == listener # 0 => pq[listener] = secureMode

\* It holds in every state: no step leaves a server of the other mode listening.
LEMMA ModeInvariance == Spec => []ModeHolds
<1>1. Init => ModeHolds
  BY Zenon DEF Init, ModeHolds
<1>2. ServerInv /\ PortInv /\ ModeHolds /\ [Next]_vars => ModeHolds'
  <2> SUFFICES ASSUME ServerInv, PortInv, ModeHolds, [Next]_vars PROVE ModeHolds'
    OBVIOUS
  <2>1. ASSUME Connect, UNCHANGED secureMode PROVE ModeHolds'
    <3>1. \/ port = port' /\ UNCHANGED <<listener, pq>>
          \/ port' = listener' /\ pq'[port'] = secureMode
      BY <2>1, ConnectFacts, Zenon
    <3> QED BY <2>1, <3>1, Zenon DEF ModeHolds
  <2>2. CASE \E c \in Conns : HandlerStep(c) \/ SendChunk(c) \/ StreamFaults(c) \/ Reset(c)
    <3>1. UNCHANGED <<listener, pq, secureMode>>
      BY <2>2, ZenonT(30) DEF HandlerStep, Accept, EnterPlain, SendOffer, ReadReply, Publish, ReadRequest,
                  SendFinal, HandlerCanceled, HandlerSeesEof, SendChunk, StreamFaults, Reset, serverVars, clientVars
    <3> QED BY <3>1, Zenon DEF ModeHolds
  <2>3. CASE \E r \in Calls : Call(r) \/ CallStep(r)
    <3>1. \/ Connect /\ UNCHANGED secureMode
          \/ UNCHANGED <<listener, pq, secureMode>>
      BY <2>3, ZenonT(30) DEF Call, CallStep, CallConnects, CallHandshakes, CallSends, CallReceives, CallThrows,
                  CallIOException, serverVars
    <3> QED BY <2>1, <3>1, Zenon DEF ModeHolds
  <2>4. CASE StreamStarts \/ StreamStep
    <3>1. \/ Connect /\ UNCHANGED secureMode
          \/ UNCHANGED <<listener, pq, secureMode>>
      BY <2>4, Zenon DEF StreamStarts, StreamStep, StreamConnects, StreamHandshakes, StreamOpenFails, StreamSends,
                  StreamReceives, StreamThrows, StreamEof, serverVars
    <3> QED BY <2>1, <3>1, Zenon DEF ModeHolds
  <2>5. CASE SetSecure \/ SwitchStep
    <3>1. listener' = 0
      BY <2>5, Zenon DEF SetSecure, Stop, SwitchStep, SwitchDone, SwitchCanceled, serverVars, PortInv
    <3> QED BY <3>1, Zenon DEF ModeHolds
  <2>6. CASE UNCHANGED vars
    BY <2>6, Zenon DEF ModeHolds, vars, serverVars, clientVars
  <2> QED BY <2>2, <2>3, <2>4, <2>5, <2>6, Zenon DEF Next
<1> QED BY <1>1, <1>2, ServerInvariance, PortInvariance, PTL DEF Spec

----------------------------------------------------------------------------
\* The two queues of a connection hold frames, and each end has a cipher or not.
ChannelType ==
    /\ toServer \in [Conns -> Seq(Frame)] /\ toClient \in [Conns -> Seq(Frame)]
    /\ sCipher \in [Conns -> BOOLEAN] /\ cCipher \in [Conns -> BOOLEAN]
    /\ cOpen \in [Conns -> BOOLEAN]
    /\ executed \in [Calls -> Nat]

\* Whatever is sent is a frame: the handshake's two, requests and answers.
FrameKinds == {"offer", "reply", "run", "rag", "response", "chunk", "final", "error"}

\* Each kind the two ends send is one of these.
LEMMA KindsOfFrame ==
    /\ "offer" \in FrameKinds /\ "reply" \in FrameKinds /\ "run" \in FrameKinds /\ "response" \in FrameKinds
    /\ \A kind \in {"run", "rag"} : kind \in FrameKinds
    /\ \A kind \in {"response", "chunk", "final"} : kind \in FrameKinds
  BY DEF FrameKinds

\* A connection's number.
LEMMA ConnNumbers == \A c \in Conns : c \in 0..MaxConns
  BY BoundsAssumption DEF Conns

\* A queue of one frame is empty once that is read.
LEMMA OneTail ==
    ASSUME NEW s \in Seq(Frame), s # <<>>, Len(s) = 1
    PROVE  Tail(s) \in Seq(Frame) /\ Len(Tail(s)) = 0
  OBVIOUS

\* The indices of a short queue.
LEMMA ShortQueue ==
    ASSUME NEW n \in Nat
    PROVE  /\ n = 0 => \A i \in 1..n : FALSE
           /\ n = 1 => \A i \in 1..n : i = 1
           /\ n >= 1 => 1 \in 1..n
  OBVIOUS

\* Nothing is queued in an empty queue.
LEMMA EmptyQueue == \A i \in 1..Len(<<>>) : FALSE
  OBVIOUS

\* A request executed once more is still counted.
LEMMA CallCounted ==
    ASSUME executed \in [Calls -> Nat], NEW q, executed' = [executed EXCEPT ![q] = @ + 1]
    PROVE  executed' \in [Calls -> Nat]
<1>1. ASSUME NEW r \in Calls PROVE executed[r] \in Nat /\ executed[r] + 1 \in Nat
  OBVIOUS
<1>2. ASSUME NEW r \in Calls PROVE executed'[r] \in {executed[r], executed[r] + 1}
  BY Zenon
<1>3. ASSUME NEW r \in Calls PROVE executed'[r] \in Nat
  BY <1>1, <1>2, Zenon
<1> QED BY <1>3, Zenon

\* What Append and Tail make of a queue.
LEMMA AppendFrame ==
    ASSUME NEW s \in Seq(Frame), NEW f \in Frame
    PROVE  /\ Append(s, f) \in Seq(Frame) /\ Append(s, f) # <<>>
           /\ Len(s) \in Nat /\ Len(Append(s, f)) = Len(s) + 1
           /\ \A i \in 1..Len(s) : Append(s, f)[i] = s[i]
           /\ Append(s, f)[Len(s) + 1] = f
  OBVIOUS

\* Reading a queue takes its first frame and leaves the rest in order.
LEMMA TailFrame ==
    ASSUME NEW s \in Seq(Frame), s # <<>>
    PROVE  /\ Tail(s) \in Seq(Frame) /\ Len(s) \in Nat /\ Len(s) >= 1
           /\ Len(Tail(s)) = Len(s) - 1
           /\ \A i \in 1..Len(s) - 1 : Tail(s)[i] = s[i + 1]
           /\ Head(s) = s[1] /\ s[1] \in Frame
  OBVIOUS

----------------------------------------------------------------------------
\* The protocol of one connection.  A connection is the stream's or a caller's,
\* and the mode of its server decides whether it is encrypted.
Secured(c) == pq[server[c]]
Asks(c) == IF c = stream.conn THEN {"rag"} ELSE {"run"}
Answers(c) == IF c = stream.conn THEN {"chunk", "final"} ELSE {"response"}

\* Nothing happened on it yet.
Unused(c) ==
    /\ toServer[c] = <<>> /\ toClient[c] = <<>>
    /\ sCipher[c] = FALSE /\ cCipher[c] = FALSE

\* The client attaches its cipher first, the server once it has the reply, and a
\* handler that serves requests has the cipher its server's mode asks for, unless
\* its token is cancelled and it reads no more.
CiphersInOrder(c) ==
    /\ sCipher[c] = TRUE => cCipher[c] = TRUE
    /\ cCipher[c] = TRUE => Secured(c) = TRUE
    /\ handler[c] \in {"backlog", "accepted"} /\ Secured(c) = TRUE => cCipher[c] = FALSE /\ toClient[c] = <<>>
    /\ handler[c] = "offered" => sCipher[c] = FALSE
    /\ handler[c] = "offered" /\ cCipher[c] = TRUE => toServer[c] # <<>> /\ toServer[c][1].kind = "reply"
    /\ handler[c] \in {"publishing", "streaming"} => sCipher[c] = Secured(c)
    /\ handler[c] = "reading" => sCipher[c] = Secured(c) \/ (server[c] # listener /\ toClient[c] = <<>>)
    /\ handler[c] = "streaming" => c = stream.conn

\* Up to its reply the client sends nothing, and the server at most the offer.
QuietBefore(c) ==
    Secured(c) = TRUE /\ cCipher[c] = FALSE => toServer[c] = <<>> /\ Len(toClient[c]) <= 1

\* A frame to the server is the reply, first and not yet read, or a request under
\* the keys; one to the client is the offer, not yet taken, or an answer under them.
RequestFits(c, i) ==
    \/ /\ toServer[c][i].kind = "reply"
       /\ i = 1 /\ handler[c] \in {"offered", "closed"} /\ Secured(c) = TRUE
    \/ toServer[c][i].kind \in Asks(c) /\ toServer[c][i].encrypted = Secured(c)

AnswerFits(c, i) ==
    \/ toClient[c][i].kind = "offer" /\ cCipher[c] = FALSE /\ Secured(c) = TRUE
    \/ /\ toClient[c][i].kind \in Answers(c) /\ toClient[c][i].encrypted = Secured(c)
       /\ cCipher[c] = Secured(c)

ConnInv(c) ==
    /\ c > conns => handler[c] = "none"
    /\ handler[c] = "none" => Unused(c)
    /\ handler[c] # "none" =>
          /\ CiphersInOrder(c) /\ QuietBefore(c)
          /\ \A i \in 1..Len(toServer[c]) : RequestFits(c, i)
          /\ \A i \in 1..Len(toClient[c]) : AnswerFits(c, i)

\* A step that does not touch the connection keeps it: no later instance takes the
\* name of the one it was made to.
LEMMA ConnFrame ==
    ASSUME NEW c \in Conns, ConnInv(c), handler'[c] = handler[c],
           toServer'[c] = toServer[c], toClient'[c] = toClient[c],
           sCipher'[c] = sCipher[c], cCipher'[c] = cCipher[c],
           c > conns' => c > conns,
           handler[c] # "none" => /\ server'[c] = server[c] /\ pq'[server[c]] = pq[server[c]]
                                  /\ listener' = server[c] => listener = server[c]
                                  /\ c = stream'.conn <=> c = stream.conn
    PROVE  ConnInv(c)'
<1>1. CASE handler[c] = "none"
  BY <1>1, Zenon DEF ConnInv, Unused
<1>2. CASE handler[c] # "none"
  <2>1. Secured(c)' = Secured(c) /\ Asks(c)' = Asks(c) /\ Answers(c)' = Answers(c)
    BY <1>2, Zenon DEF Secured, Asks, Answers
  <2>2. CiphersInOrder(c)'
    BY <1>2, <2>1, Zenon DEF ConnInv, CiphersInOrder
  <2>3. QuietBefore(c)'
    BY <1>2, <2>1, Zenon DEF ConnInv, QuietBefore
  <2>4. \A i \in 1..Len(toServer'[c]) : RequestFits(c, i)'
    BY <1>2, <2>1, Zenon DEF ConnInv, RequestFits
  <2>5. \A i \in 1..Len(toClient'[c]) : AnswerFits(c, i)'
    BY <1>2, <2>1, Zenon DEF ConnInv, AnswerFits
  <2> QED BY <1>2, <2>2, <2>3, <2>4, <2>5, Zenon DEF ConnInv
<1> QED BY <1>1, <1>2, Zenon

\* A handler's step changes its own connection only, and there neither the
\* client's cipher nor the server.
HandlerActs(c) ==
    /\ UNCHANGED <<listener, pq, conns, server, cCipher, cOpen, secureMode, shared, mutex, call, stream>>
    /\ handler[c] # "none" /\ handler'[c] # "none"
    /\ \A d \in Conns \ {c} : /\ handler'[d] = handler[d] /\ toServer'[d] = toServer[d]
                              /\ toClient'[d] = toClient[d] /\ sCipher'[d] = sCipher[d]

\* What the handler adds to the queue to the client.
ServerSent(c, kind, r) ==
    /\ toClient' \in [Conns -> Seq(Frame)]
    /\ Len(toClient[c]) \in Nat /\ Len(toClient'[c]) = Len(toClient[c]) + 1
    /\ \A i \in 1..Len(toClient[c]) : toClient'[c][i] = toClient[c][i]
    /\ toClient'[c][Len(toClient[c]) + 1].kind = kind
    /\ toClient'[c][Len(toClient[c]) + 1].of = r
    /\ toClient'[c][Len(toClient[c]) + 1].encrypted = sCipher[c]
    /\ \A d \in Conns \ {c} : toClient'[d] = toClient[d]

\* The server's send appends one frame to its side of the connection.
LEMMA ServerSends ==
    ASSUME ChannelType, NEW c \in Conns, NEW r \in 0..MaxCalls,
           NEW kind \in FrameKinds,
           FromServer(c, kind, r)
    PROVE  ServerSent(c, kind, r)
<1> DEFINE f == [kind |-> kind, of |-> r, encrypted |-> sCipher[c]]
<1>1. sCipher[c] \in BOOLEAN /\ toClient \in [Conns -> Seq(Frame)]
  BY Zenon DEF ChannelType
<1>2. f \in Frame
  BY <1>1, Zenon DEF Frame, FrameKinds
<1>3. f.kind = kind /\ f.of = r /\ f.encrypted = sCipher[c]
  OBVIOUS
<1>4. toClient' = [toClient EXCEPT ![c] = Append(toClient[c], f)]
  BY Zenon DEF FromServer
<1> HIDE DEF f
<1>5. toClient[c] \in Seq(Frame)
  BY <1>1, Zenon
<1>6. /\ Append(toClient[c], f) \in Seq(Frame)
      /\ Len(toClient[c]) \in Nat /\ Len(Append(toClient[c], f)) = Len(toClient[c]) + 1
      /\ \A i \in 1..Len(toClient[c]) : Append(toClient[c], f)[i] = toClient[c][i]
      /\ Append(toClient[c], f)[Len(toClient[c]) + 1] = f
  BY <1>2, <1>5, AppendFrame, Zenon
<1>7. toClient'[c] = Append(toClient[c], f) /\ \A d \in Conns \ {c} : toClient'[d] = toClient[d]
  BY <1>1, <1>4, Zenon
<1>8. toClient' \in [Conns -> Seq(Frame)]
  BY <1>1, <1>4, <1>6, Zenon
<1> QED BY <1>3, <1>6, <1>7, <1>8, Zenon DEF ServerSent

\* What the client adds to the queue to the server.
ClientSent(c, kind, r) ==
    /\ toServer' \in [Conns -> Seq(Frame)] /\ toServer'[c] # <<>>
    /\ Len(toServer[c]) \in Nat /\ Len(toServer'[c]) = Len(toServer[c]) + 1
    /\ \A i \in 1..Len(toServer[c]) : toServer'[c][i] = toServer[c][i]
    /\ toServer'[c][Len(toServer[c]) + 1].kind = kind
    /\ toServer'[c][Len(toServer[c]) + 1].of = r
    /\ toServer'[c][Len(toServer[c]) + 1].encrypted = cCipher[c]
    /\ \A d \in Conns \ {c} : toServer'[d] = toServer[d]

\* The client's send appends one frame to its side of the connection.
LEMMA ClientSends ==
    ASSUME ChannelType, NEW c \in Conns, NEW r \in 0..MaxCalls,
           NEW kind \in FrameKinds,
           FromClient(c, kind, r)
    PROVE  ClientSent(c, kind, r)
<1> DEFINE f == [kind |-> kind, of |-> r, encrypted |-> cCipher[c]]
<1>1. cCipher[c] \in BOOLEAN /\ toServer \in [Conns -> Seq(Frame)]
  BY Zenon DEF ChannelType
<1>2. f \in Frame
  BY <1>1, Zenon DEF Frame, FrameKinds
<1>3. f.kind = kind /\ f.of = r /\ f.encrypted = cCipher[c]
  OBVIOUS
<1>4. toServer' = [toServer EXCEPT ![c] = Append(toServer[c], f)]
  BY Zenon DEF FromClient
<1> HIDE DEF f
<1>5. toServer[c] \in Seq(Frame)
  BY <1>1, Zenon
<1>6. /\ Append(toServer[c], f) \in Seq(Frame) /\ Append(toServer[c], f) # <<>>
      /\ Len(toServer[c]) \in Nat /\ Len(Append(toServer[c], f)) = Len(toServer[c]) + 1
      /\ \A i \in 1..Len(toServer[c]) : Append(toServer[c], f)[i] = toServer[c][i]
      /\ Append(toServer[c], f)[Len(toServer[c]) + 1] = f
  BY <1>2, <1>5, AppendFrame, Zenon
<1>7. toServer'[c] = Append(toServer[c], f) /\ \A d \in Conns \ {c} : toServer'[d] = toServer[d]
  BY <1>1, <1>4, Zenon
<1>8. toServer' \in [Conns -> Seq(Frame)]
  BY <1>1, <1>4, <1>6, Zenon
<1> QED BY <1>3, <1>6, <1>7, <1>8, Zenon DEF ClientSent

\* The reader of a queue takes its first frame.
LEMMA QueueTail ==
    ASSUME NEW q \in [Conns -> Seq(Frame)], NEW c \in Conns, q[c] # <<>>,
           NEW p, p = [q EXCEPT ![c] = Tail(q[c])]
    PROVE  /\ p \in [Conns -> Seq(Frame)]
           /\ Len(q[c]) \in Nat /\ Len(q[c]) >= 1 /\ Len(p[c]) = Len(q[c]) - 1
           /\ \A i \in 1..Len(p[c]) : i + 1 \in 1..Len(q[c]) /\ p[c][i] = q[c][i + 1]
           /\ Head(q[c]) = q[c][1] /\ q[c][1] \in Frame
           /\ \A d \in Conns \ {c} : p[d] = q[d]
<1>1. q[c] \in Seq(Frame)
  OBVIOUS
<1>2. /\ Tail(q[c]) \in Seq(Frame) /\ Len(q[c]) \in Nat /\ Len(q[c]) >= 1
      /\ Len(Tail(q[c])) = Len(q[c]) - 1
      /\ \A i \in 1..Len(q[c]) - 1 : Tail(q[c])[i] = q[c][i + 1]
      /\ Head(q[c]) = q[c][1] /\ q[c][1] \in Frame
  BY <1>1, TailFrame, Zenon
<1>3. p[c] = Tail(q[c]) /\ \A d \in Conns \ {c} : p[d] = q[d]
  OBVIOUS
<1>4. p \in [Conns -> Seq(Frame)]
  BY <1>2, Zenon
<1>5. \A i \in 1..Len(p[c]) : i + 1 \in 1..Len(q[c])
  BY <1>2, <1>3
<1> QED BY <1>2, <1>3, <1>4, <1>5, Zenon

\* The handler's part of the protocol: Accept to the offer and the reply.
LEMMA HandshakeSteps ==
    ASSUME ServerInv, ChannelType, NEW c \in Conns, ConnInv(c),
           Accept(c) \/ EnterPlain(c) \/ SendOffer(c) \/ ReadReply(c) \/ Publish(c)
    PROVE  HandlerActs(c) /\ ChannelType' /\ ConnInv(c)' /\ rejected' = rejected
<1>0. /\ handler \in [Conns -> HandlerStates] /\ c \in 0..MaxConns
      /\ sCipher[c] \in BOOLEAN /\ cCipher[c] \in BOOLEAN
      /\ toServer \in [Conns -> Seq(Frame)] /\ toClient \in [Conns -> Seq(Frame)]
      /\ handler[c] # "none" => server[c] # 0 /\ server[c] \in Servers
  BY BoundsAssumption DEF ServerInv, ChannelType, Conns, Servers
<1>1. handler[c] # "none" => Secured(c) \in BOOLEAN
  BY <1>0, Zenon DEF ServerInv, Secured
<1>2. ASSUME handler[c] # "none"
      PROVE  /\ CiphersInOrder(c) /\ QuietBefore(c) /\ ~(c > conns)
             /\ \A i \in 1..Len(toServer[c]) : RequestFits(c, i)
             /\ \A i \in 1..Len(toClient[c]) : AnswerFits(c, i)
  BY <1>2, Zenon DEF ConnInv
<1>3. CASE Accept(c)
  <2>1. /\ handler[c] = "backlog" /\ handler' = [handler EXCEPT ![c] = "accepted"]
        /\ UNCHANGED <<listener, pq, conns, server, toServer, toClient, sCipher, cCipher, cOpen, secureMode, shared, mutex,
                       call, stream, executed, rejected>>
    BY <1>3, Zenon DEF Accept, HandlerGoes, serverVars, clientVars, historyVars
  <2>2. handler'[c] = "accepted" /\ \A d \in Conns \ {c} : handler'[d] = handler[d]
    BY <1>0, <2>1, Zenon
  <2>3. CiphersInOrder(c)' /\ QuietBefore(c)'
    BY <1>2, <2>1, <2>2, Zenon DEF CiphersInOrder, QuietBefore, Secured
  <2>4. \A i \in 1..Len(toServer'[c]) : RequestFits(c, i)'
    BY <1>2, <2>1, <2>2, Zenon DEF RequestFits, Secured, Asks
  <2>5. \A i \in 1..Len(toClient'[c]) : AnswerFits(c, i)'
    BY <1>2, <2>1, Zenon DEF AnswerFits, Secured, Answers
  <2>6. HandlerActs(c) /\ rejected' = rejected
    BY <2>1, <2>2, Zenon DEF HandlerActs
  <2>7. ChannelType'
    BY <2>1, Zenon DEF ChannelType
  <2> QED BY <1>2, <2>1, <2>2, <2>3, <2>4, <2>5, <2>6, <2>7, Zenon DEF ConnInv
<1>4. CASE EnterPlain(c)
  <2>1. /\ handler[c] = "accepted" /\ ~requirePq /\ handler' = [handler EXCEPT ![c] = "reading"]
        /\ UNCHANGED <<listener, pq, conns, server, toServer, toClient, sCipher, cCipher, cOpen, secureMode, shared, mutex,
                       call, stream, executed, rejected>>
    BY <1>4, Zenon DEF EnterPlain, HandlerGoes, serverVars, clientVars, historyVars
  <2>2. handler'[c] = "reading" /\ \A d \in Conns \ {c} : handler'[d] = handler[d]
    BY <1>0, <2>1, Zenon
  <2>3. sCipher[c] = Secured(c) \/ (server[c] # listener /\ toClient[c] = <<>>)
    <3>1. server[c] = listener => Secured(c) = FALSE
      BY <1>0, <1>1, <2>1, Zenon DEF ServerInv, Secured
    <3>2. Secured(c) = TRUE => toClient[c] = <<>>
      BY <1>2, <2>1, Zenon DEF CiphersInOrder
    <3>3. Secured(c) = FALSE => sCipher[c] = FALSE
      BY <1>0, <1>2, <2>1, Zenon DEF CiphersInOrder
    <3> QED BY <1>1, <2>1, <3>1, <3>2, <3>3, Zenon
  <2>4. CiphersInOrder(c)' /\ QuietBefore(c)'
    BY <1>2, <2>1, <2>2, <2>3, Zenon DEF CiphersInOrder, QuietBefore, Secured
  <2>5. \A i \in 1..Len(toServer'[c]) : RequestFits(c, i)'
    BY <1>2, <2>1, <2>2, Zenon DEF RequestFits, Secured, Asks
  <2>6. \A i \in 1..Len(toClient'[c]) : AnswerFits(c, i)'
    BY <1>2, <2>1, Zenon DEF AnswerFits, Secured, Answers
  <2>7. HandlerActs(c) /\ rejected' = rejected
    BY <2>1, <2>2, Zenon DEF HandlerActs
  <2>8. ChannelType'
    BY <2>1, Zenon DEF ChannelType
  <2> QED BY <1>2, <2>1, <2>2, <2>4, <2>5, <2>6, <2>7, <2>8, Zenon DEF ConnInv
<1>5. CASE SendOffer(c)
  <2>1. /\ handler[c] = "accepted" /\ requirePq /\ server[c] = listener /\ FromServer(c, "offer", 0)
        /\ handler' = [handler EXCEPT ![c] = "offered"]
        /\ UNCHANGED <<listener, pq, conns, server, toServer, sCipher, cCipher, cOpen, secureMode, shared, mutex,
                       call, stream, executed, rejected>>
    BY <1>5, Zenon DEF SendOffer, Live, HandlerGoes, serverVars, clientVars, historyVars
  <2>2. handler'[c] = "offered" /\ \A d \in Conns \ {c} : handler'[d] = handler[d]
    BY <1>0, <2>1, Zenon
  <2>3. Secured(c) = TRUE
    BY <1>0, <1>1, <2>1, Zenon DEF ServerInv, Secured
  <2>4. cCipher[c] = FALSE /\ sCipher[c] = FALSE /\ toClient[c] = <<>> /\ toServer[c] = <<>>
    BY <1>0, <1>2, <2>1, <2>3, Zenon DEF CiphersInOrder, QuietBefore
  <2>5. /\ toClient' \in [Conns -> Seq(Frame)] /\ Len(toClient'[c]) = Len(toClient[c]) + 1
        /\ toClient'[c][Len(toClient[c]) + 1].kind = "offer"
        /\ \A d \in Conns \ {c} : toClient'[d] = toClient[d]
    <3>1. 0 \in 0..MaxCalls
      BY BoundsAssumption
    <3>2. ServerSent(c, "offer", 0)
      BY <2>1, <3>1, ServerSends, KindsOfFrame, Zenon
    <3> QED BY <3>2, Zenon DEF ServerSent
  <2>6. Len(toClient'[c]) = 1 /\ toClient'[c][1].kind = "offer"
    BY <2>4, <2>5
  <2>7. Secured(c)' = TRUE /\ cCipher'[c] = FALSE /\ sCipher'[c] = FALSE /\ toServer'[c] = <<>>
    <3>1. Secured(c)' = TRUE
      BY <2>1, <2>3, Zenon DEF Secured
    <3> QED BY <2>1, <2>4, <3>1, Zenon
  <2>8. CiphersInOrder(c)' /\ QuietBefore(c)'
    <3>1. CiphersInOrder(c)'
      BY <2>2, <2>7, Zenon DEF CiphersInOrder
    <3>2. QuietBefore(c)'
      BY <2>6, <2>7 DEF QuietBefore
    <3> QED BY <3>1, <3>2, Zenon
  <2>9. \A i \in 1..Len(toServer'[c]) : RequestFits(c, i)'
    BY <2>1, <2>4
  <2>10. \A i \in 1..Len(toClient'[c]) : AnswerFits(c, i)'
    <3>1. \A i \in 1..Len(toClient'[c]) : i = 1
      BY <2>6
    <3>2. AnswerFits(c, 1)'
      BY <2>6, <2>7, Zenon DEF AnswerFits
    <3> QED BY <3>1, <3>2, Zenon
  <2>11. HandlerActs(c) /\ rejected' = rejected
    BY <2>1, <2>2, <2>5, Zenon DEF HandlerActs
  <2>12. ChannelType'
    BY <2>1, <2>5, Zenon DEF ChannelType
  <2> QED BY <1>2, <2>1, <2>2, <2>8, <2>9, <2>10, <2>11, <2>12, Zenon DEF ConnInv
<1>6. CASE ReadReply(c)
  <2>1. /\ handler[c] = "offered" /\ toServer[c] # <<>>
        /\ toServer' = [toServer EXCEPT ![c] = Tail(toServer[c])]
        /\ UNCHANGED <<listener, pq, conns, server, cCipher, cOpen, secureMode, shared, mutex,
                       call, stream, executed, rejected>>
    BY <1>6, Zenon DEF ReadReply, serverVars, clientVars, historyVars
  <2>2. Secured(c) = TRUE
    BY <1>1, <2>1, Zenon DEF ServerInv, Secured
  <2>3. cCipher[c] = TRUE /\ toServer[c][1].kind = "reply"
    BY <1>0, <1>2, <2>1, <2>2, Zenon DEF CiphersInOrder, QuietBefore
  <2>4. /\ toServer' \in [Conns -> Seq(Frame)]
        /\ \A i \in 1..Len(toServer'[c]) : i + 1 \in 1..Len(toServer[c]) /\ toServer'[c][i] = toServer[c][i + 1]
        /\ Head(toServer[c]) = toServer[c][1]
        /\ \A d \in Conns \ {c} : toServer'[d] = toServer[d]
    BY <1>0, <2>1, QueueTail
  <2>5. /\ sCipher' = [sCipher EXCEPT ![c] = TRUE] /\ handler' = [handler EXCEPT ![c] = "publishing"]
        /\ UNCHANGED toClient
    BY <1>6, <2>3, <2>4, Zenon DEF ReadReply, HandlerGoes
  <2>6. handler'[c] = "publishing" /\ \A d \in Conns \ {c} : handler'[d] = handler[d]
    BY <1>0, <2>5, Zenon
  <2>7. sCipher' \in [Conns -> BOOLEAN] /\ sCipher'[c] = TRUE /\ \A d \in Conns \ {c} : sCipher'[d] = sCipher[d]
    BY <2>5, Zenon DEF ChannelType
  <2>8. Secured(c)' = TRUE
    BY <2>1, <2>2, Zenon DEF Secured
  <2>9. CiphersInOrder(c)' /\ QuietBefore(c)'
    BY <2>1, <2>3, <2>6, <2>7, <2>8, Zenon DEF CiphersInOrder, QuietBefore
  <2>10. ASSUME NEW i \in 1..Len(toServer'[c]) PROVE RequestFits(c, i)'
    <3>1. i + 1 \in 1..Len(toServer[c]) /\ toServer'[c][i] = toServer[c][i + 1] /\ i + 1 # 1
      BY <2>4
    <3>2. toServer[c][i + 1].kind \in Asks(c) /\ toServer[c][i + 1].encrypted = Secured(c)
      BY <1>2, <2>1, <3>1, Zenon DEF RequestFits
    <3> QED BY <2>1, <2>2, <2>8, <3>1, <3>2, Zenon DEF RequestFits, Asks
  <2>11. \A i \in 1..Len(toClient'[c]) : AnswerFits(c, i)'
    BY <1>2, <2>1, <2>2, <2>5, <2>8, Zenon DEF AnswerFits, Answers
  <2>12. HandlerActs(c) /\ rejected' = rejected
    BY <2>1, <2>4, <2>5, <2>6, <2>7, Zenon DEF HandlerActs
  <2>13. ChannelType'
    BY <2>1, <2>4, <2>5, <2>7, Zenon DEF ChannelType
  <2> QED BY <1>2, <2>1, <2>6, <2>9, <2>10, <2>11, <2>12, <2>13, Zenon DEF ConnInv
<1>7. CASE Publish(c)
  <2>1. /\ handler[c] = "publishing" /\ handler' = [handler EXCEPT ![c] = "reading"]
        /\ UNCHANGED <<listener, pq, conns, server, toServer, toClient, sCipher, cCipher, cOpen, secureMode, shared, mutex,
                       call, stream, executed, rejected>>
    BY <1>7, Zenon DEF Publish, HandlerGoes, clientVars, historyVars
  <2>2. handler'[c] = "reading" /\ \A d \in Conns \ {c} : handler'[d] = handler[d]
    BY <1>0, <2>1, Zenon
  <2>3. CiphersInOrder(c)' /\ QuietBefore(c)'
    BY <1>2, <2>1, <2>2, Zenon DEF CiphersInOrder, QuietBefore, Secured
  <2>4. \A i \in 1..Len(toServer'[c]) : RequestFits(c, i)'
    BY <1>2, <2>1, <2>2, Zenon DEF RequestFits, Secured, Asks
  <2>5. \A i \in 1..Len(toClient'[c]) : AnswerFits(c, i)'
    BY <1>2, <2>1, Zenon DEF AnswerFits, Secured, Answers
  <2>6. HandlerActs(c) /\ rejected' = rejected
    BY <2>1, <2>2, Zenon DEF HandlerActs
  <2>7. ChannelType'
    BY <2>1, Zenon DEF ChannelType
  <2> QED BY <1>2, <2>1, <2>2, <2>3, <2>4, <2>5, <2>6, <2>7, Zenon DEF ConnInv
<1> QED BY <1>3, <1>4, <1>5, <1>6, <1>7, Zenon

\* A handler that reads a request finds one of its kind under its keys: it
\* executes a caller's, or starts the stream's.
LEMMA ReadRequestFacts ==
    ASSUME ServerInv, ChannelType, NEW c \in Conns, ConnInv(c), ReadRequest(c)
    PROVE  /\ handler[c] = "reading" /\ sCipher[c] = Secured(c) /\ cCipher[c] = Secured(c)
           /\ toServer[c] # <<>> /\ toServer[c][1] \in Frame
           /\ toServer' = [toServer EXCEPT ![c] = Tail(toServer[c])]
           /\ \/ /\ c # stream.conn /\ toServer[c][1].kind = "run"
                 /\ executed' = [executed EXCEPT ![toServer[c][1].of] = @ + 1]
                 /\ FromServer(c, "response", toServer[c][1].of) /\ UNCHANGED handler
              \/ /\ c = stream.conn /\ toServer[c][1].kind = "rag"
                 /\ HandlerGoes(c, "streaming") /\ UNCHANGED <<toClient, executed>>
           /\ rejected' = rejected
           /\ UNCHANGED <<listener, pq, conns, server, sCipher, cCipher, cOpen, secureMode, shared, mutex,
                          call, stream, replies>>
<1>0. /\ sCipher[c] \in BOOLEAN /\ cCipher[c] \in BOOLEAN
      /\ toServer \in [Conns -> Seq(Frame)] /\ toClient \in [Conns -> Seq(Frame)]
  BY Zenon DEF ChannelType
<1>1. /\ handler[c] = "reading" /\ server[c] = listener /\ toServer[c] # <<>>
      /\ toServer' = [toServer EXCEPT ![c] = Tail(toServer[c])]
      /\ UNCHANGED <<listener, pq, conns, server, sCipher, cCipher, cOpen, secureMode, shared, mutex,
                     call, stream, replies>>
  BY Zenon DEF ReadRequest, Live, serverVars, clientVars
<1>2. Head(toServer[c]) = toServer[c][1] /\ toServer[c][1] \in Frame /\ 1 \in 1..Len(toServer[c])
  <2>1. Len(toServer[c]) \in Nat /\ Len(toServer[c]) >= 1 /\ Head(toServer[c]) = toServer[c][1] /\ toServer[c][1] \in Frame
    BY <1>0, <1>1, TailFrame, Zenon
  <2> QED BY <2>1
<1>3. /\ CiphersInOrder(c) /\ QuietBefore(c)
      /\ toServer[c][1].kind \in Asks(c) /\ toServer[c][1].encrypted = Secured(c)
  BY <1>1, <1>2, Zenon DEF ConnInv, RequestFits
<1>4. Secured(c) \in BOOLEAN
  <2>1. server[c] \in Servers
    BY <1>1, BoundsAssumption DEF ServerInv, Servers
  <2> QED BY <2>1, Zenon DEF ServerInv, Secured
<1>5. sCipher[c] = Secured(c)
  BY <1>1, <1>3, Zenon DEF CiphersInOrder
<1>6. cCipher[c] = Secured(c)
  BY <1>0, <1>1, <1>3, <1>4, Zenon DEF CiphersInOrder, QuietBefore
<1>7. \/ c # stream.conn /\ toServer[c][1].kind = "run"
      \/ c = stream.conn /\ toServer[c][1].kind = "rag"
  BY <1>3, Zenon DEF Asks
<1>8. toServer[c][1].encrypted = sCipher[c]
  BY <1>3, <1>5, Zenon
<1>9. \/ /\ toServer[c][1].kind = "run"
         /\ executed' = [executed EXCEPT ![toServer[c][1].of] = @ + 1]
         /\ FromServer(c, "response", toServer[c][1].of) /\ UNCHANGED <<handler, rejected>>
      \/ /\ toServer[c][1].kind = "rag"
         /\ HandlerGoes(c, "streaming") /\ UNCHANGED <<toClient, executed, rejected>>
  BY <1>2, <1>7, <1>8, Zenon DEF ReadRequest
<1> QED BY <1>1, <1>2, <1>5, <1>6, <1>7, <1>9, Zenon

\* The handler's part of the protocol: the requests it reads and the answers it sends.
LEMMA ServingSteps ==
    ASSUME ServerInv, ChannelType, NEW c \in Conns, ConnInv(c), ReadRequest(c) \/ SendChunk(c) \/ SendFinal(c)
    PROVE  HandlerActs(c) /\ ChannelType' /\ ConnInv(c)' /\ rejected' = rejected
<1>0. /\ handler \in [Conns -> HandlerStates]
      /\ sCipher[c] \in BOOLEAN /\ cCipher[c] \in BOOLEAN
      /\ toServer \in [Conns -> Seq(Frame)] /\ toClient \in [Conns -> Seq(Frame)]
      /\ executed \in [Calls -> Nat]
      /\ handler[c] # "none" => server[c] # 0 /\ server[c] \in Servers
  BY BoundsAssumption DEF ServerInv, ChannelType, Conns, Servers
<1>1. handler[c] # "none" => Secured(c) \in BOOLEAN
  BY <1>0, Zenon DEF ServerInv, Secured
<1>2. ASSUME handler[c] # "none"
      PROVE  /\ CiphersInOrder(c) /\ QuietBefore(c) /\ ~(c > conns)
             /\ \A i \in 1..Len(toServer[c]) : RequestFits(c, i)
             /\ \A i \in 1..Len(toClient[c]) : AnswerFits(c, i)
  BY <1>2, Zenon DEF ConnInv
<1>3. ASSUME NEW kind \in {"response", "chunk", "final"}, NEW r \in 0..MaxCalls, FromServer(c, kind, r),
             kind \in Answers(c), handler[c] # "none", sCipher[c] = Secured(c), cCipher[c] = Secured(c),
             UNCHANGED <<pq, server, cCipher, stream>>
      PROVE  /\ toClient' \in [Conns -> Seq(Frame)] /\ \A d \in Conns \ {c} : toClient'[d] = toClient[d]
             /\ \A i \in 1..Len(toClient'[c]) : AnswerFits(c, i)'
  <2>1. PICK n \in Nat : n = Len(toClient[c])
    <3>1. toClient[c] \in Seq(Frame)
      BY <1>0, Zenon
    <3>2. Len(toClient[c]) \in Nat
      BY <3>1
    <3> QED BY <3>2, Zenon
  <2>2. /\ toClient' \in [Conns -> Seq(Frame)] /\ Len(toClient'[c]) = n + 1
        /\ \A i \in 1..n : toClient'[c][i] = toClient[c][i]
        /\ toClient'[c][n + 1].kind = kind
        /\ toClient'[c][n + 1].encrypted = sCipher[c]
        /\ \A d \in Conns \ {c} : toClient'[d] = toClient[d]
    <3>1. kind \in FrameKinds
      BY KindsOfFrame, Zenon
    <3>2. ServerSent(c, kind, r)
      BY <1>3, <3>1, ServerSends, Zenon
    <3> QED BY <2>1, <3>2, Zenon DEF ServerSent
  <2>3. Secured(c)' = Secured(c) /\ Answers(c)' = Answers(c) /\ cCipher'[c] = cCipher[c]
    BY <1>3, Zenon DEF Secured, Answers
  <2>4. AnswerFits(c, n + 1)'
    BY <1>3, <2>2, <2>3, Zenon DEF AnswerFits
  <2>5. ASSUME NEW i \in 1..n PROVE AnswerFits(c, i)'
    BY <1>2, <1>3, <2>1, <2>2, <2>3, Zenon DEF AnswerFits
  <2>6. \A i \in 1..Len(toClient'[c]) : i \in 1..n \/ i = n + 1
    BY <2>2
  <2> QED BY <2>2, <2>4, <2>5, <2>6, Zenon
<1>4. CASE ReadRequest(c)
  <2>1. /\ handler[c] = "reading" /\ sCipher[c] = Secured(c) /\ cCipher[c] = Secured(c)
        /\ toServer[c] # <<>> /\ toServer[c][1] \in Frame
        /\ toServer' = [toServer EXCEPT ![c] = Tail(toServer[c])]
        /\ UNCHANGED <<listener, pq, conns, server, sCipher, cCipher, cOpen, secureMode, shared, mutex,
                       call, stream, rejected>>
    BY <1>4, ReadRequestFacts, Zenon
  <2>2. \/ /\ c # stream.conn
           /\ executed' = [executed EXCEPT ![toServer[c][1].of] = @ + 1]
           /\ FromServer(c, "response", toServer[c][1].of) /\ UNCHANGED handler
        \/ /\ c = stream.conn
           /\ HandlerGoes(c, "streaming") /\ UNCHANGED <<toClient, executed>>
    BY <1>4, ReadRequestFacts, Zenon
  <2>3. toServer[c][1].of \in 0..MaxCalls
    BY <2>1, Zenon DEF Frame
  <2>4. /\ toServer' \in [Conns -> Seq(Frame)]
        /\ \A i \in 1..Len(toServer'[c]) : i + 1 \in 1..Len(toServer[c]) /\ toServer'[c][i] = toServer[c][i + 1]
        /\ \A d \in Conns \ {c} : toServer'[d] = toServer[d]
    BY <1>0, <2>1, QueueTail
  <2>5. /\ handler'[c] \in {"reading", "streaming"}
        /\ handler'[c] = "streaming" => c = stream.conn
        /\ \A d \in Conns \ {c} : handler'[d] = handler[d]
    BY <1>0, <2>1, <2>2, Zenon DEF HandlerGoes
  <2>6. /\ toClient' \in [Conns -> Seq(Frame)] /\ \A d \in Conns \ {c} : toClient'[d] = toClient[d]
        /\ \A i \in 1..Len(toClient'[c]) : AnswerFits(c, i)'
    <3>1. CASE c # stream.conn /\ FromServer(c, "response", toServer[c][1].of)
      BY <1>3, <2>1, <2>3, <3>1, Zenon DEF Answers
    <3>2. CASE UNCHANGED toClient
      BY <1>0, <1>2, <2>1, <3>2, Zenon DEF AnswerFits, Secured, Answers
    <3> QED BY <2>2, <3>1, <3>2, Zenon
  <2>7. executed' \in [Calls -> Nat]
    <3>1. CASE executed' = [executed EXCEPT ![toServer[c][1].of] = @ + 1]
      BY <1>0, <3>1, CallCounted, Zenon
    <3> QED BY <1>0, <2>2, <3>1, Zenon
  <2>8. Secured(c)' = Secured(c) /\ Asks(c)' = Asks(c) /\ cCipher'[c] = cCipher[c] /\ sCipher'[c] = sCipher[c]
    BY <2>1, Zenon DEF Secured, Asks
  <2>9. CiphersInOrder(c)' /\ QuietBefore(c)'
    <3>1. CiphersInOrder(c)'
      BY <1>2, <2>1, <2>5, <2>8, Zenon DEF CiphersInOrder
    <3>2. QuietBefore(c)'
      BY <2>1, <2>8, Zenon DEF QuietBefore
    <3> QED BY <3>1, <3>2, Zenon
  <2>10. ASSUME NEW i \in 1..Len(toServer'[c]) PROVE RequestFits(c, i)'
    <3>1. i + 1 \in 1..Len(toServer[c]) /\ toServer'[c][i] = toServer[c][i + 1]
      BY <2>4, Zenon
    <3>2. toServer[c][i + 1].kind \in Asks(c) /\ toServer[c][i + 1].encrypted = Secured(c)
      BY <1>2, <2>1, <3>1, Zenon DEF RequestFits
    <3> QED BY <2>8, <3>1, <3>2, Zenon DEF RequestFits
  <2>11. HandlerActs(c) /\ rejected' = rejected
    BY <2>1, <2>4, <2>5, <2>6, Zenon DEF HandlerActs
  <2>12. ChannelType'
    BY <2>1, <2>4, <2>6, <2>7, Zenon DEF ChannelType
  <2> QED BY <1>2, <2>1, <2>5, <2>6, <2>9, <2>10, <2>11, <2>12, Zenon DEF ConnInv
<1>5. CASE SendChunk(c) \/ SendFinal(c)
  <2>1. /\ handler[c] = "streaming"
        /\ FromServer(c, "chunk", 0) \/ FromServer(c, "final", 0)
        /\ UNCHANGED handler \/ handler' = [handler EXCEPT ![c] = "reading"]
        /\ UNCHANGED <<listener, pq, conns, server, toServer, sCipher, cCipher, cOpen, secureMode, shared, mutex,
                       call, stream, executed, rejected>>
    BY <1>5, Zenon DEF SendChunk, SendFinal, HandlerGoes, serverVars, clientVars, historyVars
  <2>2. handler'[c] \in {"streaming", "reading"} /\ \A d \in Conns \ {c} : handler'[d] = handler[d]
    BY <1>0, <2>1, Zenon
  <2>3. c = stream.conn /\ sCipher[c] = Secured(c) /\ cCipher[c] = Secured(c)
    BY <1>0, <1>1, <1>2, <2>1, Zenon DEF CiphersInOrder
  <2>4. /\ toClient' \in [Conns -> Seq(Frame)] /\ \A d \in Conns \ {c} : toClient'[d] = toClient[d]
        /\ \A i \in 1..Len(toClient'[c]) : AnswerFits(c, i)'
    <3>1. "chunk" \in Answers(c) /\ "final" \in Answers(c) /\ 0 \in 0..MaxCalls
      BY <2>3, BoundsAssumption DEF Answers
    <3> QED BY <1>3, <2>1, <2>3, <3>1, Zenon
  <2>5. Secured(c)' = Secured(c) /\ Asks(c)' = Asks(c) /\ cCipher'[c] = cCipher[c] /\ sCipher'[c] = sCipher[c]
    BY <2>1, Zenon DEF Secured, Asks
  <2>6. CiphersInOrder(c)' /\ QuietBefore(c)'
    <3>1. CiphersInOrder(c)'
      BY <1>2, <2>1, <2>2, <2>3, <2>5, Zenon DEF CiphersInOrder
    <3>2. QuietBefore(c)'
      BY <2>3, <2>5, Zenon DEF QuietBefore
    <3> QED BY <3>1, <3>2, Zenon
  <2>7. \A i \in 1..Len(toServer'[c]) : RequestFits(c, i)'
    BY <1>2, <2>1, <2>2, <2>5, Zenon DEF RequestFits
  <2>8. HandlerActs(c) /\ rejected' = rejected
    BY <2>1, <2>2, <2>4, Zenon DEF HandlerActs
  <2>9. ChannelType'
    BY <2>1, <2>4, Zenon DEF ChannelType
  <2> QED BY <1>2, <2>1, <2>2, <2>4, <2>6, <2>7, <2>8, <2>9, Zenon DEF ConnInv
<1> QED BY <1>4, <1>5, Zenon

\* The handler's part of the protocol: the ways it ends.
LEMMA EndingSteps ==
    ASSUME ServerInv, ChannelType, NEW c \in Conns, ConnInv(c),
           HandlerCanceled(c) \/ HandlerSeesEof(c) \/ StreamFaults(c) \/ Reset(c)
    PROVE  HandlerActs(c) /\ ChannelType' /\ ConnInv(c)' /\ rejected' = rejected /\ executed' = executed
<1>0. /\ handler \in [Conns -> HandlerStates] /\ cOpen[c] \in BOOLEAN
      /\ toServer \in [Conns -> Seq(Frame)] /\ toClient \in [Conns -> Seq(Frame)]
  BY Zenon DEF ServerInv, ChannelType
<1>1. /\ handler[c] # "none" /\ handler' = [handler EXCEPT ![c] = "closed"]
      /\ UNCHANGED <<listener, pq, conns, server, sCipher, cCipher, cOpen, secureMode, shared, mutex,
                     call, stream, executed, rejected>>
      /\ \/ UNCHANGED <<toServer, toClient>>
         \/ toServer' = [toServer EXCEPT ![c] = <<>>] /\ toClient' = [toClient EXCEPT ![c] = <<>>]
  BY Zenon DEF HandlerCanceled, HandlerSeesEof, StreamFaults, Reset, HandlerGoes, serverVars, clientVars, historyVars
<1>3. /\ CiphersInOrder(c) /\ QuietBefore(c) /\ ~(c > conns)
      /\ \A i \in 1..Len(toServer[c]) : RequestFits(c, i)
      /\ \A i \in 1..Len(toClient[c]) : AnswerFits(c, i)
  BY <1>1, Zenon DEF ConnInv
<1>4. handler'[c] = "closed" /\ \A d \in Conns \ {c} : handler'[d] = handler[d]
  BY <1>0, <1>1, Zenon
<1>5. /\ toServer' \in [Conns -> Seq(Frame)] /\ toClient' \in [Conns -> Seq(Frame)]
      /\ \A d \in Conns \ {c} : toServer'[d] = toServer[d] /\ toClient'[d] = toClient[d]
  <2>1. CASE UNCHANGED <<toServer, toClient>>
    BY <1>0, <2>1, Zenon
  <2>2. CASE toServer' = [toServer EXCEPT ![c] = <<>>] /\ toClient' = [toClient EXCEPT ![c] = <<>>]
    BY <1>0, <2>2
  <2> QED BY <1>1, <2>1, <2>2, Zenon
<1>6. \/ toServer'[c] = toServer[c] /\ toClient'[c] = toClient[c]
      \/ toServer'[c] = <<>> /\ toClient'[c] = <<>>
  BY <1>0, <1>1, Zenon
<1>7. /\ Secured(c)' = Secured(c) /\ Asks(c)' = Asks(c) /\ Answers(c)' = Answers(c)
      /\ cCipher'[c] = cCipher[c] /\ sCipher'[c] = sCipher[c]
  BY <1>1, Zenon DEF Secured, Asks, Answers
<1>8. CiphersInOrder(c)'
  BY <1>3, <1>4, <1>7, Zenon DEF CiphersInOrder
<1>9. QuietBefore(c)'
  <2>1. CASE toServer'[c] = toServer[c] /\ toClient'[c] = toClient[c]
    BY <1>3, <1>4, <1>7, <2>1, Zenon DEF QuietBefore
  <2>2. CASE toServer'[c] = <<>> /\ toClient'[c] = <<>>
    BY <2>2 DEF QuietBefore
  <2> QED BY <1>6, <2>1, <2>2, Zenon
<1>10. \A i \in 1..Len(toServer'[c]) : RequestFits(c, i)'
  <2>1. CASE toServer'[c] = toServer[c]
    BY <1>3, <1>4, <1>7, <2>1, Zenon DEF RequestFits
  <2>2. CASE toServer'[c] = <<>>
    BY <2>2
  <2> QED BY <1>6, <2>1, <2>2, Zenon
<1>11. \A i \in 1..Len(toClient'[c]) : AnswerFits(c, i)'
  <2>1. CASE toClient'[c] = toClient[c]
    BY <1>3, <1>7, <2>1, Zenon DEF AnswerFits
  <2>2. CASE toClient'[c] = <<>>
    BY <2>2
  <2> QED BY <1>6, <2>1, <2>2, Zenon
<1>12. HandlerActs(c)
  BY <1>1, <1>4, <1>5, Zenon DEF HandlerActs
<1>13. rejected' = rejected
  BY <1>1
<1>14. ChannelType'
  BY <1>1, <1>5, Zenon DEF ChannelType
<1> QED BY <1>1, <1>3, <1>4, <1>8, <1>9, <1>10, <1>11, <1>12, <1>13, <1>14, Zenon DEF ConnInv

----------------------------------------------------------------------------
\* Who uses which connection.  The stream has one of its own, which no caller
\* touches, open until the flow is over; whoever sends requests on a connection has
\* the cipher its server's mode asks for.
Used(c) == c \in Conns /\ handler[c] # "none"
Keyed(c) == cCipher[c] = Secured(c)

CallUse(r) ==
    /\ call[r].pc \in {"idle", "opening", "done"} => call[r].conn = 0
    /\ call[r].pc \in {"handshaking", "sending", "waiting"} => Used(call[r].conn) /\ call[r].conn # stream.conn
    /\ call[r].pc \in {"sending", "waiting"} => Keyed(call[r].conn)

SharedUse == shared # 0 => Used(shared) /\ shared # stream.conn /\ Keyed(shared)

StreamUse ==
    /\ stream.pc \in {"idle", "opening"} => stream.conn = 0
    /\ stream.conn # 0 => Used(stream.conn)
    /\ stream.pc \in {"handshaking", "sending", "reading"} =>
          stream.conn # 0 /\ cOpen[stream.conn] = TRUE
    /\ stream.pc \in {"sending", "reading"} => Keyed(stream.conn)

Users == (\A r \in Calls : CallUse(r)) /\ SharedUse /\ StreamUse

\* The inductive invariant of the channel.
ChannelInv ==
    /\ ChannelType
    /\ \A c \in Conns : ConnInv(c)
    /\ Users
    /\ rejected = {}

\* A handler's step keeps all of it.
LEMMA HandlerKeepsChannel ==
    ASSUME ServerInv, ChannelInv, NEW c \in Conns,
           HandlerStep(c) \/ SendChunk(c) \/ StreamFaults(c) \/ Reset(c)
    PROVE  HandlerActs(c) /\ ChannelInv'
<1>1. HandlerActs(c) /\ ChannelType' /\ ConnInv(c)' /\ rejected' = rejected
  BY HandshakeSteps, ServingSteps, EndingSteps, Zenon DEF ChannelInv, HandlerStep
<1>2. /\ UNCHANGED <<listener, pq, conns, server, cCipher, cOpen, shared, call, stream>>
      /\ handler[c] # "none" /\ handler'[c] # "none"
      /\ \A d \in Conns \ {c} : /\ handler'[d] = handler[d] /\ toServer'[d] = toServer[d]
                                /\ toClient'[d] = toClient[d] /\ sCipher'[d] = sCipher[d]
  BY <1>1, Zenon DEF HandlerActs
<1>3. ASSUME NEW d \in Conns PROVE ConnInv(d)'
  <2>1. CASE d = c
    BY <1>1, <2>1, Zenon
  <2>2. CASE d # c
    <3>1. /\ handler'[d] = handler[d] /\ toServer'[d] = toServer[d]
          /\ toClient'[d] = toClient[d] /\ sCipher'[d] = sCipher[d]
      BY <1>2, <2>2, Zenon
    <3>2. ConnInv(d)
      BY Zenon DEF ChannelInv
    <3> QED BY <1>2, <3>1, <3>2, ConnFrame, Zenon
  <2> QED BY <2>1, <2>2, Zenon
<1>4. /\ \A d \in Conns : Used(d) => Used(d)'
      /\ \A d \in Conns : Keyed(d) => Keyed(d)'
  BY <1>2, Zenon DEF Used, Keyed, Secured
<1>5. ASSUME NEW r \in Calls PROVE CallUse(r)'
  BY <1>2, <1>4, Zenon DEF ChannelInv, Users, CallUse, Used
<1>6. SharedUse'
  BY <1>2, <1>4, Zenon DEF ChannelInv, Users, SharedUse, Used
<1>7. StreamUse'
  <2>1. StreamUse
    BY Zenon DEF ChannelInv, Users
  <2>3. stream.conn # 0 => Used(stream.conn) /\ stream.conn \in Conns /\ Used(stream.conn)'
    BY <1>2, <1>4, <2>1, Zenon DEF StreamUse, Used
  <2>5. stream.pc \in {"sending", "reading"} => Keyed(stream.conn)'
    BY <1>2, <1>4, <2>1, <2>3, Zenon DEF StreamUse
  <2> QED BY <1>2, <2>1, <2>3, <2>5, Zenon DEF StreamUse
<1>8. rejected' = {}
  BY <1>1, Zenon DEF ChannelInv
<1> QED BY <1>1, <1>3, <1>5, <1>6, <1>7, <1>8, Zenon DEF ChannelInv, Users

----------------------------------------------------------------------------
\* A new connection has the number nobody uses yet, and is to a server in the mode
\* the transport claims; the others stay as they are.
LEMMA ConnectChannel ==
    ASSUME ServerInv, ModeHolds', ChannelInv, Connect, NEW n \in Conns, n = conns',
           UNCHANGED <<toServer, toClient, sCipher, cCipher, secureMode, executed>>,
           stream'.conn \in {stream.conn, n}, stream.conn # 0 => stream'.conn = stream.conn
    PROVE  /\ handler[n] = "none" /\ handler'[n] = "backlog" /\ cOpen'[n] = TRUE
           /\ ChannelType' /\ (\A d \in Conns : ConnInv(d)')
           /\ \A d \in Conns : handler[d] # "none" =>
                 /\ d # n /\ handler'[d] = handler[d] /\ cOpen'[d] = cOpen[d]
                 /\ Used(d)' /\ (Keyed(d) => Keyed(d)')
           /\ Used(n)' /\ (secureMode = FALSE => Keyed(n)')
<1>1. /\ n = conns + 1 /\ n > conns /\ ~(n > conns')
      /\ port' = listener'
      /\ server' = [server EXCEPT ![n] = port']
      /\ handler' = [handler EXCEPT ![n] = "backlog"]
      /\ cOpen' = [cOpen EXCEPT ![n] = TRUE]
  BY BoundsAssumption DEF ServerInv, Connect, Conns
<1>2. /\ ServerInv' /\ port' # 0 /\ server'[n] = port'
      /\ \A d \in Conns : d # n => server'[d] = server[d]
  BY ConnectFacts, Zenon
<1>3. /\ handler'[n] = "backlog" /\ \A d \in Conns \ {n} : handler'[d] = handler[d]
      /\ handler[n] = "none"
  BY <1>1, Zenon DEF ServerInv, ChannelInv, ConnInv
<1>4. /\ cOpen' \in [Conns -> BOOLEAN] /\ cOpen'[n] = TRUE
      /\ \A d \in Conns \ {n} : cOpen'[d] = cOpen[d]
  BY <1>1, Zenon DEF ChannelInv, ChannelType
<1>5. \A d \in Conns : handler[d] # "none" =>
         /\ d # n /\ server'[d] = server[d] /\ pq'[server[d]] = pq[server[d]]
         /\ listener' = server[d] => listener = server[d]
  <2> SUFFICES ASSUME NEW d \in Conns, handler[d] # "none"
               PROVE  /\ d # n /\ server'[d] = server[d] /\ pq'[server[d]] = pq[server[d]]
                      /\ listener' = server[d] => listener = server[d]
    OBVIOUS
  <2>1. d # n /\ server'[d] = server[d]
    BY <1>2, <1>3, Zenon
  <2>2. started \in Nat /\ server[d] \in 1..started
    BY BoundsAssumption DEF ServerInv
  <2>3. CASE UNCHANGED serverVars
    BY <2>1, <2>3, Zenon DEF serverVars
  <2>4. CASE Start /\ listener = 0
    <3>1. started' = started + 1 /\ listener' = started' /\ \A i \in 1..started : pq'[i] = pq[i]
      BY <2>4, StartFacts, Zenon
    <3> QED BY <2>1, <2>2, <3>1
  <2> QED BY <2>3, <2>4, Zenon DEF Connect, EnsurePort, serverVars
<1>6. Unused(n)
  BY <1>1, <1>3, Zenon DEF ChannelInv, ConnInv
<1>7. toServer'[n] = <<>> /\ toClient'[n] = <<>> /\ sCipher'[n] = FALSE /\ cCipher'[n] = FALSE
  BY <1>6, Zenon DEF Unused
<1>8. Secured(n)' = secureMode /\ secureMode \in BOOLEAN
  BY <1>1, <1>2, Zenon DEF ModeHolds, Secured, ServerInv
<1>9. ConnInv(n)'
  <2>1. CiphersInOrder(n)'
    BY <1>3, <1>7, Zenon DEF CiphersInOrder
  <2>2. QuietBefore(n)'
    BY <1>7 DEF QuietBefore
  <2>3. /\ \A i \in 1..Len(toServer'[n]) : RequestFits(n, i)'
        /\ \A i \in 1..Len(toClient'[n]) : AnswerFits(n, i)'
    BY <1>7
  <2> QED BY <1>1, <1>3, <2>1, <2>2, <2>3, Zenon DEF ConnInv
<1>10. ASSUME NEW d \in Conns PROVE ConnInv(d)'
  <2>1. CASE d # n
    <3>1. ConnInv(d) /\ handler'[d] = handler[d] /\ (d > conns' => d > conns)
      BY <1>1, <1>3, <2>1 DEF ChannelInv, ServerInv, Conns
    <3>2. d = stream'.conn <=> d = stream.conn
      <4>1. stream.conn # 0 \/ stream'.conn = n \/ stream'.conn = stream.conn
        OBVIOUS
      <4>2. d # 0
        BY DEF Conns
      <4> QED BY <2>1, <4>1, <4>2, Zenon
    <3> QED BY <1>5, <3>1, <3>2, ConnFrame, Zenon
  <2> QED BY <1>9, <2>1, Zenon
<1>11. ASSUME NEW d \in Conns, handler[d] # "none"
       PROVE  Used(d)' /\ (Keyed(d) => Keyed(d)')
  BY <1>3, <1>5, <1>11, Zenon DEF Used, Keyed, Secured
<1>12. Used(n)' /\ (secureMode = FALSE => Keyed(n)')
  BY <1>3, <1>7, <1>8, Zenon DEF Used, Keyed
<1>13. ChannelType'
  BY <1>4, Zenon DEF ChannelInv, ChannelType
<1> QED BY <1>3, <1>4, <1>5, <1>10, <1>11, <1>12, <1>13, Zenon

\* Closing the client's end of one connection leaves the others open.
LEMMA CloseFacts ==
    ASSUME ChannelType, NEW c, CloseEnd(c)
    PROVE  cOpen' \in [Conns -> BOOLEAN] /\ \A d \in Conns : d # c => cOpen'[d] = cOpen[d]
<1>1. cOpen \in [Conns -> BOOLEAN] /\ cOpen' = [d \in Conns |-> cOpen[d] /\ d # c]
  BY Zenon DEF ChannelType, CloseEnd
<1>2. \A d \in Conns : cOpen[d] \in BOOLEAN /\ cOpen'[d] = (cOpen[d] /\ d # c)
  BY <1>1, Zenon
<1> QED BY <1>1, <1>2, Zenon

\* A step that touches no connection, at most stopping the server.
LEMMA ChannelFrame ==
    ASSUME ServerInv, ChannelInv, listener' \in {listener, 0}, cOpen' \in [Conns -> BOOLEAN], stream'.conn = stream.conn,
           UNCHANGED <<pq, conns, server, handler, toServer, toClient, sCipher, cCipher, executed>>
    PROVE  ChannelType' /\ (\A c \in Conns : ConnInv(c)')
<1>1. ChannelType'
  BY Zenon DEF ChannelInv, ChannelType
<1>2. ASSUME NEW c \in Conns PROVE ConnInv(c)'
  <2>1. ConnInv(c) /\ (handler[c] # "none" => server[c] # 0)
    BY Zenon DEF ChannelInv, ServerInv
  <2>2. handler[c] # "none" => (listener' = server[c] => listener = server[c])
    BY <2>1, Zenon
  <2> QED BY <2>1, <2>2, ConnFrame, Zenon
<1> QED BY <1>1, <1>2, Zenon

\* The client takes the first frame of a connection.
LEMMA TakeChannel ==
    ASSUME ServerInv, ChannelInv, NEW c \in Conns, handler[c] # "none", toClient[c] # <<>>,
           toClient' = [toClient EXCEPT ![c] = Tail(toClient[c])],
           cOpen' \in [Conns -> BOOLEAN], stream'.conn = stream.conn,
           UNCHANGED <<listener, pq, conns, server, handler, toServer, sCipher, cCipher, executed>>
    PROVE  ChannelType' /\ (\A d \in Conns : ConnInv(d)')
<1>1. toClient \in [Conns -> Seq(Frame)] /\ ConnInv(c)
  BY Zenon DEF ChannelInv, ChannelType
<1>2. /\ toClient' \in [Conns -> Seq(Frame)]
      /\ Len(toClient[c]) \in Nat /\ Len(toClient'[c]) = Len(toClient[c]) - 1
      /\ \A i \in 1..Len(toClient'[c]) : i + 1 \in 1..Len(toClient[c]) /\ toClient'[c][i] = toClient[c][i + 1]
      /\ \A d \in Conns \ {c} : toClient'[d] = toClient[d]
  BY <1>1, QueueTail
<1>3. ChannelType'
  BY <1>2, Zenon DEF ChannelInv, ChannelType
<1>4. /\ Secured(c)' = Secured(c) /\ Asks(c)' = Asks(c) /\ Answers(c)' = Answers(c)
      /\ cCipher'[c] = cCipher[c] /\ sCipher'[c] = sCipher[c] /\ toServer'[c] = toServer[c] /\ handler'[c] = handler[c]
  BY Zenon DEF Secured, Asks, Answers
<1>5. /\ CiphersInOrder(c) /\ QuietBefore(c) /\ ~(c > conns)
      /\ \A i \in 1..Len(toServer[c]) : RequestFits(c, i)
      /\ \A i \in 1..Len(toClient[c]) : AnswerFits(c, i)
  BY <1>1, Zenon DEF ConnInv
<1>6. ConnInv(c)'
  <2>1. CiphersInOrder(c)'
    BY <1>4, <1>5, Zenon DEF CiphersInOrder
  <2>2. QuietBefore(c)'
    BY <1>2, <1>4, <1>5 DEF QuietBefore
  <2>3. \A i \in 1..Len(toServer'[c]) : RequestFits(c, i)'
    BY <1>4, <1>5, Zenon DEF RequestFits
  <2>4. ASSUME NEW i \in 1..Len(toClient'[c]) PROVE AnswerFits(c, i)'
    <3>1. AnswerFits(c, i + 1) /\ toClient'[c][i] = toClient[c][i + 1]
      BY <1>2, <1>5, Zenon
    <3> QED BY <1>4, <3>1, Zenon DEF AnswerFits
  <2> QED BY <1>4, <1>5, <2>1, <2>2, <2>3, <2>4, Zenon DEF ConnInv
<1>7. ASSUME NEW d \in Conns PROVE ConnInv(d)'
  <2>1. CASE d # c
    <3>1. ConnInv(d) /\ toClient'[d] = toClient[d]
      BY <1>2, <2>1, Zenon DEF ChannelInv
    <3> QED BY <3>1, ConnFrame, Zenon
  <2> QED BY <1>6, <2>1, Zenon
<1> QED BY <1>3, <1>7, Zenon

\* A client with the keys of a connection sends a request of its kind.
LEMMA SendChannel ==
    ASSUME ServerInv, ChannelInv, NEW c \in Conns, handler[c] # "none", Keyed(c),
           NEW kind \in {"run", "rag"}, kind \in Asks(c), NEW r \in 0..MaxCalls, FromClient(c, kind, r),
           stream'.conn = stream.conn,
           UNCHANGED <<listener, pq, conns, server, handler, toClient, sCipher, cCipher, cOpen, executed>>
    PROVE  ChannelType' /\ (\A d \in Conns : ConnInv(d)')
<1>1. ChannelType /\ toServer \in [Conns -> Seq(Frame)] /\ ConnInv(c)
  BY Zenon DEF ChannelInv, ChannelType
<1>2. PICK n \in Nat : n = Len(toServer[c])
  BY <1>1
<1>3. /\ toServer' \in [Conns -> Seq(Frame)] /\ toServer'[c] # <<>> /\ Len(toServer'[c]) = n + 1
      /\ \A i \in 1..n : toServer'[c][i] = toServer[c][i]
      /\ toServer'[c][n + 1].kind = kind /\ toServer'[c][n + 1].encrypted = cCipher[c]
      /\ \A d \in Conns \ {c} : toServer'[d] = toServer[d]
  <2>1. kind \in FrameKinds
    BY KindsOfFrame, Zenon
  <2>2. ClientSent(c, kind, r)
    BY <1>1, <2>1, ClientSends, Zenon
  <2> QED BY <1>2, <2>2, Zenon DEF ClientSent
<1>4. ChannelType'
  BY <1>1, <1>3, Zenon DEF ChannelType
<1>5. /\ Secured(c)' = Secured(c) /\ Asks(c)' = Asks(c) /\ Answers(c)' = Answers(c)
      /\ cCipher'[c] = cCipher[c] /\ sCipher'[c] = sCipher[c] /\ toClient'[c] = toClient[c] /\ handler'[c] = handler[c]
  BY Zenon DEF Secured, Asks, Answers
<1>6. /\ CiphersInOrder(c) /\ QuietBefore(c) /\ ~(c > conns)
      /\ \A i \in 1..n : RequestFits(c, i)
      /\ \A i \in 1..Len(toClient[c]) : AnswerFits(c, i)
  BY <1>1, <1>2, Zenon DEF ConnInv
<1>7. cCipher[c] = Secured(c)
  BY Zenon DEF Keyed
<1>8. ConnInv(c)'
  <2>1. toServer[c] # <<>> => toServer'[c][1] = toServer[c][1]
    <3>1. toServer[c] # <<>> => 1 \in 1..n
      BY <1>1, <1>2
    <3> QED BY <1>3, <3>1, Zenon
  <2>2. CiphersInOrder(c)'
    BY <1>3, <1>5, <1>6, <2>1, Zenon DEF CiphersInOrder
  <2>3. QuietBefore(c)'
    BY <1>5, <1>7, Zenon DEF QuietBefore
  <2>4. RequestFits(c, n + 1)'
    BY <1>3, <1>5, <1>7, Zenon DEF RequestFits
  <2>5. ASSUME NEW i \in 1..n PROVE RequestFits(c, i)'
    BY <1>3, <1>5, <1>6, Zenon DEF RequestFits
  <2>6. \A i \in 1..Len(toServer'[c]) : i \in 1..n \/ i = n + 1
    BY <1>3
  <2>7. \A i \in 1..Len(toServer'[c]) : RequestFits(c, i)'
    BY <2>4, <2>5, <2>6, Zenon
  <2>8. \A i \in 1..Len(toClient'[c]) : AnswerFits(c, i)'
    BY <1>5, <1>6, Zenon DEF AnswerFits
  <2> QED BY <1>5, <1>6, <2>2, <2>3, <2>7, <2>8, Zenon DEF ConnInv
<1>9. ASSUME NEW d \in Conns PROVE ConnInv(d)'
  <2>1. CASE d # c
    <3>1. ConnInv(d) /\ toServer'[d] = toServer[d]
      BY <1>3, <2>1, Zenon DEF ChannelInv
    <3> QED BY <3>1, ConnFrame, Zenon
  <2> QED BY <1>8, <2>1, Zenon
<1> QED BY <1>4, <1>9, Zenon

\* The client answers the offer: nothing but the offer is on the connection then,
\* and nothing but the reply afterwards.
LEMMA HandshakeChannel ==
    ASSUME ServerInv, ChannelInv, NEW c \in Conns, handler[c] # "none", Handshake(c),
           stream'.conn = stream.conn,
           UNCHANGED <<listener, pq, conns, server, handler, sCipher, cOpen, executed>>
    PROVE  /\ ChannelType' /\ (\A d \in Conns : ConnInv(d)')
           /\ Keyed(c)' /\ (\A d \in Conns : Keyed(d) => Keyed(d)')
           /\ toClient[c] # <<>> /\ toClient'[c] = <<>>
           /\ Len(toServer'[c]) = 1 /\ toServer'[c][1].kind = "reply"
           /\ \A d \in Conns \ {c} : toServer'[d] = toServer[d] /\ toClient'[d] = toClient[d]
<1>1. ChannelType /\ toServer \in [Conns -> Seq(Frame)] /\ toClient \in [Conns -> Seq(Frame)] /\ ConnInv(c)
  BY Zenon DEF ChannelInv, ChannelType
<1>2. /\ toClient[c] # <<>> /\ Head(toClient[c]).kind = "offer"
      /\ toClient' = [toClient EXCEPT ![c] = Tail(toClient[c])]
      /\ FromClient(c, "reply", 0)
      /\ cCipher' = [cCipher EXCEPT ![c] = TRUE]
  BY Zenon DEF Handshake
<1>3. /\ CiphersInOrder(c) /\ QuietBefore(c) /\ ~(c > conns)
      /\ \A i \in 1..Len(toClient[c]) : AnswerFits(c, i)
  BY <1>1, Zenon DEF ConnInv
<1>4. /\ toClient' \in [Conns -> Seq(Frame)]
      /\ Len(toClient[c]) \in Nat /\ Len(toClient[c]) >= 1 /\ Len(toClient'[c]) = Len(toClient[c]) - 1
      /\ Head(toClient[c]) = toClient[c][1]
      /\ \A d \in Conns \ {c} : toClient'[d] = toClient[d]
  BY <1>1, <1>2, QueueTail
<1>5. cCipher[c] = FALSE /\ Secured(c) = TRUE
  <2>1. 1 \in 1..Len(toClient[c]) /\ toClient[c][1].kind = "offer"
    BY <1>2, <1>4
  <2> QED BY <1>3, <2>1, Zenon DEF AnswerFits, Answers
<1>6. toServer[c] = <<>> /\ Len(toClient[c]) <= 1
  BY <1>3, <1>5, Zenon DEF QuietBefore
<1>7. toClient'[c] = <<>>
  <2>1. toClient'[c] \in Seq(Frame)
    BY <1>4, Zenon
  <2>2. Len(toClient[c]) = 1
    <3>1. PICK n \in Nat : n = Len(toClient[c])
      BY <1>4, Zenon
    <3>2. n >= 1 /\ n <= 1
      BY <1>4, <1>6, <3>1, Zenon
    <3>3. n = 1
      BY <3>2
    <3> QED BY <3>1, <3>3, Zenon
  <2>3. Len(toClient'[c]) = 0
    BY <1>4, <2>2
  <2> QED BY <2>1, <2>3
<1>8. /\ toServer' \in [Conns -> Seq(Frame)] /\ toServer'[c] # <<>>
      /\ Len(toServer'[c]) = Len(toServer[c]) + 1 /\ toServer'[c][Len(toServer[c]) + 1].kind = "reply"
      /\ \A d \in Conns \ {c} : toServer'[d] = toServer[d]
  <2>1. 0 \in 0..MaxCalls
    BY BoundsAssumption
  <2>2. ClientSent(c, "reply", 0)
    BY <1>1, <1>2, <2>1, ClientSends, KindsOfFrame, Zenon
  <2> QED BY <2>2, Zenon DEF ClientSent
<1>9. Len(toServer'[c]) = 1 /\ toServer'[c][1].kind = "reply"
  BY <1>6, <1>8
<1>10. cCipher' \in [Conns -> BOOLEAN] /\ cCipher'[c] = TRUE /\ \A d \in Conns \ {c} : cCipher'[d] = cCipher[d]
  BY <1>1, <1>2, Zenon DEF ChannelType
<1>11. ChannelType'
  BY <1>1, <1>4, <1>8, <1>10, Zenon DEF ChannelType
<1>12. /\ Secured(c)' = TRUE /\ sCipher'[c] = FALSE /\ handler'[c] = handler[c] /\ sCipher[c] = FALSE
  <2>1. Secured(c)' = TRUE
    BY <1>5, Zenon DEF Secured
  <2>2. sCipher[c] = FALSE
    BY <1>1, <1>3, <1>5, Zenon DEF ChannelType, CiphersInOrder
  <2> QED BY <2>1, <2>2, Zenon
<1>13. handler[c] \in {"offered", "closed"}
  <2>1. handler[c] \notin {"backlog", "accepted"}
    BY <1>2, <1>3, <1>5, Zenon DEF CiphersInOrder
  <2>2. handler[c] \notin {"publishing", "streaming"}
    BY <1>3, <1>5, <1>12, Zenon DEF CiphersInOrder
  <2>3. handler[c] # "reading"
    BY <1>2, <1>3, <1>5, <1>12, Zenon DEF CiphersInOrder
  <2>4. handler[c] \in HandlerStates
    BY Zenon DEF ServerInv
  <2> QED BY <2>1, <2>2, <2>3, <2>4, Zenon DEF HandlerStates
<1>14. ConnInv(c)'
  <2>1. CiphersInOrder(c)'
    BY <1>8, <1>9, <1>10, <1>12, <1>13, Zenon DEF CiphersInOrder
  <2>2. QuietBefore(c)'
    BY <1>10, Zenon DEF QuietBefore
  <2>3. RequestFits(c, 1)'
    BY <1>9, <1>12, <1>13, Zenon DEF RequestFits
  <2>4. \A i \in 1..Len(toServer'[c]) : i = 1
    BY <1>9
  <2>5. \A i \in 1..Len(toClient'[c]) : AnswerFits(c, i)'
    BY <1>7
  <2> QED BY <1>3, <2>1, <2>2, <2>3, <2>4, <2>5, Zenon DEF ConnInv
<1>15. ASSUME NEW d \in Conns PROVE ConnInv(d)'
  <2>1. CASE d # c
    <3>1. ConnInv(d) /\ toServer'[d] = toServer[d] /\ toClient'[d] = toClient[d] /\ cCipher'[d] = cCipher[d]
      BY <1>4, <1>8, <1>10, <2>1, Zenon DEF ChannelInv
    <3> QED BY <3>1, ConnFrame, Zenon
  <2> QED BY <1>14, <2>1, Zenon
<1>16. Keyed(c)' /\ (\A d \in Conns : Keyed(d) => Keyed(d)')
  <2>1. Keyed(c)'
    BY <1>10, <1>12, Zenon DEF Keyed
  <2>2. ASSUME NEW d \in Conns, d # c, Keyed(d) PROVE Keyed(d)'
    BY <1>10, <2>2, Zenon DEF Keyed, Secured
  <2> QED BY <2>1, <2>2, Zenon
<1> QED BY <1>2, <1>4, <1>7, <1>8, <1>9, <1>11, <1>15, <1>16, Zenon

----------------------------------------------------------------------------
\* A caller's step, as the users of the connections see it: the stream's connection
\* is not touched.
LEMMA CallUsers ==
    ASSUME Users, NEW r \in Calls, UNCHANGED stream,
           \A q \in Calls \ {r} : call'[q] = call[q],
           \A d \in Conns : handler[d] # "none" => handler'[d] = handler[d] /\ (Keyed(d) => Keyed(d)'),
           stream.conn # 0 => cOpen'[stream.conn] = cOpen[stream.conn],
           CallUse(r)', SharedUse'
    PROVE  Users'
<1>1. ASSUME NEW q \in Calls PROVE CallUse(q)'
  <2>1. CASE q # r
    <3>1. call'[q] = call[q] /\ CallUse(q)
      BY <2>1, Zenon DEF Users
    <3> QED BY <3>1, Zenon DEF CallUse, Used
  <2> QED BY <2>1, Zenon
<1>2. StreamUse'
  <2>1. StreamUse
    BY Zenon DEF Users
  <2>2. stream.conn # 0 => stream.conn \in Conns /\ handler[stream.conn] # "none"
    BY <2>1, Zenon DEF StreamUse, Used
  <2>3. stream.conn # 0 => Used(stream.conn)' /\ handler'[stream.conn] = handler[stream.conn]
    BY <2>2, Zenon DEF Used
  <2>4. stream.pc \in {"sending", "reading"} => Keyed(stream.conn)'
    BY <2>1, <2>2, Zenon DEF StreamUse
  <2> QED BY <2>1, <2>3, <2>4, Zenon DEF StreamUse
<1> QED BY <1>1, <1>2, Zenon DEF Users

\* A step of the stream: no caller has its connection, nor the one it opens.
LEMMA StreamUsers ==
    ASSUME Users, UNCHANGED <<call, shared>>,
           \A d \in Conns : handler[d] # "none" => handler'[d] = handler[d] /\ (Keyed(d) => Keyed(d)'),
           stream'.conn = stream.conn \/ handler[stream'.conn] = "none",
           StreamUse'
    PROVE  Users'
<1>1. ASSUME NEW q \in Calls PROVE CallUse(q)'
  BY Zenon DEF Users, CallUse, Used
<1>2. SharedUse'
  BY Zenon DEF Users, SharedUse, Used
<1> QED BY <1>1, <1>2, Zenon DEF Users

\* Whoever has the keys of a connection finds answers under them, and no offer.
LEMMA AnswerFacts ==
    ASSUME ChannelInv, NEW c \in Conns, handler[c] # "none", Keyed(c), toClient[c] # <<>>
    PROVE  /\ Head(toClient[c]) = toClient[c][1] /\ 1 \in 1..Len(toClient[c]) /\ toClient[c][1] \in Frame
           /\ toClient[c][1].kind \in Answers(c) /\ toClient[c][1].encrypted = cCipher[c]
<1>1. toClient[c] \in Seq(Frame)
  BY Zenon DEF ChannelInv, ChannelType
<1>2. Head(toClient[c]) = toClient[c][1] /\ 1 \in 1..Len(toClient[c]) /\ toClient[c][1] \in Frame
  <2>1. /\ Len(toClient[c]) \in Nat /\ Len(toClient[c]) >= 1
        /\ Head(toClient[c]) = toClient[c][1] /\ toClient[c][1] \in Frame
    BY <1>1, TailFrame, Zenon
  <2> QED BY <2>1
<1>3. AnswerFits(c, 1)
  BY <1>2, Zenon DEF ChannelInv, ConnInv
<1> QED BY <1>2, <1>3, Zenon DEF AnswerFits, Keyed

\* The callers' steps.
LEMMA CallChannel ==
    ASSUME ServerInv, ClientType, ModeHolds', ChannelInv, NEW r \in Calls, Call(r) \/ CallStep(r)
    PROVE  ChannelInv'
<1>0. /\ call \in [Calls -> CallType] /\ 0 \in 0..MaxConns /\ shared \in 0..MaxConns
      /\ call[r].retried \in BOOLEAN /\ call[r].conn \in 0..MaxConns
  BY BoundsAssumption DEF ClientType, CallType
<1>1. Users /\ CallUse(r) /\ SharedUse /\ StreamUse /\ ChannelType /\ rejected = {}
  BY Zenon DEF ChannelInv, Users
<1>2. stream.conn # 0 => stream.conn \in Conns /\ handler[stream.conn] # "none"
  BY <1>1, Zenon DEF StreamUse, Used
<1>3. CASE Call(r)
  <2>1. /\ call[r].pc = "idle"
        /\ CallAt(r, IF shared = 0 THEN "opening" ELSE "sending", shared, FALSE)
        /\ UNCHANGED <<listener, pq, conns, server, handler, toServer, toClient, sCipher, cCipher, cOpen, shared, stream,
                       executed, rejected>>
    BY <1>3, Zenon DEF Call, serverVars, connVars, historyVars
  <2>2. /\ call'[r].pc = (IF shared = 0 THEN "opening" ELSE "sending") /\ call'[r].conn = shared
        /\ \A q \in Calls \ {r} : call'[q] = call[q]
    BY <1>0, <2>1, CallAtFacts, Zenon
  <2>3. ChannelType' /\ (\A c \in Conns : ConnInv(c)')
    BY <1>1, <2>1, ChannelFrame, Zenon DEF ChannelType
  <2>4. \A d \in Conns : Keyed(d) => Keyed(d)'
    BY <2>1, Zenon DEF Keyed, Secured
  <2>5. SharedUse'
    BY <1>1, <2>1, <2>4, Zenon DEF SharedUse, Used
  <2>6. CallUse(r)'
    BY <1>1, <2>1, <2>2, <2>5, Zenon DEF CallUse, SharedUse, Used
  <2>7. Users'
    BY <1>1, <2>1, <2>2, <2>4, <2>5, <2>6, CallUsers, Zenon
  <2> QED BY <1>1, <2>1, <2>3, <2>7, Zenon DEF ChannelInv
<1>4. CASE CallConnects(r)
  <2>1. /\ Connect /\ call[r].pc = "opening"
        /\ CallAt(r, IF secureMode THEN "handshaking" ELSE "sending", conns', call[r].retried)
        /\ shared' = IF secureMode THEN shared ELSE conns'
        /\ UNCHANGED <<toServer, toClient, sCipher, cCipher, secureMode, stream, executed, rejected>>
    BY <1>4, Zenon DEF CallConnects, historyVars
  <2>2. PICK n \in Conns : n = conns'
    BY <2>1, ConnectFacts, Zenon
  <2>3. /\ handler[n] = "none" /\ handler'[n] = "backlog"
        /\ ChannelType' /\ (\A d \in Conns : ConnInv(d)')
        /\ \A d \in Conns : handler[d] # "none" =>
              /\ d # n /\ handler'[d] = handler[d] /\ cOpen'[d] = cOpen[d]
              /\ Used(d)' /\ (Keyed(d) => Keyed(d)')
        /\ Used(n)' /\ (secureMode = FALSE => Keyed(n)')
    BY <2>1, <2>2, ConnectChannel, Zenon
  <2>4. n \in 0..MaxConns /\ n # 0 /\ secureMode \in BOOLEAN
    BY BoundsAssumption DEF Conns, ServerInv
  <2>5. /\ call'[r].pc = (IF secureMode THEN "handshaking" ELSE "sending") /\ call'[r].conn = n
        /\ \A q \in Calls \ {r} : call'[q] = call[q]
    BY <1>0, <2>1, <2>2, <2>4, CallAtFacts
  <2>6. n # stream.conn
    BY <1>2, <2>3, <2>4, Zenon
  <2>7. CallUse(r)'
    BY <2>1, <2>3, <2>4, <2>5, <2>6, Zenon DEF CallUse
  <2>8. SharedUse'
    <3>1. CASE secureMode
      <4>1. shared' = shared /\ (shared # 0 => shared \in Conns /\ handler[shared] # "none" /\ shared # stream.conn /\ Keyed(shared))
        BY <1>1, <2>1, <3>1, Zenon DEF SharedUse, Used
      <4> QED BY <2>1, <2>3, <4>1, Zenon DEF SharedUse
    <3>2. CASE ~secureMode
      BY <2>1, <2>2, <2>3, <2>4, <2>6, <3>2, Zenon DEF SharedUse
    <3> QED BY <3>1, <3>2, Zenon
  <2>9. Users'
    BY <1>1, <1>2, <2>1, <2>3, <2>5, <2>7, <2>8, CallUsers, Zenon
  <2> QED BY <1>1, <2>1, <2>3, <2>9, Zenon DEF ChannelInv
<1>5. CASE CallHandshakes(r)
  <2>1. /\ call[r].pc = "handshaking" /\ Handshake(call[r].conn)
        /\ shared' = call[r].conn
        /\ CallAt(r, "sending", call[r].conn, call[r].retried)
        /\ UNCHANGED <<listener, pq, conns, server, handler, sCipher, cOpen, stream, executed, rejected>>
    BY <1>5, Zenon DEF CallHandshakes, serverVars, historyVars
  <2>2. PICK c \in Conns : c = call[r].conn /\ handler[c] # "none" /\ c # stream.conn
    BY <1>1, <2>1, Zenon DEF CallUse, Used
  <2>3. /\ ChannelType' /\ (\A d \in Conns : ConnInv(d)')
        /\ Keyed(c)' /\ (\A d \in Conns : Keyed(d) => Keyed(d)')
    BY <2>1, <2>2, HandshakeChannel, Zenon
  <2>4. /\ call'[r].pc = "sending" /\ call'[r].conn = c
        /\ \A q \in Calls \ {r} : call'[q] = call[q]
    BY <1>0, <2>1, <2>2, CallAtFacts
  <2>5. CallUse(r)' /\ SharedUse'
    BY <2>1, <2>2, <2>3, <2>4, Zenon DEF CallUse, SharedUse, Used
  <2>6. Users'
    BY <1>1, <2>1, <2>3, <2>4, <2>5, CallUsers, Zenon
  <2> QED BY <1>1, <2>1, <2>3, <2>6, Zenon DEF ChannelInv
<1>6. CASE CallSends(r)
  <2>1. /\ call[r].pc = "sending" /\ FromClient(call[r].conn, "run", r)
        /\ CallAt(r, "waiting", call[r].conn, call[r].retried)
        /\ UNCHANGED <<listener, pq, conns, server, handler, toClient, sCipher, cCipher, cOpen, shared, stream,
                       executed, rejected>>
    BY <1>6, Zenon DEF CallSends, serverVars, historyVars
  <2>2. PICK c \in Conns : c = call[r].conn /\ handler[c] # "none" /\ c # stream.conn /\ Keyed(c)
    BY <1>1, <2>1, Zenon DEF CallUse, Used
  <2>3. r \in 0..MaxCalls /\ "run" \in Asks(c)
    BY <2>2, BoundsAssumption DEF Calls, Asks
  <2>4. ChannelType' /\ (\A d \in Conns : ConnInv(d)')
    BY <2>1, <2>2, <2>3, SendChannel, Zenon
  <2>5. /\ call'[r].pc = "waiting" /\ call'[r].conn = c
        /\ \A q \in Calls \ {r} : call'[q] = call[q]
    BY <1>0, <2>1, <2>2, CallAtFacts
  <2>6. \A d \in Conns : Keyed(d) => Keyed(d)'
    BY <2>1, Zenon DEF Keyed, Secured
  <2>7. CallUse(r)'
    BY <2>1, <2>2, <2>5, <2>6, Zenon DEF CallUse, Used
  <2>8. SharedUse'
    BY <1>1, <2>1, <2>6, Zenon DEF SharedUse, Used
  <2>9. Users'
    BY <1>1, <2>1, <2>5, <2>6, <2>7, <2>8, CallUsers, Zenon
  <2> QED BY <1>1, <2>1, <2>4, <2>9, Zenon DEF ChannelInv
<1>7. CASE CallReceives(r) \/ CallThrows(r) \/ CallIOException(r)
  <2>1. /\ call[r].pc \in {"opening", "handshaking", "waiting"}
        /\ call[r].pc # "opening" => call[r].conn \in Conns /\ handler[call[r].conn] # "none" /\ call[r].conn # stream.conn
        /\ call[r].pc = "opening" => call[r].conn = 0
        /\ call[r].pc = "waiting" => Keyed(call[r].conn)
    <3>1. call[r].pc \in {"opening", "handshaking", "waiting"}
      BY <1>7, Zenon DEF CallReceives, CallThrows, CallIOException
    <3> QED BY <1>1, <3>1, Zenon DEF CallUse, Used
  <2>2. UNCHANGED <<listener, pq, conns, server, handler, toServer, sCipher, cCipher, stream, executed>>
    BY <1>7, Zenon DEF CallReceives, CallThrows, CallIOException, serverVars, historyVars
  <2>3. ASSUME call[r].pc = "waiting", toClient[call[r].conn] # <<>>
        PROVE  /\ Head(toClient[call[r].conn]).kind = "response"
               /\ Head(toClient[call[r].conn]).encrypted = cCipher[call[r].conn]
    BY <2>1, <2>3, AnswerFacts, Zenon DEF Answers
  <2>4. /\ cOpen' = cOpen \/ CloseEnd(call[r].conn)
        /\ \/ toClient' = toClient
           \/ /\ call[r].pc = "waiting" /\ toClient[call[r].conn] # <<>>
              /\ toClient' = [toClient EXCEPT ![call[r].conn] = Tail(toClient[call[r].conn])]
        /\ rejected' = rejected
    <3>1. CASE CallReceives(r)
      BY <3>1, Zenon DEF CallReceives
    <3>2. CASE CallThrows(r)
      BY <2>3, <3>2, Zenon DEF CallThrows
    <3>3. CASE CallIOException(r)
      BY <3>3, Zenon DEF CallIOException, historyVars
    <3> QED BY <1>7, <3>1, <3>2, <3>3, Zenon
  <2>5. /\ cOpen' \in [Conns -> BOOLEAN]
        /\ stream.conn # 0 => cOpen'[stream.conn] = cOpen[stream.conn]
    <3>1. stream.conn # 0 => stream.conn # call[r].conn
      BY <2>1, Zenon
    <3>2. CASE cOpen' = cOpen
      BY <1>1, <3>2, Zenon DEF ChannelType
    <3>3. CASE CloseEnd(call[r].conn)
      BY <1>1, <1>2, <3>1, <3>3, CloseFacts, Zenon
    <3> QED BY <2>4, <3>2, <3>3, Zenon
  <2>6. ChannelType' /\ (\A d \in Conns : ConnInv(d)')
    <3>1. CASE toClient' = toClient
      BY <2>2, <2>5, <3>1, ChannelFrame, Zenon
    <3>2. CASE /\ call[r].pc = "waiting" /\ toClient[call[r].conn] # <<>>
               /\ toClient' = [toClient EXCEPT ![call[r].conn] = Tail(toClient[call[r].conn])]
      BY <2>1, <2>2, <2>5, <3>2, TakeChannel, Zenon
    <3> QED BY <2>4, <3>1, <3>2, Zenon
  <2>7. \E pc \in {"opening", "done"}, b \in BOOLEAN : CallAt(r, pc, 0, b)
    <3>1. CASE CallReceives(r) \/ CallThrows(r)
      <4>1. CallDone(r)
        BY <3>1, Zenon DEF CallReceives, CallThrows
      <4> QED BY <1>0, <4>1, Zenon DEF CallDone
    <3>2. CASE CallIOException(r)
      BY <3>2, Zenon DEF CallIOException
    <3> QED BY <1>7, <3>1, <3>2, Zenon
  <2>8. /\ call'[r].pc \in {"opening", "done"} /\ call'[r].conn = 0
        /\ \A q \in Calls \ {r} : call'[q] = call[q]
    <3>1. PICK pc \in {"opening", "done"}, b \in BOOLEAN : CallAt(r, pc, 0, b)
      BY <2>7, Zenon
    <3> QED BY <1>0, <3>1, CallAtFacts
  <2>9. \A d \in Conns : Keyed(d) => Keyed(d)'
    BY <2>2, Zenon DEF Keyed, Secured
  <2>10. shared' \in {shared, 0}
    BY <1>7, Zenon DEF CallReceives, CallThrows, CallIOException
  <2>11. SharedUse'
    BY <1>1, <2>2, <2>9, <2>10, Zenon DEF SharedUse, Used
  <2>12. CallUse(r)'
    BY <2>8, Zenon DEF CallUse
  <2>13. Users'
    BY <1>1, <2>2, <2>5, <2>8, <2>9, <2>11, <2>12, CallUsers, Zenon
  <2> QED BY <1>1, <2>4, <2>6, <2>13, Zenon DEF ChannelInv
<1> QED BY <1>3, <1>4, <1>5, <1>6, <1>7, Zenon DEF CallStep

\* The stream's steps.
LEMMA StreamChannel ==
    ASSUME ServerInv, ClientType, ModeHolds', ChannelInv, StreamStarts \/ StreamStep
    PROVE  ChannelInv'
<1>0. stream \in StreamType /\ 0 \in 0..MaxConns
  BY BoundsAssumption DEF ClientType
<1>1. Users /\ StreamUse /\ ChannelType /\ rejected = {}
  BY Zenon DEF ChannelInv, Users, StreamUse
<1>2. stream.conn # 0 => stream.conn \in Conns /\ handler[stream.conn] # "none"
  BY <1>1, Zenon DEF StreamUse, Used
<1>3. CASE StreamConnects
  <2>1. /\ Connect /\ stream.pc = "opening" /\ stream.conn = 0
        /\ UNCHANGED <<toServer, toClient, sCipher, cCipher, secureMode, shared, call, executed, rejected>>
    BY <1>1, <1>3, Zenon DEF StreamConnects, StreamUse, historyVars
  <2>2. PICK n \in Conns : n = conns'
    BY <2>1, ConnectFacts, Zenon
  <2>3. /\ stream'.conn = n
        /\ stream'.pc \in {"handshaking", "sending", "canceled"}
        /\ stream'.pc = "sending" => ~secureMode
    BY <1>0, <1>3, <2>2, Zenon DEF StreamConnects, StreamOpened, StreamType
  <2>4. /\ handler[n] = "none" /\ handler'[n] = "backlog" /\ cOpen'[n] = TRUE
        /\ ChannelType' /\ (\A d \in Conns : ConnInv(d)')
        /\ \A d \in Conns : handler[d] # "none" =>
              /\ d # n /\ handler'[d] = handler[d] /\ cOpen'[d] = cOpen[d]
              /\ Used(d)' /\ (Keyed(d) => Keyed(d)')
        /\ Used(n)' /\ (secureMode = FALSE => Keyed(n)')
    BY <2>1, <2>2, <2>3, ConnectChannel, Zenon
  <2>5. n # 0 /\ secureMode \in BOOLEAN
    BY DEF Conns, ServerInv
  <2>6. StreamUse'
    <3>1. stream'.pc = "sending" => Keyed(n)'
      BY <2>3, <2>4, <2>5, Zenon
    <3> QED BY <2>3, <2>4, <2>5, <3>1, Zenon DEF StreamUse
  <2>7. Users'
    BY <1>1, <2>1, <2>3, <2>4, <2>6, StreamUsers, Zenon
  <2> QED BY <1>1, <2>1, <2>4, <2>7, Zenon DEF ChannelInv
<1>4. CASE StreamHandshakes
  <2>1. /\ stream.pc = "handshaking" /\ Handshake(stream.conn)
        /\ UNCHANGED <<listener, pq, conns, server, handler, sCipher, cOpen, shared, call, executed, rejected>>
    BY <1>4, Zenon DEF StreamHandshakes, serverVars, historyVars
  <2>2. PICK c \in Conns : c = stream.conn /\ c # 0 /\ handler[c] # "none" /\ cOpen[c] = TRUE
    BY <1>1, <1>2, <2>1, Zenon DEF StreamUse
  <2>3. stream'.conn = c /\ stream'.pc \in {"sending", "canceled"}
    BY <1>0, <1>4, <2>2, Zenon DEF StreamHandshakes, StreamOpened, StreamType
  <2>4. /\ ChannelType' /\ (\A d \in Conns : ConnInv(d)')
        /\ Keyed(c)' /\ (\A d \in Conns : Keyed(d) => Keyed(d)')
    BY <2>1, <2>2, <2>3, HandshakeChannel, Zenon
  <2>5. StreamUse'
    <3>1. Used(c)'
      BY <2>1, <2>2, <2>3, Zenon DEF Used
    <3> QED BY <2>1, <2>2, <2>3, <2>4, <3>1, Zenon DEF StreamUse
  <2>6. Users'
    BY <1>1, <2>1, <2>2, <2>3, <2>4, <2>5, StreamUsers, Zenon
  <2> QED BY <1>1, <2>1, <2>4, <2>6, Zenon DEF ChannelInv
<1>5. CASE StreamSends
  <2>1. /\ stream.pc = "sending" /\ FromClient(stream.conn, "rag", 0)
        /\ stream' = [stream EXCEPT !.pc = "reading"]
        /\ UNCHANGED <<listener, pq, conns, server, handler, toClient, sCipher, cCipher, cOpen, shared, call,
                       executed, rejected>>
    BY <1>5, Zenon DEF StreamSends, serverVars, historyVars
  <2>2. PICK c \in Conns : c = stream.conn /\ c # 0 /\ handler[c] # "none" /\ cOpen[c] = TRUE /\ Keyed(c)
    BY <1>1, <1>2, <2>1, Zenon DEF StreamUse
  <2>3. stream'.conn = c /\ stream'.pc = "reading"
    BY <1>0, <2>1, <2>2, Zenon DEF StreamType
  <2>4. ChannelType' /\ (\A d \in Conns : ConnInv(d)')
    <3>1. "rag" \in Asks(c) /\ 0 \in 0..MaxCalls
      BY <2>2, BoundsAssumption DEF Asks
    <3> QED BY <2>1, <2>2, <2>3, <3>1, SendChannel, Zenon
  <2>5. \A d \in Conns : Keyed(d) => Keyed(d)'
    BY <2>1, Zenon DEF Keyed, Secured
  <2>6. StreamUse'
    <3>1. Used(c)'
      BY <2>1, <2>2, <2>3, Zenon DEF Used
    <3> QED BY <2>1, <2>2, <2>3, <2>5, <3>1 DEF StreamUse
  <2>7. Users'
    BY <1>1, <2>1, <2>2, <2>3, <2>5, <2>6, StreamUsers, Zenon
  <2> QED BY <1>1, <2>1, <2>4, <2>7, Zenon DEF ChannelInv
<1>6. CASE StreamStarts \/ StreamOpenFails \/ StreamReceives \/ StreamThrows \/ StreamEof
  <2>1. UNCHANGED <<listener, pq, conns, server, handler, toServer, sCipher, cCipher, shared, call, executed>>
    BY <1>6, Zenon DEF StreamStarts, StreamOpenFails, StreamReceives, StreamThrows, StreamEof, serverVars, connVars, historyVars
  <2>2. stream'.conn = stream.conn
    <3>1. CASE StreamStarts
      BY <1>0, <3>1, Zenon DEF StreamStarts, StreamType
    <3>2. CASE StreamOpenFails \/ StreamThrows
      BY <1>0, <3>2 DEF StreamOpenFails, StreamThrows, StreamType
    <3>3. CASE StreamReceives
      BY <1>0, <3>3, Zenon DEF StreamReceives, StreamType
    <3>4. CASE StreamEof
      BY <1>0, <3>4, Zenon DEF StreamEof, StreamType
    <3> QED BY <1>6, <3>1, <3>2, <3>3, <3>4, Zenon
  <2>3. stream.pc = "reading" =>
          /\ stream.conn \in Conns /\ handler[stream.conn] # "none" /\ Keyed(stream.conn)
          /\ cOpen[stream.conn] = TRUE /\ stream.conn # 0
    BY <1>1, <1>2, Zenon DEF StreamUse
  <2>4. ASSUME stream.pc = "reading", toClient[stream.conn] # <<>>
        PROVE  /\ Head(toClient[stream.conn]).kind \in {"chunk", "final"}
               /\ Head(toClient[stream.conn]).encrypted = cCipher[stream.conn]
    BY <2>3, <2>4, AnswerFacts, Zenon DEF Answers
  <2>5. rejected' = rejected /\ (cOpen' = cOpen \/ CloseEnd(stream.conn))
    <3>1. CASE StreamThrows
      BY <2>4, <3>1, Zenon DEF StreamThrows
    <3>2. CASE StreamStarts \/ StreamOpenFails \/ StreamReceives \/ StreamEof
      BY <3>2, Zenon DEF StreamStarts, StreamOpenFails, StreamReceives, StreamEof, connVars, historyVars
    <3> QED BY <1>6, <3>1, <3>2, Zenon
  <2>6. \/ toClient' = toClient
        \/ /\ stream.pc = "reading" /\ toClient[stream.conn] # <<>>
           /\ toClient' = [toClient EXCEPT ![stream.conn] = Tail(toClient[stream.conn])]
    BY <1>6, Zenon DEF StreamStarts, StreamOpenFails, StreamReceives, StreamThrows, StreamEof, connVars
  <2>7. cOpen' \in [Conns -> BOOLEAN]
    BY <1>1, <2>5, CloseFacts, Zenon DEF ChannelType
  <2>8. ChannelType' /\ (\A d \in Conns : ConnInv(d)')
    <3>1. CASE toClient' = toClient
      BY <2>1, <2>2, <2>7, <3>1, ChannelFrame, Zenon
    <3>2. CASE /\ stream.pc = "reading" /\ toClient[stream.conn] # <<>>
               /\ toClient' = [toClient EXCEPT ![stream.conn] = Tail(toClient[stream.conn])]
      BY <2>1, <2>2, <2>3, <2>7, <3>2, TakeChannel, Zenon
    <3> QED BY <2>6, <3>1, <3>2, Zenon
  <2>9. \A d \in Conns : Keyed(d) => Keyed(d)'
    BY <2>1, Zenon DEF Keyed, Secured
  <2>10. \/ stream.pc = "idle" /\ stream'.pc = "opening"
         \/ stream.pc = "reading" /\ stream' = stream /\ cOpen' = cOpen
         \/ stream'.pc \in {"failed", "canceled", "completed"}
    <3>1. CASE StreamStarts
      BY <1>0, <3>1, Zenon DEF StreamStarts, StreamType
    <3>2. CASE StreamOpenFails \/ StreamThrows
      BY <1>0, <3>2, Zenon DEF StreamOpenFails, StreamThrows, StreamType
    <3>3. CASE StreamReceives
      BY <1>0, <3>3, Zenon DEF StreamReceives, StreamType
    <3>4. CASE StreamEof
      BY <1>0, <3>4, Zenon DEF StreamEof, StreamType
    <3> QED BY <1>6, <3>1, <3>2, <3>3, <3>4, Zenon
  <2>11. StreamUse'
    <3>2. stream'.pc \in {"idle", "opening"} => stream'.conn = 0
      BY <1>1, <2>2, <2>10, Zenon DEF StreamUse
    <3>3. stream'.conn # 0 => Used(stream.conn)'
      BY <1>2, <2>1, <2>2, Zenon DEF Used
    <3>4. stream'.pc \in {"handshaking", "sending", "reading"} => stream.pc = "reading" /\ cOpen' = cOpen
      BY <2>10, Zenon
    <3>5. stream'.pc \in {"sending", "reading"} => Keyed(stream.conn)'
      <4>1. stream.pc = "reading" => Keyed(stream.conn)'
        BY <2>1, <2>2, <2>3, Zenon DEF Keyed, Secured
      <4> QED BY <3>4, <4>1, Zenon
    <3> QED BY <2>1, <2>2, <2>3, <3>2, <3>3, <3>4, <3>5, Zenon DEF StreamUse
  <2>12. Users'
    BY <1>1, <2>1, <2>2, <2>9, <2>11, StreamUsers, Zenon
  <2> QED BY <1>1, <2>5, <2>8, <2>12, Zenon DEF ChannelInv
<1> QED BY <1>3, <1>4, <1>5, <1>6, Zenon DEF StreamStep

\* The switch between the modes: the shared connection is nobody's then.
LEMMA SwitchChannel ==
    ASSUME ServerInv, ChannelInv, SetSecure \/ SwitchStep
    PROVE  ChannelInv'
<1>1. Users /\ SharedUse /\ StreamUse /\ ChannelType /\ rejected = {}
  BY Zenon DEF ChannelInv, Users
<1>2. /\ listener' \in {listener, 0} /\ shared' \in {shared, 0}
      /\ cOpen' = cOpen \/ CloseEnd(shared)
      /\ UNCHANGED <<pq, conns, server, handler, toServer, toClient, sCipher, cCipher, call, stream,
                     executed, rejected>>
  BY Zenon DEF SetSecure, Stop, SwitchStep, SwitchDone, SwitchCanceled, serverVars, connVars, historyVars
<1>3. stream.conn # 0 => stream.conn \in Conns /\ handler[stream.conn] # "none" /\ stream.conn # shared
  BY <1>1, Zenon DEF StreamUse, SharedUse, Used
<1>4. /\ cOpen' \in [Conns -> BOOLEAN]
      /\ stream.conn # 0 => cOpen'[stream.conn] = cOpen[stream.conn]
  <2>1. CASE cOpen' = cOpen
    BY <1>1, <2>1, Zenon DEF ChannelType
  <2>2. CASE CloseEnd(shared)
    BY <1>1, <1>3, <2>2, CloseFacts, Zenon
  <2> QED BY <1>2, <2>1, <2>2, Zenon
<1>5. ChannelType' /\ (\A d \in Conns : ConnInv(d)')
  BY <1>2, <1>4, ChannelFrame, Zenon
<1>6. \A d \in Conns : Keyed(d) => Keyed(d)'
  BY <1>2, Zenon DEF Keyed, Secured
<1>7. ASSUME NEW r \in Calls PROVE CallUse(r)'
  BY <1>1, <1>2, <1>6, Zenon DEF Users, CallUse, Used
<1>8. SharedUse'
  BY <1>1, <1>2, <1>6, Zenon DEF SharedUse, Used
<1>9. StreamUse'
  <2>2. stream.conn # 0 => Used(stream.conn)'
    BY <1>2, <1>3, Zenon DEF Used
  <2>3. stream.pc \in {"sending", "reading"} => Keyed(stream.conn)'
    BY <1>1, <1>2, <1>3, <1>6, Zenon DEF StreamUse
  <2> QED BY <1>1, <1>2, <1>4, <2>2, <2>3, Zenon DEF StreamUse
<1> QED BY <1>1, <1>2, <1>5, <1>7, <1>8, <1>9, Zenon DEF ChannelInv, Users

\* The invariant of the channel holds in every reachable state.
LEMMA ChannelInvariance == Spec => []ChannelInv
<1>1. Init => ChannelInv
  <2> SUFFICES ASSUME Init PROVE ChannelInv
    OBVIOUS
  <2>1. sCipher \in [Conns -> BOOLEAN] /\ cCipher \in [Conns -> BOOLEAN] /\ cOpen \in [Conns -> BOOLEAN]
    BY Zenon DEF Init
  <2>2. toServer \in [Conns -> Seq(Frame)] /\ toClient \in [Conns -> Seq(Frame)] /\ executed \in [Calls -> Nat]
    BY DEF Init
  <2>3. ASSUME NEW c \in Conns PROVE ConnInv(c)
    BY Zenon DEF Init, ConnInv, Unused
  <2>4. ASSUME NEW r \in Calls PROVE CallUse(r)
    BY Zenon DEF Init, CallUse
  <2>5. SharedUse /\ StreamUse /\ rejected = {}
    BY Zenon DEF Init, SharedUse, StreamUse
  <2> QED BY <2>1, <2>2, <2>3, <2>4, <2>5, Zenon DEF ChannelInv, ChannelType, Users
<1>2. ServerInv /\ ClientType /\ ModeHolds' /\ ChannelInv /\ [Next]_vars => ChannelInv'
  <2> SUFFICES ASSUME ServerInv, ClientType, ModeHolds', ChannelInv, [Next]_vars PROVE ChannelInv'
    OBVIOUS
  <2>1. CASE UNCHANGED vars
    <3>1. UNCHANGED <<listener, pq, conns, server, handler, toServer, toClient, sCipher, cCipher, cOpen,
                      shared, call, stream, executed, rejected>>
      BY <2>1, Zenon DEF vars, serverVars, connVars, clientVars, historyVars
    <3>2. ChannelType' /\ (\A d \in Conns : ConnInv(d)')
      BY <3>1, ChannelFrame, Zenon DEF ChannelInv, ChannelType
    <3>3. Users'
      BY <3>1, Zenon DEF ChannelInv, Users, CallUse, SharedUse, StreamUse, Used, Keyed, Secured
    <3> QED BY <3>1, <3>2, <3>3, Zenon DEF ChannelInv
  <2> QED BY <2>1, HandlerKeepsChannel, CallChannel, StreamChannel, SwitchChannel, Zenon DEF Next
<1> QED BY <1>1, <1>2, ServerInvariance, ClientTypes, ModeInvariance, PTL DEF Spec

\* A frame of the two queues together is a frame of one of them.
LEMMA BothQueues ==
    ASSUME NEW s \in Seq(Frame), NEW t \in Seq(Frame), NEW i \in 1..Len(s \o t)
    PROVE  \/ \E j \in 1..Len(s) : (s \o t)[i] = s[j]
           \/ \E j \in 1..Len(t) : (s \o t)[i] = t[j]
<1>1. PICK m \in Nat, n \in Nat : m = Len(s) /\ n = Len(t)
  OBVIOUS
<1>2. Len(s \o t) = m + n
  BY <1>1
<1>3. i \in 1..m + n
  BY <1>2, Zenon
<1>4. CASE i <= m
  <2>1. (s \o t)[i] = s[i] /\ i \in 1..m
    BY <1>1, <1>3, <1>4
  <2> QED BY <1>1, <2>1, Zenon
<1>5. CASE i > m
  <2>1. i - m \in 1..n
    BY <1>1, <1>3, <1>5
  <2>2. (s \o t)[i] = t[i - m]
    BY <1>1, <1>3, <1>5
  <2> QED BY <1>1, <2>1, <2>2, Zenon
<1> QED BY <1>1, <1>3, <1>4, <1>5

\* On a server in PQ mode nothing but the handshake crosses in plaintext, and
\* neither end ever rejects a frame of the other, however the handshakes, requests,
\* streams, stops, starts and dropped connections interleave.
THEOREM ChannelAlwaysHolds == Spec => []ChannelHolds
<1>1. ServerInv /\ ChannelInv => ChannelHolds
  <2> SUFFICES ASSUME ServerInv, ChannelInv,
                      NEW c \in Conns, server[c] # 0, pq[server[c]],
                      NEW i \in 1..Len(toServer[c] \o toClient[c]),
                      (toServer[c] \o toClient[c])[i].kind \notin {"offer", "reply"}
               PROVE  (toServer[c] \o toClient[c])[i].encrypted
    BY Zenon DEF ChannelHolds, ChannelInv
  <2>1. toServer[c] \in Seq(Frame) /\ toClient[c] \in Seq(Frame) /\ ConnInv(c)
    BY Zenon DEF ChannelInv, ChannelType
  <2>2. \/ \E j \in 1..Len(toServer[c]) : (toServer[c] \o toClient[c])[i] = toServer[c][j]
        \/ \E j \in 1..Len(toClient[c]) : (toServer[c] \o toClient[c])[i] = toClient[c][j]
    BY <2>1, BothQueues, Zenon
  <2>3. handler[c] = "none" => 1..Len(toServer[c]) = {} /\ 1..Len(toClient[c]) = {}
    BY <2>1 DEF ConnInv, Unused
  <2>4. CASE \E j \in 1..Len(toServer[c]) : (toServer[c] \o toClient[c])[i] = toServer[c][j]
    <3>1. PICK j \in 1..Len(toServer[c]) : (toServer[c] \o toClient[c])[i] = toServer[c][j]
      BY <2>4, Zenon
    <3>2. RequestFits(c, j)
      BY <2>1, <2>3, <3>1, Zenon DEF ConnInv
    <3> QED BY <3>1, <3>2, Zenon DEF RequestFits, Secured
  <2>5. CASE \E j \in 1..Len(toClient[c]) : (toServer[c] \o toClient[c])[i] = toClient[c][j]
    <3>1. PICK j \in 1..Len(toClient[c]) : (toServer[c] \o toClient[c])[i] = toClient[c][j]
      BY <2>5, Zenon
    <3>2. AnswerFits(c, j)
      BY <2>1, <2>3, <3>1, Zenon DEF ConnInv
    <3> QED BY <3>1, <3>2, Zenon DEF AnswerFits, Secured
  <2> QED BY <2>2, <2>4, <2>5, Zenon
<1> QED BY <1>1, ServerInvariance, ChannelInvariance, PTL

----------------------------------------------------------------------------
\* Requests and answers.  One request at a time is under way on a caller's
\* connection, that of the caller that waits there: its frame is still to be read,
\* and was executed at most in the attempt that was lost, or it was executed and its
\* response is the one frame to the client.  What lies unread on a connection its
\* handler has left is executed by nobody.
LostAttempts(r) == IF call[r].retried THEN 1 ELSE 0

AskedBy(c, r) == r \in Calls /\ call[r].pc = "waiting" /\ call[r].conn = c

RunPending(c, i) ==
    /\ AskedBy(c, toServer[c][i].of)
    /\ executed[toServer[c][i].of] <= LostAttempts(toServer[c][i].of)
    /\ i = Len(toServer[c]) /\ toClient[c] = <<>>

AnswerPending(c, i) ==
    /\ AskedBy(c, toClient[c][i].of)
    /\ executed[toClient[c][i].of] >= 1
    /\ Len(toClient[c]) = 1

QueueInv(c) ==
    /\ handler[c] # "closed" => \A i \in 1..Len(toServer[c]) : toServer[c][i].kind = "run" => RunPending(c, i)
    /\ \A i \in 1..Len(toClient[c]) : toClient[c][i].kind = "response" => AnswerPending(c, i)

CountInv(r) ==
    /\ call[r].pc = "idle" => executed[r] = 0
    /\ call[r].pc \in {"opening", "handshaking", "sending"} => executed[r] <= LostAttempts(r)
    /\ executed[r] <= LostAttempts(r) + 1
    /\ replies[r] \in {0, r}
    /\ replies[r] = r => executed[r] >= 1

RequestInv ==
    /\ replies \in [Calls -> 0..MaxCalls]
    /\ \A c \in Conns : QueueInv(c)
    /\ \A r \in Calls : CountInv(r)

\* A connection a step does not touch, if it does not touch its caller either.
LEMMA QueueFrame ==
    ASSUME NEW c \in Conns, QueueInv(c), toServer'[c] = toServer[c], toClient'[c] = toClient[c],
           handler'[c] # "closed" => handler[c] # "closed",
           \A q \in Calls : AskedBy(c, q) => call'[q] = call[q] /\ executed'[q] = executed[q]
    PROVE  QueueInv(c)'
<1>1. ASSUME NEW i \in 1..Len(toServer[c]), RunPending(c, i) PROVE RunPending(c, i)'
  BY <1>1, Zenon DEF RunPending, AskedBy, LostAttempts
<1>2. ASSUME NEW i \in 1..Len(toClient[c]), AnswerPending(c, i) PROVE AnswerPending(c, i)'
  BY <1>2, Zenon DEF AnswerPending, AskedBy
<1> QED BY <1>1, <1>2, Zenon DEF QueueInv

\* No request of a caller is on the stream's connection, nor on an unused one.
LEMMA QueueOfOther ==
    ASSUME NEW c \in Conns, ConnInv(c)', c = stream'.conn \/ handler'[c] = "none"
    PROVE  QueueInv(c)'
<1>1. CASE handler'[c] = "none"
  <2>1. toServer'[c] = <<>> /\ toClient'[c] = <<>>
    BY <1>1, Zenon DEF ConnInv, Unused
  <2> QED BY <2>1 DEF QueueInv
<1>2. CASE c = stream'.conn /\ handler'[c] # "none"
  <2>1. ASSUME NEW i \in 1..Len(toServer'[c]) PROVE toServer'[c][i].kind # "run"
    <3>1. RequestFits(c, i)'
      BY <1>2, Zenon DEF ConnInv
    <3> QED BY <1>2, <3>1, Zenon DEF RequestFits, Asks
  <2>2. ASSUME NEW i \in 1..Len(toClient'[c]) PROVE toClient'[c][i].kind # "response"
    <3>1. AnswerFits(c, i)'
      BY <1>2, Zenon DEF ConnInv
    <3> QED BY <1>2, <3>1, Zenon DEF AnswerFits, Answers
  <2> QED BY <2>1, <2>2, Zenon DEF QueueInv
<1> QED BY <1>1, <1>2, Zenon

\* A caller's counts stay when its record, its executions and its reply do.
LEMMA CountFrame ==
    ASSUME NEW r \in Calls, CountInv(r), call'[r] = call[r], executed'[r] = executed[r], replies'[r] = replies[r]
    PROVE  CountInv(r)'
  BY Zenon DEF CountInv, LostAttempts

\* A caller that waits holds the mutex, so there is one.
LEMMA OneWaits ==
    ASSUME PortInv, NEW r \in Calls, call[r].pc \in {"opening", "handshaking", "sending", "waiting"},
           NEW c, NEW q, AskedBy(c, q)
    PROVE  q = r
  BY Zenon DEF PortInv, AskedBy

\* What a handler's step, but the execution of a request, does to the queues of a
\* caller's connection.
LEMMA HandlerQueues ==
    ASSUME ServerInv, ChannelInv, NEW c \in Conns,
           HandlerStep(c) \/ SendChunk(c) \/ StreamFaults(c) \/ Reset(c), ~ReadRequest(c), c # stream.conn
    PROVE  /\ UNCHANGED <<executed, replies>> /\ handler[c] # "closed"
           /\ \/ toServer'[c] = toServer[c] /\ toClient'[c] = toClient[c]
              \/ toServer'[c] = <<>> /\ toClient'[c] = <<>>
              \/ toServer'[c] = <<>> /\ Secured(c)' = TRUE /\ cCipher'[c] = FALSE
              \/ toServer[c] # <<>> /\ toServer' = [toServer EXCEPT ![c] = Tail(toServer[c])] /\ toClient'[c] = toClient[c]
<1>1. /\ ConnInv(c) /\ sCipher[c] \in BOOLEAN /\ cCipher[c] \in BOOLEAN
      /\ toServer \in [Conns -> Seq(Frame)] /\ toClient \in [Conns -> Seq(Frame)]
      /\ handler[c] # "none" => server[c] # 0
  BY Zenon DEF ChannelInv, ChannelType, ServerInv
<1>2. handler[c] # "streaming"
  BY <1>1, Zenon DEF ConnInv, CiphersInOrder
<1>3. UNCHANGED <<executed, replies>> /\ handler[c] # "closed"
  BY Zenon DEF HandlerStep, Accept, EnterPlain, SendOffer, ReadReply, Publish, SendFinal,
         HandlerCanceled, HandlerSeesEof, SendChunk, StreamFaults, Reset, historyVars
<1>4. CASE Accept(c) \/ EnterPlain(c) \/ Publish(c) \/ HandlerCanceled(c) \/ HandlerSeesEof(c) \/ StreamFaults(c)
  BY <1>3, <1>4, Zenon DEF Accept, EnterPlain, Publish, HandlerCanceled, HandlerSeesEof, StreamFaults
<1>5. CASE Reset(c)
  BY <1>1, <1>3, <1>5, Zenon DEF Reset
<1>6. CASE ReadReply(c)
  <2>1. /\ toServer[c] # <<>> /\ handler[c] = "offered"
        /\ toServer' = [toServer EXCEPT ![c] = Tail(toServer[c])]
    BY <1>6, Zenon DEF ReadReply
  <2>2. Secured(c) = TRUE
    <3>1. server[c] \in Servers
      BY <1>1, <2>1, BoundsAssumption DEF ServerInv, Servers
    <3>2. Secured(c) \in BOOLEAN
      BY <3>1, Zenon DEF ServerInv, Secured
    <3> QED BY <2>1, <3>2, Zenon DEF ServerInv, Secured
  <2>3. toServer[c][1].kind = "reply"
    BY <1>1, <2>1, <2>2, Zenon DEF ConnInv, CiphersInOrder, QuietBefore
  <2>4. Head(toServer[c]) = toServer[c][1]
    BY <1>1, <2>1, QueueTail, Zenon
  <2>5. UNCHANGED toClient
    BY <1>6, <2>3, <2>4, Zenon DEF ReadReply
  <2> QED BY <1>3, <2>1, <2>5, Zenon
<1>7. CASE SendOffer(c)
  <2>1. /\ handler[c] = "accepted" /\ requirePq /\ server[c] = listener
        /\ UNCHANGED <<pq, server, toServer, cCipher>>
    BY <1>7, Zenon DEF SendOffer, Live, serverVars
  <2>2. Secured(c) = TRUE
    <3>1. server[c] \in Servers
      <4>1. server[c] \in 0..MaxServers /\ server[c] # 0
        BY <1>1, <2>1, Zenon DEF ServerInv
      <4> QED BY <4>1, BoundsAssumption DEF Servers
    <3>2. Secured(c) \in BOOLEAN
      BY <3>1, Zenon DEF ServerInv, Secured
    <3> QED BY <1>1, <2>1, <3>2, Zenon DEF ServerInv, Secured
  <2>3. cCipher[c] = FALSE /\ toServer[c] = <<>>
    BY <1>1, <2>1, <2>2, Zenon DEF ConnInv, CiphersInOrder, QuietBefore
  <2>4. Secured(c)' = TRUE
    BY <2>1, <2>2, Zenon DEF Secured
  <2> QED BY <1>3, <2>1, <2>3, <2>4, Zenon
<1>8. CASE SendFinal(c) \/ SendChunk(c)
  BY <1>2, <1>8, Zenon DEF SendFinal, SendChunk
<1> QED BY <1>4, <1>5, <1>6, <1>7, <1>8, Zenon DEF HandlerStep

\* A handler's step: only the execution of a request moves a count.
LEMMA HandlerRequests ==
    ASSUME ServerInv, ChannelInv, ChannelInv', RequestInv, NEW c \in Conns, HandlerActs(c),
           HandlerStep(c) \/ SendChunk(c) \/ StreamFaults(c) \/ Reset(c)
    PROVE  RequestInv'
<1>1. /\ UNCHANGED <<call, stream>> /\ handler[c] # "none" /\ handler'[c] # "none"
      /\ \A d \in Conns \ {c} : /\ handler'[d] = handler[d] /\ toServer'[d] = toServer[d]
                                /\ toClient'[d] = toClient[d]
  BY Zenon DEF HandlerActs
<1>2. /\ ConnInv(c) /\ ConnInv(c)' /\ QueueInv(c) /\ replies \in [Calls -> 0..MaxCalls]
      /\ toServer \in [Conns -> Seq(Frame)] /\ toClient \in [Conns -> Seq(Frame)]
      /\ executed \in [Calls -> Nat]
  BY Zenon DEF ChannelInv, ChannelType, RequestInv
<1>3. CASE ~ReadRequest(c) /\ c # stream.conn
  <2>1. /\ UNCHANGED <<executed, replies>> /\ handler[c] # "closed"
        /\ \/ toServer'[c] = toServer[c] /\ toClient'[c] = toClient[c]
           \/ toServer'[c] = <<>> /\ toClient'[c] = <<>>
           \/ toServer'[c] = <<>> /\ Secured(c)' = TRUE /\ cCipher'[c] = FALSE
           \/ toServer[c] # <<>> /\ toServer' = [toServer EXCEPT ![c] = Tail(toServer[c])] /\ toClient'[c] = toClient[c]
    BY <1>3, HandlerQueues, Zenon
  <2>2. QueueInv(c)'
    <3>1. CASE toServer'[c] = toServer[c] /\ toClient'[c] = toClient[c]
      BY <1>1, <1>2, <2>1, <3>1, QueueFrame, Zenon
    <3>2. CASE toServer'[c] = <<>> /\ toClient'[c] = <<>>
      BY <3>2, EmptyQueue, Zenon DEF QueueInv
    <3>3. CASE toServer'[c] = <<>> /\ Secured(c)' = TRUE /\ cCipher'[c] = FALSE
      <4>1. ASSUME NEW i \in 1..Len(toClient'[c]) PROVE toClient'[c][i].kind # "response"
        <5>1. AnswerFits(c, i)'
          BY <1>1, <1>2, Zenon DEF ConnInv
        <5> QED BY <3>3, <5>1, Zenon DEF AnswerFits
      <4> QED BY <3>3, <4>1, EmptyQueue, Zenon DEF QueueInv
    <3>4. CASE toServer[c] # <<>> /\ toServer' = [toServer EXCEPT ![c] = Tail(toServer[c])] /\ toClient'[c] = toClient[c]
      <4>1. /\ Len(toServer[c]) \in Nat /\ Len(toServer'[c]) = Len(toServer[c]) - 1
            /\ \A i \in 1..Len(toServer'[c]) : i + 1 \in 1..Len(toServer[c]) /\ toServer'[c][i] = toServer[c][i + 1]
        BY <1>2, <3>4, QueueTail
      <4>2. ASSUME NEW i \in 1..Len(toServer'[c]), toServer'[c][i].kind = "run" PROVE RunPending(c, i)'
        <5>1. RunPending(c, i + 1) /\ toServer'[c][i] = toServer[c][i + 1]
          BY <1>2, <2>1, <4>1, <4>2, Zenon DEF QueueInv
        <5>2. i = Len(toServer'[c])
          <6>1. i + 1 = Len(toServer[c])
            BY <5>1, Zenon DEF RunPending
          <6>2. Len(toServer[c]) \in Nat /\ Len(toServer'[c]) = Len(toServer[c]) - 1
            BY <4>1, Zenon
          <6> QED BY <6>1, <6>2
        <5> QED BY <1>1, <2>1, <3>4, <5>1, <5>2, Zenon DEF RunPending, AskedBy, LostAttempts
      <4>3. ASSUME NEW i \in 1..Len(toClient'[c]), toClient'[c][i].kind = "response" PROVE AnswerPending(c, i)'
        BY <1>1, <1>2, <2>1, <3>4, <4>3, Zenon DEF QueueInv, AnswerPending, AskedBy
      <4> QED BY <4>2, <4>3, Zenon DEF QueueInv
    <3> QED BY <2>1, <3>1, <3>2, <3>3, <3>4, Zenon
  <2>3. ASSUME NEW d \in Conns PROVE QueueInv(d)'
    <3>1. CASE d # c
      BY <1>1, <2>1, <3>1, QueueFrame, Zenon DEF RequestInv
    <3> QED BY <2>2, <3>1, Zenon
  <2>4. ASSUME NEW q \in Calls PROVE CountInv(q)'
    BY <1>1, <2>1, CountFrame, Zenon DEF RequestInv
  <2> QED BY <1>2, <2>1, <2>3, <2>4, Zenon DEF RequestInv
<1>4. CASE c = stream.conn
  <2>1. QueueInv(c)'
    BY <1>1, <1>2, <1>4, QueueOfOther, Zenon
  <2>2. UNCHANGED <<executed, replies>>
    <3>1. CASE ReadRequest(c)
      BY <1>2, <1>4, <3>1, ReadRequestFacts, Zenon DEF ChannelInv
    <3>2. CASE ~ReadRequest(c)
      BY <3>2, Zenon DEF HandlerStep, Accept, EnterPlain, SendOffer, ReadReply, Publish, SendFinal,
                  HandlerCanceled, HandlerSeesEof, SendChunk, StreamFaults, Reset, historyVars
    <3> QED BY <3>1, <3>2, Zenon
  <2>3. ASSUME NEW d \in Conns PROVE QueueInv(d)'
    <3>1. CASE d # c
      BY <1>1, <2>2, <3>1, QueueFrame, Zenon DEF RequestInv
    <3> QED BY <2>1, <3>1, Zenon
  <2>4. ASSUME NEW q \in Calls PROVE CountInv(q)'
    BY <1>1, <2>2, CountFrame, Zenon DEF RequestInv
  <2> QED BY <1>2, <2>2, <2>3, <2>4, Zenon DEF RequestInv
<1>5. CASE ReadRequest(c) /\ c # stream.conn
  <2>1. /\ handler[c] = "reading" /\ toServer[c] # <<>> /\ toServer[c][1] \in Frame
        /\ toServer' = [toServer EXCEPT ![c] = Tail(toServer[c])]
        /\ toServer[c][1].kind = "run"
        /\ executed' = [executed EXCEPT ![toServer[c][1].of] = @ + 1]
        /\ FromServer(c, "response", toServer[c][1].of)
        /\ UNCHANGED replies
    BY <1>2, <1>5, ReadRequestFacts, Zenon DEF ChannelInv
  <2>2. PICK r : r = toServer[c][1].of
    OBVIOUS
  <2>3. 1 \in 1..Len(toServer[c]) /\ Len(toServer[c]) \in Nat /\ Len(toServer'[c]) = Len(toServer[c]) - 1
    <3>1. Len(toServer[c]) \in Nat /\ Len(toServer[c]) >= 1 /\ Len(toServer'[c]) = Len(toServer[c]) - 1
      <4>1. toServer \in [Conns -> Seq(Frame)] /\ toServer[c] # <<>> /\ toServer' = [toServer EXCEPT ![c] = Tail(toServer[c])]
        BY <1>2, <2>1
      <4> QED BY <4>1, QueueTail
    <3> QED BY <3>1, ShortQueue, Zenon
  <2>4. RunPending(c, 1)
    BY <1>2, <2>1, <2>3, Zenon DEF QueueInv
  <2>5. /\ AskedBy(c, r) /\ r \in Calls /\ call[r].pc = "waiting" /\ call[r].conn = c
        /\ executed[r] <= LostAttempts(r) /\ Len(toServer[c]) = 1 /\ toClient[c] = <<>>
    BY <2>2, <2>4, Zenon DEF RunPending, AskedBy
  <2>6. /\ executed'[r] = executed[r] + 1 /\ executed[r] \in Nat
        /\ \A q \in Calls : q # r => executed'[q] = executed[q]
    BY <1>2, <2>1, <2>2, <2>5, Zenon
  <2>7. Len(toClient'[c]) = 1 /\ toClient'[c][1].of = r
    <3>1. r \in 0..MaxCalls /\ Len(toClient[c]) = 0
      <4>1. r \in Calls /\ toClient[c] = <<>>
        BY <2>5, Zenon
      <4>2. Calls \subseteq 0..MaxCalls /\ Len(<<>>) = 0
        BY BoundsAssumption DEF Calls
      <4> QED BY <4>1, <4>2, Zenon
    <3>2. /\ Len(toClient'[c]) = Len(toClient[c]) + 1
          /\ toClient'[c][Len(toClient[c]) + 1].of = r
      <4>1. ChannelType /\ FromServer(c, "response", r)
        BY <2>1, <2>2, Zenon DEF ChannelInv
      <4>2. ServerSent(c, "response", r)
        BY <3>1, <4>1, ServerSends, KindsOfFrame, Zenon
      <4> QED BY <4>2, Zenon DEF ServerSent
    <3>3. 0 + 1 = 1
      OBVIOUS
    <3> QED BY <3>1, <3>2, <3>3, Zenon
  <2>8. QueueInv(c)'
    <3>1. \A i \in 1..Len(toServer'[c]) : FALSE
      <4>1. 1 - 1 = 0 /\ 0 \in Nat
        OBVIOUS
      <4> QED BY <2>3, <2>5, <4>1, ShortQueue, Zenon
    <3>2. \A i \in 1..Len(toClient'[c]) : i = 1
      <4>1. 1 \in Nat
        OBVIOUS
      <4> QED BY <2>7, <4>1, ShortQueue, Zenon
    <3>3. AnswerPending(c, 1)'
      BY <1>1, <2>5, <2>6, <2>7 DEF AnswerPending, AskedBy
    <3> QED BY <3>1, <3>2, <3>3, Zenon DEF QueueInv
  <2>9. ASSUME NEW d \in Conns PROVE QueueInv(d)'
    <3>1. CASE d # c
      <4>1. \A q \in Calls : AskedBy(d, q) => call'[q] = call[q] /\ executed'[q] = executed[q]
        BY <1>1, <2>5, <2>6, <3>1, Zenon DEF AskedBy
      <4> QED BY <1>1, <3>1, <4>1, QueueFrame, Zenon DEF RequestInv
    <3> QED BY <2>8, <3>1, Zenon
  <2>10. ASSUME NEW q \in Calls PROVE CountInv(q)'
    <3>1. CASE q # r
      BY <1>1, <2>1, <2>6, <3>1, CountFrame, Zenon DEF RequestInv
    <3>2. CASE q = r
      <4>1. CountInv(r) /\ LostAttempts(r) \in Nat /\ LostAttempts(r)' = LostAttempts(r)
        <5>1. CountInv(r)
          BY <3>2, Zenon DEF RequestInv
        <5>2. LostAttempts(r) \in Nat
          BY DEF LostAttempts
        <5> QED BY <1>1, <5>1, <5>2, Zenon DEF LostAttempts
      <4>2. executed'[r] <= LostAttempts(r) + 1 /\ executed'[r] >= 1
        <5>1. executed'[r] = executed[r] + 1 /\ executed[r] \in Nat
          BY <2>6, Zenon
        <5>2. executed[r] <= LostAttempts(r)
          BY <2>5, Zenon
        <5> QED BY <4>1, <5>1, <5>2
      <4> QED BY <1>1, <2>1, <2>5, <3>2, <4>1, <4>2, Zenon DEF CountInv
    <3> QED BY <3>1, <3>2, Zenon
  <2> QED BY <1>2, <2>1, <2>9, <2>10, Zenon DEF RequestInv
<1> QED BY <1>3, <1>4, <1>5, Zenon

\* A step of a caller that is not waiting, before or after, and executes nothing:
\* no frame on any connection is its own.
LEMMA NotWaiting ==
    ASSUME RequestInv, NEW r \in Calls, call[r].pc # "waiting", \A q \in Calls \ {r} : call'[q] = call[q],
           UNCHANGED executed, NEW c \in Conns,
           toServer'[c] = toServer[c], toClient'[c] = toClient[c], handler'[c] # "closed" => handler[c] # "closed"
    PROVE  QueueInv(c)'
<1>1. \A q \in Calls : AskedBy(c, q) => call'[q] = call[q] /\ executed'[q] = executed[q]
  BY Zenon DEF AskedBy
<1> QED BY <1>1, QueueFrame, Zenon DEF RequestInv

\* The callers' steps.
LEMMA CallRequests ==
    ASSUME ServerInv, ClientType, PortInv, ModeHolds', ChannelInv, ChannelInv', RequestInv,
           NEW r \in Calls, Call(r) \/ CallStep(r)
    PROVE  RequestInv'
<1>0. /\ call \in [Calls -> CallType] /\ 0 \in 0..MaxConns /\ shared \in 0..MaxConns
      /\ call[r].retried \in BOOLEAN /\ call[r].conn \in 0..MaxConns
      /\ executed[r] \in Nat
  BY BoundsAssumption DEF ClientType, CallType, ChannelInv, ChannelType
<1>1. /\ CallUse(r) /\ CountInv(r) /\ replies \in [Calls -> 0..MaxCalls]
      /\ ChannelType /\ toServer \in [Conns -> Seq(Frame)] /\ toClient \in [Conns -> Seq(Frame)]
  BY Zenon DEF ChannelInv, ChannelType, Users, RequestInv
<1>2. ASSUME UNCHANGED executed, \A q \in Calls \ {r} : call'[q] = call[q] /\ replies'[q] = replies[q],
             replies' \in [Calls -> 0..MaxCalls], CountInv(r)', \A c \in Conns : QueueInv(c)'
      PROVE  RequestInv'
  <2>1. ASSUME NEW q \in Calls PROVE CountInv(q)'
    <3>1. CASE q # r
      BY <1>2, <3>1, CountFrame, Zenon DEF RequestInv
    <3> QED BY <1>2, <3>1, Zenon
  <2> QED BY <1>2, <2>1, Zenon DEF RequestInv
<1>3. CASE Call(r)
  <2>1. /\ call[r].pc = "idle"
        /\ CallAt(r, IF shared = 0 THEN "opening" ELSE "sending", shared, FALSE)
        /\ UNCHANGED <<handler, toServer, toClient, executed, replies>>
    BY <1>3, Zenon DEF Call, connVars, historyVars
  <2>2. /\ call'[r].pc \in {"opening", "sending"} /\ call'[r].retried = FALSE
        /\ \A q \in Calls \ {r} : call'[q] = call[q]
    BY <1>0, <2>1, CallAtFacts, Zenon
  <2>3. CountInv(r)'
    <3>1. executed[r] = 0
      BY <1>1, <2>1, Zenon DEF CountInv
    <3>2. replies[r] \in {0, r} /\ (replies[r] = r => executed[r] >= 1)
      BY <1>1, Zenon DEF CountInv
    <3>3. LostAttempts(r)' = 0
      BY <2>2, Zenon DEF LostAttempts
    <3> QED BY <2>1, <2>2, <3>1, <3>2, <3>3 DEF CountInv
  <2>4. \A c \in Conns : QueueInv(c)'
    BY <2>1, <2>2, NotWaiting, Zenon
  <2> QED BY <1>1, <1>2, <2>1, <2>2, <2>3, <2>4, Zenon
<1>4. CASE CallConnects(r)
  <2>1. /\ Connect /\ call[r].pc = "opening"
        /\ CallAt(r, IF secureMode THEN "handshaking" ELSE "sending", conns', call[r].retried)
        /\ UNCHANGED <<toServer, toClient, secureMode, executed, replies>>
        /\ handler' = [handler EXCEPT ![conns'] = "backlog"]
    BY <1>4, Zenon DEF CallConnects, Connect, historyVars
  <2>2. conns' \in Conns /\ conns' \in 0..MaxConns
    BY <2>1, ConnectFacts, ConnNumbers, Zenon
  <2>3. /\ call'[r].pc \in {"handshaking", "sending"} /\ call'[r].retried = call[r].retried
        /\ \A q \in Calls \ {r} : call'[q] = call[q]
    BY <1>0, <2>1, <2>2, CallAtFacts
  <2>4. CountInv(r)'
    BY <1>1, <2>1, <2>3, Zenon DEF CountInv, LostAttempts
  <2>5. ASSUME NEW c \in Conns PROVE QueueInv(c)'
    <3>1. handler[c] # "closed" \/ handler'[c] = handler[c] \/ c = conns'
      BY <2>1, Zenon DEF ServerInv
    <3>2. CASE c = conns'
      <4>1. handler[c] = "none"
        <5>1. conns \in 0..MaxConns /\ c = conns + 1 /\ ConnInv(c)
          BY <2>1, <3>2, Zenon DEF ChannelInv, Connect, ServerInv
        <5>2. c > conns
          BY <5>1, BoundsAssumption
        <5> QED BY <5>1, <5>2, Zenon DEF ConnInv
      <4> QED BY <2>1, <2>3, <4>1, NotWaiting, Zenon
    <3>3. CASE c # conns'
      <4>1. handler'[c] = handler[c]
        BY <2>1, <3>3, Zenon DEF ServerInv
      <4> QED BY <2>1, <2>3, <4>1, NotWaiting, Zenon
    <3> QED BY <3>2, <3>3, Zenon
  <2> QED BY <1>1, <1>2, <2>1, <2>3, <2>4, <2>5, Zenon
<1>5. CASE CallHandshakes(r)
  <2>1. /\ call[r].pc = "handshaking" /\ Handshake(call[r].conn)
        /\ CallAt(r, "sending", call[r].conn, call[r].retried)
        /\ UNCHANGED <<listener, pq, conns, server, handler, sCipher, cOpen, stream, executed, replies>>
    BY <1>5, Zenon DEF CallHandshakes, serverVars, historyVars
  <2>2. PICK c \in Conns : c = call[r].conn /\ handler[c] # "none"
    BY <1>1, <2>1, Zenon DEF CallUse, Used
  <2>3. /\ toClient'[c] = <<>> /\ Len(toServer'[c]) = 1 /\ toServer'[c][1].kind = "reply"
        /\ \A d \in Conns \ {c} : toServer'[d] = toServer[d] /\ toClient'[d] = toClient[d]
    BY <2>1, <2>2, HandshakeChannel, Zenon
  <2>4. /\ call'[r].pc = "sending" /\ call'[r].retried = call[r].retried
        /\ \A q \in Calls \ {r} : call'[q] = call[q]
    BY <1>0, <2>1, CallAtFacts
  <2>5. CountInv(r)'
    BY <1>1, <2>1, <2>4, Zenon DEF CountInv, LostAttempts
  <2>6. QueueInv(c)'
    <3>1. \A i \in 1..Len(toServer'[c]) : i = 1
      BY <2>3
    <3>2. \A i \in 1..Len(toClient'[c]) : FALSE
      BY <2>3
    <3> QED BY <2>3, <3>1, <3>2, Zenon DEF QueueInv
  <2>7. ASSUME NEW d \in Conns PROVE QueueInv(d)'
    <3>1. CASE d # c
      BY <2>1, <2>3, <2>4, <3>1, NotWaiting, Zenon
    <3> QED BY <2>6, <3>1, Zenon
  <2> QED BY <1>1, <1>2, <2>1, <2>4, <2>5, <2>7, Zenon
<1>6. CASE CallSends(r)
  <2>1. /\ call[r].pc = "sending" /\ FromClient(call[r].conn, "run", r)
        /\ CallAt(r, "waiting", call[r].conn, call[r].retried)
        /\ UNCHANGED <<handler, toClient, executed, replies>>
    BY <1>6, Zenon DEF CallSends, historyVars
  <2>2. PICK c \in Conns : c = call[r].conn /\ handler[c] # "none" /\ c # stream.conn /\ Keyed(c)
    BY <1>1, <2>1, Zenon DEF CallUse, Used
  <2>3. PICK n \in Nat : n = Len(toServer[c])
    BY <1>1
  <2>4. /\ Len(toServer'[c]) = n + 1
        /\ \A i \in 1..n : toServer'[c][i] = toServer[c][i]
        /\ toServer'[c][n + 1].of = r
        /\ \A d \in Conns \ {c} : toServer'[d] = toServer[d]
    <3>1. r \in 0..MaxCalls
      BY BoundsAssumption DEF Calls
    <3>2. ChannelType /\ FromClient(c, "run", r)
      BY <1>1, <2>1, <2>2, Zenon
    <3>3. ClientSent(c, "run", r)
      BY <3>1, <3>2, ClientSends, KindsOfFrame, Zenon
    <3> QED BY <2>3, <3>3, Zenon DEF ClientSent
  <2>5. /\ call'[r].pc = "waiting" /\ call'[r].conn = c /\ call'[r].retried = call[r].retried
        /\ \A q \in Calls \ {r} : call'[q] = call[q]
    BY <1>0, <2>1, <2>2, CallAtFacts
  <2>6. CountInv(r)'
    BY <1>1, <2>1, <2>5, Zenon DEF CountInv, LostAttempts
  <2>7. \A q : ~AskedBy(c, q)
    BY <2>1, OneWaits, Zenon DEF AskedBy
  <2>8. toClient[c] = <<>>
    <3> SUFFICES ASSUME toClient[c] # <<>> PROVE FALSE
      OBVIOUS
    <3>1. 1 \in 1..Len(toClient[c]) /\ toClient[c][1].kind \in Answers(c)
      BY <2>2, AnswerFacts, Zenon
    <3>2. toClient[c][1].kind = "response"
      BY <2>2, <3>1, Zenon DEF Answers
    <3>3. AnswerPending(c, 1)
      BY <3>1, <3>2, Zenon DEF RequestInv, QueueInv
    <3> QED BY <2>7, <3>3, Zenon DEF AnswerPending
  <2>9. QueueInv(c)'
    <3>1. ASSUME NEW i \in 1..n, handler[c] # "closed" PROVE toServer'[c][i].kind # "run"
      <4>1. toServer[c][i].kind = "run" => RunPending(c, i)
        BY <2>3, <3>1, Zenon DEF RequestInv, QueueInv
      <4> QED BY <2>4, <2>7, <4>1, Zenon DEF RunPending
    <3>2. RunPending(c, n + 1)'
      <4>1. executed[r] <= LostAttempts(r) /\ LostAttempts(r)' = LostAttempts(r)
        BY <1>1, <2>1, <2>5, Zenon DEF CountInv, LostAttempts
      <4> QED BY <2>1, <2>4, <2>5, <2>8, <4>1, Zenon DEF RunPending, AskedBy
    <3>3. \A i \in 1..Len(toServer'[c]) : i \in 1..n \/ i = n + 1
      BY <2>4
    <3>4. \A i \in 1..Len(toClient'[c]) : FALSE
      <4>1. toClient'[c] = <<>>
        BY <2>1, <2>8, Zenon
      <4> QED BY <4>1, EmptyQueue, Zenon
    <3> QED BY <2>1, <3>1, <3>2, <3>3, <3>4, Zenon DEF QueueInv
  <2>10. ASSUME NEW d \in Conns PROVE QueueInv(d)'
    <3>1. CASE d # c
      BY <2>1, <2>4, <2>5, <3>1, NotWaiting, Zenon
    <3> QED BY <2>9, <3>1, Zenon
  <2> QED BY <1>1, <1>2, <2>1, <2>5, <2>6, <2>10, Zenon
<1>7. ASSUME NEW c \in Conns, call[r].pc = "waiting", c # call[r].conn,
             \A q \in Calls \ {r} : call'[q] = call[q], UNCHANGED <<handler, executed>>,
             toServer'[c] = toServer[c], toClient'[c] = toClient[c]
      PROVE  QueueInv(c)'
  <2>1. \A q : ~AskedBy(c, q)
    BY <1>7, OneWaits, Zenon DEF AskedBy
  <2> QED BY <1>7, <2>1, QueueFrame, Zenon DEF RequestInv
<1>8. CASE CallReceives(r)
  <2>1. /\ call[r].pc = "waiting" /\ toClient[call[r].conn] # <<>> /\ Head(toClient[call[r].conn]).kind = "response"
        /\ toClient' = [toClient EXCEPT ![call[r].conn] = Tail(toClient[call[r].conn])]
        /\ replies' = [replies EXCEPT ![r] = Head(toClient[call[r].conn]).of]
        /\ CallAt(r, "done", 0, call[r].retried)
        /\ UNCHANGED <<handler, toServer, executed>>
    BY <1>8, Zenon DEF CallReceives, CallDone
  <2>2. PICK c \in Conns : c = call[r].conn /\ handler[c] # "none" /\ Keyed(c)
    BY <1>1, <2>1, Zenon DEF CallUse, Used
  <2>3. /\ Head(toClient[c]) = toClient[c][1] /\ 1 \in 1..Len(toClient[c])
    BY <2>1, <2>2, AnswerFacts, Zenon
  <2>4. AnswerPending(c, 1)
    BY <2>1, <2>2, <2>3, Zenon DEF RequestInv, QueueInv
  <2>5. Head(toClient[c]).of = r
    BY <2>1, <2>3, <2>4, OneWaits, Zenon DEF AnswerPending
  <2>6. Len(toClient'[c]) = 0
    <3>1. Len(toClient[c]) = 1 /\ toClient[c] \in Seq(Frame)
      BY <1>1, <2>4, Zenon DEF AnswerPending
    <3>2. Tail(toClient[c]) \in Seq(Frame) /\ Len(Tail(toClient[c])) = 0
      BY <2>1, <2>2, <3>1, OneTail, Zenon
    <3>3. toClient'[c] = Tail(toClient[c])
      BY <1>1, <2>1, <2>2, Zenon
    <3> QED BY <3>2, <3>3, Zenon
  <2>7. /\ call'[r].pc = "done" /\ call'[r].retried = call[r].retried
        /\ \A q \in Calls \ {r} : call'[q] = call[q]
    BY <1>0, <2>1, CallAtFacts
  <2>8. r \in 0..MaxCalls
    BY BoundsAssumption DEF Calls
  <2>9. /\ replies' \in [Calls -> 0..MaxCalls] /\ replies'[r] = r
        /\ \A q \in Calls \ {r} : replies'[q] = replies[q]
    BY <1>1, <2>1, <2>2, <2>5, <2>8, Zenon
  <2>10. CountInv(r)'
    <3>1. executed[r] >= 1
      BY <2>3, <2>4, <2>5, Zenon DEF AnswerPending
    <3> QED BY <1>1, <2>1, <2>7, <2>9, <3>1, Zenon DEF CountInv, LostAttempts
  <2>11. QueueInv(c)'
    <3>1. ASSUME NEW i \in 1..Len(toServer[c]), handler[c] # "closed" PROVE toServer[c][i].kind # "run"
      BY <2>1, <2>2, <3>1, Zenon DEF RequestInv, QueueInv, RunPending
    <3>2. \A i \in 1..Len(toClient'[c]) : FALSE
      BY <2>6
    <3> QED BY <2>1, <3>1, <3>2, Zenon DEF QueueInv
  <2>12. ASSUME NEW d \in Conns PROVE QueueInv(d)'
    <3>1. CASE d # c
      BY <1>1, <1>7, <2>1, <2>2, <2>7, <3>1, Zenon
    <3> QED BY <2>11, <3>1, Zenon
  <2> QED BY <1>2, <2>1, <2>7, <2>9, <2>10, <2>12, Zenon
<1>9. CASE CallThrows(r)
  <2>1. /\ call[r].pc \in {"opening", "handshaking", "waiting"}
        /\ call[r].pc # "waiting" => toClient' = toClient
        /\ call[r].pc = "waiting" => /\ toClient[call[r].conn] # <<>>
                                     /\ \/ Head(toClient[call[r].conn]).kind # "response"
                                        \/ Head(toClient[call[r].conn]).encrypted # cCipher[call[r].conn]
        /\ CallAt(r, "done", 0, call[r].retried)
        /\ UNCHANGED <<handler, toServer, executed, replies>>
    BY <1>9, Zenon DEF CallThrows, CallDone
  <2>2. call[r].pc # "waiting"
    <3> SUFFICES ASSUME call[r].pc = "waiting" PROVE FALSE
      OBVIOUS
    <3>1. PICK c \in Conns : c = call[r].conn /\ handler[c] # "none" /\ c # stream.conn /\ Keyed(c)
      BY <1>1, Zenon DEF CallUse, Used
    <3>2. toClient[c] # <<>> /\ (Head(toClient[c]).kind # "response" \/ Head(toClient[c]).encrypted # cCipher[c])
      BY <2>1, <3>1, Zenon
    <3>3. /\ Head(toClient[c]) = toClient[c][1] /\ toClient[c][1].kind \in Answers(c)
          /\ toClient[c][1].encrypted = cCipher[c]
      BY <3>1, <3>2, AnswerFacts, Zenon
    <3> QED BY <3>1, <3>2, <3>3, Zenon DEF Answers
  <2>3. /\ call'[r].pc = "done" /\ call'[r].retried = call[r].retried
        /\ \A q \in Calls \ {r} : call'[q] = call[q]
    <3>1. CallAt(r, "done", 0, call[r].retried)
      BY <2>1, Zenon
    <3> QED BY <1>0, <3>1, CallAtFacts
  <2>4. CountInv(r)'
    BY <1>1, <2>1, <2>3, Zenon DEF CountInv, LostAttempts
  <2>5. \A c \in Conns : QueueInv(c)'
    BY <2>1, <2>2, <2>3, NotWaiting, Zenon
  <2> QED BY <1>1, <1>2, <2>1, <2>3, <2>4, <2>5, Zenon
<1>10. CASE CallIOException(r)
  <2>1. /\ call[r].pc \in {"opening", "handshaking", "waiting"}
        /\ call[r].pc = "waiting" => Lost(call[r].conn)
        /\ CallAt(r, IF ~call[r].retried THEN "opening" ELSE "done", 0, TRUE)
        /\ UNCHANGED <<handler, toServer, toClient, executed, replies>>
    BY <1>10, Zenon DEF CallIOException, historyVars
  <2>2. /\ call'[r].pc = (IF ~call[r].retried THEN "opening" ELSE "done") /\ call'[r].retried = TRUE
        /\ \A q \in Calls \ {r} : call'[q] = call[q]
    BY <1>0, <2>1, CallAtFacts, Zenon
  <2>3. CountInv(r)'
    <3>1. LostAttempts(r)' = 1
      BY <2>2, Zenon DEF LostAttempts
    <3>2. executed[r] <= LostAttempts(r) + 1 /\ replies[r] \in {0, r} /\ (replies[r] = r => executed[r] >= 1)
      BY <1>1, Zenon DEF CountInv
    <3>3. CASE call[r].retried = FALSE
      <4>1. LostAttempts(r) = 0 /\ call'[r].pc = "opening"
        BY <2>2, <3>3, Zenon DEF LostAttempts
      <4>2. executed[r] <= 1 /\ executed[r] <= 1 + 1
        BY <1>0, <3>2, <4>1
      <4> QED BY <2>1, <3>1, <3>2, <4>1, <4>2, Zenon DEF CountInv
    <3>4. CASE call[r].retried = TRUE
      <4>1. LostAttempts(r) = 1 /\ call'[r].pc = "done"
        BY <2>2, <3>4, Zenon DEF LostAttempts
      <4>2. executed[r] <= 1 + 1
        BY <3>2, <4>1, Zenon
      <4> QED BY <2>1, <3>1, <3>2, <4>1, <4>2, Zenon DEF CountInv
    <3> QED BY <1>0, <3>3, <3>4, Zenon
  <2>4. ASSUME NEW d \in Conns PROVE QueueInv(d)'
    <3>1. CASE call[r].pc # "waiting"
      BY <2>1, <2>2, <3>1, NotWaiting, Zenon
    <3>2. CASE call[r].pc = "waiting" /\ d # call[r].conn
      BY <1>7, <2>1, <2>2, <3>2, Zenon
    <3>3. CASE call[r].pc = "waiting" /\ d = call[r].conn
      <4>1. handler'[d] = "closed" /\ toClient'[d] = <<>>
        BY <2>1, <3>3, Zenon DEF Lost
      <4> QED BY <4>1, EmptyQueue, Zenon DEF QueueInv
    <3> QED BY <3>1, <3>2, <3>3, Zenon
  <2> QED BY <1>1, <1>2, <2>1, <2>2, <2>3, <2>4, Zenon
<1> QED BY <1>3, <1>4, <1>5, <1>6, <1>8, <1>9, <1>10, Zenon DEF CallStep

\* The stream's steps reach no queue but that of its own connection.
LEMMA StreamRequests ==
    ASSUME ServerInv, ClientType, ModeHolds', ChannelInv, ChannelInv', RequestInv, StreamStarts \/ StreamStep
    PROVE  RequestInv'
<1>1. UNCHANGED <<call, executed, replies>>
  BY Zenon DEF StreamStarts, StreamStep, StreamConnects, StreamHandshakes, StreamOpenFails, StreamSends, StreamReceives,
         StreamThrows, StreamEof, historyVars
<1>2. /\ stream \in StreamType /\ 0 \in 0..MaxConns
      /\ toServer \in [Conns -> Seq(Frame)] /\ toClient \in [Conns -> Seq(Frame)]
  BY BoundsAssumption DEF ClientType, ChannelInv, ChannelType
<1>3. stream.conn # 0 => stream.conn \in Conns /\ handler[stream.conn] # "none"
  BY Zenon DEF ChannelInv, Users, StreamUse, Used
<1>4. ASSUME NEW c \in Conns, c # stream'.conn
      PROVE  toServer'[c] = toServer[c] /\ toClient'[c] = toClient[c] /\ handler'[c] = handler[c]
  <2>1. CASE StreamConnects
    <3>1. Connect /\ UNCHANGED <<toServer, toClient, secureMode>>
      BY <2>1, Zenon DEF StreamConnects
    <3>2. PICK n \in Conns : n = conns'
      BY <3>1, ConnectFacts, Zenon
    <3>3. stream'.conn = n
      BY <1>2, <2>1, <3>2, Zenon DEF StreamConnects, StreamOpened, StreamType
    <3>4. handler' = [handler EXCEPT ![n] = "backlog"] /\ DOMAIN handler = Conns
      BY <3>1, <3>2, Zenon DEF Connect, ServerInv
    <3> QED BY <1>4, <3>1, <3>3, <3>4, Zenon
  <2>2. CASE StreamHandshakes
    <3>1. stream.pc = "handshaking" /\ Handshake(stream.conn)
          /\ UNCHANGED <<listener, pq, conns, server, handler, sCipher, cOpen, executed>>
      BY <2>2, Zenon DEF StreamHandshakes, serverVars, historyVars
    <3>2. stream'.conn = stream.conn
      BY <1>2, <2>2, Zenon DEF StreamHandshakes, StreamOpened, StreamType
    <3>3. stream.conn \in Conns /\ handler[stream.conn] # "none"
      BY <3>1, Zenon DEF ChannelInv, Users, StreamUse, Used
    <3>4. \A d \in Conns \ {stream.conn} : toServer'[d] = toServer[d] /\ toClient'[d] = toClient[d]
      BY <3>1, <3>2, <3>3, HandshakeChannel, Zenon
    <3> QED BY <1>4, <3>1, <3>2, <3>4, Zenon
  <2>3. CASE StreamSends
    <3>1. FromClient(stream.conn, "rag", 0) /\ UNCHANGED <<handler, toClient>> /\ stream'.conn = stream.conn
      BY <1>2, <2>3, Zenon DEF StreamSends, StreamType
    <3> QED BY <1>2, <1>4, <3>1, Zenon DEF FromClient
  <2>4. CASE StreamReceives
    <3>1. /\ UNCHANGED <<handler, toServer>> /\ stream'.conn = stream.conn
          /\ toClient' = [toClient EXCEPT ![stream.conn] = Tail(toClient[stream.conn])]
      BY <1>2, <2>4, Zenon DEF StreamReceives, StreamType
    <3> QED BY <1>2, <1>4, <3>1, Zenon
  <2>5. CASE StreamStarts \/ StreamOpenFails \/ StreamThrows \/ StreamEof
    BY <2>5, Zenon DEF StreamStarts, StreamOpenFails, StreamThrows, StreamEof, connVars
  <2> QED BY <2>1, <2>2, <2>3, <2>4, <2>5, Zenon DEF StreamStep
<1>5. ASSUME NEW c \in Conns PROVE QueueInv(c)'
  <2>1. CASE c = stream'.conn
    BY <2>1, QueueOfOther, Zenon DEF ChannelInv
  <2>2. CASE c # stream'.conn
    BY <1>1, <1>4, <2>2, QueueFrame, Zenon DEF RequestInv
  <2> QED BY <2>1, <2>2, Zenon
<1>6. ASSUME NEW r \in Calls PROVE CountInv(r)'
  BY <1>1, CountFrame, Zenon DEF RequestInv
<1> QED BY <1>1, <1>5, <1>6, Zenon DEF RequestInv

\* The frames in flight and the counts of executions agree in every reachable state.
LEMMA RequestInvariance == Spec => []RequestInv
<1>1. Init => RequestInv
  <2> SUFFICES ASSUME Init PROVE RequestInv
    OBVIOUS
  <2>1. replies \in [Calls -> 0..MaxCalls]
    BY BoundsAssumption DEF Init
  <2>2. ASSUME NEW c \in Conns PROVE QueueInv(c)
    BY DEF Init, QueueInv
  <2>3. ASSUME NEW r \in Calls PROVE CountInv(r)
    <3>1. executed[r] = 0 /\ replies[r] = 0 /\ call[r].retried = FALSE /\ call[r].pc = "idle" /\ r # 0
      BY DEF Init, Calls
    <3>2. LostAttempts(r) = 0
      BY <3>1, Zenon DEF LostAttempts
    <3>3. 0 <= 0 /\ 0 <= 0 + 1
      OBVIOUS
    <3> QED BY <3>1, <3>2, <3>3, Zenon DEF CountInv
  <2> QED BY <2>1, <2>2, <2>3, Zenon DEF RequestInv
<1>2. ServerInv /\ ClientType /\ PortInv /\ ModeHolds' /\ ChannelInv /\ ChannelInv' /\ RequestInv /\ [Next]_vars
      => RequestInv'
  <2> SUFFICES ASSUME ServerInv, ClientType, PortInv, ModeHolds', ChannelInv, ChannelInv', RequestInv, [Next]_vars
               PROVE  RequestInv'
    OBVIOUS
  <2>1. ASSUME UNCHANGED <<handler, toServer, toClient, call, executed, replies>> PROVE RequestInv'
    <3>1. ASSUME NEW c \in Conns PROVE QueueInv(c)'
      BY <2>1, QueueFrame, Zenon DEF RequestInv
    <3>2. ASSUME NEW r \in Calls PROVE CountInv(r)'
      BY <2>1, CountFrame, Zenon DEF RequestInv
    <3> QED BY <2>1, <3>1, <3>2, Zenon DEF RequestInv
  <2>2. CASE UNCHANGED vars
    BY <2>1, <2>2, Zenon DEF vars, connVars, clientVars, historyVars
  <2>3. CASE SetSecure \/ SwitchStep
    BY <2>1, <2>3, Zenon DEF SetSecure, SwitchStep, SwitchDone, SwitchCanceled, connVars, historyVars
  <2>4. ASSUME NEW c \in Conns, HandlerStep(c) \/ SendChunk(c) \/ StreamFaults(c) \/ Reset(c)
        PROVE  RequestInv'
    BY <2>4, HandlerKeepsChannel, HandlerRequests, Zenon
  <2> QED BY <2>2, <2>3, <2>4, CallRequests, StreamRequests, Zenon DEF Next
<1> QED BY <1>1, <1>2, ServerInvariance, ClientTypes, PortInvariance, ModeInvariance, ChannelInvariance, PTL DEF Spec

\* AnswersMatchRequests: the reply a caller takes is the one to its own request,
\* which was executed, and never more than once per attempt (withConnection).
THEOREM AnswersAlwaysMatch == Spec => []AnswersMatchRequests
<1>1. ClientType /\ ChannelInv /\ RequestInv => AnswersMatchRequests
  <2> SUFFICES ASSUME ClientType, ChannelInv, RequestInv, NEW r \in Calls
               PROVE  /\ replies[r] \in {0, r}
                      /\ executed[r] <= IF call[r].retried THEN 2 ELSE 1
                      /\ replies[r] = r => executed[r] >= 1
    BY Zenon DEF AnswersMatchRequests
  <2>1. CountInv(r) /\ executed[r] \in Nat
    BY Zenon DEF RequestInv, ChannelInv, ChannelType
  <2> QED BY <2>1 DEF CountInv, LostAttempts
<1> QED BY <1>1, ClientTypes, ChannelInvariance, RequestInvariance, PTL


=============================================================================
