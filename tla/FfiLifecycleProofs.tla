------------------------ MODULE FfiLifecycleProofs ------------------------
(***************************************************************************)
(* TLAPS proofs about FfiLifecycle, for every set of host threads, of      *)
(* sessions and of llama.cpp handles.                                      *)
(***************************************************************************)
EXTENDS FfiLifecycle, TLAPS

\* EngineHost's and ForemanHost's fields, without the sessions and the threads'
\* other state.
HostTypeOK ==
    /\ ragModel \in Models
    /\ ragModelDisposable \in Handles \cup {"null"}
    /\ gate \in Threads \cup {"free"}
    /\ agent \in Handles \cup {"null", "router"}
    /\ loaded \subseteq Handles
    /\ frees \in [Handles -> Nat]
    /\ pc \in [Threads -> Labels]

\* The lock is held exactly by the thread between the two halves of Reset.
ResetHoldsGate == \A t \in Threads : gate = t <=> pc[t] = "reset"

\* A published model is retained, and an engine without a model retains none.
PublishedIsRetained ==
    /\ ragModel \in Handles => ragModelDisposable = ragModel
    /\ ragModel = "null" => ragModelDisposable = "null"

\* A handle goes from not loaded, over retained, to freed once, or from not loaded
\* to the agent's, which EngineHost does not know of, for good.
HandleLife ==
    \A h \in Handles :
        /\ h \notin loaded => frees[h] = 0 /\ ragModelDisposable # h /\ agent # h
        /\ frees[h] <= 1
        /\ h \in loaded /\ ragModelDisposable # h /\ agent # h => frees[h] = 1
        /\ agent = h => frees[h] = 0 /\ ragModelDisposable # h
        /\ ragModelDisposable = h => frees[h] = (IF gate = "free" THEN 0 ELSE 1)

IInv == HostTypeOK /\ ResetHoldsGate /\ PublishedIsRetained /\ HandleLife

\* The engine before its first initialization satisfies the invariant.
LEMMA InitInv == Init => IInv
  BY ThreadsAssumption, HandlesAssumption
  DEF Init, IInv, HostTypeOK, ResetHoldsGate, PublishedIsRetained, HandleLife,
      Models, Labels

\* Steps that leave EngineHost alone and do not enter or leave Reset.
LEMMA FrameInv ==
    ASSUME IInv, UNCHANGED hostVars,
           pc' \in [Threads -> Labels],
           \A t \in Threads : pc[t] = "reset" <=> pc'[t] = "reset"
    PROVE  IInv'
  BY DEF IInv, HostTypeOK, ResetHoldsGate, PublishedIsRetained, HandleLife, hostVars

\* The agent's brain is built of a handle of its own.
LEMMA AgentInv ==
    ASSUME IInv, Agent, UNCHANGED <<ragModel, ragModelDisposable, gate, frees>>,
           pc' \in [Threads -> Labels],
           \A t \in Threads : pc[t] = "reset" <=> pc'[t] = "reset"
    PROVE  IInv'
<1>0. HostTypeOK /\ ResetHoldsGate /\ PublishedIsRetained /\ HandleLife
  BY DEF IInv
<1>1. CASE UNCHANGED <<agent, loaded>>
  BY <1>1, FrameInv DEF hostVars
<1>2. CASE agent = "null" /\ agent' = "router" /\ UNCHANGED loaded
  BY <1>0, <1>2, HandlesAssumption
  DEF IInv, HostTypeOK, ResetHoldsGate, PublishedIsRetained, HandleLife
<1>3. ASSUME agent = "null", NEW h \in Handles \ loaded,
             agent' = h, loaded' = loaded \cup {h}
      PROVE  IInv'
  <2>1. HostTypeOK' /\ ResetHoldsGate' /\ PublishedIsRetained'
    BY <1>0, <1>3 DEF HostTypeOK, ResetHoldsGate, PublishedIsRetained
  <2>2. HandleLife'
    BY <1>0, <1>3, HandlesAssumption DEF HandleLife
  <2> QED
    BY <2>1, <2>2 DEF IInv
<1> QED
  BY <1>1, <1>2, <1>3 DEF Agent, BuildBrain

\* Every step of a call or of a background task keeps the invariant.
LEMMA NextInv == IInv /\ [Next]_vars => IInv'
<1> SUFFICES ASSUME IInv, [Next]_vars PROVE IInv'
  OBVIOUS
<1>0. HostTypeOK /\ ResetHoldsGate /\ PublishedIsRetained /\ HandleLife
  BY DEF IInv
<1>1. ASSUME NEW t \in Threads, NEW label \in Labels \ {"reset"},
             pc[t] # "reset", Goto(t, label), UNCHANGED hostVars
      PROVE  IInv'
  <2>1. pc' \in [Threads -> Labels]
    BY <1>0, <1>1 DEF HostTypeOK, Goto
  <2>2. \A u \in Threads : pc[u] = "reset" <=> pc'[u] = "reset"
    BY <1>0, <1>1 DEF HostTypeOK, Goto
  <2> QED
    BY <1>1, <2>1, <2>2, FrameInv
<1>2. ASSUME NEW t \in Threads, InitializeLocked(t)
      PROVE  IInv'
  <2>1. /\ pc' \in [Threads -> Labels]
        /\ \A u \in Threads : pc[u] = "reset" <=> pc'[u] = "reset"
    BY <1>0, <1>2 DEF HostTypeOK, InitializeLocked, Goto, Labels
  <2>2. UNCHANGED <<gate, agent, frees>> /\ gate = "free"
    BY <1>2 DEF InitializeLocked
  <2>3. CASE UNCHANGED <<ragModel, ragModelDisposable, loaded>>
    BY <1>0, <2>1, <2>2, <2>3
    DEF IInv, HostTypeOK, ResetHoldsGate, PublishedIsRetained, HandleLife
  <2>4. CASE ragModel = "null" /\ BuildRagModel
    <3>1. ragModelDisposable = "null"
      BY <1>0, <2>4 DEF PublishedIsRetained
    <3>2. CASE ragModel' = "extractive" /\ UNCHANGED <<ragModelDisposable, loaded>>
      BY <1>0, <2>1, <2>2, <3>1, <3>2, HandlesAssumption
      DEF IInv, HostTypeOK, ResetHoldsGate, PublishedIsRetained, HandleLife, Models
    <3>3. ASSUME NEW h \in Handles \ loaded,
                 ragModel' \in {h, "extractive"},
                 ragModelDisposable' = h,
                 loaded' = loaded \cup {h}
          PROVE  IInv'
      <4>1. HostTypeOK' /\ ResetHoldsGate'
        BY <1>0, <2>1, <2>2, <3>3 DEF HostTypeOK, ResetHoldsGate, Models
      <4>2. PublishedIsRetained'
        BY <3>3, HandlesAssumption DEF PublishedIsRetained
      <4>3. HandleLife'
        BY <1>0, <2>2, <3>1, <3>3, HandlesAssumption DEF HandleLife
      <4> QED
        BY <4>1, <4>2, <4>3 DEF IInv
    <3> QED
      BY <2>4, <3>2, <3>3 DEF BuildRagModel
  <2> QED
    BY <1>2, <2>3, <2>4 DEF InitializeLocked, IsInitialized
<1>3. ASSUME NEW t \in Threads, ResetDispose(t)
      PROVE  IInv'
  <2>1. /\ gate = "free" /\ gate' = t
        /\ UNCHANGED <<ragModel, ragModelDisposable, agent, loaded>>
        /\ frees' = [h \in Handles |-> frees[h] + (IF h = ragModelDisposable THEN 1 ELSE 0)]
    BY <1>3 DEF ResetDispose
  <2>2. pc' = [pc EXCEPT ![t] = "reset"]
    BY <1>3 DEF ResetDispose, Goto
  <2>3. HostTypeOK'
    BY <1>0, <2>1, <2>2 DEF HostTypeOK, Labels
  <2>4. ResetHoldsGate'
    BY <1>0, <2>1, <2>2, ThreadsAssumption DEF HostTypeOK, ResetHoldsGate
  <2>5. PublishedIsRetained'
    BY <1>0, <2>1 DEF PublishedIsRetained
  <2>6. HandleLife'
    BY <1>0, <2>1, ThreadsAssumption DEF HostTypeOK, HandleLife
  <2> QED
    BY <2>3, <2>4, <2>5, <2>6 DEF IInv
<1>4. ASSUME NEW t \in Threads, ResetClear(t)
      PROVE  IInv'
  <2>1. /\ gate' = "free" /\ ragModel' = "null" /\ ragModelDisposable' = "null"
        /\ UNCHANGED <<agent, loaded, frees>> /\ gate = t
    BY <1>0, <1>4 DEF ResetClear, ResetHoldsGate
  <2>2. pc' = [pc EXCEPT ![t] = "idle"]
    BY <1>4 DEF ResetClear, Goto
  <2>3. HostTypeOK'
    BY <1>0, <2>1, <2>2 DEF HostTypeOK, Labels, Models
  <2>4. ResetHoldsGate'
    BY <1>0, <2>1, <2>2, ThreadsAssumption DEF HostTypeOK, ResetHoldsGate
  <2>5. PublishedIsRetained'
    BY <2>1, HandlesAssumption DEF PublishedIsRetained
  <2>6. HandleLife'
    BY <1>0, <2>1, ThreadsAssumption, HandlesAssumption DEF HostTypeOK, HandleLife
  <2> QED
    BY <2>3, <2>4, <2>5, <2>6 DEF IInv
<1>5. ASSUME UNCHANGED <<hostVars, pc>>
      PROVE  IInv'
  BY <1>0, <1>5, FrameInv DEF HostTypeOK
<1>6. ASSUME NEW t \in Threads, Continue(t)
      PROVE  IInv'
  <2> USE DEF Labels
  <2>1. CASE \E s \in Sessions : StartPump(t, s)
    BY <1>1, <2>1 DEF StartPump, Started, FailedStart
  <2>2. CASE RegistryAdd(t)
    BY <1>1, <2>2 DEF RegistryAdd
  <2>3. CASE TrackId(t)
    BY <1>1, <2>3 DEF TrackId
  <2>4. CASE \E s \in Sessions : RemoveAsync(t, s)
    BY <1>5, <2>4 DEF RemoveAsync
  <2>5. CASE FreeReturn(t)
    BY <1>1, <2>5 DEF FreeReturn
  <2>6. CASE ShutdownClear(t)
    BY <1>1, <2>6 DEF ShutdownClear
  <2>7. ASSUME NEW s \in Sessions, StartAgentPump(t, s)
        PROVE  IInv'
    <3>1. CASE FailedStart(t)
      BY <1>1, <2>7, <3>1 DEF StartAgentPump, FailedStart
    <3>2. CASE /\ Agent /\ Started(t, s, agent')
               /\ UNCHANGED <<ragModel, ragModelDisposable, gate, frees>>
      <4>1. /\ pc' \in [Threads -> Labels]
            /\ \A u \in Threads : pc[u] = "reset" <=> pc'[u] = "reset"
        BY <1>0, <2>7, <3>2 DEF HostTypeOK, StartAgentPump, Started, Goto
      <4> QED
        BY <3>2, <4>1, AgentInv
    <3> QED
      BY <2>7, <3>1, <3>2 DEF StartAgentPump
  <2> QED
    BY <1>2, <1>3, <1>4, <1>6, <2>1, <2>2, <2>3, <2>4, <2>5, <2>6, <2>7 DEF Continue
<1>7. ASSUME NEW t \in Threads, Call(t)
      PROVE  IInv'
  <2> USE DEF Labels
  <2>1. CASE InitializeCheck(t)
    BY <1>1, <2>1 DEF InitializeCheck
  <2>2. CASE SessionStart(t) \/ AgentSessionStart(t)
    BY <1>1, <2>2 DEF SessionStart, AgentSessionStart, Initialized
  <2>3. CASE \E s \in Sessions : SessionCancel(t, s)
    BY <1>5, <2>3 DEF SessionCancel, threadVars
  <2>4. CASE \E s \in Sessions : SessionFree(t, s)
    BY <1>1, <2>4 DEF SessionFree
  <2>5. CASE Shutdown(t)
    BY <1>1, <2>5 DEF Shutdown
  <2>6. CASE ResetConversation(t)
    BY <1>0, <2>6, AgentInv DEF HostTypeOK, ResetConversation, threadVars
  <2> QED
    BY <1>7, <2>1, <2>2, <2>3, <2>4, <2>5, <2>6 DEF Call
<1>8. ASSUME NEW s \in Sessions, Background(s)
      PROVE  IInv'
  BY <1>5, <1>8 DEF Background, NativeStart, NativeEnd, PumpEnd, threadVars
<1>9. CASE UNCHANGED vars
  BY <1>5, <1>9 DEF vars, threadVars
<1> QED
  BY <1>6, <1>7, <1>8, <1>9 DEF Next

\* The invariant holds in every reachable state.
LEMMA Invariant == Spec => []IInv
  BY InitInv, NextInv, PTL DEF Spec

----------------------------------------------------------------------------
\* The sessions and who answers for them.

\* The registries, the sessions and the threads' calls.
SessionTypeOK ==
    /\ registry \subseteq Sessions
    /\ allocatedIds \subseteq Sessions
    /\ pump \in [Sessions -> {"none", "running", "done"}]
    /\ canceled \in [Sessions -> BOOLEAN]
    /\ model \in [Sessions -> Models]
    /\ native \in [Sessions -> {"none", "running", "ended"}]
    /\ arg \in [Threads -> Sessions \cup {NoSession}]
    /\ todo \in [Threads -> SUBSET Sessions]
    /\ awaited \in [Threads -> SUBSET Sessions]

\* A start call between Start and its return has a session in hand.
StartHolds == \A t \in Threads : pc[t] \in {"add", "track"} => arg[t] \in Sessions

OwnInv == SessionTypeOK /\ StartHolds /\ RunningIsOwned

\* A host without sessions satisfies it.
LEMMA InitOwn == Init => OwnInv
<1> SUFFICES ASSUME Init PROVE OwnInv
  OBVIOUS
<1>1. canceled \in [Sessions -> BOOLEAN]
  BY DEF Init
<1>2. SessionTypeOK
  BY <1>1 DEF Init, SessionTypeOK, Models
<1>3. StartHolds /\ RunningIsOwned
  BY DEF Init, StartHolds, RunningIsOwned
<1> QED
  BY <1>2, <1>3 DEF OwnInv

\* A thread that moves on, without a start call's session and without giving up
\* one it awaits, orphans none.
LEMMA MoveOn ==
    ASSUME HostTypeOK, OwnInv, NEW t \in Threads, NEW label,
           label \notin {"add", "track"}, pc[t] # "add", Goto(t, label),
           UNCHANGED <<registry, pump, arg, awaited>>
    PROVE  StartHolds' /\ RunningIsOwned'
<1>1. /\ \A u \in Threads \ {t} : pc'[u] = pc[u]
      /\ pc'[t] = label
  BY DEF HostTypeOK, Goto
<1>2. StartHolds'
  BY <1>1 DEF OwnInv, StartHolds
<1>3. \A u \in Threads : pc[u] = "add" => pc'[u] = "add"
  BY <1>1
<1>4. RunningIsOwned'
  BY <1>3 DEF OwnInv, RunningIsOwned
<1> QED
  BY <1>2, <1>4

\* A call that returns after its pumps have ended lets go of sessions that no
\* longer run.
LEMMA LetGo ==
    ASSUME HostTypeOK, OwnInv, NEW t \in Threads, NEW label,
           label \notin {"add", "track"}, pc[t] # "add", Goto(t, label), Disposed(t),
           awaited' = [awaited EXCEPT ![t] = {}],
           UNCHANGED <<registry, pump, arg>>
    PROVE  /\ awaited' \in [Threads -> SUBSET Sessions]
           /\ StartHolds' /\ RunningIsOwned'
<1>1. /\ \A u \in Threads \ {t} : pc'[u] = pc[u]
      /\ pc'[t] = label
  BY DEF HostTypeOK, Goto
<1>2. /\ awaited' \in [Threads -> SUBSET Sessions]
      /\ \A u \in Threads \ {t} : awaited'[u] = awaited[u]
  BY DEF OwnInv, SessionTypeOK
<1>3. StartHolds'
  BY <1>1 DEF OwnInv, StartHolds
<1>4. ASSUME NEW s \in Sessions, pump[s] = "running", s \notin registry
      PROVE  \E u \in Threads : (pc'[u] = "add" /\ arg[u] = s) \/ s \in awaited'[u]
  <2>1. PICK u \in Threads : (pc[u] = "add" /\ arg[u] = s) \/ s \in awaited[u]
    BY <1>4 DEF OwnInv, RunningIsOwned
  <2>2. u # t
    BY <1>4, <2>1 DEF Disposed
  <2> QED
    BY <1>1, <1>2, <2>1, <2>2
<1>5. RunningIsOwned'
  BY <1>4 DEF RunningIsOwned
<1> QED
  BY <1>2, <1>3, <1>5

\* Every step of a call or of a background task keeps every running pump owned.
LEMMA OwnStep == IInv /\ OwnInv /\ [Next]_vars => OwnInv'
<1> SUFFICES ASSUME IInv, OwnInv, [Next]_vars PROVE OwnInv'
  OBVIOUS
<1>0. HostTypeOK /\ SessionTypeOK /\ StartHolds /\ RunningIsOwned
  BY DEF IInv, OwnInv
<1> USE DEF idVars, sessionVars
<1>1. ASSUME NEW t \in Threads,
             \/ InitializeCheck(t) \/ InitializeLocked(t) \/ ResetClear(t)
             \/ SessionStart(t) \/ AgentSessionStart(t)
      PROVE  OwnInv'
  <2>1. /\ pc[t] # "add"
        /\ \E label \in {"initialize", "start", "startAgent", "idle"} : Goto(t, label)
        /\ UNCHANGED <<idVars, sessionVars, arg, todo, awaited>>
    BY <1>1 DEF InitializeCheck, InitializeLocked, ResetClear, SessionStart,
                AgentSessionStart, Initialized
  <2>2. StartHolds' /\ RunningIsOwned'
    BY <1>0, <2>1, MoveOn
  <2>3. SessionTypeOK'
    BY <1>0, <2>1 DEF SessionTypeOK
  <2> QED
    BY <2>2, <2>3 DEF OwnInv
<1>2. ASSUME NEW t \in Threads, NEW s \in Sessions, StartPump(t, s) \/ StartAgentPump(t, s)
      PROVE  OwnInv'
  <2>0. pc[t] # "add" /\ UNCHANGED <<idVars, canceled, native, todo, awaited>>
    BY <1>2 DEF StartPump, StartAgentPump
  <2>1. CASE FailedStart(t)
    <3>1. Goto(t, "idle") /\ UNCHANGED <<idVars, sessionVars, arg, todo, awaited>>
      BY <2>0, <2>1 DEF FailedStart
    <3>2. StartHolds' /\ RunningIsOwned'
      BY <1>0, <2>0, <3>1, MoveOn
    <3>3. SessionTypeOK'
      BY <1>0, <3>1 DEF SessionTypeOK
    <3> QED
      BY <3>2, <3>3 DEF OwnInv
  <2>2. ASSUME NEW m \in Models, Started(t, s, m)
        PROVE  OwnInv'
    <3>1. /\ pc' = [pc EXCEPT ![t] = "add"]
          /\ pump' = [pump EXCEPT ![s] = "running"]
          /\ model' = [model EXCEPT ![s] = m]
          /\ arg' = [arg EXCEPT ![t] = s]
      BY <2>2 DEF Started, Goto
    <3>2. model' \in [Sessions -> Models]
      BY <1>0, <2>2, <3>1 DEF SessionTypeOK
    <3>3. SessionTypeOK'
      BY <1>0, <2>0, <3>1, <3>2 DEF SessionTypeOK
    <3>4. /\ pc'[t] = "add" /\ arg'[t] = s
          /\ \A u \in Threads \ {t} : pc'[u] = pc[u] /\ arg'[u] = arg[u]
          /\ \A r \in Sessions \ {s} : pump'[r] = pump[r]
      BY <1>0, <3>1 DEF HostTypeOK, SessionTypeOK
    <3>5. StartHolds'
      BY <1>0, <3>4 DEF StartHolds
    <3>6. RunningIsOwned'
      BY <1>0, <2>0, <3>1, <3>4 DEF RunningIsOwned
    <3> QED
      BY <3>3, <3>5, <3>6 DEF OwnInv
  <2>3. CASE StartPump(t, s) /\ IsInitialized
    <3>1. PICK m \in {ragModel, "extractive"} : Started(t, s, m)
      BY <2>3 DEF StartPump
    <3>2. m \in Models
      BY <1>0 DEF HostTypeOK, Models
    <3> QED
      BY <2>2, <3>1, <3>2
  <2>4. CASE Agent /\ Started(t, s, agent')
    <3>1. agent' \in Models
      BY <1>0, <2>4 DEF Agent, BuildBrain, HostTypeOK, Models
    <3> QED
      BY <2>2, <2>4, <3>1
  <2> QED
    BY <1>2, <2>1, <2>3, <2>4 DEF StartPump, StartAgentPump
<1>3. ASSUME NEW t \in Threads, RegistryAdd(t)
      PROVE  OwnInv'
  <2>1. /\ pc[t] = "add" /\ pc' = [pc EXCEPT ![t] = "track"]
        /\ registry' = registry \cup {arg[t]}
        /\ UNCHANGED <<allocatedIds, sessionVars, arg, todo, awaited>>
    BY <1>3 DEF RegistryAdd, Goto
  <2>2. arg[t] \in Sessions
    BY <1>0, <2>1 DEF StartHolds
  <2>3. SessionTypeOK'
    BY <1>0, <2>1, <2>2 DEF SessionTypeOK
  <2>4. pc'[t] = "track" /\ \A u \in Threads \ {t} : pc'[u] = pc[u]
    BY <1>0, <2>1 DEF HostTypeOK
  <2>5. StartHolds'
    BY <1>0, <2>1, <2>2, <2>4 DEF StartHolds
  <2>6. RunningIsOwned'
    BY <1>0, <2>1, <2>4 DEF RunningIsOwned
  <2> QED
    BY <2>3, <2>5, <2>6 DEF OwnInv
<1>4. ASSUME NEW t \in Threads, TrackId(t)
      PROVE  OwnInv'
  <2>1. /\ pc[t] = "track" /\ pc' = [pc EXCEPT ![t] = "idle"]
        /\ allocatedIds' = allocatedIds \cup {arg[t]}
        /\ arg' = [arg EXCEPT ![t] = NoSession]
        /\ UNCHANGED <<registry, sessionVars, todo, awaited>>
    BY <1>4 DEF TrackId, Goto
  <2>2. arg[t] \in Sessions
    BY <1>0, <2>1 DEF StartHolds
  <2>3. SessionTypeOK'
    BY <1>0, <2>1, <2>2 DEF SessionTypeOK
  <2>4. /\ pc'[t] = "idle"
        /\ \A u \in Threads \ {t} : pc'[u] = pc[u] /\ arg'[u] = arg[u]
    BY <1>0, <2>1 DEF HostTypeOK, SessionTypeOK
  <2>5. StartHolds'
    BY <1>0, <2>4 DEF StartHolds
  <2>6. RunningIsOwned'
    BY <1>0, <2>1, <2>4 DEF RunningIsOwned
  <2> QED
    BY <2>3, <2>5, <2>6 DEF OwnInv
<1>5. ASSUME NEW t \in Threads, NEW s \in Sessions, RemoveAsync(t, s)
      PROVE  OwnInv'
  <2>1. /\ todo' = [todo EXCEPT ![t] = @ \ {s}]
        /\ UNCHANGED <<allocatedIds, pump, model, native, pc, arg>>
    BY <1>5 DEF RemoveAsync
  <2>2. CASE s \in registry
    <3>1. /\ registry' = registry \ {s}
          /\ canceled' = [canceled EXCEPT ![s] = TRUE]
          /\ awaited' = [awaited EXCEPT ![t] = @ \cup {s}]
      BY <1>5, <2>2 DEF RemoveAsync
    <3>2. canceled' \in [Sessions -> BOOLEAN]
      BY <1>0, <3>1 DEF SessionTypeOK
    <3>3. SessionTypeOK'
      BY <1>0, <2>1, <3>1, <3>2 DEF SessionTypeOK
    <3>4. /\ s \in awaited'[t]
          /\ \A u \in Threads : awaited[u] \subseteq awaited'[u]
      BY <1>0, <3>1 DEF SessionTypeOK
    <3>5. RunningIsOwned'
      BY <1>0, <2>1, <3>1, <3>4 DEF RunningIsOwned
    <3> QED
      BY <1>0, <2>1, <3>3, <3>5 DEF OwnInv, StartHolds
  <2>3. CASE s \notin registry
    <3>1. UNCHANGED <<registry, canceled, awaited>>
      BY <1>5, <2>3 DEF RemoveAsync
    <3> QED
      BY <1>0, <2>1, <3>1 DEF OwnInv, SessionTypeOK, StartHolds, RunningIsOwned
  <2> QED
    BY <2>2, <2>3
<1>6. ASSUME NEW t \in Threads, FreeReturn(t) \/ ResetDispose(t)
      PROVE  OwnInv'
  <2>1. /\ pc[t] # "add" /\ Disposed(t)
        /\ \E label \in {"idle", "reset"} : Goto(t, label)
        /\ awaited' = [awaited EXCEPT ![t] = {}]
        /\ UNCHANGED <<idVars, sessionVars, arg, todo>>
    BY <1>6 DEF FreeReturn, ResetDispose
  <2>2. /\ awaited' \in [Threads -> SUBSET Sessions]
        /\ StartHolds' /\ RunningIsOwned'
    BY <1>0, <2>1, LetGo
  <2>3. SessionTypeOK'
    BY <1>0, <2>1, <2>2 DEF SessionTypeOK
  <2> QED
    BY <2>2, <2>3 DEF OwnInv
<1>7. ASSUME NEW t \in Threads, NEW ids \in SUBSET Sessions, NEW label \in {"free", "shutdown"},
             pc[t] = "idle", todo' = [todo EXCEPT ![t] = ids], Goto(t, label),
             allocatedIds' \subseteq allocatedIds,
             UNCHANGED <<registry, sessionVars, arg, awaited>>
      PROVE  OwnInv'
  <2>1. StartHolds' /\ RunningIsOwned'
    BY <1>0, <1>7, MoveOn
  <2>2. SessionTypeOK'
    BY <1>0, <1>7 DEF SessionTypeOK
  <2> QED
    BY <2>1, <2>2 DEF OwnInv
<1>8. ASSUME NEW t \in Threads, ShutdownClear(t)
      PROVE  OwnInv'
  <2>1. /\ pc[t] # "add" /\ Goto(t, "drain") /\ allocatedIds' = {}
        /\ UNCHANGED <<registry, sessionVars, arg, todo, awaited>>
    BY <1>8 DEF ShutdownClear
  <2>2. StartHolds' /\ RunningIsOwned'
    BY <1>0, <2>1, MoveOn
  <2>3. SessionTypeOK'
    BY <1>0, <2>1 DEF SessionTypeOK
  <2> QED
    BY <2>2, <2>3 DEF OwnInv
<1>9. ASSUME NEW t \in Threads, NEW s \in Sessions, SessionCancel(t, s)
      PROVE  OwnInv'
  <2>1. /\ canceled' = [canceled EXCEPT ![s] = TRUE]
        /\ UNCHANGED <<idVars, pump, model, native, threadVars>>
    BY <1>9 DEF SessionCancel
  <2>2. canceled' \in [Sessions -> BOOLEAN]
    BY <1>0, <2>1 DEF SessionTypeOK
  <2> QED
    BY <1>0, <2>1, <2>2 DEF OwnInv, SessionTypeOK, StartHolds, RunningIsOwned, threadVars
<1>10. ASSUME NEW s \in Sessions, Background(s)
       PROVE  OwnInv'
  <2>1. UNCHANGED <<idVars, canceled, model, threadVars>>
    BY <1>10 DEF Background, NativeStart, NativeEnd, PumpEnd
  <2>2. \/ \E n \in {"running", "ended"} : native' = [native EXCEPT ![s] = n] /\ pump' = pump
        \/ native' = native /\ pump' = [pump EXCEPT ![s] = "done"]
    BY <1>10 DEF Background, NativeStart, NativeEnd, PumpEnd
  <2>3. SessionTypeOK'
    BY <1>0, <2>1, <2>2 DEF SessionTypeOK, threadVars
  <2>4. \A r \in Sessions : pump'[r] = "running" => pump[r] = "running"
    BY <1>0, <2>2 DEF SessionTypeOK
  <2> QED
    BY <1>0, <2>1, <2>3, <2>4 DEF OwnInv, StartHolds, RunningIsOwned, threadVars
<1>11. CASE UNCHANGED vars
  BY <1>0, <1>11 DEF vars, threadVars, OwnInv, SessionTypeOK, StartHolds, RunningIsOwned
<1>12. ASSUME NEW t \in Threads, Continue(t)
       PROVE  OwnInv'
  BY <1>1, <1>2, <1>3, <1>4, <1>5, <1>6, <1>8, <1>12 DEF Continue
<1>13. ASSUME NEW t \in Threads, Call(t)
       PROVE  OwnInv'
  <2>0. CASE ResetConversation(t)
    BY <1>0, <2>0
    DEF ResetConversation, threadVars, OwnInv, SessionTypeOK, StartHolds, RunningIsOwned
  <2>1. CASE \E s \in Sessions : SessionFree(t, s)
    BY <1>7, <2>1 DEF SessionFree
  <2>2. CASE Shutdown(t)
    BY <1>0, <1>7, <2>2 DEF Shutdown, SessionTypeOK
  <2> QED
    BY <1>1, <1>9, <1>13, <2>0, <2>1, <2>2 DEF Call
<1> QED
  BY <1>10, <1>11, <1>12, <1>13 DEF Next

\* The ownership invariant holds in every reachable state.
LEMMA Ownership == Spec => []OwnInv
  BY InitOwn, OwnStep, Invariant, PTL DEF Spec

----------------------------------------------------------------------------
\* The theorems.

\* No llama.cpp handle is freed twice, none that EngineHost loads is leaked, and
\* the one the Foreman agent loads is freed by nobody.
THEOREM HandlesFreedOnce == Spec => []HandlesOwned
<1>1. IInv => HandlesOwned
  BY DEF IInv, HostTypeOK, HandleLife, HandlesOwned
<1> QED
  BY <1>1, Invariant, PTL

\* A session started outside Reset's critical section gets a live model.
THEOREM PublishedModelLive == Spec => []PublishedModelIsLive
<1>1. IInv => PublishedModelIsLive
  BY DEF IInv, HostTypeOK, PublishedIsRetained, HandleLife, PublishedModelIsLive
<1> QED
  BY <1>1, Invariant, PTL

\* EngineHost, the registries, the sessions and the calls keep their types.
THEOREM TypeCorrect == Spec => []TypeOK
<1>1. IInv /\ OwnInv => TypeOK
  BY DEF IInv, HostTypeOK, OwnInv, SessionTypeOK, TypeOK
<1> QED
  BY <1>1, Invariant, Ownership, PTL

\* Whatever calls race for a session, its pump never runs with nobody left to
\* dispose it.
THEOREM NoPumpIsOrphaned == Spec => []RunningIsOwned
<1>1. OwnInv => RunningIsOwned
  BY DEF OwnInv
<1> QED
  BY <1>1, Ownership, PTL

=============================================================================
