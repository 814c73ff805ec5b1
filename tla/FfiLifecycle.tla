--------------------------- MODULE FfiLifecycle ---------------------------
(***************************************************************************)
(* The engine's life cycle as host threads drive it through the C exports: *)
(* dni_initialize, dni_shutdown, dni_session_start and its siblings,       *)
(* dni_session_cancel and dni_session_free, over the shared EngineHost,    *)
(* SessionRegistry and FfiState.AllocatedIds, with the pumps of the        *)
(* sessions and the llama.cpp generations they start running beside them.  *)
(* The Foreman agent of ForemanHost has a llama.cpp model of its own.      *)
(* A session's tokens are left to InferenceSession; here it is only        *)
(* running or done.                                                        *)
(***************************************************************************)
EXTENDS Naturals, FiniteSets

CONSTANTS
    Threads,    \* host threads that call the exports
    Sessions,   \* sessions a behaviour may start: bounds the calls of session start
    Handles     \* llama.cpp handles a behaviour may load: bounds the model loads

ASSUME ThreadsAssumption == "free" \notin Threads
ASSUME HandlesAssumption == {"null", "extractive", "router"} \cap Handles = {}

VARIABLES
    \* EngineHost
    ragModel,           \* "null", "extractive" or the handle _ragOrchestrator generates with;
                        \*   _orchestrator is set and cleared together with it
    ragModelDisposable, \* the handle Reset() will free, or "null"
    gate,               \* the thread inside EngineHost's lock, or "free"
    agent,              \* ForemanHost._agent: "null", "router", or the handle its brain has
    loaded, frees,      \* handles loaded, and how often each was freed
    \* SessionRegistry and FfiState
    registry, allocatedIds,
    \* sessions
    pump, canceled,
    model,              \* what the session generates with
    native,             \* its dni_llama_generate call
    \* host threads
    pc,
    arg,                \* the session a start call has created
    todo, awaited       \* ids a free or shutdown call has to remove, sessions it waits for

hostVars == <<ragModel, ragModelDisposable, gate, agent, loaded, frees>>
idVars == <<registry, allocatedIds>>
sessionVars == <<pump, canceled, model, native>>
threadVars == <<pc, arg, todo, awaited>>
vars == <<hostVars, idVars, sessionVars, threadVars>>

NoSession == "none"
Models == Handles \cup {"null", "extractive", "router"}

Labels == {"idle", "initialize", "start", "startAgent", "add", "track", "free",
           "shutdown", "drain", "reset"}

TypeOK ==
    /\ ragModel \in Models
    /\ ragModelDisposable \in Handles \cup {"null"}
    /\ gate \in Threads \cup {"free"}
    /\ agent \in Handles \cup {"null", "router"}
    /\ loaded \subseteq Handles
    /\ frees \in [Handles -> Nat]
    /\ registry \subseteq Sessions
    /\ allocatedIds \subseteq Sessions
    /\ pump \in [Sessions -> {"none", "running", "done"}]
    /\ canceled \in [Sessions -> BOOLEAN]
    /\ model \in [Sessions -> Models]
    /\ native \in [Sessions -> {"none", "running", "ended"}]
    /\ pc \in [Threads -> Labels]
    /\ arg \in [Threads -> Sessions \cup {NoSession}]
    /\ todo \in [Threads -> SUBSET Sessions]
    /\ awaited \in [Threads -> SUBSET Sessions]

Init ==
    /\ ragModel = "null" /\ ragModelDisposable = "null" /\ gate = "free"
    /\ agent = "null"
    /\ loaded = {} /\ frees = [h \in Handles |-> 0]
    /\ registry = {} /\ allocatedIds = {}
    /\ pump = [s \in Sessions |-> "none"]
    /\ canceled = [s \in Sessions |-> FALSE]
    /\ model = [s \in Sessions |-> "null"]
    /\ native = [s \in Sessions |-> "none"]
    /\ pc = [t \in Threads |-> "idle"]
    /\ arg = [t \in Threads |-> NoSession]
    /\ todo = [t \in Threads |-> {}] /\ awaited = [t \in Threads |-> {}]

Goto(t, label) == pc' = [pc EXCEPT ![t] = label]

IsInitialized == ragModel # "null"

----------------------------------------------------------------------------
\* dni_initialize

\* The check outside the lock; an initialized engine returns at once.
InitializeCheck(t) ==
    /\ pc[t] = "idle"
    /\ ~IsInitialized
    /\ Goto(t, "initialize")
    /\ UNCHANGED <<hostVars, idVars, sessionVars, arg, todo, awaited>>

\* Mutant: the llama model is not retained.
BuildRagModelUnretained ==
    /\ UNCHANGED ragModelDisposable
    /\ \/ ragModel' = "extractive" /\ UNCHANGED loaded
       \/ \E h \in Handles \ loaded : ragModel' = h /\ loaded' = loaded \cup {h}

\* BuildRagModel: llama.cpp when the GGUF is there and loads, else extraction;
\* extraction too when the search engine fails after the load, the handle being
\* retained by then.
BuildRagModel ==
    \/ /\ ragModel' = "extractive"
       /\ UNCHANGED <<ragModelDisposable, loaded>>
    \/ \E h \in Handles \ loaded :
          /\ ragModel' \in {h, "extractive"}
          /\ ragModelDisposable' = h
          /\ loaded' = loaded \cup {h}

\* The critical section: build what is missing.
InitializeLocked(t) ==
    /\ pc[t] = "initialize"
    /\ gate = "free"
    /\ IF IsInitialized
       THEN UNCHANGED <<ragModel, ragModelDisposable, loaded>>
       ELSE BuildRagModel
    /\ Goto(t, "idle")
    /\ UNCHANGED <<gate, agent, frees, idVars, sessionVars, arg, todo, awaited>>

----------------------------------------------------------------------------
\* ForemanHost

\* BuildBrain, under ForemanHost's own lock: llama.cpp when the GGUF is there and
\* loads, else the router.
BuildBrain ==
    \/ agent' = "router" /\ UNCHANGED loaded
    \/ \E h \in Handles \ loaded : agent' = h /\ loaded' = loaded \cup {h}

\* The getter builds the agent once and never drops it; no Reset comes here.
Agent == IF agent = "null" THEN BuildBrain ELSE UNCHANGED <<agent, loaded>>

\* agent~reset builds the agent too, also of an engine that is not initialized.
\* (What it does to the conversation is in ForemanTurn.)
ResetConversation(t) ==
    /\ pc[t] = "idle"
    /\ agent = "null"
    /\ Agent
    /\ UNCHANGED <<ragModel, ragModelDisposable, gate, frees, idVars, sessionVars,
                   threadVars>>

----------------------------------------------------------------------------
\* dni_session_start, dni_rag_session_start, dni_agent_session_start

Fresh == {s \in Sessions : pump[s] = "none"}

\* The IsInitialized test; the bound on sessions is that some are left for every
\* thread past it.
Initialized(t, label) ==
    /\ pc[t] = "idle"
    /\ IsInitialized
    /\ Cardinality(Fresh) > Cardinality({u \in Threads : pc[u] \in {"start", "startAgent"}})
    /\ Goto(t, label)
    /\ UNCHANGED <<hostVars, idVars, sessionVars, arg, todo, awaited>>

SessionStart(t) == Initialized(t, "start")
AgentSessionStart(t) == Initialized(t, "startAgent")

\* An exception: the export returns Internal.
FailedStart(t) ==
    /\ Goto(t, "idle")
    /\ UNCHANGED <<hostVars, pump, model, arg>>

\* InferenceSession.Start
Started(t, s, m) ==
    /\ pump' = [pump EXCEPT ![s] = "running"]
    /\ model' = [model EXCEPT ![s] = m]
    /\ arg' = [arg EXCEPT ![t] = s]
    /\ Goto(t, "add")

\* A session with the orchestrator of the moment, the showcase's (no model to
\* load, as with extraction) or the RAG one; it may be gone by now.
StartPump(t, s) ==
    /\ pc[t] = "start"
    /\ pump[s] = "none"
    /\ IF IsInitialized
       THEN /\ \E m \in {ragModel, "extractive"} : Started(t, s, m)
            /\ UNCHANGED hostVars
       ELSE FailedStart(t)
    /\ UNCHANGED <<idVars, canceled, native, todo, awaited>>

\* A session with ForemanHost's agent, whatever has become of EngineHost; the
\* agent's Build fails with the search engine its router embeds with.
StartAgentPump(t, s) ==
    /\ pc[t] = "startAgent"
    /\ pump[s] = "none"
    /\ \/ /\ Agent
          /\ Started(t, s, agent')
          /\ UNCHANGED <<ragModel, ragModelDisposable, gate, frees>>
       \/ agent = "null" /\ FailedStart(t)
    /\ UNCHANGED <<idVars, canceled, native, todo, awaited>>

\* SessionRegistry.Add
RegistryAdd(t) ==
    /\ pc[t] = "add"
    /\ registry' = registry \cup {arg[t]}
    /\ Goto(t, "track")
    /\ UNCHANGED <<hostVars, allocatedIds, sessionVars, arg, todo, awaited>>

\* AllocatedIds.TryAdd, and the id is returned.
TrackId(t) ==
    /\ pc[t] = "track"
    /\ allocatedIds' = allocatedIds \cup {arg[t]}
    /\ arg' = [arg EXCEPT ![t] = NoSession]
    /\ Goto(t, "idle")
    /\ UNCHANGED <<hostVars, registry, sessionVars, todo, awaited>>

----------------------------------------------------------------------------
\* dni_session_cancel and dni_session_free, on ids the host was given.

Returned(s) ==
    /\ pump[s] # "none"
    /\ \A t \in Threads : arg[t] = s => pc[t] \notin {"add", "track"}

SessionCancel(t, s) ==
    /\ pc[t] = "idle"
    /\ Returned(s)
    /\ s \in registry
    /\ canceled' = [canceled EXCEPT ![s] = TRUE]
    /\ UNCHANGED <<hostVars, idVars, pump, model, native, threadVars>>

\* AllocatedIds.TryRemove
SessionFree(t, s) ==
    /\ pc[t] = "idle"
    /\ Returned(s)
    /\ allocatedIds' = allocatedIds \ {s}
    /\ todo' = [todo EXCEPT ![t] = {s}]
    /\ Goto(t, "free")
    /\ UNCHANGED <<hostVars, registry, sessionVars, arg, awaited>>

\* RemoveAsync, called by dni_session_free and in dni_shutdown's loop: TryRemove
\* decides which of several callers disposes the session; DisposeAsync cancels
\* it and awaits its pump.
RemoveAsync(t, s) ==
    /\ pc[t] \in {"free", "shutdown"}
    /\ s \in todo[t]
    /\ todo' = [todo EXCEPT ![t] = @ \ {s}]
    /\ IF s \in registry
       THEN /\ registry' = registry \ {s}
            /\ canceled' = [canceled EXCEPT ![s] = TRUE]
            /\ awaited' = [awaited EXCEPT ![t] = @ \cup {s}]
       ELSE UNCHANGED <<registry, canceled, awaited>>
    /\ UNCHANGED <<hostVars, allocatedIds, pump, model, native, pc, arg>>

DisposedAtOnce(t) == TRUE      \* mutant: the pump is not awaited
Disposed(t) == \A s \in awaited[t] : pump[s] = "done"

FreeReturn(t) ==
    /\ pc[t] = "free"
    /\ todo[t] = {}
    /\ Disposed(t)
    /\ awaited' = [awaited EXCEPT ![t] = {}]
    /\ Goto(t, "idle")
    /\ UNCHANGED <<hostVars, idVars, sessionVars, arg, todo>>

----------------------------------------------------------------------------
\* dni_shutdown

\* The snapshot of AllocatedIds.Keys the loop runs over.
Shutdown(t) ==
    /\ pc[t] = "idle"
    /\ todo' = [todo EXCEPT ![t] = allocatedIds]
    /\ Goto(t, "shutdown")
    /\ UNCHANGED <<hostVars, idVars, sessionVars, arg, awaited>>

ShutdownClear(t) ==
    /\ pc[t] = "shutdown"
    /\ todo[t] = {}
    /\ allocatedIds' = {}
    /\ Goto(t, "drain")
    /\ UNCHANGED <<hostVars, registry, sessionVars, arg, todo, awaited>>

\* WhenAll has returned; Reset takes the lock and frees the llama handle first,
\* while the orchestrators that use it are still published.
ResetDispose(t) ==
    /\ pc[t] = "drain"
    /\ Disposed(t)
    /\ gate = "free"
    /\ gate' = t
    /\ frees' = [h \in Handles |-> frees[h] + (IF h = ragModelDisposable THEN 1 ELSE 0)]
    /\ awaited' = [awaited EXCEPT ![t] = {}]
    /\ Goto(t, "reset")
    /\ UNCHANGED <<ragModel, ragModelDisposable, agent, loaded, idVars, sessionVars,
                   arg, todo>>

\* Mutant: the RAG orchestrator stays published.
ResetClearKeepsRag(t) ==
    /\ pc[t] = "reset"
    /\ ragModelDisposable' = "null"
    /\ gate' = "free"
    /\ Goto(t, "idle")
    /\ UNCHANGED <<ragModel, agent, loaded, frees, idVars, sessionVars, arg, todo, awaited>>

ResetClear(t) ==
    /\ pc[t] = "reset"
    /\ ragModelDisposable' = "null"
    /\ ragModel' = "null"
    /\ gate' = "free"
    /\ Goto(t, "idle")
    /\ UNCHANGED <<agent, loaded, frees, idVars, sessionVars, arg, todo, awaited>>

----------------------------------------------------------------------------
\* The background tasks of a session.

\* LlamaLanguageModel.GenerateAsync's Task.Run, which a cancellation prevents
\* from starting but does not stop. A Foreman turn generates once for every step.
NativeStart(s) ==
    /\ pump[s] = "running"
    /\ model[s] \in Handles
    /\ native[s] = "none" \/ (native[s] = "ended" /\ model[s] = agent)
    /\ ~canceled[s]
    /\ native' = [native EXCEPT ![s] = "running"]
    /\ UNCHANGED <<hostVars, idVars, pump, canceled, model, threadVars>>

NativeEnd(s) ==
    /\ native[s] = "running"
    /\ native' = [native EXCEPT ![s] = "ended"]
    /\ UNCHANGED <<hostVars, idVars, pump, canceled, model, threadVars>>

\* Mutant: the pieces are read without the cancellation token.
PumpEndWhenGenerated(s) ==
    /\ pump[s] = "running"
    /\ model[s] \notin Handles \/ native[s] = "ended"
    /\ pump' = [pump EXCEPT ![s] = "done"]
    /\ UNCHANGED <<hostVars, idVars, canceled, model, native, threadVars>>

\* The pump ends: cancelled at its next await, or when the model's stream ends,
\* which for llama.cpp is when the native call has returned.
PumpEnd(s) ==
    /\ pump[s] = "running"
    /\ canceled[s] \/ model[s] \notin Handles \/ native[s] = "ended"
    /\ pump' = [pump EXCEPT ![s] = "done"]
    /\ UNCHANGED <<hostVars, idVars, canceled, model, native, threadVars>>

----------------------------------------------------------------------------

\* A call on its way, whatever the host does next.
Continue(t) ==
    \/ InitializeLocked(t)
    \/ \E s \in Sessions : StartPump(t, s) \/ StartAgentPump(t, s)
    \/ RegistryAdd(t)
    \/ TrackId(t)
    \/ \E s \in Sessions : RemoveAsync(t, s)
    \/ FreeReturn(t)
    \/ ShutdownClear(t)
    \/ ResetDispose(t)
    \/ ResetClear(t)

\* A new call of a host thread.
Call(t) ==
    \/ InitializeCheck(t)
    \/ SessionStart(t) \/ AgentSessionStart(t) \/ ResetConversation(t)
    \/ \E s \in Sessions : SessionCancel(t, s) \/ SessionFree(t, s)
    \/ Shutdown(t)

Background(s) == NativeStart(s) \/ NativeEnd(s) \/ PumpEnd(s)

Next ==
    \/ \E t \in Threads : Continue(t) \/ Call(t)
    \/ \E s \in Sessions : Background(s)

Spec == Init /\ [][Next]_vars

\* Background tasks run, calls go on, and a thread waiting for EngineHost's lock
\* gets it when it is free again and again.
FairSpec ==
    /\ Spec
    /\ \A s \in Sessions : WF_vars(Background(s))
    /\ \A t \in Threads : SF_vars(Continue(t))

----------------------------------------------------------------------------
\* Properties.

\* A llama handle is freed at most once, however many threads shut the engine
\* down; one that is not freed is the one the next Reset will free or the Foreman
\* agent's, so an initialize that races with a shutdown or with the agent's own
\* load leaks none; and no Reset frees the agent's, which outlives every shutdown.
HandlesOwned ==
    \A h \in loaded :
        /\ frees[h] <= 1
        /\ frees[h] = 0 => h \in {ragModelDisposable, agent}
        /\ h = agent => frees[h] = 0

\* Outside Reset's critical section the published orchestrator never generates
\* with a freed handle.
PublishedModelIsLive ==
    gate = "free" /\ ragModel \in Handles => frees[ragModel] = 0

\* dni_session_free and dni_shutdown return, although they wait for pumps that
\* wait for native generations and for the lock.
CallsReturn == \A t \in Threads : pc[t] # "idle" ~> pc[t] = "idle"

\* A pump that runs is never orphaned: its session is registered, is about to be
\* by the start call that created it, or is out of the registry and awaited by
\* the one free or shutdown that took it out, also when several calls race for it.
RunningIsOwned ==
    \A s \in Sessions : pump[s] = "running" =>
        \/ s \in registry
        \/ \E t \in Threads : (pc[t] = "add" /\ arg[t] = s) \/ s \in awaited[t]

----------------------------------------------------------------------------
\* What the repository's comments say of the life cycle, and the code does not do.

\* EngineHost.Reset: shutdown drains the sessions first, "so no in-flight
\* generation is still holding the handle".
NoGenerationOnFreedHandle ==
    \A s \in Sessions :
        native[s] = "running" /\ model[s] \in Handles => frees[model[s]] = 0

=============================================================================
