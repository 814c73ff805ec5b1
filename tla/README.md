# TLA+ models of dotnet-native-interop

A TLA+ development kept beside the code: modules that model the concurrent parts
of the engine, of its transports and of the mobile clients, TLC runs on small
instances, and TLAPS proofs for every value of the constants. Source paths are
relative to the repository; `Engine/` and `NativeBridge/` stand for
`core/DotnetNativeInterop.Engine/` and `core/DotnetNativeInterop.NativeBridge/`.

## 1. The system

The engine is a NativeAOT .NET library with a C ABI (`NativeBridge/abi/dni.h`).
A mobile app reaches it over four transports: direct calls, raw HTTP, a SQLite
database both sides open, and framed protobuf with an optional post-quantum (PQ)
handshake. All of them run the same orchestrator, which turns a language model's
text fragments into numbered tokens and a final marker. The model is llama.cpp
when its file has been downloaded, and an extractive fallback otherwise.

| Part | State | Operations | What makes it hard |
|---|---|---|---|
| Session (`Engine/InferenceSession.cs`, `InferenceOrchestrator.cs`, drain in `NativeBridge/Ffi/Exports.Ffi.cs`) | bounded channel, cancellation source, pump and drain tasks | start, pump, drain and callback, cancel, dispose | two tasks and a host; cancel and free at any point, also inside the callback; a callback that never returns |
| Life cycle (`NativeBridge/EngineHost.cs`, `SessionRegistry.cs`, `Ffi/*.cs`, `Engine/Ai/Agent/ForemanHost.cs`) | lazily built models, two llama handles, registry of sessions, list of ids | initialize, shutdown, the three session starts, cancel, free | any thread calls anything; shutdown takes several steps; generation runs in the background; the agent has a model and a lock of its own |
| llama.cpp adapter (`Engine/Llama/`, `native/llama-shim/`) | piece channels by key, one context | generate, piece callback, read | a native call that cannot be cancelled; a callback that must not wait; a context all calls share |
| Span ring and metrics (`Engine/EngineTrace.cs`, `EngineMetrics.cs`) | ring, drop counters, cumulative metrics | span stopped, drain, stats | eviction and insertion by many threads, overflow between drains, metrics updated outside the lock |
| SQLite broker (`NativeBridge/Sqlite/SqliteBroker.cs`, `Exports.Sqlite.cs`) | two tables, poll loop, connection | start, stop, claim, write rows, finish | app kill between statements, overlapping stop and start, failing statements |
| SQLite client (`SqliteClient.kt`, `BrokerDatabase.kt`) | two observers, channel | stream, cancel | two observers close one channel; the broker may be gone; its writes come through another connection |
| FFI client (`jni_bridge.c`, `FfiClient.kt`, `FfiRagService.kt`, `AgentService.kt`) | heap record of the callback, channel, coroutine | start, callback, emit, cancel, cleanup | native thread, coroutine and collector; a full buffer; cancellation during the start |
| Framed protobuf (`NativeBridge/Pb/`, `transport/pb/*.kt`) | listener, mode, posture, connections, cached port, mutex | start, stop, handshake, dispatch, call, stream, switch of the mode | stop during a handshake, ciphers attached between frames, a retry, a cancelled switch, no timeouts |
| Foreman agent (`Engine/Ai/Agent/`) and view models (`AgentViewModel.kt`, `ForemanViewModel.swift`) | conversation, turn, turns on screen, jobs | decide, call tool, answer, reset, ask, cancel | turns overlap; the job of a cancelled turn lives on and writes to the last slot |
| Model download (`GgufDownloader.kt`, `RagViewModel.kt`) | part file, target file, state | download, cancel, restart of the engine | resume, kill during the replacement, a second downloader on the same file |
| Log ring, raw HTTP, SQLCipher tables, iOS clients of the direct calls | as their modelled counterparts | | see section 6 |
| Catalogs, search, labs, screens | none shared, or derived | one call, one answer | nothing to interleave |

`PROJECT.json` lists every part with its files, and the hazards with the lines
where they bite.

## 2. Modules

| Module | Models | State and actions |
|---|---|---|
| `TokenStream` | what a session promises its consumer | the tokens seen so far and whether the stream is open, complete or cut |
| `InferenceSession` | one session and its drain | `held`, `channel`, `taken`, `delivered` are the places a token passes; the pump's actions are the outcomes of `PumpAsync`, the drain's those of `DrainAsync`, the host's are `Cancel`, `BeginDispose`, `EndDispose` |
| `FfiLifecycle` | `EngineHost`, registry and exports under several host threads | `pc` says where each thread is in its call; a step is what happens under one lock or up to the next shared access; `agent` is `ForemanHost`'s agent, built once under its own lock and never reset |
| `LlamaGeneration` | `LlamaLanguageModel` and the decode loop of `dni_llama.cpp` | per call a pool task and an enumerator; `kv` is the shared context, as the owners of the tokens in it; one action per outcome of a turn of the loop |
| `EngineTrace` | the span ring | ring, window and counters; a thread counts, evicts, inserts and times a span; another drains |
| `FfiClient` | JNI callback, Kotlin channel and flow, composed with `InferenceSession` | `EXTENDS` the session; each client action conjoins the session's action it calls |
| `SqliteBroker` | the broker's tables, poll loops, start, stop, app kill | one step per SQL statement |
| `SqliteClient` | the Room client, composed with `SqliteBroker` | the rows seen, forwarded and emitted are counts, since rows are only added; an observer's query is an action that need not happen |
| `ForemanTurn` | `ForemanAgent`, `ForemanLanguageModel`, `ConversationSession` | per turn its phase, tool steps and the fragments streamed; one action per outcome of a decision or of the answer |
| `ForemanViewModel` | both platforms' view models and agent services, composed with `ForemanTurn` | `turns` is the screen; `job` is the coroutine or task of each turn up to its epilogue; `platform` chooses what differs |
| `PbChannel` | `PbFrameServer` and Android's `PbTransport`, `PbConnection`, `PqHandshakeClient` and their users | a connection is two queues of frames and the state of either end; server instances are numbered, so that an old one can be told from the live one; one action per await of a handler and per blocking call of a client |
| `GgufDownload` | `GgufDownloader`, `RagViewModel`'s use of it, the file system and the server | a file is the sequence of its blocks, each named by the version it comes from; `open` says under which name a downloader's file is now |
| `*Proofs` | theorems about the module they are named after; `FfiClientProofs` also holds those about `InferenceSession`, `SqliteBrokerProofs` those about `SqliteClient`, `ForemanViewModelProofs` those about `ForemanTurn` | |
| `MC*` | instances for TLC | a symmetry set for the threads of the span ring; the other runs check liveness |

Tokens are records of an index and a flag; texts, prompts and timestamps are left
out. A request is a status, a transcript a sequence of "fragment" and "final". A
frame is a kind, the request it belongs to and whether it is encrypted. A context
of llama.cpp is the sequence of the calls whose tokens it holds; two decodes at
once are a data race in the C++ code and are modelled as interleaved decodes,
each of which may fail. Room, Kotlin channels, SQLite, TCP, the file system, the
file server and the operating system's kill are modelled from how the code uses
them.

Variables marked as history in the modules (`overlapped`, `mixed`, `dropped`,
`ended`, `executed`, `switchCanceled` and others) are read by properties and by
nothing else.

## 3. Runs

| Run | Question | Bounds |
|---|---|---|
| `session` | nothing lost, honest end, refinement of `TokenStream` (with its liveness if callbacks return); does free return even when the callback does not? | capacity 2, 4 fragments: more than the channel, pump and drain hold together, so the pump blocks |
| `trace_ring` | does a drain disclose what was lost, is every span counted once, do metrics and ring agree? | capacity 3, 2 threads, 8 spans: the window wraps twice |
| `lifecycle` | handles freed once, never lost and the agent's never freed; published model live; no running session without an owner; does every call return? | 2 threads, 1 session, 3 handles: every pair of calls overlaps, also for one session; one handle for the agent and two for the engine, so that an initialize follows a shutdown |
| `llama_generation` | pieces in order and accounted for, a completed stream drained, a generation alone on its context; do the native call and the enumeration end? | 2 calls, 3 tokens of which one has no text, channel of 1 and context of 3: the channel is full, and the context is too |
| `ffi_client` | no use of a freed record, no gap in a completed flow, order, the session released; does the flow end? | session capacity 1, Kotlin buffer 2, 3 fragments: the buffer overflows |
| `sqlite` | status and transcript agree over stops, kills and restarts, requests are claimed in order and once, a completed stream is whole; are pending requests claimed, does stop return, does the stream of a finished request end if Room notices? | 2 brokers: the second takes over any table the first leaves; 2 requests, 1 fragment and the final row, channel of 1: the send suspends; failing statements |
| `pb_channel` | the posture is that of a live server, nothing but the handshake in plaintext and no frame rejected, answers to their requests, the cached port is live; does every use of the transport end? | 2 server instances, 3 connections, 2 calls, a stream, a dropped connection: a handshake of the first server can end in the life of the second, and a retry finds its connection dropped |
| `foreman` | the conversation is the newest turns in the order they ended, a slot shows its own turn, its outcome is the engine's; does every turn end? | 2 turns, 1 tool step, 1 text, memory of 1 turn, both platforms: turns overlap, the cap is reached, the memory evicts |
| `gguf_download` | what is installed is complete, a model is removed only for its successor; does trying again lead to the model? | 3 blocks, 2 versions and a page that is no model, 2 view models, 2 faults: an attempt is interrupted, resumed and interrupted again, or runs beside another |

Every property has a mutant in `PROJECT.json`: a plausible bug in a mapped
definition that makes TLC report the property.

Deadlock is checked in the session's, the ring's and the life cycle's runs. The
others may stop for good: all brokers, requests, calls, turns or view models of
the bound used, the flow ended.

`DbFails` lets statements of the broker fail. Two disjuncts of `PbChannel` are
there because the code has them and no other user of the server is modelled:
`StartRefused` and the branch of `EnsurePort` that finds a server running.

### What the properties except

The code does less than one would expect in some places; the property then names
the case instead of leaving it out.

| Property | Exception |
|---|---|
| `FreeReturns`, `CallbackStateIsLive` | `dni_session_free` waits for the pump and not for the drain (`InferenceSession.cs:101`), so callbacks may come after it has returned; `BoundaryService.swift:102` says it blocks on the drain |
| `EndReleasesSession` | a job cancelled during `nativeSessionStart` leaves its session running (`FfiClient.kt:51`) |
| `FlowEnds` | the flow of a faulted session waits until it is cancelled (`FfiClient.kt:65`, `Exports.Ffi.cs:256`) |
| `RunningIsOwned` | a session started during a shutdown stays registered, but its id may be cleared from the list, and no later shutdown finds it (`Lifecycle.cs:51`) |
| `TranscriptMatchesStatus` | of a row marked 'error' nothing is said but that no row follows the final one: a failing update to 'done' marks a complete transcript 'error' (`SqliteBroker.cs:156`) |
| `PendingIsServed` | a loop that died of a failing statement serves nothing, while the broker counts as running (`SqliteBroker.cs:137`) |
| `ClaimedOnce` | a start that overlaps with a stop runs two loops, and the claim is two statements (`SqliteBroker.cs:108`, `:137`, `Exports.Sqlite.cs:69-80`) |
| `PiecesAccounted` | a piece that meets a full channel is dropped without a trace (`LlamaLanguageModel.cs:88`) |
| `CompletedIsDrained` | a call cancelled before its task runs leaves its key in `Writers` (`LlamaLanguageModel.cs:42-55`); and a stream completes normally whatever `dni_llama_generate` returned |
| `GenerationIsolated` | overlapping generations, for instance after a cancel, share one context (`dni_llama.cpp:37`) |
| `OutcomeMatchesWire`, `TurnsResolve` | on Android the job of a cancelled turn marks the last slot as Error, which may be that of the next turn, and its own slot may keep its spinner (`AgentViewModel.kt:80-91`); iOS guards against both |
| `TargetIsWhole`, `RemovedOnlyForCopy` | two downloads at once, possible when the view model is cleared during a read, can install a file with a hole and remove a model without a successor (`GgufDownloader.kt:143`, `:186`); a file replaced on the server between two attempts is mixed with the old one |
| `DownloadCompletes` | a cancel, a failed rename or a kill after the last byte leaves a complete `.part` file, and every later attempt is refused with 416 (`GgufDownloader.kt:121-132`) |
| `PortIsLive` | a switch cancelled between the stop and the fields keeps the port of a server that is down (`PbTransport.kt:44-50`, `:86`) |

### Disagreements with the repository's text

Three runs each check one statement of the repository and violate it:

- `no_generation_on_freed_handle`: shutdown frees the llama handle under a running
  generation, where `EngineHost.cs:68` says "so no in-flight generation is still
  holding the handle".
- `stream_waits_for_room`: the stream of a finished SQLite request need not end.
  `BrokerDatabase.kt:84` says "Room re-emits on every write to the row" and `:97`
  "re-emits whenever the table changes"; Room follows the writes of its own
  instance, the database is built without multi-instance invalidation (`:134`),
  and all the rows come through the broker's connection.
- `completes_without_final`: a fault of a session ends a protobuf stream without a
  final token and without an error. `InferenceClient.kt:23` says "The final
  [Token] always has [Token.isFinal] == true", and `PbFrameServer.cs:23` and
  `:190` "never a silent close"; the exception leaves `StreamRagAsync` (`:374`),
  the outer catch closes the socket (`:200-203`), and the client takes the end of
  the connection for the end of the answer (`PbInferenceClient.kt:28`).

The models also show the following, where a comment says otherwise and a passing
property names the exception:

- `ConversationSession.cs:14-16` says that Append is called "once at the END,
  whatever the turn's outcome"; a turn that is cancelled appends nothing
  (`ForemanAgent.cs:59-104`), and `ConversationMirrorsTurns` says so.
- `GgufDownloader.kt:42` says of a cancelled download that a later call "resumes
  instead of restarting"; when the last byte had arrived, every later call is
  refused with 416 (`DownloadCompletes`).
- `InferenceSession.cs:6-7` promises "backpressure, never a dropped token". It
  holds from the orchestrator on (`NothingDropped`); one stage before, a piece
  that meets a full channel is gone (`LlamaLanguageModel.cs:88`,
  `PiecesAccounted`).
- `SqliteClient.kt:100-102` expects a send into the channel the status observer
  closed to throw `ClosedSendChannelException`. A channel closed with a cause
  throws the cause, which nobody catches: the scope fails with it, and buffered
  tokens are not drained first as `:120-122` says. The stream ends with the same
  error either way.

The models also allow the following, which no property names:

- a cancelled drain ends without the warning `dni.h:176` announces;
- the Foreman agent keeps the brain it was first built with, over every shutdown: a
  model downloaded later does not reach it, and the engine's and the agent's copy
  of one file may be loaded at once (`ForemanHost.cs:37-51`, `:124`);
- a final token that meets a full Kotlin buffer is dropped and the flow completes
  without it, and a slow collector gets an error instead of slowing the engine
  (`FfiClient.kt:29-41`);
- a stop leaves its row 'running', and a row that was 'running' at a stop or a
  kill is never picked up again (`SqliteBroker.cs:19`, `Exports.Sqlite.cs:60`);
- a loop that died keeps its connection over a stop, and its client waits for ever;
- the request of a cancelled SQLite stream is still run;
- a connection opened for a stream that is cancelled meanwhile is never closed by
  the client (`PbTransport.kt:70-75`);
- `PbTransport.kt:12-13` says that a start ignores later flags, where
  `PbFrameServer.cs:60` refuses them.

They are consequences of the actions as they stand, seen with TLC or by reading
while the modules were written.

## 4. Fairness

- The pump and the drain are thread-pool tasks: weak fairness on each, on what
  they do next and not on how it turns out, so no fault is forced. The callback
  is the host's code, so its return is not part of `FairSpec`: `FreeReturns` holds
  without it, and the liveness of the token stream is stated under
  `CallbacksReturn`. The Android client's callback never blocks, so there its
  return is fair.
- `dni_session_free` waits for the pump: weak fairness on its return.
- Calls in `FfiLifecycle` compete for a lock: strong fairness, since a .NET
  monitor does not starve a waiter for ever while others come and go.
- Poll loops go on, and so does a stop once begun. A failing statement is never
  forced, nor is a start, a request, a cancel or a kill.
- Coroutines run when they can. There is no fairness for the queries of Room's
  observers: Room tracks changes through its own connection, and the broker writes
  through another. What the client takes Room to do is `RoomNotifies`, the premise
  of `NotifiedStreamEnds`.
- The native decode loop goes on, and so does whoever enumerates the pieces. The
  end of the text and a failing decode are not counted on: `GenerationEnds` rests
  on `max_tokens` and on the context's length.
- Handlers, callers, the stream and a switch of `PbChannel` each go on when they
  can: TCP delivers what was sent, or the connection is dropped. No drop, stop,
  fault or cancel is forced.
- The task of a turn and its job go on. Brain, tools and answer streams end by
  themselves; the user need not do anything for `TurnsResolve`.
- The download thread goes on, and the user tries again: `DownloadCompletes` is
  about a user who does.

## 5. Proofs

The proofs hold for every value of the constants, from the assumptions named in
the modules: capacities and sizes are positive naturals, bounds are naturals, and
markers such as "free", "null" or the hole are not members of the sets of threads,
handles or versions.

- `FfiClientProofs`, the session: `TypeCorrect`, `DeliveredInOrder`,
  `NoTokenIsDropped`, `StreamEndsHonestly`, `RefinesTokenStream`. `InOrder`
  speaks of delivered tokens only and is not inductive: the next token comes out
  of the channel. `IInv` numbers the whole pipeline from the callback back to
  the pump (`Numbered`), puts the final marker at its end (`FinalIsLast`),
  relates the orchestrator's counter to the number of tokens sent (`Counted`)
  and ties each task's position to what it holds (`Phases`).
  `RefinesTokenStream` is the safety part of the refinement; TLC checks the rest.
- `FfiClientProofs`, the client: `CallbackNeverDangles`, `ClientTypeCorrect`,
  `CompletedFlowIsWhole`, `EndingReleasesSession`, `FlowRefinesTokenStream`.
  Every client step is a step of the session or leaves it alone, so the session's
  `IInv` carries over; the record is freed only when the session was refused or
  the final token delivered (`FreedAtEnd`), and `FinalIsLast` leaves no callback
  after that. `FlowInv` adds where the tokens are on the Kotlin side: unless a
  JVM call failed, what was emitted followed by the buffer is all that was
  delivered while the buffer is open, and lacks at most the final token once it
  was closed behind that (`InStep`, `Received`). The flow's refinement of the
  token stream follows from it.
- `EngineTraceProofs`: `TypeCorrect`, `DrainDisclosesDrops`, `SpansAccounted`,
  `MetricsAgree`. The invariant says that the window holds the most recent spans
  in order wherever it starts in the array (`WindowOrdered`), and that a thread
  between eviction and insertion has the lock and one free slot (`GateHeld`). The
  lemmas on `%` say that slots do not collide. `MetricsAgree` counts the threads
  between the aggregator's and the ring's update: each step puts one thread into
  such a set, takes one out or leaves the set alone.
- `FfiLifecycleProofs`: `TypeCorrect`, `HandlesFreedOnce`, `PublishedModelLive`,
  `NoPumpIsOrphaned`. The lock is held exactly between the two halves of Reset
  (`ResetHoldsGate`), a published model is retained (`PublishedIsRetained`), and a
  handle is not loaded, retained, the agent's or freed once (`HandleLife`); what the
  agent loads is new, so the retained handle and the agent's are never the same. For
  the owners, a start call on its way to the registry has its session in hand
  (`StartHolds`).
- `SqliteBrokerProofs`: `TranscriptIsHonest`, `ClaimsInOrder`, `ProcessedOnce`,
  and of the client `CompletedStreamIsWhole`. A status says nothing of the loop
  that is about to change it: `ClaimHolds` says what a loop at work knows of the
  rows of its request, also when two loops have the same one. For the order, what
  a loop has selected has nothing pending before it (`SelectedOldest`). For the
  claim, a loop that runs is the broker's or one that is being stopped, never
  both, unless calls overlapped (`OneBroker`). Every step of the client is a
  step of the broker's module or leaves it alone (`ClientRunsBroker`). The broker
  goes on writing while the observer reads, so `ClientInv` needs that rows are
  only added, and none behind a final row (`RowsKept`).
- `LlamaGenerationProofs`: `TypeCorrect`, `Isolation`, `Drained`, `Accounting`.
  `IsolationInv` says that a call that decodes and has not overlapped is the only
  one that does, and that the context holds its prompt and its tokens and nothing
  else; the sample taken next is then its own. `DrainInv` ties the closed channel
  to the end of the task. `PiecesAccounted` is inductive with `TypeOK`; the lemmas
  say what a read and a write do to the sequence of all pieces.
- `GgufDownloadProofs`: `TypeCorrect`, `InstalledIsWhole`, `RemovalIsSafe`.
  `DownloadInv` says, as long as no downloads overlap, that at most one is at work
  (`Alone`), that the `.part` file is a prefix of what is served unless that
  changed (`PartFits`), and that a download writes at the end of that file and
  verifies it only when it has all blocks (`Prepared`).
- `PbChannelProofs`: `PostureIsHonest`, `PortStaysLive`, `ChannelAlwaysHolds`,
  `AnswersAlwaysMatch`. `ServerInv` says that a
  handshake under way is with an instance in PQ mode, although the handler reads
  the mode from a static field that the next server may have changed: its token is
  cancelled then. `PortInv` says that whoever is in the middle of a use of the
  transport holds the mutex, and that its handshake is with the server of the
  cached port. The last two are about frames, and a frame is sent in one state
  and read in another: `ChannelInv` describes both queues of every connection.
  Ciphers are attached in the order client, server (`CiphersInOrder`), before its
  reply a client sends nothing (`QuietBefore`), and every frame on its way is one
  its reader will accept (`RequestFits`, `AnswerFits`). `RequestInv` counts: the
  request of a waiting caller is either still to be read, and was executed at most
  in the attempt that was lost, or its response is the only frame to the client.
- `ForemanViewModelProofs`: `TypeCorrect`, `ConversationIsTheTurns`,
  `SlotsShowTheirTurns`, `ErrorsAreTheEngines`. `TurnInv` says what a turn has
  streamed in each phase (`Worded`) and which jobs exist. For the conversation a
  history of the turns in the order they ended (`ended`) is kept: the memory is the
  last `MaxTurns` of it, one append moves that window by one (`FinishWindow`), and a
  recorded turn never changes what it streamed (`MemoryStays`).
  `ViewInv` is needed because every job writes to the last slot, its own or not:
  the job of a turn that is not the last was cancelled or has ended (`JobInv`), so
  a slot gets the text of its own job only (`ShowsPrefix`, `ShowsReceived`), and
  an outcome that claims an answer comes with all of it (`ClaimHolds`). The Error
  of a cancelled job on Android may land in any later slot, so `ErrorIsSent`
  speaks of turns before which none was cancelled (`Undisturbed`).

Every invariant and action property of the passing runs is proved, and so is the
safety part of both refinements. Only model-checked is what holds eventually:
`FreeReturns`, `CallsReturn` of the life cycle and of `PbChannel`,
`GenerationEnds`, `FlowEnds`, `PendingIsServed`, `StopReturns`,
`NotifiedStreamEnds`, `TurnsResolve`, `DownloadCompletes` and the liveness part of
`ImplementsTokenStream`. Liveness under fairness needs ENABLED, which is out of the
prover's reach.

## 6. Not modelled

- Log ring: the span ring in small, with one lock around append and drain.
- Raw HTTP: its accept loop and its life are those of `PbChannel`'s server without
  a handshake, and its stream is the drain of `InferenceSession`. The head of a
  request is text.
- SQLCipher tables: each call opens, rebuilds and reads its table in one thread.
- iOS clients of the direct calls: the streams repeat the agent service in
  `ForemanViewModel`. The life of the retained box, which is released after
  `dni_session_free` although that does not wait for the drain, is a hazard no
  property covers.
- In `PbChannel`: key agreement, signatures, AES-GCM and its counters are an
  encrypted flag; damaged frames, unknown requests and iOS's client are left out.
- In `GgufDownload`: the SHA-256 check, which the app does not configure.
- In `ForemanTurn`: prompts, grammar, clamping of texts and routing; in
  `ForemanViewModel`: the tool strip.
- Argument checks of the exports and JNI wrappers that only pass arguments on.
- Feature catalog, labs and rendering (sequential and deterministic), embeddings
  and ranking (floating point), cryptographic primitives (external), screens, the
  Kestrel and gRPC hosts (excluded from the native build), build-time tools and
  spikes.

Of the repository's C and C++ most lines are the vendored headers of ONNX Runtime,
which declare an interface and contain nothing to model. Of the project's own,
`jni_bridge.c` is modelled in its streaming part and `dni_llama.cpp` in full.
