# TLA+ verification of truellm-engine

truellm-engine is an LLM inference server in C++: an HTTP front end (OpenAI, Anthropic and native
routes), a policy layer, a plugin host with sidecar processes, and two inference back ends (llama.cpp
behind a continuous-batching scheduler, and a hand-written CUDA engine). This directory holds TLA+
models of the parts where state, threads and failures meet, the TLC configurations that check them on
small instances, and TLAPS proofs of the most important results for every value of the constants.

Paths below are relative to `src/src/` unless they start with `docs/`. `PROJECT.json` gives, for every
definition that models code, the lines it models.

## 1. The system

### 1.1 Components

| Component | State it keeps | Operations | What makes it correct |
|---|---|---|---|
| **ContinuousBatchScheduler** `inference/scheduler/` | `queue_` under `queue_mu_`, `slots_`, the llama context's KV cells per sequence, the batch, `running_` | `submit`, worker loop (`try_admit_pending`, build batch, chunked `llama_decode`, sample), `complete_slot`, destructor | each accepted request is answered once; an answer depends only on its own tokens; capacity is respected; shutdown answers everyone |
| **CudaAllocator** `inference/backends/cuda/cuda_allocator.*` | `free_list_`, `block_ref_counts_`, `block_tables_`, `evicted_seqs_`, two staging buffers on the device | `allocate_sequence`, `extend_sequence`, `free_sequence`, `copy_sequence`, `evict_sequence`, `reload_sequence`, `get_device_block_table`, `get_device_slot_mapping` | a block in use is never on the free list; counts cover the users; a table repeats no block |
| **CudaEngine** `inference/backends/cuda/cuda_engine.*` | device buffers shared by all calls, `active_sessions_` | `generate` (paged and megakernel path), `inject_tokens`, `load`/`unload`, statistics | a call samples from its own logits, reads its own K/V, always ends, and gives its blocks back unless a CUDA error ends it (those blocks are lost: see 5) |
| CudaModel, CudaStreamManager, MultiGpu, compression passes | weights, streams, NCCL communicator | load, launch, score | numeric; they keep no shared control state |
| **GgmlEngine** `inference/backends/cpu/` | one llama context and model, the scheduler if enabled | `load`, `unload`, `generate` (scheduler path or direct) | one inference at a time on the context |
| Engine factory, GPU detection | none | choice of back end | start-up only |
| **PluginBridge** `plugin_bridge/plugin_bridge.cpp` | `sidecar_sessions_` (a vector whose elements move), `loaded_plugins_`, registries, restart threads, statistics | `init`, `start_sidecar`, `on_sidecar_announce`, `on_sidecar_exit`, `restart_sidecar`, the destructor; `call_engine`, `call_tool`, `set_context_metadata`, generator dispatch | one sidecar per directory; what is on offer has an owner and a record; nothing is left after shutdown; plugin calls keep a request's scope and are counted |
| **IpcClient / IpcTransport** `plugin_bridge/ipc/` | `pending_` (correlation id to promise), the connection, a receiving thread | `call_tool`, `run_preprocessor`, `abort_call`, `on_message`, `send`, `recv_loop`, `listen_and_accept`, `close` | each caller gets the reply to its own call, or a failure in bounded time |
| **HealthMonitor, SidecarLauncher** | the child's pid, a heartbeat thread and a thread that waits for the child | heartbeat loop, `launch`, `stop`, `waitpid` | a hung sidecar is stopped; an exit leads to one restart at most |
| **ToolRegistry, PreprocessorChain, GeneratorRegistry** `plugin_bridge/hooks/` | lists of providers, a cached list of schemas | register, unregister, dispatch, run, claim | the model is offered what can be called; a call runs the tool its name stands for |
| **NativeLoader** | handles of shared libraries | load, unload | a library is open while a tool of it is on offer |
| **RateLimiter** `policy/` | a token bucket per client | `try_acquire`, `reset`, `evict_stale` | no client exceeds rate and burst in any window |
| GuardrailPolicy `policy/` | none | `check_request`, `clamp` | nothing in the server calls it |
| **HttpServer, OpenAIRouter, AnthropicRouter, NativeRouter** `server/` | none beyond a request, except counters of outcomes | pre-routing, chat and completion handlers, tool loop, streaming, debug dispatch | order of checks; a bounded tool loop whose answer has seen the results; what is sent is what the conversation says; outcomes are counted once |
| Application, configuration, profiles, secrets `host/` | the configuration | load order, init order, shutdown | precedence defaults, profile, file, command line |

### 1.2 How they interact

An HTTP thread runs the pre-routing checks (rate limit, authentication), a router builds a prompt and
calls `EngineInterface::generate()`. With the llama back end and the scheduler the HTTP thread puts a
request in `queue_` and blocks on a future that the one worker thread sets. With the CUDA back end the
HTTP thread itself runs the forward passes. A plugin may add tokens to a running session
(`inject_tokens`) from its own thread. Tools are dispatched through the registry either to a native
plugin (a function call) or to a sidecar (a message over a socket and a promise that the receiving
thread sets). A sidecar is watched by two threads: the launcher's `waitpid` and the health monitor's
heartbeat; when it ends, a detached thread starts it again after a backoff. Sidecars announce tools at
any time, so the registry changes under running requests, and a plugin that a request calls may call
back into the engine, the preprocessors and the tools for that request.

### 1.3 Where it is hard

* **Addresses that move**: callbacks and restart threads keep pointers into a vector of sessions that
  grows and shrinks.
* **Interleaving**: callers of `submit` against the worker; CUDA calls against each other on shared
  device buffers; an injection against the call it names; two senders on one socket; dispatch against
  removal of a tool.
* **Failure in the middle**: `llama_decode` fails on a later chunk of a batch; the block pool runs out
  in an answer; a CUDA error is thrown past the clean-up; a sidecar dies with calls pending or before it
  connects.
* **State remembered for later**: warm slots and their cached tokens; reference-counted blocks; late
  replies; pointers into vectors that grow.
* **Ordering and limits**: queue limit, chunk limit, batch buffer, staging buffers, tool rounds,
  rate-limit refill.

`PROJECT.json` lists every hazard at its line with the properties that cover it, or why none does yet.

## 2. Modules

| Module | What it is |
|---|---|
| `GenerateService` | abstract specification: a bounded FIFO service that answers each request once |
| `BatchScheduler` | ContinuousBatchScheduler; implements `GenerateService` |
| `MCBatchScheduler` | instances for TLC, four configurations |
| `BatchScheduler_proofs` | type correctness, KV cells, ownership |
| `CudaAllocator` | the block pool, for callers in any order |
| `MCCudaAllocator` | instance for TLC with bounds |
| `CudaAllocator_proofs` | the pool's four invariants |
| `CudaEngine` | `generate()` and `inject_tokens` over the pool (EXTENDS `CudaAllocator`) |
| `MCCudaEngine` | instances for TLC, three configurations |
| `CudaEngine_proofs` | the engine implements the allocator's specification; who holds a block, and what loses one |
| `RemoteCalls` | abstract specification: at-most-once remote calls whose answers are their own |
| `IpcClient` | IpcClient over IpcTransport and an external sidecar; implements `RemoteCalls` |
| `MCIpcClient` | instances for TLC, two configurations |
| `IpcClient_proofs` | promises, and the implementation of `RemoteCalls` |
| `RateLimiter` | the token buckets on a discrete clock |
| `RateLimiter_proofs` | the bound on every window of time |
| `ToolRegistry` | native and remote tools, cached schemas, resolution of names |
| `ToolRegistry_proofs` | what removals leave and look-ups find |
| `RequestPath` | requests from the socket to the answer, over limiter and registry (EXTENDS both) |
| `MCRequestPath` | instance for TLC: pairs of requests |
| `RequestPath_proofs` | types and its eight other safety properties |
| `SidecarLifecycle` | plugins and sidecar sessions from init to the destructor (EXTENDS `ToolRegistry`) |
| `MCSidecarLifecycle` | instance for TLC |
| `SidecarLifecycle_proofs` | types and the four safety properties |

### 2.1 BatchScheduler

*State.* `queue` is `queue_`; `reply[r]` is what the promise of request r was set to; `slots` is
`slots_`, one record per `Slot` whose fields keep the meaning of the code's (`seq` is `seq_id`, `cached`
is `cached_tokens`, `pending` is `pending_prompt`, ...); `kv[s]` is what the llama context holds for
sequence s, a set of <<position, token>>; `batch`, `chunkStart`, `nBatch`, `cursor` are the worker's
locals; `pc` its place in `run()`; `clock` stands for the microsecond clock that stamps warm slots.

*Steps.* `submit` is one step (it holds `queue_mu_` throughout). `try_admit_pending` runs under
`queue_mu_`, so callers are kept out while `pc = "admit"`, but each admitted request is a step of its
own. Building the batch takes one step per slot, decoding one per chunk, sampling one per slot, and so
do the loops at shutdown: a caller may submit between any two of them. `Complete` is `complete_slot`.

*External.* `llama_decode` may succeed when the cells fit, ask for a smaller chunk, or fail, at every
call. `llama_memory_seq_rm` removes cells. What the sampler returns is any token, the end-of-generation
token included, and whether a stop string ends the answer is free.

*Left out.* Text, sampler settings, timings, the streaming callback. `llama_n_ctx` bounds the cells of
all sequences together.

*Ownership rule.* `submit` does not look at `running_`. The engine destroys the scheduler when no
caller is left, so `submit` is guarded by `running` in the model.

### 2.2 CudaAllocator

One method is one step, because each holds `mu_` throughout. `Pop` and `Push` are n calls of
`alloc_block_locked` and `free_block_locked`. `reload_sequence` keeps the blocks it took when it runs
out half-way, and so does `Reload`. `copy_sequence` onto a live id forgets that id's blocks; the model
does the same. `Push` leaves open in which order the blocks given back lie on the stack (the code fixes
one); the invariants therefore hold for more orders than the code can produce.

### 2.3 CudaEngine

Each call of `generate()` has its own thread; `pc[c]` is where it is. The device state that the calls
share is explicit: the two staging buffers (`smBuf`, `btBuf`), `seqLen`, the activations (`residual`),
the megakernel's input and argmax buffers, `logits`, and the pool (`kv`: which token's K and V a slot
holds). A step is one access to that state. A token is named <<call, position>>; an `Output` says which
token activations were computed from and whether attention read exactly that token's history. Paged
attention goes through the block table buffer, the megakernel addresses the pool by position.
`Throw` is `CUDA_CHECK` throwing out of the forward pass: the session guard runs, `free_sequence` does
not, and the blocks in the table of the call (`pc` is `"thrown"`) stay there for good. `disturbed` is a history variable: the calls that another inference ran alongside; it only
occurs in one property.

A request id is used for the sequence and for the session, so one member of `Seqs` names both. The
scoring pass may drop any number of prompt tokens (`kept`). Which path a call takes is `megakernel`,
fixed at start-up. At most `MaxInject` calls are named by an injection.

### 2.4 IpcClient

`pending` holds the keys of `pending_`; `promise[c]` is the message that the future of call c holds;
`pc[c]` is where its thread is in `call_tool` (heartbeats are tool calls of another type, and
`run_preprocessor` runs the same steps); `answer[c]` is what it returned. `send` is two steps, one per write, because no
lock covers both. `takes` and `said` are histories: how often the sidecar has read a call, and the messages it sent for
it. The end of a wait and the removal of its entry are two steps as well: a reply may come
in between. `Receive` is one turn of `recv_loop` with `on_message`; `ReceiveEnd` is its end when the
sidecar has closed.

The sidecar and the socket are external. The socket holds `SockCap` writes and then blocks. The sidecar
reads a whole frame at a time, answers calls in any order, may report on a call before it answers, may
send messages that do not parse, that announce plugins or whose length is invalid, hangs and goes on, or dies.
A message that is JSON and no object, or whose `type` or `cid` has another type, is `"mistyped"`: `json::value` throws in the
receiving thread, which nothing catches, and the server ends (`recvPc` is `"thrown"`, no thread goes on).
If it reads a header that is not followed by its own payload it has lost the framing for good.

Left out: `listen_and_accept` and `close`, which belong to the life of a session and are in
`SidecarLifecycle`, and the named pipes of Windows. Correlation ids come from an atomic counter and are taken as unique.

### 2.5 RateLimiter and ToolRegistry

Both hold one lock throughout every operation, so an operation is a step. A bucket counts in what it
earns per tick of the clock; `granted` is a history of the times at which a client was let in. The
server calls `try_acquire` only: `reset` and `evict_stale` are in `LimiterNext`, not in `RequestPath`.

`entries` and `remote` are `entries_` and `remote_entries_`, in order; `schemas` is `schemas_cache_`.
A name is a pair of plugin and tool, or of `Short` and tool. `Index` is the search of `dispatch`: a full name
before a short one, native before remote, the first registered first. `dispatch` calls outside the
lock; the composing modules take the look-up and the call as separate steps.

### 2.6 RequestPath

*State.* `shape[r]` is what the client of request r sent; `rq[r]` its handler: `at` is where the handler
is, `ctx` the request context: who holds it and three keys of its metadata, `agent.allowed_tools`, the mode and
`research.subcall_count`, which start as the client's metadata has them; `made` and `written` are histories (engine calls of
plugins that generated; whether anybody wrote the counter). `conv` is the conversation (which schemas its system message
offers, which directive it carries, how many small and big tool results follow, whether a notice stands for one), `prompt` what was rendered from it last, `loop` the tool loop's
round, its last calls, whether the last inference succeeded, how many results tools gave (`given`, a history) and how many tool
messages were in the last prompt (`shown`). `stack` holds a frame for each plugin or
engine call that is open for r: a preprocessor, a generator, a `call_engine`, a native tool, a remote one.
`totals` are the outcome counters.

*Steps.* Each request has a thread, and a step is what it does up to its next call into the engine, a
plugin or a shared structure: rate limit, key check, parse, each preprocessor, injection, each claim of a
generator, each inference, each dispatch, the reversal of the injection, the splitter and the last notice, the
answer. Streams run after their handler has returned, as the server library calls the content provider
later, or never, when the client is gone or the server stops (`Hangup`). A plugin's `set_context_metadata` may write any of the
three keys (`SetMetadata`). An exception that leaves a handler is a 500 after which the recorder runs: for fields of the wrong
type in the body (`Parse`), a `tool_choice` object with such fields (`Inject`), calls in a text that cannot be read
(`ParseToolCalls`) or that are no objects (`Tool`). Sidecars announce and withdraw tools between any two steps, and time passes.

*External.* The engine fails, or returns a text with any of the calls in `Called`. A plugin passes, answers,
fails, claims or not, writes metadata, and calls back into the engine or a tool; `MaxHost` bounds the
calls back for one request and `MaxRemote` the remote tools registered at a time. `get_token_budget()`
may differ between two reads, as other requests hold cells or blocks.

*Abstractions.* Texts, JSON, sampling parameters and the usage numbers of the engine are left out, and so are exceptions that a message
of the client causes where `EndRound` looks through the conversation, and the overflow of the counter; a prompt is
compared by what it was rendered from, and its length by `SchemaSize` and `BigSize`. An Anthropic
request is an OpenAI one after its translation (`HasClientTools`, `Streams`, `Choice`, `Delegates`).

### 2.7 SidecarLifecycle

*State.* `vec` is `sidecar_sessions_`; `buf` names the memory it is in and `cap` its capacity, which
doubles. `ptr[n]` is the address that the callbacks and the restart thread of session n captured. `Deref(n)` is what
is found there now: session n, another session that took its place after a failed start, or `Lost` (the
buffer was given up, or the index is past the end). `sess` has the members of a session,
`child` the processes, `waiting` the threads that wait for them, `conn` and `peer` both ends of
connections, `recv` the receive threads (`"half"`: tool registered, record not yet added), `thread` where
the main thread and the restart threads are, `bound` the session whose socket the path of a runtime names,
`shut` the destructor's loop. The clients of remote tools (`Vias`) are the sessions they belong to.

*Steps.* `LoadOne` and `InitDir` are `init`. `Make` (`emplace_back`), `Spawn` (`launch`), `Listen`, `Accept` and `Wire` are
`start_sidecar`; it is left early by `StartFails`, when the spawn or a call on the socket fails, which pops the last element of
the vector, whoever's that is.
`Announce` and `Push` are `on_sidecar_announce`. `Unhealthy` is the heartbeat's verdict, `Exit` the end of the waiting
thread with `on_sidecar_exit`; `Stopped` lets `stop()` or the waiting thread have the status of a
process. `ResetClient`, `ResetLauncher`, `ResetTransport` and `Sweep` are `restart_sidecar`, which goes on
with `start_sidecar`. `Shutdown`, `ShutOne`, `ShutClear` and `ShutPlugins` are the destructor; its loop keeps the buffer and the
end of the vector that it began with (`shut`).

*Undefined behaviour.* A use of memory or objects that are gone, with which the program may not go on,
leads to `proc = "undefined"`, where the model ends: a husk that is used (`HuskUsed`), a client that is destroyed under its receive
thread (`ClientUsed`), a session that moved under its own start (`Undone`, `AcceptUndone`), a vector that changed under the
destructor's loop (`LoopMoved`), two threads in the vector at once, which no lock keeps apart (`VectorRace`: two that are about to make a
session, or one and the destructor), and a restart that outlives the bridge (`Outlived`). The program may also
go on, where the outcome is one of a few: a callback that meets a husk
may find any count, and the string of a destroyed session may still be there.

*External.* A sidecar connects to whatever socket its runtime's path names, announces one plugin with one tool, and
exits or crashes at any time. The runtime its announcement names is taken to be its own. Backoff times are
not modelled: a restart may be early or late. A missed heartbeat is one fault, as the code keeps no count of misses.

## 3. Runs

| Run | Bounds | Question |
|---|---|---|
| `sched_plain` | 3 requests, 2 slots, queue of 1, context of 5, chunks of 3, 2 new tokens | ownership, KV cells, complete history, the abstract service and liveness, without sessions |
| `sched_sessions` | 3 requests, two of them turns of one session, 2 slots, context of 8 | prefix reuse, trimming, eviction of warm slots; is the history complete where nothing was reused? |
| `sched_holes` (violation) | the same | is a reused cache complete? No: see 5 |
| `sched_batch_buffer` (violation) | 2 prompts of 3 tokens, context of 5 | does the batch fit its buffer? No: see 5 |
| `cuda_alloc` | 3 sequences (symmetric), 3 blocks of 2 tokens, prompts up to 4 tokens | every order of allocator calls |
| `cuda_calls` | 2 calls, 3 blocks of 2 tokens, 1 injection | interleavings of two calls and an injection, on either path |
| `cuda_concurrent` (violation) | 2 calls, no injection | are two inferences kept apart? No: see 5 |
| `cuda_staging` (violation) | 1 call, 4 blocks, buffer of 2 entries | does a block table fit its staging buffer? No: see 5 |
| `ipc_calls` | 2 calls, 1 abort, socket of 3 writes, 2 messages on their way back | pairing of replies, promises, liveness |
| `ipc_frames` (violation) | 2 calls, socket of 4 writes | are frames written whole? No: see 5 |
| `request_path` | 2 requests, 1 native and up to 1 remote tool, 2 preprocessors, 1 generator, 1 round, 1 call back per request | one of 15 demanding requests beside a status request, one of 7 short ones beside a debug dispatch, and a stream beside an Anthropic request with tools |
| `sidecar_lifecycle` | a directory with a library and two with sidecars of one runtime, 3 sessions, 1 fault, `max_restart_attempts` 2 | starts, announcements, exits, restarts and shutdown in any order |

**Why the bounds are enough.** *Scheduler.* Two slots are the least number with a batch shared by two
requests, a busy slot next to a warm one, and an eviction. Three requests fill both slots and leave one
waiting; with a queue of one, `submit` is also refused. Prompts of 1, 3 and 5 tokens against chunks of
3 give a batch that is split between slots and within a prompt, a retry at half size down to one token,
and a prompt that can never be admitted. In the session runs the second prompt extends the first; the
reuse threshold `MinReuse` (64 in the code) is 2, so that a cached prefix may be long enough or too short, and
the two turns may overlap, in which case the session has two warm slots. *Allocator.* Three sequences
and three blocks give sharing by two and by three, an eviction of a shared block, and a reload that runs
out half-way. `MaxTokens` bounds prompts to two blocks and `MaxRefs` the count of a block, which copies
onto a live id could raise without end. *Engine.* With three blocks of two tokens two calls cannot both
have all they want: one crosses a boundary in its prompt, the other in its answer, and an injection
crosses one between them. *IPC.* Two calls may swap answers and mix frames; the abort is a third sender that
nobody waits for. A socket of three writes blocks in the middle of a frame. Two messages on their way back
are a report and an answer of one call, or late answers to both; `MaxBack` bounds them. *Requests.* Requests meet only in the limiter, the
registry and the counters: two of them, with one client, give every order of those meetings, and the
demanding one reaches every branch of a handler. With `MaxRounds` 1 the loop goes on, ends by itself and ends by its limit.
`Called` has a text without calls, one with a short name that two plugins may share, and one with a qualified and a short
name, so that a call may fail, be refused and change what a later one in the round finds. A context of 6
against schemas of 1 and results of 3 fits a small result and not a big one after a long
prompt, and a budget of 0 or 5 switches the splitter off or on. *Sidecars.* Two sidecars of one runtime share the socket
path and the sweep; three sessions are two starts and one restart, which reallocates the vector twice. One
fault is a crash, a missed heartbeat, or a failed spawn or start, at any point. Of larger
instances (3 sessions with 2 faults, 4 sessions with 1) the safety properties were checked and hold; with liveness they
take longer than a run may. Only the branch of `StartFails` in which `bind` meets a path in use needs 4 sessions.

**Deadlock** is not checked in `cuda_alloc`, `request_path` and `sidecar_lifecycle`. In `cuda_alloc`: `copy_sequence` onto a live id loses that id's
blocks, so a pool may end with nothing to give and no call that can succeed; an allocator with nothing to do
is not an error. In `request_path` the server rests when its requests are answered, the clock has
stopped and no announcement is left within the bounds; `Answered` says that it does not rest before. In
`sidecar_lifecycle` the program ends after the destructor or in undefined behaviour, and its main
thread may wait for a connection for ever, which is what `StartEnds` is about. In the other specifications the states in which the system rests are explicit
(`Terminated`, `Quiet`).

**Fairness.** `BatchScheduler!FairSpec` assumes WF of the worker as a whole: one thread, which the
operating system schedules. When it has nothing to do it goes round from `"top"` to `"admit"` (the
condition variable's wait and wake-up). Nothing is assumed of callers, of `llama_decode` or of the owner that shuts down;
answers end because `max_tokens` bounds them, and failures end because the chunk limit halves.
`CudaEngine!FairSpec` assumes WF of each call's thread once it is in `generate()`. Nothing is assumed
of injections. `IpcClient!FairSpec` assumes WF of each call's thread (a timed wait ends by itself) and of the
receiving thread, and nothing of the sidecar. `RequestPath!Spec` assumes WF of each request's thread: the engine
and plugins return (bounds of generated tokens, time limits of remote calls); nothing is assumed of sidecars that
announce or of the clock. `SidecarLifecycle!Spec` assumes WF of the main thread while it starts a sidecar, of each restart thread, of a
receive thread in the middle of an announcement (no step of it blocks) and of a running sidecar's connection, as
it calls `connect` first of all; nothing is assumed of exits, of a heartbeat, of `Exit` or of the destructor.

## 4. Properties

*Scheduler.* `OneOwner`: a request whose promise is not set is in the queue or in one busy slot, once; one
whose promise is set is in neither (a second `set_value` would throw in the worker). `KVMatchesTokens`: each KV
cell holds the token that its slot remembers at that position. `SamplesSeeHistory`: when a token is sampled, every
position of the history has a cell. `FreshSeesHistory` is what sessions leave of that: the
history is complete for a request that reused nothing. `ImplementsService`: refinement of `GenerateService`: FIFO
admission, at most `MaxSeqs` in progress, a reply that never changes, `Unavailable` only when the queue
is full or the service stops. `EveryRequestAnswered`: liveness.

*Allocator.* `UsedBlocksCounted`, `FreeListExact`, `TablesInjective`.

*Engine.* `BlocksConserved`: a block is on the free list, in the table of one running call, or lost in the table of one
call that a CUDA error ended; nothing else loses one. `ReturnsClean`: a call that returned, rather than threw, has no session and no
block. `SlotInTable`, `EveryCallEnds` (which counts a throw as an end), and
`AloneSamplesOwnOutput`: a call that no other inference ran alongside samples from its own last token
with exactly its own history, whatever stale blocks, buffers and tables earlier calls left behind.

*IPC.* `PendingExact`: `pending_` holds exactly the unset promises of calls that have not returned.
`PromiseSetOnce`. `ImplementsRemoteCalls`: the sidecar takes a call at most once (`takes` counts), a call ends once, and
what it returns is a message that the sidecar sent for that very call (`said`). `EndsIfRead`: every call returns
provided that the socket is read now and then or the sidecar is gone, unless a mistyped message has ended the server. The
premise is needed: `write()` blocks on a full socket before the timeout of the call has started.

*Requests.* `WindowBound`: over any stretch of time a client is let in no more often than a full bucket and the refill
pay for. `SchemasExact`: the schemas on offer are the tools that can be called, in the order in which a
short name is resolved. `DispatchInScope`: a tool that runs for a request is one that its allow-list names at that
moment, whatever name it was called by and at whatever depth of plugin calls. `PromptFresh`: what is sent to
the engine or shown to a generator is the conversation as it stands, and the demand to call one of the tools is
not in it once one has answered (the demand for one given tool may be: see 5). `ResultsReachModel`: an answer was generated with every
result that tools gave in its prompt, or with all but the one that the notice replaced when the prompt was trimmed, unless the
rounds ran out before or the inference on the trimmed prompt failed. `AnswersAreBacked`: a success of the loop stands on a generated text, and
calls go to the client exactly when it asked for them. `OutcomesExact`: every chat that made a context is counted
once, however it ends and whoever holds its context, except a claimed stream that is never run, which is not counted at all.
`SubcallsCounted`: the total is what the contexts of the counted research requests hold at their end; where neither client nor
plugin wrote that counter, it is the number of engine calls that generated for the request.
`Answered`: liveness: a request is answered, or its stream given up before it ran.

*Sidecars.* `ToolsHaveOwners`: an offered native tool has an open library. An offered remote tool has a client, with two
exceptions: from the time a restart destroys the client until it takes the tools away, and when the tool was registered through a
stale address, which gives it no client and leaves it on offer; that happens only to a plugin whose session has moved in memory
(`MovedFrom`). `RegisteredIsLoaded`: what a sweep or the destructor must unregister is
in `loaded_plugins_`, or about to be. `OneSidecarPerDir`: a directory has one sidecar at most, running or about to
be started, and no session is restarted twice. `ShutdownLeavesNone`: after the destructor no sidecar runs,
no tool is on offer and no library open, unless a restart got past it; a restart that wakes after the destructor has
ended uses a bridge that is gone (`Outlived`), and is not followed further. `StartEnds`: a start or restart ends,
except when it waits for a connection that cannot come (`Forsaken`: nobody waits in its backlog, and its path was unlinked or no
process is left that could connect; or its socket was closed) or closes one that does not go (`WrongPeer`). The second conjunct of
`OneSidecarPerDir` states what the code does, a count that never passes 1, which is the reason why the limit of attempts is
never reached: it documents that bug and would not catch it.
`ToolsHaveOwners` and `OneSidecarPerDir` are about executions in which no start has failed (`NoneDropped`): a failed start
destroys the last session of the vector, which need not be its own, and from then on neither need hold.

Each property has a mutant in `PROJECT.json`: a plausible bug in the code (`Bug...` operators next to the
definition they change) under which TLC finds the property violated.

## 5. Where the code and its documentation differ

* **Reuse leaves a hole** (`sched_holes`). Every sampled token is appended to `cached_tokens`
  (`batch_scheduler.cpp:574`), also the one that ends the answer on `max_tokens` or a stop. That token is never decoded.
  A later turn whose prompt goes on past it reuses the prefix including that position, for which there is
  no KV cell. `engine_interface.h:112` calls reuse a "strict perf optimisation".
  `sched_plain` checks the same property without sessions, where it holds.
* **The batch buffer** (`sched_batch_buffer`). It has `n_ctx` entries and `batch_add` does not check. All
  prompts admitted in one pass are put in one batch, so it may need more.
* **One inference at a time** (`cuda_concurrent`). `docs/architecture.md:276` says that a mutex in the
  router protects `generate()`. There is none in the routers or in the CUDA engine, so two calls
  overwrite each other's buffers.
* **The block table outgrows its staging buffer** (`cuda_staging`). `allocate_sequence` reserves all blocks of
  the prompt and the prefill loop extends again at every boundary, so that a prompt that fits
  `max_blocks_per_seq_` blocks has a table about twice as long.
* **Frames may mix** (`ipc_frames`). `ipc_transport.h:52` calls `send` thread-safe. It writes length and payload
  in two writes without a lock, and HTTP threads and the heartbeat thread call it concurrently.

Seen while modelling and not the subject of a run:

* **A CUDA error loses blocks.** `CUDA_CHECK` throws past `free_sequence` (`cuda_engine.cpp:990`): the blocks of the call stay in its
  table until the model is unloaded. `BlocksConserved` names this as the one loss.
* **A mistyped message ends the server.** `on_message` catches what does not parse, but `json::value` throws for a message that is no
  object or whose `type` or `cid` has another type (`ipc_client.cpp:39`), in a thread that catches nothing.
* **A forced tool stays forced.** With a `tool_choice` that names a function, the text "You MUST call the tool ..." is injected
  (`openai_router.cpp:1370`). After a round only the other directive is taken out (`openai_router.cpp:1855`), though the comment above
  (1848) says that the directive has to go, or the model calls again instead of answering. `PromptFresh` makes this exception.
* **A claimed stream that never runs is not counted.** Its context is released into the content provider (`openai_router.cpp:1477`); when
  the client is gone or the server stops before the library calls that, nobody records the outcome (the exception in `OutcomesExact`).
* **Counters that others may write.** `research.subcall_count` and the mode are metadata of the context, which a client may send
  (`openai_router.cpp:715`) and a plugin set (`plugin_bridge.cpp:908`); what `SubcallsCounted` says of them is all that holds.
* **The recursion limit is never reached.** `call_engine` compares `recursion_depth` with `max_hierarchy_depth`
  (`plugin_bridge.cpp:687`), but the depth of every context is 0 and nothing raises it: only a limit of 0 refuses. In the model it is the
  bound `MaxHost` that ends the nesting of plugin calls.
* **`sidecar_timeout_ms` has no effect.** `docs/config-reference.md:433` and `configs/server.toml:215` describe a limit of the wait for a
  sidecar's connection; `config.cpp` reads it and nothing uses it. The comments at `plugin_bridge.cpp:1116` and 1146 say that the
  wait is in the background, or ends when it fails: it is in the calling thread, and `accept` waits for ever (`Forsaken`).
* **The vector of sessions is never locked.** `sidecar_sessions_mu_` (`plugin_bridge.h:212`) says that it guards the vector; no code takes
  it, and restart threads, the main thread and the destructor change it (`VectorRace`).
* **A tool without a client.** An announcement that comes over a moved session registers a tool whose closure has no client
  (`plugin_bridge.cpp:1209`); it stays on offer until a restart of its runtime.

* No status callback is ever set, so a `status_report` that carries the id of a pending call is taken for
  its answer (`ipc_client.cpp:45`).
* `docs/plugin-development.md:520`, `docs/config-reference.md:435` and `configs/server.toml:217` say that
  restarts stop after `max_restart_attempts`. A restart makes a new session whose count is 0, so the count never
  passes 1 (`OneSidecarPerDir` says so) and a limit of 2 or more is never reached.
* A restart takes away the tools of all sidecars of its runtime and expects them to be announced again
  (`plugin_bridge.cpp:1340`). Only the restarted sidecar announces again; the others' tools stay away.
* A sidecar stopped for a missed heartbeat is meant to be restarted by its exit (`plugin_bridge.cpp:1162`). When
  `stop()` reaps the process the waiting thread sees a clean exit, and nothing restarts it.
* Callbacks use the addresses of sessions after the vector has moved: those of the first session from the second start
  on, those of any session after a restart.
* The main thread waits in `accept` for ever when a sidecar dies before it connects, though a restart of
  that sidecar may succeed. Sidecars of one runtime share a path, so one may connect to another's session.
* An allow-list that names a tool by its qualified name only: the schemas show short names, so the
  model calls short names, which `is_tool_allowed` then refuses; the comment at
  `openai_router.cpp:614` says that either form is accepted.
* The error of the inference on a trimmed prompt is not looked at: the answer is a 200 with an empty text
  (the exception in `AnswersAreBacked`). The loop runs one round more than `tool_max_rounds`, and the
  model never sees the results of the last.
* `NativeRouter`'s debug dispatch of a tool looks at no allow-list (the exception in `DispatchInScope`).
* What preprocessors make of the messages is dropped in a chat, and used in `call_engine`. A claimed stream is not claimed again when it is asked for, so that it may be empty.
* The server calls neither `RateLimiter::evict_stale` nor any function of `GuardrailPolicy`.

## 6. Proofs

TLAPS checks the theorems for all values of the constants that satisfy the named assumptions
(`SchedulerAssumption`, `AllocatorAssumption`, `EngineAssumption`, `IpcAssumption`, `LimiterAssumption`,
`RegistryAssumption`, `PathAssumption`, `MixesAssumption`, `LifecycleAssumption`: types of the constants, and that
sizes and limits are positive; `DistinctDirs`: the configuration names a plugin directory once). TLC evaluates the same assumptions on every run.

| Theorem | States |
|---|---|
| `BatchScheduler_proofs!TypeCorrect` | `Spec => []TypeOK`; the chunk limit stays in `1 .. NBatch` |
| `BatchScheduler_proofs!CellsCorrect` | `Spec => []KVMatchesTokens` |
| `BatchScheduler_proofs!OwnerUnique` | `Spec => []OneOwner` |
| `BatchScheduler_proofs!ServiceImplemented` | `Spec => ImplementsService`: the scheduler implements `GenerateService` |
| `BatchScheduler_proofs!FreshSamplesSeeHistory`, `SamplesSeeAll` | a request that reused no cells samples over its whole history; without sessions `Spec => []SamplesSeeHistory` |
| `BatchScheduler_proofs!BatchFits` | `Spec => []BatchFitsBuffer` if `MaxSeqs` times the longest admissible prompt is at most `NCtx` |
| `CudaAllocator_proofs!AllocTypeCorrect`, `NoBlockTakenTwice`, `FreeListIsExact`, `TablesNeverRepeat` | the allocator's invariants under any callers |
| `CudaEngine_proofs!EngineUsesAllocator` | `Spec => AllocSpec`: the engine implements the allocator's specification |
| `CudaEngine_proofs!EngineTypeCorrect`, `OnlyThrowLoses`, `ReturnedIsClean`, `SlotAlwaysInTable`, `AloneIsExact` | the engine's invariants |
| `CudaEngine_proofs!PrefillTakesTwice`, `TwiceFits` | the exact size of the block table that is uploaded; `Spec => []TableFitsStaging` if twice each prompt and its answer fit |
| `CudaEngine_proofs!OneAtATimeIsExact` | `Spec => []SamplesOwnOutput` if `MaxActive` is 1 and `MaxInject` is 0 |
| `IpcClient_proofs!IpcImplementsRemoteCalls` | `Spec => ImplementsRemoteCalls`: taken at most once, and an answer is one sent for its call |
| `IpcClient_proofs!IpcTypeCorrect`, `PendingIsExact`, `PromisesSetOnce` | the client's invariants and the action property |
| `RateLimiter_proofs!LimiterBounded` | `LimiterSpec => []WindowBound`, with `reset` and `evict_stale` too, as long as idle buckets are kept for the time they take to fill |
| `RequestPath_proofs!TypeCorrect`, `ClientsBounded`, `SchemasMatch`, `PromptsFresh`, `ResultsReach`, `AnswersBacked`, `OutcomesCounted`, `SubcallsExact`, `DispatchScoped` | the request path's properties for any number of requests, plugins, tools, limits and rounds |
| `SidecarLifecycle_proofs!LifecycleTypeCorrect`, `RegisteredLoaded`, `OwnersOfTools`, `OneSidecar`, `ShutdownComplete` | the lifecycle's properties for any number of directories, sessions and faults |

**Scheduler.** `KVMatchesTokens` is not inductive: what the cells become depends on the batch, and the
batch on slots that were changed since. `IInv` adds that the batch entries not yet decoded agree with
the cached tokens of the slot they belong to, that a busy slot's pending tokens are the rest of its cached
tokens from `nPast` on, that a prefilled slot's sampled token is the last cached one, and which
of these hold in which phase of the worker. `Complete`, `Occupy` and `AddTokens` each have a
lemma, used by all actions that call them. `OneOwner` is inductive together with `IInv`; its lemmas
follow a request through the queue (`QueueTail`, `QueueAppend`) and through slots.

`ServiceImplemented` rests on `IInv`, `OneOwner` and `Bounded` (the queue never outgrows its limit, and the worker drains
only after the destructor has cleared `running_`). Callers' and owner's steps, a rejection, an admission, a
completion and a drain are steps of the service; all others leave queue, replies and the set of
requests in progress alone (`StillStutters`). `OneOwner` is what makes completions right: the request a slot gives
up is in no other slot, so that it leaves the set in progress.

`SamplesSeeHistory` is false with sessions (run `sched_holes`), so the theorem is about what does hold. `HistInv` says that
each position below `nPast` of a request that reused nothing has a cell or, while its slot waits for logits, a batch entry
still to be decoded (`Covered`); a failed decode may leave gaps, in slots that fail next. It recognises such a request by
its `cached_at_us` of 0, as a slot kept warm is stamped (`Stamped`). `SamplesSeeAll` adds that without sessions no
slot is ever warm (`NoneKept`), so every request is of that kind.

`BatchFits` bounds the batch under construction by the slots visited so far times the longest prompt (`Within`). Its
hypothesis is not one the code establishes: `try_admit_pending` compares each prompt with the context alone. The theorem says
how far the comment in the constructor is right (with one slot, always: `OneSlotFits`), and the run shows that without the hypothesis it is not.

**Allocator.** `AllocInv` is the conjunction of the four properties, and that is inductive: for a
push, that the blocks given back are not on the list already follows from the counts, for a pop that the blocks taken are
new to the table follows from `UsedBlocksCounted` and the exact free list. Two lemmas cover all
methods, one for steps that take blocks and one for steps that give them back.

**Engine.** `EngineUsesAllocator` is an implementation proof: each step of the engine is an allocator
method or leaves the pool alone, so everything proved of the pool holds in the engine. `EngineInv` adds
that each used block has count 1 and a user (the engine never copies or evicts), that a call has a
sequence exactly between `allocate_sequence` and `free_sequence` (which `pc` tells), that it has no session
before registering and after leaving, and that a buffer about to be read was written.

Three more invariants stand on `EngineInv`. `Placed` relates a call's position to the size of its table at each place of
`generate()`: that gives `SlotInTable`, with a little arithmetic of blocks (`BlockOf`, `Split`). `Undisturbed` follows the
data of a call that nothing ran alongside (`Alone`): tokens forwarded so far are in the cache where the call
looks for them (`History`), and each device buffer holds what the call last put there (`Buffers`). What it needs of the
pool is that two positions of a call have different slots (`SlotsApart`), which is `TablesInjective`. `Sized` gives the size of a table
exactly: `BlocksFor(PromptLen)` blocks from `allocate_sequence` and one for each boundary crossed since, prompt
included (`PrefillTakesTwice`).

Two theorems say under which condition the claims that runs `cuda_staging` and `cuda_concurrent` refute are true:
`TwiceFits` (twice the prompt and the answer fit) and `OneAtATimeIsExact` (one inference at a time and no
injection, which `docs/architecture.md:276` takes for granted). Nothing in the code establishes either condition.

**IPC.** `Inv` adds to `PendingExact` that a header on the wire is that of a sender past its first write whose
frame the sidecar has not taken, and is there once (so that the sidecar takes a call at most once), and
that every message that names a call, on its way back or in its future, is among those the sidecar said for that call after it took
it (so that an answer is the call's own, and a call that has not started has no answer waiting). A
sender's steps are stutters of `RemoteCalls` until its call returns.

**Limiter.** `WindowBound` is not inductive: it says nothing of what a bucket still holds. `Paid` adds that what a
client was let in for since any of its requests, together with what its bucket holds, came out of a full
bucket and the refill since; for a bucket that was evicted, that the time since has paid for it all.

**Registry.** `ToolRegistry_proofs` says what a removal leaves (`KeptFacts`: the elements of a set, in
order) and that `Index` finds a registered tool the name stands for. Both are inductions, carried out by
the least counterexample (`LeastElement`), since the library's induction theorems take an operator as a parameter.

**Requests.** `Good` says what a request's record is at each stage: which frame is at the bottom of its stack, in which rounds it
can be, who holds its context, that the prompt agrees with the conversation at the stages that use it, what
an answer stands on. `Moves` says what a step of one request may do to the shared state: `Good` is kept and
the counters change exactly when the context is dropped (`Settled`). There is one lemma for each step of the
handler; that others' records are untouched is said once. `OutcomesExact` then is a count over the contexts that were dropped (one that was
lost with its stream is not among them), by cardinalities of finite sets, and `SubcallsCounted` a sum over them (`Tally`). A sum is a fold that picks elements in an order nobody knows; the first section
proves that the order does not matter (`FoldAny`) and what one more request adds (`SumFacts`), again by the least counterexample. A context
that was dropped keeps its number of subcalls, which is why it counts once.

**Lifecycle.** `IInv` has two layers. `Core` holds while the program runs, whatever failed: who is named has been made
(`Named`), paths and connections lead to sessions of one runtime (`SameRuntime`), a receive thread has a
session, a connection and a plugin to record (`Receivers`), threads start sessions of their own (`Starts`, `Spawns`: one without a
process before `launch`), a
running process can be stopped and is waited for (`Processes`), what is on offer is recorded (`Backed`). That gives
`RegisteredIsLoaded` and `ShutdownLeavesNone`. `Orderly` holds while no start has failed: an address is right or
lost (`Placed`), so that a callback never reaches another session; a remote tool has an owner of its runtime, so that the sweep
takes it (`Owned`); a tool without a client is that of a session that moved (`Stale`); counts are 0 or 1 (`Counts`); and a directory is claimed by one running, dying or restarting session, one thread that
makes one, or one entry of the list `init` works on (`Claims`). `Claims` is why a heartbeat's kill and the exit it
causes cannot both start a sidecar. A lemma for each action shows both layers; steps that disturb
little use frame lemmas (`NamedFrame`, `OrderFrame`, ...).

**Only model-checked**: all liveness (`EveryRequestAnswered`, `EveryCallEnds`, `EndsIfRead`, `Answered`,
`StartEnds`), since TLAPS proves nothing about ENABLED or under fairness. Every safety invariant, action property and refinement that
a passing run checks is a theorem, `SamplesSeeHistory` under the hypothesis with which it is true. Where a proof needs an
induction over numbers it uses a least counterexample instead of the library's induction theorems, which take an
operator as a parameter. No module here
declares a RECURSIVE operator: tlapm loses its SMT back end in such a module. Loops of the code are
written as functions over `0 .. n` or `1 .. n` instead.

## 7. Not modelled

* Numeric code: CUDA kernels, GGUF loading, samplers, compression heuristics (their one effect on
  control, a shorter prompt, is in `CudaEngine`).
* Formats: JSON, chat templates, prompt rendering, the Anthropic translation.
* Pure I/O: the sandboxed file system of plugins, the operating system's loader, logging, Windows pipes and job objects.
* `CudaEngine::load`, `unload` and its statistics; the copy of K and V on eviction (the engine never
  evicts); the capacities of the megakernel's buffers.
* `GgmlEngine`: with the scheduler it only builds the submission that `BatchScheduler` begins with; without it, it is a sequential
  wrapper over one llama context, and two calls at a time are undefined from their first step.
* `GuardrailPolicy`: pure functions that nothing calls. Application and configuration: assignments done once
  before any thread runs.
* `CudaStreamManager`, `CudaModel`, `MultiGpu`, the engine factory: wrappers and arithmetic without shared control state.
* In `RequestPath`: usage numbers of the engine, the generator statistics, the narrative of the reasoning, the
  events of an Anthropic stream, what the status endpoints report.

## 8. What is left

* `CudaEngine!inject_tokens` against its own call: the code promises nothing for it that a property could state.
* For requests of sessions: which positions of a reused cache may be missing. The run shows one that is (the last token of an
  answer that ended on its limit or a stop); that it is the only one per turn is not stated.
* `RequestPath` over `SidecarLifecycle` instead of `Announce` and `Withdraw`: the two share `ToolRegistry`, and
  `Announce`, `Withdraw` allow more than the lifecycle does; a refinement would show it.
* `call_tool` of `IpcClient` under a session that a restart destroys: `ToolsHaveOwners` bounds the window,
  the call in flight in it is not followed.
