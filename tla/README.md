# modeld: a TLA+ verification project

modeld is a local control plane for language models: an HTTP server that keeps
model instances within a VRAM budget, starts and stops `llama-server` processes
(or talks to one that runs elsewhere), admits one generation per instance, and
streams tokens as NDJSON. This directory holds TLA+ models of its Go code, TLC
configurations that check them, and TLAPS proofs.

All paths below are relative to the repository, `src/`.

## 1. Inventory

| Part | State | Operations | What is hard |
|---|---|---|---|
| Admission, `internal/manager/queue_admission.go` | `genCh` (capacity 1) and `queueCh` of each instance | `beginGeneration`, the release function it returns | goroutines, two channels, a timer and a context in one select; tokens on every error path |
| Manager, `instance_ensure.go`, `instance_evict.go`, `unload.go`, `ops_switch.go`, `manager.go` | `m.instances`, the state and `LastUsed` of instances, `usedEstMB`, `m.state`, `m.cur` | `EnsureInstance`, `evictUntilFits`, `Unload`, `Switch`, `EnsureModel`, `Infer`, `Ready` | `m.mu` is released and taken again several times in one call; instances are looked up, then used outside the lock |
| Subprocess adapter, `adapter_llama_subprocess.go` | `a.procs`, `a.mu`, ports, OS processes | `ensureProcess`, `Stop`, `StopAll` | processes that crash, start slowly or lose the race for a port; a mutex held over calls |
| Inference request, `httpapi/server.go`, `context.go`, `metrics.go`, `manager/inference.go`, `adapter_llama_server.go` | the response, the joined context, the accumulated text | `postInfer`, `joinContexts`, `Infer`, `Generate` | client, server, timers and upstream all can end a request in the middle of its stream |
| Process life, `cmd/modeld/main.go`, `config/loader.go`, `manager/sanity.go`, `registry/loader.go` | options, registry, adapter, base context | merge, scan, `NewWithConfig`, `Preflight`, serve, shutdown | combinations of inputs; handlers that still run during shutdown |
| testctl, `internal/testctl/*.go` | the host: installed tools, virtual environment, services, ports; the children of a web suite | the `install`, `test` and `test ci` commands | long scripts of commands that fail, are interrupted and are run again; ports that are tried and not held; servers that outlive their launcher |
| Status, metrics, logging, events, LRU persistence, API types, Swagger, web UI | | | read-only, unused, or outside the service |

How they interact: `postInfer` calls `Infer`, which calls `EnsureInstance` and
`beginGeneration`, then `Start` and `Generate` of the adapter. `EnsureInstance`
calls `evictUntilFits` and, in spawn mode, `ensureProcess`; eviction, `Unload`
and shutdown call `Stop` or `StopAll`. The manager's lock `m.mu` and the adapter's lock
`a.mu` are separate, and no lock protects an `*Instance` that was looked up. `testctl`
is a program of its own that starts modeld and the web UI for the end-to-end tests.

What makes each part correct:

* Admission: one generation per instance, no token lost or returned twice, the
  release never blocks, every wait is bounded, first come first served (refuted).
* Manager: the estimate is the sum over the instances; the budget and its margin hold;
  an eviction spares instances that serve a request, and those with a queue (refuted); a drain
  stays a drain; readiness tells the truth; every call returns.
* Subprocess adapter: a caller gets the URL of its own model's server; every
  process stays reachable; `StopAll` stops all; calls return.
* Request: the body is well formed; whoever waits is answered; a request ends when
  its reason to exist does.
* Process: what the command line says is in force; what Preflight passes can serve (refuted); a
  signal ends the process; nothing it started outlives it (both refuted while requests run in spawn mode).
* Manager, adapter and shutdown together: what is reported as ready has a server, no
  process runs that the manager does not know, processes fit the budget (refuted).
* testctl: exit code 0 means done; what a failure left can be repaired (refuted for three leftovers); no
  child is left; tests talk to the servers they started.

## 2. Modules

| Module | Models |
|---|---|
| `InstanceGate` | abstract specification of the gate of one instance: a bounded set of waiting requests, at most one of them inside |
| `Admission` | `beginGeneration` and the release function over Go channels with parked senders |
| `AdmissionProofs` | `Admission` is right, and implements `InstanceGate` |
| `Manager` | extends `Admission` by the manager's calls: the composition of both |
| `ManagerProofs` | map, books and budget of the manager, what an eviction spares, and the gate of its instances |
| `SumProofs` | lemmas about sums over finite sets, for the books of the manager |
| `Subprocess` | the subprocess adapter with its processes and ports |
| `SubprocessProofs` | no process is lost, `StopAll` stops all |
| `InferStream` | one `POST /infer` from arrival to the end of its response |
| `InferStreamProofs` | the body is well formed, the client is answered |
| `SpawnManager` | the composition of `Manager` and `Subprocess` with the shutdown of `main` |
| `SpawnProofs` | the composition keeps what manager and adapter promise each other |
| `Server` | start-up and shutdown of the process |
| `ServerProofs` | the command line stays in force |
| `Testctl` | the developer tool on its host |
| `TestctlProofs` | exit codes are honest, children are killed, tests meet their own servers |
| `MCManager`, `MCSubprocess`, `MCSpawn`, `MCServer` | values of constants and symmetry sets for TLC |
| `MCAdmissionFifo` | `Admission` with the order of arrival as history |

### Admission

A request r has a program point `adm[r]` and the instance it looked up. The
channels are their lengths (`genLen`, `queueLen`) and the sequences of senders
that are parked on them. A send on a channel with room is immediate, otherwise the
sender parks; a receive on a full channel with a parked sender completes the
oldest parked send in the same step, as the Go runtime does it. `QueueSelectFails` and
`GenSelectFails` are the timer and context cases of the two selects and include the
deferred receive from `queueCh`. `Grant` is the return of the release function, whose
two receives are `ReceiveQueue` and `ReceiveGen`. `Lookup` and `PassChecks` are separate
because the code reads `inst.State` after it has released `m.mu`. That read is a data race on a
Go string; what it can tell apart here is draining or not, and both are covered by
the order of the steps.

### Manager

Each call is an operation with its own program counter. A step is one critical
section of `m.mu` or one unlocked access. `CheckReady`, `TouchReady`, `EvictDone`,
`Load`, `SpawnReady`, `LoadFails` and `Commit` are the sections of
`EnsureInstance` with `evictUntilFits` inlined.

The scan of `evictUntilFits` for a victim is the one section that is split. It holds `m.mu`, and reads
the lengths of channels on which `beginGeneration` sends without `m.mu`. So it begins (`BeginScan`), visits one
instance after the other in any order (`Visit`), and then takes the victim (`PickVictim`) or gives up (`EvictFails`);
between these steps requests send and receive tokens, time out and are canceled, while every step that takes
`m.mu` waits (`Unlocked`), the refresh of `LastUsed` at the end of `beginGeneration` among them. In process the
victim is deleted when the scan is over, whatever was sent to it since it was visited; in spawn mode the lock is
released while its process stops, and `VictimStopped` deletes it later. `recency` lists
the keys by `LastUsed`; equal time stamps are ignored. `Est` is constant:
file sizes do not change. Instances are objects of a pool, so that an object that left
the map and is still held by a request is a different object from the one that
replaced it.

### Subprocess

Callers run `ensureProcess`, `Stop` and `StopAll` over model paths. `a.mu` is a
variable, so a goroutine that locks it twice is stuck, as with `sync.Mutex`.
Processes bind their port or exit if it is taken, may crash and may be slow to
serve; these steps are external. The goroutine that waits for the early exit of a process and
the health poll are `WatchExited`, `WatchAlive`, `WatchTimeout` and `Poll`. `abandoned` is history: the processes
whose entry a readiness timeout deleted. The code leaves these running, and `NoLeak`, `StopAllStops` and
`NoProcessLeft` exempt them; `NoLeakAtAll` does not.

### SpawnManager

The module extends `Manager` and has an instance `A` of `Subprocess` whose callers are the
manager's operations and the goroutine of `main`. A step of `Manager` that calls the adapter
(`Load`, `PickVictim`, `UnloadWaited`) is joined with the call in `A`, and the step after it waits for
the return: between the two the operation runs inside `A` without `m.mu`. `Manager` alone leaves the
outcome of these calls open; here it is what `A` did. `StartSession` is the second
`ensureProcess` of a request, in `adapter.Start` after admission, which `Manager` alone does not have. `Signal`,
`StopAllReturns` and `Exit` are the end of `main`; after `Exit` the goroutines of modeld are gone
and its processes still run. `Quiet` restricts the signal to moments without a call.

### InferStream

One handler goroutine, the goroutine of `joinContexts`, the timers, the client, the server and the upstream server.
Admission is one step with all its error classes. A line of the upstream server is a token in chat format, a raw
`content` object (a token to the server adapter only) or something without text. A write may fail, and then all later
ones do. The configuration (adapter, timeouts) is chosen by `Init`. `Flushable` is FALSE because `statusRecorder`
hides `Flush`.

### Server

The inputs are chosen by `Init`: flags, file, directory, upstream server, and, where `Faults` names it, whether
`llama_bin` runs and whether the default model fits the budget. Six
options stand for all: a string with a config field, a URL that selects the
adapter, a string that main never merges, a boolean without a config field, a boolean whose
default is true, and a duration, which is a string that may not parse in the file and is truncated to
seconds on its way to the handler. The registry is the set of ids found; its order is that of the
directory, and only the first id matters (`FirstOf`). `FirstInfer` is what `Infer` answers to the first request: registry,
budget, process and adapter in the order of the code.

Handlers run or not, and in spawn mode each may hold `a.mu` (`amu`), and lock it a second time (`stuck`), which is what
`ensureProcess` does where it calls `Stop`. On a signal `StopAllInstances` waits for `a.mu`, with no timeout, before the
bounded `srv.Shutdown`. When a handler locks `a.mu` twice is a question of module `Subprocess`, and what the shutdown leaves
behind one of `SpawnManager`.

### Testctl

One invocation after the other on one host. The host is a set of facts (`docker`, `venvDir`,
`pytest`, ...); a command is a sequence of functions, each a sequence of steps with the
facts they use and give and the facts on which they are skipped, in the order of the Go functions. A step that
runs another program may fail at any time, and succeeds only where what it uses is there; when it fails or is
interrupted it leaves any part of its effect. Web suites choose ports,
start children, and wait for them. A suite has nine early returns; what it has deferred by then runs, and no more:
`tracked` is what `TrackProcess` has recorded, `deferred` the kills whose `defer` statement has been reached, and
`Return` kills the children that these reach (`Reached`). `Interrupt` is Ctrl-C: no deferred function runs, and the terminal
signals the whole process group. A child (`go run`, `pnpm`) launches the
server proper, which binds the port later, and survives the SIGKILL of its launcher; whether it may even bind
after that is `LateBind`.

## 3. Runs

Passing runs:

| Run | Properties | What it shows |
|---|---|---|
| `admission` | `AdmTypeOK` `SingleInFlight` `SlotsMatchHolders` `ReleaseNeverBlocks` `WaitIsBounded` `ImplementsGate` | Three requests on two instances with two queue slots each, contexts ending at any moment: one generation per instance, no token leaked or returned twice, receives that never block, waits that end although the generation in flight need not, and an implementation of the abstract gate. |
| `manager_serial` | `TypeOK` `Conservation` `BudgetRespected` | Spawn mode, one call at a time, five calls of any kind over three models, an unknown id and a default: the budget with its margin is respected, and the VRAM estimate is the sum over the instances. |
| `manager_race` | `Conservation` `WarmupOwned` `EvictionSparesRunning` | Three concurrent Infer and Switch calls, four in all, that evict each other's models in process, tokens sent while the scan of an eviction reads the channels: no megabyte is lost or counted twice, nothing is reported as loading without a loader, and no instance is evicted under a request that has been admitted. |
| `manager_live` | `CallsReturn` | In-process mode, two concurrent calls of any kind with cancellations, timeouts, evictions and unloads: every call returns. |
| `subprocess` | `TypeOK` `NoLeak` `StopAllStops` `ReturnsUnlessWedged` | Two callers on different ones of two model paths, three calls, two ports, with crashes, slow health checks, starts that miss the readiness deadline and ports that run out: every running process but one that missed that deadline stays reachable through a.procs, StopAll stops what ran, and calls return unless somebody has taken a.mu twice. Deadlock is not checked because that is what a restart after a crash does in the code. |
| `spawn` | `SpawnTypeOK` `ReadyHasServer` `ProcessesAccounted` `NoProcessLeft` `GenerationHasServer` `CallsReturn` `ShutdownEnds` | Manager, subprocess adapter and shutdown composed, one call at a time, three calls over three models of which one never fits: what is reported as ready has the server whose PID is reported, a generation has the server it was given, no process runs for a model without an instance, calls return, and a shutdown between calls ends and leaves no process. |
| `stream` | `TypeOK` `StreamWellFormed` `AnsweredUnlessCanceled` `HandlerEnds` `WatcherEnds` | One request in every configuration of adapter and timeouts, with write failures, panics, disconnect and shutdown at any moment and an upstream server that may stall for ever: the body is token lines and at most one closing line whose content is theirs, nobody who waits gets an empty answer, and the handler and its relay goroutine end when there is a reason to. |
| `server` | `TypeOK` `FlagsWin` `ShutdownEnds` | Flags, file, directory and upstream server in the combinations of four options that choose the model and the adapter, and two requests: what the command line says is in force, and after a signal the process ends however long handlers run, unless one of them has locked a.mu twice. |
| `testctl` | `TypeOK` `ExitZeroMeansDone` `SuiteCleansUp` `OwnServers` `InstallRepairs` `InvocationEnds` | Two invocations out of ten commands on ninety-six kinds of host, each failing or being interrupted anywhere and leaving any part of what the step does: exit code 0 means that what the command is for is there, a suite that returns has killed its children, tests talk to their own servers, install all repairs what a torn command left, and every invocation ends. |

The passing runs restrict the environment where the code has a known flaw: `Conservation` holds without concurrency,
and with it in process, but not with it in spawn mode; `NoLeak` holds while calls do not overlap on one path; the
properties of `spawn` hold one call at a time, without crashes and slow starts, and with a signal between calls.
`Exclusive`, `SpawnMode`, `CanCancel`, `DeadlineMayPass`, `Quiet`, `Faults`, `LateBind` and the other switches name
these restrictions, and the counterexamples below lift them one at a time. `ReturnsUnlessWedged` says of the one flaw
that every fault leads to (a goroutine that takes `a.mu` twice) that it is the only reason for which a call does not
return, and `ShutdownEnds` of `Server` that it is the only reason for which a handler keeps the process.

Runs that show a disagreement between the code and what the repository says of it
(`PROJECT.json` quotes the line):

| Run | Property | What it shows |
|---|---|---|
| `budget_race` | `BudgetRespected` | Two concurrent Infer calls load two models into a budget for one. |
| `spawn_twice` | `CallsReturn` | Two concurrent Infer calls of one cold model in spawn mode: the second finds the entry of a server that is still starting, takes the lock of the adapter twice and never returns, and neither does any later call. |
| `stream_forward` | `TokensForwarded` | With a stalled upstream server a token that was written stays in the process. |

### Further counterexamples

These configurations are kept for reproduction (`tlc -config X.cfg M`). In each of them TLC finds
the property violated; all of them have the form of the runs above.

| Configuration, module | Property | What happens | Against |
|---|---|---|---|
| `MCAdmissionFifo.cfg`, `MCAdmissionFifo` | `FifoAdmission` | A request that came later gets the in-flight slot first. | src/internal/manager/inference.go:57 says "Admission: per-instance FIFO queue, single in-flight" and src/docs/managed-llama-instances-plan.md:64 "ensure fair FIFO admission". |
| `MCManagerSerial.cfg` with `DeadlineMayPass = TRUE`, `MCManager` | `BudgetRespected` | One Infer call at a time: an eviction round that outlasts the deadline lets a model in that does not fit. | src/internal/manager/instance_evict.go:5 says "Evict LRU idle instances until required MB fits budget + margin." |
| `MCEvictBusy.cfg`, `MCManager` | `EvictionSparesBusy` | In process, a request queues on an instance that the scan of an eviction has already found idle, and the instance is evicted with the request on it. | src/internal/manager/instance_evict.go:15 says "Pick LRU idle instance (no in-flight and no queued requests)". |
| `MCEvictBusy.cfg` with `SpawnMode = TRUE` and `PROPERTIES EvictionSparesRunning`, `MCManager` | `EvictionSparesRunning` | In spawn mode a request is admitted to the victim while its process is being stopped, and the instance is then evicted under its generation. | src/internal/manager/instance_evict.go:15 says "Pick LRU idle instance (no in-flight and no queued requests)". |
| `MCEvictBusy.cfg` with `SpawnMode = TRUE` and `INVARIANTS Conservation`, `MCManager` | `Conservation` | In spawn mode two evictors pick the same victim and subtract its estimate twice. | src/pkg/types/api.go:91 documents it as "Estimated used VRAM in MB." |
| `MCManagerSerial.cfg` with `SpawnMode = FALSE`, `CanCancel = TRUE` and `INVARIANTS UsedNonNegative`, `MCManager` | `UsedNonNegative` | A canceled warmup leaves an instance that was never counted; evicting it makes the estimate negative. | the test src/internal/manager/unload_test.go:35 fails with "usedEstMB negative: %d". |
| `MCDrainUndone.cfg`, `MCManager` | `DrainingSticks` | An Infer call puts a draining instance back to loading and then to ready. | src/internal/manager/unload.go:8 says "Sets instance state to draining to reject new enqueues." |
| `MCDrainEnqueue.cfg`, `MCManager` | `NoEnqueueWhileDraining` | A request that read the state before Unload marked it takes a queue slot of the draining instance. | src/internal/manager/queue_admission.go:17 says "If draining, reject new work to allow graceful shutdown/unload". |
| `MCTwoInFlight.cfg`, `MCManager` | `SingleInFlightPerModel` | A request holds an evicted instance while a second one generates on the model's new instance. | src/internal/manager/types.go:31 says "Instance represents a live model context (one per model id)." |
| `MCManagerRace.cfg` with `CanCancel = TRUE`, `MCManager` | `WarmupOwned` | A warmup that is canceled leaves an instance in state loading that nobody loads. | src/pkg/types/api.go:116 documents the counter as "Number of instances currently warming up (loading)." |
| `MCReadyHidden.cfg`, `MCManager` | `ReadyInstanceIsReported` | A client that cancels the load of one model makes /readyz answer 503 though another model is ready. | src/docs/api.md:11 says "Returns `200 ready` once at least one instance is ready (or the default route is ready); otherwise `503 loading`." |
| `MCReadyStale.cfg`, `MCManager` | `ReadyMeansInstance` | After the only instance was evicted for a model that does not fit, /readyz still answers ready. | src/docs/api.md:11 says "Returns `200 ready` once at least one instance is ready (or the default route is ready); otherwise `503 loading`." |
| `MCBudgetRace.cfg` with `INVARIANTS EnsuredIsMapped`, `MCManager` | `EnsuredIsMapped` | A model that EnsureInstance made ready is evicted before beginGeneration looks it up: the client gets model not found. | src/internal/manager/errors.go:16 says "ErrModelNotFound returns an error when a requested model id is not present in the registry." |
| `MCSpawnCrash.cfg`, `MCSubprocess` | `CallsReturn` | After the process of a ready model dies, the next ensureProcess never returns. | src/internal/manager/adapter_llama_subprocess.go:165 says "If marked ready, quickly health-check; if unhealthy, drop and restart." |
| `MCSubprocess.cfg` with `INVARIANTS NoLeakAtAll`, `MCSubprocess` | `NoLeakAtAll` | A server that is not ready in 30 s keeps running and nothing refers to it any more. | src/docs/managed-llama-instances-plan.md:134 says "Process leaks: ensure robust cleanup paths (defer, signal handling, shutdown hooks)." |
| `MCSubprocess.cfg` with `Exclusive = {}`, `MCSubprocess` | `StopAllStops` | StopAll that runs between cmd.Start and the save of the entry misses the process. | src/internal/manager/manager.go:52 says "StopAllInstances stops all managed runtime subprocesses (spawn mode)." |
| `MCPortRace.cfg`, `MCSubprocess` | `RightServer` | Two models started together are given the same port, and a caller gets the URL of the other model's server. | src/docs/managed-llama-instances-plan.md:135 says "Port conflicts: allocate ports atomically and hold them while process runs." |
| `MCShutdownLeak.cfg`, `MCSpawn` | `NoProcessLeft` | A request that ensures its model while modeld shuts down leaves a llama-server behind: StopAll runs once, before the listener is closed, and ensureProcess takes no context. | src/docs/managed-llama-instances-plan.md:134 says "Process leaks: ensure robust cleanup paths (defer, signal handling, shutdown hooks)." |
| `MCShutdownWedge.cfg`, `MCSpawn` | `ShutdownEnds` | A request has taken `a.mu` twice; StopAll waits for it before the shutdown timeout starts, and modeld does not exit on SIGTERM. | src/cmd/modeld/main.go:55 says "Graceful shutdown timeout". |
| `MCEvictStart.cfg`, `MCSpawn` | `GenerationHasServer` | An eviction that picked its victim before a request was admitted to it kills the server that the request has just been given. | src/internal/manager/instance_evict.go:15 says "Pick LRU idle instance (no in-flight and no queued requests)". |
| `MCEvictOrphan.cfg`, `MCSpawn` | `ProcessesAccounted` | Two concurrent loads of one model start two processes; the entry of the first is overwritten, and nobody can stop it. | src/docs/managed-llama-instances-plan.md:6 says "the Manager owns the lifecycle of llama.cpp processes". |
| `MCUncounted.cfg`, `MCSpawn` | `ServersFitBudget` | A client that cancels during warmup leaves a process whose memory is not in the estimate; the next load then goes over the budget. | src/docs/overview.md:3 says "within a configurable VRAM budget and margin". |
| `MCSpawn.cfg` with `SlowStart = TRUE`, `MCSpawn` | `ReadyHasServer` | A process that missed the readiness deadline binds the port that its successor was given; the successor exits, the health check answers, and the manager reports a PID that is dead. | src/docs/managed-llama-instances-plan.md:53 says "PID of the managed subprocess and its assigned port (exposed via `/status`)." |
| `MCStreamFinal.cfg`, `InferStream` | `ExactlyOneFinal` | An upstream error after the first token ends a 200 response with an error object instead of the final line. | src/docs/api.md:64 says of the stream "Final line (exactly one)". |
| `MCStream.cfg` with `INVARIANTS MetricMatchesResponse`, `InferStream` | `MetricMatchesResponse` | The metrics count 500 for a response whose status was 200. | src/internal/httpapi/metrics.go:58 says "statusRecorder wraps http.ResponseWriter to capture status code". |
| `MCStreamClose.cfg`, `InferStream` | `CloseErrorReturned` | A Close of the session that fails is not reported. | src/internal/manager/inference.go:145 says "Return any session close error if present (and not masked by prior returns)". |
| `MCServerZero.cfg`, `MCServer` | `ZeroIsUnspecified` | A configuration file that does not mention llama_use_openai switches it off. | src/internal/config/loader.go:15 says 'Zero values mean "unspecified" and will be replaced by defaults in main.' |
| `MCServerFile.cfg`, `MCServer` | `FileIsApplied` | llama_bin of the configuration file has no effect. | src/cmd/modeld/main.go:94 says "If config file provided, load and merge (only apply fields for flags not explicitly set)". |
| `MCServerNoAdapter.cfg`, `MCServer` | `NoAdapterServes` | Without an adapter modeld does not start at all. The web suites of testctl start it with `--default-model`, and one with `--llama-bin`, and neither `--llama-url` nor `--spawn-llama`: their server never answers. | src/docs/build-and-run.md:52 says "If neither is configured, inference endpoints will return a dependency-unavailable error (503)." and src/internal/testctl/web_haiku.go:33 "inference is enabled by default". |
| `MCPreflight.cfg`, `MCServer` | `PreflightSound` | A `--llama-bin` that does not exist passes Preflight; modeld starts, and no request is ever served. With `Faults = {"budget"}` a default model that is larger than the budget does the same. | src/internal/manager/sanity.go:51 says "Preflight runs a series of non-destructive checks to validate that inference can run." |
| `MCServerUpstream.cfg`, `MCServer` | `UpstreamKnowsModel` | Preflight accepts an upstream server by the model's id, and requests then name the model by its path. | src/internal/manager/adapter_llama_server.go:64 says "In server mode, model selection is conveyed by name/id to the server; we do not use on-disk path." |
| `MCServerTimeout.cfg`, `MCServer` | `InferTimeoutKept` | An infer timeout of 500 ms is truncated to 0 seconds, which means none. | src/cmd/modeld/main.go:62 says "Max duration for /infer request before cancellation (0=disabled)". |
| `MCTestctlClone.cfg`, `Testctl` | `StaysPossible` | A `git clone` that fails leaves a directory that the next `install llama` takes for the repository; the error of `git pull` is ignored, and the build then fails, this time and every later one. With `Commands = {"test api:py"}` a torn `pytest`, and with `Commands = {"test ci installers act"}` a torn `act`, do the same. | src/internal/testctl/install_llama.go:13 says "It clones to ~/src/llama.cpp (or updates it)". |
| `MCTestctlLate.cfg` with `INVARIANTS SuiteLeavesNothing`, `Testctl` | `SuiteLeavesNothing` | The servers that a suite's children launched go on listening after it has returned. | src/internal/testctl/process.go:8 says "ProcManager tracks started processes and can kill them all on cleanup." |
| `MCTestctlLate.cfg`, `Testctl` | `OwnServers` | A server that was still starting when its suite returned binds the preferred port after the next suite found it free. | src/internal/testctl/ports.go:76 says "preferOrFree returns the desired port if free; otherwise chooses a free port." |
| `MCTestctlArgs.cfg`, `Testctl` | `ExtraArgsForwarded` | `test ci all -- -j` does not pass `-j` to act: cobra has removed the `--` that the handler looks for. | src/internal/testctl/FEATURES.md:196 says "extra args forwarded to `act`". |

### Bounds

* `MaxCalls`, `MaxRequests`, `MaxLines` and `MaxRuns` bound the number of calls, requests, upstream lines and
  invocations in a behaviour. Every counterexample needs at most four calls. The passing runs of
  `Manager` allow three to five calls, those of `Subprocess` and `SpawnManager` three: load, a load that evicts it, and
  a third call that meets what is left. Two invocations of testctl are one that leaves
  something and one that finds it.
* The pools `Instances` and `Procs` bound how many objects and processes a behaviour creates;
  `PoolAssumption` in the MC modules makes them large enough that a load or a start always finds a fresh one.
* `MaxQueueDepth` is 1 or 2. With two slots and three requests, one request generates, one waits
  for `genCh` and one for `queueCh`.
* Budgets hold one or two models, so that every load evicts; the serial run has a margin.
* Two ports for three processes, so that ports run out.
* `server` has one model id, which is enough for a default model that is there, is not there or is broken, and two
  handlers, of which one may hold `a.mu` while the other waits or ends. `MCPreflight.cfg` has two ids.
* The hosts of `testctl` are those of three distributions with any of five facts present or not; the facts in `Base` are
  on all of them, because without them a command fails at its first step.
* Symmetry is used on the set of requests only, in the run without liveness properties (`manager_race`).

### Fairness

* `Admission`: steps of a request that is inside `beginGeneration`, timers included; none
  on the end of a generation.
* `Manager`: goroutines run, timers fire, generations and adapter calls end. The run is in
  process, because in spawn mode `ensureProcess` can block for ever.
* `Subprocess`: callers run, and a process binds its port or exits. The readiness deadline has strong
  fairness: polls for a server that never answers switch it off and on again, and time passes.
* `SpawnManager`: the fairness of its parts; a base context that was canceled reaches every handler.
* `InferStream`: the handler, the relay goroutine and timers; a transport whose context is
  done ends its reads. Nothing is assumed of the upstream server or the client.
* `Server`: main. Handlers may never end; a handler that has locked `a.mu` goes on to the next of the few statements
  that it guards, which unlocks it or locks it again. `StopAllInstances` has strong fairness, because other handlers
  may lock `a.mu` in between and a mutex of Go is not withheld for ever from a goroutine that waits (its starvation
  mode).
* `Testctl`: testctl runs, the programs it waits for end, and the deadline of `waitHTTP` fires. Nothing is assumed of the
  servers.

## 4. Proofs

A theorem holds for every value of the constants that meets the named `ASSUME`s of its module (positive queue depth,
null values outside their sets, ports that are positive numbers, and the like). Where a property needs more, the
hypothesis stands in the theorem; each of them is a restriction under which a run checks the property too. Most have a
counterexample in section 3 that lifts them.

| Theorem | States | Under |
|---|---|---|
| `AdmissionTyping`, `MutualExclusion`, `TokensAreCounted`, `ReceivesFindTokens` | `AdmTypeOK`, `SingleInFlight`, `SlotsMatchHolders`, `ReleaseNeverBlocks` | |
| `AdmissionImplementsGate` | `ImplementsGate`: `Admission` implements `InstanceGate` | |
| `ManagerSingleInFlight`, `ManagerTokensAreCounted`, `ManagerImplementsGate` | the same of the whole manager, in both modes and with all faults | |
| `ManagerTyping` | `TypeOK` | |
| `ScanIsLocked` | `Scanning`: one eviction scans at a time; what it has chosen stays in the map and serves no request | |
| `EvictionIsSafe` | `EvictionSparesRunning` | in process (`~SpawnMode`) |
| `LoadingIsOwned` | `WarmupOwned` | `LoadsSucceed`: nobody cancels, every process starts |
| `BooksBalance` | `Conservation` | `Accountable`: `LoadsSucceed`, and either one call at a time, or in process and without `Unload` |
| `BudgetHolds` | `BudgetRespected` | `Serial`: one call at a time; `LoadsSucceed`; no eviction deadline; a margin within the budget, without which an idle manager violates it |
| `AdapterTyping` | `TypeOK` of `Subprocess` | |
| `NothingLeaks`, `StopAllIsThorough` | `NoLeak`, `StopAllStops` | `Disjoint`: calls do not overlap on a path; crashes, slow starts and slow health checks allowed |
| `SpawnTyping` | `SpawnTypeOK` | |
| `ShutdownIsThorough`, `NoProcessIsForgotten` | `NoProcessLeft`, `ProcessesAccounted` | `Serial`; `Quiet`: the signal comes between calls |
| `ReadyModelsAnswer`, `GenerationsAreServed` | `ReadyHasServer`, `GenerationHasServer` | `Serial`, `Quiet`, no crash, no slow start, no slow health check |
| `StreamTyping`, `BodyIsWellFormed`, `ClientIsAnswered` | `TypeOK`, `StreamWellFormed`, `AnsweredUnlessCanceled` of `InferStream` | |
| `ServerTyping`, `FlagsStayInForce` | `TypeOK`, `FlagsWin` of `Server` | |
| `ToolTyping`, `ExitCodeIsHonest`, `ChildrenAreKilled` | `TypeOK`, `ExitZeroMeansDone`, `SuiteCleansUp` of `Testctl` | |
| `CypressMeetsItsOwn` | `OwnServers` | a server whose launcher was killed binds no port (`~LateBind`) |

The invariants behind them are definitions of the modules they are about, at the end of each, and TLC has checked them on the
configurations of the runs. None of the properties is inductive alone.

* **Admission.** `AdmInv` adds to the types `Parked` (whoever is on a wait list is parked on that very channel, and is
  listed once) and `Counted` (lengths equal the numbers of holders and stay within capacity, and the sets of holders
  are finite). Without `Parked` a hand-off could complete the send of a request that has gone; without `Counted` the
  slot could be taken twice. The refinement of `InstanceGate` maps program points to phases of the gate; that the gate
  has room when a request goes in is `Counted` again.
* **Manager.** `MgrInv` holds without restriction: `Located` says what an operation holds at each of its steps (a
  registered model, an instance, a victim), `RecencyIsMap` that the list by `LastUsed` has each key of the map once.
  `Unreached` says which steps a configuration rules out. `Scanning` is what makes an eviction safe although tokens
  are sent without the lock: a request may send both of its tokens to the victim after it was visited, but it then
  needs `m.mu`, which the scan holds, before `beginGeneration` returns. On top of them, `VictimMapped` (a victim is in
  the map until its evictor removes it), `LoadedIsMapped` (a load works on the instance that its key names) and
  `Tally` (who still has to count an instance, and that the sums have finitely many terms) give the books; `LoadFits`
  (a load follows a test that it fits) gives the budget.
* **Sums.** `SumProofs` proves what a sum over a finite set is when an element comes, goes or changes. The definition
  of the community modules is recursive; its equations follow by a smallest counterexample on the cardinality, not by
  induction over an operator.
* **Subprocess.** `SubInv` holds without restriction: `Placed` (a caller's step determines its path, port and process)
  and `EntriesOK` (an entry of `a.procs` is a process that was started for its key). While calls do not overlap on a
  path (`Alone`), what a caller read from `a.procs` is still there (`Steady`), and `Sweep` says what StopAll has still
  to stop. `Healthy` adds, without faults, that ports do not clash and that an entry's process runs.
* **Composition.** `SpawnProofs` takes the theorems of `Subprocess` through an instance `S` of its proof module, and
  those of `Manager` by the lemma that a behaviour of the composition is one of `Manager`, so nothing of either part
  is proved twice. A step of the composition is a step of `Manager` (with the outcome that the adapter had), and a
  step of the adapter or a stutter of both. `Inside` and `Callers` say who is in the adapter, `Asked` for what; from
  these follows `Disjoint` behaviour of the adapter, and with it `NoLeak` and `StopAllStops` inside the composition.
  `RunningMapped` and `Vacated` order process and instance: the instance comes first and goes last. `Marked` and
  `Backed` carry the server from the return of `ensureProcess` to the report of readiness and through the generation.
* **InferStream.** `StreamInv` relates the accumulated text to the lines written so far, and the handler's step to the
  kind of the last line and the state of the connection.
* **Server.** `ServerInv` adds to the types `InputsOK` (start-up inputs are what the parser and the loader let
  through) and `Early` (handlers and their lock come after the adapter). `FlagsWin` is inductive with them: after the
  merge only the scan touches the options, and it asks whether the flag was given and not whether the value is empty.
* **Testctl.** Every command of `Program` is proved to have one shape (plain functions, at most one web suite, and
  that last) and to establish what `Promise` says when its mandatory steps are done: two facts about twenty-odd
  concrete programs. The invariants know programs by that shape only. `Done` says that what is behind has been done,
  `Launched` where a suite has children and that each of them has a deferred kill of its own by then, whether or not
  `killProcesses` tracks it, `Servers` that on the ports of a suite only its own servers listen.

Left to TLC: liveness and everything about fairness (`WaitIsBounded`, `CallsReturn`, `ReturnsUnlessWedged`,
`ShutdownEnds`, `HandlerEnds`, `WatcherEnds`, `InvocationEnds`), which the prover cannot do; and `InstallRepairs` of
`Testctl`, whose `CanSucceed` is a recursive function over the steps of a program: what it computes for every set of
facts needs induction over data.

## 5. Not modelled

Logging, events, Swagger and API types have no feedback into the state. LRU persistence
is never called. The web UI and tests
are clients. `Status` and `Snapshot` are read-only, and what they report is what the
properties speak of. Reads that change nothing are not steps. There is no clock: durations are
switches (a timeout is set or not), and which of two timers fires first is a free choice. So nothing here tells
that the write timeout of the HTTP server (30 s, main.go:311) is as long as the default wait in a queue.
Of testctl, `testWebMock` and `ensurePorts` are reached by no command; shell completion, log levels, what commands print
and the paths that `findLlamaBin` tries are left out.

## 6. Plan

Done: the component models, the composition in spawn mode, their runs, and theorems for every safety property that a
passing run checks, but for `InstallRepairs`. Next, in this order:

1. `NoLeak` and `StopAllStops` with overlapping calls on different paths while the manager runs: replace `Serial` in
   `SpawnProofs` by a hypothesis on models.
2. `Conservation` with `Unload` against overlapping loads of other keys.
3. `WarmupOwned` with cancellation, for the instances whose load was not canceled.
4. `InstallRepairs` for single functions, by unfolding `CanSucceed` on their concrete steps.
