# Verification of Fabrica

TLA+ models of Fabrica (`src/src/fabrica`), the TLC runs that check them on small
instances, and TLAPS proofs of what matters most for every size. Fabrica is an
asyncio library that gives agents tools, skills, prompts and memory, runs the code
they generate in sandboxes ("code mode") and asks Presidium, a policy service,
before it does.

All concurrency is that of asyncio: one thread, tasks that interleave at `await`.
A step of a model is the code between two awaits that can really suspend, unless
its module says otherwise. Nothing is assumed of the order in which the event loop
resumes tasks, except where fairness is stated.

## The system

| Component | State it keeps | Operations | What is hard | What makes it correct |
|---|---|---|---|---|
| `sandbox/pool.py` SandboxPool | warm list, count of slots, one condition, set of refill tasks | prewarm, acquire, run, release, refill in the background, close | boots under the lock, timeouts, refills that race each other and close(), failures between a count and its undo | one owner per instance, slots counted once, no reuse, no leak unless close() is disturbed, no lost wake-up, callers answered, close() ends |
| `sandbox/backend.py`, `types.py`, `errors.py` | none | the protocol of a backend | - | terminate and close promise cleanup |
| `sandbox/_shim_runner.py`, `_guest_shim.py` | sockets and process of one execution | run_shimmed_subprocess: serve tool calls, wait for the process, race both against a timeout | result, exit and timeout in any order, cancellation | a result if the guest finished, else killed and reported; sockets removed |
| `subprocess_backend.py`, `srt_backend.py` | a directory, handles | boot, execute, terminate, close | files per call | nothing left after close |
| `firecracker_backend.py`, `_firecracker_guest_shim.py` | golden snapshot, live VMs, vsock protocol | boot, snapshot, restore, execute, terminate, close | double-checked creation, failures in the middle of a boot, a protocol in lockstep | what a failed boot made is undone, what is in use stands, one golden snapshot, no answer to the wrong call |
| `sandbox/dispatch.py`, `network_policy.py` | none | tier choice, policy checks | - | tier follows platform |
| `managers/*` | registrations | execute_in_sandbox, tools, skills | error paths between grant, acquire, run, release | no execution without a grant, every handle and slot given back |
| `presidium/rest_client.py` | circuit breaker | check_grant, emit | concurrent calls around open/half-open | fail closed; the breaker protects the service |
| `prompts/*` | versions per name, cache, persisted blob | put, get, delete, load | write-through with an await, cache against store | an existing version is never overwritten, acknowledged writes survive |
| `memory/*` | entries, quota, compaction | put, get, search, compact | the same write-through; quota | acknowledged items survive, the newest messages that fit are kept |
| `retriever/retriever.py` | set of registered names, two indexes | register, deregister, search | check then await then act | indexes agree with the registrations |
| `mcp/client.py` | one session per server | connect, disconnect, list, call | connect and disconnect that overlap | no open transport out of reach, session and transport agree |
| `mcp/server.py` | stop event, uvicorn server | start, stop | stop before or during start | stop stops |
| `civitas_bridge/*` | built managers | build, close | order of shutdown | close closes everything built |
| `tunnel/*` | provider process | start, stop, retry | failure after the process started | stop() takes down all that start() has not let go of |
| `observability.py`, `scope.py`, `tools/*` | none | - | - | - |

Interactions: the bridge builds the managers and closes the pool; a manager asks
Presidium, then acquires a handle from the pool, runs, and releases; the pool
boots, executes and terminates on its one backend; guest code calls tools back
through the backend's callback, which may go to the MCP client.
`PROJECT.json` lists for every component what is modelled, and the hazards at
their lines with the properties that cover them.

## The modules

| Module | Models | Used by |
|---|---|---|
| `InstanceLease` | abstract: what a pool promises about instances | `SandboxPool` refines it |
| `SandboxPool` | `sandbox/pool.py` | `CodeMode` |
| `SandboxBackend` | abstract: what `sandbox/backend.py` promises of one instance | `FirecrackerSandbox` refines it |
| `FirecrackerSandbox` | `sandbox/firecracker_backend.py` without `execute()`, which is `GuestSession` | - |
| `CircuitBreaker` | `_CircuitBreaker` and `check_grant()` of `presidium/rest_client.py` | `CodeMode` |
| `CodeMode` | `managers/execute_in_sandbox.py`, over the pool and the breaker | - |
| `WriteThrough` | the write-through of `PersistedPromptStore`, which `PersistedMemoryStore` repeats | `PromptManager`, `MemoryManager` |
| `PromptManager` | `prompts/manager.py` and `prompts/store.py` | - |
| `SandboxRun` | abstract: what `sandbox/backend.py` promises of one `execute()` | `Execution` refines it |
| `ShimRunner` | `sandbox/_shim_runner.py` and `_guest_shim.py`, under `subprocess_backend.py` and `srt_backend.py` | `Execution` |
| `GuestSession` | `execute()` of `firecracker_backend.py` and `_firecracker_guest_shim.py` | `Execution` |
| `Execution` | `sandbox/dispatch.py`, over the two | - |
| `Registry` | `retriever/*` with the registrations of `ToolManager` and `SkillManager` | - |
| `MCPClient` | `mcp/client.py` | - |
| `CloudflareTunnel`, `TailscaleTunnel` | `tunnel/cloudflare_provider.py`, `tunnel/tailscale_provider.py` | `Tunnel` |
| `Tunnel` | `tunnel/dispatch.py`, over the two | - |
| `Compactor` | `memory/compactor.py` | `MemoryManager` |
| `MemoryManager` | `memory/manager.py`, `store.py`, `working_memory.py`, over `WriteThrough` and `Compactor` | - |
| `MC*` with their `.cfg` | instances for TLC | - |
| `*Proofs` | theorems for every value of the constants | - |

`CodeMode`, `PromptManager`, `Execution`, `Tunnel` and `MemoryManager` use the lower modules through `INSTANCE`: their
actions are conjunctions of an action of each part, so that what is proved of a part
is carried over by showing that every step of the whole is a step of the part or
leaves it alone. Each module ends with its properties; the definitions under the
heading *Mutants* are plausible slips in the code, used to see that TLC finds each
property violated when one of them replaces the definition it imitates. No
specification uses them. `CircuitBreaker`, `MCPClient` and `Tunnel` name their `Init`, `Next`
and `Spec` after the component (`BreakerInit`, `ClientInit`, `TunnelInit`, ...), so that
`StandaloneProofs` can extend them together with `MemoryManager`.

### SandboxPool

| Code | Model |
|---|---|
| `_warm`, `_concurrent_count` | `warm` (a set: instances in the list are alike), `concurrent` |
| the lock of `_condition` | `LockFree`: it is held over a suspension only in a boot by `acquire()` or `prewarm()` |
| a task in `acquire()` ... `release()` | `pc[c]`: `idle`, `waiting` (in `wait()`), `woken` (notified), `expired` (timed out, wants the lock back), `booting`, `held`, `returning` (terminated, wants the lock) |
| `_refill_tasks`, the snapshot `close()` gathers | `refilling`, `pending` |
| `close()` | `closing`, and `doomed`, the warm list it took |
| instances in the backend | `life`: `none`, `fresh`, or `leased` once handed out |
| `acquire()` | `TakeWarm`, `ColdStart`, `WaitForSlot`, `BootReturns`, `BootCutShort`, `TimeOut`, `RaiseExhausted` |
| `release()` | `TerminateReturns`, `ReturnSlot`, `ReleaseCutShort` |
| `_refill_one()` | `RefillStores`, `RefillDiscards`, `RefillFails` |
| `prewarm()` | `PrewarmBoots`, `PrewarmBooted`, `PrewarmReturns`, `PrewarmFails` |
| `close()` | `StartClose`, `CloseTakesWarm`, `CloseTerminates`, `CloseFails`, `CloseBackend` |

`NothingStranded` says who owns an instance: a caller, a refill, `close()`'s list, or the warm
list, but that only until `close()` has taken it, as it looks there once. Except in a pool that
was in use when or after `close()` began (`late`): there a refill that a `release()` starts
during the wait does store an instance for nobody (see Findings).

`lost`, `late` and `faults` are history: slots whose client left without giving them
back, whether the pool was in use when or after `close()` began, and how many boots
and terminates failed. A failed boot or terminate leaves the instance behind or not
(`CutShort`): the backends differ, and nothing in the pool depends on it.
`InstanceLease` sees of all this only `life` and who holds what.

### FirecrackerSandbox

| Code | Model |
|---|---|
| `use_jailer`, `use_snapshot_restore` | `mode`: `cold`, `jailed`, `snapshot` |
| a call of `boot_clean()` or `terminate()` | `stage[c]`, the await it is in, and `inst[c]`, its instance |
| an `_InstanceState`, or a boot's local variables | `left[i]`, what there is in the system: `rootfs` (in a jail, its directory), `files`, `listener`, `process` |
| `_instances` | `registered` |
| `_golden_snapshot_lock` | `lock`, its holder |
| `_golden_snapshot` and `_golden_rootfs_copy` | `golden`, the instance whose root file system it uses, and `disk`: the state and memory files exist |
| `boot_clean()`, `_ensure_golden_snapshot()` | `BootClean`, `Dequeues` (both `EnsuresGolden`), `GoldenReady`, `Snapshots`, `Seals` |
| `_cold_boot_instance()`, `_boot_jailed_instance()`, `_restore_instance()` | `Proceeds`, `Configures`, `GuestReady`, `TimesOut`, `RefusesGuest`, `KillRaises` |
| `terminate()`, `_terminate_jailed_instance()` | `Terminate`, `TearsDown` |
| `close()` | `Close` |
| a cancelled call, an exception nothing catches, a VMM that exits | `BreaksOff`, `VmExits` |

The three kinds of boot are one path: they make the same parts in the same order, and
differ in what comes first (staging, the copy, neither) and how they are undone. The
boot that makes the golden snapshot holds `lock` until `Seals`, which goes on to the
first restore without an await. `curl` and thus `_api_put()` report no error, so
that a configuration or a snapshot that failed only shows as a guest that `hung`.
`faults` and `exits` count what is done to the calls from outside; `closed` is history, that
`close()` has removed a golden snapshot. `SandboxBackend` sees a phase of each instance.

`InUseStands` is about the shared root file system of restored instances too: it is there
as long as one of them is registered, but only until `close()`, which unlinks it whoever is
still at work (see Findings).

### CircuitBreaker

`state`, `failures` and `age` are `_state`, `_consecutive_failures` and the time since
`_opened_at`. The last two are cut off where the code stops telling values apart
(`failures` at `FailureThreshold`, `age` at `Cooldown`), so that the model is exact and not
a bound. `Send` is `allow_request()` that says yes, followed by the POST; `Answered`,
`Failed` and `Abandoned` are the three ways the POST ends. `Abandoned` is a call that
is cancelled or ends in an exception that `check_grant()` does not catch: neither
`record_success()` nor `record_failure()` runs. `query[c]` is `none`, `sent`, or how the
last call of `c` ended, so that an answer which changes nothing in a closed breaker is told
from a call that was abandoned: `Recovers` speaks of the one and not of the other.

### CodeMode

A call is `idle`, `asking` Presidium, `acquiring`, `running` or `releasing`: where
`execute_in_sandbox()` is, apart from where the pool has its client (`pc`). `answer`
remembers what Presidium said last. `Asks`, `IsGranted`, `IsRefused` and `Unanswered` move
the breaker. `Acquires` is any step of the pool's `acquire()` for this call, which returns
a handle or raises; `Runs`, the end of `run()`, by a result, an exception or a cancellation,
which the `finally` makes one; `Releases`, the steps of `release()`. `NothingKept` compares
the two: a call that is over has nothing in the pool. `ToolManager.run_code()` and
`SkillManager.run()` add nothing to `execute_in_sandbox()` that changes state.

### WriteThrough and PromptManager

`WriteThrough` has the dict in memory (`live`), the blob, and for each caller the
`set()` under way: `saving` until it takes effect, `saved` until it returns,
`abandoned` when its caller was cancelled and it goes on by itself. `snap` is what it
carries, `ahead` the calls begun before it. `owed[k]` is history: the caller who last
changed key `k` and has not been answered, `NoValue` once it has, `Lost` if it never
will be. `Change` stands for every operation of the delegate followed by
`_persist()`; `Restart` for a new process that runs `create()`.

`PromptManager` says what the changes are (`Put`, `Load`, `Delete`), and adds the
manager's cache: filled by a `get()` that misses (`Fills`) and brought up to date
only when the store has returned (`Completes`, `Refresh`), or not at all
(`BreaksOff`). The delegate's lock is never contended, because nothing awaits under
it; it is not modelled.

### Execution

One `execute()`, by the tier that `SelectedTier` (`select_sandbox_backend()`) gives. The
variables both kinds of run have (where the host is, the outcome, the guest, two
sequences of messages, `calls` and `heard`) are shared, the rest belongs to one of them.

| Code, tiers 0 and 1 | `ShimRunner` |
|---|---|
| `execute()` of the backend, then `run_shimmed_subprocess()` | `host`: `ready`, `spawning`, `waiting` (in `asyncio.wait()`), `killing`, `closing` (the `finally`), `over`; then `ended` (terminated), `closed` |
| `communicate_task` | `exit`: the child's end is not there, is `reaped`, was `told` to the caller |
| `serve_task` | `serving`: `receiving`, `calling` the tool, or ended in one of three ways |
| the child with the shim | `guest`: `running`, `asking` (in `recv`), `finished`, `crashed`, `killed` |
| the socket | `toHost`, `toGuest`, holding the numbers of calls |
| directory, zmq context, socket file, settings file | `files` |

The task that made the call, `serve_task`, the child and the event loop that sees the
child's end take their steps in any order, so a tool call may fail or time out while
the child is already dead and the overall timeout fires (`Concludes`, `Kills`,
`KillRaises`, `WaitsForExit`, `Closes`, `Receives`, `ToolAnswers`, `ToolTimesOut`,
`ToolRaises`, `GuestCalls`, `GuestHears`, `GuestFinishes`, `GuestCrashes`, `ExitIsSeen`).
`GuestSession` is the lockstep protocol over vsock: the boot's wait for "ready", the code,
tool calls and the result, with the reconnecting of the guest, a VM that dies, both
timeouts, a cancellation and `terminate()`. `SandboxRun` sees only whether the code has
finished, the numbers of calls and answers, and the outcome.

### Registry

`registered` is `Retriever._registered`, `index` what each backend has, `routes` the keys
of `_tools_by_name` and `skills` the scripts of `SkillManager`. A call of `register()`,
`load()` or `deregister()` is what it `wants` of each id: an item, `None`, or nothing
(`Untouched`). `RegisterTools`, `LoadSkill`, `LoadRefused` and `Deregister` are the part up
to the first backend's `add()` or `remove()`; `PrimaryEnds` and `FallbackEnds` the two
awaits with the bookkeeping after them; `BreaksOff` a cancellation in one of them. A
backend that raises may have applied any part of the batch.

Calls on one id that want different things leave it in no defined state (there is no
lock), and a backend that failed does not have what the other has. The properties are
therefore about ids that this did not happen to since they were last settled. `alone`,
`crossed` and `missed` are the history that says which, id by id: one id's trouble must
not spread to another's, and a later undisturbed call puts it right.

### MCPClient

`session` is the connection whose `ClientSession` is set, `stack` the one
`AsyncExitStack` that all calls share, `open` the transports that are open. `connect()` is
`Connect` (nothing when a session is set), `Refused`, `Opened`, `Entered`, `Responded`,
`Publishes`, or at any of its awaits `StepFails`, which closes the whole stack
(`TakesOff`, `Leaves`, `CleanedUp`); `disconnect()` is `Disconnect`, the same two, and
`Disconnected`. `Leaves` may raise, as leaving a transport of `anyio` does in a task other
than the one that opened it.

### Tunnel

`CloudflareTunnel` has the attempts of `start()` and the processes they make: `own` is the
process of the attempt, `tracked` is `_process`, which another task may have replaced.
`TailscaleTunnel` has a command that configures a Funnel which outlives it, and
`_started`. `Selected` is the order of `select_tunnel_provider()`. One task starts and one
stops, at any time.

What `start()` is known to let go of is history: `dropped`, the cloudflared processes that
closed their output and may run on (`SeesEnd`), or that ran when `start()` was called again
and overwrote `_process`; and for Tailscale `botched`, that a `start()` did not return a URL or
a reset failed. `NoStray` is about everything else, while calls take turns (`inTurn`).

### MemoryManager and Compactor

Long-term memory is `WriteThrough` with keys `Scopes \X Ids`; `Write` and `Forget` are its
changes. Working memory (`Remember`, `Clear`) never suspends and is lost in a `Restart`.
`Compactor` is one `compact()`: `Kept` is `_select_preserved()`, `Score` is
`score_compaction()`, exact: in thousandths of `Scale(Source)`, the product of the sizes of
the source's sets of numbers and words (1 for an empty one), so that no share is rounded. The summarizers return
any subset of the numbers and words of what they are given (what they make up does not
count in the score). Stores and compaction share nothing, so `part` chooses which is followed; the
states add up instead of multiplying.

## The runs

| Run | Instance | States | What it shows |
|---|---|---|---|
| `pool_safety` | 3 clients, 4 instances, `warm_size` 1, `max_concurrent` 1, 2 failures, symmetry | 93 000 | owners, slots, warm list, leaks and `close()` (but for what a disturbed `close()` leaves), and that the pool implements `InstanceLease` |
| `pool_live` | 2 clients, 4 instances, `warm_size` 2, no failure, prewarmed first | 14 000 | no lost wake-up; callers are answered, releases and `close()` end, the warm pool grows back |
| `firecracker` | 2 callers, 4 instances, 1 in use when a boot begins, 1 fault | 158 000 | failed boots and throwaway instances leave nothing, what is in use stands (until `close()` unlinks what it shares), the backend implements `SandboxBackend`, every call ends |
| `breaker` | 4 calls, threshold 3, cooldown 2 | 6 700 | state, count and time agree; recovery, tripping and probing under every order of late answers |
| `code_mode` | 2 calls, 3 instances, threshold 2, cooldown 1, 1 failure | 45 000 | nothing runs without its own grant, no handle and no slot survives its call, every call ends |
| `prompts` | 3 callers, 1 name, 2 contents, 2 versions, 2 faults, symmetry | 715 000 | acknowledged changes are saved, versions never overwritten, the cache tells the truth |
| `execution` | one run of each tier, 2 tool calls, 2 attempts to connect | 2 200 | every tier implements `SandboxRun`, nothing of a run stays, every run ends |
| `registry` | 2 tasks, 2 ids, 2 tools, 2 skills, 3 calls, symmetry | 112 000 | books and both backends agree when all is quiet, what is registered can be found, what is found can be run |
| `mcp_client` | 2 tasks, 3 attempts to connect, symmetry | 16 800 | no open transport escapes; session and transport go together when calls take turns |
| `tunnel` | both providers, 3 attempts (as in the code), 2 `start()` calls | 32 000 | `stop()` takes down all that `start()` has not let go of when calls take turns; every call ends |
| `memory` | 2 writers, 2 scopes, 1 fault; up to 3 messages, budgets 0 to 3, symmetry | 48 000 | acknowledged items are saved; compaction keeps all that fits and passes no summary without its numbers |
| `pool_slot_leak` | as `pool_safety` | - | a sentence of the documentation that the code does not keep (see Findings) |

Why these bounds are enough:

- *Pool.* With three clients one holds, one waits and one releases, and two refills
  can be in flight beside a warm instance; a fourth instance is for `prewarm()` or a
  cold start beside them. `WarmBound` fails with one warm place and two refills, the
  smallest case there is. Two failures let a slot be lost and an instance be left
  behind in one behaviour. `concurrent` needs no bound: warm hits take it above
  `MaxConcurrent` (and above `MaxConcurrent` + `WarmSize`), but each client holds at
  most one slot and `lost` is at most `MaxFaults`.
- *Pool, liveness.* `WarmSize` is 2 so that "grows back" takes more than one refill.
  `PrewarmFirst` is `TRUE`: otherwise the bound on instances could block a boot of
  `prewarm()` while it holds the lock, an artefact of the bound. That is also how the
  tests use the pool (`tests/sandbox/test_pool.py`). No failure is allowed because a slot lost to
  one starves callers for ever (finding `pool_slot_leak`).
- *Firecracker.* Two callers race for the golden snapshot, or one boots while the other
  ends its instance. One more than they and a handle can have is enough ids, as a
  fault leaves at most one instance behind: `Seals` then always finds an unused one,
  as it does in the code (`uuid4()`), and `CallsEnd` is not an artefact. One fault
  may be a snapshot not written, after which every restore hangs and fails until
  `close()`.
- *Breaker.* A threshold of 3 needs three failures in a row, with a fourth call in
  flight to answer late; a cooldown of 2 tells a restarted cooldown from one that ran.
- *Code mode.* Two calls are enough for one to wait for the other's slot, and a
  threshold of 2 for one call's failure to be another's denial. `prewarm()` and
  `close()` do not occur: they are `SandboxPool`'s.
- *Prompts.* One name is enough: names share nothing but the blob, which is written
  as a whole, and versions of one name share it in the same way. Two versions make a
  gap, the reuse of a freed number, and a latest that is not the only one. Faults
  count failed `set()` calls, cancellations and restarts; two allow a restart after
  an abandoned `set()`, or two of a kind.

- *Execution.* Runs share nothing but the backend's directory and its `close()`, so one is
  enough. Two tool calls make a late answer to the first meet the second, which is
  what `heard` guards against. Two attempts to connect stand for the hundred of the
  code: one that fails and is repeated, one that is the last.
- *Registry.* Two tasks cross once; the third call settles an id again after the two, or
  meets one of them again. Two ids let a batch be applied in part and one id be quiet
  while the other is not. `registry`'s properties are also proved without bounds.
- *MCP client.* With three attempts one connection stands, one is being made and one
  is closed by the failure of another.
- *Tunnel.* The number of attempts is the code's. The second `start()` meets what the
  first one left.
- *Memory.* Two writers overlap in one scope or in two. `PreserveLastN` is 2 and there are
  three messages, so that the limit, the budget or neither ends the loop, and the
  older part is empty, one message, or several. A message may have no tokens and one
  five numbers, so that a summary with one number of five scores below the threshold
  and one with two may pass on its words. The threshold, 550 thousandths, is the code's
  default. `NumbersSurvive` says a quarter because (550 - 400) / 600 is one.

Symmetry is used only in runs without liveness. Deadlock is checked in `pool_safety`,
`pool_live`, `firecracker`, `breaker`, `code_mode` and `prompts`; the other runs stop when
the one run, compaction or the bounded number of calls they follow is over.

### Fairness

- A task that keeps wanting the pool's lock gets it, although others keep taking it:
  `asyncio.Lock` serves its waiters in order. This is the strong fairness of
  `SandboxPool`; a weaker one would let one client overtake another for ever, which
  the lock excludes.
- A boot or terminate that has begun ends, a caller that holds a handle releases it
  (`execute_in_sandbox()` does so in a `finally`), the timer of `acquire_timeout`
  fires. Nobody has to call `acquire()` or `close()`.
- The commands of a boot or teardown end, `_BOOT_READY_TIMEOUT` ends the wait for a
  silent guest, and `_golden_snapshot_lock` serves its waiters in order
  (`FirecrackerSandbox`, strong fairness of `Progress`). Nobody has to boot or close.
- In `Execution`, the event loop and the timers go on (`Progress`, weak fairness): the timeout
  of the run fires, a killed child is reaped, the `finally` block ends. Neither the guest
  nor the tool has to do anything: `RunEnds` holds of code that stops dead at any point.
- In `Tunnel`, the timers of an attempt fire and a process that was killed, or that runs the
  reset, ends. cloudflared, its edge and `tailscale up` owe nothing.
- The clock ticks, and the HTTP client's timeout ends every POST.
- That agents keep asking (`CallersKeepCalling`) is no fairness of the code. It is an
  antecedent of `Recovers` and `OutageTrips`, as are the assumptions that Presidium is
  back or stays away.

## Findings

`pool_slot_leak`: a boot that fails or is cut by `acquire_timeout`, and a release whose
terminate fails, never give the slot back. After `max_concurrent` of them the pool serves
warm hits only. TLC ends the run with a counterexample to `CountsOnlyCallers`; the line of
the repository it contradicts is quoted in `PROJECT.json`.

Met on the way, and not runs of their own. In the pool, the backend and the breaker:

- A warm hit does not look at `max_concurrent`, documented as a hard ceiling for warm and
  cold starts combined (`docs/system-design.md:405`), and refills grow the warm list while
  it is reached: the number of handles out is bounded only by the number of callers.
- `close()` waits for the refills it finds (`pool.py:244`). A `release()` during that wait
  starts another one, whose instance may go into the warm list after `close()` has taken it:
  nobody terminates that instance. `docs/contracts/sandbox.md:271-276` and the docstring
  (`pool.py:237-241`) say that it waits so that this does not happen. `NothingStranded` and
  `QuietCloseIsClean` are violated without their `late`.
- `backend.close()` is documented to run when no handle is live (`backend.py:84`); the
  pool's `close()` waits for refills only. `FirecrackerSandbox.close()` then unlinks the root
  file system that restored instances share (`firecracker_backend.py:1090-1092`) under those
  that are still running. `InUseStands` is violated without its `closed`.
- In HALF_OPEN "exactly one real call" is to be let through (`rest_client.py:63`); all
  calls are, until the first answer.
- `_cleanup_files()` is documented to run on every failure branch of `boot_clean()`
  (`firecracker_backend.py:547`). When the VMM has exited, `process.kill()` raises before it.
- A success that arrives late closes an OPEN breaker before the cooldown is over.
- `record_failure()` tests for HALF_OPEN, but the count alone decides
  (`StateMatchesCount`).
- `check_grant()` is documented never to raise. A `decision` in the answer that is
  not hashable (a list) raises `TypeError`, and a closed HTTP client `RuntimeError`.
  `CodeMode` has them as `Unanswered`: the code does not run.
- A boot of `FirecrackerSandbox` that is cancelled (by `acquire_timeout`, say) undoes
  nothing either: VM, listener and files stay (`BreaksOff`, the `orphan` of
  `SandboxBackend`).
- A snapshot that could not be written is not noticed: the golden snapshot is set, and
  every boot times out from then on, until `close()`. A boot after `close()` makes a
  new one.
- `prewarm()`'s docstring names `CivitasBridge.build()` as its caller; nothing calls it.
- The prompt store orders nothing: with `InOrder = FALSE` TLC finds `Durable` and
  `CacheAgrees` violated, an older snapshot landing last. It relies on the state
  store to complete `set()` calls in the order they were made.
- After a failed `set()` memory and cache are ahead of the blob; the caller was told
  of the failure, and the change is saved by the next successful one.
- `load()` while another `load()` of the same file is under way can compare with a
  cached latest that is already superseded, and stores the content twice, where
  `docs/contracts/prompts.md` calls it idempotent for unchanged content.
- Failures of the blob store reach the caller as they are, not as `PromptBackendError`.
- A `put()` refused for its size leaves an empty name in `list_names()`.

In `execute()`:

- `backend.py:59` and `errors.py` say that an instance is killed on a timeout. Tier 2 raises
  and leaves that to `terminate()`, which the pool calls.
- In tier 2 a tool that raises `ConnectionError` or `TimeoutError` is taken for the guest's
  end or for the timeout (`firecracker_backend.py:949`).
- In the shim runner a cancellation while waiting leaves the child running
  (`NothingStays` excepts it), one that arrives in the `finally` block is swallowed, and
  `kill()` may raise `ProcessLookupError`. A spawn that fails leaves the zmq context.
- `close()` of tier 0 leaves its directory. Killing the `srt` wrapper is taken to kill
  the code under it.
- `dispatch.py` says the firecracker binary must exist; that is not looked at.

In the registrations and the MCP client:

- Items registered while the primary backend fails are in the fallback only. `search()`
  asks the fallback only when the primary raises, so they are not found once it is back.
- A `load()` that is refused as a duplicate has already replaced the script that `run()`
  would use (`LoadRefused`), and one whose registration fails leaves a script that `run()`
  finds and `find()` does not.
- A disconnect whose `aclose()` raises keeps the session set, and so does a transport
  that died: `connect()` then does nothing. A failing audit sink or `list_tools()` after
  the session is set leaves it set too. A `disconnect()` during `connect()` closes what it has
  opened so far; `connect()` may then set a session on it. The settings file for `srt`, one per
  `connect()`, is never removed.

In the tunnels and in memory:

- An attempt whose cloudflared closes its output fails (`cloudflare_provider.py:141-145`)
  without a look at whether the process has exited and without a `kill()`; the next attempt
  overwrites `_process` (`:127`). Lines 69-71 say that "a failed attempt's process is killed
  before the next one starts". `NoStray` is violated without its `dropped`. The same line
  overwrites `_process` when `start()` is called with a tunnel up, or after one that was
  cancelled: the first process is then out of reach of `stop()`.
- In `CloudflareTunnelProvider` the `kill()` after a timeout is not under `suppress()`: a
  process that has just exited ends `start()` with `ProcessLookupError` and without another
  attempt. A `stop()` that overlaps `start()` can forget the process of a later attempt.
- `TailscaleTunnelProvider.stop()` after a failed `start()` does nothing, although the Funnel
  may be up, and the exit code of the reset is not looked at.
- `tokens_after` of a compaction is the budget whenever anything was summarized, and may
  exceed `tokens_before`. One message over the budget is summarized by itself.

## The proofs

TLAPS checks every theorem for any sets of clients, callers, instances, names and contents and
any sizes, under the named assumptions of the modules (`PoolAssumption`,
`FirecrackerAssumption`, `BreakerAssumption`, `CodeModeAssumption`, `ManagerAssumption`, `BoundsAssumption`,
`RegistryAssumption`, `MemoryAssumption`, and `StoreAssumption`, which is a hypothesis of the
theorems of `WriteThroughProofs`, for `INSTANCE` imports no assumption). Five theorems
have a hypothesis of their own, which their statements show: that the blob store completes
`set()` calls in order (`AcknowledgedIsSaved`, `PromptsAreSaved`, `LongTermSurvives` and
`CacheIsCurrent`), and that the validation threshold is 0.55, its default, or more
(`QuarterOfNumbers`). `FullScoreLosesNothing` is about any finite sets of numbers and words.

**SandboxPoolProofs.** `PoolInvariant` proves `PoolInv`, from which `TypeCorrect`,
`SlotsAccounted`, `WarmBounded`, `OneOwner` and `PlacesMatchLife` follow. Its parts need
each other:

- `TypeOK` says that `concurrent` is a natural number, which a decrement keeps only
  because the caller that gives back a slot is counted: `SlotAccounting`.
- `Placed` is `LifeMatchesPlace`, `SoleOwner` in a form the provers split easily
  (`Apart`), and the fact that `close()` has a list of its own only while it is
  `terminating`. Without it `CloseTakesWarm` could overwrite that list.
- `WarmInv` strengthens `WarmBound` by what `prewarm()` knows during its boot: it looked
  at the list before and still has the lock. Refills look after theirs.

On top of `PoolInv`: `NoWakeupLost`, whose `WakeInv` adds that `prewarm()` is over before anyone waits, as
it puts instances in the list and notifies nobody; `NoLeak` and
`CleanClose`, from `Accounted` (where every instance is, by instance) and `QuietInv`, which
follows an undisturbed `close()` through its phases, with every refill among those it
waits for until there is none, and nothing in the warm list after it is taken; `WarmPoolOwed`, that warm, refilling and occupied never
sum to less than `warm_size` once prewarmed, which is why the warm pool recovers.

`PoolImplementsLease`: every step of the pool is one of
`InstanceLease` or a stutter. By `SoleOwner` the `CHOOSE` in the refinement mapping has
one candidate, so a step by one client leaves the tenants of other instances alone. From
the refinement, `NeverReused`: an instance that had a tenant goes to no other client and
never back to the warm list, however its release is cut short.

**FirecrackerSandboxProofs.** `BackendInvariant` proves `IInv`, from which `LeavesNothing`
(`NothingLeft`) and `UseIsSafe` (`InUseStands`) follow, and `ImplementsBackend` the
refinement. `Stages` says what an instance has at each stage of its call, without
which a guest that is ready could be registered incomplete; `Apart`, that calls,
handles and the golden snapshot have different instances; `Golden`, that the lock is
held from the copy of the root file system to `Seals` and that there is no golden
snapshot meanwhile; `Shared`, that without a golden snapshot nothing restored is booting or
registered, until `close()` has removed one; `Accounted`, who owns what is left. Every step is one call's, and
`StepIsLocal` shows once for all what it leaves alone, so that the rest is about the
one call and its instance. From the refinement, `LiveUntilTerminated`: what `boot_clean()`
has handed out leaves its caller by `terminate()` and in no other way.

**CodeModeProofs.** `FailsClosed`: no call touches the pool that Presidium did not allow in
answer to its own question. `KeepsNothing` (`NothingKept`): as long as no boot and no
`terminate()` fails, no sandbox and no counted slot outlives its call. `CallInv` ties the stage
of a call to where the pool has it: `acquire()` of one call moves no other one, and `release()`
no more than wakes them. `Books` is the pool's side, that an instance handed out is in some
client's hands and that no more slots are counted than clients occupy.

**WriteThroughProofs.** `AcknowledgedIsSaved`: if the blob store completes `set()` calls
in order, then `Durable`, for any number of calls under way, failing and abandoned. Durable
alone is not inductive. `Acknowledged` says that an acknowledged change is also in every
snapshot that may yet replace the blob; `Carried`, that a change not yet acknowledged is
in its caller's snapshot, in all later ones, and in the blob once it took effect;
`Chain`, that the calls under way are linearly ordered and one takes effect only after
those before it.

**PromptManagerProofs.** `PromptsAreSaved`: the manager's steps are steps of `WriteThrough`,
so it keeps what it acknowledged. `VersionsAreKept` (`NeverOverwritten`): there is a latest
version, by the well-foundedness of the naturals, and the number after it is free.
`CacheIsCurrent` (`CacheAgrees`), for a blob store that completes calls in order:
`DebtorRefreshes` says that whoever owes an answer for a version is about to bring the cache
up to date with what memory has; `PutIsLast`, that the owner of a `put()` under way still
owes it, or a later operation does, which waits for the first one's `set()`. Without it a
`put()` that returns after a later `delete()` would bring a deleted template back.

**ExecutionProofs.** `ImplementsRun`: each step of a run in a child process or in a VM is one
of `SandboxRun`, or none. What makes it true is `ShimWire` and `SessionWire`: one message at
most is under way, and it is about the call the code waits for; a tool that fails or times
out ends the run, so nothing of it comes later. `ShimOutcome` and `SessionOutcome` tie the
outcome to the guest. `LeavesNothing` follows from `ShimFiles`. From the refinement,
`AnswersInTurn` (one tool call at most is unanswered, and a result is of code that has
finished), for every tier at once.

**RegistryProofs.** `BooksAgreeWhenQuiet`, `RegisteredIsFindable` and `WhatIsFoundRuns`. The
invariant is about one id and the calls on it: `Quarrels` says that calls which differ have
it crossed and none has it alone; `Books`, that the Retriever's books never contradict what
is wanted of an id that is not crossed, and already say it when another call has settled it
meanwhile; `PrimaryHas`, that what the primary took is there when the call comes to the
fallback. Then a backend's answer, at whatever time, only repeats what the books say
(`Settled`, `Kept`). `BeginsPointwise`, `EndsPointwise` and `AppliesPointwise` say what the
steps do to one id.

**StandaloneProofs.** The components that no other proof builds on, each in a section.

- *The breaker*: `StateFollowsCount` and `AssertionHolds`; the invariant is the
  conjunction of the two and the types.
- *MCP client*: `TransportsInReach` (`NothingEscapes`) and `SessionMatchesTransport`
  (`Consistent`), from `ClientInv`. `Held` says that a context which is off the stack and
  not yet left is in the hands of a call that closes, so popping it loses nothing;
  `Lonely`, that the `disconnect()` which ran alone still does; `Calmness`, what
  session, stack and open transports are at every stage of the only call under way,
  which the property says of the quiet states alone and which is therefore not inductive.
- *Tunnels*: `StopTakesDownAll` (`NoStray`). For cloudflared, `OneProcess`: while
  `start()` and `stop()` take turns, what runs and was not `dropped` is the one process that
  `_process` names, and there is none between a kill and the next spawn. For Tailscale,
  `FunnelKnown`: a Funnel is up only in the hands of `start()` or with `_started` set, as long
  as no `start()` and no reset has failed.
- *Long-term memory*: `LongTermSurvives` (`LongTermIsDurable`). Each step of
  `MemoryManager` is one of `WriteThrough` or leaves it alone, so `AcknowledgedIsSaved`
  carries over.
- *What is preserved*: `KeepsTheMost` (`KeepsAllThatFits`). The loop of
  `_select_preserved()` is a function over the rounds, and `Loop` is its invariant: what it
  has counted is what it has kept, that fits, and if it has stopped the next message was
  too much. As tokens only add up (`TokensGrow`), no longer suffix fits either. That a
  function defined by recursion over the rounds exists and satisfies its equation is
  `RecursionExists`, from the well-foundedness of the naturals: the library's induction
  takes an operator.
- *What is passed for good*: `QuarterOfNumbers` (`NumbersSurvive`). `SummaryInv` says that
  the score at hand is of the summary at hand against all of the source, in each attempt
  and after it. Words give 400 of the 1000 thousandths at most, so 550 need
  (550 - 400) / 600, a quarter, of the numbers. `FullScoreLosesNothing`: a score is
  between nothing and all, and it is all just when no number and no word is missing.

Only model-checked, in the instances above: the liveness properties `AcquireResolves`,
`CloseCompletes`, `WarmPoolRegrows`, `Recovers`, `OutageTrips`, `CallsEnd` and `RunEnds`, for
ENABLED and fairness are beyond the prover; and the types of `PromptManager`,
`Tunnel` and `MemoryManager` beyond what the proofs need. Every other property of the
passing runs is a theorem.

## What is not modelled

Of the modelled components: spans, logging and the `wait_ms` attribute; the contents
of requests, templates and results; the parsing of PROMPT.md and SKILL.md; the size
limits of prompts; listing calls, which change nothing; TLS set-up and the in-process
Presidium client, a pure mapping; the ranking of `search()`; the contents of the `srt`
settings, and `network_policy.py`, which writes them from a list of hosts; `health_check()`.
For the pool a backend is its environment: a boot or terminate succeeds, fails, or is
cancelled. In `FirecrackerSandbox` no VM exits while it is in use; in `GuestSession` it may.

Whole components:

- `mcp/server.py` dispatches requests to managers and keeps no state of its own but the
  stop event and the server of `uvicorn`, whose life is that library's. A `stop()` before the
  server is made is lost (`server.py:427`); a model of it would be one of `uvicorn`.
- `civitas_bridge/*` constructs the components in a straight line, in one task;
  overlapping `build()` calls are documented as unsupported.
- `observability.py`, `scope.py`, `tools/*`: no shared state.

## Plan

Done: the pool, the Firecracker backend, the breaker, code mode over them, the write-through
and prompts, `execute()` of all tiers, the registrations, the MCP client, the tunnels, memory;
an abstract specification and a refinement for instances in use (`InstanceLease`,
`SandboxBackend`) and for a run (`SandboxRun`). What is left:

1. An abstract specification of `Registry`, a set of items, which it implements when calls on
   one id take turns.
2. `FirecrackerSandbox` composed with `GuestSession`, so that VMs may exit while they are in use.
