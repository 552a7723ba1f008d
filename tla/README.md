# A TLA+ model of Kitematic

Kitematic runs *intents* of agents under governance: an intent is admitted for a
tenant, checked by a policy engine, routed, sent through a tool gateway, and its
result is checkpointed. Everything runs on asyncio event loops: code between two
`await`s is atomic, anything may happen at one. This directory holds TLA+ modules
of the parts that keep state, the TLC runs that check them on small instances, and
theorems about them checked by TLAPS.

## The system: inventory

| Part | State it keeps | Operations | Interacts with |
|---|---|---|---|
| `kernel/runtime.py` KitematicRuntime | runtime state, one shared tenant context | `execute_intent`, `drain`, `stop`, `set_tenant_context`, `host_agent`, `restore_from_checkpoint` | isolation, quota, policy, router, gateway, store |
| `kernel/state.py` | tables | transition check | runtime |
| `kernel/isolation.py`, `kernel/tenant.py` | tenants, agents, execution counts | register, validate, limit check, start, end | runtime |
| `api/rest/quotas.py` QuotaManager | configurations, sets of execution ids | `configure`, `check_concurrent`, start, end, `cleanup` | runtime |
| `api/rest/quotas.py` TokenBucketRateLimiter | token buckets | `consume`, `retry_after`, `reset` | quota manager, wall clock |
| `kernel/lifecycle.py`, `kernel/resources/budget.py` | controller state, shared budget, history | `run_intent`, `run_multi_step`, `shutdown` | runtime |
| `kernel/events/*` | subscriber queues, known streams | subscribe, unsubscribe, publish, close; groups, read, acknowledge, replay, trim | API, Redis server |
| `infrastructure/storage/checkpoint/*`, `control_plane/adapters/to_kernel/checkpoint.py` | checkpoint files, index, version counters | `save`, `get`, `list_by_execution`, `get_latest` | runtime, file system |
| `control_plane/orchestrator/*`, `control_plane/lifecycle/manager.py`, `control_plane/adapters/to_runtime/runtime.py`, `kernel/execution/in_memory.py` | state machines with history, checkpoints of steps | lifecycle calls, planning and executing steps | registry, step runtime |
| `control_plane/policy/*`, `core/policies/*`, `control_plane/adapters/to_kernel/policy.py` | rules, capabilities, decision cache | `evaluate_intent`, `check_capability`, evaluate with capabilities, `create_policy`, register, remove | runtime, wall clock |
| `api/rest/app.py`, `api/auth`, `api/audit` | execution records, keys | submit, status, WebSocket stream, shutdown | runtime, publishers |
| `kernel/gateway.py`, `kernel/resources/tool_registry.py`, router adapter | tools, clients, audit log | register, unregister, `access_tool` | runtime, MCP servers |
| `agents/loader/*` | installed plugins | discover, validate, install, bridge | registries |
| `control_plane/governance/marketplace/*` | extensions, reviews | submit, review, publish, load | – |
| `infrastructure/storage/memory/in_memory.py` | items by id, index by agent | `save`, `get`, `search`, `list_by_agent`, `delete` | wall clock |
| `control_plane/registry/*` | dictionaries | create, read, update, delete | – |
| `ai_gateway/*`, `agents/tools/mcp`, `kernel/observability/*`, `config/*` | little | I/O, metrics, settings | – |

What is hard here: tasks that interleave at awaits and share a context, a budget,
counters and a state machine; tasks that are cancelled; shutdown while work is in
flight; processes that die between two system calls or before they acknowledge;
two replicas on one directory; a wall clock that is set; decisions cached while the
rules change; tools, keys and plugins that are replaced while somebody uses them; an
index kept beside the data it describes. `PROJECT.json` lists each of these hazards at its line, with the
properties that would catch it.

What makes each part correct: accounts (quota slots, isolation counts, budgets,
tokens) that agree with what is really in flight or spent; a governance chain no
execution can bypass; terminal states that are final and histories that explain
them; events that reach the right subscribers, in order, and nobody after the end;
confirmed checkpoints that are found again, as far as the index can be read; cached decisions that are those of the
rules; an audit trail without gaps or doubles; a route that changes only for a reason one can name; registries
that agree with each other.

## Modules

| Module | Models | Remarks |
|---|---|---|
| `ExecutionStates` | `kernel/state.py` | states, `VALID_TRANSITIONS`, the two forms of transition |
| `Tenancy` | `kernel/tenant.py` | contexts |
| `IsolationBoundary` | `kernel/isolation.py` | state and operations as operators on it |
| `QuotaManager` | `api/rest/quotas.py` 103–141 | likewise |
| `Runtime` | `kernel/runtime.py` | composes the four; one action per segment between awaits |
| `ExecutionLifecycle` | – | abstract: what the runtime promises of the life of an execution |
| `RuntimeProofs` | – | theorems about `Runtime` |
| `Loop` | `kernel/lifecycle.py`, `kernel/resources/budget.py` | tasks that share a controller |
| `OrchestrationProofs` | – | theorems about `Loop` and `StepExecution` |
| `EventBroker` | the three publishers | `backend`, chosen at the start, says which; operators that `Api` and `RedisStreams` compose |
| `RedisStreams` | consumer side of `redis_streams.py` | extends `EventBroker`; the server is external |
| `RateLimiter`, `RateLimiterProofs` | token buckets | integer units; clock may be set |
| `CheckpointRepository` | contract and `in_memory.py` | abstract |
| `CheckpointFiles`, `CheckpointProofs` | `file_system.py` and the persistence adapter | one step per system call; implements the abstract one |
| `StepExecution` | state machine, coordinator, lifecycle manager, executor adapter, step runtime | drivers that share an execution |
| `PolicyEngine`, `PolicyProofs` | policy engine, cache, capability registry, adapter | |
| `Api` | `api/rest/app.py`, `api/auth/provider.py` | extends `EventBroker`; requests, sockets and listeners are tasks |
| `EventProofs` | – | theorems about `EventBroker` in `Api` |
| `ToolRegistry` | `kernel/resources/tool_registry.py`, the router adapter | state and operators on it |
| `ToolGateway` | `kernel/gateway.py`, the event log | extends `ToolRegistry` |
| `PluginLoader` | `agents/loader/*`, `core/domain/plugin.py` | directories file by file; the bridge at its awaits |
| `ToolProofs` | – | theorems about `ToolGateway` and `PluginLoader` |
| `MemoryStore` | the memory repository | the queries are operators on the state |
| `StoreProofs` | – | theorems about `MemoryStore` and `RedisStreams` |
| `MC*` | – | constants, symmetry and small sets for TLC |

Definitions keep the names of the functions they translate; `PROJECT.json` maps
each to its lines. A definition whose comment begins with "Mutant" is not part of
the model: it is a plausible slip in the definition that follows it, kept to show
that the property it is meant for would notice.

**Runtime.** `pc[e]` is the await at which the call of `execute_intent` with id `e`
is suspended. `ExecuteIntent` is the code from the call to the first await (context,
isolation limit and count, quota, rate, shutdown check), with one disjunct per early
return; `PolicyAllows`, `PolicyRejects`, … are the code from one answer to the next
await. The collaborators answer anything in any order or raise. `Cancel` is the
cancellation of a task at an await, of which the code has no handler. The rate
limiter's answer is a free choice.

**Loop.** A task holds the event loop until it awaits the runtime (`Scheduled`); the
budget is checked before that await and charged after it. `ClockMoves` takes the wall
clock past the time limit and, when it is set back, before it again; `RefuseTimeout` is
the limit passing between the two clock reads of `_check_budget`.

**EventBroker and RedisStreams.** `publish` is split at the await of the server:
`ServerStores` (external), `deliver` (the rest), `PublishRaises` (the server refuses
or the connection breaks, before or after it stored). The lists of subscribers are sets of
queues: `subscribe` appends a queue it has just created, so a list holds it once, and the
loops over a list put into unbounded queues without suspending, so their order shows
nowhere. `RedisStreams` adds groups, what
each was given, what was acknowledged, and a restart that empties the process's memory.
`added` is a history variable, every entry XADD ever took; the stream is a tail of it. What
XADD's `maxlen` (approximate, so it drops any number of the entries beyond it, or none) and
`trim` leave of a stream is `trimmed`, external; `replay` reads at most `count` of it.

**Api.** One execution id per POST. `submit_intent` ends at the await of the runtime,
which is external here: it returns a result or raises. `RuntimeReturns` records the
execution and starts the publishing. A socket's queue has the socket's name; `peer` is
what it will subscribe to once `accept` returns. `Get` and `Send` are the two awaits of
the listener task, `disconnect` the `finally` clause, `shutdown` the code behind the
`yield` of `lifespan` (`stop` never suspends, so it is one step). An auth context is its
tenant, a key its fingerprint.

**ToolRegistry and ToolGateway.** A tool id and an action are the sequences of their
segments; a `*` behind a dot stands, in an action, for one or more segments, wherever it is,
and is plain text in a tool id. The exact lookup comes first, for patterns too. A call is routed, may be held for any
time, and then looks up tool and client in one go (`RegistryMiss`, `ClientMiss`,
`CallTool`); the answer (`Answered`) or a cancellation comes any time later. Metrics, audit log
and event logs are three separate trails.

**PluginLoader.** A file is the package it was copied from; a copy or a removal that
fails leaves any part of its work done. A manifest is the set of its fields that would
not validate. Its name is a path that goes up some levels, then down, or starts at the
root: it is joined to the plugin directory as it is, and only what ends up one level below
one of `PLUGIN_DIRS` is scanned. Removal takes the directories below with it. The bridge's
calls stop where the code awaits policy and capability store; the tool registry overwrites
and ignores unknown names, as the one of its tests does.

**MemoryStore.** No method awaits, so each is one step. `moved` is a history variable:
the agents an item was saved away from.

**CheckpointFiles.** One step per file operation; each may be the last before a crash
(`Crash`) or may fail: one that writes makes `save` raise (`SaveRaises`), one that reads the
index passes for an empty index (`LoadIndexFails`), which the save then writes. `forgotten` is
a history variable, the number of saves that had returned when the index was last misread
and replaced. Inodes of the index file are named by the id of the save that
created them, so that two processes that open the same `index.tmp` share it, as they
do on a POSIX file system. A write over another writer's bytes leaves the new index
or an unreadable one.

**PolicyEngine.** A resource is the sequence of its segments, a target such a sequence
with or without trailing wildcard; rules keep the dict's insertion order. The adapter's
`evaluate_intent` and `check_capability` are actions of their own; both pass the action as
the resource, so the kernel asks one question twice. Rules other
than those of `create_policy` (inactive ones, other priorities, required
capabilities) come from the initial states, as the tests put them there.

## Runs

All bounds are constants of the cfgs: the sets of tenants, agents, executions, tasks,
processes, events and ids, and the caps `MaxIntents`, `MaxTime`, `MaxJump`,
`MaxHistory`, `MaxBudget`, `MaxCrashes`, `MaxErrors`, `MaxLostReplies`,
`MaxPolicies`. `MaxLen`, `ReadCount`, `ReplayCount`, `ttl_seconds` and `max_entries` stand for
literals and defaults of the code and are small, so that they are reached.

| Run | Instance | Shows |
|---|---|---|
| `runtime` | 2 tenants, an agent that moves, 2 calls, one cancellable, quotas 1 and 2, fair | quota slots, counts, chain, transitions, metrics, admission, checkpoint owner; shutdown drains, refinement of `ExecutionLifecycle` |
| `loop` | 3 tasks of up to 2 intents, 2 steps of budget, a clock that goes both ways | charging, overrun at most one step per task, used-up steps are final |
| `streams` | 2 streams, one of them trimmed and closed, `maxlen` 1, pages of 2, 1 group, 1 restart, 1 lost reply, fair | replay from an entry is gapless; every published event is acknowledged unless a restart, a lost reply or a trim intervenes |
| `rate` | 2 tenants, fractions of a token, clock jumps up to 2 | rate bound, `retry_after` keeps its word |
| `checkpoint_files` | 1 process, 4 saves, 2 crashes, 2 failing file operations | confirmed saves are restored, and listed unless a later save misread the index; the index names only files that exist; the latest is the newest until a restart; refinement of `CheckpointRepository` but for such saves |
| `step_execution` | 2 drivers, history up to 6 | history explains the status, failed steps fail the execution, terminal is final |
| `policy` | 2 resources, 3 targets, 4 initial rule sets, cache of 2 | cache transparent and bounded |
| `api` | memory and Redis Streams, 1 intent, 2 sockets, 2 keys, 2 tenants, fair listeners | nothing after the end marker; what a socket was shown, its tenant may ask for; a run is recorded before anything tells of it; shutdown ends every open stream |
| `gateway` | 3 tools under one prefix, one of them named like a pattern, 3 actions, 2 servers, 2 calls, 2 logs | what returned or raised is audited once, with the right server; trails agree; an action leaves its tool only for one of exactly its name |
| `plugins` | 5 packages of one name, 2 of which do not validate, 1 inside the directory of another, 3 bridge calls | what was installed is whole, and listed if its name is one path component; registries agree after sequential use; no tool before its capabilities |
| `memory` | 2 items, 2 agents, 2 kinds, items with and without creation and expiry time | the list is complete and agrees with a search |

Why the bounds are enough to be interesting: two of everything that competes, limits
equal to and one above what one actor needs, so that checks succeed, fail and race;
crash and loss budgets that allow one failure at every step (two for a single process,
so that a recovery can itself fail); clocks long enough for an entry to expire and for
a bucket to fill. The theorems below lift the most important results to all sizes.

One run ends in a violation: `runtime_count` states what a comment says, that
`_execution_counts` is the tenant's "active count", and shows what the code does instead:
executions that do not complete stay counted, so a tenant with nothing in flight is
refused (`findings` in `PROJECT.json` quotes the line).

Further places where the models follow the code and a document says something else.
They are not runs of their own; the definitions named show them.

* Quota "release on all execution paths" (`docs/P4_SCALE_PLATFORM.md`): not when the
  task is cancelled at an await (`Cancel`, and the `cancelled` calls in
  `QuotaSlotsAreInFlight`).
* `STOPPED`: "all resources released" (`kernel/state.py`): `stop` only sets the state.
* `execute_intent` "1. VALIDATE TENANT CONTEXT": it checks that there is one; the agent
  may have moved since `set_tenant_context` validated it (`HasContext`).
* "Every loop step decrements from the budget" (`budget.py`): a step that ends after the
  budget ran out is executed and not charged (`Track`; `OverrunBounded` is what holds).
* `active_executions`: "executions with subscribers" (`events/protocol.py`):
  `unsubscribe` leaves empty lists.
* "Tenant-isolated consumer groups" (`redis_streams.py`): a group reads every stream the
  process knows (`unread`).
* "Tokens refill" (`quotas.py`): a wall clock that is set back takes tokens away
  (`refill`).
* "All durable state is in the checkpoint repository" (`docs/P5_DR_PLAN.md`): the version
  counter is not, so after a restart `get_latest` may return an older checkpoint
  (`LatestIsNewest` is limited accordingly).
* The coordinator's "check execution state": `validate_step_prerequisites` has no caller
  (`plan_step`). `start_execution` returns the id also of an execution it did not start
  (`StartReturns`).
* "At-least-once delivery" (`redis_streams.py`): entries that were read and not
  acknowledged are never claimed (only `>` is read), and after a restart the known
  streams are forgotten (`Restart`); `DeliveredUnlessDisturbed` names both.
* "Previous successful checkpoint is always recoverable" (`docs/P5_DR_PLAN.md`): true for
  one process as far as `restore` by id goes. `_load_index` takes an `OSError` for an empty
  index, which the save under way then writes: `list_by_execution` and `get_latest` lose
  every checkpoint before it (`LoadIndexFails`, `SaveForgets`). Two processes read, extend
  and replace the index at once and lose entries (`_lock` is never used).
* `submit_intent`: `x_tenant_id` is a query parameter, not a header, and goes before the
  key's tenant, so a submitter may not see its own execution. A socket without a tenant is
  shown events whose status the endpoint refuses it (`SeenIsVisible` is about the others).
  A socket keeps the context of a key that was removed. A socket that connects after
  shutdown never gets an end marker (`ShutdownEndsStreams` is about those that were open).
* The gateway's "validate agent has required capabilities" (`gateway.py`):
  `validate_access` has no caller. "Every tool access emits an audit event" (`gateway.py:5`,
  and `gateway.py:77`): an access cancelled while the server works on it leaves no entry, no
  event and no count (`Cancel`); `AuditedOnce` makes no claim about it. One event log serves all executions. `call_tool` has no
  timeout.
* The plugin bridge calls `register_tool` and `unregister_tool`, which the kernel's
  `ToolRegistry` does not have, and rolls nothing back (`BridgeRaises`). A manifest with
  `capabilities:` and no value makes discovery raise (`discovery_raises`). An upgrade keeps
  files the new version no longer has (`Overlay`). `remove` deletes the first plugin of
  that name only (`First`), and with it what is installed below its directory (`Delete`).
  "List all installed plugins" (`installer.py:109`): a plugin named `org/tool` is installed
  in `tools/org/tool`, where no scan looks (`ScannedDirs`); `InstalledIsListed` claims the
  listing for names of one component only.
* A checkpoint may be in the store although `save` raised (`StoreWrites`, then `SaveRaises`):
  the execution is then reported FAILED without it. An intent whose event cannot be published
  was executed although its client gets an error (`PublishFails`).
* Replay "for recovery on reconnect" (`redis_streams.py:208`): it returns 100 entries unless
  asked for more, and XADD drops what is more than 10000 back, so a client that was away for
  long gets a part, or finds its place gone (`replay`, `dropped`).
* "All non-expired memories for an agent" (`memory_repository.py`): an item saved again for
  another agent stays in the first agent's index, whose list then shows the other agent's
  item or raises `KeyError`; items with and without `created_at` together raise `TypeError`
  (`sorts`).
* Deny and approval rules before allow rules, and DENY at the end
  (`docs/02_ARCHITECTURE/SERVICE_SPECIFICATIONS.md:182`): the engine allows what no rule
  matches and takes the oldest rule of the best priority whatever its effect, so a DENY
  created after an ALLOW for the same resource has no effect (`decide`). No property takes
  either side. Rule-level capabilities are not checked on a cache hit
  (`evaluate_with_capabilities`).

**Fairness.** `runtime`: weak fairness of the resumption of each call, that is,
every collaborator eventually answers or raises and the event loop schedules the task;
the code has no timeout of its own, so this is what a caller must provide. Nothing is
assumed of new calls, of shutdown or of cancellation. `streams`: the
server answers a publish, and a consumer keeps calling `ensure_consumer_group`,
`read_messages` and `acknowledge`. `api`: the event loop runs a listener whose queue has
an item, and a send returns or raises (the server's keep-alive); nothing is assumed of
requests, of clients or of shutdown. The other runs check safety only.

## Proofs

Checked by TLAPS for every value of the constants that meets the named assumptions: every
invariant and every safety action property of the passing runs, and both refinements (that
of `CheckpointRepository` with the saves that misread the index as further steps).
Three proof modules treat two components each and extend both. The two share no constant
and no variable, so the assumptions of the one say nothing about the other; this is why
`StepExecution`, `PluginLoader` and `RedisStreams` write `StepInit`, `LoaderSpec`,
`StreamsTypeOK` for what the other modules call `Init`, `Spec` and `TypeOK`. The assumptions
give the constants their types and make the sets that are counted finite; no theorem
assumes a particular size, except where one process is named.

* `RuntimeProofs`, under `RuntimeAssumption` and the assumptions of the modules it
  composes. `IInv` relates each call's `pc` to its local state: which checks have let
  it pass, which state it is in, which tenant's slot and count it holds, and that the
  sets of quota slots and the counts are exactly the calls that hold them. The invariants
  alone are not inductive: that a completed execution has passed both checks follows only from
  what is known at each await before. From `IInv`: type correctness, the governance
  chain, no invalid transition, quota slots, isolation counts; and, as action properties,
  that no start exceeds a limit and that a checkpoint belongs to the slot's holder.
  `MetricsBalance` needs `NoInvalidTransition`: a call that could not reach COMPLETED would
  return without being counted. The last theorem is that `Runtime` implements
  `ExecutionLifecycle`.
* `RateLimiterProofs`, under `RateAssumption`. The rate bound is inductive together with:
  a tenant without bucket has been allowed nothing. The step is that refills of
  consecutive spans of time add up, whatever the sign of a span. `RetryAfterSuffices` speaks
  of the bucket after a refill now; the inductive `PromiseInv` speaks of the bucket as it
  was last touched: by the promised time its refill makes up one token. A refill that
  leaves less than a token was not cut by the cap, so it keeps earlier promises; that the
  rounding of `wait` is upwards is a lemma about integer division.
* `PolicyProofs`, under `PolicyAssumption`. `CacheTransparent` and `EntriesBounded` with
  the finiteness of the cache. That sorting the matching rules has a first element is
  proved from the well-foundedness of strict inclusion on finite sets, applied to the set
  of rules that come before each.
* `StoreProofs`. `MemoryStore`, under `MemoryAssumption` and `NoneAssumption`. `IndexInv` splits what the
  index promises in two: every stored item is in the index of its agent, always; and
  the index holds nothing else, for agents no item was saved away from. The first gives
  `ListIsComplete`, both `ListAgreesWithSearch`. `RedisStreams`, under `BrokerAssumption` and
  `StreamsAssumption`: a stream is always a tail of what was ever added to it (`KeepsLast`), and
  not shorter than `maxlen` or everything that was added, unless it is trimmed
  (`KeepsEnough`); `ReplayIsGapless` follows from the two and what a page is.
* `CheckpointProofs`, under `FilesAssumption`. For any number of processes, `FilesInv`:
  whatever an index holds, in a process's memory or in any inode, has its checkpoint file;
  the file is in place before the index is loaded. It gives `IndexNamesFiles`, the part of
  recovery that two processes cannot break. What they can break is proved for one process,
  the hypothesis `Procs = {p}` of the other theorems: `SoloInv` says at every system call of
  a save what is in the two inodes of the index (at the rename, the temporary one holds the
  index that was read and the new entry), and that ids are unique. The index that was read is
  the old one, or nothing after a read error, and then the rename moves `forgotten`. It gives
  `SavedIsListed`;
  with `VersionsGrow` (the checkpoint in hand has the highest version of its execution, as
  long as the counter was not lost) `LatestIsNewest`. With the same invariant `CheckpointFiles`
  implements `CheckpointRepository`: the rename of the index is the abstract save, all other
  steps, crashes included, are stutters; the rename of an index that was misread is
  `SaveForgets`.
* `OrchestrationProofs`. `Loop`, under `LoopAssumption`: every step has one of four shapes
  (nothing delivered, a refusal, a charged result, a result the budget dropped), proved once
  from all actions, and the invariants are proved of the shapes. `OverrunBounded` is not
  inductive; `OverrunPaid` is: each execution beyond the charged steps belongs to a
  task that is done. `ExhaustionIsFinal` needs `ToldTheTruth`: a result never reports more steps
  than are charged, so who was told that all are used was told the truth, and steps, unlike
  time, never come back. `StepExecution`, under
  `StepAssumption`: every action moves the status along legal transitions, none, one or two
  of them, and appends exactly these to the history; the chain, `FailedStepFails` and
  `TerminalIsFinal` follow from that one fact.
* `ToolProofs`. `ToolGateway`, under `RegistryAssumption` and `GatewayAssumption`:
  `AuditedOnce` is inductive together with what a waiting call has fixed: no server before
  the lookup, a tool from the routing on (`Pending`). `TrailsAgree` rests on it: an entry is
  new to every event log because its call has no entry yet. Routing is stable because,
  without an exact match, the route of a state is the only registered match, which is
  finite-set reasoning about `Cardinality` = 1. `PluginLoader`, under `LoaderAssumption`: `PluginFilesInv` (a directory
  whose last install succeeded is whole, valid and where `remove` looks) gives
  `InstalledIsListed`, with the lemma that a name of one component ends up where the scan
  looks; `BridgeInv` says what store and registry hold while a call is between
  the two (`Sequential`, `StoreFirst`), which their agreement afterwards needs.
* `EventProofs`, under `BrokerAssumption` and `ApiAssumption`. `BrokerInv` is what the publisher keeps between
  operations: a queue in a list was subscribed to that execution, holds only published
  events its subscriber accepts, and has no end marker. The last makes `NothingAfterEnd`
  inductive: what has got the marker is in no list. With
  `RecordedOnce` (a record is made once, under the tenant of its request) it gives
  `RunIsRecorded`, and both together `SeenIsVisible`: the tenant filter of the queue and the
  record of the execution agree.

Only model-checked: everything about liveness (`ShutdownDrains`,
`DeliveredUnlessDisturbed`, `ShutdownEndsStreams`), which is out of the prover's reach, as
are `ENABLED` and what recursive definitions compute for all inputs; and the violation
of `runtime_count`, which is a counterexample.

## Not modelled

* `Runtime` takes policy, router, gateway and store as objects that answer or raise; it is
  not composed with `PolicyEngine`, `ToolGateway` and `CheckpointFiles`, whose states
  multiplied are out of TLC's reach. The same holds of `Api` and `Runtime`.
* The marketplace: dictionaries of extensions, reviews and artifacts that do not call each
  other and that nothing outside the tests calls. Found by reading: `listing_status.py`
  has its table `TRANSITIONS` as a member of a `StrEnum`, which only takes strings, so the
  module cannot be loaded; a review's status never changes.
* `host_agent` and `restore_from_checkpoint`; `ExecutionBudget.reset` and
  `QuotaManager.cleanup`, which nothing calls (the effect of the latter on the rate
  limiter is `RateLimiter`'s `reset`); `validate_access` of the tool registry.
* The health, readiness and metrics endpoints, which read; the audit recorder, which
  nothing calls.
* The event log of a loop, metrics other than the runtime's and the gateway's counters,
  tracing, logging.
* Encodings: that the client library may refuse an event's nested values is a publish
  that raises. Durations of Redis blocking reads. A refill rate of 0, which makes
  `retry_after` divide by zero. Token budgets: the loop consumes 0 tokens per step.
* Model providers (their adapters import `StreamChunk`, which `core/contracts/adapter.py`
  does not define), MCP transport, settings, secrets, scripts and deployment.
* The agent registries: dictionaries without concurrency of their own.

## Plan

1. *Done:* runtime with isolation and quota, loop, events, rate limiter, checkpoints with
   crashes and disk errors, step execution, policy engine, API, gateway with registry and
   router, plugin loader, memory repository; theorems for all of them.
2. Further theorems: what of the liveness properties is a safety property underneath (that a
   call in flight or an open socket always has the step it waits for
   among those the fairness is about, without `ENABLED`); what two processes on one
   checkpoint directory still guarantee besides `IndexNamesFiles`; lemmas about
   `matches` and `decide` of the policy engine.
