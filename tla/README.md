# A TLA+ verification of AgnosAI

AgnosAI is an agent-orchestration engine. A caller submits a *crew* (agents,
tasks and a process mode); the orchestrator registers it, runs its tasks, streams
events, and keeps a window of finished crews to be polled. The repository holds
the program twice: the live tree in Cyrius (`src/src/**/*.cyr`), which runs on
threads and mutexes, and the Rust program it was ported from
(`src/rust-old/src/**/*.rs`), which runs on tokio. Both are modelled; `src/dist`
is generated and is not. Below, paths that end in `.cyr` are relative to
`src/src`, those that end in `.rs` to `src/rust-old/src`.

This directory holds TLA+ modules translated from that code, the TLC runs that
check them on small instances, and TLAPS proofs of the invariants that matter
most. `PROJECT.json` maps every definition to the lines it stands for, and lists
the runs, the hazards, the findings and the theorems.

Where the two trees do the same thing in the same way, one module models both and
the map names the lines of the tree the definition was taken from first
(Scheduler, FleetState, FleetCoordinator, DurableState). Where concurrency makes
them different programs, each has a module of its own: CrewRegistry and
AsyncOrchestrator, CrewRunner and AsyncRunner, ApprovalGate and AsyncGate,
EventBus and AsyncBus, InferenceQueue and AsyncQueue.

## 1. Inventory

The parts, what each keeps, what is done to it and what makes it correct. The
status of each is in `PROJECT.json`, "components".

| part | state | operations | what is hard, and what must hold |
|---|---|---|---|
| crew registry (`orchestrator.cyr`; `orchestrator.rs`) | id -> state map, id -> cancel flag or token, queue of ended crews | register, run, finish, abandon, cancel, forget, release | each operation is several locked sections (or stretches between awaits) and several crews are between them; eviction runs inside another crew's submit. Only ended and unheld crews may leave; nothing points into released memory; every run ends and takes its entries along |
| crew runner (`crew_runner.cyr`; `crew_runner.rs`) | jobs, results, cancel flag, deadline, event sender | sequential, hierarchical, parallel and DAG processes | workers, batches, permits, panics, a cancel or a deadline at any point. Concurrency limit, no worker left, dependencies, the rank of the outcomes |
| task execution (`crew_runner.rs`, `llm/retry.rs`, `output_validation.rs`) | response cache, attempts, rounds | infer, retry, validate, re-ask | retries nested in rounds; a shared cache. Whose answer a task gives, and how often it may ask |
| approval gate (`approval.cyr`; `approval.rs`) | task -> one-slot channel, key mirror, capacity | request, submit, cancel, wait | waiter, reviewer, cancel and deadline race. Fails closed; a decision is not lost; no waiter loses its place to another |
| event bus and SSE (`server/sse.cyr`, `routes/sse.cyr`, `chan_lossy.cyr`; `server/sse.rs`, `routes/sse.rs`) | crew -> sender, subscriptions, lag counts, idle pool | sender, subscribe, send, remove, recycle, stream loop | lock-free reads; channels reused between crews. No cross-talk, streams end and are complete |
| scheduler (`scheduler.cyr`, `scheduler.rs`) | five FIFO tiers, a loaded DAG | enqueue, dequeue, load_dag, ready_tasks, sort | ties, cycles, unknown dependencies, refused loads |
| audit chain (`audit.cyr`) | entries, last hash, anchor | record, verify, evict | concurrent recorders, eviction must keep the chain verifiable |
| durable state (`durable_state.cyr`, `.rs`) | one file per crew | save, load, crash | a crash between two steps of a save; saves that overlap |
| plan cache, pubsub, ipc, memory, budgets, tenants (`orchestrator/*.rs`) | maps, channels, counters, a socket | insert, match, expire, publish, frame, spend | a concurrent map walked while it changes, check-then-add, partial reads |
| inference queue (`llm/inference_queue.cyr`, `.rs`) | priority levels, reply channels | enqueue, drain, stop, abort | a stop or an abort with a request in hand |
| fleet (`fleet/*`) | runs, barriers, nodes, devices, federation, relay | fan-out, retry, barrier, checkpoint, heartbeat, sweep, place, elect, relay, allocate | nodes leave between two steps, late, lost and repeated messages, views that are stale by design |
| sandbox (`sandbox/*.rs`) | child processes and pipes, a wasm engine's epoch | choose, spawn, time out, kill, tick | a child that does not read, a ticker that outlives its module |
| tools (`tools/*.rs`) | registry, scans, calls, downloads | register, look up, remove, load, call | a tool replaced while it is called |
| HTTP edge (`server/mod.rs`, `auth.rs`, `routes/{crews,a2a,mcp}.rs`) | slots per route, keys, requests | admit, authenticate, validate, answer, shut down | long requests beside short ones, a shutdown in between |
| server stores (`rate_limit.rs`, `versioning.rs`, `prometheus.rs`) | buckets, versions, counters | check, evict, save, roll back, scrape | forgetting must not give a client its burst back |
| guards and filters (`output_filter.rs`, `prompt_guard.rs`) | none | scan, redact, truncate | passes that work on what the one before left |
| choices (`scoring.rs`, `hierarchical.rs`, `router.rs`, `assembler.rs`, `cost_planning.rs`) | none | rank, delegate, route, assemble, price | ties, zeroes, limits |
| learning (`learning/*.rs`) | replay buffer, scores, Q table, arms | record, sample, update, choose | what a long history leaves behind |
| definitions (`definitions/*.rs`) | files and bundles | load a directory, export, import | files removed while they are read, limits that differ on the way out and in |
| tool loop, LLM client, telemetry, hot configuration, core types | turns, connections, exporters | | see "Not modelled" |

How they interact: a server route or an embedder calls the registry; the
registry opens the crew's channel in the event bus, starts a thread (a future)
that calls the runner and stores its outcome; the runner asks the scheduler for an
order, starts a worker per task, each of which asks the cache, the gateway (under
the retry policy) and the tools, waits at the approval gate and sends events to
the bus, from which SSE streams read. The fleet, the stores and the choices are
called by these and share nothing with each other.

## 2. Plan

1. CrewRegistry, with CrewLifecycle as its abstract specification, and its proofs.
*Done.* 2. CrewRunner, with Scheduler for the orders it relies on. *Done.* 3.
ApprovalGate and its proofs. *Done.* 4. EventBus with the SSE stream. *Done.* 5.
AuditChain with its proofs, InferenceQueue, FleetState and FleetCoordinator with
their proofs. *Done.* 6. TaskExecution and the asynchronous core: AsyncRunner (which
extends it), AsyncOrchestrator, AsyncGate, AsyncBus. *Done.* 7. Stores and
messaging: Messaging, Memory, Budgets, DurableState, Learning, AsyncQueue. *Done.*
8. Fleet membership: NodeFleet, Federation, Relay. *Done.* 9. The edge: HttpEdge,
ServerStores, Sandbox, Tools, TextGuards, and the pure decisions of AgentChoice and
Definitions. *Done.* 10. Proofs of the registry and its
refinement, the runner, the gate, the bus, the fleet, the audit chain, the
asynchronous runtime, the stores and fleet membership, the scheduler, the inference
queue and the edge (section 5). *Done*, but for the parts of `DecisionsSound` that
section 5 names.

## 3. Modules, runs and what they show

Every module has one action per operation, per locked section or per stretch
between two awaits, named after the code. Definitions whose name ends in
`_Something` and whose comment begins "Wrong variant" are mutations: plausible
bugs of the definition they stand in front of. They are used in no specification;
each property fails when one of them replaces its original. `PROJECT.json` names
one for each property; where a property is the conjunction of several invariants,
the modules hold further variants for its other parts, each of which it catches.

### CrewRegistry, CrewLifecycle

`crews`, `flag`, `ended` and `popped` are the orchestrator's map, cancel map and
ended queue with its head; `pc`, `out`, `cancelled` are the locals of each run's
thread; `chan` and `sender` are the bus as the registry uses it; `runs` and `rel`
are the spec's run count and the progress of `release_crew`. A run passes
`Accept`, `Publish`, `OpenChannel` (the sections of `_agnosai_orch_register`),
`Start`, `RunnerReturns`, `AuditFinished`, `StoreFinal`, `RemoveChannel`,
`LeaveRun`, or `FinishError`, or `Abandon`. Callers interleave `CancelCrew`,
`ForgetCrew`, `ReleaseCrew`. A state is a pointer: it is named by the run and by
whether it was made at registration or at the end, because the code compares
pointers to find out whether an ended slot is still current. `Reuse` says when a
caller runs an id again: when the earlier run has drained, when it is no longer
held, or at any time (which the registry does not forbid).

- `registry_window` (3 crews, 3 runs, window 2, low water 1, threads that fail to
  start): only ended crews are evicted; a held crew stays; the queue is bounded;
  eviction takes the oldest first and nothing comes back (`Retention`). The marks
  are the smallest at which eviction takes one crew and keeps another.
- `registry_release` (2 crews, one of them in an arena, 2 runs, release at any
  time): no dangling state, no ownerless channel, refinement of CrewLifecycle,
  `RunsEnd`. `LSpec` has no fairness of its own: the refinement is of safety, the
  two leads-to properties are stated on the registry.

Deadlock checking is off: when every run is over and nothing is forgotten the
system is at rest.

### CrewRunner

The runner's thread (`pc`) and a worker per task (`job`, `res`, `tstat`).
`StartWave`, `BatchHead`, `Dispatch`, `Join` and `WaveOver` are the wave and its
batches, `DagHead` picks the ready part, `SeqHead` and `SeqReport` the sequential
mode; `End` and `ErrorOut` the two returns. `World` selects what may happen to the
run: a cancel, the deadline, subscribers, a thread that cannot be made, an LLM
client, tools. What one task does inside is one step with the outcomes the code
has (`Answers`). `RunnerSound` is the type invariant with `WorkersContained` and
`DepsRespected`.

- `runner` (4 tasks, limit 2: two full batches; the DAGs are two chains side by
  side, a join of two branches, a cycle behind a task that runs and a dependency
  on an unknown id): all safety properties and `RunReturns`. Four tasks are the
  fewest in which one chain of a DAG fails while the other goes on.

A remark: the comparison of the number of results with the number of tasks
(crew_runner.cyr:2148) never decides in the model; every short run already has a
cause that ranks higher.

### ApprovalGate

`pending` and `keys` are under the gate's mutex; a request's channel (`slot`,
`closed`) is not. A waiter is at "poll", "check" or "clock": the code receives
without blocking, then looks whether it is still registered, then reads the
clock, and each is a step of its own. `told` records what a reviewer was told
had reached the waiter, so that properties can compare it with `verdict`.

- `gate` (2 tasks, 3 requests, capacity 2): a request can replace another and a
  third can be refused, which needs three. `DecisionStands` says that only the
  deadline loses a decision.

### EventBus

`channels`, `subs` and `idle` are under the bus mutex. A stream (HTTP handler)
asks whether the crew exists, takes the sender, adds itself, and loops over lag,
receive and closed; an embedder subscribes before it submits and gives its
channel back. `seen` records what a client got. `BusSound` is the type invariant
with `OneHolder`, `NoCrossTalk` and `ReadsForward`.

- `bus` (2 crews of 2 events, a stream, an embedder that takes one crew after the
  other, rings of 1, a cap of 1 channel): every event can overrun a ring, every
  second crew meets the cap, and the second crew's channel comes from the pool.
  A crew ends by `Finish`, which removes the channel, or by the error arm
  (`orchestrator.cyr:541-561`), which leaves it. `AttachedEnds` states what does end:
  clients on the channel of a crew, unless its run takes the error arm. What it leaves
  out besides is the violation run `bus_stream_ends`: a stream that subscribes after
  its crew is gone makes a new channel which nobody closes (there, too, crews that
  failed are left out, so that the run shows this cause and no other).

### Scheduler

Pure algorithms as functions (`KahnQueue`, `TopologicalSort`), checked against
reference definitions: "can be ordered" as the existence of a ranking, and the
order as the lexicographically best among the valid ones. The instance has every
DAG over three keys with any insertion order and edges to keys that are not
there, every vector of three tasks with two dependencies each, repeated, own and
unknown ones included, and queues of four tasks with priorities inside and
outside 0..4.

### AuditChain

A thread builds and hashes its entry without the lock (`Build`) and links, signs
and appends it in one locked section (`Record`), where the oldest entry is evicted
at capacity and its hash becomes the anchor. An entry's data is its id; SHA-256 and
HMAC are taken to be injective, so a hash is what was hashed. `linked` is history:
the order of the locked sections, with which `ChainSound` compares what the chain
holds. Three threads, a capacity of 3 and 6 records: threads overtake one another
between hash and lock, and the chain is evicted through entirely once.

`TamperShows` does not say that a missing last entry is noticed: `verify` does not
compare the last hash with `last_hash`, so it is not.

### InferenceQueue

Callers enqueue, worker threads loop (`SeeStop`, `TakeRequest`, `Nap`, `Settle`),
a drain is a worker without a flag that ends on an empty queue. majra's queue is
external: one FIFO per level. Two workers, a drain and three requests of two
priorities: both workers can be stopped with a request in hand, in the queue, or
none. `Served` also says what is not promised: a request left in the queue when
all workers are stopped is never answered.

### The run `services`

Scheduler, AuditChain and InferenceQueue share nothing, so one run checks them
together: `side` in `MCServices` chooses the part a behaviour is about, and the
state space is the sum of the parts'. `ServicesSound` is the types with
`KahnExact`, `RunsThrough` and `TamperShows`, `QueuesServe` the order of
the scheduler's tiers and the liveness of the inference queue. The run ends when
the bounds are reached, hence no deadlock check.

### FleetState, FleetCoordinator

`FleetState` is the state manager: a run's `phase` (tag and detail), `nodes`,
`tracked` (whose progress is kept) and `arrived`, the arrivals per barrier, which
are not cleared when the barrier opens. `FleetCoordinator` extends it with tasks,
their statuses and retry counts; `FanOut` evicts, stores the tasks and creates the
run in one call. Neither takes a lock: calls are atomic, and their order is free,
late and repeated ones included. `retried` is history.

- `fleet` (2 runs, 3 nodes, 2 barriers, 3 tasks, retention limits of 1, one retry,
  up to 3 failures of a task): three nodes are the fewest with which one is
  removed, one arrives and one is missing. `Focus` restricts what happens: while
  two runs are present they only end and are dropped (runs share nothing but the
  retention limit), and one task's failures are followed. The proofs are about
  the unrestricted `Spec`. Calls may stop at any time: no deadlock check.
- `fleet_barrier` (violation): node 1 arrives and is removed, node 2 arrives, and
  the barrier opens without node 3.

`EndedStands` excepts `force_barrier` and `reach_barrier`, which do revive a
completed run; the comment at state.cyr:417 says so of the first.

### TaskExecution, AsyncRunner

`TaskExecution` is one task from its request to its outcome, on tokio: `Asked`
looks in the response cache, an inference answers, fails in a way worth retrying
(up to `MaxRetries`) or fails for good, and an answer of the wrong shape is sent
back (up to `MaxValidationRetries` rounds). Tasks of a crew share the cache, whose
key leaves out the task's description, so `KeyOf` need not be injective.
`AsyncRunner` extends it with the crew around the tasks: in line, or spawned into
a JoinSet behind a semaphore (parallel) or wave by wave (DAG), with cancel, a
timeout that drops the run and everything it spawned, and panics.

### AsyncOrchestrator, AsyncGate, AsyncBus

`AsyncOrchestrator` is `run_crew` from permit to clean-up, with `cancel_crew` in
its two steps (token, then state) and the eviction of ended crews. `AsyncGate` is
the approval gate with oneshot channels, `AsyncBus` the map of broadcast channels
and the streams on it: a channel closes when nobody holds a sender, so the map, the
crew's runner and a stream that is subscribing each keep it open. A run that fails
(`orchestrator.rs:205`) returns before it takes its channel out of the map, whose
sender then keeps it open: the liveness of streams (`StreamsEnd`) excepts such a run.

- `async` (3 tasks of which two share a cache key and one has a schema, one retry,
  one validation round, all four modes and six graphs; 3 crews for 2 permits and a
  window of 1; 3 waiters on 2 tasks behind a gate for 1; 2 streams on a crew, a
  channel limit and a capacity of 1). Each number is the smallest at which its
  case happens: a second task meets the first one's cached answer, a third crew
  waits for a permit while the first is evicted, a request replaces another while a
  third is refused, a receiver is overtaken. `side` chooses the part as in
  `services`. `AnswersAccounted` is about whose answers and how many requests,
  `RunSound` (`OutcomeHonest`, `WorkContained`) about what a run reports and leaves
  behind, `CrewsSound` (`CancelHeard`, `LeavesNothing`) about cancel and clean-up,
  `ToldTrue` (`GateHonest`, `ClosedIsComplete`) about what waiters and readers are
  told, and `AsyncEnds` is liveness of crews, runs and streams. Behaviours end when
  everybody has left: no deadlock check.

### Messaging, Memory, Budgets, DurableState, Learning, AsyncQueue

The stores and channels of a process. `Messaging` is publish and subscribe, and
frames over a socket: publishers walk the concurrent map, shard by shard under the
shard's lock, while others subscribe, unsubscribe, read and drop their receivers;
`owed` is history, who was there when a publish began, and `FanOutExact` says that
they have the message, have read it or are told they lag once the walk has been at
their pattern. The recursive matcher is compared with what the rules say, and frames
are cut and hung up on anywhere. `Budgets` separates the check
before a call from the sum after it. `DurableState` has both trees' ways to write a
snapshot, a crash between any two steps and an error of the disk at every one of them:
in place (Rust), where a torn file is an error, or beside and renamed (Cyrius), where
it must not be. A write that fails after the file was truncated
(`durable_state.rs:60-62`) tears it without a crash; `RecoversSnapshot` excepts that
save as it does one a crash or another save came into (`disturbed`), and says that the
next save that has the file to itself mends it. `AsyncQueue` aborts
workers with a request in hand. `Memory` (the plan cache and the messages of a
conversation) and `Learning` have one owner; what a long history leaves in them is
compared with what the whole history says.

### NodeFleet, Federation, Relay

The fleet's view of itself. `NodeFleet` has heartbeats, sweeps and placements,
where a placement sees what the last sweep saw, and the memory of devices that is
given to tasks and taken back. In `Federation` every cluster has
its own view and term, and declarations come late, again or never. `Relay` takes a
number and publishes in two steps, and its network loses, repeats and reorders.

- `stores` (all nine modules, one `side` each, or more where a module has parts that
  share nothing): two subscribers, two savers, two callers, two clusters and two
  relay threads each, because two are enough to overlap, and three nodes so that a
  best one is chosen among several candidates. Two publishers over two shards are the
  fewest with which a pattern moves between what one has passed and the other has not;
  the limit is one pattern, so that it refuses a subscriber and that two which counted
  before either inserted pass it. Of two clusters each has one peer: that an election
  has one coordinator among several peers is idle in the run and shown by the theorem
  `MembershipIsSound`. Histories are a step or more longer
  than the capacity they meet (6 turns for windows up to 3, 5 updates for a history
  of 3, 4 ticks for a TTL of 2). `FanOutExact`, `RecoversSnapshot` and `AsksInOrder`
  are about one part each, `StoresSound` is `PlansSound`, `BufferExact`,
  `LearningSound`, `FramesWhole` and `OvershootBounded`, and `MembershipSound` is
  `PlacedWell`, `FollowsItsTerm`, `OnceInOrder`, `MemoryAccounted` and
  `LinksCounted` (the score of a node's device links against what they join). It
  checks safety only.

### HttpEdge, ServerStores, Sandbox, Tools

What stands between a request and the orchestrator, and between an agent and the
machine. `HttpEdge` has a limit of requests per route, as axum applies it, so that
crews which run for ever do not keep a cancel out, and the validation of a crew
request: the lengths of its name and texts, its counts and indices, and the search for
cycles, with a stack in place of recursion; of an A2A request the lengths and the
metadata. Addresses a callback may not have are told by their octets or first segment,
IPv4, IPv6 and IPv4 mapped into IPv6. The rate limiter forgets buckets that were not
used for an interval, and a forgotten bucket is full: `Gift` is what that gives a
client whose bucket would not have filled by itself. `Sandbox` has
the child with its pipes (`child`), the tickers on a shared wasm epoch (`wasm`) and
the life of a kavach sandbox; `Tools` a registry that is scanned, called and emptied
at the same time, downloads, the load test, which joins users that end at any
point or panic, and the audit that grades a site by two requests, either of which
may fail.

### TextGuards, AgentChoice, Definitions

Pure algorithms, or nearly. Each action asks one question and keeps it beside the
answer, and a reference definition says what the answer should have been.
`TextGuards` works on byte classes, and its loops are actions, because each pass
works on what the last one left. `AgentChoice` computes scores exactly in 2400ths;
the delays of retries are shifted with the width of the code's integers scaled down
(`ShiftBits`), so that the overflow happens. `Definitions` loads definitions
or presets from a directory from which files disappear and whose listing may break off.

- `edge` (all seven modules, `side` as above): `EdgeSound` is `SandboxSound`,
  `ToolsSound`, `ValidatedExactly`, `AuthHolds` and `StoresKeep`; `DecisionsSound` is
  `FilterSound`, `ChoiceSound`, `PlanSound`, `LoadExact`, `DefinitionsKept`
  (`LoaderKept` and `PackageKept`) and `GradeSound`;
  `EdgeEnds` is that tools, wasm modules and short requests end. The pipe holds 1
  unit and inputs go up to 3, so that one fits, one fits the two pipes together and
  one does neither; the leak window is 3 instead of 50 and texts are short, with one
  symbol per class of byte, and prompts of characters of two bytes, which no window of
  3 fits. Lengths are at their limits of 2, one below and one above; addresses at both
  ends of each private range; the burst is 3 with 2 refilled per eviction interval, so
  that being forgotten is a gift of 1, and the clock lets it happen twice.

### Further remarks on the code

Seen while modelling. Where one of them is a behaviour of a model, the properties
above are worded to leave it out and say so.

- `orchestrator.cyr:541-561`, the arm for a run without a state, does not remove
  the crew's channel, against the comment at 361-362 (`ChannelHasOwner`,
  `AttachedEnds` and `StreamEnds` name the exception): its streams stay open.
- `orchestrator.cyr:644`: a crew cancelled before its thread fails to start has
  ended, is not held and is in no queue; nothing evicts it (`QueueSound` names
  the exception).
- `orchestrator.cyr:594`: the channel is removed after the crew was let go of; a
  new run of the id that registers in between loses its channel while it is held,
  and `forget_crew` refuses what the comment at 768-769 says it accepts.
- `crew_runner.cyr:1832`: a DAG found stuck after earlier waves returns an error
  and its finished tasks are in no counter, against the comment at 2099-2100.
- `crew_runner.cyr:1653`: a subscriber that attaches during a wave misses the
  rest of it, not "that one event" (1448-1449).
- `routes/sse.cyr:151`: a handler that was told the crew is unknown removes the
  channel of a crew registered meanwhile.
- `routes/sse.cyr:247`: an event sent and a channel closed between the empty
  receive and the look at the flag: the last event is not delivered.
- `fleet/coordinator.cyr:238-240` says the test is `<` and that three retries
  mean two; the code (252) and the header (9-16) say otherwise, and `RetryExact`
  shows the code to do what the header says.
- `routes/sse.cyr:256`: leaving after the crew has ended makes its channel anew,
  and nothing removes it.

Three that were runs of their own earlier are stated here only, because the
formulas they refute are not what the properties above need:

- `orchestrator.cyr:589`: a cancel accepted after the runner's last look at its
  flag is overwritten by the final state (`docs/guides/api-reference.md:301`).
- `approval.cyr:341`: a decision submitted between the waiter's last look and its
  timeout arm is answered as delivered and not read (254).
- `server/sse.cyr:142`: a lag raised between the load and the clear of the counter
  is wiped (30-31).

Of the Rust tree:

- `orchestrator/orchestrator.rs:205`: the error of a run leaves before the clean-up;
  its token, its channel and an entry that says pending stay (`LeavesNothing` names
  the exception), and the streams on the channel never close (`StreamsEnd` does).
- `orchestrator/durable_state.rs:60-62`: a write that fails after the truncation
  returns the error and leaves neither the old snapshot nor the new one.
- `orchestrator/memory.rs:18` says that a sliding window keeps "the most recent N
  message pairs" and `:20` that head and tail keep "the system message + first message
  + last N messages". The code keeps `max_messages` messages, as the field's comment
  (34) says: the last ones, or the first and the last `max_messages` - 1, with no
  place for a system message of its own, and with a limit of 1 only the last.
  `BufferExact` states what the code does.
- `learning/optimizer.rs:73` gives the update as `reward + gamma * max_Q(s',a')`; the
  maximum is folded from 0 (83-86), so it is never negative, and where every next
  value is, the update uses 0. The lower bound of `LearningSound` on Q values rests
  on that.
- `orchestrator/pubsub.rs:83-84` says that full channels are skipped in silence; tokio's
  broadcast drops the oldest message instead, and the receiver is told it lagged.
  `pubsub.rs:64` counts before it inserts: concurrent subscribers pass the limit.
- `server/rate_limit.rs:44`: a bucket is forgotten after five minutes without use,
  full or not. With a rate and a burst at which five minutes do not refill it (both
  are arguments of `new`) a client regains the difference (`Gift`).
- `orchestrator/crew_runner.rs:521`: a task of a DAG that panics leaves no result
  and the crew is still reported as completed (`OutcomeHonest` names the exception).
  A dependency on an unknown task ends in the "DAG deadlock" error (481).
- `orchestrator/crew_runner.rs:695`: the cache key has the model and the messages of
  the context; tasks that differ only in their description share an answer.
- `orchestrator/plan_cache.rs:58`: agents and tasks are hashed one after the other
  with nothing in between, so crews of different shape can share a plan.
- `orchestrator/approval.rs:140`: the timeout removes whoever's entry is registered
  by then, and a decision sent between the clock and the drop of the receiver is
  answered as delivered while the waiter answers a rejection.
- `server/routes/sse.rs:27`: a stream that was told its crew is unknown can remove
  the channel of a crew registered meanwhile; one that subscribes after its crew
  left waits for ever on a channel of its own; and the clean-up of orphans removes
  channels of running crews, whose streams go on but which no new one finds.
- `sandbox/process.rs:134`: the input is written before the timeout starts, against
  "Maximum wall-clock time before SIGKILL." (37): `ChildEnds` excepts it.
- `sandbox/oci.rs`: a timeout kills the client, not the container.
  `sandbox/wasm.rs:262`: the epoch is the engine's, so one execution's ticker
  interrupts another; and a tick interrupts the code of a module, not a call of the
  host it is in, such as a `poll_oneoff` that sleeps, which `WasmEnds` takes to return.
  `sandbox/kavach_bridge.rs`: a sandbox that fails to start is
  not destroyed.
- `server/routes/a2a.rs:144` answers "completed" whatever the crew's status is.
- `server/prometheus.rs`: counters are read one by one, so a scrape may show more
  crews ended than started.
- `server/output_filter.rs`: the leak scan leaves out the last window, and all of a
  prompt of 50 bytes or less; its windows are of 50 bytes, not "50 chars" (89, 98), and
  those that begin or end inside a character are skipped (100), so that a prompt whose
  characters all have three bytes is never found; phone numbers are found and not redacted; scan and
  redaction differ in what an e-mail address is; of a bearer token only the prefix
  is replaced; the SSN pass damages text that is not ASCII; an address with two @
  takes earlier text with it. Cutting inside a character panics there and in
  `server/prompt_guard.rs:104`.
- `orchestrator/scoring.rs:99` documents other weights than the constants have, and
  `orchestrator/crew_runner.rs:612` prices a model with an unknown provider prefix as
  local, and also one of a family it does not know that was asked for with the prefix
  of a host that is paid for (groq, together, fireworks, anyscale, perplexity, bedrock,
  azure), because that prefix is stripped first (946-947); local models cost nothing.
- `fleet/gpu.rs:170`: a second allocation for a task forgets the first, whose memory
  never comes back (`MemoryAccounted` counts it).
- `fleet/topology.rs:82` counts links, not what they join: a pair listed twice can
  stand for a device with no link, and takes the score of line 49 above its
  documented maximum of 1 (`LinksCounted` assumes single listing there).
- `fleet/relay.rs:174`: what was overtaken on the way, or sent after its sender
  restarted at 1, is dropped as a duplicate.
- `fleet/federation.rs:191`: a second declaration of the same term overrides the
  first.
- `fleet/coordinator.rs:164` retries while the count is below the limit, the Cyrius
  tree while it is not above it: one retry more.
- `tools/builtin/load_testing.rs:147`: a failed request counts twice towards a
  user's limit. `tools/registry.rs:79`: `get_allowed` has no caller in the tree. Two
  wasm packages of one name are both counted as loaded.
- `tools/builtin/security_audit.rs:211`: a site with every header and an open policy
  has 85 points and is "low" risk beside a critical finding; an OPTIONS request that
  fails counts as a closed policy (297).
- `definitions/packaging.rs:96`: a package of 100 definitions can be exported and,
  with its manifest, not imported; keys with ".." are left out of an import without
  an error (127). `definitions/loader.rs`: a file removed during a load fails the
  whole load, as does an entry that cannot be listed.

## 4. Fairness

Weak fairness is assumed of threads only: a thread that can take its next step
takes it (`RunStep`, `ReleaseStep`, `RunnerStep`, `WorkerStep`, `WaiterStep`,
`ClientStep`), because they are operating-system threads with no priorities and
no step of theirs waits for another thread except where its guard says so. In
InferenceQueue it is assumed of each worker's loop, so an inference in flight
comes back, with an answer or an error. The
clock of the approval gate advances. Callers of cancel, forget, submit and
decide, subscribers and the deadline of a crew are never assumed to act. A task
is assumed to finish: a gateway that never answers is bounded by its own timeout
in `llm/hoosh.cyr`, which is outside these modules.

In the runs of the Rust tree it is assumed of what tokio polls once it is ready
(`CrewStep`, `RunnerStep`, `TaskStep`, `ActorStep`, `ServeStep`), of a parent and
its child process (`ParentStep`, `ChildStep`) and of a wasm module with its ticker
(`WasmStep`, a thread of its own). Timeouts, cancels, decisions and the end of a
crew that a request waits for are not assumed; where an end depends on one, the
property names it (`ChildEnds` excepts an input that does not fit the pipe,
`AsyncEnds` a concurrency limit of 0, at which the semaphore gives no permit).
`stores` has no liveness property and no fairness.

## 5. Proofs

`CrewRegistryProofs`, `CrewRunnerProofs`, `ApprovalGateProofs`, `EventBusProofs`,
`ServiceProofs` (scheduler, audit chain, inference queue and fleet), `AsyncProofs`,
`StoreProofs` and `EdgeProofs` prove, for every value of
the constants that satisfies the named assumptions of the module, what the runs check
on small instances.

*CrewRegistry.* `HeldIsRegistered` is not inductive: that a forgotten crew is not
held needs to know whose flag is published, that an entry belongs to the run that
made it, and that no two runs of an id hold it. The inductive invariant `IndInv`
is the conjunction of `TypeOK`, `RunsKnowCrew`, `OutcomeKnown`, `EntryOwned`,
`EntryMade`, `SlotMade`, `FlagOwned`, `RunsCounted` (the spec's run count is the
cardinality of its active runs, which is why release may trust it),
`QueuedHasEnded`, `GoneIsGone`, `OneHolder` (when runs of an id do not overlap)
and `HeldIsRegistered`. From it follow `TypeCorrect`, `EvictionSafe`,
`HeldStays`, `ReleaseSafe` and the action property `NoReturn`. The first, second
and fourth do not depend on how ids are reused.

A second layer, `ServeInv`, is inductive over the first. `ChannelKept` says which runs
an open channel may belong to. `HeldStatus` ties the status of a held crew to the
place of its run and a cancelled status to the run's flag. `Positions` and
`OnceQueued` say that slots are queued one after the other and a state at most once:
that is why a compaction, which keeps a slot for each entry at most, brings the queue
below its bound (`CompactBounds`), and why no older slot can follow an evicted one.
`OrderCount` counts what eviction leaves: the evicted entries inject into the current
slots up to the last one popped, and that slot was popped because with all of those
gone more than the low-water mark was left. From it follow `ChannelsAreOwned`,
`QueueServes`, the action property `RetentionHolds` and the refinement
`LifecycleImplemented`: publishing maps to `Submit` with the evicted crews, a start to
`Begin` unless a cancel landed first, abandoning and an error to `LetGo`, storing the
final state to `End`, forgetting and releasing to `Drop`, and every other step to a
stutter. The last three assume that runs of an id do not overlap (`Reuse # "any"`):
with overlap the first run to end takes down the flag of the second, whose crew may
then be forgotten or queued twice while it runs.

*ApprovalGate.* `IndInv` is `TypeOK`, `RequestsMade`, `SlotIsTold` (what is in a
slot is what the reviewer was told), `PendingIsAwaited`, `DecidedIsOut` (a
decided request is no longer registered, so it is decided once), `FailsClosed`,
`MirrorExact`, `Capacity`, `RegistrationKept`, `ExpiresLate` (a wait that timed
out had reached its deadline) and `DecisionStands`. Theorems: `TypeCorrect`,
`ApprovesOnlyApproved`, `MirrorCorrect`, `PlaceKept`, `DecisionKept`.

*Fleet.* `IndInv` is `TypeOK`, `TrackedTakePart` (a run keeps the progress of
exactly its participants), `NoStuckWait` and `RetriedIsCounted`. `RetryExact` alone
is not inductive: `reassign` turns a failed task into an assigned one, and that its
next failure is not retried follows only from its count, so `RetriedIsCounted` ties
the answers given to the count whatever the status is. That a wait is for somebody
rests on two facts about counts of finite sets (`SomebodyMissing`,
`NobodyMissing`); the second is also what `BarrierOpensForAll` needs, and it asks
that nobody was counted who does not take part: the case of the run
`fleet_barrier`. Theorems: `TypeCorrect`, `WaitsForSomebody`, `RetriesAreExact`,
`BarrierOpensForAll`, `EndedRunsStand`.

*AuditChain.* The chain is a window on the sequence of everything ever linked.
`WindowExact` gives every entry, the anchor and the last hash by their places in
that sequence, and `IdsFresh` says that an id is built once, linked once and in one
thread's hands at most; with `AuditTypeOK` they are inductive. `ChainIsSound`
follows from the first. `TamperingShows` needs both: two places have different
hashes before them (`LinksDiffer`), so an entry fits at its own place only.

*Scheduler.* `load_dag` and the sort are recursive functions. `Unfolds` shows that a
value can be carried through any number of turns, so that the function has the table of
turns its definition chooses from, and `SetInduction` takes an invariant along the
table. For `load_dag` it is `KahnState`: the degree of a key counts its dependencies
that have not been taken, and the queue holds, once each, exactly the keys with none
left; after as many turns as there are keys nothing is left to take (`KahnSettles`), and
a key outside the queue has a dependency outside it, from which follows that no ranking
exists when the DAG is refused (`KahnIsExact`). For the sort it is `SortState`: the next
of the order was the best of those that were ready (`SortTakes`), which fixes the order
(`OrderIsExact`). `OrdersInv` adds that what is loaded was accepted and that a task done
had its dependencies done before; since the first key of an accepted order that is not
done is ready, a loaded DAG runs through. `TiersInv` says that a tier holds its own
priorities by arrival, so `TiersServeInOrder` holds for priorities outside the range
too. Theorems: `ServicesAreSound`, `SortIsExact`, `TiersServeInOrder`.

*InferenceQueue.* That an open request is somewhere is not inductive without that it is
there once: `PlacesInv` says that two places of two levels hold different requests, that
what a thread holds is in no level and with no other thread, and that each place is of
an open request on the level of its priority. Theorems: `OpenInOnePlace`, `TakenInTurn`.

*CrewRunner.* What a run reports at its end depends on where every task has been, so
the invariant `RunInv` follows the tasks: `Where` places each one in `todo`, in
`remaining`, in the batch, in the result list, or among those a cancelled or timed-out
wave dropped; `Waves` ties the sticky failure flag and `completed` to the results of
the waves that are over; `Left` gives what the loops leave undone its cause; `Lists`
keeps `remaining` in the order of the sort, which is why a deadlock without a failure
means a dependency the spec does not hold (the first of what remains waits for a task
that stands before it, which has run, or for no task at all); `Counts` bounds the
batch; `Stream` relates what was sent to where the task is; `Over` is the outcome once
reported. That the loops over the ready and the other tasks keep the order and miss
none (`Parts`) is a fact about a recursive function, proved by induction: `SetInduction`
turns the least element of a set of naturals into an induction rule over sets,
`HistoryExists` shows that the recursion has a solution, `PushedIs` that `Pushed` is its
last value. Theorems: `RunnerIsSound`, `OutcomesAreExact`, `StreamIsPaired`,
`CancelHolds`.

*EventBus.* `BusSound` says nothing of a sender the map has let go of, nor of a
subscription in the pool. `BusInv` adds that every sender ever made was made for one
crew (`Owners`), that every subscription made is held by one client or pooled
(`Holders`), open, empty and on no list when pooled (`Contents`, `Listed`), where a
client may hold what (`ByPlace`), and that no more subscriptions are made than there
are clients, since the pool is asked first (`Minters`). Theorem: `BusIsSound`.

*The asynchronous runtime.* `AsyncProofs` is about the composition `AsyncSpec`; a step
of the whole is a step of one part and leaves the others (`EachPart`), so each part has
an invariant of its own. `OrchInv` adds to `CrewsSound` that a flag a run has heard was
raised and that what is stored is a state. `GateInv` adds which entry of the map is
open (`EntryIsOpen`) and where a waiter is. `BusInv` adds where an actor may hold a
channel, since a stream that found it closed must know that nobody will send again.
`ExecInv` says that each answer in the cache and in a task was earned under its key and
counts the questions by stage. `RunnerInv` ties the runner's phase to what its tasks
hold: permits, results, the tasks in flight, and what a status may rest on. Theorems:
`CrewsAreSound`, `NobodyIsMisled`, `AnswersAreAccounted`, `RunsAreSound`.

*Stores.* `StoreProofs` is about the composition `StoresSpec` of nine modules that share
no variable: a step is a step of one store and leaves the others (`EachStore`), so each
store has an invariant of its own, and fourteen of them are inductive.
- `DurableInv`: beside the file a save touches nothing until the rename; in place, a
  save that nothing came into is alone and has the file torn until it is done.
  `SnapshotsRecover` covers a crash between any two steps and a disk error at any step,
  for both trees; a save in place that fails after it truncated the file leaves it torn,
  and the property names that.
- `AsksInv`: a request is in exactly one lane, hand or answer. `AsksAreInOrder` is the
  action property that follows.
- `PubSubInv`: whoever is owed a message is on an open channel whose pattern matches,
  and has it once the walk over the map has passed (`OwedExact`); the room for patterns
  is exceeded only by subscribers between lookup and insert (`RoomTaken`). The matcher
  itself is a recursive function; `MatcherIsExact` shows that below the depth limit it
  says what the rules of wildcards say, by induction on its depth.
- `PlansInv`, `TalkInv`, `BudgetInv`: an entry of the plan cache is the last plan of its
  key; the messages kept are those that trimming the whole conversation once would keep
  (`TrimIs`); what the calls under way may still add is within the overshoot, and a
  rounded cost is within nine tenths of a unit a call.
- `IpcInv`: what is on the wire and still to be written is the rest of the frame being
  read and then whole frames in order (`Chain`, `BeginsAt`), to the last one while
  the link is up (`EndsWhole`). No frame is cut, joined or repeated, whatever is read at a
  time and wherever the peer hangs up.
- `LearningInv` has a part for each store: the replay buffer holds none worse than what
  it dropped (`ReplayInv`), the counts are those of the whole history and the window is
  its end (`ScoreInv`), records stay within the capacity (`RecordInv`), Q values within
  the geometric sum of the rewards (`QInv`), and every arm is pulled before one is
  pulled twice (`ArmsInv`).
- `FedInv`, `RelayInv`, `NodesInv`: what a cluster believes of itself, of roles and of
  the status of others is what its term and its last check say; accepted numbers
  increase and are those that were sent, with the sends under way counted; a node's
  status is what the last sweep made of its last heartbeat, and a placement is a best
  one among those eligible.
- `DevicesInv`, `LinkedInv`: memory used on a device is what its tasks hold and what
  was lost; that a joined set of n devices has n - 1 fast links (`JoinedNeeds`) is shown
  by growing a tree one link at a time.

`StoresAreSound` and `MembershipIsSound` combine them. The induction these proofs need
is over sets of naturals (`SetInduction`, from the least element) and over finite sets
by their size (`SizeInduction`); sums over finite sets, first maxima (`FirstOfBest`) and
pairs (`PairsCount`) are lemmas of their own. The assumptions are those of the modules:
sets of actors finite, capacities and timeouts naturals in the order the code gives
them, and the fixed-point scale of `Learning` (`QScale`) a multiple of the powers of two
its halvings need, which stands for the float arithmetic of the code being fine enough
for the steps explored.

*The edge.* `EdgeProofs` is about `EdgeSpec`, in which a step moves one part
(`EachEdge`); each part has an invariant of its own.
- `RequestInv`: the depth-first search with its explicit stack. A task is marked as in
  progress exactly when it is on the stack, and it is there once (`InProgress`); each
  task on the stack needs the one above it, and whatever else it needs is settled or
  still listed (`Chained`), so a task met in progress closes a circle; the settled tasks
  can be numbered so that the numbers fall along every dependency (`Numbered`), so when
  all are settled there is no circle. With the lengths and ranges of the other fields,
  and the limits of a request from another system, this is
  `ValidatedExactly`, for graphs of any size.
- `HttpInv`, `RateInv`, `VersionInv`, `MetricInv`: who is handled is public or has
  credentials the environment accepts, and a server that is down has nobody inside;
  what a client was let through and what its bucket would hold now are together within
  the burst, the rate and a gift per eviction, which is what an eviction interval falls
  short of refilling a burst: nothing, if rate times interval reaches the burst, which
  no constant of the code says (rate and burst are arguments of `new`, the interval is
  five minutes); a bucket is forgotten at most once an interval; the history is the end of what was saved, numbered on; the active counter
  is the number of crews between its two updates.
- `ChildInv`, `WasmInv`, `KavachInv`: the backend is the weakest that is as strong as
  the policy asks; what was written is in the pipes, with the child or read
  (`Passing`), so a call that collects its output has all of it; a module that has left
  left no ticker, and one that nobody's ticker crossed was stopped at its own deadline.
- `RegistryInv`, `FetchInv`, `GradeInv`: a name stands for the last package of it that
  loaded, and a caller keeps the tool it found, whatever is removed or replaced; a
  download that is accepted was safe, answered and within the limit, whatever was
  declared; a grade is that of what was found.
- `LoaderInv`: every entry the walk has passed is loaded, unwanted or gone, and an entry
  about to be read was wanted, also when the listing breaks off. `RedactInv`: cutting out keys brings no second byte of a
  character into a text that had none.

Theorems: `EdgeIsSound`, `GradeIsSound`, `LoaderKeepsAll`, `RedactionPanicsExplained`.
Circles are defined by paths no longer than the number of tasks (`Circular`), which is
what TLC enumerates and the proof relates to the numbering.
Only model-checked: the liveness properties (`RunsEnd`, `RunReturns`, `WaitEnds`,
`AttachedEnds`, `QueuesServe`, `AsyncEnds`, `EdgeEnds`) and everything about ENABLED,
which are out of the prover's reach; and, of `DecisionsSound`, all but what
`GradeIsSound`, `LoaderKeepsAll` and `RedactionPanicsExplained` say: `ChoiceSound`,
`PlanSound` and `LoadExact` rest on a sort written with `SortSeq`, and the passes of
`FilterSound`, the teams of `ChoiceSound` and the bundle of `PackageKept` on `SelectSeq`
with a local operator, neither of which tlapm can expand, and `PlanSound` also on powers
of two. They compare algorithms with reference definitions over all small inputs. A
library theorem that takes an operator cannot be used with the installed provers; where
a proof here needs induction, the least element of a set of naturals takes its place.

## 6. Not modelled

- Parsing, formatting and transport (HTTP, JSON, SSE frames, OTLP, Prometheus text,
  Kubernetes resources) and cryptography: no state over time that the properties
  could tell apart. An entry, a token or a snapshot is valid or not.
- The builtin tools except the load test and the audit, and the LLM client: each is a request to
  another service. The tool loop of the Cyrius tree is one step of a task with the
  outcomes the runner distinguishes.
- The Cyrius ports of what is modelled from the Rust tree: stores, server, sandbox,
  tools, fleet membership, learning, definitions. What differs in them (threads
  instead of tasks, HTTP over its own sockets) would need modules of their own.
- Environment and discovery of the fleet: detection of the machine it runs on.
- The bandit's logarithm and square root; learning rates other than a half.
- Hot configuration and telemetry: one assignment, and exporters of other libraries.
- Memory allocation, except where lifetime matters (release of a crew's arena).
- External code (mutexes, channels, clocks and threads of the Cyrius library; tokio,
  axum, wasmtime, jsonwebtoken, majra, kavach and hoosh of the Rust tree) is assumed
  to do what the code relies on.
