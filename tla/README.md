# kconmon-ng: a TLA+ verification development

kconmon-ng measures the network between the nodes of a Kubernetes cluster. An
*agent* on every node probes its peers; a *controller* (several replicas, one
leader) keeps the registry of agents, tells each whom to probe and hands out
on-demand and external checks; an optional *console* stores definitions, runs
and schedules checks, watches alerts and serves a web UI.

This directory models the controller's core and its conversation with the
agents and the console, model-checks it with TLC on small instances and proves
its main invariants with TLAPS for instances of any size. Paths below are
relative to `src/internal/`.

## 1. Inventory

| part | state | operations | what makes it hard |
|---|---|---|---|
| registry (`controller/registry.go`) | agents, TTLs, `notifyMu` | Register, UpdateZone, Deregister, Heartbeat, EvictStale, ResetQuiet | callbacks run under `notifyMu`, readers do not take it |
| election (`controller/election.go`, `controller.go`) | leader flag, lease | promote, demote in five steps, retry | handlers that passed the gate run on through a demotion |
| peer fan-out (`controller/grpc_server.go`) | plan, pending snapshot, armed timer, watchers and mailboxes | Register's answer, WatchPeers, broadcast window, flush, desync | four locks, two unlocked reads per subscription, bounded mailboxes |
| mesh plan (`controller/meshplan`) | none (pure) | Build | map order, hash ties, tiny fleets and zones |
| diagnostics (`controller/diagnostics.go`, `tasks.go`, `agent/tasks.go`) | pending tasks, task streams, executor slots | Dispatch, Subscribe, Report, FailAll, Handle | two streams during a reconnect, timeouts against late results, agent restarts |
| external checks (`controller/external.go`) | record per agent, resync marks, subscriptions | PUT, apply, Subscribe, Reset | pushes after the mutex, full buffers, a lagging console |
| agent loops (`agent/agent.go`, `grpc_client.go`) | peers, rejoin generation, backoffs | register, resubscribe, rejoin grace | timers of an older generation |
| agent scheduler and reload (`agent/scheduler.go`, `reload.go`) | checkers, peers, running rounds | rounds, ReplacePeers, pause, reactive MTR | rounds that outlive the peers they probe |
| node watcher (`controller/informer.go`) | nodes, zones | add, update, delete | announced after its lock is released |
| gateway guard (`controller/gateway_conn.go`) | pending slots | admit, handshake, authenticate, expire, close | exactly-once release, victim choice at the cap |
| runner and reaper (`console/checks/runner.go`) | run rows, run controls, topics | Start, execute, Cancel, reap | cancellation over a lossy bus, replicas that die |
| scheduler (`console/scheduler`) | due rows, last runs | Tick, fireOne | starts that fail after the row was read |
| reconciler (`console/checks/reconciler.go`) | fingerprint memo | leaderTick | a memo about another process's memory |
| alert watcher (`console/webhooks/watcher.go`) | firing, suppressed, unchecked, pending resolves | poll | three reads of which any may fail |
| webhook dispatcher (`console/webhooks/dispatcher.go`) | admission slots, attempt slots | enqueue, deliver, Close | shutdown against retries |
| websocket hub (`console/ws/hub.go`) | clients, rings, ephemeral topics | subscribe, Broadcast, open, close, reap | replay against live frames |
| event stream and ingester (`controller/grpc_server.go`, `console/events`) | connect gate | attempt, consume | a grace timer racing the stream's end |
| controller client (`console/controllerclient`) | retry ladder | Diagnose, PutExternalChecks | finding the leader behind one service |

The console's HTTP API, authentication, SQL store, rule rendering and
read-only projections, the checkers, the CLI, metrics, charts and the web UI
hold no protocol of their own; `PROJECT.json` lists them with the reason.

## 2. Plan

Done: the first four modules below, their runs, and the proofs of the first
two.

1. **PeerFanout** – registry changes, plan, broadcast, streams, failover, reload.
2. **TaskDispatch** – a diagnostic from the HTTP call to its answer.
3. **ExternalAssignments** – PUT, record, streams, agents' target lists.
4. **MeshPlan** – the plan itself against reference definitions.
5. *Agent rejoin and scheduler*: peers are neither dropped inside the grace nor
   kept after it; no gauge of a departed peer is written again.
6. *GatewayGuard*: a slot is given back exactly once, the cap holds, a flooding
   source loses its own connections first.
7. *Runs*: runner, cancellation over the bus, reaper, scheduler. A run ends in
   exactly one terminal state, a cancelled run is not reported completed, a
   one-shot schedule runs exactly once or keeps coming due. An abstract run
   life cycle, refined by the runner.
8. *Alerts*: the watcher's edges (no resolve without its firing, nothing lost
   to a window) and the dispatcher's single outcome.
9. *Hub* and *ingester*: replay and live frames without gap or repeat; nothing
   after the closing frame.
10. *Composition*: two replicas over one lease, with the agents' loops of 5 on
    top of 1 and 3: every agent ends on the leader's mesh.
11. *Proofs*: StreamsEndOnRecord for ExternalAssignments under the assumptions
    of section 5, then the invariants of 5, 6 and 7.

## 3. Modules and their correspondence to the code

`PROJECT.json` ("map") names the source lines of every definition. Definitions
that only serve as mutants say so in a comment that starts with "As if".

### PeerFanout

One replica. Each action is one critical section, or one unlocked read, of one
goroutine.

* `registry`, `notify`: the agents map and what the holder of `notifyMu` does
  next. `Register`, `UpdateZone`, `Deregister`, `EvictStale` change the map and
  hand the snapshot to the callback, whose two steps are `InstallPlan`
  (SetPeerPlan) and `SchedulePeerBroadcast`.
* `armed`, `pending`, `flush`, `flushSnap`: the trailing-edge window.
  `FlushTake` is flushPeerBroadcast's critical section, `FlushCheck` its stop
  and leadership checks, `BroadcastPeerUpdate` the fan-out under `watchersMu`.
* `stream`, `mailbox`, `hand`, `sent`, `desynced`: a WatchPeers handler. It adds
  its watcher, reads the peers, filters them by the plan and sends (`WatchAdd`,
  `WatchList`, `WatchFilter`, `SendDone`), then pumps its mailbox. A list that
  finds the mailbox full marks the stream for teardown.
* `handler`: a Register call: gate, mutation, callback, filtered answer.
* `election`: leading, then SetLeader(false)'s steps in order (flag, ResetQuiet,
  plan), the retry period, contention. `fresh` is a history variable: the
  stream was added in this term.
* `topology`, `reload`: ApplyConfig's topology branch.

An agent's address, ports and zone are one value of `Infos`; a list is a
function from ids to them. TTL time is abstracted: `EvictStale` may take any
agents. `Build` is a constant operator, assumed only to return no plan or one
with exactly an entry per agent (`BuildAssumption`); MeshPlan's `TypeOK` checks
that of the real algorithm.

### TaskDispatch

`call[t]` follows one request through ServeHTTP and Dispatch; `left[t]` is the
snapshot of channels still to be offered the task and `done[t]` its outcome
channel of capacity one. `stream`, `queue`, `hand` are WatchTasks handlers, and
`reading[a]` is the one stream agent `a` still reads: over a reconnect the
server may keep pumping the old one. `running`, `reports` are the executor and
the ReportTaskResult calls under way; reports can be lost, late, or about a
task nobody waits for. An agent may restart with tasks in it. `Orphan` stands
for channels whose stream ended after a snapshot was taken. Payloads are
reduced to the kind of outcome; a task id names one call, and `done` is keyed by
it as `pending` is in the code.

### ExternalAssignments

`put[p]` follows a PUT handler: gate and body, registry read (`unknown`),
`Apply` under the mutex, then the pushes, one channel at a time, outside it.
`assigned` and `resync` are the manager's record and marks; `want` is the state
the console's reconciler computes, which every PUT carries whole. A body that is
refused (undecodable, or with a check type or params the controller does not
take) returns before `Apply` and changes nothing, so it has no action.

A list is a sequence of specs, since order is significant to `sameSpecs` and to
the agent. `Targets` is what the agent makes of one: `Parsed` drops the specs
`ParseExternalSpec` refuses, `Truncated` cuts the rest at
`checkers.external.maxTargets`, and nothing runs without an external checker.
`applied` is the resulting set of targets, `last` the assignment the agent
keeps, `ceiling` its maxTargets or `Off`. `ReloadAgent` is ApplyConfig with
another external block: it re-reads `last` under the new ceiling, or drops it
together with the checker and the subscription. The agent's handler is one step
with the write that feeds it; a message that waits out two reloads on
`reloadMu` is not modelled. `SetSpecs` also drops the second spec of one
definition, which never happens here: the console lists a definition once.
`wiped` is a history variable for the action property: the agents that some PUT
or a demotion left with nothing they accept.

### MeshPlan

`Build` translated operator by operator: sort, ring, the insertion window of
`pushBest`, chords, zone-pair repair, threshold. FNV and `pairScore` become a
free weight function, so every ranking and every collision can be instantiated.
The state machine around it registers and removes agents and rebuilds from a
snapshot in *every* order.

## 4. Runs

| run | instance | result |
|---|---|---|
| fanout_sparse | 3 agents, 1 stream, full/sparse reloads, 4 events; 3.1 M states | safety holds |
| fanout_streams | 2 agents that may change address, 2 streams of one id, 3 events; 2.8 M | safety holds |
| fanout_live | 2 agents, 1 stream, reloads, 3 events, fair; 116 k | StreamsConverge holds |
| fanout_overlap | as above with two overlapping flushes | **violated**, see section 6 |
| fanout_standby | Register against a demotion | **violated** |
| dispatch_reconnect | 2 tasks, 2 streams of one of 2 agents, 1 executor slot, 2 events; 1.5 M (symmetry) | safety holds |
| dispatch_live | 1 task, 3 events, fair; 59 k | EveryCallReturns holds |
| external_serial | 1 agent, 1 stream, 1 PUT at a time, lists with a refused spec and past the ceiling, reloads, 5 events, fair; 421 k | safety, action property and liveness hold |
| external_survivor | streams may outlive a term | **violated** |
| external_overlap | 2 PUT handlers | **violated** |
| external_reconnect | 2 streams of one id | **violated** |
| mesh_small | up to 4 agents, 3 zones, 3 layouts, 3 weightings, 7 configurations, all orders; 14 k | all hold |

**Bounds.** `MaxEvents` counts what the environment does (calls, losses,
demotions, reloads, expiries), never what the code does in response, so every
behaviour of the code to that many events is explored. Buffers have capacity 1
where the code has 16: a buffer that fills at once meets every overflow case
with fewer events. Two streams are enough for a reconnect, since an agent reads
one at a time, and three agents are the least for which a ring differs from a
full mesh. Lists of two specs against ceilings of one and two meet a cut, an
exact fit, a refused spec before a sound one and a list that is refused whole.
The weights of mesh_small give every agent a ranking of its own in one table and
collide in the two others. Tasks and the slots of one agent are interchangeable in
dispatch_reconnect, hence the symmetry; no liveness is checked with symmetry.
Deadlock is not checked where the events may run out and every goroutine be
parked, which is how these servers rest; mesh_small checks it.

**Properties.**

* `StreamsEndOnCurrentList`: once no broadcast is scheduled or under way, the
  last list on every undamaged stream of this term is the one the current
  registry and plan give its agent. `StreamsConverge` is its liveness form.
* `PlanCoversRegistry`, `RegisterSeesItsPlan`: the plan is never consulted for
  an agent it does not know, except half-way through a change or a demotion.
* `RunsAtMostOnce`, `AnswerIsFromTarget`, `RefusedMeansNotRun`,
  `EveryCallReturns`: what a caller of the diagnostics API may rely on.
* `StreamsEndOnRecord`: a PUT may skip an agent whose record matches, because
  its stream ends on that record. `ChecksStopOnlyOnRequest`: an agent is left
  with nothing to run only by a PUT that held nothing it accepts, by its own
  config, or by a demotion. `AgentsConverge`: once everything settles, an agent
  runs the wanted specs it does not refuse, up to its ceiling. `RunsWanted`
  states that by counting, apart from the operators that compute it. The three
  hold under `SerialPuts`, `StreamsEndFirst` and one stream per agent id.
* `ReplicasAgree`, `StronglyConnected`, `ZonePairsObserved`, `ChordsAreBest`:
  the plan is independent of the snapshot's order, connects everyone, observes
  every ordered zone pair, and the windowed scan picks what a full ranking
  would.

Each property of a passing run has a mutant in `PROJECT.json`: a plausible bug
in a mapped definition under which TLC finds it violated.

## 5. Assumptions and fairness

What the runs assume of timing and of the deployment. `PromptFlush`,
`SerialPuts` and `StreamsEndFirst` are constants, which a run can switch off;
the others are guards of an action:

* `PromptFlush`: a flush ends before the next window's timer fires (the window
  is 200 ms, the fan-out never blocks). fanout_overlap drops it.
* `RetryPeriod`: the election loop waits 2 s, ten windows, before it contends,
  so flushes armed before a demotion are over. This is the guard of the action
  `RetryPeriod` and holds in every run.
* `SerialPuts`: one PUT at a time. The console's reconciler holds an advisory
  lock, but a PUT whose client timed out may still be running when it is
  retried. external_overlap drops it.
* `StreamsEndFirst`: streams end between two terms. Nothing in the code
  guarantees it: the leader check runs every 5 s. external_survivor drops it.
* One process per agent id. An id has any number of open streams, and the
  process reads one of them (`WatchTasks`, `WatchExternalChecks`). The ids are
  supplied by the agents and two hosts may share one (`registry.go:116` warns of
  it, `tasks.go:26` keeps both streams): a task would then run at both, and a
  "busy" answer of one would say nothing of the other. `RunsAtMostOnce` and
  `RefusedMeansNotRun`, and their theorems, are about one process and its
  reconnects. external_reconnect has two streams of one id.

Fairness is weak fairness on steps of goroutines that are ready, on timers, on
the lease being acquired again, on agents resubscribing (their loops retry with
backoff for as long as they live) and on the console's repeated PUT (at least
every two minutes). In TaskDispatch only the request's own goroutine and its
timeout are fair: EveryCallReturns needs nothing of agents or streams.
Events of the environment have no fairness.

## 6. Findings

* **Flushes may overtake each other** (fanout_overlap). flushPeerBroadcast
  releases `broadcastMu` before it pushes, so two flushes can deliver in the
  opposite order and the older list stays. The comment at
  `controller/grpc_server.go:611` claims the order is preserved; it is as long
  as a flush ends within one window.
* **A standby may hold an agent** (fanout_standby). A Register call past the
  gate stores its agent after ResetQuiet. Comments at
  `controller/grpc_server.go:294` and `controller/reload.go:68` say a standby
  holds none. The agent's heartbeats are then answered by a standby, and keep it
  there; it goes only a TTL after they stop.
* **A stream may survive two terms** (external_survivor). Reset empties the
  record but not the stream, and the retry period is shorter than the leader
  check: an agent that should run nothing keeps its checks, since the record
  already agrees with a PUT that wants nothing.
* **Pushes may be reordered** (external_overlap): records are written under the
  mutex, pushes are not.
* **A dying stream may swallow a push** (external_reconnect): the resync mark is
  set only if *no* stream of the id took it.

A related remark without a run of its own: a diagnostics request past the gate
registers its task after FailAll and may still be given a result by the demoted
replica, although the comment at `controller/tasks.go:168` says no result can
arrive. It does no harm: the result is genuine.

## 7. Proofs

All theorems hold for any sets of agents, streams, tasks and flushers, any
buffer capacity and any number of events.

**PeerFanoutTypes** proves `TypeOK`, then `PlanInv`: while `notifyMu` is held,
its holder's snapshot *is* the registry; at "schedule", and when idle outside
"unplan", a plan in force covers the registry; and an agent whose handler has
reached its answer is in the plan. The last conjunct is what neither property
says: a Register call leaves "notifying" only in the step that follows
InstallPlan. `PlanCoversRegistryCorrect` and `RegisterSeesItsPlanCorrect` follow
from `BuildAssumption` alone, without timing assumptions.

**PeerFanoutProofs** proves `StreamsEndOnCurrentListCorrect` from `PromptFlush`.
The invariant `IInv` says where the newest snapshot is: with the holder of
`notifyMu`, in `pending`, or with the flush that took it; when it is in none of
them, each stream's last list is current (`Delivered`, which also follows a
handler through "filter" and "send"). The property itself is not inductive: it
says nothing about a stream that is still reading, nor about what a flush
carries.

**TaskDispatchTypes, -Copies, -Calls, -Proofs** prove the three safety
properties of the dispatch. `CopyInv` says where copies of a task can be (at
most one per channel, only in streams of its target), `RanInv` that a task that
ran has no copy left that its agent could still read, `CallInv` ties the call's
steps to its outcome, `BusyInv` that a refusal in flight excludes an execution,
`AnswerInv` that every result, wherever it is, stems from one.

Only model-checked: liveness, everything about ExternalAssignments, and
MeshPlan, whose recursion over data is outside what the provers can do by
induction.

## 8. Not modelled

Message contents beyond what the properties tell apart, logging, metrics,
request validation, TLS and tokens, SQL, the lease protocol itself (client-go),
probes and their measurements, the web UI. Parts that do have a protocol and are
still to come are in section 2, with their hazards in `PROJECT.json`.
