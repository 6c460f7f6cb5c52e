----------------------------- MODULE PeerFanout -----------------------------
(***************************************************************************)
(* How one controller replica tells its agents whom to probe.              *)
(*                                                                         *)
(* The registry (internal/controller/registry.go) is changed under         *)
(* notifyMu, which stays held while the change's callback installs the     *)
(* probe plan and schedules a broadcast (controller.go).  A trailing-edge  *)
(* timer flushes the newest snapshot into the mailbox of every WatchPeers  *)
(* stream (grpc_server.go), whose handler writes it to the agent.  Every   *)
(* update is a FULL_SYNC that the agent applies by wholesale replacement,  *)
(* so the LAST list a stream carries is the mesh its agent probes.         *)
(*                                                                         *)
(* Around this run the election loop (election.go, SetLeader) and the      *)
(* config reload (reload.go).  Each action below is one critical section,  *)
(* or one unlocked read, of one goroutine.                                 *)
(***************************************************************************)
EXTENDS Naturals, Sequences, FiniteSets

CONSTANTS
    Agents,           \* agent ids
    Infos,            \* what an agent registers: address, ports, zone
    Topologies,       \* values of the hot-reloadable topology config
    Streams,          \* slots for WatchPeers handlers
    Owner,            \* Owner[s]: the agent id stream slot s is opened under
    Buffer,           \* peerWatcherBuffer, 16 in the code
    Flushers,         \* flushPeerBroadcast goroutines that may run at once
    Build(_, _),      \* meshplan.Build(snapshot, topology)
    NoPlan,           \* the nil plan: full mesh
    PromptFlush,      \* TRUE: a flush is over before the next window's timer fires
    MaxEvents         \* bound on the environment's events

\* A registry snapshot: the registered ids and what each registered.
Snapshots == UNION {[S -> Infos] : S \in SUBSET Agents}
Plans == UNION {[S -> SUBSET Agents] : S \in SUBSET Agents}

ASSUME FanoutConstants ==
    /\ Owner \in [Streams -> Agents]
    /\ Buffer \in Nat \ {0}
    /\ MaxEvents \in Nat
    /\ PromptFlush \in BOOLEAN
    /\ NoPlan \notin Plans

\* A plan, when there is one, has an entry for exactly the agents it was built from.
ASSUME BuildAssumption ==
    \A r \in Snapshots, t \in Topologies :
        \/ Build(r, t) = NoPlan
        \/ Build(r, t) \in Plans /\ DOMAIN Build(r, t) = DOMAIN r

VARIABLES
    election,    \* where the election loop is; "leading" is leader = true
    registry,    \* Registry.agents
    notify,      \* what the holder of notifyMu does next, and its snapshot
    topology,    \* Controller.topology
    reload,      \* ApplyConfig between its leader check and WithSnapshot
    peerPlan,    \* GRPCServer.peerPlan
    armed,       \* GRPCServer.broadcastArmed
    pending,     \* GRPCServer.pendingPeers (meaningful while armed)
    flush,       \* flush[f]: where flushPeerBroadcast goroutine f is
    flushSnap,   \* flushSnap[f]: the snapshot it took
    handler,     \* handler[a]: where the Register call of agent a is
    stream,      \* stream[s]: where the WatchPeers handler in slot s is
    hand,        \* hand[s]: the list that handler is reading or writing
    mailbox,     \* mailbox[s]: peerWatcher.ch
    desynced,    \* desynced[s]: peerWatcher.desynced is closed
    sent,        \* sent[s]: the last list written to the stream
    fresh,       \* history: broadcasts of this term reach stream s
    stopped,     \* stopCh is closed
    events       \* how many environment events have happened

leaderVars  == <<election>>
regVars     == <<registry, notify>>
planVars    == <<topology, reload, peerPlan>>
flushVars   == <<armed, pending, flush, flushSnap>>
streamVars  == <<stream, hand, mailbox, desynced, sent, fresh>>
vars == <<leaderVars, regVars, planVars, flushVars, handler, streamVars,
          stopped, events>>

Empty == [a \in {} |-> CHOOSE i \in Infos : TRUE]
Idle == [step |-> "idle", snap |-> Empty]

leader == election = "leading"
Watching(s) == stream[s] \in {"added", "filter", "send", "pump"}

\* Registry.GetPeers / the self filter of BroadcastPeerUpdate, then filterPeersByPlan.
Peers(a, snap) == [b \in DOMAIN snap \ {a} |-> snap[b]]
Planned(a, list, plan) ==
    IF plan = NoPlan THEN list
    ELSE [b \in {c \in DOMAIN list : a \in DOMAIN plan /\ c \in plan[a]} |-> list[b]]
View(a, snap, plan) == Planned(a, Peers(a, snap), plan)

Init ==
    /\ election = "contend"
    /\ registry = Empty /\ notify = Idle
    /\ topology \in Topologies /\ reload = "idle" /\ peerPlan = NoPlan
    /\ armed = FALSE /\ pending = Empty
    /\ flush = [f \in Flushers |-> "idle"]
    /\ flushSnap = [f \in Flushers |-> Empty]
    /\ handler = [a \in Agents |-> "idle"]
    /\ stream = [s \in Streams |-> "closed"]
    /\ hand = [s \in Streams |-> Empty]
    /\ mailbox = [s \in Streams |-> << >>]
    /\ desynced = [s \in Streams |-> FALSE]
    /\ sent = [s \in Streams |-> Empty]
    /\ fresh = [s \in Streams |-> FALSE]
    /\ stopped = FALSE
    /\ events = 0

Event == events < MaxEvents /\ events' = events + 1

Flushing == {f \in Flushers : flush[f] # "idle"}
\* No peer broadcast is being prepared, is due or is under way.
Quiet == notify.step = "idle" /\ ~armed /\ Flushing = {}

-----------------------------------------------------------------------------
(* Registry mutations.  notifyMu is taken first, the map changes under     *)
(* r.mu, and notifyMu stays held for the OnChange callback.                *)

Publish(snap) ==
    /\ registry' = snap
    /\ notify' = [step |-> "plan", snap |-> snap]

\* GRPCServer.Register: the leadership gate, before anything is locked.
RegisterGate(a) ==
    /\ handler[a] = "idle" /\ leader
    /\ Event
    /\ handler' = [handler EXCEPT ![a] = "gated"]
    /\ UNCHANGED <<election, regVars, planVars, flushVars, streamVars, stopped>>

\* As if the callback ran after Register had returned.
RegisterUnannounced(a) ==
    /\ handler[a] = "gated" /\ notify.step = "idle"
    /\ \E i \in Infos :
        Publish([b \in DOMAIN registry \cup {a} |-> IF b = a THEN i ELSE registry[b]])
    /\ handler' = [handler EXCEPT ![a] = "answer"]
    /\ UNCHANGED <<election, planVars, flushVars, streamVars, stopped, events>>

\* Registry.Register.
Register(a) ==
    /\ handler[a] = "gated" /\ notify.step = "idle"
    /\ \E i \in Infos :
        Publish([b \in DOMAIN registry \cup {a} |-> IF b = a THEN i ELSE registry[b]])
    /\ handler' = [handler EXCEPT ![a] = "notifying"]
    /\ UNCHANGED <<election, planVars, flushVars, streamVars, stopped, events>>

\* Registry.UpdateZone: every agent of one node that has no zone of its own.
UpdateZone ==
    /\ notify.step = "idle"
    /\ Event
    /\ \E S \in (SUBSET DOMAIN registry) \ {{}}, i \in Infos :
        /\ \A a \in S : registry[a] # i
        /\ Publish([a \in DOMAIN registry |-> IF a \in S THEN i ELSE registry[a]])
    /\ UNCHANGED <<election, planVars, flushVars, handler, streamVars, stopped>>

\* Registry.Deregister; an unknown id changes and publishes nothing.
Deregister(a) ==
    /\ notify.step = "idle" /\ a \in DOMAIN registry
    /\ Event
    /\ Publish([b \in DOMAIN registry \ {a} |-> registry[b]])
    /\ UNCHANGED <<election, planVars, flushVars, handler, streamVars, stopped>>

\* Registry.EvictStale: one sweep removes every agent past its TTL.
EvictStale ==
    /\ notify.step = "idle"
    /\ Event
    /\ \E S \in (SUBSET DOMAIN registry) \ {{}} :
        Publish([b \in DOMAIN registry \ S |-> registry[b]])
    /\ UNCHANGED <<election, planVars, flushVars, handler, streamVars, stopped>>

-----------------------------------------------------------------------------
(* The OnChange callback and ApplyConfig, both under notifyMu.             *)

\* SetPeerPlan(meshplan.Build(agents, topology)).
InstallPlan ==
    /\ notify.step = "plan"
    /\ peerPlan' = Build(notify.snap, topology)
    /\ notify' = [notify EXCEPT !.step = "schedule"]
    /\ UNCHANGED <<election, registry, topology, reload, flushVars, handler,
                   streamVars, stopped, events>>

\* SchedulePeerBroadcast, then notifyMu is released and a Register call goes on.
SchedulePeerBroadcast ==
    /\ notify.step = "schedule"
    /\ pending' = notify.snap
    /\ armed' = TRUE
    /\ notify' = Idle
    /\ handler' = [a \in Agents |-> IF handler[a] = "notifying" THEN "answer" ELSE handler[a]]
    /\ UNCHANGED <<election, registry, planVars, flush, flushSnap,
                   streamVars, stopped, events>>

\* ApplyConfig with a new topology: stored first, then replanned if IsLeader.
ReloadTopology ==
    /\ reload = "idle"
    /\ Event
    /\ topology' \in Topologies \ {topology}
    /\ reload' = IF leader THEN "replan" ELSE "idle"
    /\ UNCHANGED <<election, regVars, peerPlan, flushVars, handler, streamVars, stopped>>

\* WithSnapshot: the same two steps as a change, on an unchanged registry.
Replan ==
    /\ reload = "replan" /\ notify.step = "idle"
    /\ notify' = [step |-> "plan", snap |-> registry]
    /\ reload' = "idle"
    /\ UNCHANGED <<election, registry, topology, peerPlan, flushVars, handler,
                   streamVars, stopped, events>>

\* Register answers with Planned(a, Peers(a, registry), peerPlan) and returns.
RegisterAnswer(a) ==
    /\ handler[a] = "answer"
    /\ handler' = [handler EXCEPT ![a] = "idle"]
    /\ UNCHANGED <<election, regVars, planVars, flushVars, streamVars, stopped, events>>

-----------------------------------------------------------------------------
(* The coalesced flush: take the newest snapshot, check, then broadcast.   *)

\* The timer fires.  With PromptFlush the previous flush is over by then.
FlushTake(f) ==
    /\ armed /\ flush[f] = "idle"
    /\ PromptFlush => Flushing = {}
    /\ flush' = [flush EXCEPT ![f] = "taken"]
    /\ flushSnap' = [flushSnap EXCEPT ![f] = pending]
    /\ armed' = FALSE
    /\ pending' = Empty
    /\ UNCHANGED <<election, regVars, planVars, handler, streamVars, stopped, events>>

\* The stopCh and leadership checks, which drop the snapshot.
FlushCheck(f) ==
    /\ flush[f] = "taken"
    /\ flush' = [flush EXCEPT ![f] = IF stopped \/ ~leader THEN "idle" ELSE "go"]
    /\ flushSnap' = IF stopped \/ ~leader THEN [flushSnap EXCEPT ![f] = Empty] ELSE flushSnap
    /\ UNCHANGED <<election, regVars, planVars, armed, pending, handler, streamVars,
                   stopped, events>>

\* The select on a watcher's channel: there is room, or the default case marks the watcher.
EndlessRoom(s) == TRUE      \* as if the channel had no capacity
HasRoom(s) == Len(mailbox[s]) < Buffer
SilentDrop(s) == FALSE      \* as if the default case only dropped the update
Overruns(s) == Watching(s) /\ ~HasRoom(s)

\* BroadcastPeerUpdate: one FULL_SYNC into every mailbox; a full one is marked.
BroadcastPeerUpdate(f) ==
    /\ flush[f] = "go"
    /\ flush' = [flush EXCEPT ![f] = "idle"]
    /\ flushSnap' = [flushSnap EXCEPT ![f] = Empty]
    /\ mailbox' = [s \in Streams |->
        IF Watching(s) /\ HasRoom(s)
        THEN Append(mailbox[s], View(Owner[s], flushSnap[f], peerPlan))
        ELSE mailbox[s]]
    /\ desynced' = [s \in Streams |-> desynced[s] \/ Overruns(s)]
    /\ fresh' = [s \in Streams |-> fresh[s] \/ (Watching(s) /\ leader)]
    /\ UNCHANGED <<election, regVars, planVars, armed, pending, handler, stream, hand,
                   sent, stopped, events>>

-----------------------------------------------------------------------------
(* WatchPeers.                                                             *)

\* The leadership gate.
WatchGate(s) ==
    /\ stream[s] = "closed" /\ leader
    /\ stream' = [stream EXCEPT ![s] = "gated"]
    /\ UNCHANGED <<election, regVars, planVars, flushVars, handler, hand, mailbox,
                   desynced, sent, fresh, stopped, events>>

\* The watcher joins the set BEFORE the registry is read.
WatchAdd(s) ==
    /\ stream[s] = "gated"
    /\ stream' = [stream EXCEPT ![s] = "added"]
    /\ fresh' = [fresh EXCEPT ![s] = leader]
    /\ UNCHANGED <<election, regVars, planVars, flushVars, handler, hand, mailbox,
                   desynced, sent, stopped, events>>

WatchList(s) ==
    /\ stream[s] = "added"
    /\ hand' = [hand EXCEPT ![s] = Peers(Owner[s], registry)]
    /\ stream' = [stream EXCEPT ![s] = "filter"]
    /\ UNCHANGED <<election, regVars, planVars, flushVars, handler, mailbox, desynced,
                   sent, fresh, stopped, events>>

WatchFilter(s) ==
    /\ stream[s] = "filter"
    /\ hand' = [hand EXCEPT ![s] = Planned(Owner[s], hand[s], peerPlan)]
    /\ stream' = [stream EXCEPT ![s] = "send"]
    /\ UNCHANGED <<election, regVars, planVars, flushVars, handler, mailbox, desynced,
                   sent, fresh, stopped, events>>

\* boundedSend returns nil: the initial FULL_SYNC or a later update is written.
SendDone(s) ==
    /\ stream[s] = "send"
    /\ sent' = [sent EXCEPT ![s] = hand[s]]
    /\ hand' = [hand EXCEPT ![s] = Empty]
    /\ stream' = [stream EXCEPT ![s] = "pump"]
    /\ UNCHANGED <<election, regVars, planVars, flushVars, handler, mailbox, desynced,
                   fresh, stopped, events>>

\* pumpStream takes the next update.  A closed desynced channel may lose this select.
PumpTake(s) ==
    /\ stream[s] = "pump" /\ mailbox[s] # << >>
    /\ hand' = [hand EXCEPT ![s] = Head(mailbox[s])]
    /\ mailbox' = [mailbox EXCEPT ![s] = Tail(@)]
    /\ stream' = [stream EXCEPT ![s] = "send"]
    /\ UNCHANGED <<election, regVars, planVars, flushVars, handler, desynced, sent,
                   fresh, stopped, events>>

\* The deferred removal of this handler's own watcher.
EndStream(s) ==
    /\ stream' = [stream EXCEPT ![s] = "closed"]
    /\ hand' = [hand EXCEPT ![s] = Empty]
    /\ mailbox' = [mailbox EXCEPT ![s] = << >>]
    /\ desynced' = [desynced EXCEPT ![s] = FALSE]
    /\ sent' = [sent EXCEPT ![s] = Empty]
    /\ fresh' = [fresh EXCEPT ![s] = FALSE]

\* errDesynced, from the pump or from a blocked boundedSend.
EndDesynced(s) ==
    /\ stream[s] \in {"send", "pump"} /\ desynced[s]
    /\ EndStream(s)
    /\ UNCHANGED <<election, regVars, planVars, flushVars, handler, stopped, events>>

\* errLeadershipLost: a tick of the leader check that finds the gate lost.
EndLeadershipLost(s) ==
    /\ stream[s] = "pump" /\ ~leader
    /\ EndStream(s)
    /\ UNCHANGED <<election, regVars, planVars, flushVars, handler, stopped, events>>

\* errShuttingDown.
EndShutdown(s) ==
    /\ stream[s] \in {"send", "pump"} /\ stopped
    /\ EndStream(s)
    /\ UNCHANGED <<election, regVars, planVars, flushVars, handler, stopped, events>>

\* The client leaves, the send fails, or it blocks for peerSendTimeout.
EndClient(s) ==
    /\ stream[s] \in {"send", "pump"}
    /\ Event
    /\ EndStream(s)
    /\ UNCHANGED <<election, regVars, planVars, flushVars, handler, stopped>>

-----------------------------------------------------------------------------
(* Leadership and shutdown.                                                *)

\* OnStartedLeading: SetLeader(true).
Promote ==
    /\ election = "contend"
    /\ election' = "leading"
    /\ UNCHANGED <<regVars, planVars, flushVars, handler, streamVars, stopped, events>>

\* OnStoppedLeading: SetLeader(false) swaps the flag first ...
Demote ==
    /\ leader
    /\ Event
    /\ election' = "reset"
    /\ fresh' = [s \in Streams |-> FALSE]
    /\ UNCHANGED <<regVars, planVars, flushVars, handler, stream, hand, mailbox,
                   desynced, sent, stopped>>

\* ... then ResetQuiet, which takes notifyMu and publishes nothing ...
ResetQuiet ==
    /\ election = "reset" /\ notify.step = "idle"
    /\ registry' = Empty
    /\ election' = "unplan"
    /\ UNCHANGED <<notify, planVars, flushVars, handler, streamVars, stopped, events>>

\* As if a demotion kept its plan.
KeepPlanOnDemotion ==
    /\ election = "unplan"
    /\ election' = "retry"
    /\ UNCHANGED <<regVars, planVars, flushVars, handler, streamVars, stopped, events>>

\* ... then SetPeerPlan(nil), outside notifyMu.
DropPlan ==
    /\ election = "unplan"
    /\ peerPlan' = NoPlan
    /\ election' = "retry"
    /\ UNCHANGED <<regVars, topology, reload, flushVars, handler, streamVars, stopped, events>>

\* The election loop waits retryPeriod before it contends again: 2 s, ten broadcast windows,
\* in which the flushes armed before the demotion have run.
RetryPeriod ==
    /\ election = "retry"
    /\ ~armed /\ Flushing = {}
    /\ election' = "contend"
    /\ UNCHANGED <<regVars, planVars, flushVars, handler, streamVars, stopped, events>>

\* GRPCServer.Shutdown.
Shutdown ==
    /\ ~stopped
    /\ Event
    /\ stopped' = TRUE
    /\ UNCHANGED <<election, regVars, planVars, flushVars, handler, streamVars>>

RegistryNext ==
    \/ UpdateZone \/ EvictStale
    \/ \E a \in Agents : Register(a) \/ Deregister(a)
NotifyNext == InstallPlan \/ SchedulePeerBroadcast \/ Replan
FlushNext == \E f \in Flushers : FlushTake(f) \/ FlushCheck(f) \/ BroadcastPeerUpdate(f)
HandlerNext == \E a \in Agents : RegisterGate(a) \/ RegisterAnswer(a)
StreamNext ==
    \E s \in Streams :
        \/ WatchGate(s) \/ WatchAdd(s) \/ WatchList(s) \/ WatchFilter(s)
        \/ SendDone(s) \/ PumpTake(s)
        \/ EndDesynced(s) \/ EndLeadershipLost(s) \/ EndShutdown(s) \/ EndClient(s)
ElectionNext == Promote \/ Demote \/ ResetQuiet \/ DropPlan \/ RetryPeriod

Next ==
    \/ RegistryNext \/ NotifyNext \/ FlushNext \/ HandlerNext \/ StreamNext \/ ElectionNext
    \/ ReloadTopology \/ Shutdown

Spec == Init /\ [][Next]_vars

(***************************************************************************)
(* Goroutines that are ready run, timers fire, the lease is acquired again *)
(* and agents re-register and resubscribe with backoff for as long as they *)
(* live.  The environment's events get no fairness.                        *)
(***************************************************************************)
Fairness ==
    /\ WF_vars(NotifyNext)
    /\ WF_vars(Promote) /\ WF_vars(ResetQuiet) /\ WF_vars(DropPlan) /\ WF_vars(RetryPeriod)
    /\ \A f \in Flushers : WF_vars(FlushTake(f) \/ FlushCheck(f) \/ BroadcastPeerUpdate(f))
    /\ \A a \in Agents : WF_vars(Register(a)) /\ WF_vars(RegisterAnswer(a))
    /\ \A s \in Streams :
        /\ WF_vars(WatchGate(s) \/ WatchAdd(s) \/ WatchList(s) \/ WatchFilter(s) \/ SendDone(s))
        /\ WF_vars(PumpTake(s)) /\ WF_vars(EndDesynced(s)) /\ WF_vars(EndShutdown(s))

FairSpec == Spec /\ Fairness

-----------------------------------------------------------------------------
(* Properties.                                                             *)

Steps == {"closed", "gated", "added", "filter", "send", "pump"}

\* Every variable stays in its range: mailboxes hold at most Buffer lists.
TypeOK ==
    /\ election \in {"contend", "leading", "reset", "unplan", "retry"}
    /\ registry \in Snapshots
    /\ notify \in [step : {"idle", "plan", "schedule"}, snap : Snapshots]
    /\ topology \in Topologies
    /\ reload \in {"idle", "replan"}
    /\ peerPlan \in Plans \cup {NoPlan}
    /\ armed \in BOOLEAN
    /\ pending \in Snapshots
    /\ flush \in [Flushers -> {"idle", "taken", "go"}]
    /\ flushSnap \in [Flushers -> Snapshots]
    /\ handler \in [Agents -> {"idle", "gated", "notifying", "answer"}]
    /\ stream \in [Streams -> Steps]
    /\ hand \in [Streams -> Snapshots]
    /\ mailbox \in [Streams -> Seq(Snapshots)]
    /\ \A s \in Streams : Len(mailbox[s]) <= Buffer
    /\ desynced \in [Streams -> BOOLEAN]
    /\ sent \in [Streams -> Snapshots]
    /\ fresh \in [Streams -> BOOLEAN]
    /\ stopped \in BOOLEAN
    /\ events \in 0..MaxEvents

\* The last list on its way to the agent over stream s, or already there.
LastList(s) ==
    IF mailbox[s] # << >> THEN mailbox[s][Len(mailbox[s])]
    ELSE IF stream[s] = "send" THEN hand[s] ELSE sent[s]

\* The mesh the registry and the plan in force give the agent of stream s.
Current(s) == View(Owner[s], registry, peerPlan)

\* On a leader, once every scheduled broadcast is out, each stream that is not being torn
\* down for a resync ends on the list of the CURRENT registry and plan: no interleaving of
\* changes, reloads, flushes, subscriptions and failovers leaves an agent on an older mesh
\* (SchedulePeerBroadcast, flushPeerBroadcast, WatchPeers).
StreamsEndOnCurrentList ==
    leader /\ ~stopped /\ Quiet =>
        \A s \in Streams :
            fresh[s] /\ ~desynced[s] /\ stream[s] \in {"send", "pump"}
                => LastList(s) = Current(s)

\* Outside a notification and a demotion, a plan in force has an entry for exactly the
\* registered agents, so filterPeersByPlan's "missing agent gets nothing" never starves a
\* registered agent.
PlanCoversRegistry ==
    notify.step = "idle" /\ election # "unplan" /\ peerPlan # NoPlan
        => DOMAIN peerPlan = DOMAIN registry

\* When a Register call filters its answer the plan already includes its agent, unless the
\* agent has been removed meanwhile (SetPeerPlan's comment).
RegisterSeesItsPlan ==
    \A a \in Agents :
        handler[a] = "answer" /\ a \in DOMAIN registry /\ peerPlan # NoPlan
            => a \in DOMAIN peerPlan

\* A standby holds no agents once its demotion is through (the comments on Heartbeat and in
\* ApplyConfig rely on it).
StandbyHoldsNoAgents == election \in {"retry", "contend"} => registry = Empty

\* When the environment settles on a leader, every stream attached to it in this term is
\* eventually written the current list, or ended so that its agent resubscribes.
StreamsConverge ==
    <>[](\A s \in Streams : leader /\ fresh[s] /\ ~stopped
            => stream[s] = "pump" /\ sent[s] = Current(s))

=============================================================================
