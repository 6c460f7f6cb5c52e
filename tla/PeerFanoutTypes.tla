-------------------------- MODULE PeerFanoutTypes --------------------------
(* Type correctness of PeerFanout and the reach of its plan, for every set *)
(* of agents and streams.                                                  *)
EXTENDS PeerFanout, TLAPS

-----------------------------------------------------------------------------
(* Snapshots and the lists derived from them.                              *)

\* A function from agents to infos is a snapshot, and every snapshot is one.
LEMMA SnapshotIntro ==
    ASSUME NEW S \in SUBSET Agents, NEW f \in [S -> Infos]
    PROVE  f \in Snapshots
  BY DEF Snapshots

LEMMA SnapshotElim ==
    ASSUME NEW r \in Snapshots
    PROVE  DOMAIN r \subseteq Agents /\ r \in [DOMAIN r -> Infos]
  BY DEF Snapshots

\* Filtering a registry snapshot by self and by plan yields a snapshot again.
LEMMA EmptyType == Empty \in Snapshots
  <1>1. Empty \in [{} -> Infos]
    BY DEF Empty
  <1> QED BY <1>1, SnapshotIntro

LEMMA PeersType ==
    ASSUME NEW r \in Snapshots, NEW a
    PROVE  Peers(a, r) \in Snapshots
  <1>1. DOMAIN r \ {a} \in SUBSET Agents /\ Peers(a, r) \in [DOMAIN r \ {a} -> Infos]
    BY SnapshotElim DEF Peers
  <1> QED BY <1>1, SnapshotIntro

LEMMA PlannedType ==
    ASSUME NEW l \in Snapshots, NEW a, NEW p
    PROVE  Planned(a, l, p) \in Snapshots
  <1>1. CASE p = NoPlan
    BY <1>1 DEF Planned
  <1>2. CASE p # NoPlan
    <2> DEFINE D == {c \in DOMAIN l : a \in DOMAIN p /\ c \in p[a]}
    <2>1. D \in SUBSET Agents /\ [b \in D |-> l[b]] \in [D -> Infos]
      BY SnapshotElim
    <2>2. Planned(a, l, p) = [b \in D |-> l[b]]
      BY <1>2 DEF Planned
    <2> QED BY <2>1, <2>2, SnapshotIntro
  <1> QED BY <1>1, <1>2

LEMMA ViewType ==
    ASSUME NEW r \in Snapshots, NEW a, NEW p
    PROVE  View(a, r, p) \in Snapshots
  BY PeersType, PlannedType DEF View

\* Taking the head of a mailbox leaves its last element where it was, or takes it.
LEMMA LastOfTail ==
    ASSUME NEW T, NEW m \in Seq(T), m # << >>
    PROVE  /\ Tail(m) = << >> => Head(m) = m[Len(m)]
           /\ Tail(m) # << >> => Tail(m)[Len(Tail(m))] = m[Len(m)]
  <1> DEFINE t == Tail(m)
  <1>0. Len(m) \in Nat \ {0} /\ Head(m) = m[1]
    OBVIOUS
  <1>1. /\ t \in Seq(T) /\ Len(t) = Len(m) - 1
        /\ \A i \in 1..Len(t) : t[i] = m[i + 1]
    BY <1>0
  <1> HIDE DEF t
  <1>2. t = << >> => Len(t) = 0
    OBVIOUS
  <1>3. t # << >> => Len(t) # 0
    BY <1>1
  <1>4. t = << >> => Head(m) = m[Len(m)]
    BY <1>0, <1>1, <1>2
  <1>5. t # << >> => t[Len(t)] = m[Len(m)]
    BY <1>0, <1>1, <1>3
  <1> QED BY <1>4, <1>5 DEF t

-----------------------------------------------------------------------------
(* The type invariant.                                                     *)

LEMMA TypeInit == Init => TypeOK
  <1> SUFFICES ASSUME Init PROVE TypeOK
    OBVIOUS
  <1> USE EmptyType DEF Init
  <1>1. mailbox \in [Streams -> Seq(Snapshots)] /\ \A s \in Streams : Len(mailbox[s]) <= Buffer
    BY FanoutConstants
  <1>2. /\ registry \in Snapshots /\ pending \in Snapshots
        /\ flushSnap \in [Flushers -> Snapshots]
        /\ hand \in [Streams -> Snapshots] /\ sent \in [Streams -> Snapshots]
    OBVIOUS
  <1>3. notify \in [step : {"idle", "plan", "schedule"}, snap : Snapshots]
    BY DEF Idle
  <1>4. /\ flush \in [Flushers -> {"idle", "taken", "go"}]
        /\ handler \in [Agents -> {"idle", "gated", "notifying", "answer"}]
        /\ stream \in [Streams -> Steps]
        /\ desynced \in [Streams -> BOOLEAN] /\ fresh \in [Streams -> BOOLEAN]
    BY DEF Steps
  <1>5. events \in 0..MaxEvents
    BY FanoutConstants
  <1> QED BY <1>1, <1>2, <1>3, <1>4, <1>5 DEF TypeOK

\* A step that changes only the variables of the registry and the counter of events.
LEMMA TypePublish ==
    ASSUME TypeOK,
           NEW S \in SUBSET Agents, NEW f \in [S -> Infos], Publish(f),
           events' \in 0..MaxEvents,
           handler' \in [Agents -> {"idle", "gated", "notifying", "answer"}],
           UNCHANGED <<election, planVars, flushVars, streamVars, stopped>>
    PROVE  TypeOK'
  <1>1. f \in Snapshots
    BY SnapshotIntro
  <1>2. registry' \in Snapshots /\ notify' \in [step : {"idle", "plan", "schedule"}, snap : Snapshots]
    BY <1>1 DEF Publish
  <1> QED BY <1>2 DEF TypeOK, planVars, flushVars, streamVars

LEMMA EventType == TypeOK /\ Event => events' \in 0..MaxEvents
  BY FanoutConstants DEF TypeOK, Event

\* The mutators of the registry.
LEMMA TypeRegistry == TypeOK /\ RegistryNext => TypeOK'
  <1> SUFFICES ASSUME TypeOK, RegistryNext PROVE TypeOK'
    OBVIOUS
  <1>0. DOMAIN registry \in SUBSET Agents /\ registry \in [DOMAIN registry -> Infos]
    BY SnapshotElim DEF TypeOK
  <1>h. handler \in [Agents -> {"idle", "gated", "notifying", "answer"}]
        /\ events \in 0..MaxEvents
    BY DEF TypeOK
  <1>1. CASE UpdateZone
    <2>1. PICK S \in (SUBSET DOMAIN registry) \ {{}}, i \in Infos :
            Publish([a \in DOMAIN registry |-> IF a \in S THEN i ELSE registry[a]])
      BY <1>1 DEF UpdateZone
    <2>2. [a \in DOMAIN registry |-> IF a \in S THEN i ELSE registry[a]] \in [DOMAIN registry -> Infos]
      BY <1>0
    <2>3. events' \in 0..MaxEvents
      BY <1>1, EventType DEF UpdateZone
    <2> QED BY ONLY TypeOK, <1>0, <1>1, <1>h, <2>1, <2>2, <2>3, TypePublish DEF UpdateZone
  <1>2. CASE EvictStale
    <2>1. PICK S \in (SUBSET DOMAIN registry) \ {{}} :
            Publish([b \in DOMAIN registry \ S |-> registry[b]])
      BY <1>2 DEF EvictStale
    <2>2. /\ DOMAIN registry \ S \in SUBSET Agents
          /\ [b \in DOMAIN registry \ S |-> registry[b]] \in [DOMAIN registry \ S -> Infos]
      BY <1>0
    <2>3. events' \in 0..MaxEvents
      BY <1>2, EventType DEF EvictStale
    <2> QED BY ONLY TypeOK, <1>2, <1>h, <2>1, <2>2, <2>3, TypePublish DEF EvictStale
  <1>3. ASSUME NEW a \in Agents, Register(a) PROVE TypeOK'
    <2> DEFINE D == DOMAIN registry \cup {a}
    <2>1. PICK i \in Infos : Publish([b \in D |-> IF b = a THEN i ELSE registry[b]])
      BY <1>3 DEF Register
    <2>2. D \in SUBSET Agents /\ [b \in D |-> IF b = a THEN i ELSE registry[b]] \in [D -> Infos]
      BY <1>0
    <2>3. handler' \in [Agents -> {"idle", "gated", "notifying", "answer"}]
      BY <1>3, <1>h DEF Register
    <2> HIDE DEF D
    <2> QED BY ONLY TypeOK, <1>3, <1>h, <2>1, <2>2, <2>3, TypePublish DEF Register
  <1>4. ASSUME NEW a \in Agents, Deregister(a) PROVE TypeOK'
    <2>1. Publish([b \in DOMAIN registry \ {a} |-> registry[b]])
      BY <1>4 DEF Deregister
    <2>2. /\ DOMAIN registry \ {a} \in SUBSET Agents
          /\ [b \in DOMAIN registry \ {a} |-> registry[b]] \in [DOMAIN registry \ {a} -> Infos]
      BY <1>0
    <2>3. events' \in 0..MaxEvents
      BY <1>4, EventType DEF Deregister
    <2> QED BY ONLY TypeOK, <1>4, <1>h, <2>1, <2>2, <2>3, TypePublish DEF Deregister
  <1> QED BY <1>1, <1>2, <1>3, <1>4 DEF RegistryNext

\* The holder of notifyMu.
LEMMA TypeNotify == TypeOK /\ NotifyNext => TypeOK'
  <1> SUFFICES ASSUME TypeOK, NotifyNext PROVE TypeOK'
    OBVIOUS
  <1>0. notify.snap \in Snapshots /\ topology \in Topologies /\ registry \in Snapshots
    BY DEF TypeOK
  <1>1. CASE InstallPlan
    <2>1. peerPlan' \in Plans \cup {NoPlan}
      BY <1>0, <1>1, BuildAssumption DEF InstallPlan
    <2>2. notify' \in [step : {"idle", "plan", "schedule"}, snap : Snapshots]
      BY <1>1 DEF InstallPlan, TypeOK
    <2> QED BY <1>1, <2>1, <2>2 DEF InstallPlan, TypeOK, flushVars, streamVars
  <1>2. CASE SchedulePeerBroadcast
    <2>1. notify' \in [step : {"idle", "plan", "schedule"}, snap : Snapshots]
      BY <1>2, EmptyType DEF SchedulePeerBroadcast, Idle
    <2>2. handler' \in [Agents -> {"idle", "gated", "notifying", "answer"}]
      BY <1>2 DEF SchedulePeerBroadcast, TypeOK
    <2>3. pending' \in Snapshots /\ armed' \in BOOLEAN
      BY <1>0, <1>2 DEF SchedulePeerBroadcast
    <2> QED BY <1>2, <2>1, <2>2, <2>3 DEF SchedulePeerBroadcast, TypeOK, planVars, streamVars
  <1>3. CASE Replan
    <2>1. notify' \in [step : {"idle", "plan", "schedule"}, snap : Snapshots]
      BY <1>0, <1>3 DEF Replan
    <2> QED BY <1>3, <2>1 DEF Replan, TypeOK, flushVars, streamVars
  <1> QED BY <1>1, <1>2, <1>3 DEF NotifyNext

\* The flush goroutines.
LEMMA TypeFlush == TypeOK /\ FlushNext => TypeOK'
  <1> SUFFICES ASSUME TypeOK, NEW f \in Flushers,
                      FlushTake(f) \/ FlushCheck(f) \/ BroadcastPeerUpdate(f)
               PROVE  TypeOK'
    BY DEF FlushNext
  <1>0. /\ flush \in [Flushers -> {"idle", "taken", "go"}]
        /\ flushSnap \in [Flushers -> Snapshots] /\ pending \in Snapshots
    BY DEF TypeOK
  <1>1. CASE FlushTake(f)
    <2>1. /\ flush' \in [Flushers -> {"idle", "taken", "go"}]
          /\ flushSnap' \in [Flushers -> Snapshots] /\ pending' \in Snapshots
          /\ armed' \in BOOLEAN
      BY <1>0, <1>1, EmptyType DEF FlushTake
    <2> QED BY <1>1, <2>1 DEF FlushTake, TypeOK, regVars, planVars, streamVars
  <1>2. CASE FlushCheck(f)
    <2>1. /\ flush' \in [Flushers -> {"idle", "taken", "go"}]
          /\ flushSnap' \in [Flushers -> Snapshots]
      BY <1>0, <1>2, EmptyType DEF FlushCheck
    <2> QED BY <1>2, <2>1 DEF FlushCheck, TypeOK, regVars, planVars, streamVars
  <1>3. CASE BroadcastPeerUpdate(f)
    <2>1. /\ flush' \in [Flushers -> {"idle", "taken", "go"}]
          /\ flushSnap' \in [Flushers -> Snapshots]
      BY <1>0, <1>3, EmptyType DEF BroadcastPeerUpdate, HasRoom, Overruns
    <2>2. \A s \in Streams : View(Owner[s], flushSnap[f], peerPlan) \in Snapshots
      BY <1>0, ViewType
    <2>3. /\ mailbox \in [Streams -> Seq(Snapshots)]
          /\ \A s \in Streams : mailbox[s] \in Seq(Snapshots) /\ Len(mailbox[s]) <= Buffer
      BY DEF TypeOK
    <2>4. mailbox' \in [Streams -> Seq(Snapshots)] /\ \A s \in Streams : Len(mailbox'[s]) <= Buffer
      BY <1>3, <2>2, <2>3, FanoutConstants DEF BroadcastPeerUpdate, HasRoom, Overruns
    <2>5. desynced' \in [Streams -> BOOLEAN] /\ fresh' \in [Streams -> BOOLEAN]
      BY <1>3, Zenon DEF BroadcastPeerUpdate, HasRoom, Overruns, TypeOK, Watching, leader
    <2> QED BY <1>3, <2>1, <2>4, <2>5 DEF BroadcastPeerUpdate, HasRoom, Overruns, TypeOK, regVars, planVars
  <1> QED BY <1>1, <1>2, <1>3

\* The Register handlers, the reload and the shutdown.
LEMMA TypeHandler == TypeOK /\ (HandlerNext \/ ReloadTopology \/ Shutdown) => TypeOK'
  <1> SUFFICES ASSUME TypeOK, HandlerNext \/ ReloadTopology \/ Shutdown PROVE TypeOK'
    OBVIOUS
  <1>0. handler \in [Agents -> {"idle", "gated", "notifying", "answer"}]
    BY DEF TypeOK
  <1>1. ASSUME NEW a \in Agents, RegisterGate(a) PROVE TypeOK'
    <2>1. handler' \in [Agents -> {"idle", "gated", "notifying", "answer"}]
      BY <1>0, <1>1 DEF RegisterGate
    <2>2. events' \in 0..MaxEvents
      BY <1>1, EventType DEF RegisterGate
    <2> QED BY <1>1, <2>1, <2>2 DEF RegisterGate, TypeOK, regVars, planVars, flushVars, streamVars
  <1>2. ASSUME NEW a \in Agents, RegisterAnswer(a) PROVE TypeOK'
    <2>1. handler' \in [Agents -> {"idle", "gated", "notifying", "answer"}]
      BY <1>0, <1>2 DEF RegisterAnswer
    <2> QED BY <1>2, <2>1 DEF RegisterAnswer, TypeOK, regVars, planVars, flushVars, streamVars
  <1>3. CASE ReloadTopology
    <2>2. events' \in 0..MaxEvents
      BY <1>3, EventType DEF ReloadTopology
    <2> QED BY <1>3, <2>2 DEF ReloadTopology, TypeOK, regVars, flushVars, streamVars
  <1>4. CASE Shutdown
    <2>2. events' \in 0..MaxEvents
      BY <1>4, EventType DEF Shutdown
    <2> QED BY <1>4, <2>2 DEF Shutdown, TypeOK, regVars, planVars, flushVars, streamVars
  <1> QED BY <1>1, <1>2, <1>3, <1>4 DEF HandlerNext

\* What a WatchPeers handler may change, typed.
StreamTypes ==
    /\ stream \in [Streams -> Steps]
    /\ hand \in [Streams -> Snapshots]
    /\ mailbox \in [Streams -> Seq(Snapshots)]
    /\ \A s \in Streams : Len(mailbox[s]) <= Buffer
    /\ desynced \in [Streams -> BOOLEAN]
    /\ sent \in [Streams -> Snapshots]
    /\ fresh \in [Streams -> BOOLEAN]

LEMMA TypeEndStream ==
    ASSUME StreamTypes, NEW s \in Streams, EndStream(s)
    PROVE  StreamTypes'
  BY EmptyType, FanoutConstants DEF StreamTypes, EndStream, Steps

\* The WatchPeers handlers.
LEMMA TypeStream == TypeOK /\ StreamNext => TypeOK'
  <1> SUFFICES ASSUME TypeOK, NEW s \in Streams,
                      \/ WatchGate(s) \/ WatchAdd(s) \/ WatchList(s) \/ WatchFilter(s)
                      \/ SendDone(s) \/ PumpTake(s)
                      \/ EndDesynced(s) \/ EndLeadershipLost(s) \/ EndShutdown(s) \/ EndClient(s)
               PROVE  TypeOK'
    BY DEF StreamNext
  <1>0. StreamTypes /\ registry \in Snapshots /\ events \in 0..MaxEvents
    BY DEF TypeOK, StreamTypes
  <1>q. ASSUME StreamTypes', events' \in 0..MaxEvents,
               UNCHANGED <<election, regVars, planVars, flushVars, handler, stopped>>
        PROVE  TypeOK'
    BY <1>q DEF TypeOK, StreamTypes, regVars, planVars, flushVars
  <1>1. CASE WatchGate(s)
    <2>1. StreamTypes'
      BY <1>0, <1>1 DEF WatchGate, StreamTypes, Steps
    <2> QED BY <1>0, <1>1, <1>q, <2>1 DEF WatchGate
  <1>2. CASE WatchAdd(s)
    <2>1. fresh' \in [Streams -> BOOLEAN]
      BY <1>0, <1>2, leader \in BOOLEAN DEF WatchAdd, StreamTypes, leader
    <2>2. StreamTypes'
      BY <1>0, <1>2, <2>1 DEF WatchAdd, StreamTypes, Steps
    <2> QED BY <1>0, <1>2, <1>q, <2>2 DEF WatchAdd
  <1>3. CASE WatchList(s)
    <2>1. Peers(Owner[s], registry) \in Snapshots
      BY <1>0, PeersType
    <2>2. StreamTypes'
      BY <1>0, <1>3, <2>1 DEF WatchList, StreamTypes, Steps
    <2> QED BY <1>0, <1>3, <1>q, <2>2 DEF WatchList
  <1>4. CASE WatchFilter(s)
    <2>1. Planned(Owner[s], hand[s], peerPlan) \in Snapshots
      BY <1>0, PlannedType DEF StreamTypes
    <2>2. StreamTypes'
      BY <1>0, <1>4, <2>1 DEF WatchFilter, StreamTypes, Steps
    <2> QED BY <1>0, <1>4, <1>q, <2>2 DEF WatchFilter
  <1>5. CASE SendDone(s)
    <2>1. StreamTypes'
      BY <1>0, <1>5, EmptyType DEF SendDone, StreamTypes, Steps
    <2> QED BY <1>0, <1>5, <1>q, <2>1 DEF SendDone
  <1>6. CASE PumpTake(s)
    <2>1. /\ mailbox[s] \in Seq(Snapshots) /\ mailbox[s] # << >> /\ Len(mailbox[s]) <= Buffer
      BY <1>0, <1>6 DEF StreamTypes, PumpTake
    <2>2. /\ Head(mailbox[s]) \in Snapshots
          /\ Tail(mailbox[s]) \in Seq(Snapshots) /\ Len(Tail(mailbox[s])) <= Buffer
      BY <2>1, FanoutConstants
    <2>3. StreamTypes'
      BY <1>0, <1>6, <2>2 DEF PumpTake, StreamTypes, Steps
    <2> QED BY <1>0, <1>6, <1>q, <2>3 DEF PumpTake
  <1>7. CASE EndDesynced(s) \/ EndLeadershipLost(s) \/ EndShutdown(s)
    <2>1. EndStream(s)
      BY <1>7 DEF EndDesynced, EndLeadershipLost, EndShutdown
    <2>2. StreamTypes'
      BY <1>0, <2>1, TypeEndStream
    <2> QED BY <1>0, <1>7, <1>q, <2>2 DEF EndDesynced, EndLeadershipLost, EndShutdown
  <1>8. CASE EndClient(s)
    <2>1. StreamTypes'
      BY <1>0, <1>8, TypeEndStream DEF EndClient
    <2>2. events' \in 0..MaxEvents
      BY <1>8, EventType DEF EndClient
    <2> QED BY <1>8, <1>q, <2>1, <2>2 DEF EndClient
  <1> QED BY <1>1, <1>2, <1>3, <1>4, <1>5, <1>6, <1>7, <1>8

\* The election loop.
LEMMA TypeElection == TypeOK /\ ElectionNext => TypeOK'
  <1> SUFFICES ASSUME TypeOK, ElectionNext PROVE TypeOK'
    OBVIOUS
  <1> USE DEF TypeOK, regVars, planVars, flushVars, streamVars
  <1>1. CASE Promote
    BY <1>1 DEF Promote
  <1>2. CASE Demote
    <2>1. events' \in 0..MaxEvents
      BY <1>2, EventType DEF Demote
    <2>2. fresh' \in [Streams -> BOOLEAN]
      BY <1>2 DEF Demote
    <2> QED BY <1>2, <2>1, <2>2 DEF Demote
  <1>3. CASE ResetQuiet
    BY <1>3, EmptyType DEF ResetQuiet
  <1>4. CASE DropPlan
    BY <1>4 DEF DropPlan
  <1>5. CASE RetryPeriod
    BY <1>5 DEF RetryPeriod
  <1> QED BY <1>1, <1>2, <1>3, <1>4, <1>5 DEF ElectionNext

LEMMA TypeStep == TypeOK /\ [Next]_vars => TypeOK'
  <1>1. TypeOK /\ UNCHANGED vars => TypeOK'
    BY DEF TypeOK, vars, leaderVars, regVars, planVars, flushVars, streamVars
  <1> QED BY <1>1, TypeRegistry, TypeNotify, TypeFlush, TypeHandler, TypeStream, TypeElection
          DEF Next

\* Every variable of the fan-out keeps its type: in particular no mailbox ever holds more
\* than Buffer updates, whatever the number of agents, streams and flushes.
THEOREM TypeCorrect == Spec => []TypeOK
  BY TypeInit, TypeStep, PTL DEF Spec


-----------------------------------------------------------------------------
(* The plan.  While notifyMu is held the plan may lag the registry, but    *)
(* only by the agent whose Register call is waiting for the callback.      *)

Covers(plan, reg) == plan = NoPlan \/ DOMAIN plan = DOMAIN reg

\* A demotion empties the registry under notifyMu and drops the plan after it: in between, at
\* "unplan", only a plan that a late Register call has just installed is known to cover.
PlanInv ==
    /\ notify.step # "idle" => notify.snap = registry
    /\ notify.step = "schedule" => Covers(peerPlan, registry)
    /\ notify.step = "idle" /\ election # "unplan" => Covers(peerPlan, registry)
    /\ \A a \in DOMAIN registry :
        handler[a] = "answer" => peerPlan = NoPlan \/ a \in DOMAIN peerPlan

\* A mutation of the registry adds no agent but the one whose handler starts to wait.
LEMMA PlanRegistry == TypeOK /\ PlanInv /\ RegistryNext => PlanInv'
  <1> SUFFICES ASSUME TypeOK, PlanInv, RegistryNext PROVE PlanInv'
    OBVIOUS
  <1> DEFINE New ==
        /\ notify'.step = "plan" /\ notify'.snap = registry' /\ peerPlan' = peerPlan
        /\ \A a \in DOMAIN registry' :
            handler'[a] = "answer" => a \in DOMAIN registry /\ handler[a] = "answer"
  <1>1. New
    <2> DEFINE Shrunk == /\ notify'.step = "plan" /\ notify'.snap = registry'
                         /\ UNCHANGED <<peerPlan, handler>>
                         /\ DOMAIN registry' \subseteq DOMAIN registry
    <2>1. CASE UpdateZone \/ EvictStale \/ \E a \in Agents : Deregister(a)
      <3>1. UpdateZone => Shrunk
        BY DEF UpdateZone, Publish, planVars
      <3>2. EvictStale => Shrunk
        BY DEF EvictStale, Publish, planVars
      <3>3. ASSUME NEW a \in Agents, Deregister(a) PROVE Shrunk
        BY <3>3 DEF Deregister, Publish, planVars
      <3> QED BY <2>1, <3>1, <3>2, <3>3
    <2>2. ASSUME NEW a \in Agents, Register(a) PROVE  New
      <3>1. handler'[a] = "notifying"
        BY <2>2 DEF Register, TypeOK
      <3>2. \A b \in Agents \ {a} : handler'[b] = handler[b]
        BY <2>2 DEF Register, TypeOK
      <3>3. /\ notify'.step = "plan" /\ notify'.snap = registry' /\ peerPlan' = peerPlan
            /\ DOMAIN registry' = DOMAIN registry \cup {a}
        BY <2>2 DEF Register, Publish, planVars
      <3>4. DOMAIN registry \subseteq Agents
        BY SnapshotElim DEF TypeOK
      <3> QED BY <3>1, <3>2, <3>3, <3>4
    <2> QED BY <2>1, <2>2 DEF RegistryNext
  <1> QED BY <1>1 DEF PlanInv

\* The callback's plan has an entry for every registered agent (BuildAssumption).
LEMMA PlanNotify == TypeOK /\ PlanInv /\ NotifyNext => PlanInv'
  <1> SUFFICES ASSUME TypeOK, PlanInv, NotifyNext PROVE PlanInv'
    OBVIOUS
  <1>1. CASE InstallPlan
    <2>1. Covers(peerPlan', registry)
      BY <1>1, BuildAssumption DEF InstallPlan, PlanInv, TypeOK, Covers
    <2>2. /\ notify'.step = "schedule" /\ notify'.snap = registry
          /\ UNCHANGED <<registry, handler>>
      BY <1>1 DEF InstallPlan, PlanInv, TypeOK
    <2> QED BY <2>1, <2>2 DEF PlanInv, Covers
  <1>2. CASE SchedulePeerBroadcast
    <2>1. notify'.step = "idle" /\ UNCHANGED <<registry, peerPlan>>
      BY <1>2 DEF SchedulePeerBroadcast, Idle, planVars
    <2>2. Covers(peerPlan, registry)
      BY <1>2 DEF SchedulePeerBroadcast, PlanInv
    <2> QED BY <2>1, <2>2 DEF PlanInv, Covers
  <1>3. CASE Replan
    BY <1>3 DEF Replan, PlanInv
  <1> QED BY <1>1, <1>2, <1>3 DEF NotifyNext

\* ResetQuiet leaves a stale plan behind, which nobody but DropPlan takes to a later term.
LEMMA PlanElection == TypeOK /\ PlanInv /\ ElectionNext => PlanInv'
  <1> SUFFICES ASSUME TypeOK, PlanInv, ElectionNext PROVE PlanInv'
    OBVIOUS
  <1>1. CASE Promote \/ Demote \/ RetryPeriod
    <2>1. UNCHANGED <<registry, notify, peerPlan, handler>> /\ election # "unplan"
      BY <1>1 DEF Promote, Demote, RetryPeriod, leader, regVars, planVars
    <2> QED BY <2>1 DEF PlanInv, Covers
  <1>2. CASE ResetQuiet
    <2>1. notify'.step = "idle" /\ election' = "unplan" /\ DOMAIN registry' = {}
      BY <1>2 DEF ResetQuiet, Empty
    <2> QED BY <2>1 DEF PlanInv
  <1>3. CASE DropPlan
    <2>1. peerPlan' = NoPlan /\ UNCHANGED <<registry, notify>>
      BY <1>3 DEF DropPlan, regVars
    <2> QED BY <2>1 DEF PlanInv, Covers
  <1> QED BY <1>1, <1>2, <1>3 DEF ElectionNext

\* Nothing else touches the registry, the plan or a Register call that is waiting.
LEMMA PlanFrame ==
    TypeOK /\ PlanInv /\ (FlushNext \/ HandlerNext \/ StreamNext \/ ReloadTopology \/ Shutdown
                            \/ UNCHANGED vars) => PlanInv'
  <1> SUFFICES ASSUME TypeOK, PlanInv,
                      FlushNext \/ HandlerNext \/ StreamNext \/ ReloadTopology \/ Shutdown
                        \/ UNCHANGED vars
               PROVE  PlanInv'
    OBVIOUS
  <1>1. UNCHANGED <<registry, notify, peerPlan, election>>
    <2>1. CASE FlushNext
      BY <2>1 DEF FlushNext, FlushTake, FlushCheck, BroadcastPeerUpdate, regVars, planVars
    <2>2. CASE HandlerNext
      BY <2>2 DEF HandlerNext, RegisterGate, RegisterAnswer, regVars, planVars
    <2>3. CASE StreamNext
      BY <2>3 DEF StreamNext, WatchGate, WatchAdd, WatchList, WatchFilter, SendDone, PumpTake,
                  EndDesynced, EndLeadershipLost, EndShutdown, EndClient, regVars, planVars
    <2>4. CASE ReloadTopology \/ Shutdown \/ UNCHANGED vars
      BY <2>4 DEF ReloadTopology, Shutdown, vars, leaderVars, regVars, planVars
    <2> QED BY <2>1, <2>2, <2>3, <2>4
  <1>2. \A a \in Agents : handler'[a] = "answer" => handler[a] = "answer"
    <2>1. CASE FlushNext
      BY <2>1 DEF FlushNext, FlushTake, FlushCheck, BroadcastPeerUpdate
    <2>2. CASE HandlerNext
      BY <2>2 DEF HandlerNext, RegisterGate, RegisterAnswer, TypeOK
    <2>3. CASE StreamNext
      BY <2>3 DEF StreamNext, WatchGate, WatchAdd, WatchList, WatchFilter, SendDone, PumpTake,
                  EndDesynced, EndLeadershipLost, EndShutdown, EndClient
    <2>4. CASE ReloadTopology \/ Shutdown \/ UNCHANGED vars
      BY <2>4 DEF ReloadTopology, Shutdown, vars
    <2> QED BY <2>1, <2>2, <2>3, <2>4
  <1>3. DOMAIN registry \subseteq Agents
    BY SnapshotElim DEF TypeOK
  <1> QED BY <1>1, <1>2, <1>3 DEF PlanInv, Covers

LEMMA PlanInvariant == Spec => []PlanInv
  <1>1. Init => PlanInv
    BY DEF Init, PlanInv, Idle, Empty, Covers
  <1>2. TypeOK /\ PlanInv /\ [Next]_vars => PlanInv'
    BY PlanRegistry, PlanNotify, PlanElection, PlanFrame DEF Next
  <1> QED BY <1>1, <1>2, TypeCorrect, PTL DEF Spec

\* Whenever no change is being announced and no demotion is half-way, a plan in force has an
\* entry for exactly the registered agents: no registered agent is starved of peers.
THEOREM PlanCoversRegistryCorrect == Spec => []PlanCoversRegistry
  <1>1. PlanInv => PlanCoversRegistry
    BY DEF PlanInv, Covers, PlanCoversRegistry
  <1> QED BY <1>1, PlanInvariant, PTL

\* Register's answer is filtered by a plan that includes the agent, in every interleaving of
\* registrations, removals, reloads and failovers (the promise of SetPeerPlan's comment).
THEOREM RegisterSeesItsPlanCorrect == Spec => []RegisterSeesItsPlan
  <1>1. PlanInv => RegisterSeesItsPlan
    BY DEF PlanInv, RegisterSeesItsPlan
  <1> QED BY <1>1, PlanInvariant, PTL

=============================================================================
