------------------------ MODULE ExternalAssignments ------------------------
(***************************************************************************)
(* The continuous external checks each agent runs.                         *)
(*                                                                         *)
(* The console PUTs the whole desired state, again and again.  The         *)
(* handler (internal/controller/external.go) reads the registry, records   *)
(* the assignments under the manager's mutex and, after releasing it,      *)
(* pushes the changed ones into the buffer of every WatchExternalChecks    *)
(* stream open for the agent.  The stream's handler (grpc_server.go) sends *)
(* the record on subscribe and the pushes after it.  The agent             *)
(* (internal/agent) reads an assignment its own way: it drops the specs it *)
(* refuses, cuts the rest at its ceiling and swaps its whole target list   *)
(* for what is left.  A reload of its config may move the ceiling, or      *)
(* switch external checks off and on.                                      *)
(***************************************************************************)
EXTENDS Naturals, Sequences, FiniteSets

CONSTANTS
    Agents,           \* agent ids
    Specs,            \* specs the controller lets pass
    Refused,          \* the ones among them that ParseExternalSpec refuses
    Lists,            \* the spec lists the console assigns
    Ceilings,         \* values of checkers.external.maxTargets
    Off,              \* stands for checkers.external.enabled being false
    Puts,             \* slots for PUT handlers
    Chans,            \* slots for WatchExternalChecks handlers
    Owner,            \* Owner[c]: the agent id slot c is subscribed under
    Buffer,           \* externalSubscriberBuffer, 16 in the code
    SerialPuts,       \* TRUE: a PUT is handled before the next one arrives
    StreamsEndFirst,  \* TRUE: every leader check fires between two terms
    MaxEvents,        \* bound on the environment's events
    None,
    Orphan            \* stands for channels whose stream has ended

ASSUME ExternalConstants ==
    /\ Owner \in [Chans -> Agents]
    /\ Buffer \in Nat \ {0}
    /\ MaxEvents \in Nat
    /\ SerialPuts \in BOOLEAN /\ StreamsEndFirst \in BOOLEAN
    /\ Refused \subseteq Specs
    /\ Lists \subseteq Seq(Specs) /\ << >> \in Lists
    \* A definition is listed once: continuousDefinitionIDs skips one it has seen.
    /\ \A list \in Lists : \A i, j \in DOMAIN list : list[i] = list[j] => i = j
    /\ Ceilings \subseteq Nat /\ Off \notin Ceilings
    /\ None \notin Chans
    /\ Orphan \notin Chans

\* The empty list, or no entry at all.
Nothing == << >>

VARIABLES
    election,  \* "leading", "reset" (demoted, Reset still to come), "standby"
    known,     \* the ids in the registry
    assigned,  \* ExternalCheckManager.assignments
    resync,    \* ExternalCheckManager.resync
    want,      \* what the console's reconciler wants now
    put,       \* put[p]: where a PUT handler is: idle, gated, read, push
    desired,   \* desired[p]: the state its body carries
    unknown,   \* unknown[p]: the ids its registry read did not find
    pushes,    \* pushes[p]: what is still to be pushed, by agent
    stream,    \* stream[c]: closed, gated, subscribed, send, pump
    queue,     \* queue[c]: its subscription channel
    hand,      \* hand[c]: the assignment being written
    sent,      \* sent[c]: the last one written
    reading,   \* reading[a]: the stream agent a reads
    ceiling,   \* ceiling[a]: its maxTargets, or Off when it has no external checker
    last,      \* last[a]: Agent.lastAssignment
    applied,   \* applied[a]: the targets its external checker runs
    wiped,     \* history: the agents some PUT or Reset left with nothing to run
    events

mgrVars    == <<assigned, resync>>
putVars    == <<put, desired, unknown, pushes>>
streamVars == <<stream, queue, hand, sent>>
agentVars  == <<reading, ceiling, last, applied>>
vars == <<election, known, mgrVars, want, putVars, streamVars, agentVars, wiped, events>>

leader == election = "leading"
Event == events < MaxEvents /\ events' = events + 1
Empty == [a \in Agents |-> Nothing]
NoPushes == [a \in {} |-> Nothing]

Init ==
    /\ election = "leading"
    /\ known = {}
    /\ assigned = Empty /\ resync = {}
    /\ want = Empty
    /\ put = [p \in Puts |-> "idle"]
    /\ desired = [p \in Puts |-> Empty]
    /\ unknown = [p \in Puts |-> {}]
    /\ pushes = [p \in Puts |-> NoPushes]
    /\ stream = [c \in Chans |-> "closed"]
    /\ queue = [c \in Chans |-> << >>]
    /\ hand = [c \in Chans |-> Nothing]
    /\ sent = [c \in Chans |-> Nothing]
    /\ reading = [a \in Agents |-> None]
    /\ ceiling \in [Agents -> Ceilings \cup {Off}]
    /\ last = Empty
    /\ applied = [a \in Agents |-> {}]
    /\ wiped = {}
    /\ events = 0

-----------------------------------------------------------------------------
(* How an agent reads an assignment.                                       *)

\* ParseExternalSpec, spec by spec: a refused one is dropped, the others stay.
Parsed(list) == SelectSeq(list, LAMBDA s : s \notin Refused)

\* maxTargets: the tail is not probed.  Zero is no ceiling.
Truncated(specs, limit) ==
    IF limit > 0 /\ Len(specs) > limit THEN SubSeq(specs, 1, limit) ELSE specs

\* applyExternalAssignmentLocked: what the checker's SetSpecs is handed; without a checker
\* nothing runs.
Targets(list, limit) ==
    IF limit = Off THEN {}
    ELSE LET specs == Truncated(Parsed(list), limit) IN {specs[i] : i \in DOMAIN specs}

-----------------------------------------------------------------------------
(* The console and the registry.                                           *)

\* The reconciler computes another desired state.
Reconcile ==
    /\ Event
    /\ want' \in [Agents -> Lists] \ {want}
    /\ UNCHANGED <<election, known, mgrVars, putVars, streamVars, agentVars, wiped>>

\* An agent registers, or deregisters or is evicted.
RegistryChange(a) ==
    /\ Event
    /\ known' = IF a \in known THEN known \ {a} ELSE known \cup {a}
    /\ UNCHANGED <<election, mgrVars, want, putVars, streamVars, agentVars, wiped>>

-----------------------------------------------------------------------------
(* PUT /api/v1/external-checks.                                            *)

\* ServeHTTP: the leadership gate, and the body.
PutGate(p) ==
    /\ put[p] = "idle" /\ leader
    /\ SerialPuts => \A q \in Puts : put[q] = "idle"
    /\ put' = [put EXCEPT ![p] = "gated"]
    /\ desired' = [desired EXCEPT ![p] = want]
    /\ wiped' = wiped \cup {a \in Agents : Parsed(want[a]) = << >>}
    /\ UNCHANGED <<election, known, mgrVars, want, unknown, pushes, streamVars, agentVars,
                   events>>

\* As if ids the registry does not hold were dropped from the desired state.
ReadRegistryStrictly(p) ==
    /\ put[p] = "gated"
    /\ put' = [put EXCEPT ![p] = "read"]
    /\ desired' = [desired EXCEPT ![p] = [a \in Agents |-> IF a \in known THEN @[a] ELSE Nothing]]
    /\ UNCHANGED <<election, known, mgrVars, want, unknown, pushes, streamVars, agentVars,
                   wiped, events>>

\* registry.GetAll: ids it does not hold are remembered as unknown.
ReadRegistry(p) ==
    /\ put[p] = "gated"
    /\ put' = [put EXCEPT ![p] = "read"]
    /\ unknown' = [unknown EXCEPT ![p] = {a \in Agents : desired[p][a] # Nothing} \ known]
    /\ UNCHANGED <<election, known, mgrVars, want, desired, pushes, streamVars, agentVars,
                   wiped, events>>

\* An unknown agent is stored only when it already holds an assignment.
Skipped(p, a) == a \in unknown[p] /\ assigned[a] = Nothing

Stored(p) ==
    {a \in Agents : /\ desired[p][a] # Nothing
                    /\ ~Skipped(p, a)
                    /\ a \in resync \/ assigned[a] # desired[p][a]}
Removed(p) == {a \in Agents : assigned[a] # Nothing /\ desired[p][a] = Nothing}

Subscribed(a) ==
    {c \in Chans : Owner[c] = a /\ stream[c] \in {"subscribed", "send", "pump"}}

\* A push: the list, the channels still to be offered it, whether there were any and whether
\* one has taken it.
Push(a, list) ==
    [list |-> list, left |-> Subscribed(a), open |-> Subscribed(a) # {}, queued |-> FALSE]

\* As if the agents marked for a resync were pushed only when the console changed its mind.
ApplyUnmarked(p) ==
    LET changed == {a \in Agents : desired[p][a] # Nothing /\ ~Skipped(p, a)
                                    /\ assigned[a] # desired[p][a]} \cup Removed(p)
    IN  /\ put[p] = "read"
        /\ put' = [put EXCEPT ![p] = "push"]
        /\ assigned' = [a \in Agents |-> IF a \in changed THEN desired[p][a] ELSE assigned[a]]
        /\ resync' = resync \ changed
        /\ pushes' = [pushes EXCEPT ![p] = [a \in changed |-> Push(a, desired[p][a])]]
        /\ UNCHANGED <<election, known, want, desired, unknown, streamVars, agentVars, wiped,
                       events>>

\* apply, under the mutex: store, remove, and push again what was marked for a resync.
Apply(p) ==
    /\ put[p] = "read"
    /\ put' = [put EXCEPT ![p] = "push"]
    /\ assigned' = [a \in Agents |->
        IF a \in Stored(p) THEN desired[p][a]
        ELSE IF a \in Removed(p) THEN Nothing ELSE assigned[a]]
    /\ resync' = {}
    /\ pushes' = [pushes EXCEPT ![p] =
        [a \in Stored(p) \cup Removed(p) \cup resync |->
            Push(a, IF a \in Stored(p) THEN desired[p][a] ELSE Nothing)]]
    /\ UNCHANGED <<election, known, want, desired, unknown, streamVars, agentVars, wiped, events>>

EndlessRoom(c) == TRUE      \* as if the channel had no capacity
HasRoom(c) == Len(queue[c]) < Buffer

\* apply, after the mutex: a channel with room takes the assignment, a full one does not.  The
\* pushes of different agents share nothing, so their order is left open.
PushTo(p, a, c) ==
    /\ put[p] = "push" /\ a \in DOMAIN pushes[p] /\ c \in pushes[p][a].left \cap Chans
    /\ queue' = IF HasRoom(c) THEN [queue EXCEPT ![c] = Append(@, pushes[p][a].list)] ELSE queue
    /\ pushes' = [pushes EXCEPT ![p][a].left = @ \ {c},
                                ![p][a].queued = @ \/ HasRoom(c)]
    /\ UNCHANGED <<election, known, mgrVars, want, put, desired, unknown, stream, hand, sent,
                   agentVars, wiped, events>>

\* A channel whose stream ended after the mutex was released: it takes the assignment if it had
\* room, and nobody reads it.
PushToOrphan(p, a) ==
    /\ put[p] = "push" /\ a \in DOMAIN pushes[p] /\ Orphan \in pushes[p][a].left
    /\ \E took \in BOOLEAN :
        pushes' = [pushes EXCEPT ![p][a].left = @ \ {Orphan}, ![p][a].queued = @ \/ took]
    /\ UNCHANGED <<election, known, mgrVars, want, put, desired, unknown, streamVars,
                   agentVars, wiped, events>>

\* As if an assignment that could not be queued were only logged.
PushDoneUnmarked(p, a) ==
    /\ put[p] = "push" /\ a \in DOMAIN pushes[p] /\ pushes[p][a].left = {}
    /\ pushes' = [pushes EXCEPT ![p] = [b \in DOMAIN pushes[p] \ {a} |-> pushes[p][b]]]
    /\ UNCHANGED <<election, known, mgrVars, want, put, desired, unknown,
                   streamVars, agentVars, wiped, events>>

\* Every channel was offered it: an assignment nobody could queue marks its agent.
PushDone(p, a) ==
    /\ put[p] = "push" /\ a \in DOMAIN pushes[p] /\ pushes[p][a].left = {}
    /\ resync' = IF pushes[p][a].open /\ ~pushes[p][a].queued THEN resync \cup {a} ELSE resync
    /\ pushes' = [pushes EXCEPT ![p] = [b \in DOMAIN pushes[p] \ {a} |-> pushes[p][b]]]
    /\ UNCHANGED <<election, known, assigned, want, put, desired, unknown,
                   streamVars, agentVars, wiped, events>>

\* The handler answers.
PutDone(p) ==
    /\ put[p] = "push" /\ DOMAIN pushes[p] = {}
    /\ put' = [put EXCEPT ![p] = "idle"]
    /\ desired' = [desired EXCEPT ![p] = Empty]
    /\ unknown' = [unknown EXCEPT ![p] = {}]
    /\ UNCHANGED <<election, known, mgrVars, want, pushes, streamVars, agentVars, wiped, events>>

-----------------------------------------------------------------------------
(* WatchExternalChecks.                                                    *)

\* The agent, reading no stream, subscribes and the leadership gate lets it pass.  It watches
\* only while it has an external checker.
WatchExternalChecks(c) ==
    /\ stream[c] = "closed" /\ leader
    /\ reading[Owner[c]] = None /\ ceiling[Owner[c]] # Off
    /\ stream' = [stream EXCEPT ![c] = "gated"]
    /\ reading' = [reading EXCEPT ![Owner[c]] = c]
    /\ UNCHANGED <<election, known, mgrVars, want, putVars, queue, hand, sent, ceiling, last,
                   applied, wiped, events>>

\* Subscribe: the channel joins the set BEFORE the record is read.
Subscribe(c) ==
    /\ stream[c] = "gated"
    /\ stream' = [stream EXCEPT ![c] = "subscribed"]
    /\ UNCHANGED <<election, known, mgrVars, want, putVars, queue, hand, sent, agentVars,
                   wiped, events>>

\* Assignment: the record, to be sent first.
ReadAssignment(c) ==
    /\ stream[c] = "subscribed"
    /\ hand' = [hand EXCEPT ![c] = assigned[Owner[c]]]
    /\ stream' = [stream EXCEPT ![c] = "send"]
    /\ UNCHANGED <<election, known, mgrVars, want, putVars, queue, sent, agentVars,
                   wiped, events>>

\* applyExternalAssignment: an agent that still reads stream c keeps the assignment and runs
\* what it makes of it.
Receive(c, list) ==
    LET a == Owner[c]
    IN  IF reading[a] = c
        THEN /\ last' = [last EXCEPT ![a] = list]
             /\ applied' = [applied EXCEPT ![a] = Targets(list, ceiling[a])]
        ELSE UNCHANGED <<last, applied>>

\* boundedSend returns nil.
SendDone(c) ==
    /\ stream[c] = "send"
    /\ sent' = [sent EXCEPT ![c] = hand[c]]
    /\ hand' = [hand EXCEPT ![c] = Nothing]
    /\ stream' = [stream EXCEPT ![c] = "pump"]
    /\ Receive(c, hand[c])
    /\ UNCHANGED <<election, known, mgrVars, want, putVars, queue, reading, ceiling, wiped,
                   events>>

PumpTake(c) ==
    /\ stream[c] = "pump" /\ queue[c] # << >>
    /\ hand' = [hand EXCEPT ![c] = Head(queue[c])]
    /\ queue' = [queue EXCEPT ![c] = Tail(@)]
    /\ stream' = [stream EXCEPT ![c] = "send"]
    /\ UNCHANGED <<election, known, mgrVars, want, putVars, sent, agentVars, wiped, events>>

\* The handler returns and its cleanup removes the subscription.
Cleanup(c) ==
    /\ stream' = [stream EXCEPT ![c] = "closed"]
    /\ queue' = [queue EXCEPT ![c] = << >>]
    /\ hand' = [hand EXCEPT ![c] = Nothing]
    /\ sent' = [sent EXCEPT ![c] = Nothing]
    /\ reading' = [reading EXCEPT ![Owner[c]] = IF @ = c THEN None ELSE @]
    /\ pushes' = [p \in Puts |-> [a \in DOMAIN pushes[p] |->
        IF c \in pushes[p][a].left
        THEN [pushes[p][a] EXCEPT !.left = (@ \ {c}) \cup {Orphan}] ELSE pushes[p][a]]]
    /\ UNCHANGED <<election, known, mgrVars, want, put, desired, unknown, ceiling, last, applied,
                   wiped>>

\* The client has gone, or the leader check between two writes finds the lease lost.
EndStream(c) ==
    /\ stream[c] \in {"send", "pump"}
    /\ reading[Owner[c]] # c \/ (stream[c] = "pump" /\ ~leader)
    /\ Cleanup(c)
    /\ UNCHANGED events

\* errNotReading: a write to an agent that is still there makes no progress.
SendStalls(c) ==
    /\ stream[c] = "send" /\ reading[Owner[c]] = c
    /\ Event
    /\ Cleanup(c)

\* The agent's side of the stream fails: it will read no more from it.
LoseStream(a) ==
    /\ reading[a] # None
    /\ Event
    /\ reading' = [reading EXCEPT ![a] = None]
    /\ UNCHANGED <<election, known, mgrVars, want, putVars, streamVars, ceiling, last, applied,
                   wiped>>

\* ApplyConfig with another external block: the checker is rebuilt and handed the assignment
\* in force, or dropped with it; reconcileExternal stops the subscription with the checker.
\* reloadMu keeps assignments out from start to end.
ReloadAgent(a) ==
    /\ Event
    /\ \E limit \in (Ceilings \cup {Off}) \ {ceiling[a]} :
        /\ ceiling' = [ceiling EXCEPT ![a] = limit]
        /\ last' = [last EXCEPT ![a] = IF limit = Off THEN Nothing ELSE @]
        /\ applied' = [applied EXCEPT ![a] = Targets(last[a], limit)]
        /\ reading' = [reading EXCEPT ![a] = IF limit = Off THEN None ELSE @]
    /\ UNCHANGED <<election, known, mgrVars, want, putVars, streamVars, wiped>>

-----------------------------------------------------------------------------
(* Leadership.                                                             *)

Demote ==
    /\ leader
    /\ Event
    /\ election' = "reset"
    /\ UNCHANGED <<known, mgrVars, want, putVars, streamVars, agentVars, wiped>>

\* SetLeader(false) resets the registry, then the assignments; the subscribers stay.
Reset ==
    /\ election = "reset"
    /\ election' = "standby"
    /\ known' = {}
    /\ assigned' = Empty
    /\ resync' = {}
    /\ wiped' = Agents
    /\ UNCHANGED <<want, putVars, streamVars, agentVars, events>>

\* The lease is acquired again.  retryPeriod is 2 s and a stream checks every 5 s, so nothing
\* in the code makes StreamsEndFirst true.
Promote ==
    /\ election = "standby"
    /\ StreamsEndFirst => \A c \in Chans : stream[c] \in {"closed", "gated"}
    /\ election' = "leading"
    /\ UNCHANGED <<known, mgrVars, want, putVars, streamVars, agentVars, wiped, events>>

PutStep(p) ==
    \/ ReadRegistry(p) \/ Apply(p) \/ PutDone(p)
    \/ \E a \in Agents :
        PushToOrphan(p, a) \/ PushDone(p, a) \/ \E c \in Chans : PushTo(p, a, c)
StreamStep(c) == Subscribe(c) \/ ReadAssignment(c) \/ SendDone(c) \/ PumpTake(c)

Next ==
    \/ Reconcile \/ Demote \/ Reset \/ Promote
    \/ \E a \in Agents : RegistryChange(a) \/ LoseStream(a) \/ ReloadAgent(a)
    \/ \E p \in Puts : PutGate(p) \/ PutStep(p)
    \/ \E c \in Chans : WatchExternalChecks(c) \/ StreamStep(c) \/ EndStream(c) \/ SendStalls(c)

Spec == Init /\ [][Next]_vars

(***************************************************************************)
(* The console re-PUTs an unchanged state every two minutes, handlers that *)
(* can run do, agents resubscribe, and the lease is acquired again.        *)
(***************************************************************************)
Fairness ==
    /\ WF_vars(Reset) /\ WF_vars(Promote)
    /\ \A p \in Puts : WF_vars(PutGate(p)) /\ WF_vars(PutStep(p))
    /\ \A c \in Chans :
        WF_vars(StreamStep(c)) /\ WF_vars(WatchExternalChecks(c)) /\ WF_vars(EndStream(c))

FairSpec == Spec /\ Fairness

-----------------------------------------------------------------------------
(* Properties.                                                             *)

PushRecords ==
    [list : Lists, left : SUBSET (Chans \cup {Orphan}), open : BOOLEAN, queued : BOOLEAN]

\* Every variable stays in its range; a subscription never holds more than Buffer assignments.
TypeOK ==
    /\ election \in {"leading", "reset", "standby"}
    /\ known \in SUBSET Agents
    /\ assigned \in [Agents -> Lists]
    /\ resync \in SUBSET Agents
    /\ want \in [Agents -> Lists]
    /\ put \in [Puts -> {"idle", "gated", "read", "push"}]
    /\ desired \in [Puts -> [Agents -> Lists]]
    /\ unknown \in [Puts -> SUBSET Agents]
    /\ \A p \in Puts : /\ DOMAIN pushes[p] \in SUBSET Agents
                       /\ \A a \in DOMAIN pushes[p] : pushes[p][a] \in PushRecords
    /\ stream \in [Chans -> {"closed", "gated", "subscribed", "send", "pump"}]
    /\ \A c \in Chans : Len(queue[c]) <= Buffer
    /\ hand \in [Chans -> Lists]
    /\ sent \in [Chans -> Lists]
    /\ reading \in [Agents -> Chans \cup {None}]
    /\ ceiling \in [Agents -> Ceilings \cup {Off}]
    /\ last \in [Agents -> Lists]
    /\ applied \in [Agents -> SUBSET (Specs \ Refused)]
    /\ wiped \in SUBSET Agents
    /\ events \in 0..MaxEvents

\* The last assignment on its way over stream c, or already written to it.
LastList(c) ==
    IF queue[c] # << >> THEN queue[c][Len(queue[c])]
    ELSE IF stream[c] = "send" THEN hand[c] ELSE sent[c]

\* On a leader with no push under way, a stream its agent still reads ends on the assignment
\* on record, unless the agent is marked so that the next PUT pushes it again: this is what
\* lets a PUT skip an agent whose record already says what it wants (apply, Subscribe).  It
\* takes SerialPuts, StreamsEndFirst and one stream per agent id.
StreamsEndOnRecord ==
    leader /\ (\A p \in Puts : put[p] # "push") =>
        \A c \in Chans :
            stream[c] \in {"send", "pump"} /\ reading[Owner[c]] = c /\ Owner[c] \notin resync
                => LastList(c) = assigned[Owner[c]]

\* An agent's checks stop only when some PUT gave it nothing that it accepts, its own config
\* switched external checks off, or its controller was demoted: lagging registry reads,
\* evictions and re-registrations never cost an agent the checks the console kept asking for
\* (the comment on unknown agents in ServeHTTP).
ChecksStopOnlyOnRequest ==
    [][\A a \in Agents :
        applied[a] # {} /\ applied'[a] = {} => a \in wiped \/ ceiling'[a] = Off]_vars

\* Agent a runs what the console wants of it as far as it can: specs of the wanted list that it
\* does not refuse, all of them but those that its ceiling's worth of others come before.
RunsWanted(a) ==
    LET list == want[a]
        sound == {i \in DOMAIN list : list[i] \notin Refused}
        first(i) == Cardinality({j \in sound : j < i}) < ceiling[a] \/ ceiling[a] = 0
    IN  applied[a] = {list[i] : i \in {j \in sound : first(j)}}

\* When the console, the registry, the lease and the agents' configs settle, every registered
\* agent with external checks on ends up running what the console wants, less the specs it
\* refuses and the tail past its ceiling (apply, WatchExternalChecks,
\* applyExternalAssignmentLocked, reconcileExternal).  It takes SerialPuts, StreamsEndFirst
\* (which nothing in the code guarantees) and one stream per agent id: without any one of them
\* StreamsEndOnRecord fails, and a PUT may skip an agent that is left on another list.
AgentsConverge ==
    <>[](\A a \in known : ceiling[a] # Off => RunsWanted(a))

=============================================================================
