---------------------------- MODULE TaskDispatch ----------------------------
(***************************************************************************)
(* One on-demand diagnostic, from the HTTP call to its answer.             *)
(*                                                                         *)
(* The controller's handler (internal/controller/diagnostics.go) hands a   *)
(* task to the TaskManager (tasks.go), which copies it into the buffer of  *)
(* every WatchTasks stream open for the agent; the stream's handler        *)
(* (grpc_server.go) writes it to the agent, whose TaskExecutor             *)
(* (internal/agent/tasks.go) runs it in one of a few slots, or refuses it, *)
(* and reports back.  The caller gives up after its timeout, the replica   *)
(* may lose the lease, and the agent may lose its stream at any point.     *)
(***************************************************************************)
EXTENDS Naturals, Sequences, FiniteSets

CONSTANTS
    Agents,         \* agent ids
    Tasks,          \* task ids: one diagnostics request each
    Chans,          \* slots for WatchTasks subscriptions
    Owner,          \* Owner[c]: the agent id slot c is subscribed under
    Buffer,         \* capacity of a subscription, 16 in the code
    MaxConcurrent,  \* slots of an agent's TaskExecutor
    MaxEvents,      \* bound on the environment's events
    None,
    Orphan          \* stands for channels whose stream has ended

ASSUME DispatchConstants ==
    /\ Owner \in [Chans -> Agents]
    /\ Buffer \in Nat \ {0}
    /\ MaxConcurrent \in Nat \ {0}
    /\ MaxEvents \in Nat
    /\ None \notin Agents \cup Chans \cup Tasks
    /\ Orphan \notin Chans

ASSUME NoneIsNoOutcome ==
    None \notin {"ran", "busy", "lost", "timeout", "cancelled", "unsubscribed"}

VARIABLES
    election,  \* "leading", "failall" (demoted, FailAll still to come), "standby"
    stream,    \* stream[c]: the WatchTasks handler: closed, gated, pump, send
    queue,     \* queue[c]: its subscription channel
    hand,      \* hand[c]: the task it is writing
    reading,   \* reading[a]: the stream agent a's resubscribeLoop is on
    call,      \* call[t]: the diagnostics request, by where ServeHTTP/Dispatch is
    target,    \* target[t]: the source agent found in the registry
    ctx,       \* ctx[t]: live, timeout or cancelled
    left,      \* left[t]: snapshot channels still to be offered the task
    sent,      \* sent[t]: some channel took it
    pending,   \* TaskManager.pending
    done,      \* done[t]: the outcome channel of the call, capacity 1
    outcome,   \* outcome[t]: what Dispatch returns
    running,   \* running[a]: copies executing in agent a
    reports,   \* ReportTaskResult calls under way
    ran,       \* history: ran[t][a] is how often agent a has started task t
    events

ctlVars    == <<election>>
streamVars == <<stream, queue, hand, reading>>
callVars   == <<call, target, ctx, left, sent, pending, outcome>>
agentVars  == <<running, reports, ran>>
vars == <<ctlVars, streamVars, callVars, done, agentVars, events>>

leader == election = "leading"
Event == events < MaxEvents /\ events' = events + 1
Copies == Tasks \X Chans

\* A report: the task, who says so, the copy's channel, what happened, how far the call is.
Reports == [task : Tasks, agent : Agents, chan : Chans \cup {None},
            what : {"ran", "busy"}, step : {"wire", "found"}]

Init ==
    /\ election = "leading"
    /\ stream = [c \in Chans |-> "closed"]
    /\ queue = [c \in Chans |-> << >>]
    /\ hand = [c \in Chans |-> None]
    /\ reading = [a \in Agents |-> None]
    /\ call = [t \in Tasks |-> "idle"]
    /\ target = [t \in Tasks |-> None]
    /\ ctx = [t \in Tasks |-> "live"]
    /\ left = [t \in Tasks |-> {}]
    /\ sent = [t \in Tasks |-> FALSE]
    /\ pending = {}
    /\ done = [t \in Tasks |-> None]
    /\ outcome = [t \in Tasks |-> None]
    /\ running = [a \in Agents |-> {}]
    /\ reports = {}
    /\ ran = [t \in Tasks |-> [a \in Agents |-> 0]]
    /\ events = 0

-----------------------------------------------------------------------------
(* The agent's task stream.  resubscribeLoop opens the next stream only    *)
(* after Recv failed on the last; the server may learn of that much later. *)
(* One process per agent id: two hosts that share an id (registry.go warns *)
(* of them) would both read, and are outside this module.                  *)

\* WatchTasks is called and passes the leadership gate.
WatchTasks(c) ==
    /\ stream[c] = "closed" /\ leader
    /\ reading[Owner[c]] = None
    /\ stream' = [stream EXCEPT ![c] = "gated"]
    /\ reading' = [reading EXCEPT ![Owner[c]] = c]
    /\ UNCHANGED <<ctlVars, queue, hand, callVars, done, agentVars, events>>

\* TaskManager.Subscribe: a fresh channel joins the agent's set.
Subscribe(c) ==
    /\ stream[c] = "gated"
    /\ stream' = [stream EXCEPT ![c] = "pump"]
    /\ UNCHANGED <<ctlVars, queue, hand, reading, callVars, done, agentVars, events>>

\* The agent's side of the stream fails, or the agent redials: it will read no more from it.
LoseStream(a) ==
    /\ reading[a] # None
    /\ Event
    /\ reading' = [reading EXCEPT ![a] = None]
    /\ UNCHANGED <<ctlVars, stream, queue, hand, callVars, done, agentVars>>

\* pumpStream takes the next task ...
PumpTake(c) ==
    /\ stream[c] = "pump" /\ queue[c] # << >>
    /\ hand' = [hand EXCEPT ![c] = Head(queue[c])]
    /\ queue' = [queue EXCEPT ![c] = Tail(@)]
    /\ stream' = [stream EXCEPT ![c] = "send"]
    /\ UNCHANGED <<ctlVars, reading, callVars, done, agentVars, events>>

\* Slots of the executor in use: a slot is held until the copy's report call has returned.
InUse(a) ==
    Cardinality(running[a]) + Cardinality(
        {r \in reports : r.agent = a /\ r.what = "ran" /\ r.chan # None})

\* TaskExecutor.Handle: a slot, or an immediate "agent busy" report.
Handle(a, t, c) ==
    IF InUse(a) < MaxConcurrent
    THEN /\ running' = [running EXCEPT ![a] = @ \cup {<<t, c>>}]
         /\ ran' = [ran EXCEPT ![t][a] = @ + 1]
         /\ UNCHANGED reports
    ELSE /\ reports' = reports \cup
              {[task |-> t, agent |-> a, chan |-> c, what |-> "busy", step |-> "wire"]}
         /\ UNCHANGED <<running, ran>>

\* As if a stream the agent no longer reads still reached it.
SendDoneStale(c) ==
    /\ stream[c] = "send"
    /\ stream' = [stream EXCEPT ![c] = "pump"]
    /\ hand' = [hand EXCEPT ![c] = None]
    /\ Handle(Owner[c], hand[c], c)
    /\ UNCHANGED <<ctlVars, queue, reading, callVars, done, events>>

\* ... and boundedSend writes it; Recv hands it to the executor if the agent still reads.
SendDone(c) ==
    /\ stream[c] = "send"
    /\ stream' = [stream EXCEPT ![c] = "pump"]
    /\ hand' = [hand EXCEPT ![c] = None]
    /\ IF reading[Owner[c]] = c
       THEN Handle(Owner[c], hand[c], c)
       ELSE UNCHANGED agentVars
    /\ UNCHANGED <<ctlVars, queue, reading, callVars, done, events>>

\* The handler returns and its cleanup removes the subscription: the client has gone, a write
\* failed or made no progress, or the leader check found the lease lost.  A Dispatch that took
\* its snapshot earlier still holds the channel, which nobody drains any more.
EndStream(c) ==
    /\ stream[c] \in {"pump", "send"}
    /\ reading[Owner[c]] # c \/ stream[c] = "send" \/ ~leader
    /\ stream' = [stream EXCEPT ![c] = "closed"]
    /\ queue' = [queue EXCEPT ![c] = << >>]
    /\ hand' = [hand EXCEPT ![c] = None]
    /\ reading' = [reading EXCEPT ![Owner[c]] = IF @ = c THEN None ELSE @]
    /\ left' = [t \in Tasks |->
        IF c \in left[t] THEN (left[t] \ {c}) \cup {Orphan} ELSE left[t]]
    /\ UNCHANGED <<ctlVars, call, target, ctx, sent, pending, outcome, done, agentVars, events>>

-----------------------------------------------------------------------------
(* The diagnostics request.                                                *)

\* ServeHTTP: the leadership gate, validation and the registry lookup of the source agent.
ServeHTTP(t, a) ==
    /\ call[t] = "idle" /\ leader
    /\ call' = [call EXCEPT ![t] = "gated"]
    /\ target' = [target EXCEPT ![t] = a]
    /\ UNCHANGED <<ctlVars, streamVars, ctx, left, sent, pending, outcome, done,
                   agentVars, events>>

\* The request's deadline passes, or its caller goes away.
CtxDone(t) ==
    /\ call[t] \in {"gated", "send", "wait"} /\ ctx[t] = "live"
    /\ ctx' = [ctx EXCEPT ![t] = "timeout"]
    /\ UNCHANGED <<ctlVars, streamVars, call, target, left, sent, pending, outcome, done,
                   agentVars, events>>

CallerLeaves(t) ==
    /\ call[t] \in {"gated", "send", "wait"} /\ ctx[t] = "live"
    /\ Event
    /\ ctx' = [ctx EXCEPT ![t] = "cancelled"]
    /\ UNCHANGED <<ctlVars, streamVars, call, target, left, sent, pending, outcome, done,
                   agentVars>>

Subscribed(a) == {c \in Chans : Owner[c] = a /\ stream[c] \in {"pump", "send"}}

\* Dispatch, under the mutex: the snapshot of the agent's channels and the pending entry.
DispatchStart(t) ==
    /\ call[t] = "gated"
    /\ IF Subscribed(target[t]) = {}
       THEN /\ outcome' = [outcome EXCEPT ![t] = "unsubscribed"]
            /\ call' = [call EXCEPT ![t] = "returned"]
            /\ UNCHANGED <<left, pending>>
       ELSE /\ left' = [left EXCEPT ![t] = Subscribed(target[t])]
            /\ pending' = pending \cup {t}
            /\ call' = [call EXCEPT ![t] = "send"]
            /\ UNCHANGED outcome
    /\ UNCHANGED <<ctlVars, streamVars, target, ctx, sent, done, agentVars, events>>

\* Dispatch returns early or late; the deferred delete is still to run.
Leave(t, out) ==
    /\ outcome' = [outcome EXCEPT ![t] = out]
    /\ call' = [call EXCEPT ![t] = "leave"]

EndlessRoom(c) == TRUE      \* as if the channel had no capacity
HasRoom(c) == Len(queue[c]) < Buffer

\* One turn of the send loop: the task goes into a channel with room ...
SendTo(t, c) ==
    /\ call[t] = "send" /\ c \in left[t] \cap Chans /\ HasRoom(c)
    /\ queue' = [queue EXCEPT ![c] = Append(@, t)]
    /\ sent' = [sent EXCEPT ![t] = TRUE]
    /\ left' = [left EXCEPT ![t] = @ \ {c}]
    /\ UNCHANGED <<ctlVars, stream, hand, reading, call, target, ctx, pending, outcome, done,
                   agentVars, events>>

\* As if the last channel tried decided whether the task was sent.
SkipFullForgets(t, c) ==
    /\ call[t] = "send" /\ c \in left[t] \cap Chans /\ ~HasRoom(c)
    /\ ctx[t] = "live"
    /\ left' = [left EXCEPT ![t] = @ \ {c}]
    /\ sent' = [sent EXCEPT ![t] = FALSE]
    /\ UNCHANGED <<ctlVars, streamVars, call, target, ctx, pending, outcome, done,
                   agentVars, events>>

\* ... a full one is skipped while the context lives ...
SkipFull(t, c) ==
    /\ call[t] = "send" /\ c \in left[t] \cap Chans /\ ~HasRoom(c)
    /\ ctx[t] = "live"
    /\ left' = [left EXCEPT ![t] = @ \ {c}]
    /\ UNCHANGED <<ctlVars, streamVars, call, target, ctx, sent, pending, outcome, done,
                   agentVars, events>>

\* ... an abandoned one takes the task when it had room, and the task is lost in it ...
SendToOrphan(t) ==
    /\ call[t] = "send" /\ Orphan \in left[t]
    /\ left' = [left EXCEPT ![t] = @ \ {Orphan}]
    /\ \E took \in BOOLEAN :
        /\ ~took => ctx[t] = "live"
        /\ sent' = [sent EXCEPT ![t] = @ \/ took]
    /\ UNCHANGED <<ctlVars, streamVars, call, target, ctx, pending, outcome, done,
                   agentVars, events>>

\* ... and an ended context may win the select.
SendAborted(t) ==
    /\ call[t] = "send" /\ left[t] # {} /\ ctx[t] # "live"
    /\ Leave(t, ctx[t])
    /\ UNCHANGED <<ctlVars, streamVars, target, ctx, left, sent, pending, done,
                   agentVars, events>>

\* The loop is over: wait for an outcome, unless no channel took the task.
SendLoopDone(t) ==
    /\ call[t] = "send" /\ left[t] = {}
    /\ IF sent[t]
       THEN call' = [call EXCEPT ![t] = "wait"] /\ UNCHANGED outcome
       ELSE Leave(t, "unsubscribed")
    /\ UNCHANGED <<ctlVars, streamVars, target, ctx, left, sent, pending, done,
                   agentVars, events>>

\* The select on done and ctx.Done(): either may win when both are ready.
Receive(t) ==
    /\ call[t] = "wait" /\ done[t] # None
    /\ Leave(t, done[t])
    /\ UNCHANGED <<ctlVars, streamVars, target, ctx, left, sent, pending, done,
                   agentVars, events>>

\* As if only a cancelled caller, not the deadline, ended the wait.
GiveUpOnCancel(t) ==
    /\ call[t] = "wait" /\ ctx[t] = "cancelled"
    /\ Leave(t, ctx[t])
    /\ UNCHANGED <<ctlVars, streamVars, target, ctx, left, sent, pending, done,
                   agentVars, events>>

GiveUp(t) ==
    /\ call[t] = "wait" /\ ctx[t] # "live"
    /\ Leave(t, ctx[t])
    /\ UNCHANGED <<ctlVars, streamVars, target, ctx, left, sent, pending, done,
                   agentVars, events>>

\* The deferred delete; ServeHTTP maps the outcome to its answer.
Return(t) ==
    /\ call[t] = "leave"
    /\ pending' = pending \ {t}
    /\ call' = [call EXCEPT ![t] = "returned"]
    /\ UNCHANGED <<ctlVars, streamVars, target, ctx, left, sent, outcome, done,
                   agentVars, events>>

-----------------------------------------------------------------------------
(* Execution and report.                                                   *)

\* executeOne is over, with whatever result, and the report call starts.
Finish(a, t, c) ==
    /\ <<t, c>> \in running[a]
    /\ running' = [running EXCEPT ![a] = @ \ {<<t, c>>}]
    /\ reports' = reports \cup
         {[task |-> t, agent |-> a, chan |-> c, what |-> "ran", step |-> "wire"]}
    /\ UNCHANGED <<ctlVars, streamVars, callVars, done, ran, events>>

\* Report, under the mutex: unknown tasks and foreign agents are dropped.
AwaitedFromAnyone(r) == r.task \in pending      \* as if agentID were not compared
Awaited(r) == r.task \in pending /\ r.agent = target[r.task]

Report(r) ==
    /\ r.step = "wire"
    /\ reports' =
        IF Awaited(r)
        THEN (reports \ {r}) \cup {[r EXCEPT !.step = "found"]}
        ELSE reports \ {r}
    /\ UNCHANGED <<ctlVars, streamVars, callVars, done, running, ran, events>>

\* Report, after the mutex: the first outcome wins the buffer of done.
ReportSend(r) ==
    /\ r.step = "found"
    /\ done' = [done EXCEPT ![r.task] = IF @ = None THEN r.what ELSE @]
    /\ reports' = reports \ {r}
    /\ UNCHANGED <<ctlVars, streamVars, callVars, running, ran, events>>

\* The call fails, or the Service routes it to another replica, which drops the result.
ReportLost(r) ==
    /\ r.step = "wire"
    /\ Event
    /\ reports' = reports \ {r}
    /\ UNCHANGED <<ctlVars, streamVars, callVars, done, running, ran>>

\* A report whose agent id is not the one the task, known from its event, was sent to.
StrayReport(t, a) ==
    /\ call[t] # "idle" /\ a # target[t]
    /\ Event
    /\ reports' = reports \cup
         {[task |-> t, agent |-> a, chan |-> None, what |-> "ran", step |-> "wire"]}
    /\ UNCHANGED <<ctlVars, streamVars, callVars, done, running, ran>>

\* The agent's process restarts: executions, unsent reports and the stream go with it.
Restart(a) ==
    /\ Event
    /\ running' = [running EXCEPT ![a] = {}]
    /\ reports' = {r \in reports : r.agent = a => r.step = "found"}
    /\ reading' = [reading EXCEPT ![a] = None]
    /\ UNCHANGED <<ctlVars, stream, queue, hand, callVars, done, ran>>

-----------------------------------------------------------------------------
(* Leadership.                                                             *)

\* SetLeader(false): the flag first, FailAll later.
Demote ==
    /\ leader
    /\ Event
    /\ election' = "failall"
    /\ UNCHANGED <<streamVars, callVars, done, agentVars>>

FailAll ==
    /\ election = "failall"
    /\ election' = "standby"
    /\ done' = [t \in Tasks |-> IF t \in pending /\ done[t] = None THEN "lost" ELSE done[t]]
    /\ UNCHANGED <<streamVars, callVars, agentVars, events>>

Promote ==
    /\ election = "standby"
    /\ election' = "leading"
    /\ UNCHANGED <<streamVars, callVars, done, agentVars, events>>

StreamNext ==
    \/ \E c \in Chans :
        WatchTasks(c) \/ Subscribe(c) \/ PumpTake(c) \/ SendDone(c) \/ EndStream(c)
    \/ \E a \in Agents : LoseStream(a)
DispatchStep(t) ==
    \/ DispatchStart(t) \/ SendToOrphan(t) \/ SendAborted(t) \/ SendLoopDone(t)
    \/ Receive(t) \/ GiveUp(t) \/ Return(t)
    \/ \E c \in Chans : SendTo(t, c) \/ SkipFull(t, c)
CallNext ==
    \E t \in Tasks :
        \/ DispatchStep(t) \/ CtxDone(t) \/ CallerLeaves(t)
        \/ \E a \in Agents : ServeHTTP(t, a)
AgentNext ==
    \/ \E a \in Agents, t \in Tasks, c \in Chans : Finish(a, t, c)
    \/ \E r \in reports : Report(r) \/ ReportSend(r) \/ ReportLost(r)
    \/ \E a \in Agents, t \in Tasks : StrayReport(t, a)
    \/ \E a \in Agents : Restart(a)
ElectionNext == Demote \/ FailAll \/ Promote

Next == StreamNext \/ CallNext \/ AgentNext \/ ElectionNext

Spec == Init /\ [][Next]_vars

(***************************************************************************)
(* ServeHTTP bounds every dispatch with context.WithTimeout, and a         *)
(* goroutine that can run does.  Agents and reports get no fairness: a     *)
(* caller is answered even when the agent never speaks again.              *)
(***************************************************************************)
Fairness == \A t \in Tasks : WF_vars(DispatchStep(t)) /\ WF_vars(CtxDone(t))

FairSpec == Spec /\ Fairness

-----------------------------------------------------------------------------
(* Properties.                                                             *)

Outcomes == {"ran", "busy", "lost"}

\* Every variable stays in its range; a subscription never holds more than Buffer tasks.
TypeOK ==
    /\ election \in {"leading", "failall", "standby"}
    /\ stream \in [Chans -> {"closed", "gated", "pump", "send"}]
    /\ queue \in [Chans -> Seq(Tasks)]
    /\ \A c \in Chans : Len(queue[c]) <= Buffer
    /\ hand \in [Chans -> Tasks \cup {None}]
    /\ \A c \in Chans : stream[c] = "send" => hand[c] # None
    /\ reading \in [Agents -> Chans \cup {None}]
    /\ call \in [Tasks -> {"idle", "gated", "send", "wait", "leave", "returned"}]
    /\ target \in [Tasks -> Agents \cup {None}]
    /\ ctx \in [Tasks -> {"live", "timeout", "cancelled"}]
    /\ left \in [Tasks -> SUBSET (Chans \cup {Orphan})]
    /\ sent \in [Tasks -> BOOLEAN]
    /\ pending \in SUBSET Tasks
    /\ done \in [Tasks -> Outcomes \cup {None}]
    /\ outcome \in [Tasks -> Outcomes \cup {"timeout", "cancelled", "unsubscribed", None}]
    /\ running \in [Agents -> SUBSET Copies]
    /\ reports \in SUBSET Reports
    /\ ran \in [Tasks -> [Agents -> Nat]]
    /\ events \in 0..MaxEvents

\* A task is started at most once, and only by the agent it was meant for, although Dispatch
\* copies it into every stream open for the agent id: over a reconnect only one is still read.
\* Two processes under one id would each be given the task.
RunsAtMostOnce ==
    \A t \in Tasks, a \in Agents :
        ran[t][a] <= 1 /\ (ran[t][a] > 0 => a = target[t])

\* A caller answered with a result gets it from an execution by the agent it asked for: late,
\* duplicate and stray reports never fill in (pendingTask.agentID).
AnswerIsFromTarget ==
    \A t \in Tasks : outcome[t] = "ran" => ran[t][target[t]] > 0

\* An answer that says the check did not run - no open task stream, or agent busy - is true
\* for good: no copy of the task is started before or after it.
RefusedMeansNotRun ==
    \A t \in Tasks : outcome[t] \in {"unsubscribed", "busy"} =>
        \A a \in Agents : ran[t][a] = 0

\* Whatever agents, streams and the lease do, a diagnostics request is answered.
EveryCallReturns == \A t \in Tasks : (call[t] = "gated") ~> (call[t] = "returned")

=============================================================================
