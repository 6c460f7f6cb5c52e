------------------------- MODULE TaskDispatchTypes -------------------------
(***************************************************************************)
(* The inductive invariant of TaskDispatch, type correctness, and what each *)
(* kind of step leaves alone.                                              *)
(***************************************************************************)
EXTENDS TaskDispatch, TLAPS

\* Where a copy of task t may be on its way through channel c.
Offered(t, c) == call[t] = "send" /\ c \in left[t]
Queued(t, c) == \E i \in 1..Len(queue[c]) : queue[c][i] = t
InHand(t, c) == hand[c] = t
Somewhere(t, c) == Offered(t, c) \/ Queued(t, c) \/ InHand(t, c)
\* A copy that may still start: its channel is the one the agent reads.
Live(t, c) == reading[Owner[c]] = c /\ Somewhere(t, c)
NeverRan(t) == \A a \in Agents : ran[t][a] = 0
Started(t) == call[t] \notin {"idle", "gated"}

\* A stream that is not pumping holds nothing.
ChanInv ==
    \A c \in Chans :
        /\ stream[c] \in {"closed", "gated"} => queue[c] = << >>
        /\ stream[c] # "send" => hand[c] = None

\* A copy is in a subscribed channel of the task's agent.
PlaceInv ==
    \A t \in Tasks, c \in Chans :
        Somewhere(t, c) =>
            Started(t) /\ Owner[c] = target[t] /\ stream[c] \in {"pump", "send"}

\* A channel holds at most one copy of a task.
Once(t, c) == \A i, j \in 1..Len(queue[c]) : queue[c][i] = t /\ queue[c][j] = t => i = j
OneCopyInv ==
    \A t \in Tasks, c \in Chans :
        /\ Offered(t, c) => ~Queued(t, c) /\ ~InHand(t, c)
        /\ Queued(t, c) => ~InHand(t, c)
        /\ Once(t, c)

\* A task that has run was sent, ran once, at its target, and nothing of it can start again.
RanInv ==
    \A t \in Tasks, a \in Agents :
        /\ ran[t][a] <= 1
        /\ ran[t][a] > 0 => a = target[t] /\ sent[t] /\ \A c \in Chans : ~Live(t, c)

\* How far a call is, and what has been decided by then.
CallInv ==
    \A t \in Tasks :
        /\ call[t] = "idle" <=> target[t] = None
        /\ ~Started(t) => ~sent[t] /\ done[t] = None /\ t \notin pending
        /\ call[t] \in {"idle", "gated", "send", "wait"} => outcome[t] = None
        /\ ~sent[t] => \A c \in Chans : ~Queued(t, c) /\ ~InHand(t, c)
        /\ outcome[t] = "unsubscribed" => ~sent[t] /\ call[t] \in {"leave", "returned"}

\* Once a copy has been refused, no copy has run and none can start.
Refused(t) ==
    \/ outcome[t] = "busy" \/ done[t] = "busy"
    \/ \E r \in reports : r.task = t /\ r.what = "busy"
BusyInv ==
    \A t \in Tasks :
        Refused(t) => NeverRan(t) /\ sent[t] /\ \A c \in Chans : ~Live(t, c)

\* Results come from an execution by the target.
AnswerInv ==
    /\ \A t \in Tasks : outcome[t] = "ran" \/ done[t] = "ran" => ran[t][target[t]] > 0
    /\ \A a \in Agents : \A x \in running[a] : ran[x[1]][a] > 0
    /\ \A r \in reports :
        /\ call[r.task] # "idle"
        /\ r.what = "ran" /\ r.agent = target[r.task] => ran[r.task][r.agent] > 0
        /\ r.step = "found" => r.agent = target[r.task] /\ Started(r.task)

CopyInv == ChanInv /\ PlaceInv /\ OneCopyInv
IInv == TypeOK /\ CopyInv /\ RanInv /\ CallInv /\ BusyInv /\ AnswerInv

-----------------------------------------------------------------------------
(* Types.                                                                  *)

LEMMA TypeStream == TypeOK /\ StreamNext => TypeOK'
  <1> SUFFICES ASSUME TypeOK, StreamNext PROVE TypeOK'
    OBVIOUS
  <1> USE DispatchConstants
  <1>1. ASSUME NEW c \in Chans, WatchTasks(c) PROVE TypeOK'
    BY <1>1 DEF TypeOK, WatchTasks, ctlVars, callVars, agentVars
  <1>2. ASSUME NEW c \in Chans, Subscribe(c) PROVE TypeOK'
    BY <1>2 DEF TypeOK, Subscribe, ctlVars, callVars, agentVars
  <1>3. ASSUME NEW c \in Chans, PumpTake(c) PROVE TypeOK'
    <2>1. /\ queue[c] \in Seq(Tasks) /\ Len(queue[c]) <= Buffer
          /\ queue[c] # << >>
      BY <1>3 DEF TypeOK, PumpTake
    <2>2. /\ Head(queue[c]) \in Tasks
          /\ Tail(queue[c]) \in Seq(Tasks) /\ Len(Tail(queue[c])) <= Buffer
      BY <2>1
    <2>3. queue' \in [Chans -> Seq(Tasks)] /\ \A x \in Chans : Len(queue'[x]) <= Buffer
      BY <1>3, <2>2 DEF TypeOK, PumpTake
    <2>4. /\ hand' \in [Chans -> Tasks \cup {None}]
          /\ stream' \in [Chans -> {"closed", "gated", "pump", "send"}]
          /\ \A x \in Chans : stream'[x] = "send" => hand'[x] # None
      BY <1>3, <2>2 DEF TypeOK, PumpTake
    <2> QED BY <1>3, <2>3, <2>4 DEF TypeOK, PumpTake, ctlVars, callVars, agentVars
  <1>4. ASSUME NEW c \in Chans, SendDone(c) PROVE TypeOK'
    <2>1. hand[c] \in Tasks /\ Owner[c] \in Agents
      BY <1>4 DEF TypeOK, SendDone
    <2>2. /\ hand' \in [Chans -> Tasks \cup {None}]
          /\ stream' \in [Chans -> {"closed", "gated", "pump", "send"}]
          /\ \A x \in Chans : stream'[x] = "send" => hand'[x] # None
      BY <1>4 DEF TypeOK, SendDone
    <2>3. /\ running' \in [Agents -> SUBSET Copies]
          /\ reports' \in SUBSET Reports
          /\ ran' \in [Tasks -> [Agents -> Nat]]
      <3>1. CASE UNCHANGED agentVars
        BY <3>1 DEF TypeOK, agentVars
      <3>2. CASE /\ running' = [running EXCEPT ![Owner[c]] = @ \cup {<<hand[c], c>>}]
                 /\ ran' = [ran EXCEPT ![hand[c]][Owner[c]] = @ + 1]
                 /\ UNCHANGED reports
        BY <2>1, <3>2 DEF TypeOK, Copies
      <3>3. CASE /\ reports' = reports \cup {[task |-> hand[c], agent |-> Owner[c],
                                 chan |-> c, what |-> "busy", step |-> "wire"]}
                 /\ UNCHANGED <<running, ran>>
        BY <2>1, <3>3 DEF TypeOK, Reports
      <3> QED BY <1>4, <3>1, <3>2, <3>3 DEF SendDone, Handle
    <2> QED BY <1>4, <2>2, <2>3 DEF TypeOK, SendDone, ctlVars, callVars
  <1>5. ASSUME NEW c \in Chans, EndStream(c) PROVE TypeOK'
    <2>1. /\ queue' \in [Chans -> Seq(Tasks)] /\ \A x \in Chans : Len(queue'[x]) <= Buffer
      BY <1>5 DEF TypeOK, EndStream
    <2>2. /\ hand' \in [Chans -> Tasks \cup {None}]
          /\ stream' \in [Chans -> {"closed", "gated", "pump", "send"}]
          /\ \A x \in Chans : stream'[x] = "send" => hand'[x] # None
          /\ reading' \in [Agents -> Chans \cup {None}]
      BY <1>5 DEF TypeOK, EndStream
    <2>3. left' \in [Tasks -> SUBSET (Chans \cup {Orphan})]
      <3>1. ASSUME NEW t \in Tasks
            PROVE  (IF c \in left[t] THEN (left[t] \ {c}) \cup {Orphan} ELSE left[t])
                        \in SUBSET (Chans \cup {Orphan})
        BY DEF TypeOK
      <3> QED BY <1>5, <3>1 DEF EndStream
    <2> QED BY <1>5, <2>1, <2>2, <2>3 DEF TypeOK, EndStream, ctlVars, agentVars
  <1>6. ASSUME NEW a \in Agents, LoseStream(a) PROVE TypeOK'
    BY <1>6 DEF TypeOK, LoseStream, Event, ctlVars, callVars, agentVars
  <1> QED BY <1>1, <1>2, <1>3, <1>4, <1>5, <1>6 DEF StreamNext

LEMMA TypeCall == TypeOK /\ CallNext => TypeOK'
  <1> SUFFICES ASSUME TypeOK, NEW t \in Tasks,
                      \/ DispatchStep(t) \/ CtxDone(t) \/ CallerLeaves(t)
                      \/ \E a \in Agents : ServeHTTP(t, a)
               PROVE TypeOK'
    BY DEF CallNext
  <1> USE DispatchConstants DEF ctlVars, streamVars, agentVars
  <1>1. ASSUME NEW a \in Agents, ServeHTTP(t, a) PROVE TypeOK'
    BY <1>1 DEF TypeOK, ServeHTTP
  <1>2. CASE CtxDone(t)
    BY <1>2 DEF TypeOK, CtxDone
  <1>3. CASE CallerLeaves(t)
    BY <1>3 DEF TypeOK, CallerLeaves, Event
  <1>4. CASE DispatchStart(t)
    <2>1. Subscribed(target[t]) \in SUBSET (Chans \cup {Orphan})
      BY DEF Subscribed
    <2>2. /\ left' \in [Tasks -> SUBSET (Chans \cup {Orphan})]
          /\ pending' \in SUBSET Tasks
          /\ call' \in [Tasks -> {"idle", "gated", "send", "wait", "leave", "returned"}]
          /\ outcome' \in [Tasks -> Outcomes \cup {"timeout", "cancelled", "unsubscribed", None}]
      <3>1. CASE Subscribed(target[t]) = {}
        <4>1. /\ outcome' = [outcome EXCEPT ![t] = "unsubscribed"]
              /\ call' = [call EXCEPT ![t] = "returned"] /\ UNCHANGED <<left, pending>>
          BY <1>4, <3>1 DEF DispatchStart
        <4> QED BY <4>1 DEF TypeOK
      <3>2. CASE Subscribed(target[t]) # {}
        <4>1. left' = [left EXCEPT ![t] = Subscribed(target[t])]
          BY <1>4, <3>2 DEF DispatchStart
        <4>2. left' \in [Tasks -> SUBSET (Chans \cup {Orphan})]
          BY <2>1, <4>1 DEF TypeOK
        <4>3. /\ pending' = pending \cup {t} /\ UNCHANGED outcome
              /\ call' = [call EXCEPT ![t] = "send"]
          BY <1>4, <3>2 DEF DispatchStart
        <4> QED BY <4>2, <4>3 DEF TypeOK
      <3> QED BY <3>1, <3>2
    <2> QED BY <1>4, <2>2 DEF TypeOK, DispatchStart
  <1>5. ASSUME NEW c \in Chans, SendTo(t, c) PROVE TypeOK'
    <2>1. queue[c] \in Seq(Tasks) /\ Len(queue[c]) < Buffer
      BY <1>5 DEF TypeOK, SendTo, HasRoom
    <2>2. Append(queue[c], t) \in Seq(Tasks) /\ Len(Append(queue[c], t)) <= Buffer
      BY <2>1
    <2>3. queue' \in [Chans -> Seq(Tasks)] /\ \A x \in Chans : Len(queue'[x]) <= Buffer
      BY <1>5, <2>2 DEF TypeOK, SendTo
    <2>4. sent' \in [Tasks -> BOOLEAN] /\ left' \in [Tasks -> SUBSET (Chans \cup {Orphan})]
      BY <1>5 DEF TypeOK, SendTo
    <2> QED BY <1>5, <2>3, <2>4 DEF TypeOK, SendTo
  <1>6. ASSUME NEW c \in Chans, SkipFull(t, c) PROVE TypeOK'
    BY <1>6 DEF TypeOK, SkipFull
  <1>7. CASE SendToOrphan(t)
    BY <1>7 DEF TypeOK, SendToOrphan
  <1>8. CASE SendAborted(t)
    BY <1>8 DEF TypeOK, SendAborted, Leave
  <1>9. CASE SendLoopDone(t)
    <2>1. /\ outcome' \in [Tasks -> Outcomes \cup {"timeout", "cancelled", "unsubscribed", None}]
          /\ call' \in [Tasks -> {"idle", "gated", "send", "wait", "leave", "returned"}]
      <3>1. CASE sent[t]
        <4>1. call' = [call EXCEPT ![t] = "wait"] /\ UNCHANGED outcome
          BY <1>9, <3>1, Zenon DEF SendLoopDone
        <4> QED BY <4>1 DEF TypeOK
      <3>2. CASE ~sent[t]
        <4>1. /\ outcome' = [outcome EXCEPT ![t] = "unsubscribed"]
              /\ call' = [call EXCEPT ![t] = "leave"]
          BY <1>9, <3>2, Zenon DEF SendLoopDone, Leave
        <4> QED BY <4>1 DEF TypeOK
      <3> QED BY <3>1, <3>2
    <2> QED BY <1>9, <2>1 DEF TypeOK, SendLoopDone
  <1>10. CASE Receive(t)
    BY <1>10 DEF TypeOK, Receive, Leave
  <1>11. CASE GiveUp(t)
    BY <1>11 DEF TypeOK, GiveUp, Leave
  <1>12. CASE Return(t)
    BY <1>12 DEF TypeOK, Return
  <1> QED BY <1>1, <1>2, <1>3, <1>4, <1>5, <1>6, <1>7, <1>8, <1>9, <1>10, <1>11, <1>12
          DEF DispatchStep

LEMMA TypeAgent == TypeOK /\ AgentNext => TypeOK'
  <1> SUFFICES ASSUME TypeOK, AgentNext PROVE TypeOK'
    OBVIOUS
  <1> USE DispatchConstants DEF ctlVars, streamVars, callVars
  <1>1. ASSUME NEW a \in Agents, NEW t \in Tasks, NEW c \in Chans, Finish(a, t, c) PROVE TypeOK'
    BY <1>1 DEF TypeOK, Finish, Reports
  <1>2. ASSUME NEW r \in reports, Report(r) PROVE TypeOK'
    <2>0. r \in Reports
      BY DEF TypeOK
    <2>1. [r EXCEPT !.step = "found"] \in Reports
      BY <2>0 DEF Reports
    <2>2. reports' \in SUBSET Reports
      BY <1>2, <2>0, <2>1 DEF TypeOK, Report
    <2> QED BY <1>2, <2>2 DEF TypeOK, Report
  <1>3. ASSUME NEW r \in reports, ReportSend(r) PROVE TypeOK'
    BY <1>3 DEF TypeOK, ReportSend, Reports, Outcomes
  <1>4. ASSUME NEW r \in reports, ReportLost(r) PROVE TypeOK'
    BY <1>4 DEF TypeOK, ReportLost, Event
  <1>5. ASSUME NEW a \in Agents, NEW t \in Tasks, StrayReport(t, a) PROVE TypeOK'
    BY <1>5 DEF TypeOK, StrayReport, Reports, Event
  <1>6. ASSUME NEW a \in Agents, Restart(a) PROVE TypeOK'
    BY <1>6 DEF TypeOK, Restart, Event
  <1> QED BY <1>1, <1>2, <1>3, <1>4, <1>5, <1>6 DEF AgentNext

LEMMA TypeElection == TypeOK /\ (ElectionNext \/ UNCHANGED vars) => TypeOK'
  <1> SUFFICES ASSUME TypeOK, ElectionNext \/ UNCHANGED vars PROVE TypeOK'
    OBVIOUS
  <1> USE DispatchConstants DEF streamVars, callVars, agentVars
  <1>1. CASE Demote
    BY <1>1 DEF TypeOK, Demote, Event
  <1>2. CASE FailAll
    BY <1>2 DEF TypeOK, FailAll, Outcomes
  <1>3. CASE Promote
    BY <1>3 DEF TypeOK, Promote
  <1>4. CASE UNCHANGED vars
    BY <1>4 DEF TypeOK, vars, ctlVars
  <1> QED BY <1>1, <1>2, <1>3, <1>4 DEF ElectionNext

LEMMA TypeStep == TypeOK /\ [Next]_vars => TypeOK'
  BY TypeStream, TypeCall, TypeAgent, TypeElection DEF Next

LEMMA TypeInit == Init => TypeOK
  BY DispatchConstants DEF Init, TypeOK, Copies, Outcomes

\* The type invariant: no channel of the task path ever holds more than its capacity.
THEOREM TypeCorrect == Spec => []TypeOK
  BY TypeInit, TypeStep, PTL DEF Spec

-----------------------------------------------------------------------------
(* What each kind of step leaves alone.                                    *)

LEMMA StreamFrame ==
  ASSUME StreamNext
  PROVE  /\ UNCHANGED <<election, call, target, ctx, sent, pending, outcome, done>>
         /\ UNCHANGED <<running, reports, ran>> \/ \E c \in Chans : SendDone(c)
  <1> USE DEF ctlVars, callVars, agentVars
  <1>1. ASSUME NEW c \in Chans, WatchTasks(c) \/ Subscribe(c) \/ PumpTake(c)
        PROVE  UNCHANGED <<election, call, target, ctx, sent, pending, outcome, done,
                           running, reports, ran>>
    BY <1>1, Zenon DEF WatchTasks, Subscribe, PumpTake
  <1>2. ASSUME NEW c \in Chans, SendDone(c)
        PROVE  UNCHANGED <<election, call, target, ctx, sent, pending, outcome, done>>
    BY <1>2, Zenon DEF SendDone
  <1>3. ASSUME NEW c \in Chans, EndStream(c)
        PROVE  UNCHANGED <<election, call, target, ctx, sent, pending, outcome, done,
                           running, reports, ran>>
    BY <1>3, Zenon DEF EndStream
  <1>4. ASSUME NEW a \in Agents, LoseStream(a)
        PROVE  UNCHANGED <<election, call, target, ctx, sent, pending, outcome, done,
                           running, reports, ran>>
    BY <1>4, Zenon DEF LoseStream
  <1> QED BY <1>1, <1>2, <1>3, <1>4 DEF StreamNext

LEMMA CallFrame ==
  ASSUME CallNext
  PROVE  /\ UNCHANGED <<election, stream, hand, reading, done, running, reports, ran>>
         /\ UNCHANGED queue \/ \E t \in Tasks, c \in Chans : SendTo(t, c)
  <1> DEFINE Kept == UNCHANGED <<election, stream, hand, reading, done, running, reports, ran>>
  <1> USE DEF ctlVars, streamVars, agentVars
  <1>1. ASSUME NEW t \in Tasks, NEW a \in Agents, ServeHTTP(t, a) PROVE Kept /\ UNCHANGED queue
    BY <1>1, Zenon DEF ServeHTTP
  <1>2. ASSUME NEW t \in Tasks, CtxDone(t) \/ CallerLeaves(t) PROVE Kept /\ UNCHANGED queue
    BY <1>2, Zenon DEF CtxDone, CallerLeaves
  <1>3. ASSUME NEW t \in Tasks, DispatchStart(t) \/ SendToOrphan(t) PROVE Kept /\ UNCHANGED queue
    BY <1>3, Zenon DEF DispatchStart, SendToOrphan
  <1>4. ASSUME NEW t \in Tasks, SendAborted(t) \/ SendLoopDone(t) \/ Receive(t) \/ GiveUp(t)
        PROVE  Kept /\ UNCHANGED queue
    BY <1>4, Zenon DEF SendAborted, SendLoopDone, Receive, GiveUp
  <1>5. ASSUME NEW t \in Tasks, Return(t) PROVE Kept /\ UNCHANGED queue
    BY <1>5, Zenon DEF Return
  <1>6. ASSUME NEW t \in Tasks, NEW c \in Chans, SkipFull(t, c) PROVE Kept /\ UNCHANGED queue
    BY <1>6, Zenon DEF SkipFull
  <1>7. ASSUME NEW t \in Tasks, NEW c \in Chans, SendTo(t, c) PROVE Kept
    BY <1>7, Zenon DEF SendTo
  <1> HIDE DEF Kept
  <1>8. Kept /\ (UNCHANGED queue \/ \E t \in Tasks, c \in Chans : SendTo(t, c))
    BY <1>1, <1>2, <1>3, <1>4, <1>5, <1>6, <1>7 DEF CallNext, DispatchStep
  <1> QED BY <1>8 DEF Kept

LEMMA AgentFrame ==
  ASSUME AgentNext
  PROVE  /\ UNCHANGED <<election, stream, queue, hand, call, target, ctx, left, sent, pending,
                        outcome, ran>>
         /\ UNCHANGED reading \/ \E a \in Agents : Restart(a)
         /\ UNCHANGED done \/ \E r \in reports : ReportSend(r)
  <1> DEFINE Kept == UNCHANGED <<election, stream, queue, hand, call, target, ctx, left, sent,
                                 pending, outcome, ran>>
  <1> USE DEF ctlVars, streamVars, callVars
  <1>1. ASSUME NEW a \in Agents, NEW t \in Tasks, NEW c \in Chans, Finish(a, t, c)
        PROVE  Kept /\ UNCHANGED <<reading, done>>
    BY <1>1, Zenon DEF Finish
  <1>2. ASSUME NEW r \in reports, Report(r) \/ ReportLost(r) PROVE Kept /\ UNCHANGED <<reading, done>>
    BY <1>2, Zenon DEF Report, ReportLost
  <1>3. ASSUME NEW r \in reports, ReportSend(r) PROVE Kept /\ UNCHANGED reading
    BY <1>3, Zenon DEF ReportSend
  <1>4. ASSUME NEW a \in Agents, NEW t \in Tasks, StrayReport(t, a)
        PROVE  Kept /\ UNCHANGED <<reading, done>>
    BY <1>4, Zenon DEF StrayReport
  <1>5. ASSUME NEW a \in Agents, Restart(a) PROVE Kept /\ UNCHANGED done
    BY <1>5, Zenon DEF Restart
  <1> HIDE DEF Kept
  <1>6. /\ Kept
        /\ UNCHANGED reading \/ \E a \in Agents : Restart(a)
        /\ UNCHANGED done \/ \E r \in reports : ReportSend(r)
    BY <1>1, <1>2, <1>3, <1>4, <1>5 DEF AgentNext
  <1> QED BY <1>6 DEF Kept

LEMMA ElectionFrame ==
  ASSUME ElectionNext
  PROVE  /\ UNCHANGED <<stream, queue, hand, reading, call, target, ctx, left, sent, pending,
                        outcome, running, reports, ran>>
         /\ UNCHANGED done \/ FailAll
  BY DEF ElectionNext, Demote, FailAll, Promote, streamVars, callVars, agentVars

=============================================================================
