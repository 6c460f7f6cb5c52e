------------------------- MODULE TaskDispatchProofs -------------------------
(***************************************************************************)
(* RunsAtMostOnce, AnswerIsFromTarget and RefusedMeansNotRun for every     *)
(* number of agents, tasks, streams, slots and events.                     *)
(***************************************************************************)
EXTENDS TaskDispatchCalls

\* A refusal comes from a report of one, and that from a hand-over to a full executor.
LEMMA RefusedNew ==
  ASSUME IInv, [Next]_vars, NEW t \in Tasks, Refused(t)'
  PROVE  \/ Refused(t)
         \/ \E c \in Chans : SendDone(c) /\ reading[Owner[c]] = c /\ t = hand[c] /\ UNCHANGED ran
  <1>0. TypeOK
    BY DEF IInv
  <1>1. ASSUME UNCHANGED <<outcome, done, reports>> PROVE Refused(t)
    BY <1>1 DEF Refused
  <1>2. ASSUME UNCHANGED <<outcome, done>>, NEW r, r \in reports', r.task = t, r.what = "busy",
               \/ r \in reports
               \/ \E y \in reports : y.task = r.task /\ y.what = r.what
        PROVE  Refused(t)
    BY <1>2 DEF Refused
  <1>3. ASSUME NEW c \in Chans, SendDone(c)
        PROVE  Refused(t) \/ (reading[Owner[c]] = c /\ t = hand[c] /\ UNCHANGED ran)
    <2>1. UNCHANGED <<outcome, done>>
      BY <1>3 DEF SendDone, callVars
    <2>2. CASE UNCHANGED reports
      BY <1>1, <2>1, <2>2
    <2>3. CASE /\ reading[Owner[c]] = c /\ UNCHANGED ran
               /\ reports' = reports \cup {[task |-> hand[c], agent |-> Owner[c],
                               chan |-> c, what |-> "busy", step |-> "wire"]}
      BY <2>1, <2>3 DEF Refused
    <2> QED BY <1>3, <2>2, <2>3 DEF SendDone, Handle, agentVars
  <1>4. ASSUME NEW s \in Tasks, Receive(s) PROVE Refused(t)
    BY <1>0, <1>4 DEF Receive, Leave, Refused, agentVars, TypeOK
  <1>5. ASSUME NEW r \in reports, Report(r) PROVE Refused(t)
    <2>1. r \in Reports
      BY <1>0 DEF TypeOK
    <2>2. [r EXCEPT !.step = "found"].task = r.task /\ [r EXCEPT !.step = "found"].what = r.what
      BY <2>1 DEF Reports
    <2>3. UNCHANGED <<outcome, done>> /\ reports' \subseteq reports \cup {[r EXCEPT !.step = "found"]}
      BY <1>5 DEF Report, callVars
    <2> QED BY <2>2, <2>3 DEF Refused
  <1>6. ASSUME NEW r \in reports, ReportSend(r) PROVE Refused(t)
    BY <1>0, <1>6 DEF ReportSend, Refused, callVars, TypeOK
  <1>7. CASE FailAll
    BY <1>0, <1>7 DEF FailAll, Refused, callVars, agentVars, TypeOK
  <1>8. CASE StreamNext
    BY <1>1, <1>3, <1>8, StreamFrame
  <1>9. CASE ElectionNext
    BY <1>1, <1>7, <1>9, ElectionFrame
  <1> USE DEF callVars, agentVars
  <1>10. CASE AgentNext
    <2>1. ASSUME NEW a \in Agents, NEW s \in Tasks, NEW c \in Chans, Finish(a, s, c)
          PROVE  Refused(t)
      BY <2>1 DEF Finish, Refused
    <2>2. ASSUME NEW a \in Agents, NEW s \in Tasks, StrayReport(s, a) PROVE Refused(t)
      BY <2>2 DEF StrayReport, Refused
    <2>3. ASSUME NEW r \in reports, ReportLost(r) PROVE Refused(t)
      BY <2>3 DEF ReportLost, Refused
    <2>4. ASSUME NEW a \in Agents, Restart(a) PROVE Refused(t)
      BY <2>4 DEF Restart, Refused
    <2> QED BY <1>5, <1>6, <1>10, <2>1, <2>2, <2>3, <2>4 DEF AgentNext
  <1>11. CASE CallNext
    <2> SUFFICES ASSUME NEW s \in Tasks,
                        \/ DispatchStep(s) \/ CtxDone(s) \/ CallerLeaves(s)
                        \/ \E a \in Agents : ServeHTTP(s, a)
                 PROVE  Refused(t)
      BY <1>11 DEF CallNext
    <2>1. CASE \/ CtxDone(s) \/ CallerLeaves(s) \/ (\E a \in Agents : ServeHTTP(s, a))
               \/ (\E c \in Chans : SendTo(s, c) \/ SkipFull(s, c))
               \/ SendToOrphan(s) \/ Return(s)
      BY <1>1, <2>1 DEF CtxDone, CallerLeaves, ServeHTTP, SendTo, SkipFull, SendToOrphan, Return
    <2>2. CASE DispatchStart(s) \/ SendLoopDone(s)
      BY <1>0, <2>2 DEF DispatchStart, SendLoopDone, Leave, Refused, TypeOK
    <2>3. CASE SendAborted(s) \/ GiveUp(s)
      BY <1>0, <2>3 DEF SendAborted, GiveUp, Leave, Refused, TypeOK
    <2> QED BY <1>4, <2>1, <2>2, <2>3 DEF DispatchStep
  <1> QED BY <1>1, <1>8, <1>9, <1>10, <1>11 DEF Next, vars

LEMMA BusyStep ==
  ASSUME IInv, [Next]_vars
  PROVE  BusyInv'
  <1> SUFFICES ASSUME NEW t \in Tasks, Refused(t)'
               PROVE  (NeverRan(t) /\ sent[t] /\ \A x \in Chans : ~Live(t, x))'
    BY DEF BusyInv
  <1>1. ASSUME NEW c \in Chans, SendDone(c), reading[Owner[c]] = c, t = hand[c], UNCHANGED ran
        PROVE  (NeverRan(t) /\ sent[t] /\ \A x \in Chans : ~Live(t, x))'
    <2>1. NeverRan(t) /\ sent[t] /\ \A x \in Chans : ~Live(t, x)'
      BY <1>1, HandedOver
    <2> QED BY <1>1, <2>1 DEF NeverRan, SendDone, callVars
  <1>2. CASE Refused(t)
    <2>1. NeverRan(t) /\ sent[t] /\ \A x \in Chans : ~Live(t, x)
      BY <1>2 DEF IInv, BusyInv
    <2>2. Started(t)
      BY <2>1 DEF IInv, CallInv
    <2>3. sent'[t] /\ \A x \in Chans : ~Live(t, x)'
      BY <2>1, <2>2, SentKept, LiveStep DEF IInv
    <2>4. ran'[t] = ran[t]
      <3>1. ASSUME NEW c \in Chans, SendDone(c) PROVE ran'[t] = ran[t]
        <4>1. CASE reading[Owner[c]] = c
          <5>1. t # hand[c]
            BY <2>1, <3>1, <4>1, HandedOver
          <5> QED BY <3>1, <4>1, <5>1 DEF SendDone, Handle, IInv, TypeOK
        <4>2. CASE reading[Owner[c]] # c
          BY <3>1, <4>2 DEF SendDone, agentVars
        <4> QED BY <4>1, <4>2
      <3> QED BY <3>1, RanKept
    <2> QED BY <2>1, <2>3, <2>4 DEF NeverRan
  <1> QED BY <1>1, <1>2, RefusedNew

LEMMA RanGrows ==
  ASSUME IInv, [Next]_vars, NEW t \in Tasks, NEW a \in Agents, ran[t][a] > 0
  PROVE  ran'[t][a] > 0
  <1>1. ran[t][a] \in Nat
    BY DEF IInv, TypeOK
  <1>2. ASSUME NEW c \in Chans, SendDone(c), ran'[t][a] # ran[t][a] PROVE ran'[t][a] = ran[t][a] + 1
    <2>1. reading[Owner[c]] = c
      BY <1>2 DEF SendDone, agentVars
    <2>2. t = hand[c] /\ a = Owner[c] /\ ran'[t][a] = ran[t][a] + 1
      BY <1>2, <2>1 DEF SendDone, Handle, IInv, TypeOK
    <2> QED BY <2>2
  <1>3. ran'[t][a] = ran[t][a] \/ ran'[t][a] = ran[t][a] + 1
    BY <1>2, RanKept
  <1> QED BY <1>1, <1>3

LEMMA StartedKept ==
  ASSUME TypeOK, [Next]_vars
  PROVE  \A t \in Tasks : Started(t) => Started(t)'
  <1>1. CASE CallNext
    <2> SUFFICES ASSUME NEW s \in Tasks,
                        \/ DispatchStep(s) \/ CtxDone(s) \/ CallerLeaves(s)
                        \/ \E a \in Agents : ServeHTTP(s, a)
                 PROVE  \A t \in Tasks : Started(t) => Started(t)'
      BY <1>1 DEF CallNext
    <2> USE DEF Started, TypeOK
    <2>1. CASE \/ CtxDone(s) \/ CallerLeaves(s) \/ (\E a \in Agents : ServeHTTP(s, a))
      BY <2>1 DEF CtxDone, CallerLeaves, ServeHTTP
    <2>2. CASE DispatchStart(s) \/ SendToOrphan(s) \/ \E c \in Chans : SendTo(s, c) \/ SkipFull(s, c)
      BY <2>2 DEF DispatchStart, SendToOrphan, SendTo, SkipFull
    <2>3. CASE SendAborted(s) \/ SendLoopDone(s) \/ Receive(s) \/ GiveUp(s) \/ Return(s)
      BY <2>3 DEF SendAborted, SendLoopDone, Receive, GiveUp, Return, Leave
    <2> QED BY <2>1, <2>2, <2>3 DEF DispatchStep
  <1> QED BY <1>1, StreamFrame, AgentFrame, ElectionFrame DEF Next, vars, callVars, Started

\* A result that a call has, it had, or finds in a report that passed the lookup.
LEMMA OutcomeSource ==
  ASSUME TypeOK, [Next]_vars, NEW t \in Tasks, outcome'[t] = "ran" \/ done'[t] = "ran"
  PROVE  \/ outcome[t] = "ran" \/ done[t] = "ran"
         \/ \E r \in reports : r.task = t /\ r.what = "ran" /\ r.step = "found"
  <1>1. CASE UNCHANGED <<outcome, done>>
    BY <1>1
  <1>2. CASE StreamNext
    BY <1>1, <1>2, StreamFrame
  <1>3. CASE AgentNext
    <2>1. ASSUME NEW r \in reports, ReportSend(r), UNCHANGED outcome
          PROVE  \/ outcome[t] = "ran" \/ done[t] = "ran"
                 \/ r.task = t /\ r.what = "ran" /\ r.step = "found"
      BY <2>1 DEF ReportSend, TypeOK
    <2> QED BY <1>1, <1>3, <2>1, AgentFrame
  <1>4. CASE ElectionNext
    <2>1. CASE FailAll
      BY <1>4, <2>1, ElectionFrame DEF FailAll, TypeOK
    <2> QED BY <1>1, <1>4, <2>1, ElectionFrame
  <1>5. CASE CallNext
    <2> SUFFICES ASSUME NEW s \in Tasks,
                        \/ DispatchStep(s) \/ CtxDone(s) \/ CallerLeaves(s)
                        \/ \E a \in Agents : ServeHTTP(s, a)
                 PROVE  outcome[t] = "ran" \/ done[t] = "ran"
      BY <1>5 DEF CallNext
    <2>1. CASE \/ CtxDone(s) \/ CallerLeaves(s) \/ (\E a \in Agents : ServeHTTP(s, a))
               \/ (\E c \in Chans : SendTo(s, c) \/ SkipFull(s, c))
               \/ SendToOrphan(s) \/ Return(s)
      BY <2>1 DEF CtxDone, CallerLeaves, ServeHTTP, SendTo, SkipFull, SendToOrphan, Return
    <2>2. CASE DispatchStart(s) \/ SendLoopDone(s)
      BY <2>2 DEF DispatchStart, SendLoopDone, Leave, TypeOK
    <2>3. CASE SendAborted(s) \/ GiveUp(s)
      BY <2>3 DEF SendAborted, GiveUp, Leave, TypeOK
    <2>4. CASE Receive(s)
      BY <2>4 DEF Receive, Leave, TypeOK
    <2> QED BY <2>1, <2>2, <2>3, <2>4 DEF DispatchStep
  <1> QED BY <1>1, <1>2, <1>3, <1>4, <1>5 DEF Next, vars, callVars

\* Only a hand-over starts an execution.
LEMMA RunningSource ==
  ASSUME TypeOK, [Next]_vars, NEW a \in Agents, NEW x \in running'[a], x \notin running[a]
  PROVE  \E c \in Chans : SendDone(c)
  <1>0. ASSUME UNCHANGED running PROVE FALSE
    BY <1>0
  <1>4. CASE AgentNext
    <2>1. ASSUME NEW b \in Agents, NEW t \in Tasks, NEW c \in Chans, Finish(b, t, c)
          PROVE  FALSE
      <3>1. running'[a] \subseteq running[a]
        BY <2>1 DEF Finish, TypeOK
      <3> QED BY <3>1
    <2>2. ASSUME NEW b \in Agents, Restart(b) PROVE FALSE
      BY <2>2 DEF Restart, TypeOK
    <2> QED BY <1>0, <1>4, <2>1, <2>2 DEF AgentNext, Report, ReportSend, ReportLost, StrayReport
  <1> QED BY <1>0, <1>4, StreamFrame, CallFrame, ElectionFrame DEF Next, vars, agentVars

\* What a report says was so when it was sent; a "found" one was checked by Report.
LEMMA ReportSource ==
  ASSUME IInv, [Next]_vars, NEW r \in reports'
  PROVE  /\ r.task \in Tasks /\ r.agent \in Agents /\ call[r.task] # "idle"
         /\ r.what = "ran" /\ r.agent = target[r.task] => ran[r.task][r.agent] > 0
         /\ r.step = "found" => r.agent = target[r.task] /\ Started(r.task)
  <1> DEFINE Good(y) == /\ y.task \in Tasks /\ y.agent \in Agents /\ call[y.task] # "idle"
                        /\ y.what = "ran" /\ y.agent = target[y.task] => ran[y.task][y.agent] > 0
                        /\ y.step = "found" => y.agent = target[y.task] /\ Started(y.task)
  <1>0. TypeOK /\ AnswerInv
    BY DEF IInv
  <1>1. ASSUME r \in reports PROVE Good(r)
    BY <1>0, <1>1 DEF AnswerInv, TypeOK, Reports
  <1>2. ASSUME NEW c \in Chans, SendDone(c) PROVE Good(r)
    <2>1. CASE r \in reports
      BY <1>1, <2>1
    <2>2. CASE r \notin reports
      <3>1. reading[Owner[c]] = c /\ hand[c] \in Tasks /\ Owner[c] \in Agents
        BY <1>0, <1>2, <2>2, DispatchConstants DEF SendDone, agentVars, TypeOK
      <3>2. r = [task |-> hand[c], agent |-> Owner[c], chan |-> c, what |-> "busy", step |-> "wire"]
        BY <1>2, <2>2, <3>1 DEF SendDone, Handle
      <3>3. Live(hand[c], c) /\ Started(hand[c])
        BY <1>2, <3>1, HandedOver DEF Live, IInv, CopyInv, PlaceInv
      <3> QED BY <3>1, <3>2, <3>3 DEF Started
    <2> QED BY <2>1, <2>2
  <1>3. ASSUME NEW a \in Agents, NEW t \in Tasks, NEW c \in Chans, Finish(a, t, c) PROVE Good(r)
    <2>1. ran[t][a] > 0
      BY <1>0, <1>3 DEF AnswerInv, Finish
    <2>2. call[t] # "idle"
      BY <2>1 DEF IInv, RanInv, CallInv, Started
    <2>3. \/ r \in reports
          \/ r = [task |-> t, agent |-> a, chan |-> c, what |-> "ran", step |-> "wire"]
      BY <1>3 DEF Finish
    <2> QED BY <1>1, <2>1, <2>2, <2>3
  <1>4. ASSUME NEW a \in Agents, NEW t \in Tasks, StrayReport(t, a) PROVE Good(r)
    <2>1. \/ r \in reports
          \/ r = [task |-> t, agent |-> a, chan |-> None, what |-> "ran", step |-> "wire"]
      BY <1>4 DEF StrayReport
    <2> QED BY <1>1, <1>4, <2>1 DEF StrayReport
  <1>5. ASSUME NEW y \in reports, Report(y) PROVE Good(r)
    <2>1. CASE r \in reports
      BY <1>1, <2>1
    <2>2. CASE r \notin reports
      <3>1. r = [y EXCEPT !.step = "found"] /\ Awaited(y)
        BY <1>5, <2>2 DEF Report
      <3>2. y \in Reports
        BY <1>0 DEF TypeOK
      <3>3. r.task = y.task /\ r.agent = y.agent /\ r.what = y.what
        BY <3>1, <3>2 DEF Reports
      <3>4. y.task \in pending /\ y.agent = target[y.task]
        BY <3>1 DEF Awaited
      <3>5. Started(y.task)
        BY <3>2, <3>4 DEF IInv, CallInv, Reports
      <3>6. /\ y.task \in Tasks /\ y.agent \in Agents /\ call[y.task] # "idle"
            /\ y.what = "ran" /\ y.agent = target[y.task] => ran[y.task][y.agent] > 0
        BY <1>0, <3>2 DEF AnswerInv, Reports
      <3> QED BY <3>3, <3>4, <3>5, <3>6
    <2> QED BY <2>1, <2>2
  <1> HIDE DEF Good
  <1>9. ASSUME AgentNext PROVE Good(r)
    BY <1>1, <1>3, <1>4, <1>5, <1>9 DEF AgentNext, ReportSend, ReportLost, Restart
  <1>10. Good(r)
    BY <1>1, <1>2, <1>9, StreamFrame, CallFrame, ElectionFrame DEF Next, vars, agentVars
  <1> QED BY <1>10 DEF Good

\* Where a result, an execution and a report come from.
LEMMA AnswerStep ==
  ASSUME IInv, [Next]_vars
  PROVE  AnswerInv'
  <1>0. TypeOK /\ AnswerInv
    BY DEF IInv
  <1>r. \A r \in reports : r \in Reports /\ r.task \in Tasks /\ r.agent \in Agents
    BY <1>0 DEF TypeOK, Reports
  <1>k. \A t \in Tasks : call[t] # "idle" => target'[t] = target[t] /\ call'[t] # "idle"
    BY <1>0, SentKept
  <1>s. \A t \in Tasks : Started(t) => Started(t)'
    BY <1>0, StartedKept
  \* An outcome is a report's, or the dispatch's own.
  <1>1. ASSUME NEW t \in Tasks, outcome'[t] = "ran" \/ done'[t] = "ran"
        PROVE  ran'[t][target'[t]] > 0
    <2>1. \/ outcome[t] = "ran" \/ done[t] = "ran"
          \/ \E r \in reports : r.task = t /\ r.what = "ran" /\ r.step = "found"
      BY <1>0, <1>1, OutcomeSource
    <2>2. Started(t) /\ target[t] \in Agents
      <3>1. Started(t)
        BY <1>0, <2>1, NoneIsNoOutcome DEF AnswerInv, IInv, CallInv, Started, TypeOK
      <3> QED BY <1>0, <3>1 DEF IInv, CallInv, TypeOK, Started
    <2>3. ran[t][target[t]] > 0
      BY <1>0, <2>1 DEF AnswerInv
    <2> QED BY <1>k, <2>2, <2>3, RanGrows DEF Started
  <1>2. ASSUME NEW a \in Agents, NEW x \in running'[a] PROVE ran'[x[1]][a] > 0
    <2>1. CASE x \in running[a]
      <3>1. x[1] \in Tasks /\ ran[x[1]][a] > 0
        BY <1>0, <2>1 DEF AnswerInv, TypeOK, Copies
      <3> QED BY <3>1, RanGrows
    <2>2. ASSUME NEW c \in Chans, SendDone(c), x \notin running[a] PROVE ran'[x[1]][a] > 0
      <3>1. reading[Owner[c]] = c /\ hand[c] \in Tasks /\ Owner[c] \in Agents
        BY <1>0, <1>2, <2>2, DispatchConstants DEF SendDone, agentVars, TypeOK
      <3>2. /\ running' = [running EXCEPT ![Owner[c]] = @ \cup {<<hand[c], c>>}]
            /\ ran' = [ran EXCEPT ![hand[c]][Owner[c]] = @ + 1]
        BY <1>2, <2>2, <3>1 DEF SendDone, Handle
      <3>3. a = Owner[c] /\ x = <<hand[c], c>>
        BY <1>0, <1>2, <2>2, <3>1, <3>2 DEF TypeOK
      <3>4. ran[hand[c]][a] \in Nat /\ ran'[hand[c]][a] = ran[hand[c]][a] + 1
        BY <1>0, <3>1, <3>2, <3>3 DEF TypeOK
      <3> QED BY <3>3, <3>4
    <2> QED BY <1>0, <2>1, <2>2, RunningSource
  <1>3. ASSUME NEW r \in reports'
        PROVE  /\ call'[r.task] # "idle"
               /\ r.what = "ran" /\ r.agent = target'[r.task] => ran'[r.task][r.agent] > 0
               /\ r.step = "found" => r.agent = target'[r.task] /\ Started(r.task)'
    <2>1. /\ r.task \in Tasks /\ r.agent \in Agents /\ call[r.task] # "idle"
          /\ r.what = "ran" /\ r.agent = target[r.task] => ran[r.task][r.agent] > 0
          /\ r.step = "found" => r.agent = target[r.task] /\ Started(r.task)
      BY ReportSource
    <2> QED BY <1>k, <1>s, <2>1, RanGrows
  <1> QED BY <1>1, <1>2, <1>3 DEF AnswerInv

LEMMA InvInit == Init => IInv
  <1> SUFFICES ASSUME Init PROVE IInv
    OBVIOUS
  <1>1. TypeOK
    BY TypeInit
  <1>2. \A t \in Tasks, c \in Chans : ~Offered(t, c) /\ ~Queued(t, c) /\ ~InHand(t, c)
    BY DispatchConstants DEF Init, Offered, Queued, InHand
  <1>q. \A c \in Chans : stream[c] = "closed" /\ queue[c] = << >> /\ hand[c] = None
    BY DEF Init
  <1>3. CopyInv
    BY <1>2, <1>q DEF CopyInv, ChanInv, PlaceInv, OneCopyInv, Once, Somewhere
  <1>4. \A t \in Tasks : /\ outcome[t] = None /\ done[t] = None /\ ~sent[t] /\ t \notin pending
                         /\ target[t] = None /\ call[t] = "idle"
                         /\ \A a \in Agents : ran[t][a] = 0
    BY DEF Init
  <1>a. AnswerInv
    BY <1>4, NoneIsNoOutcome DEF Init, AnswerInv
  <1>r. RanInv
    BY <1>4 DEF RanInv
  <1>5. CallInv
    BY <1>2, <1>4, NoneIsNoOutcome DEF CallInv, Started
  <1>6. BusyInv
    BY <1>4, NoneIsNoOutcome DEF Init, BusyInv, Refused
  <1> QED BY <1>1, <1>3, <1>a, <1>r, <1>5, <1>6 DEF IInv

LEMMA InvStep == IInv /\ [Next]_vars => IInv'
  <1> SUFFICES ASSUME IInv, [Next]_vars PROVE IInv'
    OBVIOUS
  <1>1. TypeOK'
    BY TypeStep DEF IInv
  <1>2. CopyInv'
    BY CopyStream, CopyCall, CopyRest DEF IInv, Next
  <1> QED BY <1>1, <1>2, RanStep, CallStep, BusyStep, AnswerStep DEF IInv

LEMMA InvHolds == Spec => []IInv
  BY InvInit, InvStep, PTL DEF Spec

\* However many streams are open for an agent id, of which its one process reads one, and
\* however often it reconnects, a task starts at most once and only at the agent Dispatch sent
\* it to.
THEOREM RunsAtMostOnceCorrect == Spec => []RunsAtMostOnce
  <1>1. IInv => RunsAtMostOnce
    BY DEF IInv, RanInv, RunsAtMostOnce
  <1> QED BY <1>1, InvHolds, PTL

\* A result that reaches the caller is that of an execution by the agent it asked for.
THEOREM AnswerIsFromTargetCorrect == Spec => []AnswerIsFromTarget
  <1>1. IInv => AnswerIsFromTarget
    BY DEF IInv, AnswerInv, AnswerIsFromTarget
  <1> QED BY <1>1, InvHolds, PTL

\* An answer that the check was not run stays true.
THEOREM RefusedMeansNotRunCorrect == Spec => []RefusedMeansNotRun
  <1>1. ASSUME IInv, NEW t \in Tasks, outcome[t] \in {"unsubscribed", "busy"}
        PROVE  \A a \in Agents : ran[t][a] = 0
    <2>1. CASE outcome[t] = "busy"
      BY <1>1, <2>1 DEF IInv, BusyInv, Refused, NeverRan
    <2>2. CASE outcome[t] = "unsubscribed"
      <3>1. ~sent[t]
        BY <1>1, <2>2 DEF IInv, CallInv
      <3>2. \A a \in Agents : ran[t][a] \in Nat /\ ~(ran[t][a] > 0)
        BY <1>1, <3>1 DEF IInv, RanInv, TypeOK
      <3> QED BY <3>2
    <2> QED BY <1>1, <2>1, <2>2
  <1>2. IInv => RefusedMeansNotRun
    BY <1>1 DEF RefusedMeansNotRun
  <1> QED BY <1>2, InvHolds, PTL

=============================================================================
