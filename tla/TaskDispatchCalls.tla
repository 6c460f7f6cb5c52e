------------------------- MODULE TaskDispatchCalls -------------------------
(***************************************************************************)
(* What has run and what a call has decided: RanInv and CallInv are        *)
(* preserved.                                                              *)
(***************************************************************************)
EXTENDS TaskDispatchCopies

\* The copy a stream hands to its agent was the task's only live copy, and is live no more.
LEMMA HandedOver ==
  ASSUME IInv, NEW c \in Chans, SendDone(c), reading[Owner[c]] = c,
         NEW t \in Tasks, t = hand[c]
  PROVE  /\ Owner[c] = target[t] /\ Live(t, c) /\ sent[t]
         /\ NeverRan(t)
         /\ \A x \in Chans : ~Live(t, x)'
  <1>1. InHand(t, c)
    BY DEF InHand
  <1>2. Live(t, c) /\ Owner[c] = target[t]
    BY <1>1 DEF Live, Somewhere, IInv, CopyInv, PlaceInv
  <1>3. sent[t]
    BY <1>1 DEF IInv, CallInv
  <1>4. NeverRan(t)
    <2>1. \A a \in Agents : ran[t][a] \in Nat /\ ~(ran[t][a] > 0)
      BY <1>2 DEF IInv, RanInv, TypeOK
    <2> QED BY <2>1 DEF NeverRan
  <1>5. ~Somewhere(t, c)'
    <2>1. ~Offered(t, c) /\ ~Queued(t, c)
      BY <1>1 DEF IInv, CopyInv, OneCopyInv
    <2>2. ~Offered(t, c)' /\ ~Queued(t, c)'
      BY <2>1 DEF SendDone, callVars, Offered, Queued
    <2>3. ~InHand(t, c)'
      BY <1>1, DispatchConstants DEF SendDone, InHand, IInv, TypeOK
    <2> QED BY <2>2, <2>3 DEF Somewhere
  <1>6. ASSUME NEW x \in Chans, Live(t, x)' PROVE FALSE
    <2>1. Live(t, x)
      <3>1. StreamNext
        BY DEF StreamNext
      <3>2. Fewer
        BY <3>1, CopyStream DEF IInv
      <3> QED BY <1>1, <1>6, <3>1, <3>2, LiveShrinks DEF IInv, Next
    <2>2. Owner[x] = target[t]
      BY <1>1, <2>1 DEF Live, IInv, CopyInv, PlaceInv
    <2>3. x = c
      BY <1>2, <2>1, <2>2 DEF Live
    <2> QED BY <1>5, <1>6, <2>3 DEF Live
  <1> QED BY <1>1, <1>2, <1>3, <1>4, <1>6

\* A snapshot is taken for a task that has not been sent, so it has not run.
LEMMA NothingBefore ==
  ASSUME IInv, NEW s \in Tasks, ~Started(s)
  PROVE  /\ NeverRan(s) /\ ~sent[s] /\ outcome[s] = None /\ done[s] = None
         /\ \A r \in reports : r.task = s => r.what # "busy"
  <1>1. ~sent[s] /\ outcome[s] = None /\ done[s] = None
    BY DEF IInv, CallInv, Started
  <1>2. NeverRan(s)
    BY <1>1 DEF NeverRan, IInv, RanInv, TypeOK
  <1> QED BY <1>1, <1>2 DEF IInv, BusyInv, Refused

LEMMA LiveStart ==
  ASSUME IInv, NEW s \in Tasks, DispatchStart(s)
  PROVE  \A t \in Tasks \ {s}, x \in Chans : Live(t, x)' => Live(t, x)
  BY DEF DispatchStart, IInv, TypeOK, Live, Somewhere, Offered, Queued, InHand, streamVars

\* Every step but a hand-over keeps ran.
LEMMA RanKept ==
  ASSUME [Next]_vars, ~\E c \in Chans : SendDone(c)
  PROVE  UNCHANGED ran
  <1>1. CASE StreamNext
    BY <1>1, StreamFrame
  <1>2. CASE CallNext
    BY <1>2, CallFrame
  <1>3. CASE AgentNext
    BY <1>3, AgentFrame
  <1>4. CASE ElectionNext
    BY <1>4, ElectionFrame
  <1> QED BY <1>1, <1>2, <1>3, <1>4 DEF Next, vars, agentVars

\* A task stays sent, and keeps its target once it has one.
LEMMA SentKept ==
  ASSUME TypeOK, [Next]_vars
  PROVE  \A t \in Tasks : /\ sent[t] => sent'[t]
                          /\ call[t] # "idle" => target'[t] = target[t] /\ call'[t] # "idle"
  <1>4. CASE CallNext
    <2> SUFFICES ASSUME NEW s \in Tasks,
                        \/ DispatchStep(s) \/ CtxDone(s) \/ CallerLeaves(s)
                        \/ \E a \in Agents : ServeHTTP(s, a)
                 PROVE  \A t \in Tasks :
                          /\ sent[t] => sent'[t]
                          /\ call[t] # "idle" => target'[t] = target[t] /\ call'[t] # "idle"
      BY <1>4 DEF CallNext
    <2>1. ASSUME NEW a \in Agents, ServeHTTP(s, a) PROVE UNCHANGED sent /\
                   \A t \in Tasks \ {s} : target'[t] = target[t] /\ call'[t] = call[t]
      BY <2>1 DEF ServeHTTP, TypeOK
    <2>2. CASE CtxDone(s) \/ CallerLeaves(s)
      BY <2>2 DEF CtxDone, CallerLeaves
    <2>3. CASE DispatchStart(s)
      BY <2>3 DEF DispatchStart, TypeOK
    <2>4. CASE \E c \in Chans : SendTo(s, c) \/ SkipFull(s, c)
      BY <2>4 DEF SendTo, SkipFull, TypeOK
    <2>5. CASE SendToOrphan(s)
      <3>1. UNCHANGED <<call, target>> /\ \A t \in Tasks : sent[t] => sent'[t]
        BY <2>5, Zenon DEF SendToOrphan, TypeOK
      <3> QED BY <3>1
    <2>6. CASE SendAborted(s) \/ SendLoopDone(s) \/ Receive(s) \/ GiveUp(s) \/ Return(s)
      BY <2>6 DEF SendAborted, SendLoopDone, Receive, GiveUp, Return, Leave, TypeOK
    <2> QED BY <2>1, <2>2, <2>3, <2>4, <2>5, <2>6 DEF DispatchStep, ServeHTTP
  <1>5. CASE UNCHANGED <<sent, call, target>>
    BY <1>5
  <1> QED BY <1>4, <1>5, StreamFrame, AgentFrame, ElectionFrame DEF Next, vars, callVars

LEMMA LiveStep ==
  ASSUME IInv, [Next]_vars, NEW t \in Tasks, Started(t), NEW x \in Chans, Live(t, x)'
  PROVE  Live(t, x)
  <1>1. CASE Fewer
    BY <1>1, LiveShrinks DEF IInv
  <1>2. ASSUME NEW s \in Tasks, DispatchStart(s) PROVE Live(t, x)
    <2>1. s # t
      BY <1>2 DEF DispatchStart, Started
    <2> QED BY <1>2, <2>1, LiveStart
  <1> QED BY <1>1, <1>2, CopyStream, CopyCall, CopyRest DEF IInv, Next

LEMMA RanStep ==
  ASSUME IInv, [Next]_vars
  PROVE  RanInv'
  <1> SUFFICES ASSUME NEW t \in Tasks, NEW a \in Agents
               PROVE  /\ ran'[t][a] <= 1
                      /\ ran'[t][a] > 0 => a = target'[t] /\ sent'[t] /\ \A x \in Chans : ~Live(t, x)'
    BY DEF RanInv
  <1>t. ran[t][a] \in Nat
    BY DEF IInv, TypeOK
  <1>k. CASE ran'[t][a] = ran[t][a]
    <2>1. ran[t][a] <= 1
      BY DEF IInv, RanInv
    <2>2. ASSUME ran[t][a] > 0
          PROVE  a = target'[t] /\ sent'[t] /\ \A x \in Chans : ~Live(t, x)'
      <3>1. a = target[t] /\ sent[t] /\ \A x \in Chans : ~Live(t, x)
        BY <2>2 DEF IInv, RanInv
      <3>2. Started(t)
        BY <3>1 DEF IInv, CallInv
      <3> QED BY <3>1, <3>2, SentKept, LiveStep DEF IInv, Started
    <2> QED BY <1>k, <2>1, <2>2
  <1>1. ASSUME NEW c \in Chans, SendDone(c), ran'[t][a] # ran[t][a]
        PROVE  /\ ran'[t][a] = 1 /\ a = target'[t] /\ sent'[t] /\ \A x \in Chans : ~Live(t, x)'
    <2>1. reading[Owner[c]] = c
      BY <1>1 DEF SendDone, agentVars
    <2>2. t = hand[c] /\ a = Owner[c] /\ ran'[t][a] = ran[t][a] + 1
      BY <1>1, <2>1 DEF SendDone, Handle, IInv, TypeOK
    <2>3. ran[t][a] = 0 /\ a = target[t] /\ sent[t] /\ \A x \in Chans : ~Live(t, x)'
      BY <1>1, <2>1, <2>2, HandedOver DEF NeverRan
    <2> QED BY <1>1, <2>2, <2>3 DEF SendDone, callVars
  <1> QED BY <1>k, <1>1, RanKept

\* What a call has decided changes only as the call moves on.
LEMMA UnsentStep ==
  ASSUME IInv, [Next]_vars, NEW t \in Tasks, ~sent'[t], NEW x \in Chans
  PROVE  ~Queued(t, x)' /\ ~InHand(t, x)'
  <1> USE DispatchConstants
  <1>1. ~sent[t]
    BY SentKept DEF IInv
  <1>2. ~Queued(t, x) /\ ~InHand(t, x)
    BY <1>1 DEF IInv, CallInv
  <1>3. CASE UNCHANGED <<queue, hand>>
    BY <1>2, <1>3 DEF Queued, InHand
  <1>4. ASSUME NEW c \in Chans, PumpTake(c) PROVE ~Queued(t, x)' /\ ~InHand(t, x)'
    <2>1. CASE x # c
      BY <1>2, <1>4, <2>1 DEF Queued, InHand, PumpTake, IInv, TypeOK
    <2>2. CASE x = c
      <3>1. queue[c] \in Seq(Tasks) /\ queue[c] # << >>
        BY <1>4 DEF IInv, TypeOK, PumpTake
      <3>2. queue'[c] = Tail(queue[c]) /\ hand'[c] = Head(queue[c])
        BY <1>4 DEF IInv, TypeOK, PumpTake
      <3>3. \A i \in 1..Len(queue[c]) : queue[c][i] # t
        BY <1>2, <2>2 DEF Queued
      <3>4. Head(queue[c]) # t /\ \A i \in 1..Len(Tail(queue[c])) : Tail(queue[c])[i] # t
        BY <3>1, <3>3, TailFacts
      <3> QED BY <2>2, <3>2, <3>4 DEF Queued, InHand
    <2> QED BY <2>1, <2>2
  <1>5. ASSUME NEW s \in Tasks, NEW c \in Chans, SendTo(s, c) PROVE ~Queued(t, x)' /\ ~InHand(t, x)'
    <2>1. s # t
      BY <1>5 DEF SendTo, IInv, TypeOK
    <2>2. hand' = hand
      BY <1>5 DEF SendTo
    <2>3. CASE x # c
      BY <1>2, <1>5, <2>2, <2>3 DEF Queued, InHand, SendTo, IInv, TypeOK
    <2>4. CASE x = c
      <3>1. queue[c] \in Seq(Tasks) /\ queue'[c] = Append(queue[c], s)
        BY <1>5 DEF IInv, TypeOK, SendTo
      <3>2. \A i \in 1..Len(queue[c]) : queue[c][i] # t
        BY <1>2, <2>4 DEF Queued
      <3>3. \A i \in 1..Len(Append(queue[c], s)) : Append(queue[c], s)[i] # t
        BY <2>1, <3>1, <3>2, AppendFacts
      <3> QED BY <1>2, <2>2, <2>4, <3>1, <3>3 DEF Queued, InHand
    <2> QED BY <2>3, <2>4
  <1>6. ASSUME NEW c \in Chans, SendDone(c) \/ EndStream(c) PROVE ~Queued(t, x)' /\ ~InHand(t, x)'
    <2>1. /\ queue'[x] = queue[x] \/ queue'[x] = << >>
          /\ hand'[x] = hand[x] \/ hand'[x] = None
      BY <1>6 DEF IInv, TypeOK, SendDone, EndStream
    <2> QED BY <1>2, <2>1 DEF Queued, InHand
  <1> USE DEF streamVars
  <1>7. CASE StreamNext
    BY <1>3, <1>4, <1>6, <1>7 DEF StreamNext, WatchTasks, Subscribe, LoseStream
  <1>8. CASE CallNext
    BY <1>3, <1>5, <1>8, CallFrame
  <1> QED BY <1>3, <1>7, <1>8, AgentFrame, ElectionFrame DEF Next, vars

\* The part of CallInv that does not look into the channels.
Decided(t) ==
    /\ call[t] = "idle" <=> target[t] = None
    /\ ~Started(t) => ~sent[t] /\ done[t] = None /\ t \notin pending
    /\ call[t] \in {"idle", "gated", "send", "wait"} => outcome[t] = None
    /\ outcome[t] = "unsubscribed" => ~sent[t] /\ call[t] \in {"leave", "returned"}

LEMMA DecidedStep ==
  ASSUME IInv, [Next]_vars, NEW t \in Tasks
  PROVE  Decided(t)'
  <1> USE DispatchConstants
  <1>0. Decided(t) /\ TypeOK
    BY DEF IInv, CallInv, Decided
  <1>1. CASE UNCHANGED <<callVars, done>>
    BY <1>0, <1>1 DEF Decided, Started, callVars
  <1>2. ASSUME NEW r \in reports, ReportSend(r) PROVE Decided(t)'
    <2>1. r.task \in Tasks /\ Started(r.task)
      BY <1>2 DEF ReportSend, IInv, TypeOK, Reports, AnswerInv
    <2>2. CASE t # r.task
      BY <1>0, <1>2, <2>1, <2>2 DEF Decided, Started, callVars, ReportSend, TypeOK
    <2>3. CASE t = r.task
      BY <1>0, <1>2, <2>1, <2>3 DEF Decided, Started, callVars, ReportSend
    <2> QED BY <2>2, <2>3
  <1>3. CASE FailAll
    BY <1>0, <1>3 DEF Decided, Started, callVars, FailAll, TypeOK
  <1>4. CASE CallNext
    <2> SUFFICES ASSUME NEW s \in Tasks,
                        \/ DispatchStep(s) \/ CtxDone(s) \/ CallerLeaves(s)
                        \/ \E a \in Agents : ServeHTTP(s, a)
                 PROVE  Decided(t)'
      BY <1>4 DEF CallNext
    <2> USE <1>0 DEF Decided, Started, TypeOK
    <2>1. ASSUME NEW a \in Agents, ServeHTTP(s, a) PROVE Decided(t)'
      BY <2>1 DEF ServeHTTP
    <2>2. CASE CtxDone(s) \/ CallerLeaves(s)
      BY <2>2 DEF CtxDone, CallerLeaves
    <2>3. CASE DispatchStart(s)
      BY <2>3 DEF DispatchStart
    <2>4. CASE \E c \in Chans : SendTo(s, c)
      BY <2>4 DEF SendTo
    <2>5. CASE \E c \in Chans : SkipFull(s, c)
      BY <2>5 DEF SkipFull
    <2>6. CASE SendToOrphan(s)
      <3>1. UNCHANGED <<call, target, done, pending, outcome>> /\ call[s] = "send"
        BY <2>6 DEF SendToOrphan
      <3>2. t # s => sent'[t] = sent[t]
        BY <2>6, Zenon DEF SendToOrphan
      <3> QED BY <3>1, <3>2
    <2>7. CASE SendAborted(s)
      BY <2>7 DEF SendAborted, Leave
    <2>8. CASE SendLoopDone(s)
      BY <2>8 DEF SendLoopDone, Leave
    <2>9. CASE Receive(s)
      BY <2>9 DEF Receive, Leave, Outcomes
    <2>10. CASE GiveUp(s)
      BY <2>10 DEF GiveUp, Leave
    <2>11. CASE Return(s)
      BY <2>11 DEF Return
    <2> QED BY <2>1, <2>2, <2>3, <2>4, <2>5, <2>6, <2>7, <2>8, <2>9, <2>10, <2>11 DEF DispatchStep
  <1>5. CASE AgentNext
    BY <1>1, <1>2, <1>5, AgentFrame DEF callVars
  <1>6. CASE ElectionNext
    BY <1>1, <1>3, <1>6, ElectionFrame DEF callVars
  <1>7. CASE UNCHANGED vars
    BY <1>1, <1>7 DEF vars
  <1>8. CASE StreamNext
    BY <1>0, <1>8, StreamFrame DEF Decided, Started
  <1> QED BY <1>4, <1>5, <1>6, <1>7, <1>8 DEF Next

LEMMA CallStep == ASSUME IInv, [Next]_vars PROVE CallInv'
  BY UnsentStep, DecidedStep DEF CallInv, Decided

=============================================================================
