-------------------------- MODULE PeerFanoutProofs --------------------------
(* The inductive invariant behind StreamsEndOnCurrentList.                 *)
(*                                                                         *)
(* The newest snapshot is always in exactly one place on its way out: with *)
(* the holder of notifyMu, in pending, or with the flush that took it.     *)
(* When it is in none of them it has been appended to every mailbox, after *)
(* everything older.                                                       *)
EXTENDS PeerFanoutTypes

SnapInv == notify.step # "idle" => notify.snap = registry

\* From ResetQuiet until the retry period is over, older snapshots may still be on their way.
Settled == election \in {"contend", "leading"}

PendingInv == Settled /\ notify.step = "idle" /\ armed => pending = registry

FlightInv ==
    Settled /\ notify.step = "idle" /\ ~armed =>
        \A f \in Flushers : flush[f] # "idle" => flushSnap[f] = registry

FreshInv == \A s \in Streams : fresh[s] => leader /\ Watching(s)

MailInv == \A s \in Streams : ~Watching(s) => mailbox[s] = << >>

Delivered(s) ==
    fresh[s] /\ ~desynced[s] =>
        IF mailbox[s] # << >> THEN mailbox[s][Len(mailbox[s])] = Current(s)
        ELSE /\ stream[s] = "filter" => hand[s] = Peers(Owner[s], registry)
             /\ stream[s] = "send" => hand[s] = Current(s)
             /\ stream[s] = "pump" => sent[s] = Current(s)

StreamInv == leader /\ ~stopped /\ Quiet => \A s \in Streams : Delivered(s)

IInv ==
    TypeOK /\ SnapInv /\ PendingInv /\ FlightInv /\ FreshInv /\ MailInv /\ StreamInv

\* What a stream was delivered depends on the registry, the plan and its own state only.
LEMMA ListsKept ==
  ASSUME UNCHANGED <<registry, peerPlan>>, NEW r \in Streams
  PROVE  Current(r)' = Current(r) /\ Peers(Owner[r], registry)' = Peers(Owner[r], registry)
  BY DEF Current, View, Planned, Peers

LEMMA DeliveredKept ==
  ASSUME UNCHANGED <<registry, peerPlan>>, NEW r \in Streams,
         stream'[r] = stream[r], mailbox'[r] = mailbox[r], fresh'[r] = fresh[r],
         hand'[r] = hand[r], desynced'[r] = desynced[r], sent'[r] = sent[r]
  PROVE  Delivered(r) => Delivered(r)'
  BY ListsKept DEF Delivered

\* Initially no agent is registered, nothing is scheduled and no stream is open.
LEMMA InvInit == Init => IInv
  <1> SUFFICES ASSUME Init PROVE IInv
    OBVIOUS
  <1>1. TypeOK
    BY TypeInit
  <1>2. SnapInv /\ PendingInv /\ FlightInv
    BY DEF Init, SnapInv, PendingInv, FlightInv, Idle
  <1>3. FreshInv /\ MailInv
    BY DEF Init, FreshInv, MailInv
  <1>4. StreamInv
    BY DEF Init, StreamInv, leader
  <1> QED BY <1>1, <1>2, <1>3, <1>4 DEF IInv

\* A mutation hands the new registry to the holder of notifyMu.
LEMMA InvRegistry == IInv /\ RegistryNext => IInv'
  <1> SUFFICES ASSUME IInv, RegistryNext PROVE IInv'
    OBVIOUS
  <1>1. TypeOK'
    BY TypeRegistry DEF IInv
  <1>2. /\ notify'.step = "plan" /\ notify'.snap = registry'
        /\ UNCHANGED <<election, streamVars>>
    <2>1. /\ UNCHANGED <<election, streamVars>>
          /\ \E snap : Publish(snap)
      <3>1. CASE UpdateZone
        BY <3>1 DEF UpdateZone
      <3>2. CASE EvictStale
        BY <3>2 DEF EvictStale
      <3>3. ASSUME NEW a \in Agents, Register(a) \/ Deregister(a)
            PROVE  UNCHANGED <<election, streamVars>> /\ \E snap : Publish(snap)
        BY <3>3 DEF Register, Deregister
      <3> QED BY <3>1, <3>2, <3>3 DEF RegistryNext
    <2> QED BY <2>1 DEF Publish
  <1>3. SnapInv' /\ PendingInv' /\ FlightInv' /\ StreamInv'
    BY <1>2 DEF SnapInv, PendingInv, FlightInv, StreamInv, Quiet
  <1>4. FreshInv' /\ MailInv'
    BY <1>2 DEF IInv, FreshInv, MailInv, Watching, leader, streamVars
  <1> QED BY <1>1, <1>3, <1>4 DEF IInv

\* The holder of notifyMu installs the plan, then moves its snapshot to pending.
LEMMA InvNotify == IInv /\ NotifyNext => IInv'
  <1> SUFFICES ASSUME IInv, NotifyNext PROVE IInv'
    OBVIOUS
  <1>1. TypeOK'
    BY TypeNotify DEF IInv
  <1>2. UNCHANGED <<election, registry, streamVars>>
    BY DEF NotifyNext, InstallPlan, SchedulePeerBroadcast, Replan, streamVars
  <1>3. FreshInv' /\ MailInv'
    BY <1>2 DEF IInv, FreshInv, MailInv, Watching, leader, streamVars
  <1>4. CASE InstallPlan \/ Replan
    <2>1. notify'.step # "idle" /\ notify'.snap = registry'
      BY <1>2, <1>4 DEF InstallPlan, Replan, IInv, SnapInv, TypeOK
    <2>2. SnapInv' /\ PendingInv' /\ FlightInv' /\ StreamInv'
      BY <2>1 DEF SnapInv, PendingInv, FlightInv, StreamInv, Quiet
    <2> QED BY <1>1, <1>3, <2>2 DEF IInv
  <1>5. CASE SchedulePeerBroadcast
    <2>1. armed' /\ pending' = registry' /\ notify'.step = "idle"
      BY <1>2, <1>5 DEF SchedulePeerBroadcast, IInv, SnapInv, Idle
    <2>2. SnapInv' /\ PendingInv' /\ FlightInv' /\ StreamInv'
      BY <2>1 DEF SnapInv, PendingInv, FlightInv, StreamInv, Quiet
    <2> QED BY <1>1, <1>3, <2>2 DEF IInv
  <1> QED BY <1>4, <1>5 DEF NotifyNext

\* The only flush in flight takes, and then broadcasts, the newest snapshot.
LEMMA InvFlush == ASSUME PromptFlush PROVE IInv /\ FlushNext => IInv'
  <1> SUFFICES ASSUME IInv, NEW f \in Flushers,
                      FlushTake(f) \/ FlushCheck(f) \/ BroadcastPeerUpdate(f)
               PROVE  IInv'
    BY DEF FlushNext
  <1>0. TypeOK' /\ flush \in [Flushers -> {"idle", "taken", "go"}]
        /\ flushSnap \in [Flushers -> Snapshots]
    BY TypeFlush DEF FlushNext, IInv, TypeOK
  <1>u. UNCHANGED <<election, registry, notify, peerPlan, stopped, stream>>
    BY DEF FlushTake, FlushCheck, BroadcastPeerUpdate, regVars, planVars, streamVars
  <1>s. SnapInv'
    BY <1>u DEF IInv, SnapInv
  <1>1. CASE FlushTake(f)
    <2>1. \A g \in Flushers : g # f => flush[g] = "idle"
      BY <1>1 DEF FlushTake, Flushing
    <2>2. /\ ~armed' /\ flush'[f] = "taken" /\ flushSnap'[f] = pending
          /\ \A g \in Flushers : g # f => flush'[g] = "idle"
      BY <1>0, <1>1, <2>1 DEF FlushTake
    <2>3. FlightInv' /\ PendingInv'
      BY <1>1, <1>u, <2>2 DEF FlushTake, FlightInv, PendingInv, Settled, IInv
    <2>4. StreamInv'
      BY <2>2 DEF StreamInv, Quiet, Flushing
    <2>5. FreshInv' /\ MailInv'
      BY <1>1, <1>u DEF FlushTake, IInv, FreshInv, MailInv, Watching, leader, streamVars
    <2> QED BY <1>0, <1>s, <2>3, <2>4, <2>5 DEF IInv
  <1>2. CASE FlushCheck(f)
    <2>1. FlightInv' /\ PendingInv'
      BY <1>0, <1>2, <1>u DEF FlushCheck, FlightInv, PendingInv, Settled, IInv
    <2>2. StreamInv'
      <3>1. CASE stopped \/ ~leader
        BY <1>u, <3>1 DEF StreamInv, leader
      <3>2. CASE ~(stopped \/ ~leader)
        <4>1. flush'[f] = "go"
          BY <1>0, <1>2, <3>2 DEF FlushCheck
        <4> QED BY <4>1 DEF StreamInv, Quiet, Flushing
      <3> QED BY <3>1, <3>2
    <2>3. FreshInv' /\ MailInv'
      BY <1>2, <1>u DEF FlushCheck, IInv, FreshInv, MailInv, Watching, leader, streamVars
    <2> QED BY <1>0, <1>s, <2>1, <2>2, <2>3 DEF IInv
  <1>3. CASE BroadcastPeerUpdate(f)
    <2>1. FlightInv' /\ PendingInv'
      BY <1>0, <1>3, <1>u DEF BroadcastPeerUpdate, HasRoom, Overruns, FlightInv, PendingInv, Settled, IInv
    <2>2. FreshInv'
      BY <1>3, <1>u DEF BroadcastPeerUpdate, HasRoom, Overruns, IInv, FreshInv, Watching, leader
    <2>3. MailInv'
      BY <1>3, <1>u DEF BroadcastPeerUpdate, HasRoom, Overruns, IInv, MailInv, Watching
    <2>4. StreamInv'
      <3> SUFFICES ASSUME leader', Quiet', NEW s \in Streams, fresh'[s], ~desynced'[s]
                   PROVE  /\ mailbox'[s] # << >>
                          /\ mailbox'[s][Len(mailbox'[s])] = Current(s)'
        BY Zenon DEF StreamInv, Delivered
      <3>1. flushSnap[f] = registry
        BY <1>3, <1>u DEF BroadcastPeerUpdate, HasRoom, Overruns, IInv, FlightInv, Settled, leader, Quiet
      <3>2. Watching(s)
        BY <1>u, <2>2 DEF FreshInv, Watching
      <3>3. mailbox[s] \in Seq(Snapshots) /\ Len(mailbox[s]) <= Buffer
        BY DEF IInv, TypeOK
      <3>4. Len(mailbox[s]) < Buffer
        <4>1. desynced'[s] = (desynced[s] \/ Overruns(s))
          BY <1>3, Zenon DEF BroadcastPeerUpdate
        <4>2. HasRoom(s)
          BY <3>2, <4>1, Zenon DEF Overruns
        <4> QED BY <4>2 DEF HasRoom
      <3>5. mailbox'[s] = Append(mailbox[s], View(Owner[s], registry, peerPlan))
        BY <1>3, <3>1, <3>2, <3>4 DEF BroadcastPeerUpdate, HasRoom, Overruns
      <3>6. View(Owner[s], registry, peerPlan) \in Snapshots
        BY ViewType DEF IInv, TypeOK
      <3>7. Current(s)' = View(Owner[s], registry, peerPlan)
        BY <1>u DEF Current, View, Peers, Planned
      <3> QED BY <3>3, <3>5, <3>6, <3>7
    <2> QED BY <1>0, <1>s, <2>1, <2>2, <2>3, <2>4 DEF IInv
  <1> QED BY <1>1, <1>2, <1>3

\* The steps of handlers, of a reload and of a shutdown move no snapshot.
LEMMA InvHandler == IInv /\ (HandlerNext \/ ReloadTopology \/ Shutdown) => IInv'
  <1> SUFFICES ASSUME IInv, HandlerNext \/ ReloadTopology \/ Shutdown PROVE IInv'
    OBVIOUS
  <1>1. TypeOK'
    BY TypeHandler DEF IInv
  <1>2. /\ UNCHANGED <<election, registry, notify, peerPlan, flushVars, streamVars>>
        /\ stopped => stopped'
    BY DEF HandlerNext, RegisterGate, RegisterAnswer, ReloadTopology, Shutdown, regVars,
           planVars, flushVars, streamVars
  <1>3. SnapInv' /\ PendingInv' /\ FlightInv' /\ FreshInv' /\ MailInv'
    BY <1>2 DEF IInv, SnapInv, PendingInv, FlightInv, Settled, FreshInv, MailInv, Watching,
                leader, flushVars, streamVars
  <1>4. StreamInv'
    <2>1. \A s \in Streams : Delivered(s) => Delivered(s)'
      BY <1>2, DeliveredKept DEF streamVars
    <2>2. leader' /\ ~stopped' /\ Quiet' => leader /\ ~stopped /\ Quiet
      BY <1>2 DEF leader, Quiet, Flushing, flushVars
    <2> QED BY <2>1, <2>2 DEF IInv, StreamInv
  <1> QED BY <1>1, <1>3, <1>4 DEF IInv

\* A handler moves lists between its own mailbox, its hand and the wire.
LEMMA InvStream == IInv /\ StreamNext => IInv'
  <1> SUFFICES ASSUME IInv, NEW s \in Streams,
                      \/ WatchGate(s) \/ WatchAdd(s) \/ WatchList(s) \/ WatchFilter(s)
                      \/ SendDone(s) \/ PumpTake(s)
                      \/ EndDesynced(s) \/ EndLeadershipLost(s) \/ EndShutdown(s) \/ EndClient(s)
               PROVE  IInv'
    BY DEF StreamNext
  <1> DEFINE End == EndDesynced(s) \/ EndLeadershipLost(s) \/ EndShutdown(s) \/ EndClient(s)
  <1>0. TypeOK' /\ StreamTypes
    BY TypeStream DEF StreamNext, IInv, TypeOK, StreamTypes
  <1>u. UNCHANGED <<election, regVars, planVars, flushVars, stopped>>
    BY DEF WatchGate, WatchAdd, WatchList, WatchFilter, SendDone, PumpTake, EndDesynced,
           EndLeadershipLost, EndShutdown, EndClient
  <1>p. SnapInv' /\ PendingInv' /\ FlightInv'
    BY <1>u DEF IInv, SnapInv, PendingInv, FlightInv, Settled, regVars, planVars, flushVars
  <1>e. CASE End
    <2>1. EndStream(s)
      BY <1>e DEF EndDesynced, EndLeadershipLost, EndShutdown, EndClient
    <2>2. /\ stream'[s] = "closed" /\ mailbox'[s] = << >> /\ fresh'[s] = FALSE
          /\ \A r \in Streams : r # s => /\ stream'[r] = stream[r] /\ mailbox'[r] = mailbox[r]
                                         /\ fresh'[r] = fresh[r] /\ hand'[r] = hand[r]
                                         /\ desynced'[r] = desynced[r] /\ sent'[r] = sent[r]
      BY <1>0, <2>1 DEF EndStream, StreamTypes
    <2>3. FreshInv' /\ MailInv'
      BY <1>u, <2>2 DEF IInv, FreshInv, MailInv, Watching, leader
    <2>4. \A r \in Streams : Delivered(r) => Delivered(r)'
      <3>1. UNCHANGED <<registry, peerPlan>>
        BY <1>u DEF regVars, planVars
      <3>2. Delivered(s)'
        BY <2>2 DEF Delivered
      <3> QED BY <2>2, <3>1, <3>2, DeliveredKept
    <2>5. StreamInv'
      BY <1>u, <2>4 DEF IInv, StreamInv, leader, Quiet, Flushing, regVars, flushVars
    <2> QED BY <1>0, <1>p, <2>3, <2>5 DEF IInv
  <1>w. CASE ~End
    <2> HIDE DEF End
    <2>1. \A r \in Streams : r # s => /\ stream'[r] = stream[r] /\ mailbox'[r] = mailbox[r]
                                      /\ fresh'[r] = fresh[r] /\ hand'[r] = hand[r]
                                      /\ desynced'[r] = desynced[r] /\ sent'[r] = sent[r]
      BY <1>0, <1>w DEF End, StreamTypes, WatchGate, WatchAdd, WatchList, WatchFilter,
                        SendDone, PumpTake
    <2>2. desynced'[s] = desynced[s]
      BY <1>w DEF End, WatchGate, WatchAdd, WatchList, WatchFilter, SendDone, PumpTake
    <2>c. /\ \A r \in Streams : Current(r)' = Current(r)
          /\ \A r \in Streams : Peers(Owner[r], registry)' = Peers(Owner[r], registry)
      BY <1>u, ListsKept DEF regVars, planVars
    <2>3. /\ fresh'[s] => leader' /\ Watching(s)'
          /\ ~Watching(s)' => mailbox'[s] = << >>
          /\ Delivered(s) => Delivered(s)'
      <3> USE DEF IInv, FreshInv, MailInv, Watching, leader
      <3>1. CASE WatchGate(s)
        <4>1. /\ stream[s] = "closed" /\ stream'[s] = "gated"
              /\ UNCHANGED <<mailbox, fresh, desynced>>
          BY <1>0, <3>1 DEF WatchGate, StreamTypes
        <4> QED BY <1>u, <2>c, <4>1 DEF Delivered
      <3>2. CASE WatchAdd(s)
        <4>1. /\ stream[s] = "gated" /\ stream'[s] = "added" /\ fresh'[s] = leader
              /\ UNCHANGED <<mailbox, desynced>>
          BY <1>0, <3>2 DEF WatchAdd, StreamTypes
        <4>2. mailbox'[s] = << >>
          BY <4>1 DEF IInv, MailInv, Watching
        <4> QED BY <1>u, <4>1, <4>2 DEF Delivered
      <3>3. CASE WatchList(s)
        <4>1. /\ stream[s] = "added" /\ stream'[s] = "filter"
              /\ hand'[s] = Peers(Owner[s], registry)
              /\ UNCHANGED <<mailbox, fresh, desynced>>
          BY <1>0, <3>3 DEF WatchList, StreamTypes
        <4> QED BY <1>u, <2>c, <4>1 DEF Delivered
      <3>4. CASE WatchFilter(s)
        <4>1. /\ stream[s] = "filter" /\ stream'[s] = "send"
              /\ hand'[s] = Planned(Owner[s], hand[s], peerPlan)
              /\ UNCHANGED <<mailbox, fresh, desynced>>
          BY <1>0, <3>4 DEF WatchFilter, StreamTypes
        <4>2. hand[s] = Peers(Owner[s], registry) => hand'[s] = Current(s)
          BY <4>1 DEF Current, View
        <4> QED BY <1>u, <2>c, <4>1, <4>2 DEF Delivered
      <3>5. CASE SendDone(s)
        <4>1. /\ stream[s] = "send" /\ stream'[s] = "pump" /\ sent'[s] = hand[s]
              /\ UNCHANGED <<mailbox, fresh, desynced>>
          BY <1>0, <3>5 DEF SendDone, StreamTypes
        <4> QED BY <1>u, <2>c, <4>1 DEF Delivered
      <3>6. CASE PumpTake(s)
        <4>1. mailbox[s] \in Seq(Snapshots) /\ mailbox[s] # << >> /\ stream[s] = "pump"
          BY <1>0, <3>6 DEF PumpTake, StreamTypes
        <4>2. /\ stream'[s] = "send" /\ mailbox'[s] = Tail(mailbox[s])
              /\ hand'[s] = Head(mailbox[s]) /\ fresh' = fresh
          BY <1>0, <3>6 DEF PumpTake, StreamTypes
        <4>3. /\ Tail(mailbox[s]) = << >> => Head(mailbox[s]) = mailbox[s][Len(mailbox[s])]
              /\ Tail(mailbox[s]) # << >> =>
                   Tail(mailbox[s])[Len(Tail(mailbox[s]))] = mailbox[s][Len(mailbox[s])]
          BY <4>1, LastOfTail
        <4> QED BY <1>u, <2>2, <2>c, <4>1, <4>2, <4>3 DEF Delivered
      <3> QED BY <1>w, <3>1, <3>2, <3>3, <3>4, <3>5, <3>6 DEF End
    <2>4. FreshInv' /\ MailInv'
      BY <1>u, <2>1, <2>3 DEF IInv, FreshInv, MailInv, Watching, leader
    <2>5. \A r \in Streams : Delivered(r) => Delivered(r)'
      <3> SUFFICES ASSUME NEW r \in Streams, r # s PROVE Delivered(r) => Delivered(r)'
        BY <2>3
      <3> QED BY <1>u, <2>1, DeliveredKept DEF regVars, planVars
    <2>6. StreamInv'
      BY <1>u, <2>5 DEF IInv, StreamInv, leader, Quiet, Flushing, regVars, flushVars
    <2> QED BY <1>0, <1>p, <2>4, <2>6 DEF IInv
  <1> QED BY <1>e, <1>w

\* Losing the lease makes the invariant vacuous; the retry period restores it.
LEMMA InvElection == IInv /\ ElectionNext => IInv'
  <1> SUFFICES ASSUME IInv, ElectionNext PROVE IInv'
    OBVIOUS
  <1>0. TypeOK' /\ fresh \in [Streams -> BOOLEAN]
    BY TypeElection DEF IInv, TypeOK
  <1>u. UNCHANGED <<notify, flushVars, stream, mailbox, stopped>>
    BY DEF ElectionNext, Promote, Demote, ResetQuiet, DropPlan, RetryPeriod, regVars,
           streamVars, flushVars
  <1>m. MailInv'
    BY <1>u DEF IInv, MailInv, Watching
  <1>1. CASE Promote
    <2>1. \A s \in Streams : fresh'[s] = FALSE
      BY <1>0, <1>1 DEF Promote, IInv, FreshInv, leader, streamVars
    <2>2. FreshInv' /\ StreamInv'
      BY <2>1 DEF FreshInv, StreamInv, Delivered
    <2>t. /\ election = "contend" /\ Settled /\ Settled'
          /\ UNCHANGED <<registry, notify, armed, pending, flush, flushSnap>>
      BY <1>1, <1>u DEF Promote, Settled, regVars, flushVars
    <2>3. SnapInv' /\ PendingInv' /\ FlightInv'
      BY <2>t DEF IInv, SnapInv, PendingInv, FlightInv
    <2> QED BY <1>0, <1>m, <2>2, <2>3 DEF IInv
  <1>2. CASE Demote
    <2>1. \A s \in Streams : fresh'[s] = FALSE
      BY <1>2 DEF Demote
    <2>2. FreshInv' /\ StreamInv'
      BY <2>1 DEF FreshInv, StreamInv, Delivered
    <2>3. SnapInv' /\ PendingInv' /\ FlightInv'
      BY <1>2, <1>u DEF Demote, IInv, SnapInv, PendingInv, FlightInv, Settled, regVars
    <2> QED BY <1>0, <1>m, <2>2, <2>3 DEF IInv
  <1>3. CASE ResetQuiet \/ DropPlan
    <2>1. /\ election \in {"reset", "unplan"} /\ election' \in {"unplan", "retry"}
          /\ fresh' = fresh /\ (notify.step # "idle" => registry' = registry)
      BY <1>3 DEF ResetQuiet, DropPlan, streamVars, regVars
    <2>2. FreshInv' /\ StreamInv'
      BY <2>1 DEF IInv, FreshInv, StreamInv, leader
    <2>3. SnapInv' /\ PendingInv' /\ FlightInv'
      BY <1>u, <2>1 DEF IInv, SnapInv, PendingInv, FlightInv, Settled
    <2> QED BY <1>0, <1>m, <2>2, <2>3 DEF IInv
  <1>4. CASE RetryPeriod
    <2>1. /\ election = "retry" /\ election' = "contend" /\ UNCHANGED <<fresh, registry>>
          /\ ~armed' /\ \A f \in Flushers : flush'[f] = "idle"
      BY <1>4, <1>u DEF RetryPeriod, streamVars, regVars, flushVars, Flushing
    <2>2. FreshInv' /\ StreamInv'
      BY <2>1 DEF IInv, FreshInv, StreamInv, leader
    <2>3. SnapInv' /\ PendingInv' /\ FlightInv'
      BY <1>u, <2>1 DEF IInv, SnapInv, PendingInv, FlightInv
    <2> QED BY <1>0, <1>m, <2>2, <2>3 DEF IInv
  <1> QED BY <1>1, <1>2, <1>3, <1>4 DEF ElectionNext

LEMMA InvStutter == IInv /\ UNCHANGED vars => IInv'
  <1> SUFFICES ASSUME IInv, UNCHANGED vars PROVE IInv'
    OBVIOUS
  <1> USE DEF vars, leaderVars, regVars, planVars, flushVars, streamVars
  <1>1. TypeOK'
    BY TypeStep DEF IInv
  <1>2. SnapInv' /\ PendingInv' /\ FlightInv' /\ FreshInv' /\ MailInv'
    BY DEF IInv, SnapInv, PendingInv, FlightInv, Settled, FreshInv, MailInv, Watching, leader
  <1>3. StreamInv'
    <2>1. \A s \in Streams : Delivered(s) => Delivered(s)'
      BY DeliveredKept
    <2> QED BY <2>1 DEF IInv, StreamInv, leader, Quiet, Flushing
  <1> QED BY <1>1, <1>2, <1>3 DEF IInv

\* The inductive invariant gives the property: a stream that is sending or pumping and
\* whose mailbox is empty has the current list in its hand or on the wire.
LEMMA InvImplies == IInv => StreamsEndOnCurrentList
  BY DEF IInv, StreamInv, Delivered, StreamsEndOnCurrentList, LastList

\* When a flush is over before the next window's timer fires, no stream of a quiet leader
\* ends on anything but the list of the current registry and plan, for every number of
\* agents, streams, changes, reloads and failovers and every mailbox size.
THEOREM StreamsEndOnCurrentListCorrect ==
    ASSUME PromptFlush
    PROVE  Spec => []StreamsEndOnCurrentList
  <1>1. IInv /\ [Next]_vars => IInv'
    BY InvRegistry, InvNotify, InvFlush, InvHandler, InvStream, InvElection, InvStutter DEF Next
  <1> QED BY InvInit, InvImplies, <1>1, PTL DEF Spec
=============================================================================
