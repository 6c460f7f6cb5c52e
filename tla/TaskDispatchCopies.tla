------------------------- MODULE TaskDispatchCopies -------------------------
(***************************************************************************)
(* Where the copies of a task are: CopyInv is preserved.                   *)
(***************************************************************************)
EXTENDS TaskDispatchTypes

LEMMA TailFacts ==
  ASSUME NEW S, NEW q \in Seq(S), q # << >>
  PROVE  /\ Head(q) = q[1] /\ 1 \in 1..Len(q)
         /\ Len(Tail(q)) = Len(q) - 1
         /\ \A i \in 1..Len(Tail(q)) : i + 1 \in 1..Len(q) /\ Tail(q)[i] = q[i + 1]
  OBVIOUS

LEMMA AppendFacts ==
  ASSUME NEW S, NEW q \in Seq(S), NEW e \in S
  PROVE  /\ Len(Append(q, e)) = Len(q) + 1
         /\ \A i \in 1..Len(q) : Append(q, e)[i] = q[i]
         /\ Append(q, e)[Len(q) + 1] = e
  OBVIOUS

\* What a step must keep for PlaceInv and OneCopyInv to survive when no copy appears.
LEMMA PlaceKept ==
  ASSUME PlaceInv,
         \A t \in Tasks, x \in Chans :
           Somewhere(t, x)' => /\ Somewhere(t, x) /\ (Started(t) => Started(t)')
                               /\ target'[t] = target[t]
                               /\ stream[x] \in {"pump", "send"} => stream'[x] \in {"pump", "send"}
  PROVE  PlaceInv'
  BY DEF PlaceInv

LEMMA OneCopyKept ==
  ASSUME OneCopyInv,
         \A t \in Tasks, x \in Chans : /\ Offered(t, x)' => Offered(t, x)
                                       /\ Queued(t, x)' => Queued(t, x)
                                       /\ InHand(t, x)' => InHand(t, x)
                                       /\ Once(t, x)'
  PROVE  OneCopyInv'
  BY DEF OneCopyInv

LEMMA OnceKept ==
  ASSUME CopyInv, NEW x \in Chans, queue'[x] = queue[x], NEW t \in Tasks
  PROVE  Once(t, x)' /\ (Queued(t, x)' <=> Queued(t, x))
  <1>1. Once(t, x)
    BY DEF CopyInv, OneCopyInv
  <1> QED BY <1>1 DEF Once, Queued

copyVars == <<stream, queue, hand, call, left, target>>

LEMMA CopyFrame ==
  CopyInv /\ UNCHANGED copyVars =>
    CopyInv' /\ \A t \in Tasks, x \in Chans : Somewhere(t, x)' => Somewhere(t, x)
  <1> SUFFICES ASSUME CopyInv, UNCHANGED copyVars
               PROVE  CopyInv' /\ \A t \in Tasks, x \in Chans : Somewhere(t, x)' => Somewhere(t, x)
    OBVIOUS
  <1>1. \A t \in Tasks, x \in Chans : /\ Offered(t, x)' <=> Offered(t, x)
                                      /\ InHand(t, x)' <=> InHand(t, x)
                                      /\ Started(t)' <=> Started(t)
    BY DEF Offered, InHand, Started, copyVars
  <1>2. \A t \in Tasks, x \in Chans : Once(t, x)' /\ (Queued(t, x)' <=> Queued(t, x))
    BY OnceKept DEF copyVars
  <1>3. \A t \in Tasks, x \in Chans : Somewhere(t, x)' => Somewhere(t, x)
    BY <1>1, <1>2 DEF Somewhere
  <1>4. ChanInv'
    BY DEF CopyInv, ChanInv, copyVars
  <1>5. PlaceInv'
    BY <1>1, <1>3, PlaceKept, Zenon DEF CopyInv, copyVars
  <1>6. OneCopyInv'
    BY <1>1, <1>2, OneCopyKept, Zenon DEF CopyInv
  <1> QED BY <1>3, <1>4, <1>5, <1>6 DEF CopyInv

LEMMA CopyPumpTake ==
  ASSUME TypeOK, CopyInv, NEW c \in Chans, PumpTake(c)
  PROVE  CopyInv' /\ \A t \in Tasks, x \in Chans : Somewhere(t, x)' => Somewhere(t, x)
  <1> DEFINE q == queue[c]
  <1>q. q \in Seq(Tasks) /\ q # << >>
    BY DEF TypeOK, PumpTake
  <1>u. /\ queue'[c] = Tail(q) /\ hand'[c] = Head(q) /\ stream'[c] = "send" /\ stream[c] = "pump"
        /\ \A x \in Chans \ {c} : queue'[x] = queue[x] /\ hand'[x] = hand[x] /\ stream'[x] = stream[x]
        /\ call' = call /\ left' = left /\ target' = target
    BY DEF TypeOK, PumpTake, callVars
  <1>h. Head(q) \in Tasks /\ Queued(Head(q), c)
    BY <1>q, TailFacts DEF Queued
  <1>t. ASSUME NEW t \in Tasks, Queued(t, c)' PROVE Queued(t, c) /\ t # Head(q)
    <2> HIDE DEF q
    <2>1. PICK i \in 1..Len(Tail(q)) : Tail(q)[i] = t
      BY <1>t, <1>u DEF Queued
    <2>2. i + 1 \in 1..Len(q) /\ q[i + 1] = t /\ Head(q) = q[1] /\ 1 \in 1..Len(q)
      BY <1>q, <2>1, TailFacts
    <2>3. q[1] = t => 1 = i + 1
      BY <2>2 DEF q, CopyInv, OneCopyInv, Once
    <2>4. t # Head(q)
      BY <2>1, <2>2, <2>3
    <2> QED BY <2>2, <2>4 DEF Queued, q
  <1>d. ASSUME NEW t \in Tasks, NEW i \in 1..Len(queue'[c]), NEW j \in 1..Len(queue'[c]),
               queue'[c][i] = t, queue'[c][j] = t
        PROVE  i = j
    <2> HIDE DEF q
    <2>1. /\ i + 1 \in 1..Len(q) /\ q[i + 1] = t
          /\ j + 1 \in 1..Len(q) /\ q[j + 1] = t
      BY <1>d, <1>u, <1>q, TailFacts
    <2>2. i + 1 = j + 1
      BY <2>1 DEF q, CopyInv, OneCopyInv, Once
    <2> QED BY <2>2
  <1> HIDE DEF q
  <1>1. ChanInv'
    BY <1>u DEF CopyInv, ChanInv
  <1>m. ASSUME NEW t \in Tasks, NEW x \in Chans, Somewhere(t, x)' PROVE Somewhere(t, x)
    <2>1. CASE x = c
      BY <1>m, <1>u, <1>t, <1>h, <2>1 DEF Somewhere, Offered, InHand
    <2>2. CASE x # c
      BY <1>m, <1>u, <2>2 DEF Somewhere, Offered, InHand, Queued
    <2> QED BY <2>1, <2>2
  <1>2. PlaceInv'
    BY <1>u, <1>m DEF CopyInv, PlaceInv, Started
  <1>3. OneCopyInv'
    <2> SUFFICES ASSUME NEW t \in Tasks, NEW x \in Chans
                 PROVE  (/\ Offered(t, x) => ~Queued(t, x) /\ ~InHand(t, x)
                         /\ Queued(t, x) => ~InHand(t, x)
                         /\ Once(t, x))'
      BY DEF OneCopyInv
    <2>1. CASE x = c
      <3>1. Offered(t, c)' => ~Queued(t, c)' /\ ~InHand(t, c)'
        BY <1>u, <1>t, <1>h DEF CopyInv, OneCopyInv, Offered, InHand
      <3>2. Queued(t, c)' => ~InHand(t, c)'
        BY <1>u, <1>t DEF InHand
      <3>3. Once(t, c)'
        BY <1>d DEF Once
      <3> QED BY <2>1, <3>1, <3>2, <3>3
    <2>2. CASE x # c
      <3>1. Once(t, x)' /\ (Queued(t, x)' <=> Queued(t, x))
        BY <1>u, <2>2, OnceKept
      <3>2. (Offered(t, x)' <=> Offered(t, x)) /\ (InHand(t, x)' <=> InHand(t, x))
        BY <1>u, <2>2 DEF Offered, InHand
      <3> QED BY <3>1, <3>2 DEF CopyInv, OneCopyInv
    <2> QED BY <2>1, <2>2
  <1> QED BY <1>1, <1>2, <1>3, <1>m DEF CopyInv

LEMMA CopySendTo ==
  ASSUME TypeOK, CopyInv, NEW s \in Tasks, NEW c \in Chans, SendTo(s, c)
  PROVE  CopyInv' /\ \A t \in Tasks, x \in Chans : Somewhere(t, x)' => Somewhere(t, x)
  <1> DEFINE q == queue[c]
  <1>q. q \in Seq(Tasks)
    BY DEF TypeOK
  <1>u. /\ queue'[c] = Append(q, s) /\ Offered(s, c)
        /\ \A x \in Chans \ {c} : queue'[x] = queue[x]
        /\ left' = [left EXCEPT ![s] = @ \ {c}]
        /\ call' = call /\ hand' = hand /\ stream' = stream /\ target' = target
    BY DEF TypeOK, SendTo, Offered
  <1>s. Started(s) /\ Owner[c] = target[s] /\ stream[c] \in {"pump", "send"}
        /\ ~Queued(s, c) /\ ~InHand(s, c)
    BY <1>u DEF CopyInv, PlaceInv, OneCopyInv, Somewhere
  <1>o. ASSUME NEW t \in Tasks, NEW x \in Chans, Offered(t, x)'
        PROVE  Offered(t, x) /\ ~(t = s /\ x = c)
    BY <1>o, <1>u DEF Offered, TypeOK
  <1>t. ASSUME NEW t \in Tasks, Queued(t, c)' PROVE Queued(t, c) \/ t = s
    <2> HIDE DEF q
    <2>1. PICK i \in 1..Len(Append(q, s)) : Append(q, s)[i] = t
      BY <1>t, <1>u DEF Queued
    <2>2. i \in 1..Len(q) \/ i = Len(q) + 1
      BY <1>q, <2>1, AppendFacts
    <2> QED BY <1>q, <2>1, <2>2, AppendFacts DEF Queued, q
  <1>d. ASSUME NEW t \in Tasks, NEW i \in 1..Len(queue'[c]), NEW j \in 1..Len(queue'[c]),
               queue'[c][i] = t, queue'[c][j] = t
        PROVE  i = j
    <2> HIDE DEF q
    <2>1. /\ (i \in 1..Len(q) /\ q[i] = t) \/ (i = Len(q) + 1 /\ s = t)
          /\ (j \in 1..Len(q) /\ q[j] = t) \/ (j = Len(q) + 1 /\ s = t)
      BY <1>d, <1>u, <1>q, AppendFacts
    <2>2. \A k \in 1..Len(q) : q[k] # s
      BY <1>s DEF Queued, q
    <2>3. \A k, l \in 1..Len(q) : q[k] = t /\ q[l] = t => k = l
      BY DEF q, CopyInv, OneCopyInv, Once
    <2> QED BY <2>1, <2>2, <2>3
  <1> HIDE DEF q
  <1>1. ChanInv'
    BY <1>u, <1>s DEF CopyInv, ChanInv
  <1>m. ASSUME NEW t \in Tasks, NEW x \in Chans, Somewhere(t, x)' PROVE Somewhere(t, x)
    <2>1. CASE x = c
      BY <1>m, <1>u, <1>t, <1>o, <2>1 DEF Somewhere, InHand
    <2>2. CASE x # c
      BY <1>m, <1>u, <1>o, <2>2 DEF Somewhere, InHand, Queued
    <2> QED BY <2>1, <2>2
  <1>2. PlaceInv'
    BY <1>u, <1>m DEF CopyInv, PlaceInv, Started
  <1>3. OneCopyInv'
    <2> SUFFICES ASSUME NEW t \in Tasks, NEW x \in Chans
                 PROVE  (/\ Offered(t, x) => ~Queued(t, x) /\ ~InHand(t, x)
                         /\ Queued(t, x) => ~InHand(t, x)
                         /\ Once(t, x))'
      BY DEF OneCopyInv
    <2>1. CASE x = c
      <3>1. Offered(t, c)' => ~Queued(t, c)' /\ ~InHand(t, c)'
        BY <1>u, <1>t, <1>o DEF CopyInv, OneCopyInv, InHand
      <3>2. Queued(t, c)' => ~InHand(t, c)'
        BY <1>u, <1>t, <1>s DEF InHand, CopyInv, OneCopyInv
      <3>3. Once(t, c)'
        BY <1>d DEF Once
      <3> QED BY <2>1, <3>1, <3>2, <3>3
    <2>2. CASE x # c
      <3>1. Once(t, x)' /\ (Queued(t, x)' <=> Queued(t, x))
        BY <1>u, <2>2, OnceKept
      <3>2. (Offered(t, x)' => Offered(t, x)) /\ (InHand(t, x)' <=> InHand(t, x))
        BY <1>u, <1>o DEF InHand
      <3> QED BY <3>1, <3>2 DEF CopyInv, OneCopyInv
    <2> QED BY <2>1, <2>2
  <1> QED BY <1>1, <1>2, <1>3, <1>m DEF CopyInv

\* A fresh snapshot names subscribed channels of the target, and the task is in none of them.
LEMMA CopyDispatchStart ==
  ASSUME TypeOK, CopyInv, NEW s \in Tasks, DispatchStart(s)
  PROVE  CopyInv'
  <1>u. /\ queue' = queue /\ hand' = hand /\ stream' = stream /\ target' = target
        /\ call[s] = "gated"
        /\ \A t \in Tasks \ {s} : call'[t] = call[t] /\ left'[t] = left[t]
    BY DEF TypeOK, DispatchStart, streamVars
  <1>n. \A x \in Chans : ~Queued(s, x) /\ ~InHand(s, x)
    BY <1>u DEF CopyInv, PlaceInv, Started, Somewhere
  <1>o. ASSUME NEW x \in Chans, Offered(s, x)'
        PROVE  Started(s)' /\ Owner[x] = target[s] /\ stream[x] \in {"pump", "send"}
    <2>1. CASE Subscribed(target[s]) = {}
      BY <1>o, <2>1 DEF DispatchStart, Offered, TypeOK
    <2>2. CASE Subscribed(target[s]) # {}
      <3>1. left'[s] = Subscribed(target[s]) /\ call'[s] = "send"
        BY <2>2 DEF DispatchStart, TypeOK
      <3> QED BY <1>o, <3>1 DEF Offered, Started, Subscribed
    <2> QED BY <2>1, <2>2
  <1>q. \A t \in Tasks, x \in Chans : /\ Once(t, x)' /\ (Queued(t, x)' <=> Queued(t, x))
                                      /\ InHand(t, x)' <=> InHand(t, x)
    BY <1>u, OnceKept DEF InHand
  <1>p. \A t \in Tasks \ {s} : /\ Started(t)' <=> Started(t)
                               /\ \A x \in Chans : Offered(t, x)' <=> Offered(t, x)
    BY <1>u DEF Started, Offered
  <1>1. ChanInv'
    BY <1>u DEF CopyInv, ChanInv
  <1>2. PlaceInv'
    <2> SUFFICES ASSUME NEW t \in Tasks, NEW x \in Chans, Somewhere(t, x)'
                 PROVE  Started(t)' /\ Owner[x] = target'[t] /\ stream'[x] \in {"pump", "send"}
      BY DEF PlaceInv
    <2>1. CASE t = s
      BY <1>u, <1>n, <1>o, <1>q, <2>1 DEF Somewhere
    <2>2. CASE t # s
      BY <1>u, <1>q, <1>p, <2>2 DEF CopyInv, PlaceInv, Somewhere
    <2> QED BY <2>1, <2>2
  <1>3. OneCopyInv'
    <2> SUFFICES ASSUME NEW t \in Tasks, NEW x \in Chans
                 PROVE  (/\ Offered(t, x) => ~Queued(t, x) /\ ~InHand(t, x)
                         /\ Queued(t, x) => ~InHand(t, x)
                         /\ Once(t, x))'
      BY DEF OneCopyInv
    <2>1. CASE t = s
      BY <1>n, <1>q, <2>1
    <2>2. CASE t # s
      BY <1>q, <1>p, <2>2 DEF CopyInv, OneCopyInv
    <2> QED BY <2>1, <2>2
  <1> QED BY <1>1, <1>2, <1>3 DEF CopyInv

\* The remaining steps of a call offer nothing new and move no copy.
LEMMA CopyFewer ==
  ASSUME CopyInv, UNCHANGED <<stream, queue, hand, target>>,
         \A t \in Tasks, x \in Chans : Offered(t, x)' => Offered(t, x),
         \A t \in Tasks : Started(t) => Started(t)'
  PROVE  CopyInv' /\ \A t \in Tasks, x \in Chans : Somewhere(t, x)' => Somewhere(t, x)
  <1>q. \A t \in Tasks, x \in Chans : /\ Once(t, x)' /\ (Queued(t, x)' <=> Queued(t, x))
                                      /\ InHand(t, x)' <=> InHand(t, x)
    BY OnceKept DEF InHand
  <1>m. \A t \in Tasks, x \in Chans : Somewhere(t, x)' => Somewhere(t, x)
    BY <1>q DEF Somewhere
  <1>1. ChanInv'
    BY DEF CopyInv, ChanInv
  <1>2. PlaceInv'
    BY <1>m, PlaceKept, Zenon DEF CopyInv
  <1>3. OneCopyInv'
    BY <1>q, OneCopyKept, Zenon DEF CopyInv
  <1> QED BY <1>1, <1>2, <1>3, <1>m DEF CopyInv

Fewer == \A t \in Tasks, x \in Chans : Somewhere(t, x)' => Somewhere(t, x)

LEMMA CopyStream == TypeOK /\ CopyInv /\ StreamNext => CopyInv' /\ Fewer
  <1> SUFFICES ASSUME TypeOK, CopyInv, StreamNext PROVE CopyInv' /\ Fewer
    OBVIOUS
  <1> USE DispatchConstants DEF Fewer
  <1>1. ASSUME NEW c \in Chans, WatchTasks(c) \/ Subscribe(c) PROVE CopyInv' /\ Fewer
    <2>1. /\ UNCHANGED <<queue, hand, call, left, target>>
          /\ stream[c] \in {"closed", "gated"} /\ stream'[c] # "send"
          /\ \A x \in Chans \ {c} : stream'[x] = stream[x]
      BY <1>1 DEF TypeOK, WatchTasks, Subscribe, callVars
    <2>2. \A t \in Tasks, x \in Chans : /\ Offered(t, x)' <=> Offered(t, x)
                                        /\ InHand(t, x)' <=> InHand(t, x)
                                        /\ Started(t)' <=> Started(t)
      BY <2>1 DEF Offered, InHand, Started
    <2>q. \A t \in Tasks, x \in Chans : Once(t, x)' /\ (Queued(t, x)' <=> Queued(t, x))
      BY <2>1, OnceKept
    <2>3. \A t \in Tasks : ~Somewhere(t, c)
      BY <2>1 DEF CopyInv, PlaceInv
    <2>4. queue[c] = << >> /\ hand[c] = None
      BY <2>1 DEF CopyInv, ChanInv
    <2>5. ChanInv'
      BY <2>1, <2>4 DEF CopyInv, ChanInv
    <2>f. Fewer
      BY <2>2, <2>q DEF Somewhere
    <2>6. PlaceInv'
      BY <2>1, <2>2, <2>3, <2>f, PlaceKept, Zenon DEF CopyInv
    <2>7. OneCopyInv'
      BY <2>2, <2>q, OneCopyKept, Zenon DEF CopyInv
    <2> QED BY <2>f, <2>5, <2>6, <2>7 DEF CopyInv
  <1>2. ASSUME NEW c \in Chans, PumpTake(c) PROVE CopyInv' /\ Fewer
    BY <1>2, CopyPumpTake
  <1>3. ASSUME NEW c \in Chans, SendDone(c) PROVE CopyInv' /\ Fewer
    <2>1. /\ UNCHANGED <<queue, call, left, target>>
          /\ stream[c] = "send" /\ stream'[c] = "pump" /\ hand'[c] = None
          /\ \A x \in Chans \ {c} : stream'[x] = stream[x] /\ hand'[x] = hand[x]
      BY <1>3 DEF TypeOK, SendDone, callVars
    <2>2. \A t \in Tasks, x \in Chans : /\ Offered(t, x)' <=> Offered(t, x)
                                        /\ InHand(t, x)' => InHand(t, x)
                                        /\ Started(t)' <=> Started(t)
      BY <2>1 DEF Offered, InHand, Started
    <2>q. \A t \in Tasks, x \in Chans : Once(t, x)' /\ (Queued(t, x)' <=> Queued(t, x))
      BY <2>1, OnceKept
    <2>f. Fewer
      BY <2>2, <2>q DEF Somewhere
    <2>3. ChanInv'
      BY <2>1 DEF CopyInv, ChanInv
    <2>4. PlaceInv'
      BY <2>1, <2>2, <2>f, PlaceKept, Zenon DEF CopyInv
    <2>5. OneCopyInv'
      BY <2>2, <2>q, OneCopyKept, Zenon DEF CopyInv
    <2> QED BY <2>f, <2>3, <2>4, <2>5 DEF CopyInv
  <1>4. ASSUME NEW c \in Chans, EndStream(c) PROVE CopyInv' /\ Fewer
    <2>1. /\ UNCHANGED <<call, target>>
          /\ stream'[c] = "closed" /\ hand'[c] = None /\ queue'[c] = << >>
          /\ \A x \in Chans \ {c} :
               stream'[x] = stream[x] /\ hand'[x] = hand[x] /\ queue'[x] = queue[x]
      BY <1>4 DEF TypeOK, EndStream
    <2>2. \A t \in Tasks, x \in Chans : x \in left'[t] <=> x \in left[t] /\ x # c
      BY <1>4 DEF TypeOK, EndStream
    <2>3. \A t \in Tasks : ~Offered(t, c)' /\ ~Queued(t, c)' /\ ~InHand(t, c)'
      <3>1. \A t \in Tasks : ~Offered(t, c)' /\ ~InHand(t, c)'
        BY <2>1, <2>2 DEF Offered, InHand
      <3>2. Len(queue'[c]) = 0
        BY <2>1
      <3>3. \A t \in Tasks : ~Queued(t, c)'
        BY <3>2 DEF Queued
      <3> QED BY <3>1, <3>3
    <2>4. \A t \in Tasks, x \in Chans \ {c} : /\ Offered(t, x)' <=> Offered(t, x)
                                              /\ InHand(t, x)' <=> InHand(t, x)
      BY <2>1, <2>2 DEF Offered, InHand
    <2>q. \A t \in Tasks, x \in Chans \ {c} : Once(t, x)' /\ (Queued(t, x)' <=> Queued(t, x))
      BY <2>1, OnceKept
    <2>o. \A t \in Tasks : Once(t, c)'
      BY <2>1 DEF Once
    <2>5. \A t \in Tasks : Started(t)' <=> Started(t)
      BY <2>1 DEF Started
    <2>6. ChanInv'
      BY <2>1 DEF CopyInv, ChanInv
    <2>7. Fewer /\ \A t \in Tasks : ~Somewhere(t, c)'
      BY <2>3, <2>4, <2>q DEF Somewhere
    <2>8. PlaceInv'
      BY <2>1, <2>5, <2>7, PlaceKept, Zenon DEF CopyInv
    <2>9. OneCopyInv'
      BY <2>3, <2>4, <2>q, <2>o, OneCopyKept, Zenon DEF CopyInv
    <2> QED BY <2>6, <2>7, <2>8, <2>9 DEF CopyInv
  <1>5. ASSUME NEW a \in Agents, LoseStream(a) PROVE CopyInv' /\ Fewer
    BY <1>5, CopyFrame DEF LoseStream, copyVars, callVars
  <1> QED BY <1>1, <1>2, <1>3, <1>4, <1>5 DEF StreamNext

\* Only DispatchStart puts a task somewhere new.
LEMMA CopyCall ==
  ASSUME TypeOK, CopyInv, CallInv, CallNext
  PROVE  CopyInv' /\ (Fewer \/ \E t \in Tasks : DispatchStart(t))
  <1> SUFFICES ASSUME NEW t \in Tasks,
                      \/ DispatchStep(t) \/ CtxDone(t) \/ CallerLeaves(t)
                      \/ \E a \in Agents : ServeHTTP(t, a)
               PROVE  CopyInv' /\ (Fewer \/ DispatchStart(t))
    BY DEF CallNext
  <1> USE DEF Fewer
  <1>1. ASSUME NEW a \in Agents, ServeHTTP(t, a) PROVE CopyInv' /\ Fewer
    <2>1. /\ UNCHANGED <<stream, queue, hand, left>> /\ call[t] = "idle" /\ call'[t] = "gated"
          /\ \A y \in Tasks \ {t} : call'[y] = call[y] /\ target'[y] = target[y]
      BY <1>1 DEF TypeOK, ServeHTTP, streamVars
    <2>2. \A y \in Tasks, x \in Chans : /\ Offered(y, x)' <=> Offered(y, x)
                                        /\ InHand(y, x)' <=> InHand(y, x)
                                        /\ Started(y)' <=> Started(y)
      BY <2>1 DEF Offered, InHand, Started
    <2>q. \A y \in Tasks, x \in Chans : Once(y, x)' /\ (Queued(y, x)' <=> Queued(y, x))
      BY <2>1, OnceKept
    <2>f. Fewer
      BY <2>2, <2>q DEF Somewhere
    <2>3. \A x \in Chans : ~Somewhere(t, x)
      BY <2>1 DEF CopyInv, PlaceInv, Started
    <2>4. ChanInv'
      BY <2>1 DEF CopyInv, ChanInv
    <2>5. PlaceInv'
      BY <2>1, <2>2, <2>3, <2>f, PlaceKept, Zenon DEF CopyInv
    <2>6. OneCopyInv'
      BY <2>2, <2>q, OneCopyKept, Zenon DEF CopyInv
    <2> QED BY <2>f, <2>4, <2>5, <2>6 DEF CopyInv
  <1>2. CASE CtxDone(t) \/ CallerLeaves(t)
    BY <1>2, CopyFrame DEF CtxDone, CallerLeaves, copyVars, streamVars
  <1>3. CASE DispatchStart(t)
    BY <1>3, CopyDispatchStart
  <1>4. ASSUME NEW c \in Chans, SendTo(t, c) PROVE CopyInv' /\ Fewer
    BY <1>4, CopySendTo
  <1>5. CASE \/ \E c \in Chans : SkipFull(t, c)
             \/ SendToOrphan(t) \/ SendAborted(t) \/ SendLoopDone(t)
             \/ Receive(t) \/ GiveUp(t) \/ Return(t)
    <2>1. UNCHANGED <<stream, queue, hand, target>>
      BY <1>5 DEF SkipFull, SendToOrphan, SendAborted, SendLoopDone, Receive, GiveUp, Return,
                  streamVars
    <2>2. /\ call[t] \in {"send", "wait", "leave"}
          /\ call'[t] \in {call[t], "wait", "leave", "returned"}
          /\ \A y \in Tasks \ {t} : call'[y] = call[y] /\ left'[y] = left[y]
          /\ left'[t] \subseteq left[t]
      <3>1. CASE (\E c \in Chans : SkipFull(t, c)) \/ SendToOrphan(t)
        BY <3>1 DEF TypeOK, SkipFull, SendToOrphan
      <3>2. CASE SendAborted(t) \/ Receive(t) \/ GiveUp(t) \/ Return(t)
        BY <3>2 DEF TypeOK, SendAborted, Receive, GiveUp, Return, Leave
      <3>3. CASE SendLoopDone(t)
        BY <3>3 DEF TypeOK, SendLoopDone, Leave
      <3> QED BY <1>5, <3>1, <3>2, <3>3
    <2>3. \A y \in Tasks, x \in Chans : Offered(y, x)' => Offered(y, x)
      BY <2>2 DEF Offered
    <2>4. \A y \in Tasks : Started(y) => Started(y)'
      BY <2>2 DEF Started
    <2> QED BY <2>1, <2>3, <2>4, CopyFewer
  <1> QED BY <1>1, <1>2, <1>3, <1>4, <1>5 DEF DispatchStep

LEMMA CopyRest == CopyInv /\ (AgentNext \/ ElectionNext \/ UNCHANGED vars) => CopyInv' /\ Fewer
  <1> SUFFICES ASSUME AgentNext \/ ElectionNext \/ UNCHANGED vars PROVE UNCHANGED copyVars
    BY CopyFrame DEF Fewer
  <1> QED BY AgentFrame, ElectionFrame DEF copyVars, vars, streamVars, callVars

\* No step but DispatchStart makes a copy live: the channel an agent turns to is empty.
LEMMA LiveShrinks ==
  ASSUME TypeOK, CopyInv, [Next]_vars, Fewer
  PROVE  \A t \in Tasks, x \in Chans : Live(t, x)' => Live(t, x)
  <1> SUFFICES ASSUME NEW t \in Tasks, NEW x \in Chans, Live(t, x)' PROVE Live(t, x)
    OBVIOUS
  <1> USE DispatchConstants
  <1>1. Somewhere(t, x) /\ reading'[Owner[x]] = x
    BY DEF Fewer, Live
  <1>2. CASE UNCHANGED reading
    BY <1>1, <1>2 DEF Live
  <1>3. ASSUME NEW c \in Chans, WatchTasks(c) PROVE Live(t, x)
    <2>1. x # c
      BY <1>1, <1>3 DEF CopyInv, PlaceInv, WatchTasks
    <2> QED BY <1>1, <1>3, <2>1 DEF Live, TypeOK, WatchTasks
  <1>4. ASSUME NEW c \in Chans, EndStream(c) PROVE Live(t, x)
    BY <1>1, <1>4 DEF Live, TypeOK, EndStream
  <1>5. ASSUME NEW a \in Agents, LoseStream(a) \/ Restart(a) PROVE Live(t, x)
    BY <1>1, <1>5 DEF Live, TypeOK, LoseStream, Restart
  <1> USE DEF streamVars
  <1>6. CASE CallNext
    BY <1>2, <1>6, CallFrame
  <1>7. CASE ElectionNext \/ UNCHANGED vars
    BY <1>2, <1>7, ElectionFrame DEF vars
  <1>8. CASE AgentNext
    BY <1>2, <1>5, <1>8, AgentFrame
  <1>9. CASE StreamNext
    BY <1>2, <1>3, <1>4, <1>5, <1>9 DEF StreamNext, Subscribe, PumpTake, SendDone
  <1> QED BY <1>6, <1>7, <1>8, <1>9 DEF Next

=============================================================================
