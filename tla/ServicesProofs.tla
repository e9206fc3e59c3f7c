--------------------------- MODULE ServicesProofs ---------------------------
(***************************************************************************)
(* Proofs about MCServices: what its runs check on small instances holds   *)
(* for any number of workers, callers, streams, strategies and sessions.   *)
(*                                                                         *)
(* Each service has an inductive invariant; the theorems at the end state  *)
(* the properties of MCServices for its specification.                     *)
(***************************************************************************)
EXTENDS MarketDataProofs, FiniteSetTheorems

\* The sets of an instance are counted as those here.
LEMMA SameSize ==
    ASSUME NEW x
    PROVE  W!Cardinality(x) = Cardinality(x) /\ (W!IsFiniteSet(x) <=> IsFiniteSet(x))
<1>1. W!IsFiniteSet(x) <=> IsFiniteSet(x)
  BY DEF W!IsFiniteSet, IsFiniteSet
<1>2. W!Cardinality(x) = Cardinality(x)
  BY Zenon DEF W!Cardinality, Cardinality
<1>3. QED
  BY <1>1, <1>2

-----------------------------------------------------------------------------
(* Notification.                                                             *)

\* Only tasks that run are sending, and failures are counted.
SendsInv ==
    /\ workers \subseteq Workers
    /\ sends \in [Workers -> [N!Channels -> {"none", "limited", "posting"}]]
    /\ \A w \in Workers \ workers : sends[w] = N!Idle
    /\ failures \in [N!Channels -> Nat] /\ streak \in [N!Channels -> Nat]

\* Initially nothing is sent.
LEMMA SendsInit == N!Init => SendsInv
<1> SUFFICES ASSUME N!Init PROVE SendsInv
  OBVIOUS
<1>1. N!Idle \in [N!Channels -> {"none", "limited", "posting"}]
  BY DEF N!Idle
<1>2. sends \in [Workers -> [N!Channels -> {"none", "limited", "posting"}]]
  BY <1>1 DEF N!Init
<1>3. /\ failures \in [N!Channels -> Nat] /\ streak \in [N!Channels -> Nat]
      /\ workers = {} /\ \A w \in Workers : sends[w] = N!Idle
  BY DEF N!Init
<1>4. QED
  BY <1>2, <1>3 DEF SendsInv

\* A task begins to send, goes on or ends only while it runs.
LEMMA SendsStep == SendsInv /\ [N!Next]_(N!vars) => SendsInv'
<1> SUFFICES ASSUME SendsInv, [N!Next]_(N!vars) PROVE SendsInv'
  OBVIOUS
<1>1. ASSUME UNCHANGED <<workers, sends, failures, streak>> PROVE SendsInv'
  BY <1>1 DEF SendsInv
<1>2. ASSUME NEW c \in N!Channels, N!RegisterChannel(c) \/ N!BackoffOver(c) PROVE SendsInv'
  BY <1>1, <1>2 DEF N!RegisterChannel, N!BackoffOver
<1>3. ASSUME NEW level \in Levels, N!Alert(level) PROVE SendsInv'
  BY <1>1, <1>3 DEF N!Alert
<1>4. CASE N!Refill
  BY <1>1, <1>4 DEF N!Refill
<1>5. CASE N!Stop
  <2>1. /\ workers' = workers \ current /\ failures' = failures /\ streak' = streak
        /\ sends' = [w \in Workers |-> IF w \in current THEN N!Idle ELSE sends[w]]
    BY <1>5 DEF N!Stop
  <2>2. N!Idle \in [N!Channels -> {"none", "limited", "posting"}]
    BY DEF N!Idle
  <2>3. sends' \in [Workers -> [N!Channels -> {"none", "limited", "posting"}]]
    BY <2>1, <2>2 DEF SendsInv
  <2>4. \A w \in Workers \ workers' : sends'[w] = N!Idle
    BY <2>1 DEF SendsInv
  <2>5. QED
    BY <2>1, <2>3, <2>4 DEF SendsInv
<1>6. ASSUME NEW w \in Workers, N!Start(w) PROVE SendsInv'
  BY <1>6 DEF N!Start, SendsInv
<1>7. ASSUME NEW w \in Workers, N!Take(w) PROVE SendsInv'
  <2> DEFINE targets == N!ROUTING[Head(queue).level] \cap channels
             next == [c \in N!Channels |->
                          IF c \notin targets \cap Configured \/ N!Open(c) THEN "none"
                          ELSE IF c = "telegram" THEN "limited" ELSE "posting"]
  <2>1. /\ w \in workers /\ workers' = workers /\ streak' = streak
        /\ sends' = [sends EXCEPT ![w] = next]
        /\ failures' = N!FailuresSeen(targets)
    BY <1>7 DEF N!Take
  <2>2. next \in [N!Channels -> {"none", "limited", "posting"}]
    OBVIOUS
  <2> HIDE DEF next, targets
  <2>3. failures' \in [N!Channels -> Nat]
    BY <2>1 DEF N!FailuresSeen, SendsInv
  <2>4. sends' \in [Workers -> [N!Channels -> {"none", "limited", "posting"}]]
    BY <2>1, <2>2 DEF SendsInv
  <2>5. \A v \in Workers \ workers' : sends'[v] = N!Idle
    BY <2>1 DEF SendsInv
  <2>6. QED
    BY <2>1, <2>3, <2>4, <2>5 DEF SendsInv
<1>8. ASSUME NEW w \in Workers, N!Acquire(w) PROVE SendsInv'
  <2>1. /\ sends[w]["telegram"] = "limited" /\ sends' = [sends EXCEPT ![w]["telegram"] = "posting"]
        /\ UNCHANGED <<workers, failures, streak>>
    BY <1>8 DEF N!Acquire
  <2>2. "telegram" \in N!Channels
    BY DEF N!Channels
  <2>3. sends' \in [Workers -> [N!Channels -> {"none", "limited", "posting"}]]
    BY <2>1 DEF SendsInv
  <2>4. w \in workers
    BY <2>1, <2>2 DEF SendsInv, N!Idle
  <2>5. QED
    BY <2>1, <2>3, <2>4 DEF SendsInv
<1>9. ASSUME NEW w \in Workers, NEW c \in N!Channels, NEW delivered \in BOOLEAN,
             N!Answer(w, c, delivered)
      PROVE  SendsInv'
  <2>1. /\ sends[w][c] = "posting" /\ sends' = [sends EXCEPT ![w][c] = "none"]
        /\ failures' = [failures EXCEPT ![c] = IF delivered THEN 0 ELSE failures[c] + 1]
        /\ streak' = [streak EXCEPT ![c] = IF delivered THEN 0 ELSE streak[c] + 1]
        /\ workers' = workers
    BY <1>9 DEF N!Answer
  <2>2. failures' \in [N!Channels -> Nat] /\ streak' \in [N!Channels -> Nat]
    BY <2>1 DEF SendsInv
  <2>3. sends' \in [Workers -> [N!Channels -> {"none", "limited", "posting"}]]
    BY <2>1 DEF SendsInv
  <2>4. w \in workers
    BY <2>1 DEF SendsInv, N!Idle
  <2>5. QED
    BY <2>1, <2>2, <2>3, <2>4 DEF SendsInv
<1>10. CASE UNCHANGED N!vars
  BY <1>1, <1>10 DEF N!vars
<1>11. QED
  BY <1>2, <1>3, <1>4, <1>5, <1>6, <1>7, <1>8, <1>9, <1>10 DEF N!Next
-----------------------------------------------------------------------------
\* What waits in the queue are alerts that have been raised, in their order.
Raised(q, n) ==
    /\ q \in Seq([number : 1..MaxAlerts, level : Levels])
    /\ \A i, j \in 1..Len(q) : i < j => q[i].number < q[j].number
    /\ \A i \in 1..Len(q) : q[i].number <= n

QueueInv == Raised(queue, raised) /\ Len(queue) <= AlertQueue /\ raised \in 0..MaxAlerts

\* Their numbers are numbers.
LEMMA RaisedNumbers ==
    ASSUME NEW q, NEW n, Raised(q, n), MaxAlerts \in Nat
    PROVE  \A i \in 1..Len(q) : q[i].number \in Nat /\ q[i].number <= n
<1>1. ASSUME NEW i \in 1..Len(q) PROVE q[i].number \in Nat
  <2> DEFINE Val == [number : 1..MaxAlerts, level : Levels]
  <2>0. q \in Seq(Val)
    BY DEF Raised
  <2> HIDE DEF Val
  <2>1. q[i] \in Val
    BY <2>0
  <2> DEFINE a == q[i]
  <2> HIDE DEF a
  <2>2. a \in [number : 1..MaxAlerts, level : Levels]
    BY <2>1 DEF a, Val
  <2>3. a.number \in Nat
    BY <2>2
  <2>4. QED
    BY <2>3 DEF a
<1>2. QED
  BY <1>1 DEF Raised

\* One more alert goes to the end of the queue.
LEMMA RaisedMore ==
    ASSUME NEW q, NEW n \in Nat, Raised(q, n), n < MaxAlerts, MaxAlerts \in Nat,
           NEW a \in [number : 1..MaxAlerts, level : Levels], a.number = n + 1
    PROVE  Raised(Append(q, a), n + 1) /\ Len(Append(q, a)) = Len(q) + 1
<1> DEFINE k == Append(q, a)
<1>1. /\ k \in Seq([number : 1..MaxAlerts, level : Levels]) /\ Len(k) = Len(q) + 1 /\ Len(q) \in Nat
      /\ (\A i \in 1..Len(q) : k[i] = q[i]) /\ k[Len(k)] = a
  BY DEF Raised
<1> HIDE DEF k
<1>2. \A i \in 1..Len(q) : k[i].number = q[i].number /\ q[i].number \in Nat /\ q[i].number <= n
  BY <1>1, RaisedNumbers
<1>3. k[Len(q) + 1].number = n + 1
  BY <1>1
<1>4. \A i \in 1..Len(k) : i \in 1..Len(q) \/ i = Len(q) + 1
  BY <1>1
<1>5. \A i \in 1..Len(k) : k[i].number <= n + 1
  BY <1>2, <1>3, <1>4
<1>6. ASSUME NEW i \in 1..Len(k), NEW j \in 1..Len(k), i < j PROVE k[i].number < k[j].number
  <2>1. i \in 1..Len(q)
    BY <1>1, <1>6
  <2>2. CASE j \in 1..Len(q)
    BY <1>2, <1>6, <2>1, <2>2 DEF Raised
  <2>3. CASE j = Len(q) + 1
    BY <1>2, <1>3, <2>1, <2>3
  <2>4. QED
    BY <1>4, <2>2, <2>3
<1>7. QED
  BY <1>1, <1>5, <1>6 DEF Raised, k

\* The first alert leaves the queue.
LEMMA RaisedLess ==
    ASSUME NEW q, NEW n, Raised(q, n), q # <<>>
    PROVE  Raised(Tail(q), n) /\ Len(Tail(q)) <= Len(q)
<1> DEFINE k == Tail(q)
<1>1. /\ k \in Seq([number : 1..MaxAlerts, level : Levels])
      /\ Len(q) \in Nat /\ Len(k) = Len(q) - 1 /\ Len(k) \in Nat
      /\ \A i \in 1..Len(k) : k[i] = q[i + 1]
  BY FirstOfList DEF Raised
<1> HIDE DEF k
<1>2. \A i \in 1..Len(k) : i + 1 \in 1..Len(q) /\ k[i] = q[i + 1]
  BY <1>1
<1>3. \A i \in 1..Len(k) : k[i].number <= n
  BY <1>2 DEF Raised
<1>4. ASSUME NEW i \in 1..Len(k), NEW j \in 1..Len(k), i < j PROVE k[i].number < k[j].number
  <2>1. i + 1 \in 1..Len(q) /\ j + 1 \in 1..Len(q) /\ i + 1 < j + 1
    BY <1>2, <1>4
  <2>2. QED
    BY <1>2, <2>1 DEF Raised
<1>5. QED
  BY <1>1, <1>3, <1>4 DEF Raised, k

\* The queue stays in the order the alerts were raised in.
LEMMA QueueStep == N!ConstantsOK /\ QueueInv /\ [N!Next]_(N!vars) => QueueInv'
<1> SUFFICES ASSUME N!ConstantsOK, QueueInv, [N!Next]_(N!vars) PROVE QueueInv'
  OBVIOUS
<1>1. AlertQueue \in Nat /\ MaxAlerts \in Nat /\ raised \in Nat
  BY DEF N!ConstantsOK, QueueInv
<1>2. CASE UNCHANGED <<queue, raised>>
  BY <1>2 DEF QueueInv
<1>3. ASSUME NEW level \in Levels, N!Alert(level) PROVE QueueInv'
  <2> DEFINE a == [number |-> raised + 1, level |-> level]
  <2>1. raised < MaxAlerts /\ raised' = raised + 1 /\ raised' \in 0..MaxAlerts
        /\ queue' = IF Len(queue) < AlertQueue THEN Append(queue, a) ELSE queue
    BY <1>1, <1>3 DEF N!Alert
  <2>2. a \in [number : 1..MaxAlerts, level : Levels] /\ a.number = raised + 1
    BY <1>1, <2>1
  <2> HIDE DEF a
  <2>3. Raised(queue, raised) /\ Len(queue) \in Nat /\ Len(queue) <= AlertQueue
    BY DEF QueueInv, Raised
  <2>4. CASE Len(queue) < AlertQueue
    <3> DEFINE k == Append(queue, a)
    <3>1. Raised(k, raised + 1) /\ Len(k) = Len(queue) + 1
      BY <1>1, <2>1, <2>2, <2>3, RaisedMore
    <3> HIDE DEF k
    <3>2. queue' = k
      BY <2>1, <2>4 DEF k
    <3>3. Len(k) <= AlertQueue
      BY <1>1, <2>3, <2>4, <3>1
    <3>4. QED
      BY <2>1, <3>1, <3>2, <3>3 DEF QueueInv
  <2>5. CASE ~(Len(queue) < AlertQueue)
    <3>1. queue' = queue
      BY <2>1, <2>5
    <3>2. \A i \in 1..Len(queue) : queue[i].number \in Nat /\ queue[i].number <= raised
      BY <1>1, <2>3, RaisedNumbers
    <3>3. \A i \in 1..Len(queue) : queue[i].number <= raised + 1
      BY <1>1, <3>2
    <3>4. Raised(queue, raised + 1)
      BY <2>3, <3>3 DEF Raised
    <3>5. QED
      BY <2>1, <2>3, <3>1, <3>4 DEF QueueInv
  <2>6. QED
    BY <2>4, <2>5
<1>4. ASSUME NEW w \in Workers, N!Take(w) PROVE QueueInv'
  <2>1. queue # <<>> /\ queue' = Tail(queue) /\ raised' = raised
    BY <1>4 DEF N!Take
  <2>2. Raised(queue, raised) /\ Len(queue) \in Nat /\ Len(queue) <= AlertQueue
    BY DEF QueueInv, Raised
  <2>3. Raised(Tail(queue), raised) /\ Len(Tail(queue)) <= Len(queue)
    BY <2>1, <2>2, RaisedLess
  <2> DEFINE k == Tail(queue)
  <2>4. Len(k) \in Nat /\ Len(k) <= Len(queue) /\ queue' = k /\ Raised(k, raised)
    BY <2>1, <2>3 DEF Raised
  <2> HIDE DEF k
  <2>5. Len(k) <= AlertQueue
    BY <1>1, <2>2, <2>4
  <2>6. QED
    BY <2>1, <2>4, <2>5 DEF QueueInv
<1>5. CASE \E c \in N!Channels : N!RegisterChannel(c) \/ N!BackoffOver(c)
  BY <1>2, <1>5 DEF N!RegisterChannel, N!BackoffOver
<1>6. CASE N!Stop \/ N!Refill
  BY <1>2, <1>6 DEF N!Stop, N!Refill
<1>7. CASE \E w \in Workers :
               \/ N!Start(w) \/ N!Acquire(w)
               \/ \E c \in N!Channels, delivered \in BOOLEAN : N!Answer(w, c, delivered)
  BY <1>2, <1>7 DEF N!Start, N!Acquire, N!Answer
<1>8. CASE UNCHANGED N!vars
  BY <1>2, <1>8 DEF N!vars
<1>9. QED
  BY <1>3, <1>4, <1>5, <1>6, <1>7, <1>8 DEF N!Next

\* The sets of tasks and channels and the bucket.
Registered ==
    /\ channels \subseteq N!Channels /\ backoff \subseteq N!Channels
    /\ workers \subseteq started /\ started \subseteq Workers /\ current \subseteq started
    /\ tokens \in 0..Capacity

\* Only tasks that were started run.
LEMMA RegisteredStep == N!ConstantsOK /\ Registered /\ [N!Next]_(N!vars) => Registered'
<1> SUFFICES ASSUME N!ConstantsOK, Registered, [N!Next]_(N!vars) PROVE Registered'
  OBVIOUS
<1>1. Capacity \in Nat
  BY DEF N!ConstantsOK
<1>2. ASSUME NEW c \in N!Channels, N!RegisterChannel(c) \/ N!BackoffOver(c) PROVE Registered'
  BY <1>2 DEF N!RegisterChannel, N!BackoffOver, Registered
<1>3. ASSUME NEW level \in Levels, N!Alert(level) PROVE Registered'
  BY <1>3 DEF N!Alert, Registered
<1>4. CASE N!Stop
  BY <1>4 DEF N!Stop, Registered
<1>5. CASE N!Refill
  BY <1>1, <1>5 DEF N!Refill, Registered
<1>6. ASSUME NEW w \in Workers, N!Start(w) PROVE Registered'
  BY <1>6 DEF N!Start, Registered
<1>7. ASSUME NEW w \in Workers, N!Take(w) PROVE Registered'
  BY <1>7 DEF N!Take, Registered
<1>8. ASSUME NEW w \in Workers, N!Acquire(w) PROVE Registered'
  BY <1>1, <1>8 DEF N!Acquire, Registered
<1>9. ASSUME NEW w \in Workers, NEW c \in N!Channels, NEW delivered \in BOOLEAN,
             N!Answer(w, c, delivered)
      PROVE  Registered'
  <2>1. backoff' \subseteq backoff \cup {c}
    BY <1>9 DEF N!Answer
  <2>2. UNCHANGED <<channels, workers, started, current, tokens>>
    BY <1>9 DEF N!Answer
  <2>3. QED
    BY <2>1, <2>2 DEF Registered
<1>10. CASE UNCHANGED N!vars
  BY <1>10 DEF N!vars, Registered
<1>11. QED
  BY <1>2, <1>3, <1>4, <1>5, <1>6, <1>7, <1>8, <1>9, <1>10 DEF N!Next

\* The invariant of the notification service.
AlertsInv == SendsInv /\ QueueInv /\ Registered

\* Initially no alert is raised.
LEMMA AlertsInit == N!ConstantsOK /\ N!Init => AlertsInv
<1> SUFFICES ASSUME N!ConstantsOK, N!Init PROVE AlertsInv
  OBVIOUS
<1>1. SendsInv
  BY SendsInit
<1>2. /\ queue = <<>> /\ raised = 0 /\ channels = {} /\ backoff = {} /\ workers = {}
      /\ started = {} /\ current = {} /\ tokens = Capacity
      /\ AlertQueue \in Nat /\ MaxAlerts \in Nat /\ Capacity \in Nat
  BY DEF N!Init, N!ConstantsOK
<1>3. QueueInv
  BY <1>2 DEF QueueInv, Raised
<1>4. Registered
  BY <1>2 DEF Registered
<1>5. QED
  BY <1>1, <1>3, <1>4 DEF AlertsInv

\* No step of the notification service breaks AlertsInv.
LEMMA AlertsStep == N!ConstantsOK /\ AlertsInv /\ [N!Next]_(N!vars) => AlertsInv'
  BY SendsStep, QueueStep, RegisteredStep DEF AlertsInv

\* It implies the type invariant.
LEMMA AlertsTyped == AlertsInv => N!TypeOK
<1> SUFFICES ASSUME AlertsInv PROVE N!TypeOK
  OBVIOUS
<1>1. SendsInv /\ QueueInv /\ Registered
  BY DEF AlertsInv
<1>2. /\ queue \in Seq([number : 1..MaxAlerts, level : Levels])
      /\ Len(queue) <= AlertQueue
      /\ raised \in 0..MaxAlerts
      /\ \A i, j \in DOMAIN queue : i < j => queue[i].number < queue[j].number
  <2>1. queue \in Seq([number : 1..MaxAlerts, level : Levels]) /\ Len(queue) <= AlertQueue
        /\ raised \in 0..MaxAlerts
    BY <1>1 DEF QueueInv, Raised
  <2>2. DOMAIN queue = 1..Len(queue)
    BY <2>1
  <2>3. \A i, j \in 1..Len(queue) : i < j => queue[i].number < queue[j].number
    BY <1>1 DEF QueueInv, Raised
  <2>4. QED
    BY ONLY <2>1, <2>2, <2>3
<1>3. QED
  BY <1>1, <1>2 DEF SendsInv, Registered, N!TypeOK

-----------------------------------------------------------------------------
(* The connection pool.                                                      *)

\* Without an overlap one caller at a time is at work: it creates a pool where
\* there is none, or forgets one whose connections are gone.
OneAtWork ==
    ~twice =>
        /\ \A c, d \in Callers : doing[c] # "nothing" /\ doing[d] # "nothing" => c = d
        /\ \A c \in Callers : doing[c] = "creating" => pool = {}
        /\ \A c \in Callers : doing[c] = "closing" => pool # {} /\ openPools = {}

PoolInv == P!TypeOK /\ OneAtWork /\ P!NoLeakWithoutOverlap

\* Initially there is no pool.
LEMMA PoolInit == P!ConstantsOK /\ P!Init => PoolInv
<1> SUFFICES ASSUME P!ConstantsOK, P!Init PROVE PoolInv
  OBVIOUS
<1>1. 0 \in 0..MaxPools
  BY DEF P!ConstantsOK
<1>2. twice \in BOOLEAN
  BY Zenon DEF P!Init
<1>3. P!TypeOK
  BY <1>1, <1>2 DEF P!Init, P!TypeOK
<1>4. OneAtWork /\ P!NoLeakWithoutOverlap
  BY DEF P!Init, OneAtWork, P!NoLeakWithoutOverlap
<1>5. QED
  BY <1>3, <1>4 DEF PoolInv

\* Types, step by step.
LEMMA PoolTypeStep == P!ConstantsOK /\ P!TypeOK /\ [P!Next]_(P!vars) => P!TypeOK'
<1> SUFFICES ASSUME P!ConstantsOK, P!TypeOK, [P!Next]_(P!vars) PROVE P!TypeOK'
  OBVIOUS
<1>1. pools \in Nat /\ MaxPools \in Nat
  BY DEF P!TypeOK, P!ConstantsOK
<1>2. ASSUME NEW c \in Callers, P!GetPool(c) PROVE P!TypeOK'
  <2>1. twice' \in BOOLEAN
    BY <1>2 DEF P!GetPool
  <2>2. QED
    BY <1>2, <2>1 DEF P!GetPool, P!TypeOK
<1>3. ASSUME NEW c \in Callers, P!Created(c) PROVE P!TypeOK'
  BY <1>1, <1>3 DEF P!Created, P!TypeOK
<1>4. ASSUME NEW c \in Callers, P!CreationFails(c) PROVE P!TypeOK'
  BY <1>4 DEF P!CreationFails, P!TypeOK
<1>5. ASSUME NEW c \in Callers, P!Close(c) PROVE P!TypeOK'
  <2>1. twice' \in BOOLEAN
    BY <1>5 DEF P!Close
  <2>2. QED
    BY <1>5, <2>1 DEF P!Close, P!TypeOK
<1>6. ASSUME NEW c \in Callers, P!Closed(c) PROVE P!TypeOK'
  BY <1>6 DEF P!Closed, P!TypeOK
<1>7. ASSUME NEW c \in Callers, P!CloseFails(c) PROVE P!TypeOK'
  BY <1>7 DEF P!CloseFails, P!TypeOK
<1>8. CASE UNCHANGED P!vars
  BY <1>8 DEF P!vars, P!TypeOK
<1>9. QED
  BY <1>2, <1>3, <1>4, <1>5, <1>6, <1>7, <1>8 DEF P!Next

\* The pool that is current holds all connections, step by step.
LEMMA AtWorkStep == PoolInv /\ [P!Next]_(P!vars) => (OneAtWork /\ P!NoLeakWithoutOverlap)'
<1> SUFFICES ASSUME PoolInv, [P!Next]_(P!vars) PROVE (OneAtWork /\ P!NoLeakWithoutOverlap)'
  OBVIOUS
<1> SUFFICES ASSUME ~twice' PROVE (OneAtWork /\ P!NoLeakWithoutOverlap)'
  BY DEF OneAtWork, P!NoLeakWithoutOverlap
<1>1. doing \in [Callers -> {"nothing", "creating", "closing"}]
  BY DEF PoolInv, P!TypeOK
<1> USE DEF OneAtWork, P!NoLeakWithoutOverlap
<1>2. ASSUME NEW c \in Callers, P!GetPool(c) PROVE (OneAtWork /\ P!NoLeakWithoutOverlap)'
  <2>1. ~twice /\ pool = {} /\ openPools = {} /\ pool' = pool /\ openPools' = openPools
    BY <1>2 DEF P!GetPool, P!NeedsPool, PoolInv
  <2>2. \A d \in Callers : doing[d] = "nothing"
    BY <1>1, <1>2, <2>1 DEF P!GetPool, PoolInv, P!Awaiting
  <2>3. doing' = [doing EXCEPT ![c] = "creating"]
    BY <1>2 DEF P!GetPool
  <2>4. QED
    BY <1>1, <2>1, <2>2, <2>3
<1>3. ASSUME NEW c \in Callers, P!Created(c) PROVE (OneAtWork /\ P!NoLeakWithoutOverlap)'
  <2>1. ~twice /\ openPools' = openPools \cup {pools'} /\ pool' = {pools'} /\ pool = {}
    BY <1>3 DEF P!Created, PoolInv
  <2>2. \A d \in Callers : doing'[d] = "nothing"
    BY <1>1, <1>3, <2>1 DEF P!Created, PoolInv
  <2>3. QED
    BY <2>1, <2>2 DEF PoolInv
<1>4. ASSUME NEW c \in Callers, P!CreationFails(c) PROVE (OneAtWork /\ P!NoLeakWithoutOverlap)'
  <2>1. ~twice /\ openPools' = openPools /\ pool' = pool
    BY <1>4 DEF P!CreationFails
  <2>2. \A d \in Callers : doing'[d] = "nothing"
    BY <1>1, <1>4, <2>1 DEF P!CreationFails, PoolInv
  <2>3. QED
    BY <2>1, <2>2 DEF PoolInv
<1>5. ASSUME NEW c \in Callers, P!Close(c) PROVE (OneAtWork /\ P!NoLeakWithoutOverlap)'
  <2>1. ~twice /\ openPools' = {} /\ pool' = pool /\ pool # {}
    BY <1>5 DEF P!Close, PoolInv
  <2>2. \A d \in Callers : doing[d] = "nothing"
    BY <1>1, <1>5, <2>1 DEF P!Close, PoolInv, P!Awaiting
  <2>3. doing' = [doing EXCEPT ![c] = "closing"]
    BY <1>5 DEF P!Close
  <2>4. QED
    BY <1>1, <2>1, <2>2, <2>3
<1>6. ASSUME NEW c \in Callers, P!Closed(c) PROVE (OneAtWork /\ P!NoLeakWithoutOverlap)'
  <2>1. ~twice /\ openPools' = openPools /\ openPools = {} /\ pool' = {}
    BY <1>6 DEF P!Closed, PoolInv
  <2>2. \A d \in Callers : doing'[d] = "nothing"
    BY <1>1, <1>6, <2>1 DEF P!Closed, PoolInv
  <2>3. QED
    BY <2>1, <2>2
<1>7. ASSUME NEW c \in Callers, P!CloseFails(c) PROVE (OneAtWork /\ P!NoLeakWithoutOverlap)'
  <2>1. ~twice /\ openPools' = openPools /\ openPools = {} /\ pool' = pool
    BY <1>7 DEF P!CloseFails, PoolInv
  <2>2. \A d \in Callers : doing'[d] = "nothing"
    BY <1>1, <1>7, <2>1 DEF P!CloseFails, PoolInv
  <2>3. QED
    BY <2>1, <2>2
<1>8. CASE UNCHANGED P!vars
  BY <1>8 DEF P!vars, PoolInv
<1>9. QED
  BY <1>2, <1>3, <1>4, <1>5, <1>6, <1>7, <1>8 DEF P!Next

\* No step of a caller breaks PoolInv.
LEMMA PoolStep == P!ConstantsOK /\ PoolInv /\ [P!Next]_(P!vars) => PoolInv'
  BY PoolTypeStep, AtWorkStep DEF PoolInv

-----------------------------------------------------------------------------
(* WebSocket sessions.                                                       *)

\* The sessions of a channel that its gauge counts.
OnGauge(k) == {h \in W!Sessions : W!Kind(h) = k /\ (stage[h] \in W!Counted \/ h \in stale)}

\* TypeOK of the sessions, with the gauge as the size of a set.
LEMMA GaugeCounts ==
    ASSUME W!ConstantsOK
    PROVE  /\ W!TypeOK <=> /\ container \in BOOLEAN
                           /\ stage \in [W!Sessions -> W!Counted \cup {"new", "ended"}]
                           /\ client \subseteq W!Sessions
                           /\ stale \subseteq {h \in W!Sessions : stage[h] = "ended"}
                           /\ gauge = [k \in W!Kinds |-> Cardinality(OnGauge(k))]
           /\ \A k \in W!Kinds : IsFiniteSet(OnGauge(k)) /\ Cardinality(OnGauge(k)) \in Nat
<1>1. [k \in W!Kinds |-> W!Cardinality({h \in W!Sessions : W!Kind(h) = k /\ (stage[h] \in W!Counted \/ h \in stale)})]
      = [k \in W!Kinds |-> Cardinality(OnGauge(k))]
  BY SameSize DEF OnGauge
<1>2. IsFiniteSet(W!Sessions)
  BY SameSize DEF W!ConstantsOK
<1>3. \A k \in W!Kinds : OnGauge(k) \subseteq W!Sessions
  BY DEF OnGauge
<1>4. \A k \in W!Kinds : IsFiniteSet(OnGauge(k)) /\ Cardinality(OnGauge(k)) \in Nat
  BY <1>2, <1>3, FS_Subset, FS_CardinalityType
<1>5. QED
  BY <1>1, <1>4 DEF W!TypeOK

\* Initially no session is counted.
LEMMA SessionsInit == W!ConstantsOK /\ W!Init => W!TypeOK
<1> SUFFICES ASSUME W!ConstantsOK, W!Init PROVE W!TypeOK
  OBVIOUS
<1>1. container \in BOOLEAN
  BY Zenon DEF W!Init
<1>2. /\ stage = [h \in W!Sessions |-> "new"] /\ client = W!Sessions /\ stale = {}
      /\ gauge = [k \in W!Kinds |-> 0]
  BY DEF W!Init
<1>3. \A k \in W!Kinds : OnGauge(k) = {}
  BY <1>2 DEF OnGauge, W!Counted
<1>4. \A k \in W!Kinds : Cardinality(OnGauge(k)) = 0
  BY <1>3, FS_EmptySet
<1>5. gauge = [k \in W!Kinds |-> Cardinality(OnGauge(k))]
  BY <1>2, <1>4
<1>6. QED
  BY <1>1, <1>2, <1>5, GaugeCounts

\* A handler moves on without being counted anew.
LEMMA SessionMoves ==
    ASSUME W!ConstantsOK, W!TypeOK, container' = container, client' \subseteq W!Sessions,
           stage' \in [W!Sessions -> W!Counted \cup {"new", "ended"}],
           stale' \subseteq {h \in W!Sessions : stage'[h] = "ended"},
           gauge' = gauge,
           \A h \in W!Sessions : (stage'[h] \in W!Counted \/ h \in stale')
                             <=> (stage[h] \in W!Counted \/ h \in stale)
    PROVE  W!TypeOK'
<1>1. \A k \in W!Kinds : OnGauge(k)' = OnGauge(k)
  BY DEF OnGauge
<1>2. gauge = [k \in W!Kinds |-> Cardinality(OnGauge(k))] /\ container \in BOOLEAN
  BY GaugeCounts
<1>3. gauge' = [k \in W!Kinds |-> Cardinality(OnGauge(k)')]
  BY <1>1, <1>2
<1>4. gauge' = [k \in W!Kinds |->
         W!Cardinality({h \in W!Sessions : W!Kind(h) = k /\ (stage'[h] \in W!Counted \/ h \in stale')})]
  BY <1>3, SameSize DEF OnGauge
<1>5. QED
  BY <1>2, <1>4 DEF W!TypeOK

\* A handler goes on or off the gauge.
LEMMA SessionCounted ==
    ASSUME W!ConstantsOK, W!TypeOK, container' = container, client' = client, stale' = stale,
           NEW h \in W!Sessions, h \notin stale, NEW to \in W!Counted \cup {"new", "ended"},
           stage' = [stage EXCEPT ![h] = to],
           \/ /\ stage[h] \notin W!Counted /\ to \in W!Counted
              /\ gauge' = [gauge EXCEPT ![W!Kind(h)] = @ + 1]
           \/ /\ stage[h] \in W!Counted /\ to \notin W!Counted
              /\ gauge' = [gauge EXCEPT ![W!Kind(h)] = @ - 1]
    PROVE  W!TypeOK'
<1>1. /\ stage \in [W!Sessions -> W!Counted \cup {"new", "ended"}] /\ container \in BOOLEAN
      /\ client \subseteq W!Sessions /\ stale \subseteq {b \in W!Sessions : stage[b] = "ended"}
      /\ gauge = [k \in W!Kinds |-> Cardinality(OnGauge(k))]
      /\ \A k \in W!Kinds : IsFiniteSet(OnGauge(k)) /\ Cardinality(OnGauge(k)) \in Nat
  BY GaugeCounts
<1>2. W!Kind(h) \in W!Kinds
  BY DEF W!Kind, W!Kinds
<1>3. /\ stage' \in [W!Sessions -> W!Counted \cup {"new", "ended"}] /\ stage'[h] = to
      /\ \A b \in W!Sessions : b # h => stage'[b] = stage[b]
  BY <1>1
<1>4. stale' \subseteq {b \in W!Sessions : stage'[b] = "ended"}
  BY <1>1, <1>3
<1>5. ASSUME NEW k \in W!Kinds PROVE gauge'[k] = Cardinality(OnGauge(k)')
  <2>1. CASE k # W!Kind(h)
    <3>1. OnGauge(k)' = OnGauge(k)
      BY <1>3, <2>1 DEF OnGauge
    <3>2. gauge'[k] = gauge[k]
      BY <1>1, <1>2, <2>1
    <3>3. QED
      BY <1>1, <3>1, <3>2
  <2>2. CASE k = W!Kind(h) /\ stage[h] \notin W!Counted
    <3>1. to \in W!Counted /\ gauge' = [gauge EXCEPT ![k] = @ + 1]
      BY <2>2
    <3>2. OnGauge(k)' = OnGauge(k) \cup {h} /\ h \notin OnGauge(k)
      BY <1>3, <2>2, <3>1 DEF OnGauge
    <3>3. Cardinality(OnGauge(k) \cup {h}) = Cardinality(OnGauge(k)) + 1
      BY <1>1, <3>2, FS_AddElement
    <3>4. gauge'[k] = gauge[k] + 1 /\ gauge[k] = Cardinality(OnGauge(k))
      BY <1>1, <3>1
    <3>5. QED
      BY <3>2, <3>3, <3>4
  <2>3. CASE k = W!Kind(h) /\ stage[h] \in W!Counted
    <3>1. to \notin W!Counted /\ gauge' = [gauge EXCEPT ![k] = @ - 1]
      BY <2>3
    <3>2. OnGauge(k)' = OnGauge(k) \ {h} /\ h \in OnGauge(k)
      BY <1>3, <2>3, <3>1 DEF OnGauge
    <3>3. Cardinality(OnGauge(k) \ {h}) = Cardinality(OnGauge(k)) - 1
      BY <1>1, <3>2, FS_RemoveElement
    <3>4. gauge'[k] = gauge[k] - 1 /\ gauge[k] = Cardinality(OnGauge(k))
      BY <1>1, <3>1
    <3>5. QED
      BY <3>2, <3>3, <3>4
  <2>4. QED
    BY <2>1, <2>2, <2>3
<1>6. gauge' \in [W!Kinds -> Int] /\ DOMAIN gauge' = W!Kinds
  <2>1. gauge \in [W!Kinds -> Nat]
    BY <1>1
  <2>2. QED
    BY <1>2, <2>1
<1>7. gauge' = [k \in W!Kinds |-> Cardinality(OnGauge(k)')]
  BY <1>5, <1>6
<1>8. gauge' = [k \in W!Kinds |->
         W!Cardinality({b \in W!Sessions : W!Kind(b) = k /\ (stage'[b] \in W!Counted \/ b \in stale')})]
  BY <1>7, SameSize DEF OnGauge
<1>9. QED
  BY <1>1, <1>3, <1>4, <1>8 DEF W!TypeOK

\* No step of a session puts the gauge out of step with the sessions.
LEMMA SessionsStep == W!ConstantsOK /\ W!TypeOK /\ [W!Next]_(W!vars) => W!TypeOK'
<1> SUFFICES ASSUME W!ConstantsOK, W!TypeOK, [W!Next]_(W!vars) PROVE W!TypeOK'
  OBVIOUS
<1>1. /\ stage \in [W!Sessions -> W!Counted \cup {"new", "ended"}]
      /\ client \subseteq W!Sessions /\ stale \subseteq {b \in W!Sessions : stage[b] = "ended"}
  BY DEF W!TypeOK
<1>2. "ended" \notin W!Counted /\ "new" \notin W!Counted
      /\ {"refusing", "greeting", "serving", "cleaning"} = W!Counted
  BY DEF W!Counted
<1>3. ASSUME NEW h \in W!Sessions, W!Reject(h) PROVE W!TypeOK'
  BY <1>1, <1>2, <1>3, SessionMoves DEF W!Reject, W!Enter
<1>4. ASSUME NEW h \in W!Sessions, W!Accept(h) PROVE W!TypeOK'
  <2>1. h \notin stale /\ stage[h] \notin W!Counted
    BY <1>1, <1>2, <1>4 DEF W!Accept
  <2> DEFINE to == IF container THEN "greeting" ELSE "refusing"
  <2>2. to \in W!Counted
    BY <1>2
  <2>3. /\ stage' = [stage EXCEPT ![h] = to] /\ gauge' = [gauge EXCEPT ![W!Kind(h)] = @ + 1]
        /\ container' = container /\ client' = client /\ stale' = stale
    BY <1>4 DEF W!Accept, W!Enter
  <2> HIDE DEF to
  <2>4. QED
    BY <2>1, <2>2, <2>3, SessionCounted
<1>5. ASSUME NEW h \in W!Sessions, NEW raises \in BOOLEAN, stage[h] \in W!Counted, W!End(h, raises)
      PROVE  W!TypeOK'
  <2>1. /\ stage' = [stage EXCEPT ![h] = "ended"] /\ container' = container /\ client' = client
        /\ gauge' = IF raises THEN gauge ELSE [gauge EXCEPT ![W!Kind(h)] = @ - 1]
        /\ stale' = IF raises THEN stale \cup {h} ELSE stale
    BY <1>5 DEF W!End, W!Enter
  <2>2. h \notin stale
    BY <1>1, <1>2, <1>5
  <2>3. CASE raises
    BY <1>1, <1>2, <1>5, <2>1, <2>3, SessionMoves
  <2>4. CASE ~raises
    BY <1>1, <1>2, <1>5, <2>1, <2>2, <2>4, SessionCounted
  <2>5. QED
    BY <2>3, <2>4
<1>6. ASSUME NEW h \in W!Sessions, NEW raises \in BOOLEAN, W!Refuse(h, raises) \/ W!CleanUp(h, raises)
      PROVE  W!TypeOK'
  BY <1>2, <1>5, <1>6 DEF W!Refuse, W!CleanUp
<1>7. ASSUME NEW h \in W!Sessions, NEW to \in W!Counted, stage[h] \in W!Counted, W!Enter(h, to),
             UNCHANGED <<container, client, gauge, stale>>
      PROVE  W!TypeOK'
  BY <1>1, <1>2, <1>7, SessionMoves DEF W!Enter
<1>8. ASSUME NEW h \in W!Sessions, NEW raises \in BOOLEAN, W!Greet(h, raises) PROVE W!TypeOK'
  <2> DEFINE to == IF raises THEN "cleaning" ELSE "serving"
  <2>1. to \in W!Counted /\ stage[h] \in W!Counted
    BY <1>2, <1>8 DEF W!Greet
  <2>2. W!Enter(h, to) /\ UNCHANGED <<container, client, gauge, stale>>
    BY <1>8 DEF W!Greet
  <2> HIDE DEF to
  <2>3. QED
    BY <1>7, <2>1, <2>2
<1>9. ASSUME NEW h \in W!Sessions, W!SendFails(h) \/ W!Cancel(h) PROVE W!TypeOK'
  BY <1>2, <1>7, <1>9 DEF W!SendFails, W!Cancel
<1>10. ASSUME NEW h \in W!Sessions, W!ClientLeaves(h) PROVE W!TypeOK'
  BY <1>1, <1>10, SessionMoves DEF W!ClientLeaves
<1>11. CASE UNCHANGED W!vars
  BY <1>1, <1>11, SessionMoves DEF W!vars
<1>12. QED
  BY <1>3, <1>4, <1>6, <1>8, <1>9, <1>10, <1>11 DEF W!Next

-----------------------------------------------------------------------------
(* The container.                                                            *)

\* The bus comes first, and each component once.
Made ==
    /\ components \in Seq(C!Parts) /\ Once(components)
    /\ phase = "bus" => components = <<>>
    /\ phase = "broker" => components = <<"bus">>
    /\ phase = "services" => components = <<"bus">> \/ components = <<"bus", "broker">>
    /\ phase \in {"consuming", "running", "stopping"} => components # <<>> /\ components[1] = "bus"

\* Components are asked to stop from the last one on, the bus at the end; it
\* stops the loops that consume.
AskedInOrder ==
    /\ asked \in Seq(C!Parts) /\ Len(asked) <= Len(components)
    /\ \A i \in 1..Len(asked) : asked[i] = components[Len(components) - i + 1]
    /\ phase \notin {"stopping", "ended"} => asked = <<>>
    /\ asked # <<>> /\ Len(asked) = Len(components) => consuming = 0
    /\ phase = "ended" /\ asked # <<>> => Len(asked) = Len(components)

Phases == {"bus", "broker", "services", "consuming", "without", "running", "stopping", "ended"}

ContainerInv ==
    /\ Made /\ AskedInOrder
    /\ phase \in Phases /\ consuming \in 0..HandledStreams /\ published \in BOOLEAN
    /\ linked \subseteq Elements(components)
    /\ published => phase \in {"running", "stopping"}

\* It implies the two invariants that the runs check.
LEMMA ContainerTyped == ContainerInv => C!TypeOK /\ C!StopReachesAll
<1> SUFFICES ASSUME ContainerInv PROVE C!TypeOK /\ C!StopReachesAll
  OBVIOUS
<1>1. Made /\ AskedInOrder
  BY DEF ContainerInv
<1>2. /\ components \in Seq(C!Parts) /\ Len(components) \in Nat
      /\ asked \in Seq(C!Parts) /\ Len(asked) \in Nat /\ Len(asked) <= Len(components)
  BY <1>1 DEF Made, AskedInOrder
<1>3. C!IsInjective(components)
  BY <1>1, <1>2 DEF Made, Once, C!IsInjective
<1>4. C!Range(components) = Elements(components)
  BY <1>2 DEF C!Range, Elements
<1>5. asked = SubSeq(C!Reverse(components), 1, Len(asked))
  <2> DEFINE k == C!Reverse(components)
             part == SubSeq(k, 1, Len(asked))
  <2>1. k = [i \in 1..Len(components) |-> components[(Len(components) - i) + 1]]
    BY DEF C!Reverse
  <2>2. k \in Seq(C!Parts) /\ Len(k) = Len(components)
    BY <1>2, <2>1
  <2> HIDE DEF k
  <2>3. part \in Seq(C!Parts) /\ Len(part) = Len(asked) /\ \A i \in 1..Len(asked) : part[i] = k[i]
    BY <1>2, <2>2
  <2> HIDE DEF part
  <2>4. ASSUME NEW i \in 1..Len(asked) PROVE part[i] = asked[i]
    <3>1. i \in 1..Len(components) /\ asked[i] = components[Len(components) - i + 1]
      BY <1>1, <1>2 DEF AskedInOrder
    <3>2. QED
      BY <2>1, <2>3, <3>1
  <2>5. asked = part
    BY <1>2, <2>3, <2>4
  <2>6. QED
    BY <2>5 DEF part, k
<1>6. C!TypeOK
  BY <1>1, <1>2, <1>3, <1>4, <1>5 DEF ContainerInv, Phases, C!TypeOK
<1>7. C!StopReachesAll
  BY <1>1 DEF AskedInOrder, C!StopReachesAll
<1>8. QED
  BY <1>6, <1>7

\* Initially nothing is made.
LEMMA ContainerInit == C!ConstantsOK /\ C!Init => ContainerInv
<1> SUFFICES ASSUME C!ConstantsOK, C!Init PROVE ContainerInv
  OBVIOUS
<1>1. /\ phase = "bus" /\ components = <<>> /\ consuming = 0 /\ linked = {} /\ asked = <<>>
      /\ consuming \in 0..HandledStreams
  BY DEF C!Init, C!ConstantsOK
<1>2. published \in BOOLEAN /\ ~published
  BY Zenon DEF C!Init
<1>3. Made /\ AskedInOrder
  BY <1>1 DEF Made, AskedInOrder, Once
<1>4. QED
  BY <1>1, <1>2, <1>3 DEF ContainerInv, Phases

\* The services that could be made go behind the bus and the broker.
LEMMA ServicesMade ==
    ASSUME NEW q, q = <<"bus">> \/ q = <<"bus", "broker">>, NEW made,
           NEW k, k = q \o C!Kept(<<"indicator", "ml", "notification">>, made)
    PROVE  k \in Seq(C!Parts) /\ Once(k) /\ Elements(q) \subseteq Elements(k)
           /\ k # <<>> /\ k[1] = "bus"
<1> DEFINE rest == <<"indicator", "ml", "notification">>
           kept == Kept(rest, made)
<1>1. q \in Seq(C!Parts) /\ Once(q) /\ Elements(q) \subseteq {"bus", "broker"} /\ q # <<>> /\ q[1] = "bus"
      /\ Len(q) \in Nat
  BY DEF C!Parts, Once, Elements
<1>2. rest \in Seq(C!Parts) /\ Once(rest) /\ Elements(rest) = C!Optional
  <2>1. rest \in Seq(C!Parts) /\ Len(rest) = 3 /\ rest[1] = "indicator" /\ rest[2] = "ml"
        /\ rest[3] = "notification"
    BY DEF C!Parts, C!Optional
  <2> HIDE DEF rest
  <2>2. \A i \in 1..3 : i = 1 \/ i = 2 \/ i = 3
    OBVIOUS
  <2>3. Once(rest)
    BY <2>1, <2>2 DEF Once
  <2>4. Elements(rest) = C!Optional
    BY <2>1, <2>2 DEF Elements, C!Optional
  <2>5. QED
    BY <2>1, <2>3, <2>4
<1>3. kept = C!Kept(rest, made)
  BY DEF C!Kept, Kept
<1> HIDE DEF rest
<1>4. kept \in Seq(C!Parts) /\ Once(kept) /\ Elements(kept) \subseteq C!Optional
  BY <1>2, KeptSet
<1>5. k = q \o kept
  BY <1>3 DEF rest
<1> HIDE DEF kept
<1>6. Elements(q) \cap Elements(kept) = {}
  BY <1>1, <1>4 DEF C!Optional
<1>7. k \in Seq(C!Parts) /\ Once(k) /\ Len(k) = Len(q) + Len(kept)
  BY <1>1, <1>4, <1>5, <1>6, Joined
<1>8. Len(kept) \in Nat /\ \A i \in 1..Len(q) : k[i] = q[i] /\ i \in 1..Len(k)
  BY <1>1, <1>4, <1>5, <1>7
<1>9. 1 \in 1..Len(q)
  BY <1>1
<1>10. k[1] = "bus" /\ k # <<>>
  BY <1>1, <1>7, <1>8, <1>9
<1>11. Elements(q) \subseteq Elements(k)
  BY <1>8 DEF Elements
<1>12. QED
  BY <1>7, <1>10, <1>11

\* stop asks the next component.
LEMMA StopNextKeeps ==
    ASSUME C!ConstantsOK, ContainerInv, NEW fails \in BOOLEAN, C!StopNext(fails)
    PROVE  ContainerInv'
<1> DEFINE n == Len(components)
           m == Len(asked)
           x == C!Last(C!Left)
<1>1. /\ components \in Seq(C!Parts) /\ n \in Nat /\ Once(components) /\ components # <<>>
      /\ components[1] = "bus"
      /\ asked \in Seq(C!Parts) /\ m \in Nat /\ m <= n
      /\ \A i \in 1..m : asked[i] = components[n - i + 1]
      /\ phase = "stopping" /\ consuming \in 0..HandledStreams /\ linked \subseteq Elements(components)
  BY DEF C!StopNext, ContainerInv, Made, AskedInOrder
<1>2. /\ C!Left # <<>> /\ asked' = Append(asked, x) /\ phase' = "stopping"
      /\ consuming' = (IF x = "bus" THEN 0 ELSE consuming) /\ linked' \subseteq linked
      /\ components' = components /\ published' = published
  BY DEF C!StopNext, C!AfterStopOf, C!Disconnected
<1>3. C!Left = SubSeq(components, 1, n - m)
  BY DEF C!Left
<1>4. n - m >= 1 /\ Len(C!Left) = n - m /\ \A i \in 1..(n - m) : C!Left[i] = components[i]
  <2> DEFINE left == SubSeq(components, 1, n - m)
  <2>1. left \in Seq(C!Parts) /\ Len(left) = n - m /\ \A i \in 1..(n - m) : left[i] = components[i]
    BY <1>1
  <2> HIDE DEF left
  <2>2. C!Left = left
    BY <1>3 DEF left
  <2>3. QED
    BY <1>1, <1>2, <2>1, <2>2
<1>5. x = components[n - m] /\ x \in C!Parts
  <2>1. x = C!Left[Len(C!Left)]
    BY DEF C!Last
  <2>2. n - m \in 1..(n - m) /\ n - m \in 1..n
    BY <1>1, <1>4
  <2>3. x = components[n - m]
    BY <1>4, <2>1, <2>2
  <2>4. QED
    BY <1>1, <2>2, <2>3
<1> HIDE DEF x
<1> DEFINE k == Append(asked, x)
<1>6. k \in Seq(C!Parts) /\ Len(k) = m + 1 /\ (\A i \in 1..m : k[i] = asked[i]) /\ k[m + 1] = x /\ k # <<>>
  <2>1. asked \in Seq(C!Parts) /\ x \in C!Parts
    BY <1>1, <1>5
  <2>2. QED
    BY ONLY <2>1, Appended
<1> HIDE DEF k
<1>7. asked' = k
  BY <1>2 DEF k
<1>8. ASSUME NEW i \in 1..Len(k) PROVE k[i] = components[n - i + 1]
  <2>1. i \in 1..m \/ i = m + 1
    BY <1>1, <1>6
  <2>2. CASE i \in 1..m
    BY <1>1, <1>6, <2>2
  <2>3. CASE i = m + 1
    <3>1. n - i + 1 = n - m
      BY <1>1, <2>3
    <3>2. QED
      BY <1>5, <1>6, <2>3, <3>1
  <2>4. QED
    BY <2>1, <2>2, <2>3
<1>9. Len(k) = n => consuming' = 0
  <2>1. ASSUME Len(k) = n PROVE x = "bus"
    <3>1. n - m = 1
      BY <1>1, <1>6, <2>1
    <3>2. QED
      BY <1>1, <1>5, <3>1
  <2>2. QED
    BY <1>2, <2>1
<1>10. Len(k) <= n
  BY <1>1, <1>4, <1>6
<1>11. AskedInOrder'
  BY <1>2, <1>6, <1>7, <1>8, <1>9, <1>10 DEF AskedInOrder
<1>12. Made'
  BY <1>1, <1>2 DEF Made
<1>13. consuming' \in 0..HandledStreams
  BY <1>1, <1>2 DEF C!ConstantsOK
<1>14. published' \in BOOLEAN
  BY <1>2 DEF ContainerInv
<1>15. linked' \subseteq Elements(components')
  BY <1>1, <1>2
<1>16. QED
  BY <1>2, <1>11, <1>12, <1>13, <1>14, <1>15 DEF ContainerInv, Phases

\* No step of the container breaks ContainerInv.
LEMMA ContainerStep == C!ConstantsOK /\ ContainerInv /\ [C!Next]_(C!vars) => ContainerInv'
<1> SUFFICES ASSUME C!ConstantsOK, ContainerInv, [C!Next]_(C!vars) PROVE ContainerInv'
  OBVIOUS
<1>1. /\ components \in Seq(C!Parts) /\ Once(components)
      /\ consuming \in 0..HandledStreams /\ published \in BOOLEAN
      /\ linked \subseteq Elements(components) /\ HandledStreams \in Nat
  BY DEF ContainerInv, Made, C!ConstantsOK
<1>2. CASE C!Abort /\ phase \in {"bus", "services", "consuming"}
  BY <1>2 DEF C!Abort, ContainerInv, Made, AskedInOrder, Phases
<1>3. CASE C!StartBus
  <2>1. CASE C!Abort /\ phase = "bus"
    BY <1>2, <2>1
  <2>2. CASE /\ phase = "bus" /\ phase' = "broker" /\ components' = Append(components, "bus")
             /\ linked' = linked \cup {"bus"} /\ UNCHANGED <<consuming, asked, published>>
    <3>1. components = <<>> /\ components' = <<"bus">> /\ asked' = <<>>
      BY <2>2 DEF ContainerInv, Made, AskedInOrder
    <3>2. Made'
      BY <2>2, <3>1 DEF Made, Once, C!Parts
    <3>3. AskedInOrder'
      BY <2>2, <3>1 DEF AskedInOrder
    <3>4. linked' \subseteq Elements(components')
      BY <1>1, <2>2, <3>1 DEF Elements
    <3>5. QED
      BY <1>1, <2>2, <3>2, <3>3, <3>4 DEF ContainerInv, Phases
  <2>3. QED
    BY <1>3, <2>1, <2>2 DEF C!StartBus
<1>4. ASSUME NEW succeeds \in BOOLEAN, C!StartBroker(succeeds) PROVE ContainerInv'
  <2>1. /\ phase = "broker" /\ phase' = "services" /\ UNCHANGED <<consuming, asked, published>>
        /\ components = <<"bus">> /\ asked = <<>>
        /\ components' = (IF succeeds THEN <<"bus", "broker">> ELSE <<"bus">>)
        /\ linked' = IF succeeds THEN linked \cup {"broker"} ELSE linked
    <3>1. phase = "broker" /\ phase' = "services" /\ UNCHANGED <<consuming, asked, published>>
          /\ components' = (IF succeeds THEN Append(components, "broker") ELSE components)
          /\ linked' = IF succeeds THEN linked \cup {"broker"} ELSE linked
      BY <1>4 DEF C!StartBroker, C!Connected
    <3>2. components = <<"bus">> /\ asked = <<>>
      BY <3>1 DEF ContainerInv, Made, AskedInOrder
    <3>3. Append(<<"bus">>, "broker") = <<"bus", "broker">>
      <4> DEFINE q == <<"bus">>
                 k == Append(q, "broker")
      <4>1. q \in Seq({"bus", "broker"}) /\ Len(q) = 1 /\ q[1] = "bus" /\ 1 \in 1..1
        OBVIOUS
      <4> HIDE DEF q
      <4>2. k \in Seq({"bus", "broker"}) /\ Len(k) = 2 /\ k[1] = "bus" /\ k[2] = "broker"
        <5>1. /\ k \in Seq({"bus", "broker"}) /\ Len(k) = Len(q) + 1
              /\ (\A i \in 1..Len(q) : k[i] = q[i]) /\ k[Len(q) + 1] = "broker"
          <6> DEFINE Val == {"bus", "broker"}
          <6>1. q \in Seq(Val) /\ "broker" \in Val
            BY <4>1
          <6> HIDE DEF Val
          <6>2. /\ k \in Seq(Val) /\ Len(k) = Len(q) + 1
                /\ (\A i \in 1..Len(q) : k[i] = q[i]) /\ k[Len(q) + 1] = "broker"
            BY <6>1, Appended
          <6>3. QED
            BY <6>2 DEF Val
        <5> HIDE DEF k
        <5>2. QED
          BY <4>1, <5>1
      <4> HIDE DEF k
      <4>3. k = <<"bus", "broker">>
        BY <4>2
      <4>4. QED
        BY <4>3 DEF k, q
    <3>4. QED
      BY <3>1, <3>2, <3>3
  <2>2. Made'
    <3>1. CASE succeeds
      <4>1. components' = <<"bus", "broker">>
        BY <2>1, <3>1
      <4>2. components' \in Seq(C!Parts) /\ Once(components')
        BY <4>1 DEF Once, C!Parts
      <4>3. QED
        BY <2>1, <4>1, <4>2 DEF Made
    <3>2. CASE ~succeeds
      <4>1. components' = <<"bus">>
        BY <2>1, <3>2
      <4>2. components' \in Seq(C!Parts) /\ Once(components')
        BY <4>1 DEF Once, C!Parts
      <4>3. QED
        BY <2>1, <4>1, <4>2 DEF Made
    <3>3. QED
      BY <3>1, <3>2
  <2>3. AskedInOrder'
    BY <2>1 DEF AskedInOrder
  <2>4. linked' \subseteq Elements(components')
    <3>1. linked \subseteq {"bus"}
      BY <1>1, <2>1 DEF Elements
    <3>2. CASE succeeds
      <4>1. components'[1] = "bus" /\ components'[2] = "broker" /\ 1 \in 1..Len(components')
            /\ 2 \in 1..Len(components')
        BY <2>1, <3>2
      <4>2. QED
        BY <2>1, <3>1, <3>2, <4>1 DEF Elements
    <3>3. CASE ~succeeds
      BY <1>1, <2>1, <3>3
    <3>4. QED
      BY <3>2, <3>3
  <2>5. QED
    BY <1>1, <2>1, <2>2, <2>3, <2>4 DEF ContainerInv, Phases
<1>5. ASSUME NEW made \in SUBSET C!Optional, C!StartServices(made) PROVE ContainerInv'
  <2>1. CASE C!Abort /\ phase = "services"
    BY <1>2, <2>1
  <2>2. CASE /\ phase = "services" /\ phase' = "consuming"
             /\ components' = components \o C!Kept(<<"indicator", "ml", "notification">>, made)
             /\ UNCHANGED <<consuming, linked, asked, published>>
    <3>1. (components = <<"bus">> \/ components = <<"bus", "broker">>) /\ asked = <<>>
      BY <2>2 DEF ContainerInv, Made, AskedInOrder
    <3>2. /\ components' \in Seq(C!Parts) /\ Once(components')
          /\ Elements(components) \subseteq Elements(components')
          /\ components' # <<>> /\ components'[1] = "bus"
      <4> DEFINE q == components
                 k == q \o C!Kept(<<"indicator", "ml", "notification">>, made)
      <4>1. (q = <<"bus">> \/ q = <<"bus", "broker">>) /\ components' = k
        BY <2>2, <3>1
      <4> HIDE DEF q
      <4>2. k \in Seq(C!Parts) /\ Once(k) /\ Elements(q) \subseteq Elements(k) /\ k # <<>> /\ k[1] = "bus"
        BY <4>1, ServicesMade
      <4> HIDE DEF k
      <4>3. QED
        BY <4>1, <4>2 DEF q
    <3>3. Made'
      BY <2>2, <3>2 DEF Made
    <3>4. AskedInOrder'
      BY <2>2, <3>1, <3>2 DEF AskedInOrder
    <3>5. linked' \subseteq Elements(components')
      BY <1>1, <2>2, <3>2
    <3>6. QED
      BY <1>1, <2>2, <3>3, <3>4, <3>5 DEF ContainerInv, Phases
  <2>3. QED
    BY <1>5, <2>1, <2>2 DEF C!StartServices
<1>6. CASE C!Consume
  <2>1. CASE C!Abort /\ phase = "consuming"
    BY <1>2, <2>1
  <2>2. CASE /\ phase = "consuming" /\ consuming < HandledStreams /\ consuming' = consuming + 1
             /\ UNCHANGED <<phase, components, linked, asked, published>>
    <3>1. consuming' \in 0..HandledStreams
      BY <1>1, <2>2
    <3>2. asked = <<>>
      BY <2>2 DEF ContainerInv, AskedInOrder
    <3>3. AskedInOrder'
      BY <2>2, <3>2 DEF ContainerInv, AskedInOrder
    <3>4. QED
      BY <1>1, <2>2, <3>1, <3>3 DEF ContainerInv, Made
  <2>3. QED
    BY <1>6, <2>1, <2>2 DEF C!Consume
<1>7. CASE C!Started
  BY <1>1, <1>7 DEF C!Started, ContainerInv, Made, AskedInOrder, Phases
<1>8. CASE C!Shutdown
  <2>1. /\ phase \in {"running", "without"} /\ phase' \in {"stopping", "ended"}
        /\ phase' = (IF published THEN "stopping" ELSE "ended")
        /\ UNCHANGED <<components, consuming, linked, asked, published>>
    BY <1>8 DEF C!Shutdown
  <2>2. asked = <<>>
    BY <2>1 DEF ContainerInv, AskedInOrder
  <2>3. AskedInOrder'
    BY <2>1, <2>2 DEF ContainerInv, AskedInOrder
  <2>4. QED
    BY <1>1, <2>1, <2>3 DEF ContainerInv, Made, Phases
<1>9. ASSUME NEW fails \in BOOLEAN, C!StopNext(fails) PROVE ContainerInv'
  BY <1>9, StopNextKeeps
<1>10. CASE C!Stopped
  <2>1. /\ phase = "stopping" /\ C!Left = <<>> /\ phase' = "ended" /\ published' = FALSE
        /\ UNCHANGED <<components, consuming, linked, asked>>
    BY <1>10 DEF C!Stopped
  <2>2. /\ Len(components) \in Nat /\ Len(asked) \in Nat /\ Len(asked) <= Len(components)
    BY <1>1 DEF ContainerInv, AskedInOrder
  <2>3. Len(asked) = Len(components)
    <3> DEFINE left == SubSeq(components, 1, Len(components) - Len(asked))
    <3>1. Len(left) = Len(components) - Len(asked)
      BY <1>1, <2>2
    <3>2. left = <<>>
      BY <2>1 DEF C!Left
    <3> HIDE DEF left
    <3>3. QED
      BY <2>2, <3>1, <3>2
  <2>4. AskedInOrder'
    BY <2>1, <2>3 DEF ContainerInv, AskedInOrder
  <2>5. Made'
    BY <2>1 DEF ContainerInv, Made
  <2>6. published' \in BOOLEAN /\ ~published' /\ phase' \in Phases
    BY <2>1, Zenon DEF Phases
  <2>7. QED
    BY <1>1, <2>1, <2>4, <2>5, <2>6 DEF ContainerInv
<1>11. CASE UNCHANGED C!vars
  BY <1>11 DEF C!vars, ContainerInv, Made, AskedInOrder, Phases
<1>12. QED
  BY <1>3, <1>4, <1>5, <1>6, <1>7, <1>8, <1>9, <1>10, <1>11 DEF C!Next

-----------------------------------------------------------------------------
(* The services together.                                                    *)

\* The services that do not run keep their invariants because they keep
\* their state.
ServicesInv ==
    /\ StrategyInv /\ AlertsInv /\ TicksInv /\ TradesInv /\ BarsInv /\ I!TypeOK
    /\ PoolInv /\ ContainerInv /\ W!TypeOK

\* Every service begins in its invariant.
LEMMA ServicesBegin == Init => ServicesInv
<1> SUFFICES ASSUME Init PROVE ServicesInv
  OBVIOUS
<1>1. /\ S!ConstantsOK /\ N!ConstantsOK /\ T!ConstantsOK /\ R!ConstantsOK /\ B!ConstantsOK
      /\ I!ConstantsOK /\ P!ConstantsOK /\ C!ConstantsOK /\ W!ConstantsOK
  BY ServicesAssumption
<1>2. /\ S!Init /\ N!Init /\ T!Init /\ R!Init /\ B!Init /\ I!Init /\ P!Init /\ C!Init /\ W!Init
  BY DEF Init
<1>3. StrategyInv /\ AlertsInv /\ TicksInv
  BY <1>1, <1>2, StrategyInit, AlertsInit, TicksInit
<1>4. TradesInv /\ BarsInv /\ I!TypeOK
  BY <1>1, <1>2, TradesInit, BarsInit, IndicatorsInit
<1>5. PoolInv /\ ContainerInv /\ W!TypeOK
  BY <1>1, <1>2, PoolInit, ContainerInit, SessionsInit
<1>6. QED
  BY <1>3, <1>4, <1>5 DEF ServicesInv

\* A step of the whole is one of each service, or leaves it as it is.
LEMMA EveryServiceSteps ==
    ASSUME [Next]_vars
    PROVE  /\ [S!Next]_(S!vars) /\ [N!Next]_(N!vars) /\ [T!Next]_(T!vars) /\ [R!Next]_(R!vars)
           /\ [B!Next]_(B!vars) /\ [I!Next]_(I!vars) /\ [P!Next]_(P!vars) /\ [C!Next]_(C!vars)
           /\ [W!Next]_(W!vars)
<1>1. /\ S!Next \/ UNCHANGED strategyVars
      /\ N!Next \/ UNCHANGED alertVars
      /\ T!Next \/ UNCHANGED tickVars
      /\ R!Next \/ UNCHANGED tradeVars
      /\ B!Next \/ UNCHANGED barVars
      /\ I!Next \/ UNCHANGED indicatorVars
      /\ P!Next \/ UNCHANGED poolVars
      /\ C!Next \/ UNCHANGED containerVars
      /\ W!Next \/ UNCHANGED sessionVars
  BY DEF Next, vars
<1>2. UNCHANGED strategyVars => UNCHANGED S!vars
  BY DEF strategyVars, S!vars
<1>3. UNCHANGED alertVars => UNCHANGED N!vars
  BY DEF alertVars, N!vars
<1>4. UNCHANGED tickVars => UNCHANGED T!vars
  BY DEF tickVars, T!vars
<1>5. UNCHANGED tradeVars => UNCHANGED R!vars
  BY DEF tradeVars, R!vars
<1>6. UNCHANGED barVars => UNCHANGED B!vars
  BY DEF barVars, B!vars
<1>7. UNCHANGED indicatorVars => UNCHANGED I!vars
  BY DEF indicatorVars, I!vars
<1>8. UNCHANGED poolVars => UNCHANGED P!vars
  BY DEF poolVars, P!vars
<1>9. UNCHANGED containerVars => UNCHANGED C!vars
  BY DEF containerVars, C!vars
<1>10. UNCHANGED sessionVars => UNCHANGED W!vars
  BY DEF sessionVars, W!vars
<1>11. QED
  BY <1>1, <1>2, <1>3, <1>4, <1>5, <1>6, <1>7, <1>8, <1>9, <1>10

\* So every service stays in its invariant.
LEMMA ServicesGoOn == ServicesInv /\ [Next]_vars => ServicesInv'
<1> SUFFICES ASSUME ServicesInv, [Next]_vars PROVE ServicesInv'
  OBVIOUS
<1>1. /\ S!ConstantsOK /\ N!ConstantsOK /\ T!ConstantsOK /\ R!ConstantsOK /\ B!ConstantsOK
      /\ I!ConstantsOK /\ P!ConstantsOK /\ C!ConstantsOK /\ W!ConstantsOK
  BY ServicesAssumption
<1>2. StrategyInv /\ AlertsInv /\ TicksInv /\ TradesInv /\ BarsInv /\ I!TypeOK
      /\ PoolInv /\ ContainerInv /\ W!TypeOK
  BY DEF ServicesInv
<1>3. StrategyInv' /\ AlertsInv' /\ TicksInv'
  BY <1>1, <1>2, EveryServiceSteps, StrategyStep, AlertsStep, TicksStep
<1>4. TradesInv' /\ BarsInv' /\ I!TypeOK'
  BY <1>1, <1>2, EveryServiceSteps, TradesStep, BarsStep, IndicatorsStep
<1>5. PoolInv' /\ ContainerInv' /\ W!TypeOK'
  BY <1>1, <1>2, EveryServiceSteps, PoolStep, ContainerStep, SessionsStep
<1>6. QED
  BY <1>3, <1>4, <1>5 DEF ServicesInv

\* ServicesInv is an inductive invariant of the services.
LEMMA ServicesHold == Spec => []ServicesInv
  BY ServicesBegin, ServicesGoOn, PTL DEF Spec

\* Every variable of every service stays in its domain; every strategy is
\* listed once under each of its symbols, and the WebSocket gauge counts the
\* sessions that are counted and have not been given up.
THEOREM ServicesTyped == Spec => []TypeOK
<1>1. ServicesInv => TypeOK
  <2> SUFFICES ASSUME ServicesInv PROVE TypeOK
    OBVIOUS
  <2>1. N!ConstantsOK
    BY ServicesAssumption
  <2>2. S!TypeOK /\ N!TypeOK /\ T!TypeOK
    BY <2>1, StrategyTyped, AlertsTyped, TicksMean DEF ServicesInv
  <2>3. R!TypeOK /\ B!TypeOK /\ I!TypeOK
    BY DEF ServicesInv, TradesInv, BarsInv
  <2>4. P!TypeOK /\ C!TypeOK /\ W!TypeOK
    BY ContainerTyped DEF ServicesInv, PoolInv
  <2>5. QED
    BY <2>2, <2>3, <2>4 DEF TypeOK
<1>2. QED
  BY <1>1, ServicesHold, PTL

\* What was last told of a strategy is where the strategy believes it is,
\* unless a signal is under way, was lost, or the tracker was reset
\* (strategy_engine/service.py:291-296, 577-596).
THEOREM ToldIsWhatIsTracked == Spec => []ToldIsTracked
<1>1. ServicesInv => ToldIsTracked
  BY StrategyTyped DEF ServicesInv, ToldIsTracked
<1>2. QED
  BY <1>1, ServicesHold, PTL

\* A stream gets every tick of its symbol from its first one, in order,
\* whatever streams are opened and closed while the poller walks over the
\* handlers; a stream of trades gets them in order, and misses one only if
\* its connection was lost (market_data/service.py:204-218, 391-430).
THEOREM StreamsHaveNoGaps == Spec => []NoGaps
<1>1. ServicesInv => NoGaps
  BY TicksMean, TradesOrdered DEF ServicesInv, NoGaps
<1>2. QED
  BY <1>1, ServicesHold, PTL

\* The cached bars are consecutive unless a fetch and a refresh overlapped
\* (market_data/service.py:565, 591-594).
THEOREM CacheStaysInOrder == Spec => []CacheInOrder
<1>1. ServicesInv => CacheInOrder
  BY DEF ServicesInv, BarsInv, CacheInOrder
<1>2. QED
  BY <1>1, ServicesHold, PTL

\* No pool is left open unless two calls of get_pool or close overlapped
\* (infrastructure/repositories/db_repositories.py:31-40, 54-56).
THEOREM PoolsAreNotLeaked == Spec => []NoLeakWithoutOverlap
<1>1. ServicesInv => NoLeakWithoutOverlap
  BY DEF ServicesInv, PoolInv, NoLeakWithoutOverlap
<1>2. QED
  BY <1>1, ServicesHold, PTL

\* When a container has stopped, every component it made was asked to stop,
\* in the reverse of the order they were made in, and no loop consumes
\* (infrastructure/container.py:387-398).
THEOREM ContainerStopsAll == Spec => []StopReachesAll
<1>1. ServicesInv => StopReachesAll
  BY ContainerTyped DEF ServicesInv, StopReachesAll
<1>2. QED
  BY <1>1, ServicesHold, PTL

\* An indicator that a computation puts into the cache survives the eviction
\* at its end (indicator_engine/service.py:390-394).
THEOREM NewIndicatorsSurvive == Spec => FreshIndicatorsSurvive
<1>1. ServicesInv /\ [Next]_vars
      => [\A p \in Pairs : I!ComputeAll(p) =>
            \A n \in 1..Names : ~I!Contains(indicators, <<p, n>>)
                                => I!Contains(indicators', <<p, n>>)]_(I!vars)
  <2>1. I!ConstantsOK
    BY ServicesAssumption
  <2>2. QED
    BY <2>1, FreshSurvive DEF ServicesInv
<1>2. QED
  BY <1>1, ServicesHold, PTL DEF Spec, FreshIndicatorsSurvive, I!FreshIndicatorsSurvive

=============================================================================
