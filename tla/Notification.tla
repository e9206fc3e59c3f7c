---------------------------- MODULE Notification ----------------------------
(***************************************************************************)
(* NotificationService of notification/service.py with its channels: the   *)
(* bounded queue, the worker, the token bucket of Telegram and the circuit *)
(* breaker of each channel.                                                *)
(*                                                                         *)
(* A worker sends an alert to all channels of its level at once and waits  *)
(* for all of them.  Telegram and the webhook answer within a timeout of   *)
(* ten seconds; smtplib.SMTP_SSL is called without one.  start does not    *)
(* ask whether a worker runs already, and stop knows only the last one.    *)
(***************************************************************************)
EXTENDS Naturals, Sequences, FiniteSets

CONSTANTS
    Workers,     \* tasks that start may create
    Levels,      \* levels of the alerts raised
    Configured,  \* channels with their settings
    QueueSize,   \* maxsize of the queue
    Threshold,   \* ChannelCircuitBreaker.threshold
    Capacity,    \* capacity of the token bucket
    MaxAlerts    \* bound: alerts raised

VARIABLES
    channels,    \* _channels: those registered
    queue,       \* _queue: alerts with their number
    workers,     \* running tasks
    started,     \* every task ever created
    current,     \* _worker_task: {} or the last task created
    sends,       \* what each task is doing at each channel
    tokens,      \* whole tokens in the bucket
    failures,    \* ChannelCircuitBreaker.failures
    backoff,     \* channels whose backoff_until is still to come
    raised,      \* number of alerts raised
    streak       \* for the properties only: failures of each channel in a row

vars == <<channels, queue, workers, started, current, sends, tokens, failures, backoff, raised, streak>>

Channels == {"telegram", "email", "webhook"}

ROUTING ==
    [DEBUG |-> {}, INFO |-> {"webhook"}, WARNING |-> {"telegram", "webhook"},
     ERROR |-> Channels, CRITICAL |-> Channels]

ConstantsOK ==
    /\ IsFiniteSet(Workers)
    /\ Levels \subseteq DOMAIN ROUTING /\ Configured \subseteq Channels
    /\ {QueueSize, Threshold, Capacity} \subseteq Nat \ {0}
    /\ MaxAlerts \in Nat

Idle == [c \in Channels |-> "none"]
-----------------------------------------------------------------------------
Init ==
    /\ channels = {}
    /\ queue = <<>>
    /\ workers = {} /\ started = {} /\ current = {}
    /\ sends = [w \in Workers |-> Idle]
    /\ tokens = Capacity
    /\ failures = [c \in Channels |-> 0]
    /\ backoff = {}
    /\ raised = 0
    /\ streak = [c \in Channels |-> 0]

RegisterChannel(c) ==
    /\ c \notin channels
    /\ channels' = channels \cup {c}
    /\ UNCHANGED <<queue, workers, started, current, sends, tokens, failures, backoff, raised, streak>>

\* start: one more task, and the handle of the last one is overwritten.
Start(w) ==
    /\ w \notin started
    /\ started' = started \cup {w}
    /\ workers' = workers \cup {w}
    /\ current' = {w}
    /\ UNCHANGED <<channels, queue, sends, tokens, failures, backoff, raised, streak>>

\* stop cancels the task it knows, with the alert it is sending.
Stop ==
    /\ current \cap workers # {}
    /\ workers' = workers \ current
    /\ sends' = [w \in Workers |-> IF w \in current THEN Idle ELSE sends[w]]
    /\ UNCHANGED <<channels, queue, started, current, tokens, failures, backoff, raised, streak>>

\* alert: put_nowait; an alert that finds the queue full is dropped.
Alert(level) ==
    /\ raised < MaxAlerts
    /\ raised' = raised + 1
    /\ queue' = IF Len(queue) < QueueSize
                THEN Append(queue, [number |-> raised + 1, level |-> level]) ELSE queue
    /\ UNCHANGED <<channels, workers, started, current, sends, tokens, failures, backoff, streak>>
-----------------------------------------------------------------------------
\* is_open, before it forgets the failures of a channel that is not backing off.
Open(c) == c \in backoff /\ failures[c] >= Threshold

\* is_open forgets the failures unless the channel is backing off.
FailuresSeen(targets) ==
    [c \in Channels |-> IF c \in targets /\ c \notin backoff THEN 0 ELSE failures[c]]

\* The worker takes the next alert and calls send of every channel of its
\* level.  A channel that is open or not configured returns at once.
Take(w) ==
    LET targets == ROUTING[Head(queue).level] \cap channels
    IN  /\ w \in workers /\ sends[w] = Idle /\ queue # <<>>
        /\ queue' = Tail(queue)
        /\ failures' = FailuresSeen(targets)
        /\ sends' = [sends EXCEPT ![w] =
                        [c \in Channels |->
                            IF c \notin targets \cap Configured \/ Open(c) THEN "none"
                            ELSE IF c = "telegram" THEN "limited" ELSE "posting"]]
        /\ UNCHANGED <<channels, workers, started, current, tokens, backoff, raised, streak>>

\* TokenBucket.acquire.
Acquire(w) ==
    /\ sends[w]["telegram"] = "limited"
    /\ tokens >= 1
    /\ tokens' = tokens - 1
    /\ sends' = [sends EXCEPT ![w]["telegram"] = "posting"]
    /\ UNCHANGED <<channels, queue, workers, started, current, failures, backoff, raised, streak>>

\* Mutant of Refill: the time of the last refill is set before it is read.
RefillNothing == tokens < Capacity /\ UNCHANGED vars

\* A fraction of a second later the bucket holds a token more.
Refill ==
    /\ tokens < Capacity
    /\ tokens' = tokens + 1
    /\ UNCHANGED <<channels, queue, workers, started, current, sends, failures, backoff, raised, streak>>

\* A send returns: record_success or record_failure.
Answer(w, c, delivered) ==
    /\ sends[w][c] = "posting"
    /\ sends' = [sends EXCEPT ![w][c] = "none"]
    /\ failures' = [failures EXCEPT ![c] = IF delivered THEN 0 ELSE @ + 1]
    /\ backoff' = IF failures'[c] >= Threshold THEN backoff \cup {c} ELSE backoff
    /\ streak' = [streak EXCEPT ![c] = IF delivered THEN 0 ELSE @ + 1]
    /\ UNCHANGED <<channels, queue, workers, started, current, tokens, raised>>

\* Sixty seconds have gone by.
BackoffOver(c) ==
    /\ c \in backoff
    /\ backoff' = backoff \ {c}
    /\ UNCHANGED <<channels, queue, workers, started, current, sends, tokens, failures, raised, streak>>

Next ==
    \/ \E c \in Channels : RegisterChannel(c) \/ BackoffOver(c)
    \/ \E level \in Levels : Alert(level)
    \/ Stop \/ Refill
    \/ \E w \in Workers :
          \/ Start(w) \/ Take(w) \/ Acquire(w)
          \/ \E c \in Channels, delivered \in BOOLEAN : Answer(w, c, delivered)

Spec == Init /\ [][Next]_vars

\* Tasks are scheduled, time fills the bucket, and requests with a timeout
\* return.  Nothing is known of the mail server.
Fairness ==
    /\ WF_vars(Refill)
    /\ \A w \in Workers :
          /\ WF_vars(Take(w))
          /\ SF_vars(Acquire(w))
          /\ \A c \in Channels \ {"email"} :
                WF_vars(\E delivered \in BOOLEAN : Answer(w, c, delivered))

FairSpec == Spec /\ Fairness
-----------------------------------------------------------------------------
(* Properties.                                                               *)

\* Every variable stays in its domain, what waits in the queue fits it and is
\* in the order of its alerts.
TypeOK ==
    /\ channels \subseteq Channels
    /\ queue \in Seq([number : 1..MaxAlerts, level : Levels])
    /\ Len(queue) <= QueueSize
    /\ \A i, j \in DOMAIN queue : i < j => queue[i].number < queue[j].number
    /\ workers \subseteq started /\ started \subseteq Workers /\ current \subseteq started
    /\ sends \in [Workers -> [Channels -> {"none", "limited", "posting"}]]
    /\ \A w \in Workers \ workers : sends[w] = Idle
    /\ tokens \in 0..Capacity
    /\ failures \in [Channels -> Nat] /\ streak \in [Channels -> Nat]
    /\ backoff \subseteq Channels
    /\ raised \in 0..MaxAlerts

\* The alerts accepted are all taken to their channels in the end, unless
\* every task there is waits for a mail server that may never answer: the
\* whole queue waits with it (notification/service.py:244, 400).
EveryAlertTaken ==
    queue # <<>> ~> queue = <<>> \/ \A w \in workers : sends[w]["email"] = "posting"

-----------------------------------------------------------------------------
(* What the repository says and the code does not do.                        *)

\* "If a channel fails 3 consecutive times, it backs off for 60 seconds"
\* (notification/service.py:21-22): from the failure on that makes them Threshold
\* in a row.
BacksOffAfterFailures ==
    [][\A c \in Channels :
          streak'[c] > streak[c] /\ streak'[c] >= Threshold => c \in backoff']_vars

=============================================================================
