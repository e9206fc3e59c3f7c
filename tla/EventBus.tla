------------------------------ MODULE EventBus ------------------------------
(***************************************************************************)
(* RedisEventBus (infrastructure/event_bus/redis_event_bus.py): one stream *)
(* of it, the consumer loops that read it and what Redis keeps for them.   *)
(*                                                                         *)
(* docker/Dockerfile runs the container in one process of trading-core and *)
(* four of the API, all with the consumer group "trading-core" and the     *)
(* consumer name "trading-core-1" (container.py:88-89): their loops read   *)
(* the stream in competition and share one list of pending entries.        *)
(*                                                                         *)
(* An entry is its position in the stream.  A batch is a run of positions. *)
(***************************************************************************)
EXTENDS Naturals, FiniteSets

CONSTANTS
    Processes,          \* the processes that run a container
    MaxEntries,         \* bound on the entries published
    BatchSize,          \* XREADGROUP COUNT
    MaxLen,             \* stream_max_len
    MaxRetryAttempts    \* MAX_RETRY_ATTEMPTS

ASSUME BoundsAssumption ==
    /\ MaxEntries \in Nat /\ MaxLen \in Nat
    /\ BatchSize \in Nat \ {0} /\ MaxRetryAttempts \in Nat \ {0}

VARIABLES
    published,  \* number of entries XADDed so far
    trimmed,    \* entries up to this one have been trimmed away
    created,    \* the consumer group exists
    cursor,     \* its last-delivered id
    pending,    \* its pending entries list: delivered, not acknowledged
    dlq,        \* entries copied to stream:dlq
    loop,       \* the consumer loop of each process
    \* History, for the properties.
    born,       \* entries published before the group was created
    delivered,  \* entries Redis has delivered to some consumer
    runs,       \* how often the handlers have been run on each entry
    seen        \* the last entry each process has run its handlers on

redis == <<published, trimmed, created, cursor, pending, dlq>>
history == <<born, delivered, runs, seen>>
vars == <<redis, loop, history>>

Entries == 1..MaxEntries

\* "reading": blocked in XREADGROUP.  "sleeping": after an error.  "handling":
\* in the gather over the handlers of entry first.  "acking": in its XACK.
\* "dispatching": about to dispatch entry first of the batch first..last.
Down == [pc |-> "down"]
Reading == [pc |-> "reading"]
Sleeping == [pc |-> "sleeping"]
Busy(pc, first, last) == [pc |-> pc, first |-> first, last |-> last]
BusyLoops == [pc : {"dispatching", "handling", "acking"}, first : Entries, last : Entries]

Working(p) == loop[p] \in BusyLoops

Init ==
    /\ published = 0 /\ trimmed = 0
    /\ created = FALSE /\ cursor = 0
    /\ pending = {} /\ dlq = {}
    /\ loop = [p \in Processes |-> Down]
    /\ born = 0 /\ delivered = {}
    /\ runs = [e \in Entries |-> 0]
    /\ seen = [p \in Processes |-> 0]
-----------------------------------------------------------------------------
\* Mutant of TrimTo: XTRIM counts the length before the entry is added.
TrimToOneMore(length) == trimmed..(IF length + 1 > MaxLen THEN length + 1 - MaxLen ELSE 0)

\* XADD MAXLEN ~: Redis drops entries in excess of MaxLen, or some, or none.
TrimTo(length) == trimmed..(IF length > MaxLen THEN length - MaxLen ELSE 0)

\* publish, or one event of publish_many.  Where the answer is lost the entry
\* may have been appended all the same; no caller publishes it again.
Publish ==
    /\ published < MaxEntries
    /\ published' = published + 1
    /\ trimmed' \in TrimTo(published + 1) \cup {trimmed}
    /\ UNCHANGED <<created, cursor, pending, dlq, loop, history>>

\* Mutant of GroupStart: id="0".
GroupStartFromHistory == 0

\* _ensure_consumer_group: id="$".
GroupStart == published

\* start and start_consuming: the group is created unless it exists.
Start(p) ==
    /\ loop[p] = Down
    /\ loop' = [loop EXCEPT ![p] = Reading]
    /\ created' = TRUE
    /\ IF created
       THEN UNCHANGED <<cursor, born>>
       ELSE cursor' = GroupStart /\ born' = published
    /\ UNCHANGED <<published, trimmed, pending, dlq, delivered, runs, seen>>

\* Mutant of FirstUnread: the loop starts over from the stream's first entry.
FirstUnreadOfAll == trimmed + 1

\* Mutant of FirstUnread: the loop reads from one past the next entry.
FirstUnreadOffByOne == (IF trimmed > cursor THEN trimmed ELSE cursor) + 2

\* What XREADGROUP ">" delivers: entries beyond the cursor and not trimmed.
FirstUnread == (IF trimmed > cursor THEN trimmed ELSE cursor) + 1

\* Mutant of LastServed: always a full batch.
LastServedFullBatch == FirstUnread + BatchSize - 1

LastServed ==
    IF FirstUnread + BatchSize - 1 < published THEN FirstUnread + BatchSize - 1 ELSE published

\* Redis serves the XREADGROUP of p.
Serve(p) ==
    /\ loop[p] = Reading
    /\ FirstUnread <= published
    /\ cursor' = LastServed
    /\ pending' = pending \cup (FirstUnread..LastServed)
    /\ delivered' = delivered \cup (FirstUnread..LastServed)
    /\ UNCHANGED <<published, trimmed, created, dlq, born, runs, seen>>

Read(p) ==
    /\ Serve(p)
    /\ loop' = [loop EXCEPT ![p] = Busy("dispatching", FirstUnread, LastServed)]

\* The socket times out, or breaks, when Redis has served the call.
ReadReplyLost(p) ==
    /\ Serve(p)
    /\ loop' = [loop EXCEPT ![p] = Sleeping]

\* The same with nothing served: block=0 waits for ever, socket_timeout does not.
ReadFails(p) ==
    /\ loop[p] = Reading
    /\ loop' = [loop EXCEPT ![p] = Sleeping]
    /\ UNCHANGED <<redis, history>>

Wake(p) ==
    /\ loop[p] = Sleeping
    /\ loop' = [loop EXCEPT ![p] = Reading]
    /\ UNCHANGED <<redis, history>>

\* _dispatch starts the handlers of the next entry of the batch.
Dispatch(p) ==
    /\ Working(p) /\ loop[p].pc = "dispatching"
    /\ loop' = [loop EXCEPT ![p].pc = "handling"]
    /\ runs' = [runs EXCEPT ![loop[p].first] = @ + 1]
    /\ seen' = [seen EXCEPT ![p] = loop[p].first]
    /\ UNCHANGED <<redis, born, delivered>>

\* The _retry_count field of an entry: nobody writes it.
RetryCount(e) == 0

\* The handlers have ended, some of them perhaps by an exception.
HandlersEnd(p, anyFailed) ==
    /\ Working(p) /\ loop[p].pc = "handling"
    /\ loop' = [loop EXCEPT ![p].pc = "acking"]
    /\ dlq' = IF anyFailed /\ RetryCount(loop[p].first) >= MaxRetryAttempts
              THEN dlq \cup {loop[p].first} ELSE dlq
    /\ UNCHANGED <<published, trimmed, created, cursor, pending, born, delivered, runs, seen>>

\* Mutant of AfterEntry: the last entry of a batch is taken for its end.
AfterEntryStopsEarly(first, last) ==
    IF first + 1 < last THEN Busy("dispatching", first + 1, last) ELSE Reading

\* On to the next entry of the batch, or to the next batch.
AfterEntry(first, last) ==
    IF first < last THEN Busy("dispatching", first + 1, last) ELSE Reading

\* Mutant of Acknowledged: the whole batch is acknowledged with its first entry.
AcknowledgedBatch(first, last) == first..last

\* What the XACK takes off the pending entries list.
Acknowledged(first, last) == {first}

Ack(p) ==
    /\ Working(p) /\ loop[p].pc = "acking"
    /\ pending' = pending \ Acknowledged(loop[p].first, loop[p].last)
    /\ loop' = [loop EXCEPT ![p] = AfterEntry(loop[p].first, loop[p].last)]
    /\ UNCHANGED <<published, trimmed, created, cursor, dlq, history>>

\* XACK raises: the entry is left pending, and the loop goes on.
AckFails(p) ==
    /\ Working(p) /\ loop[p].pc = "acking"
    /\ loop' = [loop EXCEPT ![p] = AfterEntry(loop[p].first, loop[p].last)]
    /\ UNCHANGED <<redis, history>>

\* stop cancels the loop wherever it is; a crash does the same.
Stop(p) ==
    /\ loop[p] # Down
    /\ loop' = [loop EXCEPT ![p] = Down]
    /\ UNCHANGED <<redis, history>>

Next ==
    \/ Publish
    \/ \E p \in Processes :
          \/ Start(p) \/ Stop(p)
          \/ Read(p) \/ ReadReplyLost(p) \/ ReadFails(p) \/ Wake(p)
          \/ Dispatch(p) \/ Ack(p) \/ AckFails(p)
          \/ \E anyFailed \in BOOLEAN : HandlersEnd(p, anyFailed)

\* Handlers and sleeps end; a loop that keeps asking is answered in the end.
Fairness(p) ==
    /\ WF_vars(Wake(p)) /\ WF_vars(Dispatch(p))
    /\ WF_vars(\E anyFailed \in BOOLEAN : HandlersEnd(p, anyFailed))
    /\ WF_vars(Ack(p) \/ AckFails(p))
    /\ SF_vars(Read(p))

Spec == Init /\ [][Next]_vars

FairSpec == Spec /\ \A p \in Processes : Fairness(p)
-----------------------------------------------------------------------------
(***************************************************************************)
(* Properties.                                                             *)
(***************************************************************************)

\* Every variable stays in its domain; what is trimmed or delivered has been
\* published, and a batch has been delivered.
TypeOK ==
    /\ published \in 0..MaxEntries /\ trimmed \in 0..published
    /\ created \in BOOLEAN /\ cursor \in 0..published /\ born \in 0..published
    /\ pending \subseteq delivered /\ delivered \subseteq 1..cursor
    /\ dlq \subseteq Entries
    /\ loop \in [Processes -> BusyLoops \cup {Down, Reading, Sleeping}]
    /\ \A p \in Processes : Working(p) => loop[p].first <= loop[p].last /\ loop[p].last <= cursor
    /\ runs \in [Entries -> Nat]
    /\ seen \in [Processes -> 0..MaxEntries]

\* The bus is an at-most-once channel, in order within a process: whatever
\* stops, restarts, times out or competes, the handlers are run once on an
\* entry at most (redis_event_bus.py:16, "XACK prevents duplicate processing").
Delivery == INSTANCE AtMostOnceDelivery WITH accepted <- published
ImplementsAtMostOnce == Delivery!Spec

\* Whoever starts first, or again, no entry older than the group is ever
\* handled (redis_event_bus.py:5-6, BUG-07).
NoHistoryReplay == \A e \in Entries : runs[e] > 0 => e > born

\* An entry leaves the pending list only when its handlers have run; one a
\* dying or timed-out loop had been given stays there (redis_event_bus.py:325-333).
AcknowledgedAfterRun == \A e \in delivered \ pending : runs[e] = 1

\* A loop skips entries only if more than MaxLen have piled up behind it.
SkipsOnlyWhenBehind ==
    [][\A e \in Entries :
          created /\ cursor < e /\ e <= cursor' /\ e \notin delivered'
          => published - cursor > MaxLen]_vars

\* As long as one process stays up, every entry is read in the end, by it or by
\* another, unless trimmed; what was published while all were down included.
EveryEntryRead ==
    \A p \in Processes :
        <>[](loop[p] # Down)
        => \A e \in Entries : (created /\ e <= published) ~> (e <= cursor \/ e <= trimmed)

\* A loop that has read an entry runs the handlers on it, whatever handlers
\* raise and acknowledgements fail before it in the batch, unless it is stopped
\* (redis_event_bus.py:253-255).
ReadEntriesHandled ==
    \A p \in Processes, e \in Entries :
        Working(p) /\ e \in loop[p].first..loop[p].last ~> runs[e] > 0 \/ loop[p] = Down
-----------------------------------------------------------------------------
(* The inductive invariant behind them.                                      *)

\* The group exists before anybody reads; it starts where the stream ended.
GroupFirst ==
    /\ ~created => delivered = {} /\ \A p \in Processes : loop[p] = Down
    /\ created => born <= cursor
    /\ \A e \in delivered : e > born

\* Handlers run once, on delivered entries, and no entry is acknowledged first.
RunsAccounted ==
    /\ \A e \in Entries : runs[e] = 0 \/ (runs[e] = 1 /\ e \in delivered)
    /\ AcknowledgedAfterRun
    /\ \A p \in Processes : seen[p] <= cursor

\* The part of a batch still to be dispatched is nobody else's, pending, not
\* yet run, and newer than what its process has seen.
ToDispatch(p) ==
    IF loop[p].pc = "dispatching" THEN loop[p].first..loop[p].last
    ELSE (loop[p].first + 1)..loop[p].last

BatchesUntouched ==
    \A p \in Processes : Working(p) =>
        /\ \A e \in ToDispatch(p) : e \in delivered /\ e \in pending /\ runs[e] = 0 /\ seen[p] < e
        /\ loop[p].pc # "dispatching" => runs[loop[p].first] = 1
        /\ \A q \in Processes \ {p} : Working(q) =>
              \A e \in loop[p].first..loop[p].last : e \notin loop[q].first..loop[q].last

IInv == TypeOK /\ GroupFirst /\ RunsAccounted /\ BatchesUntouched

=============================================================================
