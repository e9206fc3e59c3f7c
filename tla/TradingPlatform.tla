-------------------------- MODULE TradingPlatform --------------------------
(***************************************************************************)
(* The loop that infrastructure/container.py wires, in several processes:  *)
(* bars to strategy, strategy to gate, signals to position sizing and      *)
(* execution, fills to the books.                                          *)
(*                                                                         *)
(* Dockerfile:60,73 runs several processes, and every one of them joins    *)
(* the same consumer group (container.py:85-92): a signal or a fill goes   *)
(* to one process, whichever asks first, while each process has a tracker  *)
(* and a book of its own.  In a process the signals and the fills have a   *)
(* consumer loop each: the next signal waits for the order of the last one *)
(* (on_signal_dict awaits submit_order) but not for its fill.              *)
(*                                                                         *)
(* One strategy, one symbol, at price 1 and without commission; a signed   *)
(* quantity is a buy when positive.  Orders are MARKET orders, the default *)
(* of OrderEvent: one child, sent again in full after each failed attempt. *)
(* The gate, the engine and the bus have modules of their own; what        *)
(* matters of them here is whether a signal is published, what an order    *)
(* trades, whether its fill is published, and which entries get lost.      *)
(* At this commit no fill is published: transition(FILLED) raises on every *)
(* new record (OrderExecution), so of Execute and ExecuteUnrecorded only   *)
(* the latter happens.  Execute is what lines 696-702 mean to do; what is  *)
(* checked and proved holds whichever of the two the engine takes.         *)
(* stream:ticks has no handler, so nothing revalues a position and equity  *)
(* is the cash: what was there at first less what the book has cost.       *)
(***************************************************************************)
EXTENDS Integers, Sequences, FiniteSetsExt, Functions

CONSTANTS
    Processes,
    Initial,      \* initial_capital
    BatchSize,    \* XREADGROUP COUNT
    MaxLen,       \* stream_max_len
    Share,        \* what the sizer puts into an entry, in percent of equity
    MaxRetries,   \* MT5BrokerAdapter: max_retries
    MaxSignals,   \* bound: signals generated
    MaxStarts     \* bound: container starts

ASSUME ProcessesAssumption == IsFiniteSet(Processes)
ASSUME CapitalAssumption == Initial \in Nat \ {0}
ASSUME ShareAssumption == Share \in 0..100
ASSUME BusAssumption == BatchSize \in Nat \ {0} /\ MaxLen \in Nat \ {0}
ASSUME RetriesAssumption == MaxRetries \in Nat \ {0}
ASSUME BoundsAssumption == MaxSignals \in Nat /\ MaxStarts \in Nat

VARIABLES
    up,        \* processes whose container is started
    tracker,   \* _position_tracker of the strategy in each process
    book,      \* net quantity in the PortfolioEngine of each process
    order,     \* signed quantity of the order being sent to the broker, or 0
    attempts,  \* how often sending it has failed
    signals,   \* stream:signals, the entries not yet delivered
    fills,     \* stream:fills, the entries not yet delivered
    inbox,     \* signals delivered to a process and not yet handled
    booking,   \* fills delivered to a process and not yet booked
    broker,    \* the position at the broker
    generated, \* number of signals generated
    starts,    \* number of container starts
    \* for the properties only
    decision,  \* the last signal handled, and on what
    unclear    \* an attempt at its order has failed, or was left unobserved

memory == <<tracker, book, inbox, booking>>
sending == <<order, attempts>>
streams == <<signals, fills>>
history == <<decision, unclear>>
vars == <<up, memory, sending, streams, broker, generated, starts, history>>

Directions == {"LONG", "SHORT", "FLAT"}

\* A decision is current when it was made on a book that agrees with the
\* broker, with nothing under way; only then is more of it remembered.
Uncurrent(d) == [said |-> d, current |-> FALSE, from |-> 0, asked |-> 0]
-----------------------------------------------------------------------------
Init ==
    /\ up = {}
    /\ tracker = [p \in Processes |-> "FLAT"]
    /\ book = [p \in Processes |-> 0]
    /\ order = [p \in Processes |-> 0]
    /\ attempts = [p \in Processes |-> 0]
    /\ signals = <<>>
    /\ fills = <<>>
    /\ inbox = [p \in Processes |-> <<>>]
    /\ booking = [p \in Processes |-> <<>>]
    /\ broker = 0
    /\ generated = 0
    /\ starts = 0
    /\ decision = Uncurrent("none")
    /\ unclear = FALSE

\* TradingPlatformContainer.start: engines that remember nothing.  A process
\* ends only when its broker thread has, and so before it is started again.
Start(p) ==
    /\ p \notin up /\ order[p] = 0
    /\ starts < MaxStarts
    /\ up' = up \cup {p}
    /\ starts' = starts + 1
    /\ UNCHANGED <<memory, sending, streams, broker, generated, history>>

\* The stream after an XADD MAXLEN ~: Redis drops entries in excess of MaxLen,
\* or some of them, or none, whether they have been delivered or not.
Added(stream, entry) ==
    LET all == Append(stream, entry)
    IN  {SubSeq(all, k, Len(all)) : k \in 1..Max({1, Len(all) - MaxLen + 1})}

\* StrategyEngine.on_bar, when the strategy has something new to say: its
\* tracker moves, whether or not the gate approves and the bus accepts.
Bar(p, d) ==
    /\ p \in up
    /\ generated < MaxSignals
    /\ d # tracker[p]
    /\ tracker' = [tracker EXCEPT ![p] = d]
    /\ signals' \in {signals} \cup Added(signals, d)
    /\ generated' = generated + 1
    /\ UNCHANGED <<up, book, inbox, booking, sending, fills, broker, starts, history>>

\* The entries that the next read of a stream delivers, and those it leaves.
Batch(stream) == SubSeq(stream, 1, Min({BatchSize, Len(stream)}))

Rest(stream) == SubSeq(stream, Min({BatchSize, Len(stream)}) + 1, Len(stream))

\* The consumer loops read the next batch when they are done with the last.
ReadSignals(p) ==
    /\ p \in up
    /\ inbox[p] = <<>> /\ order[p] = 0 /\ signals # <<>>
    /\ inbox' = [inbox EXCEPT ![p] = Batch(signals)]
    /\ signals' = Rest(signals)
    /\ UNCHANGED <<up, tracker, book, booking, sending, fills, broker, generated, starts, history>>

ReadFills(p) ==
    /\ p \in up
    /\ booking[p] = <<>> /\ fills # <<>>
    /\ booking' = [booking EXCEPT ![p] = Batch(fills)]
    /\ fills' = Rest(fills)
    /\ UNCHANGED <<up, tracker, book, inbox, sending, signals, broker, generated, starts, history>>

\* Redis serves the read and the reply is lost: nobody asks for the batch
\* again, for the loop reads with ">" (EventBus, ReadReplyLost).
LoseSignals(p) ==
    /\ p \in up
    /\ inbox[p] = <<>> /\ order[p] = 0 /\ signals # <<>>
    /\ signals' = Rest(signals)
    /\ UNCHANGED <<up, memory, sending, fills, broker, generated, starts, history>>

LoseFills(p) ==
    /\ p \in up
    /\ booking[p] = <<>> /\ fills # <<>>
    /\ fills' = Rest(fills)
    /\ UNCHANGED <<up, memory, sending, signals, broker, generated, starts, history>>
-----------------------------------------------------------------------------
\* get_equity: the cash.
Equity(p) == Initial - book[p]

\* Mutant of EntrySize: every entry is sized from the initial capital.
EntrySizeOfInitial(p) == (2 * Initial * Share + 100) \div 200

\* calculate_position_size: nothing without equity, and rounded half up.
EntrySize(p) ==
    IF Equity(p) <= 0 THEN 0 ELSE (2 * Equity(p) * Share + 100) \div 200

\* Mutant of OrderFor: an exit sells, whatever the side of the position.
ExitAlwaysSells(p, d) ==
    IF d = "LONG" THEN EntrySize(p)
    ELSE IF d = "SHORT" THEN -EntrySize(p)
    ELSE IF book[p] > 0 THEN -book[p] ELSE book[p]

\* The order on_signal_dict makes of a signal, 0 for none: an exit closes the
\* position of the process's own book, an entry is sized from its equity.
OrderFor(p, d) ==
    IF d = "LONG" THEN EntrySize(p)
    ELSE IF d = "SHORT" THEN -EntrySize(p)
    ELSE -book[p]

\* No order is being sent.
NothingSent == \A p \in Processes : order[p] = 0

\* No fill and no order is under way: no book and no position will change.
Settled == NothingSent /\ fills = <<>> /\ \A p \in Processes : booking[p] = <<>>

Decision(p, d) ==
    IF book[p] = broker /\ Settled
    THEN [said |-> d, current |-> TRUE, from |-> broker, asked |-> OrderFor(p, d)]
    ELSE Uncurrent(d)

\* Mutant of HandleSignal: a signal that makes no order goes back to the queue.
HandleSignalRequeues(p) ==
    /\ p \in up
    /\ order[p] = 0 /\ inbox[p] # <<>>
    /\ order' = [order EXCEPT ![p] = OrderFor(p, Head(inbox[p]))]
    /\ inbox' = [inbox EXCEPT ![p] = IF order'[p] = 0 THEN Append(Tail(@), Head(@)) ELSE Tail(@)]
    /\ decision' = Decision(p, Head(inbox[p])) /\ unclear' = FALSE
    /\ UNCHANGED <<up, tracker, book, booking, attempts, streams, broker, generated, starts>>

\* on_signal_dict, up to the first attempt at the order it makes.
HandleSignal(p) ==
    /\ p \in up
    /\ order[p] = 0 /\ inbox[p] # <<>>
    /\ order' = [order EXCEPT ![p] = OrderFor(p, Head(inbox[p]))]
    /\ inbox' = [inbox EXCEPT ![p] = Tail(@)]
    /\ decision' = Decision(p, Head(inbox[p])) /\ unclear' = FALSE
    /\ UNCHANGED <<up, tracker, book, booking, attempts, streams, broker, generated, starts>>

\* submit_order is done with the order of p.
EndOrder(p) ==
    /\ order' = [order EXCEPT ![p] = 0]
    /\ attempts' = [attempts EXCEPT ![p] = 0]

\* The broker answers DONE: the whole order has traded, whatever failed attempts
\* had traded before, and its fill is published.
Execute(p) ==
    /\ p \in up /\ order[p] # 0
    /\ broker' = broker + order[p]
    /\ fills' \in Added(fills, order[p])
    /\ EndOrder(p)
    /\ UNCHANGED <<up, memory, signals, generated, starts, history>>

\* The same without the fill: transition(FILLED) raises, or the bus does.
ExecuteUnrecorded(p) ==
    /\ p \in up /\ order[p] # 0
    /\ broker' = broker + order[p]
    /\ EndOrder(p)
    /\ UNCHANGED <<up, memory, streams, generated, starts, history>>

\* What a broker that does not answer DONE may have traded of a quantity.
Parts(quantity) == IF quantity >= 0 THEN 0..quantity ELSE quantity..0

\* Mutant of RetriesLeft: one attempt too many.
RetriesOffByOne(p) == attempts[p] < MaxRetries

RetriesLeft(p) == attempts[p] + 1 < MaxRetries

\* An attempt fails after trading a part of the order, or all of it (an IOC
\* order filled in part, a lost reply): the order is sent again in full, or
\* rejected after the last attempt, and no fill says what has traded.
AttemptFails(p, part) ==
    /\ p \in up /\ order[p] # 0
    /\ broker' = broker + part
    /\ IF RetriesLeft(p)
       THEN attempts' = [attempts EXCEPT ![p] = @ + 1] /\ UNCHANGED order
       ELSE EndOrder(p)
    /\ unclear' = TRUE
    /\ UNCHANGED <<up, memory, streams, generated, starts, decision>>

\* Mutant of BookFill: the side of the fill is lost.
BookFillUnsigned(p) ==
    /\ p \in up
    /\ booking[p] # <<>>
    /\ LET quantity == Head(booking[p])
       IN  book' = [book EXCEPT ![p] = @ + Max({quantity, -quantity})]
    /\ booking' = [booking EXCEPT ![p] = Tail(@)]
    /\ UNCHANGED <<up, tracker, inbox, sending, streams, broker, generated, starts, history>>

\* on_fill_dict and PortfolioEngine.on_fill: the book of whichever process the
\* fill is delivered to.
BookFill(p) ==
    /\ p \in up
    /\ booking[p] # <<>>
    /\ book' = [book EXCEPT ![p] = @ + Head(booking[p])]
    /\ booking' = [booking EXCEPT ![p] = Tail(@)]
    /\ UNCHANGED <<up, tracker, inbox, sending, streams, broker, generated, starts, history>>

\* on_fill_dict swallows the exception of a fill that cannot be booked, and the
\* bus acknowledges it.
DropFill(p) ==
    /\ p \in up
    /\ booking[p] # <<>>
    /\ booking' = [booking EXCEPT ![p] = Tail(@)]
    /\ UNCHANGED <<up, tracker, book, inbox, sending, streams, broker, generated, starts, history>>

\* Mutant of Down: the container forgets its engines but the books.
DownKeepsBook(p) ==
    /\ p \in up
    /\ up' = up \ {p}
    /\ tracker' = [tracker EXCEPT ![p] = "FLAT"]
    /\ inbox' = [inbox EXCEPT ![p] = <<>>]
    /\ booking' = [booking EXCEPT ![p] = <<>>]
    /\ UNCHANGED <<book, sending, streams, broker, generated, starts, history>>

\* The container stops or the process crashes.  Its book and its tracker are
\* lost, and the signals and fills delivered to it; a broker thread may still
\* be sending its order.
Down(p) ==
    /\ p \in up
    /\ up' = up \ {p}
    /\ tracker' = [tracker EXCEPT ![p] = "FLAT"]
    /\ book' = [book EXCEPT ![p] = 0]
    /\ inbox' = [inbox EXCEPT ![p] = <<>>]
    /\ booking' = [booking EXCEPT ![p] = <<>>]
    /\ UNCHANGED <<sending, streams, broker, generated, starts, history>>

\* That attempt ends, with nobody there to see what has traded or to retry.
AttemptUnobserved(p, part) ==
    /\ p \notin up /\ order[p] # 0
    /\ broker' = broker + part
    /\ EndOrder(p)
    /\ unclear' = TRUE
    /\ UNCHANGED <<up, memory, streams, generated, starts, decision>>

\* order_send returns in the end.
Answered(p) ==
    \/ Execute(p) \/ ExecuteUnrecorded(p)
    \/ \E part \in Parts(order[p]) : AttemptFails(p, part) \/ AttemptUnobserved(p, part)

Next ==
    \E p \in Processes :
        \/ Start(p) \/ Down(p)
        \/ \E d \in Directions : Bar(p, d)
        \/ ReadSignals(p) \/ LoseSignals(p) \/ HandleSignal(p) \/ Answered(p)
        \/ ReadFills(p) \/ LoseFills(p) \/ BookFill(p) \/ DropFill(p)

Spec == Init /\ [][Next]_vars

\* The consumer loops of a running process go on, and the broker answers.
Fairness ==
    \A p \in Processes :
        /\ WF_vars(ReadSignals(p) \/ HandleSignal(p))
        /\ WF_vars(Answered(p))
        /\ WF_vars(ReadFills(p) \/ BookFill(p))

FairSpec == Spec /\ Fairness

\* The platform as it is when nothing outside of it fails.
SmoothNext ==
    \E p \in Processes :
        \/ Start(p)
        \/ \E d \in Directions : Bar(p, d)
        \/ ReadSignals(p) \/ ReadFills(p)
        \/ HandleSignal(p) \/ ExecuteUnrecorded(p) \/ BookFill(p)

SmoothSpec == Init /\ [][SmoothNext]_vars
-----------------------------------------------------------------------------
(***************************************************************************)
(* Properties.                                                             *)
(***************************************************************************)

\* Every variable stays in its domain, and a process that is down remembers
\* nothing.
TypeOK ==
    /\ up \subseteq Processes
    /\ tracker \in [Processes -> Directions]
    /\ book \in [Processes -> Int]
    /\ order \in [Processes -> Int]
    /\ attempts \in [Processes -> 0..(MaxRetries - 1)]
    /\ signals \in Seq(Directions)
    /\ fills \in Seq(Int)
    /\ inbox \in [Processes -> Seq(Directions)]
    /\ booking \in [Processes -> Seq(Int)]
    /\ broker \in Int
    /\ generated \in 0..MaxSignals
    /\ starts \in 0..MaxStarts
    /\ decision \in [said : Directions \cup {"none"}, current : BOOLEAN, from : Int, asked : Int]
    /\ unclear \in BOOLEAN
    /\ \A p \in Processes : order[p] = 0 => attempts[p] = 0
    /\ \A p \in Processes \ up :
          tracker[p] = "FLAT" /\ book[p] = 0 /\ inbox[p] = <<>> /\ booking[p] = <<>>

Total(quantities) == SumFunction(quantities)

\* What the broker holds and neither a book nor a fill on its way accounts for.
Drift ==
    broker - Total(book) - Total(fills) - Total([p \in Processes |-> Total(booking[p])])

\* The books of all processes together follow the broker: they part from it
\* when an attempt fails or is left unobserved, when an execution is not
\* recorded, when fills are trimmed, lost in a reply or dropped by an exception,
\* and when a process goes down, each time by exactly what that step trades or
\* forgets.  Nothing else moves them apart and nothing reconciles them
\* (container.py:341-356, execution_engine/service.py:503-525,
\* redis_event_bus.py:145-157,260).
DriftOnlyFromFailures ==
    [][\/ Drift' = Drift
       \/ \E p \in Processes :
             \/ \E part \in Parts(order[p]) :
                   (AttemptFails(p, part) \/ AttemptUnobserved(p, part)) /\ Drift' = Drift + part
             \/ ExecuteUnrecorded(p) /\ Drift' = Drift + order[p]
             \/ /\ Execute(p) /\ Len(fills) >= MaxLen
                /\ Drift' = Drift + Total(Append(fills, order[p])) - Total(fills')
             \/ LoseFills(p) /\ Drift' = Drift + Total(Batch(fills))
             \/ DropFill(p) /\ Drift' = Drift + Head(booking[p])
             \/ Down(p) /\ Drift' = Drift + book[p] + Total(booking[p])]_vars

\* How often the order of the last decision can have traded.
Trades == IF unclear THEN MaxRetries ELSE 1

\* An exit decided on an up-to-date book leaves nothing at the broker when it is
\* answered at the first attempt, whichever side the position was on.  When
\* attempts fail it may turn the position round, MaxRetries - 1 times over at
\* most, but never adds to it, in whatever order processes stop, start, lose
\* signals and decide again (container.py:298-312,
\* execution_engine/service.py:503-525).
CurrentExitCloses ==
    decision.current /\ decision.said = "FLAT" =>
        /\ broker - decision.from \in Parts(-Trades * decision.from)
        /\ NothingSent /\ ~unclear => broker = 0

\* The capital that a position leaves for an entry.
CapitalLeft(position) == Max({0, Initial - position})

\* An entry decided on an up-to-date book trades no more than the capital that
\* the position has left, rounding included, and no more than MaxRetries times
\* that when attempts fail: so far, and no further, can a resent entry exceed
\* the capital.  What is sold short counts as cash (container.py:314-333,
\* portfolio_engine/service.py:192, execution_engine/service.py:503-525).
EntriesWithinCapital ==
    LET left == Trades * CapitalLeft(decision.from)
    IN  /\ decision.current /\ decision.said = "LONG" => broker - decision.from \in Parts(left)
        /\ decision.current /\ decision.said = "SHORT" => broker - decision.from \in Parts(-left)

\* Every signal and every fill has been handled.
Quiet == Settled /\ signals = <<>> /\ \A p \in Processes : inbox[p] = <<>>

\* Signals and fills do not stay in the streams while a process runs.
StreamsDrain == []<>(Quiet \/ up = {})
-----------------------------------------------------------------------------
(* The inductive invariant behind them.                                      *)

\* As long as the last decision is current, its order is the only one under
\* way, and each failed attempt at it has traded a part of what was asked.
OneOrder ==
    decision.current =>
        /\ \A p, q \in Processes : order[p] # 0 /\ order[q] # 0 => p = q
        /\ \A p \in Processes : order[p] # 0 =>
              /\ order[p] = decision.asked
              /\ broker - decision.from \in Parts(attempts[p] * decision.asked)
              /\ ~unclear => attempts[p] = 0
        /\ broker - decision.from \in Parts(Trades * decision.asked)
        /\ NothingSent /\ ~unclear => broker = decision.from + decision.asked

\* What a current decision asks for: an exit the position, an entry no more
\* than the capital left.
AsksWithinMeans ==
    decision.current =>
        /\ decision.said \in Directions
        /\ decision.said = "FLAT" => decision.asked = -decision.from
        /\ decision.said = "LONG" => decision.asked \in Parts(CapitalLeft(decision.from))
        /\ decision.said = "SHORT" => decision.asked \in Parts(-CapitalLeft(decision.from))

IInv == TypeOK /\ OneOrder /\ AsksWithinMeans
-----------------------------------------------------------------------------
(* What the repository says and the code does not do.                        *)

\* "Exit: close existing position" (container.py:299): once everything is
\* handled and the last signal was an exit, the broker holds nothing.
ExitCloses == Quiet /\ decision.said = "FLAT" => broker = 0

=============================================================================
