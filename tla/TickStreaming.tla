---------------------------- MODULE TickStreaming ----------------------------
(***************************************************************************)
(* Tick streaming of MT5DataProvider in market_data/service.py: the        *)
(* poller, the handlers of each symbol and the bounded queues of stream.   *)
(*                                                                         *)
(* A round of the poller walks over list(_subscriptions.items()): over the *)
(* lists of handlers as they are objects.  subscribe appends to a list in  *)
(* place, under the feet of the poller; the end of a stream puts a new     *)
(* list in its place and leaves the poller with the old one.               *)
(***************************************************************************)
EXTENDS Naturals, SequencesExt, Lists

CONSTANTS
    Symbols,
    Streams,      \* calls of stream
    SymbolOf,     \* the symbol each is for
    QueueSize,    \* maxsize of its queue
    Wrap          \* bound: ticks are numbered modulo Wrap

VARIABLES
    connected,    \* _connected
    executor,     \* "up", or "down" for good
    known,        \* keys of _subscriptions, in the order they came
    handlers,     \* _subscriptions
    poller,       \* the polling task
    todo,         \* symbols left in the round
    list,         \* the list the round has of each symbol
    position,     \* the handler that gets the tick next
    queues,       \* queue of each stream
    open,         \* streams being read
    opened,       \* streams ever opened
    tick,         \* number of the last tick polled, of each symbol
    lastRead      \* the last tick read, of each stream, <<>> for none

vars == <<connected, executor, known, handlers, poller, todo, list, position,
          queues, open, opened, tick, lastRead>>

Numbers == 0..(Wrap - 1)

\* The list in _subscriptions itself, or one that it held before.
Current == [of |-> "current"]
Replaced(hs) == [of |-> "replaced", handlers |-> hs]
HandlersOf(s) == IF list[s] = Current THEN handlers[s] ELSE list[s].handlers

ConstantsOK ==
    /\ SymbolOf \in [Streams -> Symbols]
    /\ QueueSize \in Nat \ {0} /\ Wrap \in Nat \ {0}
-----------------------------------------------------------------------------
Init ==
    /\ connected = FALSE /\ executor = "up"
    /\ known = <<>> /\ handlers = [s \in Symbols |-> <<>>]
    /\ poller = "none" /\ todo = <<>>
    /\ list = [s \in Symbols |-> Current] /\ position = 1
    /\ queues = [r \in Streams |-> <<>>] /\ open = {} /\ opened = {}
    /\ tick = [s \in Symbols |-> 0]
    /\ lastRead = [r \in Streams |-> <<>>]

\* connect does not start the poller.  Its owner calls it when it is not
\* connected and has not begun to disconnect; afterwards it only fails.
Connect(succeeds) ==
    /\ executor = "up" /\ ~connected
    /\ connected' = succeeds
    /\ UNCHANGED <<executor, known, handlers, poller, todo, list, position, queues, open, opened, tick, lastRead>>

\* disconnect cancels the poller and shuts the executor down for good.
Disconnect ==
    /\ executor = "up"
    /\ connected' = FALSE
    /\ executor' = "down"
    /\ poller' = "none" /\ todo' = <<>> /\ position' = 1
    /\ list' = [s \in Symbols |-> Current]
    /\ UNCHANGED <<known, handlers, queues, open, opened, tick, lastRead>>

\* The first step of stream: subscribe, which starts a poller if none runs.
OpenStream(r) ==
    LET s == SymbolOf[r]
    IN  /\ r \notin opened
        /\ open' = open \cup {r} /\ opened' = opened \cup {r}
        /\ known' = IF Contains(known, s) THEN known ELSE Append(known, s)
        /\ handlers' = [handlers EXCEPT ![s] = Append(@, r)]
        /\ poller' = IF poller = "none" THEN "checking" ELSE poller
        /\ UNCHANGED <<connected, executor, todo, list, position, queues, tick, lastRead>>

\* Mutant of ListAfterClose: the handler is taken out of the list in place.
ListAfterCloseInPlace(s) == list[s]

\* A poller in the middle of a round keeps the list it has.
ListAfterClose(s) ==
    IF list[s] = Current /\ Contains(todo, s) THEN Replaced(handlers[s]) ELSE list[s]

\* The reader goes away: the finally clause of stream.
CloseStream(r) ==
    LET s == SymbolOf[r]
    IN  /\ r \in open
        /\ open' = open \ {r}
        /\ handlers' = [handlers EXCEPT ![s] = Kept(@, Streams \ {r})]
        /\ list' = [list EXCEPT ![s] = ListAfterClose(s)]
        /\ lastRead' = [lastRead EXCEPT ![r] = <<>>]
        /\ UNCHANGED <<connected, executor, known, poller, todo, position, queues, opened, tick>>

ReadTick(r) ==
    /\ r \in open
    /\ queues[r] # <<>>
    /\ lastRead' = [lastRead EXCEPT ![r] = <<Head(queues[r])>>]
    /\ queues' = [queues EXCEPT ![r] = Tail(@)]
    /\ UNCHANGED <<connected, executor, known, handlers, poller, todo, list, position, open, opened, tick>>
-----------------------------------------------------------------------------
(* _poll_ticks.                                                              *)

\* The top of the loop.
CheckConnected ==
    /\ poller = "checking"
    /\ poller' = IF connected THEN "polling" ELSE "none"
    /\ todo' = IF connected THEN known ELSE <<>>
    /\ UNCHANGED <<connected, executor, known, handlers, list, position, queues, open, opened, tick, lastRead>>

\* Mutant of AfterSymbol: the round is over after one symbol.
AfterSymbolRoundOver ==
    /\ todo' = <<>> /\ poller' = "polling"
    /\ list' = [s \in Symbols |-> Current] /\ position' = 1

\* The poller is through with the symbol, and with the list it had.
AfterSymbol ==
    /\ todo' = Tail(todo) /\ poller' = "polling"
    /\ list' = [list EXCEPT ![Head(todo)] = Current] /\ position' = 1

\* The terminal has a tick for the next symbol.
PollTick ==
    LET s == Head(todo)
    IN  /\ poller = "polling" /\ todo # <<>>
        /\ tick' = [tick EXCEPT ![s] = (@ + 1) % Wrap]
        /\ poller' = "handing"
        /\ UNCHANGED <<connected, executor, known, handlers, todo, list, position, queues, open, opened, lastRead>>

\* It has none, or the call raises.
PollNothing ==
    /\ poller = "polling" /\ todo # <<>>
    /\ AfterSymbol
    /\ UNCHANGED <<connected, executor, known, handlers, queues, open, opened, tick, lastRead>>

\* queue.put of the next handler: it waits while the queue is full.
HandTick ==
    LET s == Head(todo)
        r == HandlersOf(s)[position]
    IN  /\ poller = "handing"
        /\ position <= Len(HandlersOf(s))
        /\ Len(queues[r]) < QueueSize
        /\ queues' = [queues EXCEPT ![r] = Append(@, tick[s])]
        /\ position' = position + 1
        /\ UNCHANGED <<connected, executor, known, handlers, poller, todo, list, open, opened, tick, lastRead>>

\* All handlers of the list have the tick.
NextSymbol ==
    /\ poller = "handing"
    /\ position > Len(HandlersOf(Head(todo)))
    /\ AfterSymbol
    /\ UNCHANGED <<connected, executor, known, handlers, queues, open, opened, tick, lastRead>>

\* The round is over, and a tenth of a second passes.
SleepAndWake ==
    /\ poller = "polling" /\ todo = <<>>
    /\ poller' = "checking"
    /\ UNCHANGED <<connected, executor, known, handlers, todo, list, position, queues, open, opened, tick, lastRead>>

\* Whatever the poller does next.
PollerStep == CheckConnected \/ PollTick \/ PollNothing \/ HandTick \/ NextSymbol \/ SleepAndWake

Next ==
    \/ \E succeeds \in BOOLEAN : Connect(succeeds)
    \/ Disconnect
    \/ \E r \in Streams : OpenStream(r) \/ CloseStream(r) \/ ReadTick(r)
    \/ PollerStep

Spec == Init /\ [][Next]_vars

PollTickOf(s) == PollTick /\ Head(todo) = s

\* The poller and the readers are scheduled, and a symbol asked again and
\* again has a tick some time.
Fairness ==
    /\ WF_vars(PollerStep)
    /\ \A s \in Symbols : SF_vars(PollTickOf(s))
    /\ \A r \in Streams : WF_vars(ReadTick(r))

FairSpec == Spec /\ Fairness
-----------------------------------------------------------------------------
(* Properties.                                                               *)

TypeOK ==
    /\ connected \in BOOLEAN
    /\ executor \in {"up", "down"}
    /\ known \in Seq(Symbols)
    /\ handlers \in [Symbols -> Seq(Streams)]
    /\ poller \in {"none", "checking", "polling", "handing"}
    /\ poller = "handing" => todo # <<>>
    /\ todo \in Seq(Symbols)
    /\ \A s \in Symbols : HandlersOf(s) \in Seq(Streams)
    /\ position \in Nat \ {0}
    /\ queues \in [Streams -> Seq(Numbers)]
    /\ \A r \in Streams : Len(queues[r]) <= QueueSize
    /\ open \subseteq opened /\ opened \subseteq Streams
    /\ tick \in [Symbols -> Numbers]
    /\ lastRead \in [Streams -> {<<>>} \cup {<<n>> : n \in Numbers}]

Consecutive(seq) == \A i \in 1..(Len(seq) - 1) : seq[i + 1] = (seq[i] + 1) % Wrap

\* A stream gets every tick polled from its first one to its end, in order:
\* none is skipped when another stream of the symbol ends while the poller
\* walks over the handlers, and none is lost on a full queue.  disconnect
\* throws away the tick in hand, and no other follows it
\* (market_data/service.py:213-215, 350-361).
NoGaps == \A r \in Streams : Consecutive(lastRead[r] \o queues[r])

\* The poller waits to hand a tick to a stream whose reader has gone.
StuckOnClosed ==
    /\ poller = "handing" /\ position <= Len(HandlersOf(Head(todo)))
    /\ HandlersOf(Head(todo))[position] \notin open

\* Open streams that have had no tick yet.
Waiting == {r \in open : lastRead[r] = <<>>}

\* Every open stream gets its first tick in the end, whatever the other
\* symbols and streams do, as long as the provider polls: unless the poller
\* has ended or waits for good on the full queue of a stream that has ended,
\* which stops the ticks of every symbol (market_data/service.py:204-218).
EveryStreamServed ==
    Waiting # {} ~> Waiting = {} \/ poller = "none" \/ StuckOnClosed

=============================================================================
