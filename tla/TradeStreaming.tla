--------------------------- MODULE TradeStreaming ---------------------------
(***************************************************************************)
(* Trade streaming of BinanceDataProvider in market_data/service.py: one   *)
(* task and one WebSocket for each call of stream, over the trades of a    *)
(* single symbol.                                                          *)
(*                                                                         *)
(* The end of a stream ends neither its task nor its connection: the task  *)
(* fills the queue that nobody reads and waits there for disconnect.  The  *)
(* pauses between attempts to connect grow up to a minute; their length is *)
(* left out, as they touch nothing but time.                               *)
(***************************************************************************)
EXTENDS Naturals, SequencesExt

CONSTANTS
    Streams,     \* calls of stream
    QueueSize,   \* maxsize of its queue
    MaxTrades    \* bound: trades of the symbol

VARIABLES
    connected,   \* _connected
    loops,       \* the task of each stream, see Stages
    trades,      \* number of the last trade at the exchange
    nextTrade,   \* number of the trade that a stream's connection has next
    queues,      \* queue of each stream
    open,        \* streams being read
    lastRead,    \* the last trade read, of each stream, <<>> for none
    \* for the properties only
    interrupted, \* streams whose connection has been lost once
    cancelled    \* streams that began before a disconnect

vars == <<connected, loops, trades, nextTrade, queues, open, lastRead, interrupted, cancelled>>

Stages == {"none", "checking", "connecting", "receiving", "putting", "pausing", "ended"}

ConstantsOK == QueueSize \in Nat \ {0} /\ MaxTrades \in Nat

Enter(r, to) == loops' = [loops EXCEPT ![r] = to]
-----------------------------------------------------------------------------
Init ==
    /\ connected = FALSE
    /\ loops = [r \in Streams |-> "none"]
    /\ trades = 0
    /\ nextTrade = [r \in Streams |-> 1]
    /\ queues = [r \in Streams |-> <<>>] /\ open = {}
    /\ lastRead = [r \in Streams |-> <<>>]
    /\ interrupted = {} /\ cancelled = {}

\* The exchange trades.
Trade ==
    /\ trades < MaxTrades
    /\ trades' = trades + 1
    /\ UNCHANGED <<connected, loops, nextTrade, queues, open, lastRead, interrupted, cancelled>>

Connect ==
    /\ ~connected
    /\ connected' = TRUE
    /\ UNCHANGED <<loops, trades, nextTrade, queues, open, lastRead, interrupted, cancelled>>

\* disconnect cancels every task ever made: CancelledError is no Exception,
\* so none of them tries again.
Disconnect ==
    /\ connected
    /\ connected' = FALSE
    /\ loops' = [r \in Streams |-> IF loops[r] = "none" THEN "none" ELSE "ended"]
    /\ cancelled' = {r \in Streams : loops[r] # "none"}
    /\ UNCHANGED <<trades, nextTrade, queues, open, lastRead, interrupted>>

\* stream: subscribe creates the task, connected or not.
OpenStream(r) ==
    /\ loops[r] = "none"
    /\ Enter(r, "checking")
    /\ open' = open \cup {r}
    /\ UNCHANGED <<connected, trades, nextTrade, queues, lastRead, interrupted, cancelled>>

\* The reader goes away, and nothing learns of it.
CloseStream(r) ==
    /\ r \in open
    /\ open' = open \ {r}
    /\ lastRead' = [lastRead EXCEPT ![r] = <<>>]
    /\ UNCHANGED <<connected, loops, trades, nextTrade, queues, interrupted, cancelled>>

ReadTrade(r) ==
    /\ r \in open /\ queues[r] # <<>>
    /\ lastRead' = [lastRead EXCEPT ![r] = <<Head(queues[r])>>]
    /\ queues' = [queues EXCEPT ![r] = Tail(@)]
    /\ UNCHANGED <<connected, loops, trades, nextTrade, open, interrupted, cancelled>>
-----------------------------------------------------------------------------
(* _ws_loop.                                                                 *)

\* The top of the loop: the task of a provider not yet connected ends.
CheckConnected(r) ==
    /\ loops[r] = "checking"
    /\ Enter(r, IF connected THEN "connecting" ELSE "ended")
    /\ UNCHANGED <<connected, trades, nextTrade, queues, open, lastRead, interrupted, cancelled>>

\* ws_connect: the exchange sends the trades from now on.
Connected(r) ==
    /\ loops[r] = "connecting"
    /\ Enter(r, "receiving")
    /\ nextTrade' = [nextTrade EXCEPT ![r] = trades + 1]
    /\ UNCHANGED <<connected, trades, queues, open, lastRead, interrupted, cancelled>>

Receive(r) ==
    /\ loops[r] = "receiving" /\ nextTrade[r] <= trades
    /\ Enter(r, "putting")
    /\ UNCHANGED <<connected, trades, nextTrade, queues, open, lastRead, interrupted, cancelled>>

\* queue.put: it waits while the queue is full, and the connection with it.
Put(r) ==
    /\ loops[r] = "putting" /\ Len(queues[r]) < QueueSize
    /\ Enter(r, "receiving")
    /\ queues' = [queues EXCEPT ![r] = Append(@, nextTrade[r])]
    /\ nextTrade' = [nextTrade EXCEPT ![r] = @ + 1]
    /\ UNCHANGED <<connected, trades, open, lastRead, interrupted, cancelled>>

\* The connection fails, or a message that cannot be read ends it: the task
\* pauses.  When the exchange closes it in good order it does not.
Lost(r, pauses) ==
    /\ loops[r] \in {"connecting", "receiving"}
    /\ loops[r] = "connecting" => pauses
    /\ Enter(r, IF pauses THEN "pausing" ELSE "checking")
    /\ interrupted' = interrupted \cup {r}
    /\ UNCHANGED <<connected, trades, nextTrade, queues, open, lastRead, cancelled>>

PauseOver(r) ==
    /\ loops[r] = "pausing"
    /\ Enter(r, "checking")
    /\ UNCHANGED <<connected, trades, nextTrade, queues, open, lastRead, interrupted, cancelled>>

Next ==
    \/ Trade \/ Connect \/ Disconnect
    \/ \E r \in Streams :
          \/ OpenStream(r) \/ CloseStream(r) \/ ReadTrade(r)
          \/ CheckConnected(r) \/ Connected(r) \/ Receive(r) \/ Put(r) \/ PauseOver(r)
          \/ \E pauses \in BOOLEAN : Lost(r, pauses)

Spec == Init /\ [][Next]_vars
-----------------------------------------------------------------------------
(* Properties.                                                               *)

TypeOK ==
    /\ connected \in BOOLEAN
    /\ loops \in [Streams -> Stages]
    /\ trades \in 0..MaxTrades
    /\ nextTrade \in [Streams -> 1..(MaxTrades + 1)]
    /\ queues \in [Streams -> Seq(1..MaxTrades)]
    /\ \A r \in Streams : Len(queues[r]) <= QueueSize
    /\ open \subseteq Streams
    /\ lastRead \in [Streams -> {<<>>} \cup {<<n>> : n \in 1..MaxTrades}]
    /\ interrupted \subseteq Streams /\ cancelled \subseteq Streams

\* What a stream has had last, what waits for it and what its task holds.
Passing(r) ==
    lastRead[r] \o queues[r]
        \o (IF loops[r] = "putting" THEN <<nextTrade[r]>> ELSE <<>>)

\* A stream gets the trades in order and none twice, through every
\* reconnection; it gets every one from its first if its connection was never
\* lost; and after disconnect its task never delivers again, also when the
\* provider connects anew (market_data/service.py:390-395, 411-430).
TradesInOrder ==
    /\ \A r \in Streams : \A i \in 1..(Len(Passing(r)) - 1) :
          /\ Passing(r)[i] < Passing(r)[i + 1]
          /\ r \notin interrupted => Passing(r)[i + 1] = Passing(r)[i] + 1
    /\ \A r \in cancelled : loops[r] = "ended"

=============================================================================
