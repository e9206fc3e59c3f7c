-------------------------- MODULE WebSocketSessions --------------------------
(***************************************************************************)
(* The handlers of /ws/market-data and /ws/portfolio in api/main.py and    *)
(* the gauge ACTIVE_WEBSOCKETS of each channel.                            *)
(*                                                                         *)
(* A handler learns that its client has left when it sends.  The loop of   *)
(* portfolio_ws catches that and goes on: only a cancellation ends it.     *)
(***************************************************************************)
EXTENDS Naturals, FiniteSets

CONSTANTS
    Market,     \* sessions of market_data_ws
    Portfolio   \* sessions of portfolio_ws

VARIABLES
    container,  \* app.state.container is there
    stage,      \* where each handler is
    client,     \* sessions whose client is there
    gauge,      \* ACTIVE_WEBSOCKETS
    stale       \* sessions that ended without the gauge going down

vars == <<container, stage, client, gauge, stale>>

Sessions == Market \cup Portfolio
Kinds == {"market-data", "portfolio"}
Kind(h) == IF h \in Market THEN "market-data" ELSE "portfolio"

ConstantsOK == Market \cap Portfolio = {} /\ IsFiniteSet(Sessions)

Counted == {"refusing", "greeting", "serving", "cleaning"}

Init ==
    /\ container \in BOOLEAN
    /\ stage = [h \in Sessions |-> "new"]
    /\ client = Sessions
    /\ gauge = [k \in Kinds |-> 0]
    /\ stale = {}

Enter(h, to) == stage' = [stage EXCEPT ![h] = to]

\* An invalid token, or a client gone before the handshake is over.
Reject(h) ==
    /\ stage[h] = "new"
    /\ Enter(h, "ended")
    /\ UNCHANGED <<container, client, gauge, stale>>

Accept(h) ==
    /\ stage[h] = "new" /\ h \in client
    /\ Enter(h, IF container THEN "greeting" ELSE "refusing")
    /\ gauge' = [gauge EXCEPT ![Kind(h)] = @ + 1]
    /\ UNCHANGED <<container, client, stale>>

\* The handler ends and takes itself off the gauge, or a call before that
\* raises.
End(h, raises) ==
    /\ Enter(h, "ended")
    /\ gauge' = IF raises THEN gauge ELSE [gauge EXCEPT ![Kind(h)] = @ - 1]
    /\ stale' = IF raises THEN stale \cup {h} ELSE stale
    /\ UNCHANGED <<container, client>>

\* Without a container: an error to the client and close.
Refuse(h, raises) ==
    /\ stage[h] = "refusing"
    /\ End(h, raises)

\* The SUBSCRIBED message, with the subscription of the Redis channel.
Greet(h, raises) ==
    /\ stage[h] = "greeting"
    /\ h \in client \/ raises
    /\ Enter(h, IF raises THEN "cleaning" ELSE "serving")
    /\ UNCHANGED <<container, client, gauge, stale>>

\* A send that raises ends the loop of market_data_ws.
SendFails(h) ==
    /\ stage[h] = "serving" /\ h \in Market
    /\ Enter(h, "cleaning")
    /\ UNCHANGED <<container, client, gauge, stale>>

\* The server cancels the handler.
Cancel(h) ==
    /\ stage[h] \in {"greeting", "serving"}
    /\ Enter(h, "cleaning")
    /\ UNCHANGED <<container, client, gauge, stale>>

\* The finally clause: unsubscribe and close before the gauge.
CleanUp(h, raises) ==
    /\ stage[h] = "cleaning"
    /\ End(h, raises)

ClientLeaves(h) ==
    /\ h \in client
    /\ client' = client \ {h}
    /\ UNCHANGED <<container, stage, gauge, stale>>

Next ==
    \E h \in Sessions :
        \/ Reject(h) \/ Accept(h) \/ SendFails(h) \/ Cancel(h) \/ ClientLeaves(h)
        \/ \E raises \in BOOLEAN : Refuse(h, raises) \/ Greet(h, raises) \/ CleanUp(h, raises)

Spec == Init /\ [][Next]_vars
-----------------------------------------------------------------------------
(* Properties.                                                               *)

\* Every variable stays in its domain, and the gauge is the handlers between
\* their accept and their last line with those that never got there
\* (api/main.py:267, 273, 313): it never falls below the handlers alive.
TypeOK ==
    /\ container \in BOOLEAN
    /\ stage \in [Sessions -> Counted \cup {"new", "ended"}]
    /\ client \subseteq Sessions
    /\ stale \subseteq {h \in Sessions : stage[h] = "ended"}
    /\ gauge = [k \in Kinds |->
                   Cardinality({h \in Sessions : Kind(h) = k /\ (stage[h] \in Counted \/ h \in stale)})]

=============================================================================
