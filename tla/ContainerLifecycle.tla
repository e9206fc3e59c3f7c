------------------------- MODULE ContainerLifecycle -------------------------
(***************************************************************************)
(* start and stop of TradingPlatformContainer in infrastructure/           *)
(* container.py, as lifespan of api/main.py calls them.                    *)
(*                                                                         *)
(* market_data/service.py has no MarketDataService: its import fails and   *)
(* the failure is swallowed.  The failures of the bus, of the wiring and   *)
(* of start_consuming end start: lifespan then serves without a container, *)
(* and nothing stops what has been started, the consumer loops included.   *)
(***************************************************************************)
EXTENDS Naturals, SequencesExt, Lists

CONSTANT HandledStreams  \* number of streams with a handler

VARIABLES
    phase,       \* how far start or stop has come
    components,  \* _components
    consuming,   \* number of streams with a consumer loop
    connected,   \* components with a connection of their own
    asked,       \* components that have been asked to stop, in order
    published    \* app.state.container and _instance are set

vars == <<phase, components, consuming, connected, asked, published>>

ConstantsOK == HandledStreams \in Nat

Optional == {"indicator", "ml", "notification"}

Init ==
    /\ phase = "bus"
    /\ components = <<>> /\ consuming = 0 /\ connected = {}
    /\ asked = <<>> /\ published = FALSE

\* start raises: lifespan sets the container to None.
Abort ==
    /\ phase' = "without"
    /\ UNCHANGED <<components, consuming, connected, asked, published>>

StartBus ==
    /\ phase = "bus"
    /\ \/ Abort
       \/ /\ phase' = "broker"
          /\ components' = Append(components, "bus")
          /\ connected' = connected \cup {"bus"}
          /\ UNCHANGED <<consuming, asked, published>>

\* connect of the broker; without the package of the terminal it succeeds too.
Connected(succeeds) == connected' = IF succeeds THEN connected \cup {"broker"} ELSE connected

\* Without a broker the platform runs in simulation mode.
StartBroker(succeeds) ==
    /\ phase = "broker"
    /\ phase' = "services"
    /\ Connected(succeeds)
    /\ components' = IF succeeds THEN Append(components, "broker") ELSE components
    /\ UNCHANGED <<consuming, asked, published>>

\* The engines are made, the services that can be, and the routing table.
StartServices(made) ==
    /\ phase = "services"
    /\ \/ Abort
       \/ /\ phase' = "consuming"
          /\ components' = components \o
                Kept(<<"indicator", "ml", "notification">>, made)
          /\ UNCHANGED <<consuming, connected, asked, published>>

\* start_consuming: the group of the next stream, then its loop.
Consume ==
    /\ phase = "consuming" /\ consuming < HandledStreams
    /\ \/ Abort
       \/ consuming' = consuming + 1 /\ UNCHANGED <<phase, components, connected, asked, published>>

Started ==
    /\ phase = "consuming" /\ consuming = HandledStreams
    /\ phase' = "running"
    /\ published' = TRUE
    /\ UNCHANGED <<components, consuming, connected, asked>>

\* The server shuts down: lifespan stops the container, if there is one.
Shutdown ==
    /\ phase \in {"running", "without"}
    /\ phase' = IF published THEN "stopping" ELSE "ended"
    /\ UNCHANGED <<components, consuming, connected, asked, published>>

Left == SubSeq(components, 1, Len(components) - Len(asked))

\* Mutant of AfterStopOf: a component that fails to stop ends it all.
AfterStopOfRaises(fails) == IF fails THEN "ended" ELSE "stopping"

\* What stop does after a component: an exception is logged.
AfterStopOf(fails) == "stopping"

\* The bus closes its Redis client, the broker disconnects from the terminal;
\* a failure of theirs leaves the connection as it is, and so does the broker
\* without the package of the terminal.
Disconnected(c, fails) ==
    /\ fails => c \in {"bus", "broker"}
    /\ connected' = IF fails THEN connected ELSE connected \ {c}

\* stop of the last component left.  The bus has cancelled its loops before
\* the one call of it that may fail; the indicator and the ML engine have no
\* method to call.
StopNext(fails) ==
    LET c == Last(Left)
    IN  /\ phase = "stopping" /\ Left # <<>>
        /\ asked' = Append(asked, c)
        /\ Disconnected(c, fails)
        /\ consuming' = IF c = "bus" THEN 0 ELSE consuming
        /\ phase' = AfterStopOf(fails)
        /\ UNCHANGED <<components, published>>

\* The thread pool of the risk engine goes, and the instance is forgotten.
Stopped ==
    /\ phase = "stopping" /\ Left = <<>>
    /\ phase' = "ended"
    /\ published' = FALSE
    /\ UNCHANGED <<components, consuming, connected, asked>>

Next ==
    \/ StartBus \/ Consume \/ Started \/ Shutdown \/ Stopped
    \/ \E made \in SUBSET Optional : StartServices(made)
    \/ \E succeeds \in BOOLEAN : StartBroker(succeeds)
    \/ \E fails \in BOOLEAN : StopNext(fails)

Spec == Init /\ [][Next]_vars
-----------------------------------------------------------------------------
(* Properties.                                                               *)

Parts == {"bus", "broker"} \cup Optional

TypeOK ==
    /\ phase \in {"bus", "broker", "services", "consuming", "without",
                  "running", "stopping", "ended"}
    /\ components \in Seq(Parts) /\ IsInjective(components)
    /\ consuming \in 0..HandledStreams
    /\ connected \subseteq Range(components)
    /\ asked = SubSeq(Reverse(components), 1, Len(asked))
    /\ published \in BOOLEAN

\* When a container that ran has been stopped, no consumer loop is left and
\* every component has been asked to stop, whichever of them failed to
\* (infrastructure/container.py:387-398).
StopReachesAll ==
    phase = "ended" /\ asked # <<>> => consuming = 0 /\ Len(asked) = Len(components)

=============================================================================
