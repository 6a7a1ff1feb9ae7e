------------------------------ MODULE EventBus ------------------------------
(***************************************************************************)
(* An agent's bus (shared/eventbus/bus.go): Run starts the responder of    *)
(* the agent's request channel, then the consumer of its command stream,   *)
(* and stops both; the server calls Request, publishes commands, purges    *)
(* the command stream and sweeps it.  Composes BusRequests and StreamPurge.*)
(***************************************************************************)
EXTENDS BusRequests, StreamPurge

CONSTANTS
    MaxRuns,    \* bound: calls of Run
    MaxPurges,  \* bound: purges
    MaxOps      \* bound: calls of Request, entries and purges together

ASSUME BusAssumption == {MaxRuns, MaxPurges, MaxOps} \subseteq Nat

VARIABLES
    bus,     \* of Run: "down", "starting" or "running"
    runs,    \* calls of Run so far
    purges   \* purges so far

vars == <<requestVars, streamVars, bus, runs, purges>>

Init ==
    /\ RequestInit /\ StreamInit
    /\ bus = "down" /\ runs = 0 /\ purges = 0

\* Run as far as startPubSub: the responder is live before the router starts.
Run ==
    /\ bus = "down" /\ runs < MaxRuns
    /\ bus' = "starting"
    /\ runs' = runs + 1
    /\ Serve
    /\ UNCHANGED <<streamVars, purges>>

\* The router subscribes to the stream.
RouterRuns ==
    /\ bus = "starting"
    /\ bus' = "running"
    /\ Consume
    /\ UNCHANGED <<requestVars, runs, purges>>

\* A setup error, a cancelled context or a crash: both halves stop.
Stop ==
    /\ bus # "down"
    /\ bus' = "down"
    /\ Unserve /\ Abandon
    /\ UNCHANGED <<runs, purges>>

\* The callers, the responder and the reply channels.
Requesting ==
    /\ RequestStep
    /\ UNCHANGED <<streamVars, bus, runs, purges>>

\* The command stream: its producers, its consumer, the sweep and the purge.
Streaming ==
    /\ StreamStep
    /\ purges' = IF step = "idle" /\ step' # "idle" THEN purges + 1 ELSE purges
    /\ purges' <= MaxPurges
    /\ UNCHANGED <<requestVars, bus, runs>>

Operations == Cardinality({c \in Calls : phase[c] # "idle"}) + last + purges

Next ==
    \/ Run \/ RouterRuns \/ Stop
    \/ Requesting /\ Operations' <= MaxOps
    \/ Streaming /\ Operations' <= MaxOps

\* Every caller passes a context with a timeout (local_directories.go:194,
\* heartbeat.go:40), so each of its calls ends by itself.
Fairness == \A c \in Calls : WF_vars(Requesting /\ (SendFails(c) \/ Timeout(c)))

Spec == Init /\ [][Next]_vars /\ Fairness

-----------------------------------------------------------------------------
TypeOK ==
    /\ RequestTypeOK /\ StreamTypeOK
    /\ bus \in {"down", "starting", "running"}
    /\ serving = (bus # "down") /\ consuming = (bus = "running")
    /\ runs \in 0 .. MaxRuns /\ purges \in 0 .. MaxPurges
=============================================================================
