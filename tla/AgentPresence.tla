---------------------------- MODULE AgentPresence ----------------------------
(***************************************************************************)
(* How one agent slug is claimed, kept and given up, and how the server    *)
(* notices that its agent is gone (agent/runtime/presence.go,              *)
(* cmd/metarr-agent/main.go, agentregistry/presence_watcher.go).           *)
(*                                                                         *)
(* A process claims the slug with SET NX on a lock key that expires, and   *)
(* while it runs it rewrites the lock and a presence key at every          *)
(* heartbeat.  The watcher scans for the presence key and signals an agent *)
(* that was there and has been gone for a full expiry time.                *)
(*                                                                         *)
(* Time passes in ticks.  Redis keys and tickers count down; a tick waits  *)
(* for every timer that is due, except one of a process that is stalled.   *)
(* Claiming and the rest of the start-up share the deadline of connectCtx, *)
(* which begins before Redis is connected and so before the claim.         *)
(***************************************************************************)
EXTENDS Naturals

CONSTANTS
    Instances,   \* processes started with the slug, each with a fresh id
    None,        \* nobody
    TTL,         \* PresenceTTL
    Heartbeat,   \* HeartbeatInterval
    Startup,     \* the longest time from the claim to the first report
    Watch,       \* DefaultPresenceWatchInterval
    MaxMissed,   \* bound: writes and scans that fail
    MaxStalls,   \* bound: processes stalled, releases that fail
    MaxQuiet     \* bound of the history counter "quiet"

ASSUME TimingAssumption ==
    /\ TTL \in Nat /\ Heartbeat \in Nat \ {0} /\ Startup \in Nat /\ Watch \in Nat \ {0}
    /\ 2 * Heartbeat < TTL /\ Startup + Heartbeat < TTL
    /\ None \notin Instances
    /\ MaxMissed \in Nat /\ MaxStalls \in Nat /\ MaxQuiet \in Nat /\ MaxQuiet > TTL + Watch

VARIABLES
    lock,      \* the lock key: its holder and the time it has left
    presence,  \* the presence key: the time it has left
    pc,        \* where each process is
    due,       \* time to each process's next report
    stalled,   \* processes that are suspended or cut off from Redis
    watcher,   \* the PresenceWatcher
    missed,    \* history: reports each process missed in a row
    worst,     \* history: the most reports missed in a row
    reported,  \* history: the processes that wrote the presence key
    quiet,     \* history: how long the presence key has been missing
    budget     \* what is left of the bounds

history == <<missed, worst, reported, quiet>>
vars == <<lock, presence, pc, due, stalled, watcher, missed, worst, reported, quiet, budget>>

NoLock == [holder |-> None, left |-> 0]

\* Mutant of LockOf: the lock expires with the heartbeat.
ShortLockOf(p) == [holder |-> p, left |-> Heartbeat]

\* SET with PresenceTTL.
LockOf(p) == [holder |-> p, left |-> TTL]

\* The processes at work for the slug: they have claimed it and not stopped.
Running == {p \in Instances : pc[p] \in {"started", "running", "reporting"}}
\* The processes with a timer of their own.
Timed == Running \cup {p \in Instances : pc[p] \in {"claiming", "retaking"}}

Init ==
    /\ lock = NoLock
    /\ presence = 0
    /\ pc = [p \in Instances |-> "new"]
    /\ due = [p \in Instances |-> 0]
    /\ stalled = {}
    /\ watcher = [pc |-> "idle", due |-> 0, online |-> FALSE, absent |-> 0, saw |-> FALSE]
    /\ missed = [p \in Instances |-> 0]
    /\ worst = 0
    /\ reported = {}
    /\ quiet = 0
    /\ budget = [missed |-> MaxMissed, stalls |-> MaxStalls]

Spend(what) == budget[what] > 0 /\ budget' = [budget EXCEPT ![what] = @ - 1]

-----------------------------------------------------------------------------
(* The agent process.                                                       *)

\* Claim, the SET NX.  The key is free, and the process goes on; or the reply
\* is lost, the client sends the command again and finds the key taken, by
\* itself.
Claim(p) ==
    /\ pc[p] = "new"
    /\ lock = NoLock
    /\ lock' = LockOf(p)
    /\ \/ pc' = [pc EXCEPT ![p] = "started"] /\ UNCHANGED budget
       \/ pc' = [pc EXCEPT ![p] = "claiming"] /\ Spend("missed")
    /\ due' = [due EXCEPT ![p] = Startup]
    /\ UNCHANGED <<presence, stalled, watcher, history>>

\* Claim, the SET NX: the key is taken.
ClaimTaken(p) ==
    /\ pc[p] = "new"
    /\ lock # NoLock
    /\ pc' = [pc EXCEPT ![p] = "claiming"]
    /\ due' = [due EXCEPT ![p] = Startup]
    /\ UNCHANGED <<lock, presence, stalled, watcher, history, budget>>

\* Claim, the GET: this instance's own id, or somebody else's, or nothing any
\* more.  In the last two cases ErrSlugInUse ends the process.
ReadHolder(p) ==
    /\ pc[p] = "claiming"
    /\ pc' = [pc EXCEPT ![p] = IF lock.holder = p THEN "retaking" ELSE "refused"]
    /\ UNCHANGED <<lock, presence, due, stalled, watcher, history, budget>>

\* Claim, refreshLock after finding the own id.
Retake(p) ==
    /\ pc[p] = "retaking"
    /\ lock' = LockOf(p)
    /\ pc' = [pc EXCEPT ![p] = "started"]
    /\ UNCHANGED <<presence, due, stalled, watcher, history, budget>>

\* The first report comes when the start-up is done, the others on the ticker.
ReportDue(p) == pc[p] = "started" \/ (pc[p] = "running" /\ due[p] = 0)

\* Report, first write: refreshLock, whoever holds the lock by now.
RefreshLock(p) ==
    /\ p \notin stalled
    /\ ReportDue(p)
    /\ lock' = LockOf(p)
    /\ pc' = [pc EXCEPT ![p] = "reporting"]
    /\ UNCHANGED <<presence, due, stalled, watcher, history, budget>>

\* Mutant of SetPresence: the presence key expires with the heartbeat.
SetPresenceShort(p) ==
    /\ p \notin stalled
    /\ pc[p] = "reporting"
    /\ presence' = Heartbeat
    /\ pc' = [pc EXCEPT ![p] = "running"]
    /\ due' = [due EXCEPT ![p] = Heartbeat]
    /\ missed' = [missed EXCEPT ![p] = 0]
    /\ reported' = reported \cup {p}
    /\ quiet' = 0
    /\ UNCHANGED <<lock, stalled, watcher, worst, budget>>

\* Report, second write: the presence record.
SetPresence(p) ==
    /\ p \notin stalled
    /\ pc[p] = "reporting"
    /\ presence' = TTL
    /\ pc' = [pc EXCEPT ![p] = "running"]
    /\ due' = [due EXCEPT ![p] = Heartbeat]
    /\ missed' = [missed EXCEPT ![p] = 0]
    /\ reported' = reported \cup {p}
    /\ quiet' = 0
    /\ UNCHANGED <<lock, stalled, watcher, worst, budget>>

\* Either write fails: logged, the next heartbeat tries again.
ReportFails(p) ==
    /\ p \notin stalled
    /\ ReportDue(p) \/ pc[p] = "reporting"
    /\ Spend("missed")
    /\ pc' = [pc EXCEPT ![p] = "running"]
    /\ due' = [due EXCEPT ![p] = Heartbeat]
    /\ missed' = [missed EXCEPT ![p] = @ + 1]
    /\ worst' = IF missed[p] + 1 > worst THEN missed[p] + 1 ELSE worst
    /\ UNCHANGED <<lock, presence, stalled, watcher, reported, quiet>>

\* A clean stop: release deletes both keys, whoever holds them; or it fails
\* within its two seconds.
Stop(p) ==
    /\ p \notin stalled
    /\ pc[p] \in {"started", "running"}
    /\ \/ lock' = NoLock /\ presence' = 0 /\ UNCHANGED budget
       \/ Spend("stalls") /\ UNCHANGED <<lock, presence>>
    /\ pc' = [pc EXCEPT ![p] = "gone"]
    /\ UNCHANGED <<due, stalled, watcher, history>>

\* The process is killed: the keys expire on their own.
Kill(p) ==
    /\ p \in Timed
    /\ pc' = [pc EXCEPT ![p] = "gone"]
    /\ stalled' = stalled \ {p}
    /\ UNCHANGED <<lock, presence, due, watcher, history, budget>>

\* The host sleeps, or the network to Redis is down; later it comes back.
Stall(p) ==
    /\ p \in Running \ stalled
    /\ Spend("stalls")
    /\ stalled' = stalled \cup {p}
    /\ UNCHANGED <<lock, presence, pc, due, watcher, history>>

Wake(p) ==
    /\ p \in stalled
    /\ stalled' = stalled \ {p}
    /\ UNCHANGED <<lock, presence, pc, due, watcher, history, budget>>

-----------------------------------------------------------------------------
(* The watcher.                                                             *)

\* scanOnce: PresentSlugs.
ScanPresence ==
    /\ watcher.pc = "idle" /\ watcher.due = 0
    /\ watcher' = [watcher EXCEPT !.pc = "scanned", !.saw = presence > 0]
    /\ UNCHANGED <<lock, presence, pc, due, stalled, history, budget>>

ScanFails ==
    /\ watcher.pc = "idle" /\ watcher.due = 0
    /\ Spend("missed")
    /\ watcher' = [watcher EXCEPT !.due = Watch]
    /\ UNCHANGED <<lock, presence, pc, due, stalled, history>>

\* An agent believed present, not in the scan, last seen a TTL ago or more.
Departed == watcher.online /\ ~watcher.saw /\ watcher.absent >= TTL

\* Mutants of Reconcile: the next scan is a TTL away; a scan that does not see
\* the agent counts as having seen it.
ReconcileLate ==
    /\ watcher.pc = "scanned"
    /\ watcher' = [watcher EXCEPT !.pc = "idle", !.due = TTL]
    /\ UNCHANGED <<lock, presence, pc, due, stalled, history, budget>>
ReconcileSeen ==
    /\ watcher.pc = "scanned"
    /\ watcher' = [pc |-> "idle", due |-> Watch,
                   online |-> watcher.saw \/ (watcher.online /\ ~Departed),
                   absent |-> 0, saw |-> FALSE]
    /\ UNCHANGED <<lock, presence, pc, due, stalled, history, budget>>

\* scanOnce: the belief is reconciled with the scan; a departure is signalled
\* (to the log: nothing subscribes yet).
Reconcile ==
    /\ watcher.pc = "scanned"
    /\ watcher' = [pc |-> "idle", due |-> Watch,
                   online |-> watcher.saw \/ (watcher.online /\ ~Departed),
                   absent |-> IF watcher.saw THEN 0 ELSE watcher.absent,
                   saw |-> FALSE]
    /\ UNCHANGED <<lock, presence, pc, due, stalled, history, budget>>

-----------------------------------------------------------------------------
Less(n) == IF n = 0 THEN 0 ELSE n - 1
More(n, most) == IF n < most THEN n + 1 ELSE n

\* Time passes: keys expire, tickers run down.
Tick ==
    /\ \A p \in Timed \ stalled : pc[p] # "reporting" /\ due[p] > 0
    /\ watcher.pc = "idle" /\ watcher.due > 0
    /\ lock' = IF lock.left <= 1 THEN NoLock ELSE [lock EXCEPT !.left = @ - 1]
    /\ presence' = Less(presence)
    /\ due' = [p \in Instances |-> IF p \in Timed THEN Less(due[p]) ELSE due[p]]
    /\ watcher' = [watcher EXCEPT !.due = @ - 1, !.absent = More(@, TTL)]
    /\ quiet' = IF presence > 0 THEN quiet ELSE More(quiet, MaxQuiet)
    /\ UNCHANGED <<pc, stalled, missed, worst, reported, budget>>

Process(p) == \/ Claim(p) \/ ClaimTaken(p) \/ ReadHolder(p) \/ Retake(p)
              \/ RefreshLock(p) \/ SetPresence(p)
Faults(p) == ReportFails(p) \/ Kill(p) \/ Stall(p) \/ Wake(p)
Watcher == ScanPresence \/ Reconcile

Next ==
    \/ \E p \in Instances : Process(p) \/ Stop(p) \/ Faults(p)
    \/ Watcher
    \/ ScanFails
    \/ Tick

Spec == Init /\ [][Next]_vars

\* Time passes, and what is due is done.
Fairness == WF_vars(Tick) /\ WF_vars(Watcher) /\ \A p \in Instances : WF_vars(Process(p))
LiveSpec == Spec /\ Fairness

-----------------------------------------------------------------------------
\* Keys never outlive their TTL; the watcher's timer never exceeds its interval.
TypeOK ==
    /\ lock \in [holder: Instances \cup {None}, left: 0..TTL]
    /\ presence \in 0..TTL
    /\ pc \in [Instances -> {"new", "claiming", "retaking", "started", "running", "reporting",
                             "refused", "gone"}]
    /\ due \in [Instances -> Nat]
    /\ stalled \subseteq Instances
    /\ watcher \in [pc: {"idle", "scanned"}, due: 0..Watch, online: BOOLEAN, absent: 0..TTL,
                    saw: BOOLEAN]
    /\ missed \in [Instances -> Nat] /\ worst \in Nat
    /\ reported \subseteq Instances /\ quiet \in 0..MaxQuiet
    /\ budget \in [{"missed", "stalls"} -> Nat]

\* Processes report in time: none was stalled, none missed two writes in a row.
Healthy == budget.stalls = MaxStalls /\ worst <= 1

\* presence.go:19-25, LockKey: as long as processes report in time, at most one
\* works for the slug, whatever is started, stopped or killed.
Exclusive == Healthy => \A p, q \in Running : p = q

\* agentproto.go:30-32: a single missed write does not make a healthy agent
\* flicker offline: once it has reported, its presence key never goes missing.
NoFlicker == Healthy => \A p \in Running \cap reported : presence > 0

\* presence_watcher.go:27-31: the watcher gives up an agent at the latest one
\* scan after its key has been missing for a TTL, if its scans succeed.
OfflineWithin ==
    budget.missed = MaxMissed /\ quiet > TTL + Watch => ~watcher.online

\* When nobody works for the slug any more, it becomes free to claim and the
\* server learns that its agent is gone.
GoneIsNoticed ==
    (Running = {}) ~> (Running # {} \/ (lock = NoLock /\ ~watcher.online))

-----------------------------------------------------------------------------
(* Statements of the repository's text that the model refutes.              *)

\* presence.go:45-50: an agent that crashed and comes back takes its lock over
\* rather than waiting out its own corpse: only a live holder turns one away.
RefusedOnlyByTheLiving ==
    [][\A p \in Instances : pc[p] = "claiming" /\ pc'[p] = "refused" => lock.holder \in Running]_vars

\* presence.go:21-24: two processes never share a slug.
OneAtATime == \A p, q \in Running : p = q
=============================================================================
