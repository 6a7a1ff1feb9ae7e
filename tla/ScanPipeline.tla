---------------------------- MODULE ScanPipeline ----------------------------
(***************************************************************************)
(* One library scan from end to end: the server queues a command on the    *)
(* agent's stream, the agent walks the scan root and streams what it finds *)
(* onto the result stream, the server stores each result and, when the     *)
(* agent reports the scan complete, sweeps the records the scan did not    *)
(* find (services/tasks.go, agent/runtime/scanner.go,                      *)
(* listeners/agent_scan_result_listener.go, local_directory_repo.go).      *)
(*                                                                         *)
(* One scan root on one agent.  Both streams are Redis streams read by one *)
(* consumer each: an entry is delivered, handled, acknowledged.  An entry  *)
(* that was delivered and not acknowledged is claimed and delivered again  *)
(* after an idle time, while newer entries are read meanwhile.             *)
(*                                                                         *)
(* Time: scanned_at and StartedAt come from the one agent's clock, and the *)
(* agent handles one command at a time, so the number of the walk stands   *)
(* for the time.  A walk's items are scanned after its StartedAt is taken  *)
(* and before the next walk's.                                             *)
(***************************************************************************)
EXTENDS Naturals, Sequences, FiniteSets, SequencesExt

CONSTANTS
    Items,        \* item directories that may exist below the scan root
    Parts,        \* Parts[i]: messages item i needs (more than 1: oversized)
    MaxAttempts,  \* retries after a handler's first failure
    StreamCap,    \* the approximate MAXLEN of the result stream
    MaxScans,     \* bound: commands queued
    MaxWalks,     \* bound: walks started
    MaxFaults,    \* bound: crashes, shutdowns and claims of running entries
    MaxDisk,      \* bound: changes of the disk
    MaxFailures   \* bound: failed database calls and failed items or publishes

ASSUME PartsAssumption == Parts \in [Items -> Nat \ {0}]
ASSUME LimitsAssumption == /\ MaxAttempts \in Nat /\ StreamCap \in Nat
                           /\ MaxScans \in Nat /\ MaxWalks \in Nat /\ MaxFaults \in Nat
                           /\ MaxDisk \in Nat /\ MaxFailures \in Nat

VARIABLES
    disk,       \* the item directories on disk
    commands,   \* the command stream, entries not yet delivered
    cmdPending, \* commands delivered to a consumer that died or stalled
    agent,      \* the agent's scan handler
    results,    \* the result stream, entries not yet delivered
    resPending, \* results delivered to a consumer that died or stalled
    server,     \* the server's result handler
    db,         \* the local_directories collection
    nextOid,    \* the next _id MongoDB mints
    clock,      \* the number of walks started
    \* history
    issued,     \* scans queued so far
    answered,   \* scans for which a completion or a failure was published
    unanswered, \* scans that ended with neither (report failed, agent stopped)
    handled,    \* messages whose handler succeeded
    lost,       \* messages dropped after their retries, or trimmed unread
    budget      \* what is left of the bounds on faults, disk changes, failures

agentVars == <<commands, cmdPending, agent, clock, issued, answered, unanswered>>
serverVars == <<resPending, server, db, nextOid, handled>>
vars == <<disk, commands, cmdPending, agent, results, resPending, server, db, nextOid,
          clock, issued, answered, unanswered, handled, lost, budget>>

\* The records of item i: its directory (0) and the media files of each part.
RecordsOf(i) == {<<i, n>> : n \in 0..Parts[i]}
Records == UNION {RecordsOf(i) : i \in Items}

\* A stored record: scanned_at (0: no document) and an object id: its own _id
\* for a directory, directory_id for media files (0: unlinked).
NoRecord == [at |-> 0, ref |-> 0]

\* Messages of the result stream.  "items" of a completion stands for
\* ItemCount: the items that were sent in full.
Result(scan, at, i, p) == [kind |-> "result", scan |-> scan, at |-> at, item |-> i, part |-> p]
Complete(scan, at, items) == [kind |-> "complete", scan |-> scan, at |-> at, items |-> items]

\* Mutant of Failed: the report does not carry the scan it is about.
FailedUnnamed(scan) == [kind |-> "failed", scan |-> 0]

Failed(scan) == [kind |-> "failed", scan |-> scan]

\* out[i]: how many parts of item i the walk has published, while it is not done.
NothingOut == [i \in Items |-> 0]
IdleAgent == [pc |-> "idle", scan |-> 0, todo |-> {}, sent |-> {}, out |-> NothingOut]
IdleServer == [pc |-> "idle", attempt |-> 0]

Init ==
    /\ disk \in SUBSET Items
    /\ commands = <<>>
    /\ cmdPending = {}
    /\ agent = IdleAgent
    /\ results = <<>>
    /\ resPending = {}
    /\ server = IdleServer
    /\ db = [r \in Records |-> NoRecord]
    /\ nextOid = 1
    /\ clock = 0
    /\ issued = 0
    /\ answered = {}
    /\ unanswered = {}
    /\ handled = {}
    /\ lost = {}
    /\ budget = [faults |-> MaxFaults, disk |-> MaxDisk, failures |-> MaxFailures]

Spend(what) == budget[what] > 0 /\ budget' = [budget EXCEPT ![what] = @ - 1]

-----------------------------------------------------------------------------
\* Somebody adds or removes an item directory.
DiskChange ==
    /\ Spend("disk")
    /\ \E i \in Items : disk' = (disk \ {i}) \cup ({i} \ disk)
    /\ UNCHANGED <<agentVars, serverVars, results, lost>>

\* RunDirectoryScan: the command goes onto the owning agent's stream.
RunDirectoryScan ==
    /\ issued < MaxScans
    /\ issued' = issued + 1
    /\ commands' = Append(commands, issued + 1)
    /\ UNCHANGED <<disk, cmdPending, agent, clock, answered, unanswered, results, serverVars,
                   lost, budget>>

-----------------------------------------------------------------------------
(* The agent.                                                               *)

\* XADD with an approximate MAXLEN: beyond the cap Redis may cut the oldest
\* entries, read or not, at its discretion.
Publish(msgs) ==
    LET all == results \o msgs IN
    \E cut \in 0..(IF Len(all) > StreamCap THEN Len(all) - StreamCap ELSE 0) :
        /\ results' = SubSeq(all, cut + 1, Len(all))
        /\ lost' = lost \cup ToSet(SubSeq(all, 1, cut))

\* The next command: the stream's head, or a pending one that was claimed.
TakeCommand(scan) ==
    \/ /\ commands # <<>> /\ scan = Head(commands)
       /\ commands' = Tail(commands)
       /\ UNCHANGED cmdPending
    \/ /\ scan \in cmdPending
       /\ cmdPending' = cmdPending \ {scan}
       /\ UNCHANGED commands

\* scan, up to the walk: the root is listed, then StartedAt is taken.
StartWalk(scan) ==
    /\ agent.pc = "idle"
    /\ clock < MaxWalks
    /\ TakeCommand(scan)
    /\ clock' = clock + 1
    /\ agent' = [pc |-> "walking", scan |-> scan, todo |-> disk, sent |-> {}, out |-> NothingOut]
    /\ UNCHANGED <<disk, results, serverVars, issued, answered, unanswered, lost, budget>>

\* scan fails before the walk: no configuration, slug not mapped, root not
\* readable.  handle reports the failure; the sweep must not run.
RefuseScan(scan) ==
    /\ agent.pc = "idle"
    /\ Spend("failures")
    /\ TakeCommand(scan)
    /\ \/ Publish(<<Failed(scan)>>) /\ answered' = answered \cup {scan} /\ UNCHANGED unanswered
       \/ unanswered' = unanswered \cup {scan} /\ UNCHANGED <<results, lost, answered>>
    /\ UNCHANGED <<disk, agent, clock, serverVars, issued>>

\* The goroutine of item i publishes its next part; the goroutines of the other
\* items run meanwhile.  The disk is read before the first part.
SendPart(i) ==
    /\ agent.pc = "walking"
    /\ i \in agent.todo
    /\ i \in disk \/ agent.out[i] > 0
    /\ Publish(<<Result(agent.scan, clock, i, agent.out[i])>>)
    /\ agent' = IF agent.out[i] + 1 < Parts[i]
                THEN [agent EXCEPT !.out[i] = @ + 1]
                ELSE [agent EXCEPT !.out[i] = 0, !.todo = @ \ {i}, !.sent = @ \cup {i}]
    /\ UNCHANGED <<disk, commands, cmdPending, clock, serverVars, issued, answered, unanswered,
                   budget>>

\* The goroutine gives up: the item vanished since the listing, could not be
\* scanned, or a publish failed.  Logged, and the walk goes on.
SkipItem(i) ==
    /\ agent.pc = "walking"
    /\ i \in agent.todo
    /\ \/ i \notin disk /\ agent.out[i] = 0 /\ UNCHANGED budget
       \/ (i \in disk \/ agent.out[i] > 0) /\ Spend("failures")
    /\ agent' = [agent EXCEPT !.out[i] = 0, !.todo = @ \ {i}]
    /\ UNCHANGED <<disk, commands, cmdPending, clock, serverVars, issued, answered, unanswered,
                   results, lost>>

\* Mutant of EndWalk: the completion does not wait for the goroutines.
EndWalkUnwaited ==
    /\ agent.pc = "walking"
    /\ Publish(<<Complete(agent.scan, clock, agent.sent)>>)
    /\ answered' = answered \cup {agent.scan}
    /\ UNCHANGED <<disk, agent, commands, cmdPending, clock, serverVars, issued, unanswered, budget>>

\* waitGroup.Wait returned: the completion is reported.  If that publish
\* fails, scan returns the error and handle tries to report a failure.
EndWalk ==
    /\ agent.pc = "walking"
    /\ agent.todo = {}
    /\ \/ /\ Publish(<<Complete(agent.scan, clock, agent.sent)>>)
          /\ answered' = answered \cup {agent.scan}
          /\ UNCHANGED <<unanswered, budget>>
       \/ /\ Spend("failures")
          /\ Publish(<<Failed(agent.scan)>>)
          /\ answered' = answered \cup {agent.scan}
          /\ UNCHANGED unanswered
       \/ /\ Spend("failures")
          /\ unanswered' = unanswered \cup {agent.scan}
          /\ UNCHANGED <<results, lost, answered>>
    /\ agent' = IdleAgent
    /\ UNCHANGED <<disk, commands, cmdPending, clock, serverVars, issued>>

\* The subscriber is gone: the command it held, and one it may have read ahead,
\* stay pending.
AbandonCommands(held) ==
    \/ /\ cmdPending' = cmdPending \cup held
       /\ UNCHANGED commands
    \/ /\ commands # <<>>
       /\ cmdPending' = cmdPending \cup held \cup {Head(commands)}
       /\ commands' = Tail(commands)

\* Mutant of AgentCrash: the command was acknowledged when it was delivered.
AgentCrashAcked ==
    /\ agent.pc = "walking"
    /\ Spend("faults")
    /\ agent' = IdleAgent
    /\ UNCHANGED <<disk, commands, cmdPending, clock, serverVars, issued, answered, unanswered,
                   results, lost>>

\* The agent process dies, or is shut down before the subscriber sends the
\* acknowledgement: the command stays pending.
AgentCrash ==
    /\ agent.pc = "walking"
    /\ Spend("faults")
    /\ AbandonCommands({agent.scan})
    /\ agent' = IdleAgent
    /\ UNCHANGED <<disk, clock, serverVars, issued, answered, unanswered, results, lost>>

\* A shutdown cancels the handler's context: the walk breaks off, both reports
\* fail, and handle returns nil, so the command may be acknowledged all the same.
AgentStop ==
    /\ agent.pc = "walking"
    /\ Spend("faults")
    /\ unanswered' = unanswered \cup {agent.scan}
    /\ AbandonCommands({})
    /\ agent' = IdleAgent
    /\ UNCHANGED <<disk, clock, serverVars, issued, answered, results, lost>>

\* A walk longer than the idle time: its own entry is claimed meanwhile.
ClaimRunningCommand ==
    /\ agent.pc = "walking"
    /\ Spend("faults")
    /\ cmdPending' = cmdPending \cup {agent.scan}
    /\ UNCHANGED <<disk, commands, agent, clock, serverVars, issued, answered, unanswered,
                   results, lost>>

-----------------------------------------------------------------------------
(* The server's consumer of the result stream.                              *)

\* Mutant of Receive: pending entries are never claimed.
ReceiveNewOnly(m) ==
    /\ server.pc = "idle"
    /\ results # <<>> /\ m = Head(results)
    /\ results' = Tail(results)
    /\ server' = [pc |-> "handling", attempt |-> 0, msg |-> m]
    /\ UNCHANGED <<disk, agentVars, resPending, db, nextOid, handled, lost, budget>>

\* The handler of a message starts (dispatch by event name).
Receive(m) ==
    /\ server.pc = "idle"
    /\ \/ /\ results # <<>> /\ m = Head(results)
          /\ results' = Tail(results)
          /\ UNCHANGED resPending
       \/ /\ m \in resPending
          /\ resPending' = resPending \ {m}
          /\ UNCHANGED results
    /\ server' = [pc |-> "handling", attempt |-> 0, msg |-> m]
    /\ UNCHANGED <<disk, agentVars, db, nextOid, handled, lost, budget>>

\* The handler returned nil: the entry is acknowledged.
Acknowledge ==
    /\ server' = IdleServer
    /\ handled' = handled \cup {server.msg}

\* upsertDirectory: a replacement keyed on path keeps the document's _id.
UpsertDirectory ==
    LET m == server.msg
        d == <<m.item, 0>>
    IN  /\ server.pc = "handling" /\ m.kind = "result" /\ m.part = 0
        /\ IF db[d].at = 0
           THEN /\ db' = [db EXCEPT ![d] = [at |-> m.at, ref |-> nextOid]]
                /\ nextOid' = nextOid + 1
           ELSE /\ db' = [db EXCEPT ![d].at = m.at]
                /\ UNCHANGED nextOid
        /\ server' = [server EXCEPT !.pc = "files"]
        /\ UNCHANGED <<disk, agentVars, results, resPending, handled, lost, budget>>

\* The media files of the part, linked to the directory's id: part 0 has it
\* from the upsert, a later part looks it up and stores unlinked without it.
UpsertFiles ==
    LET m == server.msg
        d == <<m.item, 0>>
    IN  /\ \/ server.pc = "files"
           \/ server.pc = "handling" /\ m.kind = "result" /\ m.part > 0
        /\ db' = [db EXCEPT ![<<m.item, m.part + 1>>] = [at |-> m.at, ref |-> db[d].ref]]
        /\ Acknowledge
        /\ UNCHANGED <<disk, agentVars, results, resPending, nextOid, lost, budget>>

\* Mutant of DeleteStaleRecords: $lte instead of $lt.
DeleteUpTo(at) ==
    db' = [r \in Records |-> IF db[r].at <= at THEN NoRecord ELSE db[r]]

\* completeScan: DeleteStaleRecords with the walk's StartedAt.
DeleteStaleRecords(at) ==
    db' = [r \in Records |-> IF db[r].at < at THEN NoRecord ELSE db[r]]

CompleteScan ==
    /\ server.pc = "handling" /\ server.msg.kind = "complete"
    /\ DeleteStaleRecords(server.msg.at)
    /\ Acknowledge
    /\ UNCHANGED <<disk, agentVars, results, resPending, nextOid, lost, budget>>

\* reportScanFailure: logged, nothing is swept.
ReportScanFailure ==
    /\ server.pc = "handling" /\ server.msg.kind = "failed"
    /\ Acknowledge
    /\ UNCHANGED <<disk, agentVars, results, resPending, db, nextOid, lost, budget>>

\* dispatch: MaxAttempts retries after the first failure.
MayRetry == server.attempt < MaxAttempts

\* The handler's pending call fails (Mongo unreachable, mapping gone, path
\* refused): retried in place from the start, dropped when retries are spent.
HandlerError ==
    /\ server.pc # "idle" /\ server.msg.kind # "failed"
    /\ Spend("failures")
    /\ IF MayRetry
       THEN /\ server' = [server EXCEPT !.pc = "handling", !.attempt = @ + 1]
            /\ UNCHANGED lost
       ELSE /\ server' = IdleServer
            /\ lost' = lost \cup {server.msg}
    /\ UNCHANGED <<disk, agentVars, results, resPending, db, nextOid, handled>>

\* The subscriber is gone: the entry it held, and one it may have read ahead,
\* stay pending.
AbandonResults(held) ==
    \/ /\ resPending' = resPending \cup held
       /\ UNCHANGED results
    \/ /\ results # <<>>
       /\ resPending' = resPending \cup held \cup {Head(results)}
       /\ results' = Tail(results)

\* Mutant of ServerCrash: the entry was acknowledged when it was delivered.
ServerCrashAcked ==
    /\ server.pc # "idle"
    /\ Spend("faults")
    /\ server' = IdleServer
    /\ UNCHANGED <<disk, agentVars, results, resPending, db, nextOid, handled, lost>>

\* The server process dies, or is shut down before the subscriber sends the
\* acknowledgement: the entry stays pending.
ServerCrash ==
    /\ server.pc # "idle"
    /\ Spend("faults")
    /\ AbandonResults({server.msg})
    /\ server' = IdleServer
    /\ UNCHANGED <<disk, agentVars, db, nextOid, handled, lost>>

\* A shutdown cancels the handler's context; the error it returns ends the
\* retries early and the message may be acknowledged as a drop.
ServerStop ==
    /\ server.pc # "idle"
    /\ Spend("faults")
    /\ server' = IdleServer
    /\ lost' = lost \cup {server.msg}
    /\ AbandonResults({})
    /\ UNCHANGED <<disk, agentVars, db, nextOid, handled>>

\* Retries with back-off, or one slow call, outlast the idle time: the entry is
\* claimed meanwhile.
ClaimRunningResult ==
    /\ server.pc # "idle"
    /\ Spend("faults")
    /\ resPending' = resPending \cup {server.msg}
    /\ UNCHANGED <<disk, agentVars, results, server, db, nextOid, handled, lost>>

-----------------------------------------------------------------------------
Agent ==
    \/ \E scan \in 1..MaxScans : StartWalk(scan)
    \/ \E i \in Items : SendPart(i) \/ SkipItem(i)
    \/ EndWalk

AgentFaults ==
    \/ \E scan \in 1..MaxScans : RefuseScan(scan)
    \/ AgentCrash
    \/ AgentStop
    \/ ClaimRunningCommand

Server ==
    \/ \E m \in resPending \cup ToSet(results) : Receive(m)
    \/ UpsertDirectory
    \/ UpsertFiles
    \/ CompleteScan
    \/ ReportScanFailure

ServerFaults ==
    \/ HandlerError
    \/ ServerCrash
    \/ ServerStop
    \/ ClaimRunningResult

Next == DiskChange \/ RunDirectoryScan \/ Agent \/ AgentFaults \/ Server \/ ServerFaults

Spec == Init /\ [][Next]_vars

\* The two consumers keep running; claimed entries are delivered in the end.
Fairness == /\ WF_vars(Agent)
            /\ WF_vars(Server)
            /\ \A scan \in 1..MaxScans : SF_vars(StartWalk(scan))
LiveSpec == Spec /\ Fairness

-----------------------------------------------------------------------------
Messages ==
    [kind: {"result"}, scan: 1..MaxScans, at: 1..MaxWalks, item: Items, part: Nat]
    \cup [kind: {"complete"}, scan: 1..MaxScans, at: 1..MaxWalks, items: SUBSET Items]
    \cup [kind: {"failed"}, scan: 1..MaxScans]

\* Streams carry the three kinds of message; the handler never exceeds its attempts.
TypeOK ==
    /\ disk \subseteq Items
    /\ commands \in Seq(1..MaxScans) /\ cmdPending \subseteq 1..MaxScans
    /\ agent \in [pc: {"idle", "walking"}, scan: 0..MaxScans, todo: SUBSET Items,
                 sent: SUBSET Items, out: [Items -> Nat]]
    /\ results \in Seq(Messages) /\ resPending \subseteq Messages
    /\ server = IdleServer
       \/ server \in [pc: {"handling", "files"}, attempt: 0..MaxAttempts, msg: Messages]
    /\ db \in [Records -> [at: 0..MaxWalks, ref: Nat]]
    /\ nextOid \in Nat /\ clock \in 0..MaxWalks /\ issued \in 0..MaxScans
    /\ answered \subseteq 1..MaxScans /\ unanswered \subseteq 1..MaxScans
    /\ handled \subseteq Messages /\ lost \subseteq Messages

NoFaults == budget.faults = MaxFaults

\* The sweep leaves exactly what its walk found: every record of every item the
\* completion counts is there from that walk, and nothing older survives.  It
\* holds as long as no entry was delivered twice and none was dropped.
SweepExact ==
    [][CompleteScan /\ NoFaults /\ lost = {} =>
         /\ \A i \in server.msg.items : \A r \in RecordsOf(i) : db'[r].at = server.msg.at
         /\ \A r \in Records : db'[r].at \in {0, server.msg.at}]_vars

\* The completion is the last entry of its walk on the stream, so a consumer
\* that reads in order has stored the walk's results before it sweeps.
CompletionIsLast ==
    \A j \in 1..Len(results) : results[j].kind = "complete" =>
        /\ \A k \in (j + 1)..Len(results) :
             results[k].kind = "result" => results[k].at > results[j].at
        /\ agent.pc = "walking" => clock > results[j].at

\* No result vanishes: each part of an item a completion counts is still on
\* the stream, with a consumer, waiting to be claimed, handled, or was logged
\* as dropped or trimmed.
NothingVanishes ==
    LET InFlight == IF server.pc = "idle" THEN {} ELSE {server.msg}
        Known == ToSet(results) \cup resPending \cup InFlight \cup handled \cup lost
    IN  \A m \in Known : m.kind = "complete" =>
            \A i \in m.items : \A p \in 0..(Parts[i] - 1) :
                Result(m.scan, m.at, i, p) \in Known

\* Every queued scan is answered by a completion or a failure, through any
\* crash of the agent, unless its report could not be sent or it was shut down.
EveryScanAnswered ==
    \A s \in 1..MaxScans : (issued >= s) ~> (s \in answered \cup unanswered)

\* Every message settles: handled or logged as lost, none stuck with a consumer.
EveryMessageSettles ==
    <>[](results = <<>> /\ resPending = {} /\ server.pc = "idle")

-----------------------------------------------------------------------------
(* Statements of the repository's text that the model refutes.              *)

\* agentproto.go:153-156, local_directory_repo.go:253-255: a scan that fails
\* part way is not reported complete, so the sweep never deletes what the
\* agent did not get to: a record of an item that is on disk all along stays.
SweepKeepsWhatIsOnDisk ==
    [][CompleteScan /\ budget.disk = MaxDisk =>
         \A i \in disk : \A r \in RecordsOf(i) : db[r].at # 0 => db'[r].at # 0]_vars

\* agentproto.go:109-110: results from a superseded scan are recognised and
\* dropped, so what is stored is never replaced by an older walk's result.
StoredNeverOlder ==
    [][\A r \in Records : db'[r].at = 0 \/ db'[r].at >= db[r].at]_db

\* local_directory_repo.go:243-246: a removed directory takes its media file
\* records with it rather than orphaning them.
NoOrphans ==
    \A i \in Items : \A n \in 1..Parts[i] :
        db[<<i, n>>].ref # 0 => db[<<i, 0>>].ref = db[<<i, n>>].ref
=============================================================================
