------------------------- MODULE ScanPipelineProofs -------------------------
(***************************************************************************)
(* The library scan, proved for any items, parts, stream cap, retries and  *)
(* bounds on faults: the types, that a completion is the last entry of its *)
(* walk on the stream, that no result of a completed item vanishes, and    *)
(* that the sweep leaves exactly what its walk found.                      *)
(***************************************************************************)
EXTENDS ScanPipeline, SequenceTheorems, TLAPS

(* The inductive invariant, in named parts.                                 *)

\* Every result names a part its item really has.
FitMessages == {m \in Messages : m.kind = "result" => m.part < Parts[m.item]}

Timed(m) == m.kind # "failed"

InFlight == IF server.pc = "idle" THEN {} ELSE {server.msg}
Known == ToSet(results) \cup resPending \cup InFlight \cup handled \cup lost

\* The types, with what each phase of the two handlers fixes.
Budgets == [faults: 0..MaxFaults, disk: 0..MaxDisk, failures: 0..MaxFailures]
ServerBusyType == [pc: {"handling", "files"}, attempt: 0..MaxAttempts, msg: FitMessages]
AgentType == [pc: {"idle", "walking"}, scan: 0..MaxScans, todo: SUBSET Items,
              sent: SUBSET Items, out: [Items -> Nat]]
CmdTypes == /\ commands \in Seq(1..MaxScans) /\ cmdPending \subseteq 1..MaxScans
            /\ clock \in 0..MaxWalks /\ issued \in 0..MaxScans
            /\ answered \subseteq 1..MaxScans /\ unanswered \subseteq 1..MaxScans
AgentTypes == /\ agent \in AgentType
              /\ agent.pc = "walking" => agent.scan \in 1..MaxScans /\ clock >= 1
              /\ \A i \in Items : agent.out[i] < Parts[i]
StreamTypes == /\ results \in Seq(FitMessages) /\ resPending \subseteq FitMessages
               /\ handled \subseteq FitMessages /\ lost \subseteq FitMessages
ServerTypes == /\ server = IdleServer \/ server \in ServerBusyType
               /\ server.pc = "files" => server.msg.kind = "result" /\ server.msg.part = 0
DbTypes == db \in [Records -> [at: 0..MaxWalks, ref: Nat]] /\ nextOid \in Nat

Types == /\ disk \subseteq Items /\ budget \in Budgets
         /\ CmdTypes /\ AgentTypes /\ StreamTypes /\ ServerTypes /\ DbTypes

\* Nothing carries the number of a walk that has not started, and the stream
\* holds the walks in order.
StreamInOrder ==
    /\ \A j \in 1..Len(results) : Timed(results[j]) => results[j].at <= clock
    /\ \A j, k \in 1..Len(results) :
         j < k /\ Timed(results[j]) /\ Timed(results[k]) => results[j].at <= results[k].at

\* What the running walk counts as sent, and what it has sent so far of the
\* items it is still busy with, is known.
WalkKnown ==
    agent.pc = "walking" =>
        /\ \A i \in agent.sent : \A p \in 0..(Parts[i] - 1) :
             Result(agent.scan, clock, i, p) \in Known
        /\ \A i \in agent.todo : \A p \in 0..(agent.out[i] - 1) :
             Result(agent.scan, clock, i, p) \in Known

\* The walks that may still change the database: those with a message on the
\* stream or with the consumer, and the one that is running.
Ahead == {results[j].at : j \in {k \in 1..Len(results) : Timed(results[k])}}
         \cup {m.at : m \in {n \in InFlight : Timed(n)}}
         \cup (IF agent.pc = "walking" THEN {clock} ELSE {})

Quiet == NoFaults /\ lost = {}

\* The consumer's message comes before everything on the stream.
ConsumerInOrder ==
    server.pc # "idle" /\ Timed(server.msg) =>
        /\ server.msg.at <= clock
        /\ \A k \in 1..Len(results) : Timed(results[k]) => server.msg.at <= results[k].at
        /\ server.msg.kind = "complete" =>
             /\ \A k \in 1..Len(results) :
                  results[k].kind = "result" => results[k].at > server.msg.at
             /\ agent.pc = "walking" => clock > server.msg.at

\* The database is never ahead of a walk that may still change it.
DbNotAhead ==
    /\ \A r \in Records : db[r].at <= clock
    /\ \A a \in Ahead : \A r \in Records : db[r].at <= a

\* A handled result is stored, as long as its walk may still change the database.
HandledStored ==
    /\ \A h \in handled : Timed(h) => h.at <= clock
    /\ \A a \in Ahead : \A h \in handled : h.kind = "result" /\ h.at = a =>
         /\ db[<<h.item, h.part + 1>>].at = a
         /\ h.part = 0 => db[<<h.item, 0>>].at = a

\* Between the two writes of part 0 the directory is stored.
DirectoryStored == server.pc = "files" => db[<<server.msg.item, 0>>].at = server.msg.at

QuietFacts == resPending = {} /\ ConsumerInOrder /\ DbNotAhead /\ HandledStored /\ DirectoryStored
QuietInv == Quiet => QuietFacts

-----------------------------------------------------------------------------
(* Facts about messages, records and the stream.                            *)

\* What each kind of message carries, and that the records a result is stored
\* in exist.
LEMMA MessageFields ==
    ASSUME NEW m \in FitMessages
    PROVE  /\ m \in Messages
           /\ m.kind \in {"result", "complete", "failed"}
           /\ m.scan \in 1..MaxScans
           /\ m.kind = "result" =>
                /\ m.at \in 1..MaxWalks /\ m.item \in Items
                /\ m.part \in Nat /\ m.part < Parts[m.item]
                /\ <<m.item, 0>> \in Records /\ <<m.item, m.part + 1>> \in Records
           /\ m.kind = "complete" => m.at \in 1..MaxWalks /\ m.items \subseteq Items
<1>1. m \in Messages /\ (m.kind = "result" => m.part < Parts[m.item])
    BY DEF FitMessages
<1>2. CASE m \in [kind: {"result"}, scan: 1..MaxScans, at: 1..MaxWalks, item: Items, part: Nat]
    <2>1. /\ m.kind = "result" /\ m.scan \in 1..MaxScans /\ m.at \in 1..MaxWalks
          /\ m.item \in Items /\ m.part \in Nat /\ m.part < Parts[m.item]
        BY <1>1, <1>2
    <2>2. Parts[m.item] \in Nat \ {0}
        BY <2>1, PartsAssumption
    <2>3. 0 \in 0..Parts[m.item] /\ m.part + 1 \in 0..Parts[m.item]
        BY <2>1, <2>2
    <2>4. <<m.item, 0>> \in RecordsOf(m.item) /\ <<m.item, m.part + 1>> \in RecordsOf(m.item)
        BY <2>3 DEF RecordsOf
    <2> QED
        BY <1>1, <2>1, <2>4 DEF Records
<1>3. CASE m \in [kind: {"complete"}, scan: 1..MaxScans, at: 1..MaxWalks, items: SUBSET Items]
    BY <1>1, <1>3
<1>4. CASE m \in [kind: {"failed"}, scan: 1..MaxScans]
    BY <1>1, <1>4
<1> QED
    BY <1>1, <1>2, <1>3, <1>4 DEF Messages

\* A result or a completion carries the number of a walk.
LEMMA TimedAt ==
    \A m \in FitMessages : /\ m.kind \in {"result", "complete"} => Timed(m)
                           /\ Timed(m) => m.at \in 1..MaxWalks /\ m.at \in Nat
                           /\ Timed(m) => m.kind \in {"result", "complete"}
<1> TAKE m \in FitMessages
<1>1. Timed(m) => m.kind \in {"result", "complete"}
    BY MessageFields DEF Timed
<1>2. m.kind \in {"result", "complete"} => m.at \in 1..MaxWalks
    BY MessageFields
<1> QED
    BY <1>1, <1>2 DEF Timed

\* The three messages an agent publishes are messages of the stream.
LEMMA MadeMessages ==
    ASSUME NEW scan \in 1..MaxScans
    PROVE  /\ \A at \in 1..MaxWalks, i \in Items, p \in Nat :
                p < Parts[i] => Result(scan, at, i, p) \in FitMessages
           /\ \A at \in 1..MaxWalks, items \in SUBSET Items :
                Complete(scan, at, items) \in FitMessages
           /\ Failed(scan) \in FitMessages
<1>1. \A at \in 1..MaxWalks, i \in Items, p \in Nat :
        Result(scan, at, i, p) \in Messages /\ Result(scan, at, i, p).kind = "result"
        /\ Result(scan, at, i, p).item = i /\ Result(scan, at, i, p).part = p
    BY DEF Result, Messages
<1>2. \A at \in 1..MaxWalks, items \in SUBSET Items :
        Complete(scan, at, items) \in Messages /\ Complete(scan, at, items).kind = "complete"
    BY DEF Complete, Messages
<1>3. Failed(scan) \in Messages /\ Failed(scan).kind = "failed"
    BY DEF Failed, Messages
<1> QED
    BY <1>1, <1>2, <1>3 DEF FitMessages

\* XADD: the stream keeps a suffix of itself and the new entry, and what was
\* cut is recorded as lost; if nothing was lost, nothing was cut.
LEMMA PublishEffect ==
    ASSUME results \in Seq(FitMessages), lost \subseteq FitMessages,
           NEW m \in FitMessages, Publish(<<m>>)
    PROVE  /\ results' \in Seq(FitMessages)
           /\ lost' \subseteq FitMessages
           /\ lost \subseteq lost'
           /\ ToSet(results') \cup lost' = ToSet(results) \cup {m} \cup lost
           /\ \E cut \in 0..(Len(results) + 1) :
                /\ Len(results') = Len(results) + 1 - cut
                /\ \A j \in 1..Len(results') :
                     results'[j] = IF j + cut <= Len(results) THEN results[j + cut] ELSE m
                /\ cut > 0 => lost' # {}
<1> DEFINE all == results \o <<m>>
<1>1. /\ all \in Seq(FitMessages)
      /\ Len(all) = Len(results) + 1
      /\ \A j \in 1..Len(all) : all[j] = IF j <= Len(results) THEN results[j] ELSE m
    OBVIOUS
<1>2. PICK cut \in 0..(IF Len(all) > StreamCap THEN Len(all) - StreamCap ELSE 0) :
        /\ results' = SubSeq(all, cut + 1, Len(all))
        /\ lost' = lost \cup ToSet(SubSeq(all, 1, cut))
    BY DEF Publish
<1> DEFINE gone == SubSeq(all, 1, cut)
<1>3. Len(results) \in Nat /\ cut \in Nat /\ cut \in 0..(Len(results) + 1)
    BY <1>1, <1>2, LimitsAssumption
<1> HIDE DEF all
<1>4. /\ results' \in Seq(FitMessages)
      /\ Len(results') = Len(all) - cut
      /\ \A j \in 1..Len(results') : results'[j] = all[j + cut]
    <2>1. \A j \in (cut + 1)..Len(all) : all[j] \in FitMessages
        BY <1>1, <1>3
    <2>2. /\ SubSeq(all, cut + 1, Len(all)) \in Seq(FitMessages)
          /\ Len(SubSeq(all, cut + 1, Len(all))) = Len(all) - cut
          /\ \A j \in 1..(Len(all) - cut) :
               SubSeq(all, cut + 1, Len(all))[j] = all[cut + 1 + j - 1]
        BY <1>1, <1>3, <2>1
    <2> QED
        BY <1>1, <1>2, <1>3, <2>2
<1>5. /\ gone \in Seq(FitMessages)
      /\ Len(gone) = cut
      /\ \A j \in 1..cut : gone[j] = all[j]
      /\ lost' = lost \cup ToSet(gone)
    BY <1>1, <1>2, <1>3
<1> HIDE DEF gone
<1>6. lost \subseteq lost' /\ lost' \subseteq FitMessages
    <2>1. ToSet(gone) \subseteq FitMessages
        BY <1>5, <1>1, <1>3 DEF ToSet
    <2> QED
        BY <1>5, <2>1
<1>7. cut > 0 => lost' # {}
    <2>1. cut > 0 => all[1] \in ToSet(gone)
        BY <1>3, <1>5 DEF ToSet
    <2> QED
        BY <1>5, <2>1
<1>8. \A e : e \in ToSet(results') \cup lost' <=> e \in ToSet(results) \cup {m} \cup lost
    <2> SUFFICES ASSUME NEW e
                 PROVE  e \in ToSet(results') \cup lost' <=> e \in ToSet(results) \cup {m} \cup lost
        OBVIOUS
    <2>1. e \in ToSet(results') <=> \E j \in (cut + 1)..Len(all) : all[j] = e
        <3>1. e \in ToSet(results') <=> \E j \in 1..Len(results') : all[j + cut] = e
            <4>1. e \in ToSet(results') <=> \E j \in 1..Len(results') : results'[j] = e
                BY <1>4 DEF ToSet
            <4> QED
                BY <1>4, <4>1
        <3>2. ASSUME NEW j \in (cut + 1)..Len(all), all[j] = e
              PROVE  \E k \in 1..Len(results') : all[k + cut] = e
            <4>1. j - cut \in 1..Len(results') /\ (j - cut) + cut = j
                BY <1>1, <1>3, <1>4
            <4> QED
                BY <3>2, <4>1
        <3>3. \A j \in 1..Len(results') : j + cut \in (cut + 1)..Len(all)
            BY <1>1, <1>3, <1>4
        <3> QED
            BY <3>1, <3>2, <3>3
    <2>2. e \in ToSet(gone) <=> \E j \in 1..cut : all[j] = e
        BY <1>5 DEF ToSet
    <2>3. e \in ToSet(results) \cup {m} <=> \E j \in 1..Len(all) : all[j] = e
        <3>1. e \in ToSet(results) <=> \E j \in 1..Len(results) : results[j] = e
            BY DEF ToSet
        <3>2. Len(all) \in 1..Len(all) /\ all[Len(all)] = m
            BY <1>1, <1>3
        <3>3. \A j \in 1..Len(results) : j \in 1..Len(all) /\ all[j] = results[j]
            BY <1>1, <1>3
        <3>4. \A j \in 1..Len(all) : j \in 1..Len(results) \/ all[j] = m
            BY <1>1, <1>3
        <3> QED
            BY <3>1, <3>2, <3>3, <3>4
    <2>4. \A j \in 1..Len(all) : j \in 1..cut \/ j \in (cut + 1)..Len(all)
        BY <1>1, <1>3
    <2>5. 1..cut \subseteq 1..Len(all) /\ (cut + 1)..Len(all) \subseteq 1..Len(all)
        BY <1>1, <1>3
    <2> QED
        BY <1>5, <2>1, <2>2, <2>3, <2>4, <2>5
<1>9. /\ Len(results') = Len(results) + 1 - cut
      /\ \A j \in 1..Len(results') :
           results'[j] = IF j + cut <= Len(results) THEN results[j + cut] ELSE m
    BY <1>1, <1>3, <1>4
<1> QED
    BY <1>3, <1>4, <1>6, <1>7, <1>8, <1>9

-----------------------------------------------------------------------------
(* The types.                                                               *)

\* Spending leaves the budget within its bounds and lowers what was spent.
LEMMA SpendEffect ==
    ASSUME budget \in Budgets
    PROVE  /\ Spend("faults") => /\ budget' \in Budgets
                                 /\ budget'.faults < budget.faults
                                 /\ budget'.disk = budget.disk
           /\ Spend("disk") => budget' \in Budgets /\ budget'.faults = budget.faults
           /\ Spend("failures") => budget' \in Budgets /\ budget'.faults = budget.faults
<1>1. ASSUME Spend("faults")
      PROVE  budget' \in Budgets /\ budget'.faults < budget.faults /\ budget'.disk = budget.disk
    BY <1>1, LimitsAssumption DEF Spend, Budgets
<1>2. ASSUME Spend("disk")
      PROVE  budget' \in Budgets /\ budget'.faults = budget.faults
    BY <1>2, LimitsAssumption DEF Spend, Budgets
<1>3. ASSUME Spend("failures")
      PROVE  budget' \in Budgets /\ budget'.faults = budget.faults
    BY <1>3, LimitsAssumption DEF Spend, Budgets
<1> QED
    BY <1>1, <1>2, <1>3

\* A server that is not idle holds a message of the stream.
LEMMA ServerBusy ==
    ASSUME Types, server.pc # "idle"
    PROVE  server \in ServerBusyType /\ server.msg \in FitMessages
BY DEF Types, ServerTypes, IdleServer, ServerBusyType

\* An idle agent or server is well typed, whatever it did before.
LEMMA IdleTypes ==
    /\ IdleAgent \in AgentType /\ IdleAgent.pc = "idle"
    /\ IdleAgent.todo = {} /\ IdleAgent.sent = {}
    /\ \A i \in Items : IdleAgent.out[i] < Parts[i]
    /\ IdleServer.pc = "idle"
BY PartsAssumption, LimitsAssumption DEF IdleAgent, AgentType, NothingOut, IdleServer

\* A command taken from the stream or from the pending entries is a scan, and
\* the stream and the pending entries stay well typed.
LEMMA TakeTypes ==
    ASSUME CmdTypes, NEW scan \in 1..MaxScans, TakeCommand(scan)
    PROVE  commands' \in Seq(1..MaxScans) /\ cmdPending' \subseteq 1..MaxScans
<1>1. CASE commands # <<>> /\ commands' = Tail(commands) /\ UNCHANGED cmdPending
    BY <1>1 DEF CmdTypes
<1>2. CASE cmdPending' = cmdPending \ {scan} /\ UNCHANGED commands
    BY <1>2 DEF CmdTypes
<1> QED
    BY <1>1, <1>2 DEF TakeCommand

\* Somebody else's disk, the command stream and a refused scan keep the types.
LEMMA TypesCommands ==
    ASSUME Types, DiskChange \/ RunDirectoryScan \/ \E scan \in 1..MaxScans : RefuseScan(scan)
    PROVE  Types'
<1> USE DEF Types
<1>1. CASE DiskChange
    BY <1>1, SpendEffect DEF DiskChange, agentVars, serverVars, CmdTypes, AgentTypes, StreamTypes,
                             ServerTypes, DbTypes
<1>2. CASE RunDirectoryScan
    <2>1. commands' \in Seq(1..MaxScans) /\ issued' \in 0..MaxScans
        BY <1>2, LimitsAssumption DEF RunDirectoryScan, CmdTypes
    <2> QED
        BY <1>2, <2>1 DEF RunDirectoryScan, serverVars, CmdTypes, AgentTypes, StreamTypes,
                          ServerTypes, DbTypes
<1>3. ASSUME NEW scan \in 1..MaxScans, RefuseScan(scan)
      PROVE  Types'
    <2>1. commands' \in Seq(1..MaxScans) /\ cmdPending' \subseteq 1..MaxScans
        BY <1>3, TakeTypes DEF RefuseScan
    <2>2. budget' \in Budgets
        BY <1>3, SpendEffect DEF RefuseScan
    <2>3. results' \in Seq(FitMessages) /\ lost' \subseteq FitMessages
        BY <1>3, PublishEffect, MadeMessages DEF RefuseScan, StreamTypes
    <2>4. answered' \subseteq 1..MaxScans /\ unanswered' \subseteq 1..MaxScans
        BY <1>3 DEF RefuseScan, CmdTypes
    <2> QED
        BY <1>3, <2>1, <2>2, <2>3, <2>4 DEF RefuseScan, serverVars, CmdTypes, AgentTypes,
                                            StreamTypes, ServerTypes, DbTypes
<1> QED
    BY <1>1, <1>2, <1>3

\* What the walk publishes next is a message of the stream.
LEMMA NextPart ==
    ASSUME Types, agent.pc = "walking", NEW i \in agent.todo
    PROVE  /\ i \in Items /\ agent.out[i] \in Nat /\ Parts[i] \in Nat \ {0}
           /\ agent.out[i] < Parts[i]
           /\ Result(agent.scan, clock, i, agent.out[i]) \in FitMessages
<1>1. i \in Items /\ agent.out[i] \in Nat /\ agent.out[i] < Parts[i]
      /\ agent.scan \in 1..MaxScans /\ clock \in 1..MaxWalks
    BY LimitsAssumption DEF Types, CmdTypes, AgentTypes, AgentType
<1> QED
    BY <1>1, MadeMessages, PartsAssumption

\* An agent's record has five fields, and its record with one entry of out and
\* the two sets replaced is well typed.
LEMMA AgentRecord ==
    ASSUME agent \in AgentType, NEW i \in Items, NEW n \in Nat, NEW t \in SUBSET Items,
           NEW e \in SUBSET Items
    PROVE  [pc |-> agent.pc, scan |-> agent.scan, todo |-> t, sent |-> e,
            out |-> [agent.out EXCEPT ![i] = n]] \in AgentType
BY DEF AgentType

\* SendPart moves item i one part on, or from the items to do to those sent.
LEMMA SendPartAgent ==
    ASSUME Types, NEW i \in Items, SendPart(i)
    PROVE  /\ agent' \in AgentType
           /\ agent'.pc = agent.pc /\ agent'.scan = agent.scan
           /\ \/ /\ agent.out[i] + 1 < Parts[i]
                 /\ agent'.out = [agent.out EXCEPT ![i] = agent.out[i] + 1]
                 /\ agent'.todo = agent.todo /\ agent'.sent = agent.sent
              \/ /\ agent.out[i] + 1 = Parts[i]
                 /\ agent'.out = [agent.out EXCEPT ![i] = 0]
                 /\ agent'.todo = agent.todo \ {i} /\ agent'.sent = agent.sent \cup {i}
           /\ \A k \in Items : agent'.out[k] < Parts[k]
<1>1. /\ agent \in AgentType /\ agent.out[i] < Parts[i] /\ agent.out[i] \in Nat
      /\ Parts[i] \in Nat /\ agent.todo \in SUBSET Items /\ agent.sent \in SUBSET Items
    BY PartsAssumption DEF Types, AgentTypes, AgentType
<1>4. agent.out \in [Items -> Nat] /\ \A k \in Items : agent.out[k] < Parts[k]
    BY DEF Types, AgentTypes, AgentType
<1>5. Parts[i] \in Nat \ {0}
    BY PartsAssumption
<1>2. CASE agent.out[i] + 1 < Parts[i]
    <2>1. agent' = [agent EXCEPT !.out[i] = @ + 1]
        BY <1>2 DEF SendPart
    <2>2. agent' = [pc |-> agent.pc, scan |-> agent.scan, todo |-> agent.todo,
                    sent |-> agent.sent, out |-> [agent.out EXCEPT ![i] = agent.out[i] + 1]]
        BY <1>1, <2>1 DEF AgentType
    <2>3. agent.out[i] + 1 \in Nat
        BY <1>1
    <2>4. agent' \in AgentType
        BY <1>1, <2>2, <2>3, AgentRecord
    <2>5. \A k \in Items : agent'.out[k] < Parts[k]
        BY <1>2, <1>4, <2>2
    <2>6. /\ agent'.pc = agent.pc /\ agent'.scan = agent.scan
          /\ agent'.out = [agent.out EXCEPT ![i] = agent.out[i] + 1]
          /\ agent'.todo = agent.todo /\ agent'.sent = agent.sent
        BY <2>2
    <2> QED
        BY <1>2, <2>4, <2>5, <2>6
<1>3. CASE ~(agent.out[i] + 1 < Parts[i])
    <2>1. agent' = [agent EXCEPT !.out[i] = 0, !.todo = @ \ {i}, !.sent = @ \cup {i}]
        BY <1>3 DEF SendPart
    <2>2. agent' = [pc |-> agent.pc, scan |-> agent.scan, todo |-> agent.todo \ {i},
                    sent |-> agent.sent \cup {i}, out |-> [agent.out EXCEPT ![i] = 0]]
        BY <1>1, <2>1 DEF AgentType
    <2>3. agent.todo \ {i} \in SUBSET Items /\ agent.sent \cup {i} \in SUBSET Items
        BY <1>1
    <2>4. agent.out[i] + 1 = Parts[i]
        BY <1>1, <1>3
    <2>5. agent' \in AgentType
        BY <1>1, <2>2, <2>3, AgentRecord
    <2>6. \A k \in Items : agent'.out[k] < Parts[k]
        BY <1>4, <1>5, <2>2
    <2>7. /\ agent'.pc = agent.pc /\ agent'.scan = agent.scan
          /\ agent'.out = [agent.out EXCEPT ![i] = 0]
          /\ agent'.todo = agent.todo \ {i} /\ agent'.sent = agent.sent \cup {i}
        BY <2>2
    <2> QED
        BY <2>4, <2>5, <2>6, <2>7
<1> QED
    BY <1>2, <1>3

\* SkipItem takes item i from the items to do.
LEMMA SkipItemAgent ==
    ASSUME Types, NEW i \in Items, SkipItem(i)
    PROVE  /\ agent' \in AgentType
           /\ agent'.pc = agent.pc /\ agent'.scan = agent.scan
           /\ agent'.out = [agent.out EXCEPT ![i] = 0]
           /\ agent'.todo = agent.todo \ {i} /\ agent'.sent = agent.sent
           /\ \A k \in Items : agent'.out[k] < Parts[k]
<1>1. agent \in AgentType /\ agent.todo \ {i} \in SUBSET Items /\ agent.sent \in SUBSET Items
    BY DEF Types, AgentTypes, AgentType
<1>2. agent' = [agent EXCEPT !.out[i] = 0, !.todo = @ \ {i}]
    BY DEF SkipItem
<1>3. agent' = [pc |-> agent.pc, scan |-> agent.scan, todo |-> agent.todo \ {i},
                sent |-> agent.sent, out |-> [agent.out EXCEPT ![i] = 0]]
    BY <1>1, <1>2 DEF AgentType
<1>4. agent.out \in [Items -> Nat] /\ \A k \in Items : agent.out[k] < Parts[k]
    BY DEF Types, AgentTypes, AgentType
<1>5. Parts[i] \in Nat \ {0}
    BY PartsAssumption
<1> QED
    BY <1>1, <1>3, <1>4, <1>5, AgentRecord

\* A step of the walk keeps the types.
LEMMA TypesWalk ==
    ASSUME Types, \/ \E scan \in 1..MaxScans : StartWalk(scan)
                  \/ \E i \in Items : SendPart(i) \/ SkipItem(i)
    PROVE  Types'
<1> USE DEF Types
<1>1. ASSUME NEW scan \in 1..MaxScans, StartWalk(scan)
      PROVE  Types'
    <2>1. commands' \in Seq(1..MaxScans) /\ cmdPending' \subseteq 1..MaxScans
        BY <1>1, TakeTypes DEF StartWalk
    <2>2. clock' \in 0..MaxWalks /\ clock' >= 1
        BY <1>1, LimitsAssumption DEF StartWalk, CmdTypes
    <2>3. /\ agent' \in AgentType
          /\ agent'.scan \in 1..MaxScans
          /\ \A i \in Items : agent'.out[i] < Parts[i]
        BY <1>1, PartsAssumption, LimitsAssumption DEF StartWalk, AgentType, NothingOut
    <2> QED
        BY <1>1, <2>1, <2>2, <2>3 DEF StartWalk, serverVars, CmdTypes, AgentTypes,
                                      StreamTypes, ServerTypes, DbTypes
<1>2. ASSUME NEW i \in Items, SendPart(i)
      PROVE  Types'
    <2>0. agent.pc = "walking" /\ i \in agent.todo
        BY <1>2 DEF SendPart
    <2>1. results' \in Seq(FitMessages) /\ lost' \subseteq FitMessages
        BY <1>2, <2>0, PublishEffect, NextPart DEF SendPart, StreamTypes
    <2>2. /\ agent' \in AgentType
          /\ agent'.pc = agent.pc /\ agent'.scan = agent.scan
          /\ \A k \in Items : agent'.out[k] < Parts[k]
        BY <1>2, SendPartAgent
    <2> QED
        BY <1>2, <2>1, <2>2 DEF SendPart, serverVars, CmdTypes, AgentTypes, StreamTypes,
                                ServerTypes, DbTypes
<1>3. ASSUME NEW i \in Items, SkipItem(i)
      PROVE  Types'
    <2>1. /\ agent' \in AgentType
          /\ agent'.pc = agent.pc /\ agent'.scan = agent.scan
          /\ \A k \in Items : agent'.out[k] < Parts[k]
        BY <1>3, SkipItemAgent
    <2>2. budget' \in Budgets
        BY <1>3, SpendEffect DEF SkipItem
    <2> QED
        BY <1>3, <2>1, <2>2 DEF SkipItem, serverVars, CmdTypes, AgentTypes, StreamTypes,
                                ServerTypes, DbTypes
<1> QED
    BY <1>1, <1>2, <1>3

\* What the agent's subscriber leaves behind is commands.
LEMMA AbandonedCommands ==
    ASSUME CmdTypes, NEW held \in SUBSET (1..MaxScans), AbandonCommands(held)
    PROVE  commands' \in Seq(1..MaxScans) /\ cmdPending' \subseteq 1..MaxScans
<1>1. CASE commands # <<>> /\ commands' = Tail(commands)
           /\ cmdPending' = cmdPending \cup held \cup {Head(commands)}
    <2> DEFINE S == 1..MaxScans
    <2>0. commands \in Seq(S) /\ commands # <<>>
        BY <1>1 DEF CmdTypes
    <2> HIDE DEF S
    <2>1. Head(commands) \in S /\ Tail(commands) \in Seq(S)
        BY <2>0
    <2> USE DEF S
    <2> QED
        BY <1>1, <2>1 DEF CmdTypes
<1>2. CASE commands' = commands /\ cmdPending' = cmdPending \cup held
    BY <1>2 DEF CmdTypes
<1> QED
    BY <1>1, <1>2 DEF AbandonCommands

\* What the server's subscriber leaves behind is messages: the stream is left as
\* it is or loses its first entry.
LEMMA AbandonedResults ==
    ASSUME StreamTypes, NEW held \in SUBSET FitMessages, AbandonResults(held)
    PROVE  /\ results' \in Seq(FitMessages) /\ resPending' \subseteq FitMessages
           /\ \/ results' = results /\ resPending' = resPending \cup held
              \/ /\ Len(results) > 0 /\ Len(results') = Len(results) - 1
                 /\ \A j \in 1..Len(results') : results'[j] = results[j + 1]
                 /\ resPending' = resPending \cup held \cup {results[1]}
<1>1. CASE results # <<>> /\ results' = Tail(results)
           /\ resPending' = resPending \cup held \cup {Head(results)}
    <2>1. /\ Head(results) = results[1] /\ results[1] \in FitMessages
          /\ Tail(results) \in Seq(FitMessages)
          /\ Len(results) > 0 /\ Len(Tail(results)) = Len(results) - 1
          /\ \A j \in 1..Len(Tail(results)) : Tail(results)[j] = results[j + 1]
        BY <1>1 DEF StreamTypes
    <2> QED
        BY <1>1, <2>1 DEF StreamTypes
<1>2. CASE results' = results /\ resPending' = resPending \cup held
    BY <1>2 DEF StreamTypes
<1> QED
    BY <1>1, <1>2 DEF AbandonResults

\* The end of a walk, however it ends, keeps the types.
LEMMA TypesWalkEnds ==
    ASSUME Types, EndWalk \/ AgentCrash \/ AgentStop \/ ClaimRunningCommand
    PROVE  Types'
<1> USE DEF Types
<1>0. agent.pc = "walking" /\ agent.scan \in 1..MaxScans /\ clock \in 1..MaxWalks
      /\ agent.sent \in SUBSET Items
    BY LimitsAssumption DEF EndWalk, AgentCrash, AgentStop, ClaimRunningCommand, CmdTypes,
                            AgentTypes, AgentType
<1>1. CASE EndWalk
    <2>1. results' \in Seq(FitMessages) /\ lost' \subseteq FitMessages
        BY <1>0, <1>1, PublishEffect, MadeMessages DEF EndWalk, StreamTypes
    <2>2. budget' \in Budgets
        BY <1>1, SpendEffect DEF EndWalk
    <2>3. answered' \subseteq 1..MaxScans /\ unanswered' \subseteq 1..MaxScans
        BY <1>0, <1>1 DEF EndWalk, CmdTypes
    <2> QED
        BY <1>1, <2>1, <2>2, <2>3, IdleTypes DEF EndWalk, serverVars, CmdTypes, AgentTypes,
                                StreamTypes, ServerTypes, DbTypes
<1>2. CASE AgentCrash
    <2>1. commands' \in Seq(1..MaxScans) /\ cmdPending' \subseteq 1..MaxScans
        BY <1>0, <1>2, AbandonedCommands DEF AgentCrash
    <2> QED
        BY <1>0, <1>2, <2>1, IdleTypes, SpendEffect DEF AgentCrash, serverVars, CmdTypes, AgentTypes,
                                StreamTypes, ServerTypes, DbTypes
<1>3. CASE AgentStop
    <2>1. commands' \in Seq(1..MaxScans) /\ cmdPending' \subseteq 1..MaxScans
        BY <1>3, AbandonedCommands DEF AgentStop
    <2> QED
        BY <1>0, <1>3, <2>1, IdleTypes, SpendEffect DEF AgentStop, serverVars, CmdTypes, AgentTypes,
                                StreamTypes, ServerTypes, DbTypes
<1>4. CASE ClaimRunningCommand
    BY <1>0, <1>4, SpendEffect DEF ClaimRunningCommand, serverVars, CmdTypes, AgentTypes,
                                StreamTypes, ServerTypes, DbTypes
<1> QED
    BY <1>1, <1>2, <1>3, <1>4

\* What a message the consumer takes is, and what is left of the stream.
LEMMA ReceiveEffect ==
    ASSUME Types, NEW m \in resPending \cup ToSet(results), Receive(m)
    PROVE  /\ m \in FitMessages
           /\ server.pc = "idle" /\ server'.pc = "handling" /\ server'.msg = m
           /\ server' \in ServerBusyType
           /\ results' \in Seq(FitMessages)
           /\ resPending' \subseteq resPending
           /\ \/ /\ m \in resPending /\ resPending' = resPending \ {m} /\ results' = results
              \/ /\ resPending' = resPending
                 /\ Len(results) > 0 /\ results[1] = m /\ Len(results') = Len(results) - 1
                 /\ \A j \in 1..Len(results') : results'[j] = results[j + 1]
<1>1. results \in Seq(FitMessages) /\ resPending \subseteq FitMessages
    BY DEF Types, StreamTypes
<1>2. CASE m \in resPending /\ resPending' = resPending \ {m} /\ UNCHANGED results
    <2>1. m \in FitMessages
        BY <1>1, <1>2
    <2> QED
        BY <1>1, <1>2, <2>1, LimitsAssumption DEF Receive, ServerBusyType
<1>3. CASE results # <<>> /\ m = Head(results) /\ results' = Tail(results) /\ UNCHANGED resPending
    <2>1. /\ m \in FitMessages /\ results' \in Seq(FitMessages)
          /\ Len(results) > 0 /\ results[1] = m /\ Len(results') = Len(results) - 1
          /\ \A j \in 1..Len(results') : results'[j] = results[j + 1]
        BY <1>1, <1>3
    <2>2. server.pc = "idle" /\ server' = [pc |-> "handling", attempt |-> 0, msg |-> m]
        BY DEF Receive
    <2>3. server' \in ServerBusyType /\ server'.pc = "handling" /\ server'.msg = m
        BY <2>1, <2>2, LimitsAssumption DEF ServerBusyType
    <2> QED
        BY <1>3, <2>1, <2>2, <2>3
<1> QED
    BY <1>2, <1>3 DEF Receive

\* A record written by the handler stays a record.
LEMMA DbWrite ==
    ASSUME DbTypes, NEW r \in Records, NEW at \in 0..MaxWalks, NEW ref \in Nat
    PROVE  /\ [db EXCEPT ![r] = [at |-> at, ref |-> ref]] \in [Records -> [at: 0..MaxWalks, ref: Nat]]
           /\ [db EXCEPT ![r].at = at] \in [Records -> [at: 0..MaxWalks, ref: Nat]]
           /\ db[r].ref \in Nat
BY DEF DbTypes

\* The handler's own steps keep the types.
LEMMA TypesHandler ==
    ASSUME Types, \/ \E m \in resPending \cup ToSet(results) : Receive(m)
                  \/ UpsertDirectory \/ UpsertFiles \/ CompleteScan \/ ReportScanFailure
    PROVE  Types'
<1>1. ASSUME NEW m \in resPending \cup ToSet(results), Receive(m)
      PROVE  Types'
    <2>1. /\ results' \in Seq(FitMessages) /\ resPending' \subseteq resPending
          /\ server' \in ServerBusyType /\ server'.pc = "handling"
        BY <1>1, ReceiveEffect
    <2> QED
        BY <1>1, <2>1 DEF Receive, agentVars, Types, CmdTypes, AgentTypes, StreamTypes,
                          ServerTypes, DbTypes
<1>2. CASE UpsertDirectory
    <2>1. /\ server.pc = "handling" /\ server.msg.kind = "result" /\ server.msg.part = 0
          /\ server' = [server EXCEPT !.pc = "files"]
        BY <1>2 DEF UpsertDirectory
    <2>2. server \in ServerBusyType /\ server.msg \in FitMessages
        BY <2>1, ServerBusy
    <2>3. <<server.msg.item, 0>> \in Records /\ server.msg.at \in 0..MaxWalks
        <3>1. <<server.msg.item, 0>> \in Records /\ server.msg.at \in 1..MaxWalks
            BY <2>1, <2>2, MessageFields
        <3> QED
            BY <3>1
    <2>4. server' \in ServerBusyType /\ server'.msg = server.msg
        BY <2>1, <2>2 DEF ServerBusyType
    <2>5. db' \in [Records -> [at: 0..MaxWalks, ref: Nat]] /\ nextOid' \in Nat
        <3>1. DbTypes /\ nextOid \in Nat
            BY DEF Types, DbTypes
        <3>2. CASE db[<<server.msg.item, 0>>].at = 0
            <4>1. db' = [db EXCEPT ![<<server.msg.item, 0>>] =
                            [at |-> server.msg.at, ref |-> nextOid]] /\ nextOid' = nextOid + 1
                BY <1>2, <3>2 DEF UpsertDirectory
            <4>2. db' \in [Records -> [at: 0..MaxWalks, ref: Nat]]
                BY <2>3, <3>1, <4>1, DbWrite
            <4> QED
                BY <3>1, <4>1, <4>2
        <3>3. CASE db[<<server.msg.item, 0>>].at # 0
            <4>1. db' = [db EXCEPT ![<<server.msg.item, 0>>].at = server.msg.at]
                  /\ nextOid' = nextOid
                BY <1>2, <3>3 DEF UpsertDirectory
            <4> QED
                BY <2>3, <3>1, <4>1, DbWrite
        <3> QED
            BY <3>2, <3>3
    <2> QED
        BY <1>2, <2>1, <2>4, <2>5 DEF UpsertDirectory, agentVars, Types, CmdTypes, AgentTypes,
                                      StreamTypes, ServerTypes, DbTypes
<1>3. CASE UpsertFiles
    <2>1. server.pc # "idle" /\ server.msg.kind = "result"
        BY <1>3 DEF UpsertFiles, Types, ServerTypes
    <2>2. server.msg \in FitMessages
        BY <2>1, ServerBusy
    <2>3. <<server.msg.item, 0>> \in Records /\ <<server.msg.item, server.msg.part + 1>> \in Records
          /\ server.msg.at \in 0..MaxWalks
        BY <2>1, <2>2, MessageFields
    <2>4. db' \in [Records -> [at: 0..MaxWalks, ref: Nat]]
        <3>1. DbTypes
            BY DEF Types
        <3>2. db[<<server.msg.item, 0>>].ref \in Nat
            BY <2>3, <3>1, DbWrite
        <3> QED
            BY <1>3, <2>3, <3>1, <3>2, DbWrite DEF UpsertFiles
    <2> QED
        BY <1>3, <2>2, <2>4, IdleTypes DEF UpsertFiles, Acknowledge, agentVars, Types, CmdTypes,
                                      AgentTypes, StreamTypes, ServerTypes, DbTypes
<1>4. CASE CompleteScan
    <2>1. server.msg \in FitMessages
        BY <1>4, ServerBusy DEF CompleteScan
    <2>2. db' \in [Records -> [at: 0..MaxWalks, ref: Nat]]
        <3>1. db \in [Records -> [at: 0..MaxWalks, ref: Nat]]
            BY DEF Types, DbTypes
        <3>2. NoRecord \in [at: 0..MaxWalks, ref: Nat]
            BY LimitsAssumption DEF NoRecord
        <3> QED
            BY <1>4, <3>1, <3>2 DEF CompleteScan, DeleteStaleRecords
    <2> QED
        BY <1>4, <2>1, <2>2, IdleTypes DEF CompleteScan, Acknowledge, agentVars, Types, CmdTypes,
                                      AgentTypes, StreamTypes, ServerTypes, DbTypes
<1>5. CASE ReportScanFailure
    <2>1. server.msg \in FitMessages
        BY <1>5, ServerBusy DEF ReportScanFailure
    <2> QED
        BY <1>5, <2>1, IdleTypes DEF ReportScanFailure, Acknowledge, agentVars, Types, CmdTypes,
                                      AgentTypes, StreamTypes, ServerTypes, DbTypes
<1> QED
    BY <1>1, <1>2, <1>3, <1>4, <1>5

\* Failures and crashes of the consumer keep the types.
LEMMA TypesConsumerFaults ==
    ASSUME Types, HandlerError \/ ServerCrash \/ ServerStop \/ ClaimRunningResult
    PROVE  Types'
<1>0. server.pc # "idle"
    BY DEF HandlerError, ServerCrash, ServerStop, ClaimRunningResult
<1>1. server \in ServerBusyType /\ server.msg \in FitMessages
    BY <1>0, ServerBusy
<1>2. budget' \in Budgets
    BY SpendEffect DEF HandlerError, ServerCrash, ServerStop, ClaimRunningResult, Types
<1>3. CASE HandlerError
    <2>1. CASE MayRetry
        <3>1. server' = [server EXCEPT !.pc = "handling", !.attempt = @ + 1] /\ lost' = lost
            BY <1>3, <2>1 DEF HandlerError
        <3>2. server' = [pc |-> "handling", attempt |-> server.attempt + 1, msg |-> server.msg]
            BY <1>1, <3>1 DEF ServerBusyType
        <3>3. server.attempt + 1 \in 0..MaxAttempts
            BY <1>1, <2>1, LimitsAssumption DEF ServerBusyType, MayRetry
        <3>4. server' \in ServerBusyType /\ server'.pc = "handling"
            BY <1>1, <3>2, <3>3 DEF ServerBusyType
        <3> QED
            BY <1>3, <1>2, <3>1, <3>4 DEF HandlerError, agentVars, Types, CmdTypes, AgentTypes,
                                          StreamTypes, ServerTypes, DbTypes
    <2>2. CASE ~MayRetry
        BY <1>1, <1>3, <1>2, <2>2, IdleTypes DEF HandlerError, agentVars, Types, CmdTypes,
                                      AgentTypes, StreamTypes, ServerTypes, DbTypes
    <2> QED
        BY <2>1, <2>2
<1>4. CASE ServerCrash
    <2>1. results' \in Seq(FitMessages) /\ resPending' \subseteq FitMessages
        BY <1>1, <1>4, AbandonedResults DEF ServerCrash, Types
    <2> QED
        BY <1>2, <1>4, <2>1, IdleTypes DEF ServerCrash, agentVars, Types, CmdTypes, AgentTypes,
                                      StreamTypes, ServerTypes, DbTypes
<1>5. CASE ServerStop
    <2>1. results' \in Seq(FitMessages) /\ resPending' \subseteq FitMessages
        BY <1>5, AbandonedResults DEF ServerStop, Types
    <2> QED
        BY <1>1, <1>2, <1>5, <2>1, IdleTypes DEF ServerStop, agentVars, Types, CmdTypes, AgentTypes,
                                      StreamTypes, ServerTypes, DbTypes
<1>6. CASE ClaimRunningResult
    BY <1>1, <1>2, <1>6 DEF ClaimRunningResult, agentVars, Types, CmdTypes, AgentTypes,
                            StreamTypes, ServerTypes, DbTypes
<1> QED
    BY <1>3, <1>4, <1>5, <1>6

\* Every step keeps the types.
LEMMA TypesNext ==
    ASSUME Types, [Next]_vars
    PROVE  Types'
<1>1. CASE Next
    BY <1>1, TypesCommands, TypesWalk, TypesWalkEnds, TypesHandler, TypesConsumerFaults
       DEF Next, Agent, AgentFaults, Server, ServerFaults
<1>2. CASE UNCHANGED vars
    BY <1>2 DEF vars, Types, CmdTypes, AgentTypes, StreamTypes, ServerTypes, DbTypes
<1> QED
    BY <1>1, <1>2

\* The types hold at the start.
LEMMA TypesInit == Init => Types
<1> SUFFICES ASSUME Init
             PROVE  Types
    OBVIOUS
<1>1. NoRecord \in [at: 0..MaxWalks, ref: Nat]
    BY LimitsAssumption DEF NoRecord
<1>2. budget \in Budgets
    BY LimitsAssumption DEF Init, Budgets
<1>3. DbTypes /\ CmdTypes /\ StreamTypes
    BY <1>1, LimitsAssumption DEF Init, DbTypes, CmdTypes, StreamTypes
<1>4. ServerTypes /\ AgentTypes
    BY IdleTypes DEF Init, ServerTypes, AgentTypes
<1> QED
    BY <1>2, <1>3, <1>4 DEF Init, Types

\* The types of the runs follow from the types proved here.
LEMMA TypesImplyTypeOK == Types => TypeOK
<1> SUFFICES ASSUME Types
             PROVE  TypeOK
    OBVIOUS
<1>1. FitMessages \subseteq Messages
    BY DEF FitMessages
<1>2. results \in Seq(Messages)
    BY <1>1 DEF Types, StreamTypes
<1>3. server = IdleServer
      \/ server \in [pc: {"handling", "files"}, attempt: 0..MaxAttempts, msg: Messages]
    BY <1>1 DEF Types, ServerTypes, ServerBusyType
<1> QED
    BY <1>1, <1>2, <1>3 DEF Types, CmdTypes, AgentTypes, AgentType, StreamTypes, DbTypes, TypeOK

\* Both streams, the two handlers and the collection are well typed in every
\* state: in particular every result names a part its item has, and the handler
\* is never attempted more than MaxAttempts times after its first failure.
THEOREM TypeCorrect == Spec => []TypeOK
<1>1. Spec => []Types
    BY TypesInit, TypesNext, PTL DEF Spec
<1> QED
    BY <1>1, TypesImplyTypeOK, PTL

-----------------------------------------------------------------------------
(* The completion is the last entry of its walk.                            *)

OrderInv == StreamInOrder /\ CompletionIsLast

\* Publishing keeps the order: a result carries the number of the running walk,
\* a completion that of the walk it ends.
LEMMA OrderPublish ==
    ASSUME Types, OrderInv, NEW m \in FitMessages, Publish(<<m>>), clock' = clock,
           m.kind = "result" => m.at = clock /\ agent.pc = "walking",
           m.kind = "complete" => m.at = clock /\ agent'.pc = "idle",
           agent'.pc = "walking" => agent.pc = "walking"
    PROVE  OrderInv'
<1>0. /\ results \in Seq(FitMessages) /\ Len(results) \in Nat /\ lost \subseteq FitMessages
      /\ clock \in Nat
      /\ \A j \in 1..Len(results) : results[j] \in FitMessages
    BY DEF Types, StreamTypes, CmdTypes
<1>1. PICK cut \in 0..(Len(results) + 1) :
        /\ Len(results') = Len(results) + 1 - cut
        /\ \A j \in 1..Len(results') :
             results'[j] = IF j + cut <= Len(results) THEN results[j + cut] ELSE m
    BY <1>0, PublishEffect
<1>2. \A j \in 1..Len(results') :
        \/ /\ j + cut \in 1..Len(results) /\ results'[j] = results[j + cut]
        \/ /\ j = Len(results') /\ results'[j] = m
    BY <1>0, <1>1
<1>3. /\ \A j \in 1..Len(results) : Timed(results[j]) => results[j].at <= clock
      /\ \A j, k \in 1..Len(results) :
           j < k /\ Timed(results[j]) /\ Timed(results[k]) => results[j].at <= results[k].at
      /\ \A j \in 1..Len(results) : results[j].kind = "complete" =>
           /\ \A k \in (j + 1)..Len(results) :
                results[k].kind = "result" => results[k].at > results[j].at
           /\ agent.pc = "walking" => clock > results[j].at
    BY DEF OrderInv, StreamInOrder, CompletionIsLast
<1>4. /\ \A j \in 1..Len(results) : Timed(results[j]) => results[j].at \in Nat
      /\ Timed(m) => m.at = clock
    BY <1>0, TimedAt
<1>5. \A j \in 1..Len(results') : Timed(results'[j]) => results'[j].at <= clock
    BY <1>0, <1>2, <1>3, <1>4
<1>6. ASSUME NEW j \in 1..Len(results'), NEW k \in 1..Len(results'), j < k,
             Timed(results'[j]), Timed(results'[k])
      PROVE  results'[j].at <= results'[k].at
    <2>1. j + cut \in 1..Len(results) /\ results'[j] = results[j + cut]
        BY <1>0, <1>1, <1>2, <1>6
    <2>2. CASE k + cut \in 1..Len(results) /\ results'[k] = results[k + cut]
        <3>1. j + cut < k + cut
            BY <1>6
        <3> QED
            BY <1>3, <1>6, <2>1, <2>2, <3>1
    <2>3. CASE results'[k] = m
        BY <1>3, <1>4, <1>6, <2>1, <2>3
    <2> QED
        BY <1>2, <2>2, <2>3
<1>7. ASSUME NEW j \in 1..Len(results'), results'[j].kind = "complete"
      PROVE  /\ \A k \in (j + 1)..Len(results') :
                  results'[k].kind = "result" => results'[k].at > results'[j].at
             /\ agent'.pc = "walking" => clock > results'[j].at
    <2>1. CASE j + cut \in 1..Len(results) /\ results'[j] = results[j + cut]
        <3>1. ASSUME NEW k \in (j + 1)..Len(results'), results'[k].kind = "result"
              PROVE  results'[k].at > results'[j].at
            <4>1. CASE k + cut \in 1..Len(results) /\ results'[k] = results[k + cut]
                <5>1. k + cut \in (j + cut + 1)..Len(results)
                    BY <4>1, <1>0, <1>1
                <5> QED
                    BY <1>3, <1>7, <2>1, <3>1, <4>1, <5>1
            <4>2. CASE results'[k] = m
                BY <1>3, <1>7, <2>1, <3>1, <4>2
            <4>3. k \in 1..Len(results')
                BY <1>0, <1>1
            <4> QED
                BY <1>2, <4>1, <4>2, <4>3
        <3> QED
            BY <1>3, <1>7, <2>1, <3>1
    <2>2. CASE j = Len(results') /\ results'[j] = m
        <3>1. ~ \E k \in (j + 1)..Len(results') : TRUE
            BY <2>2, <1>0, <1>1
        <3> QED
            BY <1>7, <2>2, <3>1
    <2> QED
        BY <1>2, <2>1, <2>2
<1> QED
    BY <1>5, <1>6, <1>7 DEF OrderInv, StreamInOrder, CompletionIsLast

\* Reading the stream's head, and anything that leaves the stream alone and
\* starts no walk, keeps the order.
LEMMA OrderRead ==
    ASSUME Types, OrderInv, clock' = clock, agent'.pc = "walking" => agent.pc = "walking",
           \/ results' = results
           \/ /\ Len(results) > 0 /\ Len(results') = Len(results) - 1
              /\ \A j \in 1..Len(results') : results'[j] = results[j + 1]
    PROVE  OrderInv'
<1>0. Len(results) \in Nat
    BY DEF Types, StreamTypes
<1>1. CASE results' = results
    BY <1>1 DEF OrderInv, StreamInOrder, CompletionIsLast
<1>2. CASE /\ Len(results) > 0 /\ Len(results') = Len(results) - 1
           /\ \A j \in 1..Len(results') : results'[j] = results[j + 1]
    <2>1. \A j \in 1..Len(results') : j + 1 \in 1..Len(results) /\ results'[j] = results[j + 1]
        BY <1>0, <1>2
    <2>2. StreamInOrder'
        <3>1. \A j \in 1..Len(results') : Timed(results'[j]) => results'[j].at <= clock
            BY <2>1 DEF OrderInv, StreamInOrder
        <3>2. ASSUME NEW j \in 1..Len(results'), NEW k \in 1..Len(results'), j < k,
                     Timed(results'[j]), Timed(results'[k])
              PROVE  results'[j].at <= results'[k].at
            <4>1. j + 1 < k + 1
                BY <3>2
            <4> QED
                BY <2>1, <3>2, <4>1 DEF OrderInv, StreamInOrder
        <3> QED
            BY <3>1, <3>2 DEF StreamInOrder
    <2>3. ASSUME NEW j \in 1..Len(results'), results'[j].kind = "complete"
          PROVE  /\ \A k \in (j + 1)..Len(results') :
                      results'[k].kind = "result" => results'[k].at > results'[j].at
                 /\ agent'.pc = "walking" => clock > results'[j].at
        <3>1. /\ \A k \in (j + 2)..Len(results) :
                   results[k].kind = "result" => results[k].at > results[j + 1].at
              /\ agent.pc = "walking" => clock > results[j + 1].at
            BY <2>1, <2>3 DEF OrderInv, CompletionIsLast
        <3>2. \A k \in (j + 1)..Len(results') :
                k + 1 \in (j + 2)..Len(results) /\ results'[k] = results[k + 1]
            BY <1>0, <1>2, <2>1
        <3> QED
            BY <2>1, <2>3, <3>1, <3>2
    <2> QED
        BY <2>2, <2>3 DEF OrderInv, CompletionIsLast
<1> QED
    BY <1>1, <1>2

\* Every step keeps the order.
LEMMA OrderNext ==
    ASSUME Types, OrderInv, [Next]_vars
    PROVE  OrderInv'
<1>1. ASSUME NEW scan \in 1..MaxScans, StartWalk(scan)
      PROVE  OrderInv'
    <2>1. /\ results \in Seq(FitMessages) /\ clock \in Nat
          /\ results' = results /\ clock' = clock + 1
        BY <1>1 DEF StartWalk, Types, StreamTypes, CmdTypes
    <2>2. \A j \in 1..Len(results) : Timed(results[j]) => results[j].at \in Nat
        BY <2>1, TimedAt
    <2>3. StreamInOrder'
        BY <2>1, <2>2 DEF OrderInv, StreamInOrder
    <2>4. \A j \in 1..Len(results) : results[j].kind = "complete" => clock + 1 > results[j].at
        BY <2>1, <2>2 DEF OrderInv, StreamInOrder, Timed
    <2> QED
        BY <2>1, <2>3, <2>4 DEF OrderInv, CompletionIsLast
<1>2. ASSUME NEW scan \in 1..MaxScans, RefuseScan(scan)
      PROVE  OrderInv'
    <2>1. clock' = clock /\ agent' = agent
        BY <1>2 DEF RefuseScan
    <2>2. Failed(scan) \in FitMessages /\ Failed(scan).kind = "failed"
        BY MadeMessages DEF Failed
    <2>3. CASE Publish(<<Failed(scan)>>)
        BY <2>1, <2>2, <2>3, OrderPublish
    <2>4. CASE results' = results
        BY <2>1, <2>4, OrderRead
    <2> QED
        BY <1>2, <2>3, <2>4 DEF RefuseScan
<1>3. ASSUME NEW i \in Items, SendPart(i)
      PROVE  OrderInv'
    <2> DEFINE m == Result(agent.scan, clock, i, agent.out[i])
    <2>1. /\ agent.pc = "walking" /\ i \in agent.todo /\ clock' = clock
          /\ Publish(<<m>>)
        BY <1>3 DEF SendPart
    <2>2. m \in FitMessages
        BY <2>1, NextPart
    <2>3. m.kind = "result" /\ m.at = clock
        BY DEF Result
    <2> HIDE DEF m
    <2> QED
        BY <2>1, <2>2, <2>3, OrderPublish
<1>4. CASE EndWalk
    <2>1. /\ agent.pc = "walking" /\ clock' = clock /\ agent' = IdleAgent
          /\ agent'.pc = "idle"
        BY <1>4, IdleTypes DEF EndWalk
    <2>2. agent.scan \in 1..MaxScans /\ clock \in 1..MaxWalks /\ agent.sent \in SUBSET Items
        BY <2>1, LimitsAssumption DEF Types, CmdTypes, AgentTypes, AgentType
    <2>3. CASE Publish(<<Complete(agent.scan, clock, agent.sent)>>)
        <3> DEFINE m == Complete(agent.scan, clock, agent.sent)
        <3>1. m \in FitMessages
            BY <2>2, MadeMessages
        <3>2. m.kind = "complete" /\ m.at = clock
            BY DEF Complete
        <3>3. Publish(<<m>>)
            BY <2>3
        <3> HIDE DEF m
        <3> QED
            BY <2>1, <3>1, <3>2, <3>3, OrderPublish
    <2>4. CASE Publish(<<Failed(agent.scan)>>)
        <3>1. Failed(agent.scan) \in FitMessages /\ Failed(agent.scan).kind = "failed"
            BY <2>2, MadeMessages DEF Failed
        <3> QED
            BY <2>1, <2>4, <3>1, OrderPublish
    <2>5. CASE results' = results
        BY <2>1, <2>5, OrderRead
    <2> QED
        BY <1>4, <2>3, <2>4, <2>5 DEF EndWalk
<1>5. ASSUME NEW m \in resPending \cup ToSet(results), Receive(m)
      PROVE  OrderInv'
    <2>1. clock' = clock /\ agent' = agent
        BY <1>5 DEF Receive, agentVars
    <2> QED
        BY <1>5, <2>1, ReceiveEffect, OrderRead
<1>6. ASSUME NEW i \in Items, SkipItem(i)
      PROVE  OrderInv'
    <2>1. results' = results /\ clock' = clock /\ agent'.pc = agent.pc
        BY <1>6, SkipItemAgent DEF SkipItem
    <2> QED
        BY <2>1, OrderRead
<1>7. CASE AgentCrash \/ AgentStop
    <2>1. results' = results /\ clock' = clock /\ agent'.pc = "idle"
        BY <1>7, IdleTypes DEF AgentCrash, AgentStop
    <2> QED
        BY <2>1, OrderRead
<1>8. CASE DiskChange \/ RunDirectoryScan \/ ClaimRunningCommand \/ UpsertDirectory \/ UpsertFiles
           \/ CompleteScan \/ ReportScanFailure \/ HandlerError \/ ClaimRunningResult \/ UNCHANGED vars
    <2>1. results' = results /\ clock' = clock /\ agent' = agent
        BY <1>8 DEF DiskChange, RunDirectoryScan, ClaimRunningCommand, UpsertDirectory, UpsertFiles,
                    CompleteScan, ReportScanFailure, HandlerError, ClaimRunningResult, agentVars,
                    serverVars, vars
    <2> QED
        BY <2>1, OrderRead
<1>9. CASE ServerCrash \/ ServerStop
    <2>1. /\ clock' = clock /\ agent' = agent /\ server.pc # "idle"
          /\ AbandonResults({server.msg}) \/ AbandonResults({})
        BY <1>9 DEF ServerCrash, ServerStop, agentVars
    <2>2. StreamTypes /\ server.msg \in FitMessages
        BY <2>1, ServerBusy DEF Types
    <2>3. \/ results' = results
          \/ /\ Len(results) > 0 /\ Len(results') = Len(results) - 1
             /\ \A j \in 1..Len(results') : results'[j] = results[j + 1]
        BY <2>1, <2>2, AbandonedResults
    <2> QED
        BY <2>1, <2>3, OrderRead
<1> QED
    BY <1>1, <1>2, <1>3, <1>4, <1>5, <1>6, <1>7, <1>8, <1>9
       DEF Next, Agent, AgentFaults, Server, ServerFaults

\* The completion of a walk is the last entry of the walk on the stream: no
\* result of the walk follows it, and none will, since the agent has finished.
THEOREM CompletionLast == Spec => []CompletionIsLast
<1>1. Init => OrderInv
    BY DEF Init, OrderInv, StreamInOrder, CompletionIsLast
<1>2. Spec => []Types
    BY TypesInit, TypesNext, PTL DEF Spec
<1>3. Types /\ OrderInv /\ [Next]_vars => OrderInv'
    BY OrderNext
<1>4. OrderInv => CompletionIsLast
    BY DEF OrderInv
<1> QED
    BY <1>1, <1>2, <1>3, <1>4, PTL DEF Spec

-----------------------------------------------------------------------------
(* No result of a completed item vanishes.                                  *)

VanishInv == WalkKnown /\ NothingVanishes

\* NothingVanishes, in terms of the messages known.
LEMMA VanishKnown ==
    NothingVanishes <=>
        \A m \in Known : m.kind = "complete" =>
            \A i \in m.items : \A p \in 0..(Parts[i] - 1) : Result(m.scan, m.at, i, p) \in Known
BY DEF NothingVanishes, Known, InFlight

\* The same in the next state.
LEMMA VanishKnownNext ==
    NothingVanishes' <=>
        \A m \in Known' : m.kind = "complete" =>
            \A i \in m.items : \A p \in 0..(Parts[i] - 1) : Result(m.scan, m.at, i, p) \in Known'
BY DEF NothingVanishes, Known, InFlight

\* A publish makes one message known, and forgets none.
LEMMA KnownPublish ==
    ASSUME Types, NEW m \in FitMessages, Publish(<<m>>), UNCHANGED serverVars
    PROVE  Known' = Known \cup {m}
<1>1. results \in Seq(FitMessages) /\ lost \subseteq FitMessages
    BY DEF Types, StreamTypes
<1>2. ToSet(results') \cup lost' = ToSet(results) \cup {m} \cup lost
    BY <1>1, PublishEffect
<1>3. ToSet(results)' = ToSet(results')
    BY DEF ToSet
<1>4. /\ resPending' = resPending /\ handled' = handled
      /\ InFlight' = InFlight
    BY DEF serverVars, InFlight
<1> QED
    BY <1>2, <1>3, <1>4 DEF Known

\* A step that touches neither the stream nor the consumer changes nothing that
\* is known.
LEMMA KnownSame ==
    ASSUME UNCHANGED <<serverVars, results, lost>>
    PROVE  Known' = Known
BY DEF serverVars, Known, InFlight, ToSet

\* Reading the first entry off the stream takes that entry from its set.
LEMMA HeadRead ==
    ASSUME results \in Seq(FitMessages), results' \in Seq(FitMessages),
           Len(results) > 0, Len(results') = Len(results) - 1,
           \A j \in 1..Len(results') : results'[j] = results[j + 1]
    PROVE  ToSet(results)' \cup {results[1]} = ToSet(results)
<1>1. \A e : e \in ToSet(results) <=> \E j \in 1..Len(results) : results[j] = e
    BY DEF ToSet
<1>2. \A e : e \in ToSet(results)' <=> \E j \in 1..Len(results') : results'[j] = e
    BY DEF ToSet
<1>3. Len(results) \in Nat /\ Len(results') \in Nat
    OBVIOUS
<1>4. ASSUME NEW j \in 1..Len(results)
      PROVE  results[j] = results[1] \/ \E k \in 1..Len(results') : results'[k] = results[j]
    <2>1. CASE j # 1
        <3>1. j - 1 \in 1..Len(results') /\ (j - 1) + 1 = j
            BY <1>3, <2>1
        <3> QED
            BY <3>1
    <2> QED
        BY <2>1
<1>5. \A k \in 1..Len(results') : k + 1 \in 1..Len(results) /\ results'[k] = results[k + 1]
    BY <1>3
<1>6. 1 \in 1..Len(results)
    BY <1>3
<1> QED
    BY <1>1, <1>2, <1>4, <1>5, <1>6

\* The consumer only moves messages: from the stream or the pending entries to
\* itself, and from itself to the handled, the lost or the pending ones.
LEMMA KnownConsumer ==
    ASSUME Types, Server \/ ServerFaults
    PROVE  Known' = Known
<1>1. ASSUME NEW m \in resPending \cup ToSet(results), Receive(m)
      PROVE  Known' = Known
    <2>1. /\ InFlight = {} /\ InFlight' = {m} /\ handled' = handled /\ lost' = lost
          /\ results \in Seq(FitMessages) /\ results' \in Seq(FitMessages)
        BY <1>1, ReceiveEffect DEF InFlight, Receive, Types, StreamTypes
    <2>2. CASE m \in resPending /\ resPending' = resPending \ {m} /\ results' = results
        BY <2>1, <2>2 DEF Known, ToSet
    <2>3. CASE /\ resPending' = resPending
               /\ Len(results) > 0 /\ results[1] = m /\ Len(results') = Len(results) - 1
               /\ \A j \in 1..Len(results') : results'[j] = results[j + 1]
        <3>1. ToSet(results)' \cup {m} = ToSet(results)
            BY <2>1, <2>3, HeadRead
        <3> QED
            BY <2>1, <2>3, <3>1 DEF Known
    <2> QED
        BY <1>1, <2>2, <2>3, ReceiveEffect
<1>2. CASE UpsertDirectory
    <2>1. server.pc # "idle" /\ server'.pc # "idle" /\ server'.msg = server.msg
        <3>1. server.pc = "handling" /\ server' = [server EXCEPT !.pc = "files"]
            BY <1>2 DEF UpsertDirectory
        <3>2. server \in ServerBusyType
            BY <3>1, ServerBusy
        <3> QED
            BY <3>1, <3>2 DEF ServerBusyType
    <2> QED
        BY <1>2, <2>1 DEF UpsertDirectory, Known, InFlight, ToSet
<1>3. CASE UpsertFiles \/ CompleteScan \/ ReportScanFailure
    <2>1. /\ server.pc # "idle" /\ Acknowledge /\ UNCHANGED <<results, resPending, lost>>
        BY <1>3 DEF UpsertFiles, CompleteScan, ReportScanFailure
    <2>2. server'.pc = "idle" /\ handled' = handled \cup {server.msg}
        BY <2>1, IdleTypes DEF Acknowledge
    <2> QED
        BY <2>1, <2>2 DEF Known, InFlight, ToSet
<1>4. CASE HandlerError
    <2>0. server.pc # "idle" /\ UNCHANGED <<results, resPending, handled>>
        BY <1>4 DEF HandlerError
    <2>1. CASE MayRetry
        <3>1. server' = [server EXCEPT !.pc = "handling", !.attempt = @ + 1] /\ lost' = lost
            BY <1>4, <2>1 DEF HandlerError
        <3>2. server \in ServerBusyType
            BY <2>0, ServerBusy
        <3>3. server'.pc # "idle" /\ server'.msg = server.msg
            BY <3>1, <3>2 DEF ServerBusyType
        <3> QED
            BY <2>0, <3>1, <3>3 DEF Known, InFlight, ToSet
    <2>2. CASE ~MayRetry
        <3>1. server'.pc = "idle" /\ lost' = lost \cup {server.msg}
            BY <1>4, <2>2, IdleTypes DEF HandlerError
        <3> QED
            BY <2>0, <3>1 DEF Known, InFlight, ToSet
    <2> QED
        BY <2>1, <2>2
<1>5. CASE ServerCrash \/ ServerStop
    <2>1. /\ server.pc # "idle" /\ server'.pc = "idle" /\ handled' = handled
          /\ StreamTypes /\ server.msg \in FitMessages
        BY <1>5, IdleTypes, ServerBusy DEF ServerCrash, ServerStop, Types
    <2>2. \/ AbandonResults({server.msg}) /\ lost' = lost
          \/ AbandonResults({}) /\ lost' = lost \cup {server.msg}
        BY <1>5 DEF ServerCrash, ServerStop
    <2>3. ASSUME NEW held \in {{server.msg}, {}}, AbandonResults(held)
          PROVE  ToSet(results)' \cup resPending' = ToSet(results) \cup resPending \cup held
        <3>1. results \in Seq(FitMessages) /\ held \subseteq FitMessages
            BY <2>1 DEF StreamTypes
        <3>2. /\ results' \in Seq(FitMessages)
              /\ \/ results' = results /\ resPending' = resPending \cup held
                 \/ /\ Len(results) > 0 /\ Len(results') = Len(results) - 1
                    /\ \A j \in 1..Len(results') : results'[j] = results[j + 1]
                    /\ resPending' = resPending \cup held \cup {results[1]}
            BY <2>1, <2>3, <3>1, AbandonedResults
        <3>3. CASE results' = results /\ resPending' = resPending \cup held
            BY <3>3 DEF ToSet
        <3>4. CASE /\ Len(results) > 0 /\ Len(results') = Len(results) - 1
                   /\ \A j \in 1..Len(results') : results'[j] = results[j + 1]
                   /\ resPending' = resPending \cup held \cup {results[1]}
            <4>1. ToSet(results)' \cup {results[1]} = ToSet(results)
                BY <3>1, <3>2, <3>4, HeadRead
            <4> QED
                BY <3>4, <4>1
        <3> QED
            BY <3>2, <3>3, <3>4
    <2>4. \/ /\ ToSet(results)' \cup resPending' = ToSet(results) \cup resPending \cup {server.msg}
             /\ lost' = lost
          \/ /\ ToSet(results)' \cup resPending' = ToSet(results) \cup resPending
             /\ lost' = lost \cup {server.msg}
        BY <2>2, <2>3
    <2>5. InFlight = {server.msg} /\ InFlight' = {}
        BY <2>1 DEF InFlight
    <2> QED
        BY <2>1, <2>4, <2>5 DEF Known
<1>6. CASE ClaimRunningResult
    BY <1>6 DEF ClaimRunningResult, Known, InFlight, ToSet
<1> QED
    BY <1>1, <1>2, <1>3, <1>4, <1>5, <1>6 DEF Server, ServerFaults

\* Growing by a message that is no completion keeps NothingVanishes.
LEMMA VanishGrows ==
    ASSUME NothingVanishes, Known \subseteq Known',
           \A m \in Known' : m \in Known \/ m.kind # "complete"
    PROVE  NothingVanishes'
BY VanishKnown, VanishKnownNext

\* A step that leaves the running walk alone, or ends it, keeps what the walk
\* has sent known.
LEMMA WalkKept ==
    ASSUME WalkKnown, Known \subseteq Known',
           agent'.pc = "walking" => /\ agent'.pc = agent.pc /\ agent'.scan = agent.scan
                                    /\ agent'.sent = agent.sent /\ agent'.todo \subseteq agent.todo
                                    /\ \A i \in agent'.todo : agent'.out[i] = agent.out[i]
                                    /\ clock' = clock
    PROVE  WalkKnown'
<1>1. SUFFICES ASSUME agent'.pc = "walking"
               PROVE  /\ \A i \in agent'.sent : \A p \in 0..(Parts[i] - 1) :
                           Result(agent'.scan, clock', i, p) \in Known'
                      /\ \A i \in agent'.todo : \A p \in 0..(agent'.out[i] - 1) :
                           Result(agent'.scan, clock', i, p) \in Known'
    BY DEF WalkKnown, Result
<1> QED
    BY <1>1 DEF WalkKnown

\* Every step keeps what has been sent known.
LEMMA VanishNext ==
    ASSUME Types, VanishInv, [Next]_vars
    PROVE  VanishInv'
<1>0. WalkKnown /\ NothingVanishes
    BY DEF VanishInv
<1>1. CASE Server \/ ServerFaults
    <2>1. Known' = Known /\ agent' = agent /\ clock' = clock
        <3>1. UNCHANGED agentVars
            BY <1>1 DEF Server, ServerFaults, Receive, UpsertDirectory, UpsertFiles, CompleteScan,
                        ReportScanFailure, HandlerError, ServerCrash, ServerStop, ClaimRunningResult
        <3> QED
            BY <1>1, <3>1, KnownConsumer DEF agentVars
    <2> QED
        BY <1>0, <2>1, VanishGrows, WalkKept DEF VanishInv
<1>2. CASE DiskChange \/ RunDirectoryScan \/ ClaimRunningCommand \/ UNCHANGED vars
    <2>1. UNCHANGED <<serverVars, results, lost>> /\ agent' = agent /\ clock' = clock
        BY <1>2 DEF DiskChange, RunDirectoryScan, ClaimRunningCommand, vars, agentVars, serverVars
    <2> QED
        BY <1>0, <2>1, KnownSame, VanishGrows, WalkKept DEF VanishInv
<1>3. CASE AgentCrash \/ AgentStop
    <2>1. UNCHANGED <<serverVars, results, lost>> /\ agent'.pc = "idle"
        BY <1>3, IdleTypes DEF AgentCrash, AgentStop
    <2> QED
        BY <1>0, <2>1, KnownSame, VanishGrows, WalkKept DEF VanishInv
<1>4. ASSUME NEW scan \in 1..MaxScans, StartWalk(scan)
      PROVE  VanishInv'
    <2>1. /\ UNCHANGED <<serverVars, results, lost>>
          /\ agent'.sent = {} /\ agent'.todo = disk /\ agent'.out = NothingOut
        BY <1>4 DEF StartWalk
    <2>2. disk \subseteq Items
        BY DEF Types
    <2>3. \A i \in disk : agent'.out[i] = 0
        BY <2>1, <2>2 DEF NothingOut
    <2>4. \A i \in agent'.todo : ~ \E p \in 0..(agent'.out[i] - 1) : TRUE
        BY <2>1, <2>3
    <2>5. WalkKnown'
        BY <2>1, <2>4 DEF WalkKnown
    <2> QED
        BY <1>0, <2>1, <2>5, KnownSame, VanishGrows DEF VanishInv
<1>5. ASSUME NEW i \in Items, SkipItem(i)
      PROVE  VanishInv'
    <2>1. /\ UNCHANGED <<serverVars, results, lost>> /\ clock' = clock
          /\ agent'.pc = agent.pc /\ agent'.scan = agent.scan /\ agent'.sent = agent.sent
          /\ agent'.todo = agent.todo \ {i} /\ agent'.out = [agent.out EXCEPT ![i] = 0]
        BY <1>5, SkipItemAgent DEF SkipItem
    <2>2. agent.out \in [Items -> Nat] /\ agent.todo \subseteq Items
        BY DEF Types, AgentTypes, AgentType
    <2>3. \A k \in agent'.todo : agent'.out[k] = agent.out[k]
        BY <2>1, <2>2
    <2>4. agent'.todo \subseteq agent.todo
        BY <2>1
    <2> QED
        BY <1>0, <2>1, <2>3, <2>4, KnownSame, VanishGrows, WalkKept DEF VanishInv
<1>6. ASSUME NEW scan \in 1..MaxScans, RefuseScan(scan)
      PROVE  VanishInv'
    <2>1. UNCHANGED serverVars /\ agent' = agent /\ clock' = clock /\ agent.pc = "idle"
        BY <1>6 DEF RefuseScan
    <2>2. Failed(scan) \in FitMessages /\ Failed(scan).kind = "failed"
        BY MadeMessages DEF Failed
    <2>3. Known' = Known \/ Known' = Known \cup {Failed(scan)}
        BY <1>6, <2>1, <2>2, KnownPublish, KnownSame DEF RefuseScan
    <2> QED
        BY <1>0, <2>1, <2>2, <2>3, VanishGrows, WalkKept DEF VanishInv
<1>7. ASSUME NEW i \in Items, SendPart(i)
      PROVE  VanishInv'
    <2> DEFINE m == Result(agent.scan, clock, i, agent.out[i])
    <2>1. /\ agent.pc = "walking" /\ i \in agent.todo /\ clock' = clock
          /\ Publish(<<m>>) /\ UNCHANGED serverVars
        BY <1>7 DEF SendPart
    <2>2. m \in FitMessages /\ m.kind = "result"
        BY <2>1, NextPart DEF Result
    <2>3. Known' = Known \cup {m}
        BY <2>1, <2>2, KnownPublish
    <2>4. NothingVanishes'
        BY <1>0, <2>2, <2>3, VanishGrows
    <2>5. /\ agent.out \in [Items -> Nat] /\ agent.todo \subseteq Items
          /\ agent.sent \subseteq Items /\ Parts[i] \in Nat /\ agent.out[i] \in Nat
        BY PartsAssumption DEF Types, AgentTypes, AgentType
    <2>6. /\ \A k \in agent.sent : \A p \in 0..(Parts[k] - 1) :
               Result(agent.scan, clock, k, p) \in Known
          /\ \A k \in agent.todo : \A p \in 0..(agent.out[k] - 1) :
               Result(agent.scan, clock, k, p) \in Known
        BY <1>0, <2>1 DEF WalkKnown
    <2>7. \A p \in 0..agent.out[i] : Result(agent.scan, clock, i, p) \in Known'
        <3>1. \A p \in 0..agent.out[i] : p \in 0..(agent.out[i] - 1) \/ p = agent.out[i]
            BY <2>5
        <3> QED
            BY <2>1, <2>3, <2>6, <3>1
    <2> HIDE DEF m
    <2>8. CASE /\ agent.out[i] + 1 < Parts[i]
               /\ agent'.out = [agent.out EXCEPT ![i] = agent.out[i] + 1]
               /\ agent'.todo = agent.todo /\ agent'.sent = agent.sent
        <3>1. (agent.out[i] + 1) - 1 = agent.out[i]
            BY <2>5
        <3>2. ASSUME NEW k \in agent'.todo, NEW p \in 0..(agent'.out[k] - 1)
              PROVE  Result(agent.scan, clock, k, p) \in Known'
            <4>1. CASE k = i
                <5>1. agent'.out[k] = agent.out[i] + 1
                    BY <2>5, <2>8, <4>1
                <5> QED
                    BY <2>7, <3>1, <3>2, <4>1, <5>1
            <4>2. CASE k # i
                <5>1. agent'.out[k] = agent.out[k] /\ k \in agent.todo
                    BY <2>5, <2>8, <4>2
                <5> QED
                    BY <2>3, <2>6, <3>2, <5>1
            <4> QED
                BY <4>1, <4>2
        <3>3. \A k \in agent'.sent : \A p \in 0..(Parts[k] - 1) :
                Result(agent.scan, clock, k, p) \in Known'
            BY <2>3, <2>6, <2>8
        <3>4. agent'.scan = agent.scan
            BY <1>7, SendPartAgent
        <3> QED
            BY <2>1, <2>4, <3>2, <3>3, <3>4 DEF VanishInv, WalkKnown, Result
    <2>9. CASE /\ agent.out[i] + 1 = Parts[i]
               /\ agent'.out = [agent.out EXCEPT ![i] = 0]
               /\ agent'.todo = agent.todo \ {i} /\ agent'.sent = agent.sent \cup {i}
        <3>1. Parts[i] - 1 = agent.out[i]
            BY <2>5, <2>9
        <3>2. ASSUME NEW k \in agent'.todo, NEW p \in 0..(agent'.out[k] - 1)
              PROVE  Result(agent.scan, clock, k, p) \in Known'
            <4>1. k # i /\ k \in agent.todo
                BY <2>9
            <4>2. agent'.out[k] = agent.out[k]
                BY <2>5, <2>9, <4>1
            <4> QED
                BY <2>3, <2>6, <3>2, <4>1, <4>2
        <3>3. \A k \in agent'.sent : \A p \in 0..(Parts[k] - 1) :
                Result(agent.scan, clock, k, p) \in Known'
            BY <2>3, <2>6, <2>7, <2>9, <3>1
        <3>4. agent'.scan = agent.scan
            BY <1>7, SendPartAgent
        <3> QED
            BY <2>1, <2>4, <3>2, <3>3, <3>4 DEF VanishInv, WalkKnown, Result
    <2> QED
        BY <1>7, <2>8, <2>9, SendPartAgent
<1>8. CASE EndWalk
    <2>1. /\ agent.pc = "walking" /\ agent'.pc = "idle" /\ UNCHANGED serverVars
        BY <1>8, IdleTypes DEF EndWalk
    <2>2. agent.scan \in 1..MaxScans /\ clock \in 1..MaxWalks /\ agent.sent \in SUBSET Items
        BY <2>1, LimitsAssumption DEF Types, CmdTypes, AgentTypes, AgentType
    <2>3. CASE Publish(<<Complete(agent.scan, clock, agent.sent)>>)
        <3> DEFINE m == Complete(agent.scan, clock, agent.sent)
        <3>1. m \in FitMessages
            BY <2>2, MadeMessages
        <3>2. Known' = Known \cup {m}
            BY <2>1, <2>3, <3>1, KnownPublish
        <3>3. m.scan = agent.scan /\ m.at = clock /\ m.items = agent.sent
            BY DEF Complete
        <3>4. \A i \in m.items : \A p \in 0..(Parts[i] - 1) : Result(m.scan, m.at, i, p) \in Known
            BY <1>0, <2>1, <3>3 DEF WalkKnown
        <3> HIDE DEF m
        <3>5. NothingVanishes'
            <4>1. \A n \in Known : n.kind = "complete" =>
                    \A i \in n.items : \A p \in 0..(Parts[i] - 1) :
                        Result(n.scan, n.at, i, p) \in Known
                BY <1>0, VanishKnown
            <4> QED
                BY <3>2, <3>4, <4>1, VanishKnownNext
        <3> QED
            BY <1>0, <2>1, <3>2, <3>5, WalkKept DEF VanishInv
    <2>4. CASE Publish(<<Failed(agent.scan)>>)
        <3>1. Failed(agent.scan) \in FitMessages /\ Failed(agent.scan).kind = "failed"
            BY <2>2, MadeMessages DEF Failed
        <3>2. Known' = Known \cup {Failed(agent.scan)}
            BY <2>1, <2>4, <3>1, KnownPublish
        <3> QED
            BY <1>0, <2>1, <3>1, <3>2, VanishGrows, WalkKept DEF VanishInv
    <2>5. CASE UNCHANGED <<results, lost>>
        BY <1>0, <2>1, <2>5, KnownSame, VanishGrows, WalkKept DEF VanishInv
    <2> QED
        BY <1>8, <2>3, <2>4, <2>5 DEF EndWalk
<1> QED
    BY <1>1, <1>2, <1>3, <1>4, <1>5, <1>6, <1>7, <1>8 DEF Next, Agent, AgentFaults

\* Through crashes, shutdowns, claims of running entries, retries and trims,
\* every part of an item a completion counts is on the stream, with the
\* consumer, pending, handled, or recorded as lost.
THEOREM NoResultVanishes == Spec => []NothingVanishes
<1>1. Init => VanishInv
    BY IdleTypes DEF Init, VanishInv, WalkKnown, NothingVanishes, ToSet
<1>2. Spec => []Types
    BY TypesInit, TypesNext, PTL DEF Spec
<1>3. Types /\ VanishInv /\ [Next]_vars => VanishInv'
    BY VanishNext
<1>4. VanishInv => NothingVanishes
    BY DEF VanishInv
<1> QED
    BY <1>1, <1>2, <1>3, <1>4, PTL DEF Spec

-----------------------------------------------------------------------------
(* The sweep leaves exactly what its walk found.                            *)

\* A fault ends the quiet, for good.
LEMMA FaultNotQuiet ==
    ASSUME Types, Spend("faults")
    PROVE  ~Quiet'
<1>1. budget \in Budgets
    BY DEF Types
<1>2. budget'.faults < budget.faults
    BY <1>1, SpendEffect
<1>3. budget.faults \in 0..MaxFaults
    BY <1>1 DEF Budgets
<1>4. budget'.faults # MaxFaults
    BY <1>2, <1>3, LimitsAssumption
<1> QED
    BY <1>4 DEF Quiet, NoFaults

\* What is ahead, entry by entry.
LEMMA AheadIs ==
    \A a : a \in Ahead <=>
        \/ \E j \in 1..Len(results) : Timed(results[j]) /\ a = results[j].at
        \/ server.pc # "idle" /\ Timed(server.msg) /\ a = server.msg.at
        \/ agent.pc = "walking" /\ a = clock
BY DEF Ahead, InFlight

\* The same in the next state.
LEMMA AheadIsNext ==
    \A a : a \in Ahead' <=>
        \/ \E j \in 1..Len(results') : Timed(results'[j]) /\ a = results'[j].at
        \/ server'.pc # "idle" /\ Timed(server'.msg) /\ a = server'.msg.at
        \/ agent'.pc = "walking" /\ a = clock'
BY DEF Ahead, InFlight

\* Everything ahead is a number of a walk.
LEMMA AheadNat ==
    ASSUME Types
    PROVE  \A a \in Ahead : a \in Nat
<1>1. \A j \in 1..Len(results) : Timed(results[j]) => results[j].at \in Nat
    BY TimedAt DEF Types, StreamTypes
<1>2. server.pc # "idle" /\ Timed(server.msg) => server.msg.at \in Nat
    BY ServerBusy, TimedAt
<1>3. clock \in Nat
    BY DEF Types, CmdTypes
<1> QED
    BY <1>1, <1>2, <1>3, AheadIs

\* While quiet a publish cuts nothing off the stream.
LEMMA QuietPublish ==
    ASSUME Types, NEW m \in FitMessages, Publish(<<m>>), lost' = {}
    PROVE  /\ Len(results) \in Nat /\ Len(results') = Len(results) + 1
           /\ \A j \in 1..Len(results') :
                \/ j \in 1..Len(results) /\ results'[j] = results[j]
                \/ results'[j] = m
<1>1. results \in Seq(FitMessages) /\ lost \subseteq FitMessages /\ Len(results) \in Nat
    BY DEF Types, StreamTypes
<1>2. PICK cut \in 0..(Len(results) + 1) :
        /\ Len(results') = Len(results) + 1 - cut
        /\ \A j \in 1..Len(results') :
             results'[j] = IF j + cut <= Len(results) THEN results[j + cut] ELSE m
        /\ cut > 0 => lost' # {}
    BY <1>1, PublishEffect
<1>3. cut = 0
    BY <1>2
<1>4. Len(results') = Len(results) + 1
    BY <1>1, <1>2, <1>3
<1>5. ASSUME NEW j \in 1..Len(results')
      PROVE  (j \in 1..Len(results) /\ results'[j] = results[j]) \/ results'[j] = m
    <2>1. j + cut = j /\ (j <= Len(results) => j \in 1..Len(results))
        BY <1>1, <1>3, <1>4
    <2> QED
        BY <1>2, <2>1
<1> QED
    BY <1>1, <1>4, <1>5

\* A step that leaves the database and the handled messages alone, and adds no
\* walk to those ahead, keeps the database behind and the results stored.
LEMMA StoredKept ==
    ASSUME DbNotAhead, HandledStored, UNCHANGED <<db, handled, clock>>, Ahead' \subseteq Ahead
    PROVE  DbNotAhead' /\ HandledStored'
BY DEF DbNotAhead, HandledStored, Timed

\* Steps of the agent that start no walk keep the quiet facts: what they publish
\* carries the number of the running walk, which is ahead already.
LEMMA QuietAgent ==
    ASSUME Types, QuietFacts, UNCHANGED serverVars, clock' = clock,
           agent'.pc = "walking" => agent.pc = "walking",
           \/ results' = results
           \/ \E m \in FitMessages :
                /\ Publish(<<m>>) /\ lost' = {}
                /\ Timed(m) => m.at = clock /\ agent.pc = "walking"
    PROVE  QuietFacts'
<1>0. /\ resPending' = resPending /\ server' = server /\ db' = db /\ handled' = handled
    BY DEF serverVars
<1>1. ASSUME NEW j \in 1..Len(results')
      PROVE  \/ j \in 1..Len(results) /\ results'[j] = results[j]
             \/ Timed(results'[j]) => results'[j].at = clock /\ agent.pc = "walking"
    <2>1. CASE results' = results
        BY <2>1
    <2>2. ASSUME NEW m \in FitMessages, Publish(<<m>>), lost' = {},
                 Timed(m) => m.at = clock /\ agent.pc = "walking"
          PROVE  \/ j \in 1..Len(results) /\ results'[j] = results[j]
                 \/ Timed(results'[j]) => results'[j].at = clock /\ agent.pc = "walking"
        BY <2>2, QuietPublish
    <2> QED
        BY <2>1, <2>2
<1>2. Ahead' \subseteq Ahead
    <2> SUFFICES ASSUME NEW a \in Ahead'
                 PROVE  a \in Ahead
        OBVIOUS
    <2> QED
        BY <1>0, <1>1, AheadIs, AheadIsNext
<1>3. DbNotAhead' /\ HandledStored'
    BY <1>0, <1>2, StoredKept DEF QuietFacts
<1>4. ConsumerInOrder'
    <2> SUFFICES ASSUME server.pc # "idle", Timed(server.msg)
                 PROVE  /\ server.msg.at <= clock
                        /\ \A k \in 1..Len(results') :
                             Timed(results'[k]) => server.msg.at <= results'[k].at
                        /\ server.msg.kind = "complete" =>
                             /\ \A k \in 1..Len(results') :
                                  results'[k].kind = "result" => results'[k].at > server.msg.at
                             /\ agent'.pc = "walking" => clock > server.msg.at
        BY <1>0 DEF ConsumerInOrder, Timed
    <2>1. /\ server.msg.at <= clock
          /\ \A k \in 1..Len(results) : Timed(results[k]) => server.msg.at <= results[k].at
          /\ server.msg.kind = "complete" =>
               /\ \A k \in 1..Len(results) :
                    results[k].kind = "result" => results[k].at > server.msg.at
               /\ agent.pc = "walking" => clock > server.msg.at
        BY DEF QuietFacts, ConsumerInOrder
    <2>2. \A k \in 1..Len(results') : Timed(results'[k]) => server.msg.at <= results'[k].at
        BY <1>1, <2>1
    <2>3. \A k \in 1..Len(results') : results'[k].kind = "result" => Timed(results'[k])
        BY DEF Timed
    <2>4. server.msg.kind = "complete" =>
            \A k \in 1..Len(results') :
                results'[k].kind = "result" => results'[k].at > server.msg.at
        BY <1>1, <2>1, <2>3
    <2> QED
        BY <2>1, <2>2, <2>4
<1> QED
    BY <1>0, <1>3, <1>4 DEF QuietFacts, DirectoryStored

\* A new walk is ahead of everything stored and handled.
LEMMA QuietStart ==
    ASSUME Types, QuietFacts, NEW scan \in 1..MaxScans, StartWalk(scan)
    PROVE  QuietFacts'
<1>0. /\ resPending' = resPending /\ server' = server /\ db' = db /\ handled' = handled
      /\ results' = results /\ clock' = clock + 1 /\ clock \in Nat
    BY DEF StartWalk, serverVars, Types, CmdTypes
<1>1. \A a \in Ahead' : a \in Ahead \/ a = clock + 1
    BY <1>0, AheadIs, AheadIsNext
<1>2. \A r \in Records : db[r].at \in Nat
    BY DEF Types, DbTypes
<1>3. DbNotAhead'
    BY <1>0, <1>1, <1>2 DEF QuietFacts, DbNotAhead
<1>4. HandledStored'
    <2>1. \A h \in handled : Timed(h) => h.at \in Nat /\ h.at <= clock
        BY TimedAt DEF Types, StreamTypes, QuietFacts, HandledStored
    <2>2. \A h \in handled : h.kind = "result" => Timed(h) /\ h.at # clock + 1
        BY <1>0, <2>1 DEF Timed
    <2>3. \A h \in handled : Timed(h) => h.at <= clock + 1
        BY <1>0, <2>1
    <2> QED
        BY <1>0, <1>1, <2>2, <2>3 DEF QuietFacts, HandledStored, Timed
<1>5. ConsumerInOrder'
    <2>1. server.pc # "idle" /\ Timed(server.msg) => server.msg.at \in Nat
        BY ServerBusy, TimedAt
    <2> QED
        BY <1>0, <2>1 DEF QuietFacts, ConsumerInOrder, Timed
<1> QED
    BY <1>0, <1>3, <1>4, <1>5 DEF QuietFacts, DirectoryStored

\* While quiet the consumer reads in order.
LEMMA QuietReceive ==
    ASSUME Types, OrderInv, QuietFacts, NEW m \in resPending \cup ToSet(results), Receive(m)
    PROVE  QuietFacts'
<1>0. /\ db' = db /\ handled' = handled /\ clock' = clock /\ agent' = agent
    BY DEF Receive, agentVars
<1>1. /\ m \in FitMessages /\ server.pc = "idle" /\ server'.pc = "handling" /\ server'.msg = m
      /\ resPending' = {}
      /\ Len(results) > 0 /\ results[1] = m /\ Len(results') = Len(results) - 1
      /\ \A j \in 1..Len(results') : results'[j] = results[j + 1]
    BY ReceiveEffect DEF QuietFacts
<1>2. /\ Len(results) \in Nat /\ 1 \in 1..Len(results)
      /\ \A j \in 1..Len(results') : /\ j + 1 \in 1..Len(results)
                                     /\ j + 1 \in 2..Len(results)
                                     /\ 1 < j + 1
                                     /\ results'[j] = results[j + 1]
    BY <1>1 DEF Types, StreamTypes
<1>3. Ahead' \subseteq Ahead
    <2> SUFFICES ASSUME NEW a \in Ahead'
                 PROVE  a \in Ahead
        OBVIOUS
    <2> QED
        BY <1>0, <1>1, <1>2, AheadIs, AheadIsNext
<1>4. DbNotAhead' /\ HandledStored'
    BY <1>0, <1>3, StoredKept DEF QuietFacts
<1>5. ConsumerInOrder'
    <2>1. /\ Timed(m) => m.at <= clock
          /\ \A k \in 1..Len(results') : Timed(m) /\ Timed(results'[k]) => m.at <= results'[k].at
        BY <1>1, <1>2 DEF OrderInv, StreamInOrder
    <2>2. m.kind = "complete" => /\ \A k \in 2..Len(results) :
                                      results[k].kind = "result" => results[k].at > m.at
                                 /\ agent.pc = "walking" => clock > m.at
        BY <1>1, <1>2 DEF OrderInv, CompletionIsLast
    <2>3. m.kind = "complete" => \A k \in 1..Len(results') :
                                   results'[k].kind = "result" => results'[k].at > m.at
        BY <1>2, <2>2
    <2> QED
        BY <1>0, <1>1, <2>1, <2>2, <2>3 DEF ConsumerInOrder, Timed
<1> QED
    BY <1>1, <1>4, <1>5 DEF QuietFacts, DirectoryStored

\* The consumer's message is the first of the walks ahead.
LEMMA ConsumerFirst ==
    ASSUME Types, QuietFacts, server.pc # "idle", Timed(server.msg)
    PROVE  /\ server.msg.at \in Ahead /\ server.msg.at \in Nat /\ server.msg.at <= clock
           /\ \A a \in Ahead : a \in Nat /\ server.msg.at <= a
<1>1. /\ server.msg.at <= clock
      /\ \A k \in 1..Len(results) : Timed(results[k]) => server.msg.at <= results[k].at
    BY DEF QuietFacts, ConsumerInOrder
<1>2. server.msg.at \in Ahead
    BY AheadIs
<1>3. \A a \in Ahead : a \in Nat
    BY AheadNat
<1>4. \A a \in Ahead : server.msg.at <= a
    BY <1>1, <1>2, <1>3, AheadIs
<1> QED
    BY <1>1, <1>2, <1>3, <1>4

\* A write of the handler stamps records with its walk or deletes older ones: it
\* neither overtakes a walk ahead nor disturbs what such a walk has stored.
LEMMA QuietWrite ==
    ASSUME Types, QuietFacts, server.pc # "idle", Timed(server.msg), Ahead' \subseteq Ahead,
           clock' = clock,
           \A r \in Records : \/ db'[r].at = db[r].at
                              \/ db'[r].at = server.msg.at
                              \/ db'[r].at = 0 /\ db[r].at < server.msg.at
    PROVE  /\ DbNotAhead'
           /\ \A a \in Ahead' : \A r \in Records : db[r].at = a => db'[r].at = a
<1>1. /\ server.msg.at \in Ahead /\ server.msg.at \in Nat /\ server.msg.at <= clock
      /\ \A a \in Ahead : a \in Nat /\ server.msg.at <= a
    BY ConsumerFirst
<1>2. /\ \A r \in Records : db[r].at <= clock
      /\ \A a \in Ahead : \A r \in Records : db[r].at <= a
    BY DEF QuietFacts, DbNotAhead
<1>3. clock \in Nat /\ \A r \in Records : db[r].at \in Nat
    BY DEF Types, CmdTypes, DbTypes
<1>4. \A r \in Records : db'[r].at <= clock
    BY <1>1, <1>2, <1>3
<1>5. \A a \in Ahead' : \A r \in Records : db'[r].at <= a
    BY <1>1, <1>2, <1>3
<1>6. ASSUME NEW a \in Ahead', NEW r \in Records, db[r].at = a
      PROVE  db'[r].at = a
    <2>1. a <= server.msg.at /\ server.msg.at <= a /\ a \in Nat
        BY <1>1, <1>2, <1>6
    <2>2. a = server.msg.at
        BY <1>1, <2>1
    <2> QED
        BY <1>1, <1>3, <1>6, <2>2
<1> QED
    BY <1>4, <1>5, <1>6 DEF DbNotAhead

\* The records of the results handled so far.
LEMMA HandledRecords ==
    ASSUME Types, NEW h \in handled, h.kind = "result"
    PROVE  <<h.item, 0>> \in Records /\ <<h.item, h.part + 1>> \in Records
BY MessageFields DEF Types, StreamTypes

\* A directory written by part 0 keeps the quiet facts.
LEMMA QuietDirectory ==
    ASSUME Types, QuietFacts, UpsertDirectory
    PROVE  QuietFacts'
<1> DEFINE m == server.msg
           d == <<server.msg.item, 0>>
<1>0. /\ server.pc = "handling" /\ m.kind = "result" /\ m.part = 0
      /\ server' = [server EXCEPT !.pc = "files"]
      /\ UNCHANGED <<agent, clock, results, resPending, handled>>
    BY DEF UpsertDirectory, agentVars
<1>1. server \in ServerBusyType /\ m \in FitMessages
    BY <1>0, ServerBusy
<1>2. server'.pc = "files" /\ server'.msg = m
    BY <1>0, <1>1 DEF ServerBusyType
<1>3. d \in Records /\ Timed(m)
    BY <1>0, <1>1, MessageFields, TimedAt
<1>4. \A r \in Records : r # d => db'[r] = db[r]
    BY <1>3 DEF UpsertDirectory, Types, DbTypes
<1>5. db'[d].at = m.at
    <2>1. db \in [Records -> [at: 0..MaxWalks, ref: Nat]]
        BY DEF Types, DbTypes
    <2>2. CASE db[d].at = 0
        <3>1. db' = [db EXCEPT ![d] = [at |-> m.at, ref |-> nextOid]]
            BY <2>2 DEF UpsertDirectory
        <3> QED
            BY <1>3, <2>1, <3>1
    <2>3. CASE db[d].at # 0
        <3>1. db' = [db EXCEPT ![d].at = m.at]
            BY <2>3 DEF UpsertDirectory
        <3> QED
            BY <1>3, <2>1, <3>1
    <2> QED
        BY <2>2, <2>3
<1>6. Ahead' \subseteq Ahead
    <2> SUFFICES ASSUME NEW a \in Ahead'
                 PROVE  a \in Ahead
        OBVIOUS
    <2> QED
        BY <1>0, <1>2, AheadIs, AheadIsNext
<1>7. /\ DbNotAhead'
      /\ \A a \in Ahead' : \A r \in Records : db[r].at = a => db'[r].at = a
    BY <1>0, <1>3, <1>4, <1>5, <1>6, QuietWrite
<1>8. HandledStored'
    BY <1>0, <1>6, <1>7, HandledRecords DEF QuietFacts, HandledStored, Timed
<1>9. ConsumerInOrder'
    BY <1>0, <1>2 DEF QuietFacts, ConsumerInOrder, Timed
<1> QED
    BY <1>0, <1>2, <1>5, <1>7, <1>8, <1>9 DEF QuietFacts, DirectoryStored

\* The media files of a part keep the quiet facts; the part counts as handled.
LEMMA QuietFiles ==
    ASSUME Types, QuietFacts, UpsertFiles
    PROVE  QuietFacts'
<1> DEFINE m == server.msg
           f == <<server.msg.item, server.msg.part + 1>>
<1>0. /\ server.pc # "idle" /\ m.kind = "result" /\ (server.pc = "files" \/ m.part > 0)
      /\ server' = IdleServer /\ handled' = handled \cup {m}
      /\ UNCHANGED <<agent, clock, results, resPending>>
    BY DEF UpsertFiles, Acknowledge, agentVars, Types, ServerTypes
<1>1. m \in FitMessages
    BY <1>0, ServerBusy
<1>2. server'.pc = "idle"
    BY <1>0, IdleTypes
<1>3. f \in Records /\ <<m.item, 0>> \in Records /\ Timed(m) /\ m.part \in Nat
    BY <1>0, <1>1, MessageFields, TimedAt
<1>4. db'[f].at = m.at /\ \A r \in Records : r # f => db'[r] = db[r]
    BY <1>3 DEF UpsertFiles, Types, DbTypes
<1>5. Ahead' \subseteq Ahead
    <2> SUFFICES ASSUME NEW a \in Ahead'
                 PROVE  a \in Ahead
        OBVIOUS
    <2> QED
        BY <1>0, <1>2, AheadIs, AheadIsNext
<1>6. /\ DbNotAhead'
      /\ \A a \in Ahead' : \A r \in Records : db[r].at = a => db'[r].at = a
    BY <1>0, <1>3, <1>4, <1>5, QuietWrite
<1>7. m.part = 0 => db'[<<m.item, 0>>].at = m.at
    <2>1. <<m.item, 0>> # f
        BY <1>3
    <2>2. m.part = 0 => db[<<m.item, 0>>].at = m.at
        BY <1>0, <1>3 DEF QuietFacts, DirectoryStored
    <2> QED
        BY <1>3, <1>4, <2>1, <2>2
<1>8. HandledStored'
    <2>1. \A h \in handled' : Timed(h) => h.at <= clock
        BY <1>0, <1>3, ConsumerFirst DEF QuietFacts, HandledStored
    <2>2. ASSUME NEW a \in Ahead', NEW h \in handled', h.kind = "result" /\ h.at = a
          PROVE  /\ db'[<<h.item, h.part + 1>>].at = a
                 /\ h.part = 0 => db'[<<h.item, 0>>].at = a
        <3>1. CASE h = m
            BY <1>4, <1>7, <2>2, <3>1
        <3>2. CASE h \in handled
            <4>1. /\ db[<<h.item, h.part + 1>>].at = a
                  /\ h.part = 0 => db[<<h.item, 0>>].at = a
                BY <1>5, <2>2, <3>2 DEF QuietFacts, HandledStored
            <4> QED
                BY <1>6, <2>2, <3>2, <4>1, HandledRecords
        <3> QED
            BY <1>0, <3>1, <3>2
    <2> QED
        BY <1>0, <2>1, <2>2 DEF HandledStored, Timed
<1>9. ConsumerInOrder' /\ DirectoryStored'
    BY <1>2 DEF ConsumerInOrder, DirectoryStored
<1> QED
    BY <1>0, <1>6, <1>8, <1>9 DEF QuietFacts

\* A sweep keeps the quiet facts: what a later walk stored is newer.
LEMMA QuietSweep ==
    ASSUME Types, QuietFacts, CompleteScan
    PROVE  QuietFacts'
<1> DEFINE m == server.msg
<1>0. /\ server.pc # "idle" /\ m.kind = "complete"
      /\ server' = IdleServer /\ handled' = handled \cup {m}
      /\ UNCHANGED <<agent, clock, results, resPending>>
      /\ db' = [r \in Records |-> IF db[r].at < m.at THEN NoRecord ELSE db[r]]
    BY DEF CompleteScan, DeleteStaleRecords, Acknowledge, agentVars
<1>1. m \in FitMessages /\ Timed(m)
    BY <1>0, ServerBusy DEF Timed
<1>2. server'.pc = "idle"
    BY <1>0, IdleTypes
<1>3. \A r \in Records : \/ db'[r].at = db[r].at
                         \/ db'[r].at = 0 /\ db[r].at < m.at
    BY <1>0 DEF NoRecord
<1>4. Ahead' \subseteq Ahead
    <2> SUFFICES ASSUME NEW a \in Ahead'
                 PROVE  a \in Ahead
        OBVIOUS
    <2> QED
        BY <1>0, <1>2, AheadIs, AheadIsNext
<1>5. /\ DbNotAhead'
      /\ \A a \in Ahead' : \A r \in Records : db[r].at = a => db'[r].at = a
    BY <1>0, <1>1, <1>3, <1>4, QuietWrite
<1>6. HandledStored'
    <2>1. \A h \in handled' : Timed(h) => h.at <= clock
        BY <1>0, <1>1, ConsumerFirst DEF QuietFacts, HandledStored
    <2>2. ASSUME NEW a \in Ahead', NEW h \in handled', h.kind = "result" /\ h.at = a
          PROVE  /\ db'[<<h.item, h.part + 1>>].at = a
                 /\ h.part = 0 => db'[<<h.item, 0>>].at = a
        <3>1. h \in handled
            BY <1>0, <2>2
        <3>2. /\ db[<<h.item, h.part + 1>>].at = a
              /\ h.part = 0 => db[<<h.item, 0>>].at = a
            BY <1>4, <2>2, <3>1 DEF QuietFacts, HandledStored
        <3> QED
            BY <1>5, <2>2, <3>1, <3>2, HandledRecords
    <2> QED
        BY <1>0, <2>1, <2>2 DEF HandledStored, Timed
<1>7. ConsumerInOrder' /\ DirectoryStored'
    BY <1>2 DEF ConsumerInOrder, DirectoryStored
<1> QED
    BY <1>0, <1>5, <1>6, <1>7 DEF QuietFacts

\* A failure report and a retry store nothing.
LEMMA QuietRest ==
    ASSUME Types, QuietFacts, ReportScanFailure \/ (HandlerError /\ MayRetry)
    PROVE  QuietFacts'
<1>1. CASE ReportScanFailure
    <2>0. /\ server.msg.kind = "failed" /\ server' = IdleServer
          /\ handled' = handled \cup {server.msg}
          /\ UNCHANGED <<agent, clock, results, resPending, db>>
        BY <1>1 DEF ReportScanFailure, Acknowledge, agentVars
    <2>1. server'.pc = "idle"
        BY <2>0, IdleTypes
    <2>2. Ahead' \subseteq Ahead
        <3> SUFFICES ASSUME NEW a \in Ahead'
                     PROVE  a \in Ahead
            OBVIOUS
        <3> QED
            BY <2>0, <2>1, AheadIs, AheadIsNext
    <2>3. DbNotAhead'
        BY <2>0, <2>2 DEF QuietFacts, DbNotAhead
    <2>4. HandledStored'
        BY <2>0, <2>2 DEF QuietFacts, HandledStored, Timed
    <2> QED
        BY <2>0, <2>1, <2>3, <2>4 DEF QuietFacts, ConsumerInOrder, DirectoryStored
<1>2. CASE HandlerError /\ MayRetry
    <2>0. /\ server.pc # "idle"
          /\ server' = [server EXCEPT !.pc = "handling", !.attempt = @ + 1]
          /\ UNCHANGED <<agent, clock, results, resPending, db, handled>>
        BY <1>2 DEF HandlerError, agentVars
    <2>1. server \in ServerBusyType
        BY <2>0, ServerBusy
    <2>2. server'.pc = "handling" /\ server'.msg = server.msg
        BY <2>0, <2>1 DEF ServerBusyType
    <2>3. Ahead' \subseteq Ahead
        <3> SUFFICES ASSUME NEW a \in Ahead'
                     PROVE  a \in Ahead
            OBVIOUS
        <3> QED
            BY <2>0, <2>2, AheadIs, AheadIsNext
    <2>4. DbNotAhead' /\ HandledStored'
        BY <2>0, <2>3, StoredKept DEF QuietFacts
    <2>5. ConsumerInOrder'
        BY <2>0, <2>2 DEF QuietFacts, ConsumerInOrder, Timed
    <2> QED
        BY <2>0, <2>2, <2>4, <2>5 DEF QuietFacts, DirectoryStored
<1> QED
    BY <1>1, <1>2

\* No step returns to the quiet: messages stay lost, and no fault is taken back.
LEMMA QuietBack ==
    ASSUME Types, [Next]_vars, Quiet'
    PROVE  Quiet
<1>1. lost \subseteq lost'
    <2>1. results \in Seq(FitMessages) /\ lost \subseteq FitMessages
        BY DEF Types, StreamTypes
    <2>2. \A m \in FitMessages : Publish(<<m>>) => lost \subseteq lost'
        BY <2>1, PublishEffect
    <2>3. ASSUME NEW i \in Items, SendPart(i)
          PROVE  lost \subseteq lost'
        <3>1. agent.pc = "walking" /\ i \in agent.todo
            BY <2>3 DEF SendPart
        <3> QED
            BY <2>2, <2>3, <3>1, NextPart DEF SendPart
    <2>4. ASSUME NEW scan \in 1..MaxScans, RefuseScan(scan)
          PROVE  lost \subseteq lost'
        BY <2>2, <2>4, MadeMessages DEF RefuseScan
    <2>5. ASSUME EndWalk
          PROVE  lost \subseteq lost'
        <3>1. agent.scan \in 1..MaxScans /\ clock \in 1..MaxWalks /\ agent.sent \in SUBSET Items
            BY <2>5, LimitsAssumption DEF EndWalk, Types, CmdTypes, AgentTypes, AgentType
        <3> QED
            BY <2>2, <2>5, <3>1, MadeMessages DEF EndWalk
    <2>6. ASSUME HandlerError
          PROVE  lost \subseteq lost'
        BY <2>6 DEF HandlerError
    <2>7. ASSUME \/ DiskChange \/ RunDirectoryScan \/ \E scan \in 1..MaxScans : StartWalk(scan)
                 \/ \E i \in Items : SkipItem(i)
                 \/ AgentCrash \/ AgentStop \/ ClaimRunningCommand
                 \/ Server \/ ServerCrash \/ ServerStop \/ ClaimRunningResult \/ UNCHANGED vars
          PROVE  lost \subseteq lost'
        BY <2>7 DEF DiskChange, RunDirectoryScan, StartWalk, SkipItem, AgentCrash, AgentStop,
                    ClaimRunningCommand, Server, Receive, UpsertDirectory, UpsertFiles, CompleteScan,
                    ReportScanFailure, ServerCrash, ServerStop, ClaimRunningResult, vars
    <2> QED
        BY <2>3, <2>4, <2>5, <2>6, <2>7 DEF Next, Agent, AgentFaults, ServerFaults
<1>2. budget'.faults <= budget.faults
    <2>1. budget \in Budgets /\ budget.faults \in Nat
        BY DEF Types, Budgets
    <2>2. Spend("faults") \/ Spend("disk") \/ Spend("failures") \/ UNCHANGED budget
        <3>1. CASE Agent \/ DiskChange \/ RunDirectoryScan \/ UNCHANGED vars
            BY <3>1 DEF Agent, DiskChange, RunDirectoryScan, StartWalk, SendPart, SkipItem, EndWalk,
                        vars
        <3>2. CASE AgentFaults \/ ServerFaults
            BY <3>2 DEF AgentFaults, RefuseScan, AgentCrash, AgentStop, ClaimRunningCommand,
                        ServerFaults, HandlerError, ServerCrash, ServerStop, ClaimRunningResult
        <3>3. CASE Server
            BY <3>3 DEF Server, Receive, UpsertDirectory, UpsertFiles, CompleteScan,
                        ReportScanFailure
        <3> QED
            BY <3>1, <3>2, <3>3 DEF Next
    <2>3. budget'.faults < budget.faults \/ budget'.faults = budget.faults
        BY <2>1, <2>2, SpendEffect
    <2>4. Spend("faults") => FALSE
        BY FaultNotQuiet
    <2>5. budget'.faults = budget.faults
        BY <2>1, <2>2, <2>4, SpendEffect
    <2> QED
        BY <2>1, <2>5
<1>3. budget.faults \in 0..MaxFaults /\ budget'.faults = MaxFaults /\ lost' = {}
    BY DEF Types, Budgets, Quiet, NoFaults
<1>4. budget.faults = MaxFaults
    BY <1>2, <1>3, LimitsAssumption
<1> QED
    BY <1>1, <1>3, <1>4 DEF Quiet, NoFaults

\* Every step keeps the quiet facts while it is quiet.
LEMMA QuietNext ==
    ASSUME Types, OrderInv, QuietInv, [Next]_vars
    PROVE  QuietInv'
<1> SUFFICES ASSUME Quiet'
             PROVE  QuietFacts'
    BY DEF QuietInv
<1>0. QuietFacts /\ lost' = {}
    BY QuietBack DEF QuietInv, Quiet
<1>1. CASE \/ AgentCrash \/ AgentStop \/ ClaimRunningCommand
           \/ ServerCrash \/ ServerStop \/ ClaimRunningResult
    BY <1>1, FaultNotQuiet DEF AgentCrash, AgentStop, ClaimRunningCommand, ServerCrash, ServerStop,
                               ClaimRunningResult
<1>2. CASE DiskChange \/ RunDirectoryScan \/ UNCHANGED vars
    <2>1. UNCHANGED <<serverVars, results, clock, agent>>
        BY <1>2 DEF DiskChange, RunDirectoryScan, vars, agentVars, serverVars
    <2> QED
        BY <1>0, <2>1, QuietAgent
<1>3. ASSUME NEW scan \in 1..MaxScans, StartWalk(scan)
      PROVE  QuietFacts'
    BY <1>0, <1>3, QuietStart
<1>4. ASSUME NEW scan \in 1..MaxScans, RefuseScan(scan)
      PROVE  QuietFacts'
    <2>1. UNCHANGED <<serverVars, clock, agent>>
        BY <1>4 DEF RefuseScan
    <2>2. Failed(scan) \in FitMessages /\ ~Timed(Failed(scan))
        BY MadeMessages DEF Failed, Timed
    <2>3. results' = results \/ Publish(<<Failed(scan)>>)
        BY <1>4 DEF RefuseScan
    <2> QED
        BY <1>0, <2>1, <2>2, <2>3, QuietAgent
<1>5. ASSUME NEW i \in Items, SendPart(i)
      PROVE  QuietFacts'
    <2> DEFINE m == Result(agent.scan, clock, i, agent.out[i])
    <2>1. /\ agent.pc = "walking" /\ i \in agent.todo /\ clock' = clock
          /\ Publish(<<m>>) /\ UNCHANGED serverVars
        BY <1>5 DEF SendPart
    <2>2. m \in FitMessages /\ m.at = clock
        BY <2>1, NextPart DEF Result
    <2> HIDE DEF m
    <2> QED
        BY <1>0, <2>1, <2>2, QuietAgent
<1>6. ASSUME NEW i \in Items, SkipItem(i)
      PROVE  QuietFacts'
    <2>1. UNCHANGED <<serverVars, results, clock>> /\ agent'.pc = agent.pc
        BY <1>6, SkipItemAgent DEF SkipItem
    <2> QED
        BY <1>0, <2>1, QuietAgent
<1>7. CASE EndWalk
    <2>1. /\ agent.pc = "walking" /\ clock' = clock /\ agent'.pc = "idle" /\ UNCHANGED serverVars
        BY <1>7, IdleTypes DEF EndWalk
    <2>2. agent.scan \in 1..MaxScans /\ clock \in 1..MaxWalks /\ agent.sent \in SUBSET Items
        BY <2>1, LimitsAssumption DEF Types, CmdTypes, AgentTypes, AgentType
    <2>3. CASE Publish(<<Complete(agent.scan, clock, agent.sent)>>)
        <3> DEFINE m == Complete(agent.scan, clock, agent.sent)
        <3>1. m \in FitMessages /\ m.at = clock
            BY <2>2, MadeMessages DEF Complete
        <3>2. Publish(<<m>>)
            BY <2>3
        <3> HIDE DEF m
        <3> QED
            BY <1>0, <2>1, <3>1, <3>2, QuietAgent
    <2>4. CASE Publish(<<Failed(agent.scan)>>)
        <3>1. Failed(agent.scan) \in FitMessages /\ ~Timed(Failed(agent.scan))
            BY <2>2, MadeMessages DEF Failed, Timed
        <3> QED
            BY <1>0, <2>1, <2>4, <3>1, QuietAgent
    <2>5. CASE results' = results
        BY <1>0, <2>1, <2>5, QuietAgent
    <2> QED
        BY <1>7, <2>3, <2>4, <2>5 DEF EndWalk
<1>8. CASE Server
    BY <1>0, <1>8, QuietReceive, QuietDirectory, QuietFiles, QuietSweep, QuietRest DEF Server
<1>9. CASE HandlerError
    <2>1. CASE MayRetry
        BY <1>0, <1>9, <2>1, QuietRest
    <2>2. CASE ~MayRetry
        BY <1>0, <1>9, <2>2 DEF HandlerError
    <2> QED
        BY <2>1, <2>2
<1> QED
    BY <1>1, <1>2, <1>3, <1>4, <1>5, <1>6, <1>7, <1>8, <1>9 DEF Next, Agent, AgentFaults, ServerFaults

\* A sweep while it is quiet: the walk's results have all been handled, hence
\* stored, and everything else in the database is older.
LEMMA SweepStep ==
    ASSUME Types, NothingVanishes, QuietInv, CompleteScan, NoFaults, lost = {}
    PROVE  /\ \A i \in server.msg.items : \A r \in RecordsOf(i) : db'[r].at = server.msg.at
           /\ \A r \in Records : db'[r].at \in {0, server.msg.at}
<1> DEFINE m == server.msg
<1>0. QuietFacts
    BY DEF QuietInv, Quiet
<1>1. /\ server.pc # "idle" /\ m.kind = "complete"
      /\ db' = [r \in Records |-> IF db[r].at < m.at THEN NoRecord ELSE db[r]]
    BY DEF CompleteScan, DeleteStaleRecords
<1>2. m \in FitMessages /\ Timed(m)
    BY <1>1, ServerBusy DEF Timed
<1>3. m.at \in 1..MaxWalks /\ m.items \subseteq Items
    BY <1>1, <1>2, MessageFields
<1>4. m.at \in Ahead /\ m.at \in Nat
    BY <1>0, <1>1, <1>2, ConsumerFirst
<1>5. \A r \in Records : db[r].at \in Nat /\ db[r].at <= m.at
    <2>1. \A r \in Records : db[r].at \in Nat
        BY DEF Types, DbTypes
    <2> QED
        BY <1>0, <1>4, <2>1 DEF QuietFacts, DbNotAhead
<1>6. \A r \in Records : db'[r].at = IF db[r].at < m.at THEN 0 ELSE db[r].at
    BY <1>1 DEF NoRecord
<1>7. \A r \in Records : db'[r].at \in {0, m.at}
    BY <1>4, <1>5, <1>6
<1>8. ASSUME NEW i \in m.items, NEW p \in 0..(Parts[i] - 1)
      PROVE  /\ db[<<i, p + 1>>].at = m.at
             /\ p = 0 => db[<<i, 0>>].at = m.at
    <2> DEFINE h == Result(m.scan, m.at, i, p)
    <2>1. h.kind = "result" /\ h.at = m.at /\ h.item = i /\ h.part = p
        BY DEF Result
    <2>2. h \in Known
        <3>1. m \in Known
            BY <1>1 DEF Known, InFlight
        <3> QED
            BY <1>1, <1>8, <3>1, VanishKnown
    <2> HIDE DEF h
    <2>3. h \notin ToSet(results)
        <3>1. \A k \in 1..Len(results) : results[k].kind = "result" => results[k].at > m.at
            BY <1>0, <1>1, <1>2 DEF QuietFacts, ConsumerInOrder
        <3>2. \A k \in 1..Len(results) : results[k] # h
            BY <1>4, <2>1, <3>1
        <3>3. results \in Seq(FitMessages)
            BY DEF Types, StreamTypes
        <3> QED
            BY <3>2, <3>3 DEF ToSet
    <2>4. h # m
        BY <1>1, <2>1
    <2>5. h \in handled
        BY <1>0, <1>1, <2>2, <2>3, <2>4 DEF Known, InFlight, QuietFacts
    <2> QED
        BY <1>0, <1>4, <2>1, <2>5 DEF QuietFacts, HandledStored
<1>9. ASSUME NEW i \in m.items, NEW r \in RecordsOf(i)
      PROVE  db'[r].at = m.at
    <2>1. i \in Items /\ Parts[i] \in Nat \ {0}
        BY <1>3, <1>9, PartsAssumption
    <2>2. PICK n \in 0..Parts[i] : r = <<i, n>>
        BY <1>9 DEF RecordsOf
    <2>3. r \in Records
        BY <1>9, <2>1 DEF Records
    <2>4. db[r].at = m.at
        <3>1. CASE n = 0
            <4>1. 0 \in 0..(Parts[i] - 1)
                BY <2>1
            <4> QED
                BY <1>8, <1>9, <2>2, <3>1, <4>1
        <3>2. CASE n # 0
            <4>1. n - 1 \in 0..(Parts[i] - 1) /\ (n - 1) + 1 = n
                BY <2>1, <2>2, <3>2
            <4>2. db[<<i, (n - 1) + 1>>].at = m.at
                BY <1>8, <1>9, <4>1
            <4> QED
                BY <2>2, <4>1, <4>2
        <3> QED
            BY <3>1, <3>2
    <2> QED
        BY <1>4, <1>6, <2>3, <2>4
<1> QED
    BY <1>7, <1>9

\* The sweep leaves exactly what its walk found, as long as no entry was
\* delivered twice and none was dropped: whatever the disk, the failed database
\* calls that were retried, and the other scans queued meanwhile.
THEOREM SweepCorrect == Spec => SweepExact
<1> DEFINE All == Types /\ OrderInv /\ VanishInv /\ QuietInv
<1>1. Init => All
    <2>1. Init => Types
        BY TypesInit
    <2>2. Init => OrderInv
        BY DEF Init, OrderInv, StreamInOrder, CompletionIsLast
    <2>3. Init => VanishInv
        BY IdleTypes DEF Init, VanishInv, WalkKnown, NothingVanishes, ToSet
    <2>4. ASSUME Init
          PROVE  QuietInv
        <3>1. \A a : a \notin Ahead
            BY <2>4, IdleTypes, AheadIs DEF Init
        <3>2. /\ resPending = {} /\ handled = {} /\ server.pc = "idle" /\ clock = 0
              /\ \A r \in Records : db[r].at = 0
            BY <2>4, IdleTypes DEF Init, NoRecord
        <3> QED
            BY <3>1, <3>2 DEF QuietInv, QuietFacts, ConsumerInOrder, DbNotAhead, HandledStored,
                              DirectoryStored
    <2> QED
        BY <2>1, <2>2, <2>3, <2>4
<1>2. All /\ [Next]_vars => All'
    BY TypesNext, OrderNext, VanishNext, QuietNext
<1>3. All => [CompleteScan /\ NoFaults /\ lost = {} =>
                /\ \A i \in server.msg.items : \A r \in RecordsOf(i) : db'[r].at = server.msg.at
                /\ \A r \in Records : db'[r].at \in {0, server.msg.at}]_vars
    BY SweepStep DEF VanishInv
<1> HIDE DEF All
<1> QED
    BY <1>1, <1>2, <1>3, PTL DEF Spec, SweepExact
=============================================================================
