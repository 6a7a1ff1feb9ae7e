------------------------- MODULE AgentPresenceProofs -------------------------
(***************************************************************************)
(* At most one process works for an agent slug, its presence does not      *)
(* flicker, and the watcher gives up on an agent in time: for any number   *)
(* of processes and any timing in which two heartbeats, or a start-up and  *)
(* a heartbeat, fit into the lock's time to live.                          *)
(*                                                                         *)
(* The argument: the lock of a process at work outlasts its next report,   *)
(* and if it has missed none so far, the one after that (Covered).  So the *)
(* key cannot expire under it, and SET NX lets nobody else in.  The        *)
(* presence key has the same margin (Visible), and what the watcher has    *)
(* missed is never less than how long the key has been gone (Sighted).     *)
(***************************************************************************)
EXTENDS AgentPresence, TLAPS

-----------------------------------------------------------------------------
(* Types.                                                                   *)

\* Types, step by step.
LEMMA InitType == Init => TypeOK
BY TimingAssumption DEF Init, TypeOK, NoLock

\* Spending from a budget keeps it a budget.
LEMMA SpendType ==
    ASSUME NEW w \in {"missed", "stalls"}, budget \in [{"missed", "stalls"} -> Nat], Spend(w)
    PROVE  budget' \in [{"missed", "stalls"} -> Nat]
BY DEF Spend

\* The steps of an agent process keep the types.
LEMMA ProcessType ==
    ASSUME TypeOK, NEW p \in Instances, Process(p) \/ Stop(p) \/ Faults(p)
    PROVE  TypeOK'
<1>1. LockOf(p) \in [holder: Instances \cup {None}, left: 0..TTL]
      /\ NoLock \in [holder: Instances \cup {None}, left: 0..TTL]
  BY TimingAssumption DEF LockOf, NoLock
<1>2. CASE Claim(p) \/ ClaimTaken(p)
  BY <1>1, <1>2, SpendType, TimingAssumption DEF TypeOK, Claim, ClaimTaken, history
<1>3. CASE ReadHolder(p) \/ Retake(p) \/ RefreshLock(p)
  BY <1>1, <1>3 DEF TypeOK, ReadHolder, Retake, RefreshLock, history
<1>4. CASE SetPresence(p)
  BY <1>4, TimingAssumption DEF TypeOK, SetPresence
<1>5. CASE ReportFails(p)
  BY <1>5, SpendType, TimingAssumption DEF TypeOK, ReportFails
<1>6. CASE Stop(p)
  BY <1>1, <1>6, SpendType, TimingAssumption DEF TypeOK, Stop, history
<1>7. CASE Kill(p) \/ Stall(p) \/ Wake(p)
  BY <1>7, SpendType DEF TypeOK, Kill, Stall, Wake, history
<1> QED BY <1>2, <1>3, <1>4, <1>5, <1>6, <1>7 DEF Process, Faults

\* The scans of the watcher keep the types.
LEMMA WatcherType ==
    ASSUME TypeOK, Watcher \/ ScanFails
    PROVE  TypeOK'
<1>1. CASE ScanPresence
  <2>1. (presence > 0) \in BOOLEAN
    OBVIOUS
  <2>2. watcher' \in [pc: {"idle", "scanned"}, due: 0..Watch, online: BOOLEAN, absent: 0..TTL,
                      saw: BOOLEAN]
    BY <1>1, <2>1, Zenon DEF TypeOK, ScanPresence
  <2> QED BY <1>1, <2>2 DEF TypeOK, ScanPresence, history
<1>2. CASE Reconcile
  BY <1>2, TimingAssumption DEF TypeOK, Reconcile, Departed, history
<1>3. CASE ScanFails
  BY <1>3, SpendType, TimingAssumption DEF TypeOK, ScanFails, history
<1> QED BY <1>1, <1>2, <1>3 DEF Watcher

\* A unit of time keeps the types.
LEMMA TickType ==
    ASSUME TypeOK, Tick
    PROVE  TypeOK'
<1>1. lock' \in [holder: Instances \cup {None}, left: 0..TTL]
  BY TimingAssumption DEF TypeOK, Tick, NoLock
<1>2. presence' \in 0..TTL /\ quiet' \in 0..MaxQuiet
  BY TimingAssumption DEF TypeOK, Tick, Less, More
<1>3. due' \in [Instances -> Nat]
  BY DEF TypeOK, Tick, Less
<1>4. watcher' \in [pc: {"idle", "scanned"}, due: 0..Watch, online: BOOLEAN, absent: 0..TTL,
                    saw: BOOLEAN]
  <2>1. watcher.due - 1 \in 0..Watch /\ More(watcher.absent, TTL) \in 0..TTL
    BY TimingAssumption DEF TypeOK, Tick, More
  <2> QED BY <2>1 DEF TypeOK, Tick
<1> QED BY <1>1, <1>2, <1>3, <1>4 DEF TypeOK, Tick

\* Every variable keeps its type.
THEOREM PresenceTypes == Spec => []TypeOK
<1>1. TypeOK /\ [Next]_vars => TypeOK'
  <2> SUFFICES ASSUME TypeOK, [Next]_vars PROVE TypeOK'
    OBVIOUS
  <2>1. CASE UNCHANGED vars
    BY <2>1 DEF TypeOK, vars
  <2> QED BY <2>1, ProcessType, WatcherType, TickType DEF Next
<1> QED BY <1>1, InitType, PTL DEF Spec

-----------------------------------------------------------------------------
(* The inductive invariant.                                                 *)

\* History never shrinks: a process that missed a report counts in "worst",
\* and without stalls nobody is stalled.
HistorySound ==
    /\ \A p \in Instances : missed[p] <= worst
    /\ \A p \in Instances : pc[p] \in {"new", "claiming", "retaking", "started"} => missed[p] = 0
    /\ budget.stalls <= MaxStalls
    /\ budget.stalls = MaxStalls => stalled = {}

\* The lock has a holder exactly as long as it has time left.
LockSound == lock = NoLock \/ (lock.holder \in Instances /\ lock.left > 0)

\* How much longer than p's next timer p's lock must last.
Margin(p) == due[p] + (IF missed[p] = 0 THEN Heartbeat ELSE 0)

\* The lock of a process at work is its own and outlasts its next report.
Covered ==
    \A p \in Instances :
        /\ pc[p] \in {"retaking", "started", "running"} => lock.holder = p /\ lock.left > Margin(p)
        /\ pc[p] = "claiming" /\ lock.holder = p => lock.left > Margin(p)
        /\ pc[p] = "reporting" => lock = LockOf(p)
        /\ pc[p] = "new" => lock.holder # p

PresenceInv == TypeOK /\ HistorySound /\ LockSound /\ (Healthy => Covered)

\* The history is kept: what has made a process late stays on record.
LEMMA HistoryStep ==
    ASSUME TypeOK, HistorySound, [Next]_vars
    PROVE  HistorySound' /\ (Healthy' => Healthy)
<1> USE TimingAssumption
<1>1. ASSUME NEW p \in Instances, Claim(p) \/ ClaimTaken(p) \/ ReadHolder(p) \/ Retake(p)
                                  \/ RefreshLock(p)
      PROVE  HistorySound' /\ (Healthy' => Healthy)
  BY <1>1 DEF TypeOK, HistorySound, Healthy, Claim, ClaimTaken, ReadHolder, Retake, RefreshLock,
              ReportDue, Spend, history
<1>2. ASSUME NEW p \in Instances, SetPresence(p)
      PROVE  HistorySound' /\ (Healthy' => Healthy)
  BY <1>2 DEF TypeOK, HistorySound, Healthy, SetPresence
<1>3. ASSUME NEW p \in Instances, ReportFails(p)
      PROVE  HistorySound' /\ (Healthy' => Healthy)
  BY <1>3 DEF TypeOK, HistorySound, Healthy, ReportFails, Spend
<1>4. ASSUME NEW p \in Instances, Stop(p) \/ Kill(p) \/ Stall(p) \/ Wake(p)
      PROVE  HistorySound' /\ (Healthy' => Healthy)
  BY <1>4 DEF TypeOK, HistorySound, Healthy, Stop, Kill, Stall, Wake, Spend, history
<1>5. CASE Watcher \/ ScanFails
  BY <1>5 DEF TypeOK, HistorySound, Healthy, Watcher, ScanPresence, Reconcile, ScanFails, Spend,
              history
<1>6. CASE Tick \/ UNCHANGED vars
  BY <1>6 DEF TypeOK, HistorySound, Healthy, Tick, vars
<1> QED BY <1>1, <1>2, <1>3, <1>4, <1>5, <1>6 DEF Next, Process, Faults

\* Every step keeps the lock with the process that works under it.
LEMMA LockStep ==
    ASSUME TypeOK, LockSound, [Next]_vars
    PROVE  LockSound'
<1> USE TimingAssumption
<1>1. ASSUME NEW p \in Instances, Process(p) \/ Stop(p) \/ Faults(p) PROVE LockSound'
  BY <1>1 DEF LockSound, LockOf, Process, Faults, Claim, ClaimTaken, ReadHolder, Retake, RefreshLock,
              SetPresence, ReportFails, Stop, Kill, Stall, Wake
<1>2. CASE Watcher \/ ScanFails \/ UNCHANGED vars
  BY <1>2 DEF LockSound, Watcher, ScanPresence, Reconcile, ScanFails, vars
<1>3. CASE Tick
  <2>1. CASE lock.left <= 1
    BY <1>3, <2>1 DEF LockSound, Tick
  <2>2. CASE ~(lock.left <= 1)
    <3>1. lock.left \in Nat /\ lock' = [lock EXCEPT !.left = lock.left - 1]
      BY <1>3, <2>2 DEF TypeOK, Tick
    <3>2. lock'.holder = lock.holder /\ lock'.left = lock.left - 1
      BY <3>1 DEF TypeOK
    <3>3. lock # NoLock
      BY <2>2 DEF NoLock
    <3> QED BY <2>2, <3>1, <3>2, <3>3 DEF LockSound
  <2> QED BY <2>1, <2>2
<1> QED BY <1>1, <1>2, <1>3 DEF Next

\* A free lock means that nobody is at work; a lock has one holder.
LEMMA HolderAlone ==
    ASSUME TypeOK, Covered, NEW p \in Instances,
           pc[p] \in {"retaking", "started", "running", "reporting"}
    PROVE  lock.holder = p
BY DEF Covered, LockOf

\* A process that claims the lock begins with a full margin.
LEMMA ClaimStep ==
    ASSUME TypeOK, HistorySound, Covered, NEW p \in Instances, Claim(p) \/ ClaimTaken(p)
    PROVE  Covered'
<1> USE TimingAssumption
<1>1. CASE Claim(p)
  <2>1. lock.holder = None /\ missed[p] = 0
    BY <1>1 DEF Claim, NoLock, HistorySound
  <2>2. \A q \in Instances : pc[q] \notin {"retaking", "started", "running", "reporting"}
    BY <2>1, HolderAlone
  <2>3. /\ lock'.holder = p /\ lock'.left = TTL /\ due'[p] = Startup /\ missed' = missed
        /\ pc'[p] \in {"started", "claiming"} /\ \A q \in Instances : q # p => pc'[q] = pc[q]
    BY <1>1 DEF Claim, LockOf, history, TypeOK
  <2> QED BY <2>1, <2>2, <2>3 DEF Covered, Margin
<1>2. CASE ClaimTaken(p)
  <2>1. lock.holder # p
    BY <1>2 DEF ClaimTaken, Covered
  <2> QED BY <1>2, <2>1 DEF ClaimTaken, Covered, Margin, TypeOK, history
<1> QED BY <1>1, <1>2

\* Reading the holder changes no lock.
LEMMA ReadHolderStep ==
    ASSUME TypeOK, Covered, NEW p \in Instances, ReadHolder(p)
    PROVE  Covered'
BY DEF ReadHolder, Covered, Margin, TypeOK, history

\* A process that writes the lock is its holder already: nothing changes for
\* the others.
LEMMA WriteLockStep ==
    ASSUME TypeOK, HistorySound, Covered, NEW p \in Instances, Retake(p) \/ RefreshLock(p)
    PROVE  Covered'
<1> USE TimingAssumption
<1>1. /\ pc[p] \in {"retaking", "started", "running"} /\ lock' = LockOf(p)
      /\ due' = due /\ missed' = missed
      /\ pc' = [pc EXCEPT ![p] = IF pc[p] = "retaking" THEN "started" ELSE "reporting"]
  BY DEF Retake, RefreshLock, ReportDue, history
<1>2. lock.holder = p /\ lock'.holder = p /\ lock'.left = TTL /\ lock.left > Margin(p)
      /\ lock.left <= TTL
  BY <1>1 DEF Covered, LockOf, TypeOK
<1>3. /\ \A q \in Instances : q # p => pc'[q] = pc[q]
      /\ pc'[p] \in {"started", "reporting"}
      /\ \A q \in Instances : Margin(q)' = Margin(q) /\ Margin(q) \in Nat
  BY <1>1 DEF TypeOK, Margin
<1>4. lock.left \in Nat
  BY DEF TypeOK
<1>5. \A q \in Instances : q # p => pc[q] \notin {"retaking", "started", "running", "reporting"}
  BY <1>2, HolderAlone
<1> QED BY <1>1, <1>2, <1>3, <1>4, <1>5 DEF Covered

\* A report renews the lock of the process and the margin it has.
LEMMA SetPresenceStep ==
    ASSUME TypeOK, Covered, NEW p \in Instances, SetPresence(p)
    PROVE  Covered'
<1> USE TimingAssumption
<1>1. /\ pc[p] = "reporting" /\ lock' = lock
      /\ pc' = [pc EXCEPT ![p] = "running"] /\ due' = [due EXCEPT ![p] = Heartbeat]
      /\ missed' = [missed EXCEPT ![p] = 0]
  BY DEF SetPresence
<1>2. lock.holder = p /\ lock.left = TTL
  BY <1>1 DEF Covered, LockOf
<1>3. /\ \A q \in Instances : q # p => pc'[q] = pc[q] /\ Margin(q)' = Margin(q)
      /\ pc'[p] = "running" /\ Margin(p)' = Heartbeat + Heartbeat
  BY <1>1 DEF TypeOK, Margin
<1>4. \A q \in Instances : q # p => pc[q] \notin {"retaking", "started", "running", "reporting"}
  BY <1>2, HolderAlone
<1> QED BY <1>1, <1>2, <1>3, <1>4 DEF Covered

\* A report is missed: the margin of one heartbeat is used up, and the process
\* has not missed one before.
LEMMA ReportFailsStep ==
    ASSUME TypeOK, HistorySound, Covered, Healthy', NEW p \in Instances, ReportFails(p)
    PROVE  Covered'
<1> USE TimingAssumption
<1>1. /\ ReportDue(p) \/ pc[p] = "reporting"
      /\ lock' = lock /\ pc' = [pc EXCEPT ![p] = "running"]
      /\ due' = [due EXCEPT ![p] = Heartbeat] /\ missed' = [missed EXCEPT ![p] = missed[p] + 1]
      /\ worst' = IF missed[p] + 1 > worst THEN missed[p] + 1 ELSE worst
  BY DEF ReportFails
<1>2. missed[p] = 0
  BY <1>1 DEF TypeOK, Healthy
<1>3. lock.holder = p /\ lock.left > Heartbeat
  <2>1. CASE pc[p] = "reporting"
    BY <2>1 DEF Covered, LockOf
  <2>2. CASE ReportDue(p)
    <3>1. lock.holder = p /\ lock.left > due[p] + Heartbeat
      BY <1>2, <2>2 DEF ReportDue, Covered, Margin
    <3> QED BY <3>1 DEF TypeOK
  <2> QED BY <1>1, <2>1, <2>2
<1>4. /\ \A q \in Instances : q # p => pc'[q] = pc[q] /\ Margin(q)' = Margin(q)
      /\ pc'[p] = "running" /\ Margin(p)' = Heartbeat
  BY <1>1, <1>2 DEF TypeOK, Margin
<1>5. \A q \in Instances : q # p => pc[q] \notin {"retaking", "started", "running", "reporting"}
  BY <1>3, HolderAlone
<1> QED BY <1>1, <1>3, <1>4, <1>5 DEF Covered

\* A process that stops while all are in time deletes its own key only.
LEMMA StopStep ==
    ASSUME TypeOK, HistorySound, Covered, Healthy', NEW p \in Instances, Stop(p)
    PROVE  Covered'
<1> USE TimingAssumption
<1>1. /\ pc[p] \in {"started", "running"} /\ lock' = NoLock
      /\ due' = due /\ missed' = missed /\ pc' = [pc EXCEPT ![p] = "gone"]
  BY DEF Stop, Spend, Healthy, HistorySound, TypeOK, history
<1>2. lock.holder = p /\ lock'.holder = None
  BY <1>1 DEF Covered, NoLock
<1>3. \A q \in Instances : q # p => pc[q] \notin {"retaking", "started", "running", "reporting"}
  BY <1>2, HolderAlone
<1>4. pc'[p] = "gone" /\ \A q \in Instances : q # p => pc'[q] = pc[q]
  BY <1>1 DEF TypeOK
<1> QED BY <1>2, <1>3, <1>4 DEF Covered

\* A process killed, stalled or woken touches no key.
LEMMA FaultStep ==
    ASSUME TypeOK, Covered, NEW p \in Instances, Kill(p) \/ Stall(p) \/ Wake(p)
    PROVE  Covered'
BY DEF Kill, Stall, Wake, Covered, Margin, TypeOK, history

\* A tick takes one from the lock and one from every timer; none is at zero.
LEMMA TickStep ==
    ASSUME TypeOK, HistorySound, LockSound, Covered, Healthy, Tick
    PROVE  Covered'
<1> USE TimingAssumption
<1>1. stalled = {} /\ pc' = pc /\ missed' = missed
  BY DEF Healthy, HistorySound, Tick
<1>2. \A p \in Timed : pc[p] # "reporting" /\ due[p] > 0 /\ due'[p] = due[p] - 1
  BY <1>1 DEF Tick, Timed, Running, Less
<1>3. \A p \in Timed : Margin(p)' = Margin(p) - 1 /\ Margin(p) \in Nat /\ Margin(p) > 0
  BY <1>1, <1>2 DEF Margin, TypeOK, Timed, Running
<1>4. \A p \in Instances :
        pc[p] \in {"claiming", "retaking", "started", "running", "reporting"} => p \in Timed
  BY DEF Timed, Running
<1>5. lock.left \in Nat
  BY DEF TypeOK
<1>6. lock.left > 1 => lock'.holder = lock.holder /\ lock'.left = lock.left - 1
  BY <1>5 DEF Tick, TypeOK
<1>7. lock.left <= 1 => lock'.holder = None
  BY DEF Tick, NoLock
<1>8. ASSUME NEW p \in Instances, lock.holder = p, lock.left > Margin(p), p \in Timed
      PROVE  lock'.holder = p /\ lock'.left > Margin(p)'
  BY <1>3, <1>5, <1>6, <1>8
<1>9. lock'.holder = lock.holder \/ lock'.holder = None
  BY <1>5, <1>6, <1>7
<1> QED BY <1>1, <1>2, <1>4, <1>8, <1>9 DEF Covered

\* Every step keeps the margins.
LEMMA CoveredStep ==
    ASSUME PresenceInv, Healthy', [Next]_vars
    PROVE  Covered'
<1>1. Healthy /\ Covered /\ TypeOK /\ HistorySound /\ LockSound
  BY HistoryStep DEF PresenceInv
<1>2. ASSUME NEW p \in Instances, Process(p) \/ Stop(p) \/ Faults(p) PROVE Covered'
  BY <1>1, <1>2, ClaimStep, ReadHolderStep, WriteLockStep, SetPresenceStep, ReportFailsStep,
     StopStep, FaultStep DEF Process, Faults
<1>3. CASE Watcher \/ ScanFails \/ UNCHANGED vars
  <2>1. UNCHANGED <<lock, pc, due, missed>>
    BY <1>3 DEF Watcher, ScanPresence, Reconcile, ScanFails, vars, history
  <2> QED BY <1>1, <2>1 DEF Covered, Margin
<1> QED BY <1>1, <1>2, <1>3, TickStep DEF Next

\* The invariant that carries the argument: lock, margins and history.
THEOREM PresenceInvariant == Spec => []PresenceInv
<1>1. Init => PresenceInv
  <2> SUFFICES ASSUME Init PROVE PresenceInv
    OBVIOUS
  <2>1. HistorySound /\ LockSound
    BY TimingAssumption DEF Init, HistorySound, LockSound
  <2>2. Covered
    BY TimingAssumption DEF Init, Covered, NoLock
  <2> QED BY <2>1, <2>2, InitType DEF PresenceInv
<1>2. PresenceInv /\ TypeOK' /\ [Next]_vars => PresenceInv'
  BY HistoryStep, LockStep, CoveredStep DEF PresenceInv
<1> QED BY <1>1, <1>2, PresenceTypes, PTL DEF Spec

\* At most one process works for a slug while processes report in time.
THEOREM SlugExclusive == Spec => []Exclusive
<1>1. PresenceInv => Exclusive
  <2> SUFFICES ASSUME PresenceInv, Healthy, NEW p \in Running, NEW q \in Running PROVE p = q
    BY DEF Exclusive
  <2>1. p \in Instances /\ q \in Instances /\ lock.holder = p /\ lock.holder = q
    BY HolderAlone DEF PresenceInv, Running
  <2> QED BY <2>1
<1> QED BY <1>1, PresenceInvariant, PTL

-----------------------------------------------------------------------------
(* The presence key.                                                        *)
(*                                                                          *)
(* It outlasts the next report of a process that has reported once, by the  *)
(* same margin as the lock (Visible).  Only its owner can delete it early:  *)
(* a second process that stops would have to be at work.                    *)

\* A process reports only after its start-up, and never starts again.
ReportedStarted == \A p \in reported : pc[p] \in {"running", "reporting", "gone"}

\* The presence key outlasts the next report of everyone who has reported.
Visible == \A p \in Running \cap reported : presence > Margin(p)

KeyInv == ReportedStarted /\ (Healthy => Visible)

\* A process that has reported never starts again.
LEMMA ReportedStep ==
    ASSUME TypeOK, ReportedStarted, [Next]_vars
    PROVE  ReportedStarted'
<1>1. ASSUME NEW p \in Instances, Process(p) \/ Stop(p) \/ Faults(p) PROVE ReportedStarted'
  BY <1>1 DEF TypeOK, ReportedStarted, Process, Faults, Claim, ClaimTaken, ReadHolder, Retake,
              RefreshLock, ReportDue, SetPresence, ReportFails, Stop, Kill, Stall, Wake, Timed,
              Running, history
<1>2. CASE Watcher \/ ScanFails \/ Tick \/ UNCHANGED vars
  BY <1>2 DEF ReportedStarted, Watcher, ScanPresence, Reconcile, ScanFails, Tick, vars, history
<1> QED BY <1>1, <1>2 DEF Next

\* While processes report in time, nobody but p is at work.
LEMMA AtWorkAlone ==
    ASSUME TypeOK, Covered, NEW p \in Running, NEW q \in Running
    PROVE  p = q
BY HolderAlone DEF Running

\* The steps that touch neither the key nor a margin.
LEMMA VisibleKept ==
    ASSUME TypeOK, ReportedStarted, Visible, NEW p \in Instances,
           \/ Claim(p) \/ ClaimTaken(p) \/ ReadHolder(p) \/ Retake(p) \/ RefreshLock(p)
           \/ Kill(p) \/ Stall(p) \/ Wake(p)
    PROVE  Visible'
<1>1. presence' = presence /\ missed' = missed /\ reported' = reported
  BY DEF Claim, ClaimTaken, ReadHolder, Retake, RefreshLock, Kill, Stall, Wake, history
<1>2. ASSUME NEW q \in Instances, q \in reported, q \in Running'
      PROVE  q \in Running /\ due'[q] = due[q]
  <2>1. pc[q] \in {"running", "reporting", "gone"}
    BY <1>2 DEF ReportedStarted
  <2>2. pc'[q] \in {"started", "running", "reporting"}
    BY <1>2 DEF Running
  <2>3. CASE Claim(p) \/ ClaimTaken(p) \/ ReadHolder(p) \/ Retake(p)
    BY <2>1, <2>2, <2>3 DEF TypeOK, Running, Claim, ClaimTaken, ReadHolder, Retake
  <2>4. CASE RefreshLock(p)
    BY <2>1, <2>2, <2>4 DEF TypeOK, Running, RefreshLock, ReportDue
  <2>5. CASE Kill(p) \/ Stall(p) \/ Wake(p)
    BY <2>1, <2>2, <2>5 DEF TypeOK, Running, Kill, Stall, Wake
  <2> QED BY <2>3, <2>4, <2>5
<1>3. Running' \subseteq Instances
  BY DEF Running
<1> QED BY <1>1, <1>2, <1>3 DEF Visible, Margin

\* A report renews the key for a full TTL, more than two heartbeats.
LEMMA VisibleSet ==
    ASSUME TypeOK, Covered, NEW p \in Instances, SetPresence(p)
    PROVE  Visible'
<1> USE TimingAssumption
<1>1. /\ pc[p] = "reporting" /\ presence' = TTL
      /\ pc' = [pc EXCEPT ![p] = "running"] /\ due' = [due EXCEPT ![p] = Heartbeat]
      /\ missed' = [missed EXCEPT ![p] = 0]
  BY DEF SetPresence
<1>2. Margin(p)' = Heartbeat + Heartbeat
  BY <1>1 DEF TypeOK, Margin
<1>3. \A q \in Running' : q \in Running
  BY <1>1 DEF TypeOK, Running
<1>4. p \in Running
  BY <1>1 DEF Running
<1>5. \A q \in Running' : q = p
  BY <1>3, <1>4, AtWorkAlone
<1> QED BY <1>1, <1>2, <1>5 DEF Visible

\* The first miss in a row uses up the margin of one heartbeat.
LEMMA VisibleMissed ==
    ASSUME TypeOK, HistorySound, Covered, Visible, Healthy', NEW p \in Instances, ReportFails(p)
    PROVE  Visible'
<1> USE TimingAssumption
<1>1. /\ ReportDue(p) \/ pc[p] = "reporting"
      /\ presence' = presence /\ reported' = reported /\ pc' = [pc EXCEPT ![p] = "running"]
      /\ due' = [due EXCEPT ![p] = Heartbeat] /\ missed' = [missed EXCEPT ![p] = missed[p] + 1]
      /\ worst' = IF missed[p] + 1 > worst THEN missed[p] + 1 ELSE worst
  BY DEF ReportFails
<1>2. missed[p] = 0
  BY <1>1 DEF TypeOK, Healthy
<1>3. p \in Running
  BY <1>1 DEF Running, ReportDue
<1>4. Margin(p)' = Heartbeat /\ Margin(p) = due[p] + Heartbeat /\ due[p] \in Nat
  BY <1>1, <1>2 DEF TypeOK, Margin
<1>5. \A q \in Running' : q \in Running
  BY <1>1, <1>3 DEF TypeOK, Running
<1>6. \A q \in Running' : q = p
  BY <1>3, <1>5, AtWorkAlone
<1>7. presence \in Nat
  BY DEF TypeOK
<1>8. p \in reported => presence > due[p] + Heartbeat
  BY <1>3, <1>4 DEF Visible
<1> QED BY <1>1, <1>4, <1>6, <1>7, <1>8 DEF Visible

\* The process that stops is the only one at work: it deletes its own key.
LEMMA VisibleStop ==
    ASSUME TypeOK, Covered, NEW p \in Instances, Stop(p)
    PROVE  Visible'
<1>1. pc[p] \in {"started", "running"} /\ pc' = [pc EXCEPT ![p] = "gone"]
  BY DEF Stop
<1>2. p \in Running /\ p \notin Running' /\ \A q \in Running' : q \in Running
  BY <1>1 DEF TypeOK, Running
<1>3. Running' = {}
  BY <1>2, AtWorkAlone
<1> QED BY <1>3 DEF Visible

\* A tick takes one from the key and one from every timer; none is at zero.
LEMMA VisibleTick ==
    ASSUME TypeOK, HistorySound, Visible, Healthy, Tick
    PROVE  Visible'
<1>1. stalled = {} /\ pc' = pc /\ missed' = missed /\ reported' = reported
  BY DEF Healthy, HistorySound, Tick
<1>2. Running' = Running
  BY <1>1 DEF Running
<1>3. \A q \in Running : q \in Instances /\ due[q] > 0 /\ due'[q] = due[q] - 1
  BY <1>1 DEF Tick, Timed, Running, Less
<1>4. \A q \in Running : Margin(q)' = Margin(q) - 1 /\ Margin(q) \in Nat
  BY <1>1, <1>3, TimingAssumption DEF Margin, TypeOK
<1>5. presence \in Nat /\ presence' = IF presence = 0 THEN 0 ELSE presence - 1
  BY DEF TypeOK, Tick, Less
<1>6. ASSUME NEW q \in Running, q \in reported PROVE presence' > Margin(q)'
  BY <1>4, <1>5, <1>6 DEF Visible
<1> QED BY <1>1, <1>2, <1>6 DEF Visible

\* Every step keeps the presence key's margin.
LEMMA KeyStep ==
    ASSUME PresenceInv, KeyInv, [Next]_vars
    PROVE  KeyInv'
<1>1. TypeOK /\ HistorySound /\ ReportedStarted
  BY DEF PresenceInv, KeyInv
<1>2. ReportedStarted'
  BY <1>1, ReportedStep
<1>3. ASSUME Healthy' PROVE Visible'
  <2>1. Healthy /\ Covered /\ Visible
    BY <1>1, <1>3, HistoryStep DEF PresenceInv, KeyInv
  <2>2. ASSUME NEW p \in Instances, Process(p) \/ Stop(p) \/ Faults(p) PROVE Visible'
    BY <1>1, <1>3, <2>1, <2>2, VisibleKept, VisibleSet, VisibleMissed, VisibleStop
       DEF Process, Faults
  <2>3. CASE Watcher \/ ScanFails \/ UNCHANGED vars
    <3>1. UNCHANGED <<presence, pc, due, missed, reported>>
      BY <2>3 DEF Watcher, ScanPresence, Reconcile, ScanFails, vars, history
    <3> QED BY <2>1, <3>1 DEF Visible, Running, Margin
  <2> QED BY <1>1, <2>1, <2>2, <2>3, VisibleTick DEF Next
<1> QED BY <1>2, <1>3 DEF KeyInv

\* agentproto.go:30-32: while processes report in time, a single missed write
\* never makes the presence key of a process that has reported expire.
THEOREM NeverFlickers == Spec => []NoFlicker
<1>1. Init => KeyInv
  BY DEF Init, KeyInv, ReportedStarted, Visible
<1>2. PresenceInv /\ KeyInv /\ [Next]_vars => KeyInv'
  BY KeyStep
<1>3. PresenceInv /\ KeyInv => NoFlicker
  <2> SUFFICES ASSUME PresenceInv, KeyInv, Healthy, NEW p \in Running \cap reported
               PROVE  presence > 0
    BY DEF NoFlicker
  <2>1. presence > Margin(p) /\ presence \in Nat
    BY DEF KeyInv, Visible, PresenceInv, TypeOK
  <2>2. Margin(p) \in Nat
    BY TimingAssumption DEF Margin, PresenceInv, TypeOK, Running
  <2> QED BY <2>1, <2>2
<1> QED BY <1>1, <1>2, <1>3, PresenceInvariant, PTL DEF Spec

-----------------------------------------------------------------------------
(* The watcher.                                                             *)
(*                                                                          *)
(* The watcher last saw the key when it was there, so the key has been gone *)
(* for no longer than the watcher has missed it.  A scan that leaves the    *)
(* agent online missed it for less than a TTL, and the next scan comes      *)
(* within Watch ticks.                                                      *)

Sighted ==
    /\ presence > 0 => quiet = 0
    /\ watcher.saw => watcher.pc = "scanned" /\ quiet = 0
    /\ watcher.online /\ watcher.absent < TTL => quiet <= watcher.absent
    /\ budget.missed <= MaxMissed
    /\ budget.missed = MaxMissed /\ watcher.online => quiet + watcher.due < TTL + Watch

\* A process's steps leave the watcher alone; the key they write is not quiet.
LEMMA SightedProcess ==
    ASSUME TypeOK, Sighted, NEW p \in Instances, Process(p) \/ Stop(p) \/ Faults(p)
    PROVE  Sighted'
<1> USE TimingAssumption
<1>1. watcher' = watcher
  BY DEF Process, Faults, Claim, ClaimTaken, ReadHolder, Retake, RefreshLock, SetPresence,
         ReportFails, Stop, Kill, Stall, Wake
<1>2. /\ budget'.missed <= MaxMissed
      /\ budget'.missed = MaxMissed => budget.missed = MaxMissed
  BY DEF Sighted, TypeOK, Process, Faults, Claim, ClaimTaken, ReadHolder, Retake, RefreshLock,
         SetPresence, ReportFails, Stop, Kill, Stall, Wake, Spend
<1>3. \/ quiet' = 0
      \/ quiet' = quiet /\ presence' \in {presence, 0}
  BY DEF Process, Faults, Claim, ClaimTaken, ReadHolder, Retake, RefreshLock, SetPresence,
         ReportFails, Stop, Kill, Stall, Wake, history
<1>4. quiet \in Nat /\ presence \in Nat /\ watcher.due \in Nat /\ watcher.absent \in Nat
  BY DEF TypeOK
<1>5. quiet' \in Nat /\ quiet' <= quiet
  BY <1>3, <1>4
<1>6. (presence > 0 => quiet = 0) => (presence' > 0 => quiet' = 0)
  BY <1>3, <1>4
<1>7. watcher.saw => watcher.pc = "scanned" /\ quiet' = 0
  BY <1>3 DEF Sighted
<1>8. watcher.online /\ watcher.absent < TTL => quiet' <= watcher.absent
  BY <1>4, <1>5 DEF Sighted
<1>9. budget'.missed = MaxMissed /\ watcher.online => quiet' + watcher.due < TTL + Watch
  BY <1>2, <1>4, <1>5 DEF Sighted
<1> QED BY <1>1, <1>2, <1>6, <1>7, <1>8, <1>9 DEF Sighted

\* A scan, or one that fails, keeps what the watcher has missed within bounds.
LEMMA SightedScan ==
    ASSUME TypeOK, Sighted, Watcher \/ ScanFails
    PROVE  Sighted'
<1> USE TimingAssumption
<1>0. /\ presence' = presence /\ quiet' = quiet
      /\ quiet \in Nat /\ presence \in Nat /\ watcher.due \in Nat /\ watcher.absent \in Nat
  BY DEF TypeOK, Watcher, ScanPresence, Reconcile, ScanFails, history
<1>1. CASE ScanPresence
  <2>1. /\ watcher'.pc = "scanned" /\ watcher'.saw = (presence > 0) /\ watcher'.due = watcher.due
        /\ watcher'.online = watcher.online /\ watcher'.absent = watcher.absent
        /\ budget' = budget
    BY <1>1 DEF ScanPresence, TypeOK
  <2>2. watcher'.saw => quiet = 0
    BY <2>1 DEF Sighted
  <2>3. presence' > 0 => quiet' = 0
    BY <1>0 DEF Sighted
  <2>4. watcher'.online /\ watcher'.absent < TTL => quiet' <= watcher'.absent
    BY <1>0, <2>1 DEF Sighted
  <2>5. budget'.missed = MaxMissed /\ watcher'.online => quiet' + watcher'.due < TTL + Watch
    BY <1>0, <2>1 DEF Sighted
  <2> QED BY <1>0, <2>1, <2>2, <2>3, <2>4, <2>5 DEF Sighted
<1>2. CASE Reconcile
  <2>1. /\ watcher'.due = Watch /\ ~watcher'.saw /\ budget' = budget
        /\ watcher'.online = (watcher.saw \/ (watcher.online /\ ~Departed))
        /\ watcher'.absent = IF watcher.saw THEN 0 ELSE watcher.absent
    BY <1>2 DEF Reconcile
  <2>2. CASE watcher.saw
    BY <1>0, <2>1, <2>2 DEF Sighted
  <2>3. CASE ~watcher.saw
    <3>0. watcher'.absent = watcher.absent
      BY <2>1, <2>3
    <3>1. watcher'.online => watcher.online /\ watcher.absent < TTL
      <4>1. watcher'.online => watcher.online /\ ~(watcher.absent >= TTL)
        BY <2>1, <2>3, Zenon DEF Departed
      <4> QED BY <1>0, <4>1
    <3>2. watcher'.online => quiet <= watcher'.absent /\ quiet < TTL
      BY <1>0, <3>0, <3>1 DEF Sighted
    <3>3. watcher'.online => quiet' + watcher'.due < TTL + Watch
      BY <1>0, <2>1, <3>2
    <3> QED BY <1>0, <2>1, <3>2, <3>3 DEF Sighted
  <2> QED BY <2>2, <2>3
<1>3. CASE ScanFails
  <2>1. /\ watcher'.pc = watcher.pc /\ watcher'.saw = watcher.saw
        /\ watcher'.online = watcher.online /\ watcher'.absent = watcher.absent
    BY <1>3 DEF ScanFails, TypeOK
  <2>2. budget'.missed <= MaxMissed /\ budget'.missed # MaxMissed
    BY <1>3 DEF ScanFails, Spend, Sighted, TypeOK
  <2>3. presence' > 0 => quiet' = 0
    BY <1>0 DEF Sighted
  <2>4. watcher'.online /\ watcher'.absent < TTL => quiet' <= watcher'.absent
    BY <1>0, <2>1 DEF Sighted
  <2> QED BY <1>0, <2>1, <2>2, <2>3, <2>4 DEF Sighted
<1> QED BY <1>1, <1>2, <1>3 DEF Watcher

\* A unit of time keeps it: the next scan is due before the count runs out.
LEMMA SightedTick ==
    ASSUME TypeOK, Sighted, Tick
    PROVE  Sighted'
<1> USE TimingAssumption
<1>1. /\ quiet \in Nat /\ presence \in Nat /\ watcher.due \in Nat /\ watcher.absent \in Nat
      /\ watcher.due > 0 /\ watcher.absent <= TTL /\ budget' = budget
  BY DEF TypeOK, Tick
<1>2. /\ watcher'.due = watcher.due - 1 /\ watcher'.absent = More(watcher.absent, TTL)
      /\ watcher'.pc = watcher.pc /\ watcher'.saw = watcher.saw
      /\ watcher'.online = watcher.online
  BY DEF TypeOK, Tick
<1>3. ~watcher.saw
  BY DEF Tick, Sighted
<1>4. quiet' \in Nat /\ quiet' <= quiet + 1 /\ (presence > 0 => quiet' = quiet)
  BY <1>1 DEF Tick, More
<1>5. presence' > 0 => presence > 0
  BY <1>1 DEF Tick, Less
<1>6. watcher'.absent < TTL => watcher.absent < TTL /\ watcher'.absent = watcher.absent + 1
  BY <1>1, <1>2 DEF More
<1>7. presence' > 0 => quiet' = 0
  BY <1>4, <1>5 DEF Sighted
<1>8. watcher'.online /\ watcher'.absent < TTL => quiet' <= watcher'.absent
  BY <1>1, <1>2, <1>4, <1>6 DEF Sighted
<1>9. budget'.missed = MaxMissed /\ watcher'.online => quiet' + watcher'.due < TTL + Watch
  BY <1>1, <1>2, <1>4 DEF Sighted
<1> QED BY <1>1, <1>2, <1>3, <1>7, <1>8, <1>9 DEF Sighted

\* presence_watcher.go:27-31: while its scans succeed, the watcher no longer
\* believes in an agent whose key has been missing for a TTL and an interval.
THEOREM WatcherGivesUp == Spec => []OfflineWithin
<1>1. Init => Sighted
  BY TimingAssumption DEF Init, Sighted
<1>2. TypeOK /\ Sighted /\ [Next]_vars => Sighted'
  <2> SUFFICES ASSUME TypeOK, Sighted, [Next]_vars PROVE Sighted'
    OBVIOUS
  <2>1. CASE UNCHANGED vars
    BY <2>1 DEF Sighted, vars
  <2> QED BY <2>1, SightedProcess, SightedScan, SightedTick DEF Next
<1>3. TypeOK /\ Sighted => OfflineWithin
  <2> SUFFICES ASSUME TypeOK, Sighted, budget.missed = MaxMissed, quiet > TTL + Watch, watcher.online
               PROVE  FALSE
    BY DEF OfflineWithin
  <2>1. quiet \in Nat /\ watcher.due \in Nat
    BY DEF TypeOK
  <2> QED BY <2>1, TimingAssumption DEF Sighted
<1> QED BY <1>1, <1>2, <1>3, PresenceTypes, PTL DEF Spec
=============================================================================
