--------------------------- MODULE ConfigControl ---------------------------
(***************************************************************************)
(* How a configuration change reaches the agents.  A request runs          *)
(* MutateSync under the store's lock (appconfigstore/store.go): read,      *)
(* apply, write to MongoDB, then propagate: swap the server's live config, *)
(* SET one projection per configured agent in Redis and notify each        *)
(* (config_propagator.go, agentregistry/registry.go).  DeleteAgent removes *)
(* the agent's projection after the lock is released (services/agents.go). *)
(* An agent re-reads its projection when notified and on a timer, in two   *)
(* goroutines of their own (agent/runtime/config.go).                      *)
(***************************************************************************)
EXTENDS AppConfig, SequencesExt

CONSTANTS
    Clients,      \* concurrent requests
    Running,      \* the agents whose process is up
    NoOne,        \* the lock is free, or there is no agent to forget
    NoProjection, \* no key in Redis, or nothing read yet
    MaxCalls,     \* bound: accepted mutations
    MaxFailures,  \* bound: failed calls to MongoDB or Redis
    MaxCrashes    \* bound: crashes of the server, restarts of agents

ASSUME ControlAssumption == /\ NoOne \notin Clients \cup Slugs
                            /\ Running \subseteq Slugs
                            /\ MaxCalls \in Nat /\ MaxFailures \in Nat /\ MaxCrashes \in Nat

VARIABLES
    lock,       \* the store's mutex
    call,       \* the requests in MutateSync or Forget
    boot,       \* the server's start-up
    live,       \* appconfig's singleton
    published,  \* the projection keys in Redis
    notified,   \* agents with a change notification on its way
    current,    \* the projection each agent runs on
    reading,    \* the agents' refreshes between GET and install
    unsure,     \* history: a write failed that had reached MongoDB
    budget      \* what is left of the bounds

serverVars == <<stored, lock, call, boot, live, unsure>>
agentVars == <<current, reading>>
vars == <<stored, lock, call, boot, live, published, notified, current, reading, unsure, budget>>

Readers == {"notify", "timer"}

Spend(what) == budget[what] > 0 /\ budget' = [budget EXCEPT ![what] = @ - 1]

-----------------------------------------------------------------------------
\* Mutant of BuildProjection: an unset level is sent as it is.
BuildRawProjection(cfg, slug) ==
    LET agent == cfg.agents[FindAgentIndex(cfg, slug)]
        Shown == {m \in ToSet(agent.mappings) : ScannerExists(cfg, m.scanner) /\ m.path # NoPath}
    IN  [level |-> agent.level,
         dirs |-> {[scanner |-> m.scanner, type |-> cfg.scanners[m.scanner], path |-> m.path]
                     : m \in Shown}]

\* BuildProjection: what an agent may know.  A mapping without a path, or for
\* a scan directory that is gone, is left out.
BuildProjection(cfg, slug) ==
    LET agent == cfg.agents[FindAgentIndex(cfg, slug)]
        Shown == {m \in ToSet(agent.mappings) : ScannerExists(cfg, m.scanner) /\ m.path # NoPath}
    IN  [level |-> IF agent.level = NoLevel THEN Info ELSE agent.level,
         dirs |-> {[scanner |-> m.scanner, type |-> cfg.scanners[m.scanner], path |-> m.path]
                     : m \in Shown}]

SlugsOf(cfg) == [i \in DOMAIN cfg.agents |-> cfg.agents[i].slug]

IdleCall == [pc |-> "idle", cfg |-> Default, left |-> <<>>, forget |-> NoOne]
NotReading == [busy |-> FALSE, got |-> NoProjection]

Init ==
    /\ AtomicInit
    /\ lock = NoOne
    /\ call = [c \in Clients |-> IdleCall]
    /\ boot = [pc |-> "up", left |-> <<>>]
    /\ live = Default
    /\ published = [a \in Slugs |-> NoProjection]
    /\ notified = {}
    /\ current = [a \in Slugs |-> NoProjection]
    /\ reading = [a \in Slugs |-> [w \in Readers |-> NotReading]]
    /\ unsure = FALSE
    /\ budget = [calls |-> MaxCalls, failures |-> MaxFailures, crashes |-> MaxCrashes]

-----------------------------------------------------------------------------
(* MutateSync.                                                              *)

\* Mutant of Begin: the lock is not waited for.
BeginUnlocked(c, r) ==
    /\ boot.pc = "up"
    /\ call[c].pc = "idle"
    /\ Spend("calls")
    /\ \E new \in Applied(stored, r) :
         call' = [call EXCEPT ![c] =
                    [pc |-> "upsert", cfg |-> new, left |-> SlugsOf(new),
                     forget |-> IF r.op = "DeleteAgent" THEN r.slug ELSE NoOne]]
    /\ lock' = c
    /\ UNCHANGED <<stored, boot, live, published, notified, agentVars, unsure>>

\* The lock is taken, the document read and the request applied to it.  A
\* request that is refused, or a read that fails, releases the lock again and
\* leaves no trace.
Begin(c, r) ==
    /\ boot.pc = "up"
    /\ lock = NoOne
    /\ call[c].pc = "idle"
    /\ Spend("calls")
    /\ \E new \in Applied(stored, r) :
         call' = [call EXCEPT ![c] =
                    [pc |-> "upsert", cfg |-> new, left |-> SlugsOf(new),
                     forget |-> IF r.op = "DeleteAgent" THEN r.slug ELSE NoOne]]
    /\ lock' = c
    /\ UNCHANGED <<stored, boot, live, published, notified, agentVars, unsure>>

\* Upsert: the whole document is replaced.
Upsert(c) ==
    /\ call[c].pc = "upsert"
    /\ stored' = call[c].cfg
    /\ call' = [call EXCEPT ![c].pc = "live"]
    /\ UNCHANGED <<lock, boot, live, published, notified, agentVars, unsure, budget>>

\* Upsert fails, before or after the document was replaced: the request ends
\* with an error, nothing is propagated.
UpsertFails(c) ==
    /\ call[c].pc = "upsert"
    /\ Spend("failures")
    /\ \/ UNCHANGED <<stored, unsure>>
       \/ stored' = call[c].cfg /\ unsure' = TRUE
    /\ call' = [call EXCEPT ![c] = IdleCall]
    /\ lock' = NoOne
    /\ UNCHANGED <<boot, live, published, notified, agentVars>>

\* Mutant of SetLive: the propagation goes to the agents only.
KeepLive(c) ==
    /\ call[c].pc = "live"
    /\ unsure' = FALSE
    /\ call' = [call EXCEPT ![c].pc = "publish"]
    /\ UNCHANGED <<stored, lock, boot, live, published, notified, agentVars, budget>>

\* PropagateInProcess, first half: the live config is swapped.
SetLive(c) ==
    /\ call[c].pc = "live"
    /\ live' = call[c].cfg
    /\ unsure' = FALSE
    /\ call' = [call EXCEPT ![c].pc = "publish"]
    /\ UNCHANGED <<stored, lock, boot, published, notified, agentVars, budget>>

\* Mutant of PublishTo: SET NX, an existing projection stays.
PublishToNew(cfg, slug) ==
    /\ published' = IF published[slug] = NoProjection
                    THEN [published EXCEPT ![slug] = BuildProjection(cfg, slug)] ELSE published
    /\ \/ notified' = notified \cup {slug}
       \/ UNCHANGED notified

\* publish for one agent: the projection is SET, then the agent notified.  The
\* notification is best effort: it may reach nobody.
PublishTo(cfg, slug) ==
    /\ published' = [published EXCEPT ![slug] = BuildProjection(cfg, slug)]
    /\ \/ notified' = notified \cup {slug}
       \/ UNCHANGED notified

\* PublishAll: one agent after the other.
Publish(c) ==
    /\ call[c].pc = "publish" /\ call[c].left # <<>>
    /\ PublishTo(call[c].cfg, Head(call[c].left))
    /\ call' = [call EXCEPT ![c].left = Tail(@)]
    /\ UNCHANGED <<stored, lock, boot, live, agentVars, unsure, budget>>

\* A SET fails (or the caller is gone and its context cancelled): PublishAll
\* returns, the agents after this one are not written.  The error is logged.
PublishFails(c) ==
    /\ call[c].pc = "publish" /\ call[c].left # <<>>
    /\ Spend("failures")
    /\ call' = [call EXCEPT ![c].left = <<>>]
    /\ UNCHANGED <<stored, lock, boot, live, published, notified, agentVars, unsure>>

\* Mutant of Return: DeleteAgent ends here.
ReturnOnly(c) ==
    /\ call[c].pc = "publish" /\ call[c].left = <<>>
    /\ lock' = NoOne
    /\ call' = [call EXCEPT ![c] = IdleCall]
    /\ UNCHANGED <<stored, boot, live, published, notified, agentVars, unsure, budget>>

\* MutateSync returns and the lock is released; DeleteAgent goes on.
Return(c) ==
    /\ call[c].pc = "publish" /\ call[c].left = <<>>
    /\ lock' = NoOne
    /\ call' = [call EXCEPT ![c] = IF @.forget = NoOne THEN IdleCall
                                   ELSE [IdleCall EXCEPT !.pc = "forget", !.forget = call[c].forget]]
    /\ UNCHANGED <<stored, boot, live, published, notified, agentVars, unsure, budget>>

\* Forget: DEL of the projection, outside the lock.
Forget(c) ==
    /\ call[c].pc = "forget"
    /\ published' = [published EXCEPT ![call[c].forget] = NoProjection]
    /\ call' = [call EXCEPT ![c] = IdleCall]
    /\ UNCHANGED <<stored, lock, boot, live, notified, agentVars, unsure, budget>>

ForgetFails(c) ==
    /\ call[c].pc = "forget"
    /\ Spend("failures")
    /\ call' = [call EXCEPT ![c] = IdleCall]
    /\ UNCHANGED <<stored, lock, boot, live, published, notified, agentVars, unsure>>

-----------------------------------------------------------------------------
(* The server's crash and its start-up.                                     *)

ServerCrash ==
    /\ Spend("crashes")
    /\ boot' = [pc |-> "read", left |-> <<>>]
    /\ lock' = NoOne
    /\ call' = [c \in Clients |-> IdleCall]
    /\ live' = Default
    /\ UNCHANGED <<stored, published, notified, agentVars, unsure>>

\* bootstrap.Run's document becomes live.
BootRead ==
    /\ boot.pc = "read"
    /\ live' = stored
    /\ unsure' = FALSE
    /\ boot' = [pc |-> "publish", left |-> SlugsOf(stored)]
    /\ UNCHANGED <<stored, lock, call, published, notified, agentVars, budget>>

BootPublish ==
    /\ boot.pc = "publish" /\ boot.left # <<>>
    /\ \/ /\ PublishTo(live, Head(boot.left))
          /\ boot' = [boot EXCEPT !.left = Tail(@)]
          /\ UNCHANGED budget
       \/ /\ Spend("failures")
          /\ boot' = [boot EXCEPT !.left = <<>>]
          /\ UNCHANGED <<published, notified>>
    /\ UNCHANGED <<stored, lock, call, live, agentVars, unsure>>

BootServe ==
    /\ boot.pc = "publish" /\ boot.left = <<>>
    /\ boot' = [boot EXCEPT !.pc = "up"]
    /\ UNCHANGED <<stored, lock, call, live, published, notified, agentVars, unsure, budget>>

-----------------------------------------------------------------------------
(* The agents.                                                              *)

\* Mutant of RefreshRead: no refresh without a notification.
RefreshNotified(a, w) ==
    /\ ~reading[a][w].busy
    /\ a \in notified
    /\ notified' = notified \ {a}
    /\ reading' = [reading EXCEPT ![a][w] = [busy |-> TRUE, got |-> published[a]]]
    /\ UNCHANGED <<serverVars, published, current, budget>>

\* Refresh, the GET: woken by the notification, or by the timer.
RefreshRead(a, w) ==
    /\ ~reading[a][w].busy
    /\ w = "notify" => a \in notified
    /\ notified' = IF w = "notify" THEN notified \ {a} ELSE notified
    /\ reading' = [reading EXCEPT ![a][w] = [busy |-> TRUE, got |-> published[a]]]
    /\ UNCHANGED <<serverVars, published, current, budget>>

\* Refresh, the rest: what was read is installed; nothing read, nothing changes.
RefreshInstall(a, w) ==
    /\ reading[a][w].busy
    /\ current' = IF reading[a][w].got = NoProjection THEN current
                  ELSE [current EXCEPT ![a] = reading[a][w].got]
    /\ reading' = [reading EXCEPT ![a][w] = NotReading]
    /\ UNCHANGED <<serverVars, published, notified, budget>>

\* The GET fails: logged, and the wake-up is used up.
RefreshFails(a, w) ==
    /\ reading[a][w].busy
    /\ Spend("failures")
    /\ reading' = [reading EXCEPT ![a][w] = NotReading]
    /\ UNCHANGED <<serverVars, published, notified, current>>

AgentRestart(a) ==
    /\ Spend("crashes")
    /\ current' = [current EXCEPT ![a] = NoProjection]
    /\ reading' = [reading EXCEPT ![a] = [w \in Readers |-> NotReading]]
    /\ notified' = notified \ {a}
    /\ UNCHANGED <<serverVars, published>>

-----------------------------------------------------------------------------
Request(c) == \/ Upsert(c) \/ SetLive(c) \/ Publish(c) \/ Return(c) \/ Forget(c)
RequestFails(c) == UpsertFails(c) \/ PublishFails(c) \/ ForgetFails(c)
Boot == BootRead \/ BootPublish \/ BootServe
Refresh(a, w) == RefreshRead(a, w) \/ RefreshInstall(a, w)

Next ==
    \/ \E c \in Clients : \/ \E r \in Requests : Begin(c, r)
                          \/ Request(c)
                          \/ RequestFails(c)
    \/ ServerCrash
    \/ Boot
    \/ \E a \in Running : \/ \E w \in Readers : Refresh(a, w) \/ RefreshFails(a, w)
                          \/ AgentRestart(a)

Spec == Init /\ [][Next]_vars

\* Requests and start-up run to their end; the agents' two goroutines run.
Fairness == /\ \A c \in Clients : WF_vars(Request(c))
            /\ WF_vars(Boot)
            /\ \A a \in Running : \A w \in Readers : WF_vars(Refresh(a, w))
LiveSpec == Spec /\ Fairness

-----------------------------------------------------------------------------
Projection == [level: Levels, dirs: SUBSET [scanner: Scanners, type: Types, path: Paths]]
MaybeProjection == Projection \cup {NoProjection}

\* Every projection, published or running, is one BuildProjection can produce.
TypeOK ==
    /\ ConfigTypeOK
    /\ lock \in Clients \cup {NoOne}
    /\ call \in [Clients -> [pc: {"idle", "upsert", "live", "publish", "forget"}, cfg: Config,
                             left: Seq(Slugs), forget: Slugs \cup {NoOne}]]
    /\ boot \in [pc: {"up", "read", "publish"}, left: Seq(Slugs)]
    /\ live \in Config
    /\ published \in [Slugs -> MaybeProjection]
    /\ notified \subseteq Slugs
    /\ current \in [Slugs -> MaybeProjection]
    /\ reading \in [Slugs -> [Readers -> [busy: BOOLEAN, got: MaybeProjection]]]
    /\ unsure \in BOOLEAN
    /\ budget \in [{"calls", "failures", "crashes"} -> Nat]

\* At rest: the server is up and no mutation holds the lock.
AtRest == boot.pc = "up" /\ lock = NoOne
NoFailures == budget.failures = MaxFailures
NoCrashes == budget.crashes = MaxCrashes
Forgetting(a) == \E c \in Clients : call[c].pc = "forget" /\ call[c].forget = a

\* MutateSync serialises: whatever requests run at once, fail or die half way,
\* the document only ever moves by one whole accepted request (store.go:81-86).
Serialised == AtomicSpec

\* A request that has returned was made live (store.go:85-87): between
\* mutations the singleton is the stored document, crashes included, unless a
\* write failed that had landed.
LiveIsStored == AtRest /\ ~unsure => live = stored

\* The projections follow the document: between mutations a projection in
\* Redis is never that of an older document, whichever request wrote last.
PublishedNeverStale ==
    AtRest /\ NoFailures =>
        \A a \in Slugs : Configured(stored, a) /\ published[a] # NoProjection =>
            published[a] = BuildProjection(stored, a)

\* Forget after the lock is enough: no mutation that runs meanwhile puts a
\* deleted agent's projection back (agents.go:220-225).
ForgottenStaysForgotten ==
    AtRest /\ NoFailures /\ NoCrashes =>
        \A a \in Slugs : ~Configured(stored, a) /\ ~Forgetting(a) => published[a] = NoProjection

\* An agent whose projection is in Redis ends up running on it, whatever
\* notifications are lost and however its two refreshes interleave
\* (config.go:149-155).
AgentsCatchUp ==
    \A a \in Running : <>[](published[a] # NoProjection => current[a] = published[a])

-----------------------------------------------------------------------------
(* Statements of the repository's text that the model refutes.              *)

\* registry.go:190-192: Forget runs when an agent is deleted, so a machine that
\* reconnects later does not resume scanning: a deleted agent has no projection.
DeletedHasNoProjection ==
    \A a \in Slugs : AtRest /\ ~Configured(stored, a) /\ ~Forgetting(a) =>
        published[a] = NoProjection

\* registry.go:153-154: the projection is rewritten for every configured agent,
\* so between mutations each has one.
ConfiguredHasProjection ==
    \A a \in Slugs : AtRest /\ Configured(stored, a) => published[a] # NoProjection

\* config_propagator.go:103-105: a failure to publish only costs time, agents
\* re-read on their own timer regardless.
AgentsCatchUpRegardless ==
    \A a \in Slugs :
        <>[](Configured(stored, a) => current[a] = BuildProjection(stored, a))
=============================================================================
