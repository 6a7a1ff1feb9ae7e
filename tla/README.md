# metarr: TLA+ models, checks and proofs

metarr manages a media library.  A *server* (Go, ConnectRPC, MongoDB, Redis)
holds the configuration, the workflows and the records of what is on disk;
*agents* run next to the disks, walk them on command and stream what they find
back.  Server and agents share nothing but Redis: streams for work that must not
be lost, keys with an expiry for presence, one key per agent with the part of the
configuration it may know, and Pub/Sub for hints that may be lost.

This directory models the parts of that system where the order of steps decides:
concurrent saves, scans that are retried and redelivered, configuration on its
way to agents, the lock that keeps two agents from sharing a name, requests,
purges and consumers on one bus, start-up over a half-seeded document, and what
the verdict of the workflow validator promises about a run.

Paths below are relative to `src/`.

## Inventory

| Component | State | Operations | Interacts with | What is hard | What makes it correct |
|---|---|---|---|---|---|
| Workflow store, `internal/server/mongostore/versioned`, `services/workflows.go` | one MongoDB row per version, `is_latest` flag | Create, Update (read, merge, save), Delete, List, Get | MongoDB only | a save is three calls without a transaction; requests interleave, fail and die between them | unique and gap-free versions, at most one flagged row and that the newest, immutable history |
| Workflow listing, `ListLatest` | the caller's page token | one page | the store's writers | the collection changes between two pages | complete, without repeats, ends |
| Scan pipeline, `services/tasks.go`, `agent/runtime/scanner.go`, `listeners/agent_scan_result_listener.go`, `mongostore/local_directory_repo.go` | two streams, the walk, stored records | queue, walk, publish parts, upsert, sweep | agent, event bus, MongoDB | redelivery, retries, crashes of both sides, trimming, goroutine per item | a sweep never runs ahead of its results; no result vanishes; every scan is answered |
| Event bus, `internal/shared/eventbus` | Redis streams and groups, pending requests | publish, dispatch, retry, ack, claim; request/reply; purge; retention | everybody | at-least-once delivery, approximate MAXLEN, late replies, purge against live traffic | an entry is acknowledged after its handler; every entry settles; a call gets its own answer or none, and ends; a completed purge is final and spares what comes after |
| Configuration store, `appconfigstore`, `services/agents.go`, `services/directory_scanner.go` | one document; a mutex | MutateSync of every configuration request | propagator | a write that failed may have landed; a crash between write and propagation | mutations are serial; one owner per scan directory |
| Propagation, `listeners/config_propagator.go`, `agentregistry/registry.go`, `agent/runtime/config.go` | live singleton, projection keys, each agent's current projection | swap, PublishAll, Forget, refresh | Redis, agents | Forget outside the lock; lost notifications; two refresh goroutines | live = stored between mutations; projections never stale; agents catch up |
| Slug lock and presence, `agent/runtime/presence.go`, `cmd/metarr-agent/main.go` | lock key, presence key | Claim, Report, release | Redis | expiry, stalls, lost replies, crash and restart | one process per slug, no flicker |
| Presence watcher, `agentregistry/presence_watcher.go` | belief and last-seen per slug | scan | Redis | grace period, failed scans | a departure is noticed, in bounded time |
| Start-up bootstrap, `internal/server/bootstrap`, `appconfigstore/admin_seed.go`, `shared/appconfig/sidecar_types.go` | the stored document, the sidecar registry | seed admin, seed sections, merge sidecar types, seed secret | configuration store, operators' edits between two starts | two writes, either may fail; restarts half way; a later release's built-ins against an edited table | only fills in; the table stays unambiguous; an ordinary restart writes nothing |
| Workflow validation and catalog, `internal/server/workflow`, `internal/shared/workflow` | none | graph and data-flow rules | RPC handlers | a fixed point over cyclic graphs with joins, loops inside loops | what passes keeps its word in every run; what is refused can be shown; it ends |
| Path translation, sidecar classification, media scanner, NFO | none | pure functions of paths, names and XML | agent and server | boundaries of path prefixes | round trip; refuses what is outside its root |
| Authentication | admin credentials and signing secret (in the document), one timestamp per method | login, tokens, rate limit | RPC handlers | two calls on one timestamp | |
| Logging | level, bounded shipping buffer | ship, attach | event bus | full buffer, order | |
| Sonarr interfaces, statistics, host information, generated clients | remote systems | I/O | | | |

`PROJECT.json` lists the same components with the modules that model them, the
source lines behind every definition (`map`), and the hazards the properties are
aimed at (`hazards`).

## Modules

    VersionedStore ── WorkflowListing        AppConfig ── ConfigControl
                            │                    │             │
                  VersionedStoreProofs     AppConfigProofs ── ConfigControlProofs

    ScanPipeline ── ScanPipelineProofs     AgentPresence ── AgentPresenceProofs

    Exchange ┄ BusRequests ─┬─ EventBus    WorkflowTypes ── WorkflowGraph
               StreamPurge ─┘     │                              │
                            EventBusProofs                 WorkflowGraphProofs

    Startup ── StartupProofs

A solid line is EXTENDS; `Exchange`, like `AppConfig` for `ConfigControl`, is an
abstract specification its neighbour is shown to implement (INSTANCE).

`MC*` modules only give the constants their model values and symmetry sets.
Definitions marked "Mutant of X" are plausible wrong versions of X; with X
replaced by its mutant, the property named in `PROJECT.json` fails.  They show
that the property depends on that piece of code, and nothing else uses them.

### VersionedStore, WorkflowListing

`rows` is the collection.  A request keeps in `req` where it stands in `Save`
(`read`, `unmark`, `insert` are the pending database call), the merged content
and `nextVersion`.  `CreateWorkflow`, `UpdateWorkflow`/`UpdateNotFound`,
`DeleteWorkflow` are the handlers of `workflows.go`; `SaveRead`, `SaveUnmark`,
`SaveInsert`/`SaveDuplicate` the three calls of `versioned.Save`; `Abort` is a
call that fails without effect, or the death of the request.  The unique index
on `(document_id, version)` is `HasVersion` in the guard of the insert.  Object
ids are numbers that grow, as those of one server process do.  The content is a
function from fields to values: enough to tell masked fields from the others.

`WorkflowListing` adds clients that page through `ListLatest` (`Window` is the
query, `Top` sort and limit, `Token` the page token) between any two writes.

### ScanPipeline

One scan root on one agent.  `commands` and `results` are the two streams, the
`...Pending` sets entries that were delivered and not acknowledged, which the
subscriber claims again after an idle time.  The agent handles one command at a
time: `StartWalk` lists the root and takes `StartedAt`; each item is scanned by
its own goroutine, which publishes its parts one by one (`SendPart`) or gives up
(`SkipItem`); `EndWalk` is the completion after `waitGroup.Wait`.  The server
handles one result at a time: `UpsertDirectory`, `UpsertFiles`, `CompleteScan`
(the sweep), `ReportScanFailure`; `HandlerError` is the retry loop of the bus
with its drop at the end.  `AgentCrash`/`ServerCrash` lose the process before the
acknowledgement; `AgentStop`/`ServerStop` are shutdowns whose cancelled context
ends the handler, after which the entry may be acknowledged.  In either case an
entry the subscriber had read ahead goes pending (`Abandon...`).
`ClaimRunning...` is an entry that outlasts the idle time while its handler
still runs, on its first attempt or a retry.

`Publish` trims what has not been delivered, when that alone exceeds the cap.
Entries already delivered are older and go first; that the trim also takes
pending ones, that the command stream has a cap as well, and the age sweep are
not in this module (`StreamPurge` has all three for a stream of its own).

What a directory contains is abstracted to the number of messages it needs
(`Parts`), and time to the number of the walk: both timestamps come from the
same agent's clock and walks do not overlap.

### AppConfig, ConfigControl

`AppConfig` is the abstract specification: one document, changed by one whole
accepted request at a time.  `Applied(cfg, r)` is what a handler may write for
request `r`, with its validation.  `ConfigControl` is the server: the mutex
(`lock`), the calls of `MutateSync` one by one (`Begin`, `Upsert`, `SetLive`,
`Publish` per agent, `Return`), each with its failure, `Forget` outside the
lock, crash and start-up, and each agent's two refresh goroutines, a read and an
install apart.  A write that reports failure may have landed (`unsure`).  A
refused request leaves no trace and is not a step.

`BuildProjection` is what an agent may know: its level, `info` when unset, and
its mappings for scan directories that exist, with a path.

### AgentPresence

Time passes in ticks.  The lock and presence keys and every ticker count down;
`Tick` waits for what is due, unless its process is stalled.  `Claim`,
`ClaimTaken`, `ReadHolder`, `Retake` are the calls of `Claim`; `RefreshLock`,
`SetPresence` those of `Report`; `Stop` deletes both keys whoever holds them, as
`release` does.  Each process is one start of the agent with a fresh instance id.
`watcher` is the presence watcher's belief about the slug.

### Exchange, BusRequests, StreamPurge, EventBus

`Exchange` says what `Bus.Request` promises: a call is open, is answered with the
answer the handler gave to it, or fails, once.  `BusRequests` is the code: a
caller subscribes to its reply channel and waits for the acknowledgement
(`Subscribe`, `Acknowledge`) before it publishes (`Send`), then receives or times
out; the responder takes one request at a time from its subscription and
publishes the reply, to nobody if nobody listens any more.  Both buffers have
`Slots` places and drop what does not fit.  A caller's subscription stays
connected while it waits: a reply published while the Redis client reconnects
(the window of `agent/runtime/config.go:20-21`) is lost, the call times out, and
`AnswersReachCallers` does not speak of it.  The Redis client may send a publish
twice, so a request can be handled twice.  `ReplyChannel` is the correlation id,
supplied by the caller or minted.

`StreamPurge` is one durable stream: appends with the approximate MAXLEN, the
consumer's `Deliver`, `Claim` and `Ack`, the retention sweep, and the calls of
`PurgeStream` one by one: trim, move of the group, rounds of the drain until one
comes back short.  Each may fail and leave the rest undone.  The consumer holds
up to three entries: one at the reader, one at the claimer, one in the handler.
Purges follow one another; two operators purging one stream at once are not
modelled.

`EventBus` composes the two into one agent's bus: `Run` starts the responder and
then the router, `Stop` (or a setup error, or a crash) ends both.

### WorkflowTypes, WorkflowGraph

`WorkflowTypes` are the pure functions of `shared/workflow/types.go`: subtypes,
conversions, `CanConnect`.  `WorkflowGraph` takes the checks of `validate.Graph`
in their order, one action each; the sweeps of `computeMustHaveRun` visit one
node at a time, `scopeVisible` one loop at a time.  Where Go iterates over a map
the outcome is a choice.  A graph without errors is then *run*: tokens move along
its control edges as the comments on the kinds (`shared/workflow/catalog.go`),
the catalog (`config/catalog.json`) and the design page (`workflow_engine.adoc`)
say of each kind of node.  The engine is not written yet, so this second half is
no model of code: it is the meaning the verdict is checked against, and the
engine's specification in small.  Where the page leaves a choice open, both are
taken: `onItemError` skips or aborts, a Parallel waits for its siblings or
cancels them.

- A step that fails (`Fail`) leaves by its error port if that is wired
  (`Catch`).  Otherwise the loop it is iterated by decides (`SkipItem`,
  `AbortLoop`), or inside a branch a *poison* token goes to the join
  (`SendPoison`, `CancelSiblings`), or the run is aborted.
- A join is entered with one token on every wired in-port, poison or not, and
  with a poison token fails itself, so that it leaves by its error port
  (`joinError`).
- A For Each has a value (its `count`) from opening on, an `item` from the first
  item to `done`, a `failedCount` from `done` on (`sockets`).  What a body has
  produced goes with its iteration (`Kept`, `KeptSockets`); the lists of its
  Collect nodes are there at `done`, also after no item.
- With `atOnce` above one (the catalog's "Run at once") a loop may begin an item
  while earlier ones are on their way.  Tokens are a set, so the iterations under
  way are not told apart, and of such runs only `AvailabilitySound`,
  `EndsOutsideLoops` and `TypeOK` are claimed.

An edge may name a node the drawing does not have.  The checks treat such an end
like one whose type is not installed, and skip the edge; so does the run.

Type names are sequences of segments, of which there may be any number beyond the
ones the named types use (`SegmentsAssumption`).  Nodes have the ports the checks
tell apart; a Parallel has two of its eight
branches; a graph has at most one data edge, which is what each data check looks
at.  The type a source socket produces is an input (`resolveOutputType` is left
out), and so are the checks of data sockets' names and arity.

### Startup

`SeedAdmin`, then `ReadConfig`, `MergeMissing` once per built-in, `WriteConfig`,
`Warm` are `bootstrap.Run` and what `main.go` does with its report; a write may
fail having landed, and the process may die anywhere (`Die`) and come back with
more built-ins (`shipped`).  Between two starts operators change the document:
one action per request that touches what start-up seeds, all through
`MutateSync` and then, with the lock still held, `PropagateInProcess`; the
process may die between the two.  A sidecar type is its name and its order; its patterns and
category, which the handlers validate entry by entry, are left out.  Orders are
32-bit numbers of a small width, and `wrapped` remembers that one overflowed.
`settled` remembers that this release has come up and no type was deleted since:
the restart that the comments call ordinary.

A document that start-up meets has scan directories only if it has the scanner's
section, as no request stores one without the other (`directory_scanner.go:128`).
So the branch of `steps.go:16` that empties the directories finds none to erase,
which `FilledInv` proves; a document edited by hand is not covered.

## Runs

| Run | Question | Bounds |
|---|---|---|
| `workflow_store` | do concurrent saves, deletes and deaths leave contiguous, immutable histories with the flag on the newest version, and does a listing meanwhile show each untouched workflow exactly once and end? | two writers race on one document, a second document moves across the cursor; two versions, four object ids, pages of one |
| `save_retry` (violation) | does a retried save repair a document left without a latest version? | one client and one document suffice |
| `scan_pipeline` | do completions follow their results, does nothing vanish, and does a fault-free sweep leave exactly what the walk found? | a small item (one message) and a large one (two); two scans, three walks (one repeated), one fault, one failed call, one change on disk, a stream that overflows |
| `scan_liveness` | is every scan answered and every message settled? | one large item, the disk at rest, the stream not trimmed; two failed calls, so that one retry can be exhausted and the message dropped |
| `scan_partial` (violation) | does a walk with a failed item keep the records of what is on disk? | one failure, no fault |
| `config_control` | does the server implement the atomic document, do singleton and projections follow it, and does a running agent end up on its published projection? | two requests at once, two agents competing for one scan directory, one of them running, three mutations (create, delete, create again), one failure, one crash |
| `config_recreated` (violation) | does every configured agent have a projection between mutations? | no failure and no crash |
| `agent_presence` | one process per slug, no flicker, departures noticed in time? | TTL 5, heartbeat 2, start-up 2, watch 1, with the inequalities of the real 15 s, 5 s, less than 10 s and 3 s; two processes, two failed writes, one stall |
| `workflow_validation` | does what the validator lets through keep its word in every run, can it show what it refuses, does it end? | families of drawings over seven nodes: parallel branches with a Branch inside, two loops nested or in a row with Collect and Break, a loop both branches of a Parallel enter, a join with its error port wired around or inside a loop, loops that take two items at once, data edges from each socket of a For Each and of many types, drawings wrong in one place, edges to nodes that are not there; 1680 drawings, at most two items per loop, any step may fail |
| `workflow_scope_walk` (violation) | does validation end for every drawing? | the same drawings |
| `event_bus` | does a call get its own answer or none and end, is a purge final, does it spare later entries? | two callers (one id supplied, one minted), buffers of one, a cap of two, three entries, drain rounds of two, two purges, two runs of the bus, four operations in all |
| `startup` | does start-up keep what operators set and the table unambiguous, and does the scanner follow it? | three built-ins and a custom type, three names and three orders to give, 3-bit orders so that they overflow, two requests, one failed write, deaths and releases without bound |

The bounds are small because every hazard needs at most two actors of a kind and
one fault: two saves that read the same version, one claim during one handler,
one delete racing one create.  Counterexamples of the statements that do not hold
fit the same bounds.  Three mutations are needed for create, delete, create; three
walks for a walk that is repeated and a later one.

In `event_bus` the four operations are any mixture: two calls with two entries,
or a purge with three entries.  In `startup` two requests suffice for a rename or
a new type followed by a reorder or a delete, with releases in between; the
drawings of `workflow_validation` are listed in `MCWorkflowGraph`.

Deadlock is checked except in the scan, workflow and bus runs: there the system
really comes to rest, once its commands are handled, its verdict given or its
graph run, its calls ended.

`SweepExact` is conditional on no entry delivered twice and none dropped,
`PublishedNeverStale` on no failed call, `ForgottenStaysForgotten` on no failure
and no crash, `Exclusive` and `NoFlicker` on processes that report in time
(`Healthy`), `AvailabilitySound` on no join having left by its error port,
`ValueThere` on no failed step, properly nested loops that take one item at a
time, a source that is in the drawing, and a socket read where the design page
says it has a value, `SingleToken` on one item at a time and no Parallel,
`EndsOutsideLoops` on no Parallel, `WitnessReal` on a source that runs,
`AnswersReachCallers` on a connection that lasts and, like
`RequestRefinesExchange`, on distinct correlation ids, `OrdersUnambiguous` on
orders that fit 32 bits.  Those are the conditions under which the code keeps
the promise; the sections below give what happens without them.

### Fairness

- `WorkflowListing`: a client turns its pages.  No fairness of writers.
- `VersionedStore` (`save_retry` only): a save in progress goes on, and the
  client sends its update again and again.  That is the most a retry can do, and
  the document stays broken all the same.
- `ScanPipeline`: the two consumer loops run; a command that is pending is
  claimed in the end (the subscriber's claim ticker), hence strong fairness of
  `StartWalk`, which other commands can disable for a while.
- `ConfigControl`: handlers run to their end, start-up runs, the agent's timer
  and its subscription goroutine run.  Notifications may all be lost.
- `AgentPresence`: time passes, tickers that are due are served, except in a
  stalled process.
- `WorkflowGraph`: `validate.Graph` is one call and goes on.
- `EventBus`: a call's context expires, or its publish fails; every caller passes
  a context with a timeout.  No fairness of Redis, the responder or the consumer.

## What the checks found

1. **A failed save cannot be retried** (`save_retry`).  `versioned.go:112-115`
   says a retried save repairs a document whose save failed between unmark and
   insert.  `UpdateWorkflow` begins with `GetLatest`, which finds no flagged row:
   every retry is answered NotFound.
2. **A partial walk is swept** (`scan_partial`).  `agentproto.go:154-156` and
   `local_directory_repo.go:253-255` say a scan that fails part way is never
   reported complete.  An item that fails is only logged, the completion follows,
   and the sweep deletes that item's records.
3. **A recreated agent loses its projection** (`config_recreated`).
   `DeleteAgent` calls `Forget` after the lock is released; a `CreateAgent` in
   between has its projection deleted.
4. **Validation may not end** (`workflow_scope_walk`).  `flow.go:127-129` says
   `scopeVisible` walks up the loop-nesting tree.  A loop whose body leads back to
   its For Each, which no check refuses, is its own scope, and the walk from it to
   a source in another loop goes round for ever.

### Statements that do not hold, without a run of their own

They are defined in the modules below the properties; naming one in a
configuration as INVARIANT or PROPERTY reproduces its counterexample.

| Statement | Configuration to start from | Why it fails |
|---|---|---|
| `VersionedStore!DeleteIsFinal` | `MCVersionedStoreRetry.cfg` | a save that read before the delete inserts after it |
| `VersionedStore!UpdateKeepsUnmasked` | `MCWorkflowListing.cfg` with one document, two fields, two values and three versions | the merge is from the handler's read, the version number from Save's second read |
| `ScanPipeline!StoredNeverOlder` | `MCScanPipeline.cfg` | a redelivered result of an older walk overwrites; `ScanID` is never compared |
| `ScanPipeline!NoOrphans` | `MCScanPipeline.cfg` | files of a redelivered part outlive, or precede, their directory |
| `ConfigControl!DeletedHasNoProjection` | `MCConfigControl.cfg` | a failed `Forget`, or a crash before it; start-up removes no key |
| `ConfigControl!AgentsCatchUpRegardless` | `MCConfigControl.cfg` | after a failed SET nothing publishes again; the agent's timer re-reads the old key |
| `AgentPresence!OneAtATime` | `MCAgentPresence.cfg` | a process stalled past the TTL still runs when another claims the slug |
| `AgentPresence!RefusedOnlyByTheLiving` | `MCAgentPresence.cfg` with `MaxMissed = 0`, `MaxStalls = 0` | `presence.go:47-50` says a restarted agent finds its own id in the lock; the id is new at every start (`cmd/metarr-agent/main.go:73`), so it waits out its corpse |
| `WorkflowGraph!CollectReadAfterLoop` | `MCWorkflowGraph.cfg` | `workflow_engine.adoc:365` says a consumer of a Collect inside the body is refused; the availability check asks whether the loop has begun |
| `WorkflowGraph!JoinsComplete` | `MCWorkflowGraph.cfg` | `flow.go:330-333` says every branch reaches its join; an in-port of the join may be wired and never fed, from a node nothing leads to or behind the other port of a Branch, and the join waits |
| `WorkflowGraph!UnresolvedReported` | `MCWorkflowGraph.cfg` | `validate.go:155` says an edge without types at both ends is "already reported as an unresolved type"; `checkNodeTypes` reports nodes, and an edge whose node is not in the drawing passes every check |
| `WorkflowGraph!AvailableAfterError` | `MCWorkflowGraph.cfg` | `flow.go:142-152` says what must have run; a join entered with a poison token leaves by its error port (`workflow_engine.adoc:325`), and `joinMeet` (`flow.go:241`) promises what follows there every branch |
| `WorkflowGraph!SocketsInPlace` | `MCWorkflowGraph.cfg` | `config/catalog.json:143-146` makes `item` readable only inside the body and `failedCount` after `done`; the scope of both is the loop's own (`data.go:121-126`), so `item` after `done` and `failedCount` in the body pass |
| `WorkflowGraph!SingleTokenAlways` | `MCWorkflowGraph.cfg` | `validate.go:201-204` forbids implicit fan-out; a For Each that runs several items at once (`config/catalog.json:149`) has several points of control without a Parallel |
| `StreamPurge!TrimDropsAll` (a PROPERTY) | `MCEventBus.cfg` | the trim is approximate; what it leaves is read until the group is moved |
| `StreamPurge!DrainOnlyDangling` | `MCEventBus.cfg` | the drain also acknowledges entries the trim left, and entries delivered since the move |
| `StreamPurge!LargerOfTheTwo` | `MCEventBus.cfg` | MAXLEN and the sweep each drop on their own, so the smaller of the two remains |
| `BusRequests!RepliesNotStolen` | `MCEventBus.cfg` with both callers supplying one id (`MCSupplied == [c \in Calls \|-> c1]`) | the reply channel is the correlation id, and clients may supply it (`middleware.go:16-31`) |
| `Startup!TableCompiles` | `MCStartup.cfg` | the merge looks at ids and orders, not at names: a custom type may have the name of a built-in that returns |
| `Startup!PasswordShown` | `MCStartup.cfg` | a start-up that fails or dies after `SeedAdmin` has stored a password nobody sees; the next one finds it usable |
| `Startup!EmptyClassifiesNothing` | `MCStartup.cfg` | `steps.go:24-27` says an empty table would classify nothing; the registry takes the defaults instead |

## Proofs

TLAPS proves, for every number of clients, documents, agents, processes and
every bound:

- **VersionedStoreProofs**, from `DataAssumption`, `BoundsAssumption` and, for
  the listing, `PageAssumption`: types (`TypeCorrect`), `HistoryCorrect` (unique, contiguous, flag on the newest, at
  most one flag), `HistoryHasNoGap` and `HistoryKept` (the action property
  `HistoryImmutable`).  None of them is inductive: a request between two calls
  acts on what it read.  `StoreInv` adds what such a request still knows.
  `RequestsGrounded`: the version it follows exists, and only the request that
  minted an id can be about to insert version 1 of a document without rows.
  `UnmarkHolds`: between its unmark and its insert, a request whose version
  number is still free finds no row of the document flagged, because a save that
  had overtaken it would have taken the number.
  The listing: it implements the store (`ListingImplementsStore`), so the store's
  invariants hold while it is listed.  `EveryDocumentListedOnce` follows from what
  a listing has behind it at each page (`ListingInv`): an untouched document was
  shown once if its row is behind the cursor, and not at all if it is ahead.
  A page ends at its token because it is the top of a finite window, whatever its
  size.
- **ScanPipelineProofs**, from the module's assumptions on items, parts and
  bounds: `TypeCorrect`, `CompletionLast`, `NoResultVanishes` and the action
  property `SweepCorrect`.  Completions come last because the stream is in the
  order of walks (`StreamInOrder`), and the agent is done with a walk when it
  reports it.  Nothing vanishes: each part leaves a place only for the next one,
  or onto the record of losses, and an item a completion counts has had all its
  parts sent (`WalkKnown`).  The sweep is exact while entries were neither
  delivered twice nor dropped (`QuietFacts`): then the
  consumer's message comes before all on the stream, no record is ahead of a walk
  that may still change it, and what was handled of such a walk is stored.
- **AppConfigProofs**, from `ConfigAssumption`: every accepted request keeps one
  entry per slug and one owner per directory (`AppliedKeepsGood`,
  `OwnershipCorrect`).  The code finds the *first* owner only; that this suffices
  rests on uniqueness itself, and on a least index existing (`LeastExists`, from
  the least-element principle of the natural numbers).
- **ConfigControlProofs**, from `ControlAssumption` too: `ControlInv` says that a
  request is inside `MutateSync` exactly when it holds the lock, that what it is
  about to write was computed from the document as it is, and that only it may
  differ from the live configuration.  From it follow `LiveCorrect` and the
  refinement `MutateSyncSerialises` (every step of the server is a step of
  `AppConfig` or a stutter), and through the refinement `ServerOwnership`.
  `RedisInvariant` is the half outside the lock.  A projection in Redis that is
  not the document's is left to publish (`LeftToPublish`, `StaleIsUnderway`), so
  none is stale at rest: `PublishedCurrent`.  One of an agent the document does
  not have belongs to a deletion that has yet to forget it (`RemovalForgets`,
  `LeftoverIsForgotten`): `DeletedForgotten`.  `ControlTypeCorrect` is `TypeOK`.
- **AgentPresenceProofs**, from `TimingAssumption` (more than two heartbeats to
  the TTL, start-up and one heartbeat below it: 15 s against 2 x 5 s, and against
  5 s plus the 10 s of `connectCtx`, of which the connection before the claim has
  used a part): `PresenceTypes` and `SlugExclusive`.  `Covered` is the argument:
  the lock of a process at work is its own and outlasts its next report by a
  heartbeat, or by more than nothing once a write was missed.  The presence key
  has the same margin (`KeyInv`), which gives `NeverFlickers`; it also needs that
  nobody else is at work to delete it.  `WatcherGivesUp` rests on `Sighted`: the
  watcher has missed the key for at least as long as it has been gone, up to the
  time since its last scan.
- **WorkflowGraphProofs**, from `OrderAssumption`, `SegmentsAssumption` and
  `GraphsAssumption` (the types of a data edge are type names): every invariant of
  the run, for every drawing and any number of items.
  `MustHaveRunSound`: the sweep can only stop at a fixed point (`SweepInv`: in a
  pass that has changed nothing, every node visited satisfies its equation), and
  from a fixed point on (`RunInv`) a token on an edge, and a node that runs, has
  behind it what the equations say.
  `RefusalShown`: what the sweep takes from a node's set can be gone around
  (`WitnessInv`), since the nodes reached around x are closed under edges that do
  not enter x.
  `DataDelivered`: control has come to each point from everything promised there
  (`LeadInv`), a loop's body leads only into the body, and so an iteration, when
  it is over, discards nothing that is promised anywhere (`HeldInv`).  What a
  Collect or the `failedCount` of a loop has is there once the loop is done and
  control is outside it; `item` is there while control is inside (`SocketInv`):
  where a loop is due, control is in its body or behind its `done` (`LoopInv`).
  All of them speak of what is due at a point of control (`Due`).
  `OnePointOfControl`: without a Parallel and one item at a time the open loops
  are nested and control is in the body of each, also when a failing step is
  dropped by its loop (`SingleInv`).  `NeverEndsInALoop` cannot use that when
  several items run at once; it rests on `RootInv`, that some loop has all of
  control and all open loops in its body, and on no terminal being in a body
  (`ScopeInv`).
  `TypesHold`: subtyping is transitive (`SubtypeTransitive`), and nothing is below
  a type that shares its representation (`SharedAreLowest`).
  The searches are iterations of as many rounds as there are nodes; that this
  reaches the fixed point is `ClosureFixed`.  The library's induction cannot be
  used for it, so `AllNumbers` derives what is needed from a least counterexample,
  and `Iterates` gives the recursive function its equation by way of its finite
  approximations.
- **EventBusProofs**, from the constants' assumptions: `NoReplyMissed` and
  `RequestsAreSafe` (the safety part of `RequestRefinesExchange`) rest on
  `RequestInv`, in particular that a caller listens from before its request can
  be answered until it ends, and that a reply in its inbox is its own, so that it
  can be crowded out by nothing but itself.
  `PurgeIsFinal` and `PurgeSparesNewEntries` rest on `StreamInv`: once the group
  is moved nothing older is read anew, and once a drain round came back short
  (`ShortRoundIsAll`) nothing older is pending.  `BusTypeCorrect` bounds the
  buffers, the drain rounds and what a consumer has fetched.
- **StartupProofs**, from `StartupAssumption`: `StartupTypes`,
  `TableIsUnambiguous`, `ScannerFollows` and `StartupOnlyFillsIn`.  `FilledInv`
  says what a serving server's document has, so that an ordinary restart finds
  nothing to do; `MergeInv` that the draft of a merge extends the document and
  that no order in it exceeds `highestOrder`, so that an order beyond it is free
  (`AddKeepsOrder`).

With that, every invariant and every action property of the passing runs is a
theorem.  Only model-checked: liveness (`ListingEnds`, `EveryScanAnswered`,
`EveryMessageSettles`, `AgentsCatchUp`, `GoneIsNoticed`, `ValidationEndsOnTrees`,
and that calls end, in `RequestRefinesExchange`), which needs fairness and
ENABLED and is out of the prover's reach.

One attempt failed for a reason and changed the model.  `GraphTypeCorrect` asked
where an edge's ends are known to be nodes, and nothing in the code says so: such
edges are now among the drawings (`Dangling`).

## Not modelled

- Generated code: the Sonarr client (39 000 lines) and the protobuf and Connect
  files, well over half of the repository's Go.
- Reads (`Get...`, statistics, host information, bus statistics): no state.
- File names, XML, regular expressions, path prefixes (`mediascan`, `nfo`,
  sidecar patterns, `agentregistry/paths.go`): string functions of one process,
  where the unit tests are the right tool.  What they find enters as `Parts`.
- Sonarr instances: edits through the same `MutateSync`, then remote calls.
- `resolveOutputType` and the data sockets' names and arity in validation; more
  than one data edge (each check looks at one edge at a time); Parallel nodes
  with more than two branches.
- In a run of a workflow: retries of a step, and the watchdog of a join that
  waits too long.
- The bus's Ready channel, registration before `Run`, `PurgeAllStreams` (the loop
  over `PurgeStream`) and notifications other than the configuration's, which are
  hints.
- The rate limit of an RPC (one timestamp, compare-and-swap) and the log shipper
  (a bounded buffer that drops).
- Several servers: the store's lock is a mutex of one process, and the
  repository deploys one.
- Clock steps on the agent: walk numbers stand for its timestamps.

`ConfigControl` and `Startup` do not share a document: the first has what agents
depend on, the second what start-up seeds, and no request touches both.

## Plan

Modelled first were the store, the scan pipeline, configuration and presence;
then the bus (requests, purge, life cycle), workflow validation and start-up.
What could follow:

1. The workflow engine, once it is written, as a refinement of the runs of
   `WorkflowGraph`; the presence watcher's subscribers with it.
2. Path translation, the rate limiter and the log shipper's buffer.
3. Proofs: safety facts behind the liveness properties (that each pass of the
   sweep only shrinks the sets, that the walk of `scopeVisible` climbs to larger
   bodies when loops do not lead back into themselves).
