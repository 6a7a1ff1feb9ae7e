------------------------------ MODULE AppConfig ------------------------------
(***************************************************************************)
(* The application configuration as its callers see it: one document, and  *)
(* mutations that read it, decide on what they read and write the result   *)
(* in one step.  This is what the configuration store promises;            *)
(* ConfigControl shows how the server keeps the promise.                   *)
(*                                                                         *)
(* Of the document the model keeps what the agents depend on: the agents   *)
(* with their mappings and log level, and the scan directories with their  *)
(* type.  The order of the agents matters (the first owner is the one that *)
(* is found), that of the scan directories does not.  Slugs stand for the  *)
(* names ValidateSlug accepts.                                             *)
(***************************************************************************)
EXTENDS Naturals, Sequences

CONSTANTS
    Slugs,       \* agent slugs
    Scanners,    \* scan directory slugs
    Types,       \* scan types
    Paths,       \* agent paths, the empty one included
    NoPath,      \* the empty agent path
    Levels,      \* log levels an operator may set
    Info,        \* the level a projection carries when none is set
    NoLevel,     \* no level set
    NoType,      \* a scan directory that does not exist
    MaxMappings  \* bound: mappings in one request

ASSUME ConfigAssumption == /\ NoType \notin Types /\ NoLevel \notin Levels /\ Info \in Levels
                           /\ MaxMappings \in Nat

VARIABLE stored  \* the document in MongoDB

Mapping == [scanner: Scanners, path: Paths]
Mappings == UNION {[1..n -> Mapping] : n \in 0..MaxMappings}
Agent == [slug: Slugs, level: Levels \cup {NoLevel}, mappings: Seq(Mapping)]
Config == [agents: Seq(Agent), scanners: [Scanners -> Types \cup {NoType}]]

\* Default: no agents, no scan directories.
Default == [agents |-> <<>>, scanners |-> [s \in Scanners |-> NoType]]

-----------------------------------------------------------------------------
(* Lookups.                                                                 *)

\* FindAgentIndex, with 0 for -1.
FindAgentIndex(cfg, slug) ==
    IF \E i \in DOMAIN cfg.agents : cfg.agents[i].slug = slug
    THEN CHOOSE i \in DOMAIN cfg.agents :
            /\ cfg.agents[i].slug = slug
            /\ \A j \in 1..(i - 1) : cfg.agents[j].slug # slug
    ELSE 0

Configured(cfg, slug) == FindAgentIndex(cfg, slug) # 0
ScannerExists(cfg, s) == cfg.scanners[s] # NoType

Maps(agent, s) == \E k \in DOMAIN agent.mappings : agent.mappings[k].scanner = s

\* AgentForScanner: the first agent with a mapping for s owns it.
FirstOwner(cfg, s, i) ==
    /\ i \in DOMAIN cfg.agents
    /\ Maps(cfg.agents[i], s)
    /\ \A j \in 1..(i - 1) : ~Maps(cfg.agents[j], s)

\* Mutant of ValidMappings: another agent's ownership is not looked at.
ValidWithoutOwner(cfg, entry) ==
    LET ms == entry.mappings IN
    /\ \A k \in DOMAIN ms : ScannerExists(cfg, ms[k].scanner)
    /\ \A k, l \in DOMAIN ms : ms[k].scanner = ms[l].scanner => k = l

\* validateMappings: every scanner exists, none is mapped twice, and none is
\* owned by another agent.
ValidMappings(cfg, entry) ==
    LET ms == entry.mappings IN
    /\ \A k \in DOMAIN ms : ScannerExists(cfg, ms[k].scanner)
    /\ \A k, l \in DOMAIN ms : ms[k].scanner = ms[l].scanner => k = l
    /\ \A k \in DOMAIN ms : \A i \in DOMAIN cfg.agents :
            FirstOwner(cfg, ms[k].scanner, i) => cfg.agents[i].slug = entry.slug

-----------------------------------------------------------------------------
(* The mutations: the requests, what the handlers refuse and what they     *)
(* write.                                                                  *)

\* An empty mask is refused.  A mask of other fields (display_name) acts like
\* one that sets the level to what it was: it validates and writes as they do.
Masks == {{"mappings"}, {"log_level"}, {"mappings", "log_level"}}

Requests ==
    [op: {"CreateAgent"}, slug: Slugs, level: Levels \cup {NoLevel}, mappings: Mappings]
    \cup [op: {"UpdateAgent"}, slug: Slugs, level: Levels \cup {NoLevel}, mappings: Mappings,
          mask: Masks, allowMissing: BOOLEAN]
    \cup [op: {"DeleteAgent"}, slug: Slugs]
    \cup [op: {"SetLogLevel"}, slug: Slugs, level: Levels]
    \cup [op: {"CreateScanDirectory"}, scanner: Scanners, type: Types]
    \cup [op: {"UpdateScanDirectory"}, scanner: Scanners, type: Types, allowMissing: BOOLEAN]
    \cup [op: {"DeleteScanDirectory"}, scanner: Scanners]

Entry(slug, level, mappings) == [slug |-> slug, level |-> level, mappings |-> mappings]

\* What a handler may write: nothing when it refuses the request.
Writes(accepted, new) == IF accepted THEN {new} ELSE {}

\* appendNewAgent
AppendNewAgent(cfg, entry) ==
    Writes(~Configured(cfg, entry.slug) /\ ValidMappings(cfg, entry),
           [cfg EXCEPT !.agents = Append(@, entry)])

CreateAgent(cfg, r) == AppendNewAgent(cfg, Entry(r.slug, r.level, r.mappings))

\* applyUpdateMask on a copy of the agent; the mask cannot move the slug.
Merged(agent, r) ==
    Entry(r.slug,
          IF "log_level" \in r.mask THEN r.level ELSE agent.level,
          IF "mappings" \in r.mask THEN r.mappings ELSE agent.mappings)

UpdateAgent(cfg, r) ==
    LET i == FindAgentIndex(cfg, r.slug)
        merged == Merged(cfg.agents[i], r)
    IN  IF i = 0 THEN IF r.allowMissing THEN CreateAgent(cfg, r) ELSE {}
        ELSE Writes(ValidMappings(cfg, merged), [cfg EXCEPT !.agents[i] = merged])

\* append(agents[:i], agents[i+1:]...)
Without(agents, i) ==
    [j \in 1..(Len(agents) - 1) |-> IF j < i THEN agents[j] ELSE agents[j + 1]]

DeleteAgent(cfg, r) ==
    Writes(Configured(cfg, r.slug),
           [cfg EXCEPT !.agents = Without(@, FindAgentIndex(cfg, r.slug))])

\* An agent that is not configured gets a bare entry.
SetLogLevel(cfg, r) ==
    LET i == FindAgentIndex(cfg, r.slug) IN
    IF i = 0 THEN {[cfg EXCEPT !.agents = Append(@, Entry(r.slug, r.level, <<>>))]}
    ELSE {[cfg EXCEPT !.agents[i].level = r.level]}

CreateScanDirectory(cfg, r) ==
    Writes(~ScannerExists(cfg, r.scanner), [cfg EXCEPT !.scanners[r.scanner] = r.type])

UpdateScanDirectory(cfg, r) ==
    Writes(ScannerExists(cfg, r.scanner) \/ r.allowMissing,
           [cfg EXCEPT !.scanners[r.scanner] = r.type])

\* The agents' mappings for the directory stay where they are.
DeleteScanDirectory(cfg, r) ==
    Writes(ScannerExists(cfg, r.scanner), [cfg EXCEPT !.scanners[r.scanner] = NoType])

Applied(cfg, r) ==
    CASE r.op = "CreateAgent" -> CreateAgent(cfg, r)
      [] r.op = "UpdateAgent" -> UpdateAgent(cfg, r)
      [] r.op = "DeleteAgent" -> DeleteAgent(cfg, r)
      [] r.op = "SetLogLevel" -> SetLogLevel(cfg, r)
      [] r.op = "CreateScanDirectory" -> CreateScanDirectory(cfg, r)
      [] r.op = "UpdateScanDirectory" -> UpdateScanDirectory(cfg, r)
      [] r.op = "DeleteScanDirectory" -> DeleteScanDirectory(cfg, r)

-----------------------------------------------------------------------------
AtomicInit == stored = Default
AtomicNext == \E r \in Requests : stored' \in Applied(stored, r)
AtomicSpec == AtomicInit /\ [][AtomicNext]_stored

-----------------------------------------------------------------------------
\* The document is a configuration: known slugs, types, levels and paths.
ConfigTypeOK == stored \in Config

\* One entry per agent slug.
AgentsUnique ==
    \A i, j \in DOMAIN stored.agents : stored.agents[i].slug = stored.agents[j].slug => i = j

\* Only one agent may own a scan directory (validateMappings, AgentForScanner):
\* no two mappings of the document name the same one, whatever was deleted and
\* created again in between.
OwnershipUnique ==
    \A i, j \in DOMAIN stored.agents :
        \A k \in DOMAIN stored.agents[i].mappings : \A l \in DOMAIN stored.agents[j].mappings :
            stored.agents[i].mappings[k].scanner = stored.agents[j].mappings[l].scanner
                => i = j /\ k = l
=============================================================================
