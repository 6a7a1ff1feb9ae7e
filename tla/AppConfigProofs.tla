--------------------------- MODULE AppConfigProofs ---------------------------
(***************************************************************************)
(* Every document the configuration store can reach has one entry per      *)
(* agent and at most one owner per scan directory.                         *)
(*                                                                         *)
(* validateMappings asks for the first owner of a scan directory only.     *)
(* That is enough because ownership was unique before: the three parts of  *)
(* Good hold together or not at all.                                       *)
(***************************************************************************)
EXTENDS AppConfig, TLAPS, WellFoundedInduction

\* The document's invariant, for any document.
UniqueSlugs(cfg) ==
    \A i, j \in DOMAIN cfg.agents : cfg.agents[i].slug = cfg.agents[j].slug => i = j

UniqueOwners(cfg) ==
    \A i, j \in DOMAIN cfg.agents :
        \A k \in DOMAIN cfg.agents[i].mappings : \A l \in DOMAIN cfg.agents[j].mappings :
            cfg.agents[i].mappings[k].scanner = cfg.agents[j].mappings[l].scanner
                => i = j /\ k = l

Good(cfg) == cfg \in Config /\ UniqueSlugs(cfg) /\ UniqueOwners(cfg)

-----------------------------------------------------------------------------
(* Finding the first of several.                                            *)

\* A set of naturals that is not empty has a least element.
LEMMA LeastExists ==
    ASSUME NEW T \in SUBSET Nat, T # {}
    PROVE  \E x \in T : \A y \in T : x <= y
<1> DEFINE R == OpToRel(<, Nat)
<1>1. IsWellFoundedOn(R, Nat)
  BY NatLessThanWellFounded, Zenon
<1> HIDE DEF R
<1>2. PICK x \in T : \A y \in T : ~ (<<y, x>> \in R)
  BY <1>1, WFMin
<1>3. \A y \in T : y < x => <<y, x>> \in R
  BY DEF R, OpToRel
<1>4. \A y \in T : ~ (y < x)
  BY <1>2, <1>3, Zenon
<1>5. \A y \in T : x <= y
  BY <1>4
<1> QED BY <1>5, Zenon

\* FindAgentIndex answers 0 when no agent has the slug, and otherwise the
\* index of one that has it.
LEMMA FindAgentIndexCorrect ==
    ASSUME NEW cfg \in Config, NEW slug \in Slugs
    PROVE  LET i == FindAgentIndex(cfg, slug) IN
           \/ i = 0 /\ \A j \in DOMAIN cfg.agents : cfg.agents[j].slug # slug
           \/ i # 0 /\ i \in DOMAIN cfg.agents /\ cfg.agents[i].slug = slug
<1> DEFINE T == {j \in DOMAIN cfg.agents : cfg.agents[j].slug = slug}
<1>1. DOMAIN cfg.agents = 1..Len(cfg.agents) /\ Len(cfg.agents) \in Nat
  BY DEF Config
<1>2. CASE T = {}
  BY <1>2 DEF FindAgentIndex
<1>3. CASE T # {}
  <2>1. T \in SUBSET Nat
    BY <1>1
  <2>2. PICK i \in T : \A y \in T : i <= y
    BY <1>3, <2>1, LeastExists
  <2>3. /\ i \in DOMAIN cfg.agents /\ cfg.agents[i].slug = slug
        /\ \A j \in 1..(i - 1) : cfg.agents[j].slug # slug
    BY <1>1, <2>2
  <2>4. /\ FindAgentIndex(cfg, slug) \in DOMAIN cfg.agents
        /\ cfg.agents[FindAgentIndex(cfg, slug)].slug = slug
    BY <2>3 DEF FindAgentIndex
  <2> QED BY <1>1, <2>4
<1> QED BY <1>2, <1>3

\* A scan directory that some agent maps has a first owner.
LEMMA FirstOwnerExists ==
    ASSUME NEW cfg \in Config, NEW s, NEW j \in DOMAIN cfg.agents, Maps(cfg.agents[j], s)
    PROVE  \E i \in DOMAIN cfg.agents : FirstOwner(cfg, s, i)
<1> DEFINE T == {i \in DOMAIN cfg.agents : Maps(cfg.agents[i], s)}
<1>1. DOMAIN cfg.agents = 1..Len(cfg.agents) /\ Len(cfg.agents) \in Nat
  BY DEF Config
<1>2. T \in SUBSET Nat /\ T # {}
  BY <1>1
<1>3. PICK i \in T : \A y \in T : i <= y
  BY <1>2, LeastExists
<1>4. FirstOwner(cfg, s, i)
  BY <1>1, <1>3 DEF FirstOwner
<1> QED BY <1>3, <1>4

\* What validateMappings establishes in a good document: no other agent maps
\* any of the entry's scan directories.
LEMMA ValidMappingsExclusive ==
    ASSUME NEW cfg, Good(cfg), NEW entry \in Agent, ValidMappings(cfg, entry),
           NEW j \in DOMAIN cfg.agents, cfg.agents[j].slug # entry.slug,
           NEW k \in DOMAIN entry.mappings, NEW l \in DOMAIN cfg.agents[j].mappings
    PROVE  cfg.agents[j].mappings[l].scanner # entry.mappings[k].scanner
<1> DEFINE s == entry.mappings[k].scanner
<1> SUFFICES ASSUME cfg.agents[j].mappings[l].scanner = s PROVE FALSE
  OBVIOUS
<1>1. Maps(cfg.agents[j], s)
  BY DEF Maps
<1>2. PICK i \in DOMAIN cfg.agents : FirstOwner(cfg, s, i)
  BY <1>1, FirstOwnerExists DEF Good
<1>3. cfg.agents[i].slug = entry.slug
  BY <1>2 DEF ValidMappings
<1>4. PICK m \in DOMAIN cfg.agents[i].mappings : cfg.agents[i].mappings[m].scanner = s
  BY <1>2 DEF FirstOwner, Maps
<1>5. i = j
  BY <1>4 DEF Good, UniqueOwners
<1> QED BY <1>3, <1>5

-----------------------------------------------------------------------------
(* Each way a document changes keeps it good.                               *)

\* The mappings a request carries are sequences of mappings.
LEMMA RequestMappings ==
    ASSUME NEW ms \in Mappings
    PROVE  ms \in Seq(Mapping)
<1>1. PICK n \in 0..MaxMappings : ms \in [1..n -> Mapping]
  BY DEF Mappings
<1> QED BY <1>1, ConfigAssumption

\* Unique ownership, in the form the steps below use it.
LEMMA OneOwner ==
    ASSUME NEW cfg, Good(cfg), NEW i \in DOMAIN cfg.agents, NEW j \in DOMAIN cfg.agents,
           NEW k \in DOMAIN cfg.agents[i].mappings, NEW l \in DOMAIN cfg.agents[j].mappings,
           cfg.agents[i].mappings[k].scanner = cfg.agents[j].mappings[l].scanner
    PROVE  i = j /\ k = l
BY DEF Good, UniqueOwners

\* A valid entry for a slug that is not configured may be appended.
LEMMA AppendKeepsGood ==
    ASSUME NEW cfg, Good(cfg), NEW entry \in Agent,
           ~Configured(cfg, entry.slug), ValidMappings(cfg, entry)
    PROVE  Good([cfg EXCEPT !.agents = Append(@, entry)])
<1> DEFINE new == [cfg EXCEPT !.agents = Append(@, entry)]
           n == Len(cfg.agents)
<1>1. cfg \in Config /\ n \in Nat /\ DOMAIN cfg.agents = 1..n
  BY DEF Good, Config
<1>2. new \in Config /\ new.agents = Append(cfg.agents, entry)
  <2>1. cfg.agents \in Seq(Agent)
    BY <1>1 DEF Config
  <2>2. Append(cfg.agents, entry) \in Seq(Agent)
    BY <2>1
  <2> HIDE DEF n
  <2> QED BY <1>1, <2>2 DEF Config
<1>3. /\ DOMAIN new.agents = 1..(n + 1)
      /\ \A i \in 1..n : new.agents[i] = cfg.agents[i]
      /\ new.agents[n + 1] = entry
  BY <1>1, <1>2 DEF Config
<1>4. \A j \in 1..n : cfg.agents[j].slug # entry.slug
  BY <1>1, FindAgentIndexCorrect DEF Configured, Agent
<1>5. UniqueSlugs(new)
  <2> SUFFICES ASSUME NEW i \in 1..(n + 1), NEW j \in 1..(n + 1),
                      new.agents[i].slug = new.agents[j].slug
               PROVE  i = j
    BY <1>3 DEF UniqueSlugs
  <2> HIDE DEF new, n
  <2>1. \A a, b \in 1..n : cfg.agents[a].slug = cfg.agents[b].slug => a = b
    BY <1>1 DEF Good, UniqueSlugs
  <2>2. i \in 1..n \/ i = n + 1
    BY <1>1
  <2>3. j \in 1..n \/ j = n + 1
    BY <1>1
  <2> QED BY <1>3, <1>4, <2>1, <2>2, <2>3
<1>6. UniqueOwners(new)
  <2> SUFFICES ASSUME NEW i \in 1..(n + 1), NEW j \in 1..(n + 1),
                      NEW k \in DOMAIN new.agents[i].mappings,
                      NEW l \in DOMAIN new.agents[j].mappings,
                      new.agents[i].mappings[k].scanner = new.agents[j].mappings[l].scanner
               PROVE  i = j /\ k = l
    BY <1>3 DEF UniqueOwners
  <2> HIDE DEF new
  <2>1. CASE i \in 1..n /\ j \in 1..n
    <3>1. new.agents[i] = cfg.agents[i] /\ new.agents[j] = cfg.agents[j]
      BY <1>3, <2>1
    <3>2. i \in DOMAIN cfg.agents /\ j \in DOMAIN cfg.agents
      BY <1>1, <2>1
    <3>3. /\ k \in DOMAIN cfg.agents[i].mappings
          /\ l \in DOMAIN cfg.agents[j].mappings
          /\ cfg.agents[i].mappings[k].scanner = cfg.agents[j].mappings[l].scanner
      BY <3>1, Zenon
    <3> QED BY <3>2, <3>3, OneOwner
  <2>2. CASE i = n + 1 /\ j = n + 1
    BY <1>3, <2>2 DEF ValidMappings
  <2>3. CASE i \in 1..n /\ j = n + 1
    BY <1>1, <1>3, <1>4, <2>3, ValidMappingsExclusive
  <2>4. CASE i = n + 1 /\ j \in 1..n
    BY <1>1, <1>3, <1>4, <2>4, ValidMappingsExclusive
  <2> QED BY <1>1, <2>1, <2>2, <2>3, <2>4
<1> QED BY <1>2, <1>5, <1>6 DEF Good

\* An agent's entry may be replaced by one with its slug whose mappings are
\* valid, or are the ones it had.
LEMMA ReplaceKeepsGood ==
    ASSUME NEW cfg, Good(cfg), NEW i \in DOMAIN cfg.agents, NEW entry \in Agent,
           entry.slug = cfg.agents[i].slug,
           ValidMappings(cfg, entry) \/ entry.mappings = cfg.agents[i].mappings
    PROVE  Good([cfg EXCEPT !.agents[i] = entry])
<1> DEFINE new == [cfg EXCEPT !.agents[i] = entry]
           n == Len(cfg.agents)
<1>1. cfg \in Config /\ n \in Nat /\ DOMAIN cfg.agents = 1..n
  BY DEF Good, Config
<1>2. new \in Config /\ new.agents = [cfg.agents EXCEPT ![i] = entry]
  <2>1. cfg.agents \in Seq(Agent)
    BY <1>1 DEF Config
  <2>2. [cfg.agents EXCEPT ![i] = entry] \in Seq(Agent)
    BY <2>1
  <2> HIDE DEF n
  <2> QED BY <1>1, <2>2 DEF Config
<1>3. /\ DOMAIN new.agents = 1..n
      /\ \A j \in 1..n : j # i => new.agents[j] = cfg.agents[j]
      /\ new.agents[i] = entry
  BY <1>1, <1>2 DEF Config
<1>4. \A j \in 1..n : j # i => cfg.agents[j].slug # entry.slug
  BY <1>1 DEF Good, UniqueSlugs
<1>5. UniqueSlugs(new)
  <2> HIDE DEF new
  <2> QED BY <1>1, <1>3, <1>4 DEF Good, UniqueSlugs
<1>6. UniqueOwners(new)
  <2> SUFFICES ASSUME NEW a \in 1..n, NEW b \in 1..n,
                      NEW k \in DOMAIN new.agents[a].mappings,
                      NEW l \in DOMAIN new.agents[b].mappings,
                      new.agents[a].mappings[k].scanner = new.agents[b].mappings[l].scanner
               PROVE  a = b /\ k = l
    BY <1>3 DEF UniqueOwners
  <2> HIDE DEF new
  <2>1. CASE entry.mappings = cfg.agents[i].mappings
    <3>1. \A j \in 1..n : new.agents[j].mappings = cfg.agents[j].mappings
      BY <1>3, <2>1
    <3>2. /\ k \in DOMAIN cfg.agents[a].mappings
          /\ l \in DOMAIN cfg.agents[b].mappings
          /\ cfg.agents[a].mappings[k].scanner = cfg.agents[b].mappings[l].scanner
      BY <3>1, Zenon
    <3> QED BY <1>1, <3>2, OneOwner
  <2>2. CASE ValidMappings(cfg, entry)
    <3>1. CASE a # i /\ b # i
      <4>1. new.agents[a] = cfg.agents[a] /\ new.agents[b] = cfg.agents[b]
        BY <1>3, <3>1
      <4>2. /\ k \in DOMAIN cfg.agents[a].mappings
            /\ l \in DOMAIN cfg.agents[b].mappings
            /\ cfg.agents[a].mappings[k].scanner = cfg.agents[b].mappings[l].scanner
        BY <4>1, Zenon
      <4> QED BY <1>1, <4>2, OneOwner
    <3>2. CASE a = i /\ b = i
      BY <1>3, <2>2, <3>2 DEF ValidMappings
    <3>3. CASE a # i /\ b = i
      BY <1>1, <1>3, <1>4, <2>2, <3>3, ValidMappingsExclusive
    <3>4. CASE a = i /\ b # i
      BY <1>1, <1>3, <1>4, <2>2, <3>4, ValidMappingsExclusive
    <3> QED BY <3>1, <3>2, <3>3, <3>4
  <2> QED BY <2>1, <2>2
<1> QED BY <1>2, <1>5, <1>6 DEF Good

\* An agent may be taken out: the entries after it move down by one.
LEMMA WithoutKeepsGood ==
    ASSUME NEW cfg, Good(cfg), NEW i \in DOMAIN cfg.agents
    PROVE  Good([cfg EXCEPT !.agents = Without(@, i)])
<1> DEFINE new == [cfg EXCEPT !.agents = Without(@, i)]
           n == Len(cfg.agents)
           old(j) == IF j < i THEN j ELSE j + 1
<1>1. cfg \in Config /\ n \in Nat /\ DOMAIN cfg.agents = 1..n /\ cfg.agents \in Seq(Agent)
  BY DEF Good, Config
<1>2. \A j \in 1..(n - 1) : old(j) \in 1..n
  BY <1>1
<1>3. new.agents = [j \in 1..(n - 1) |-> cfg.agents[old(j)]]
  BY <1>1 DEF Without, Config
<1>4. new \in Config
  <2>1. n - 1 \in Nat
    BY <1>1
  <2>2. \A j \in 1..(n - 1) : cfg.agents[old(j)] \in Agent
    BY <1>1, <1>2
  <2>3. [j \in 1..(n - 1) |-> cfg.agents[old(j)]] \in Seq(Agent)
    BY <2>1, <2>2
  <2> QED BY <1>1, <1>3, <2>3 DEF Config
<1>5. \A j, m \in 1..(n - 1) : old(j) = old(m) => j = m
  BY <1>1
<1>6. DOMAIN new.agents = 1..(n - 1) /\ \A j \in 1..(n - 1) : new.agents[j] = cfg.agents[old(j)]
  BY <1>3
<1> HIDE DEF new, old
<1>7. UniqueSlugs(new)
  <2> SUFFICES ASSUME NEW a \in 1..(n - 1), NEW b \in 1..(n - 1),
                      new.agents[a].slug = new.agents[b].slug
               PROVE  a = b
    BY <1>6, Zenon DEF UniqueSlugs
  <2>1. cfg.agents[old(a)].slug = cfg.agents[old(b)].slug
    BY <1>6, Zenon
  <2>2. old(a) = old(b)
    BY <1>1, <1>2, <2>1, Zenon DEF Good, UniqueSlugs
  <2> QED BY <1>5, <2>2, Zenon
<1>8. UniqueOwners(new)
  <2> SUFFICES ASSUME NEW a \in 1..(n - 1), NEW b \in 1..(n - 1),
                      NEW k \in DOMAIN new.agents[a].mappings,
                      NEW l \in DOMAIN new.agents[b].mappings,
                      new.agents[a].mappings[k].scanner = new.agents[b].mappings[l].scanner
               PROVE  a = b /\ k = l
    BY <1>6, Zenon DEF UniqueOwners
  <2>1. new.agents[a] = cfg.agents[old(a)] /\ new.agents[b] = cfg.agents[old(b)]
    BY <1>6, Zenon
  <2>2. old(a) \in DOMAIN cfg.agents /\ old(b) \in DOMAIN cfg.agents
    BY <1>1, <1>2, Zenon
  <2>3. old(a) = old(b) /\ k = l
    <3>1. /\ k \in DOMAIN cfg.agents[old(a)].mappings
          /\ l \in DOMAIN cfg.agents[old(b)].mappings
          /\ cfg.agents[old(a)].mappings[k].scanner = cfg.agents[old(b)].mappings[l].scanner
      BY <2>1, Zenon
    <3> QED BY <2>2, <3>1, OneOwner
  <2> QED BY <1>5, <2>3, Zenon
<1>9. Good(new)
  BY <1>4, <1>7, <1>8 DEF Good
<1> QED BY <1>9 DEF new

\* Scan directories come and go without touching the agents' entries.
LEMMA ScannersKeepGood ==
    ASSUME NEW cfg, Good(cfg), NEW s \in Scanners, NEW t \in Types \cup {NoType}
    PROVE  Good([cfg EXCEPT !.scanners[s] = t])
BY DEF Good, Config, UniqueSlugs, UniqueOwners

\* The shared body of CreateAgent and of UpdateAgent with allow_missing.
LEMMA CreateKeepsGood ==
    ASSUME NEW cfg, Good(cfg), NEW slug \in Slugs, NEW level \in Levels \cup {NoLevel},
           NEW mappings \in Mappings,
           NEW new \in AppendNewAgent(cfg, Entry(slug, level, mappings))
    PROVE  Good(new)
<1> DEFINE entry == Entry(slug, level, mappings)
<1>1. entry \in Agent /\ entry.slug = slug
  BY RequestMappings DEF Entry, Agent
<1>2. /\ ~Configured(cfg, entry.slug) /\ ValidMappings(cfg, entry)
      /\ new = [cfg EXCEPT !.agents = Append(@, entry)]
  BY DEF AppendNewAgent, Writes
<1> HIDE DEF entry
<1> QED BY <1>1, <1>2, AppendKeepsGood

\* UpdateAgent keeps Good.
LEMMA UpdateKeepsGood ==
    ASSUME NEW cfg, Good(cfg), NEW r, r.slug \in Slugs, r.level \in Levels \cup {NoLevel},
           r.mappings \in Mappings, NEW new \in UpdateAgent(cfg, r)
    PROVE  Good(new)
<1> DEFINE i == FindAgentIndex(cfg, r.slug)
           merged == Merged(cfg.agents[i], r)
<1>1. CASE i = 0
  <2>1. new \in AppendNewAgent(cfg, Entry(r.slug, r.level, r.mappings))
    BY <1>1 DEF UpdateAgent, CreateAgent
  <2> QED BY <2>1, CreateKeepsGood
<1>2. CASE i # 0
  <2>1. i \in DOMAIN cfg.agents /\ cfg.agents[i].slug = r.slug
    BY <1>2, FindAgentIndexCorrect DEF Good
  <2>2. ValidMappings(cfg, merged) /\ new = [cfg EXCEPT !.agents[i] = merged]
    BY <1>2 DEF UpdateAgent, Writes
  <2>3. cfg.agents[i] \in Agent
    BY <2>1 DEF Good, Config
  <2>4. merged \in Agent /\ merged.slug = r.slug
    BY <2>3, RequestMappings DEF Merged, Entry, Agent
  <2> HIDE DEF i, merged
  <2> QED BY <2>1, <2>2, <2>4, ReplaceKeepsGood
<1> QED BY <1>1, <1>2

\* DeleteAgent keeps Good.
LEMMA DeleteKeepsGood ==
    ASSUME NEW cfg, Good(cfg), NEW r, r.slug \in Slugs, NEW new \in DeleteAgent(cfg, r)
    PROVE  Good(new)
<1> DEFINE i == FindAgentIndex(cfg, r.slug)
<1>1. i # 0 /\ new = [cfg EXCEPT !.agents = Without(@, i)]
  BY DEF DeleteAgent, Writes, Configured
<1>2. i \in DOMAIN cfg.agents
  BY <1>1, FindAgentIndexCorrect DEF Good
<1> HIDE DEF i
<1> QED BY <1>1, <1>2, WithoutKeepsGood

\* SetAgentLogLevel keeps Good.
LEMMA SetLogLevelKeepsGood ==
    ASSUME NEW cfg, Good(cfg), NEW r, r.slug \in Slugs, r.level \in Levels,
           NEW new \in SetLogLevel(cfg, r)
    PROVE  Good(new)
<1> DEFINE i == FindAgentIndex(cfg, r.slug)
<1>1. CASE i = 0
  <2> DEFINE entry == Entry(r.slug, r.level, <<>>)
  <2>1. entry \in Agent /\ entry.slug = r.slug /\ entry.mappings = <<>>
    BY DEF Entry, Agent
  <2>2. new = [cfg EXCEPT !.agents = Append(@, entry)]
    BY <1>1 DEF SetLogLevel
  <2>3. ~Configured(cfg, r.slug)
    BY <1>1 DEF Configured
  <2>4. ValidMappings(cfg, entry)
    BY <2>1 DEF ValidMappings
  <2> HIDE DEF entry
  <2> QED BY <2>1, <2>2, <2>3, <2>4, AppendKeepsGood
<1>2. CASE i # 0
  <2>1. i \in DOMAIN cfg.agents /\ cfg.agents[i].slug = r.slug
    BY <1>2, FindAgentIndexCorrect DEF Good
  <2>2. cfg.agents[i] \in Agent
    BY <2>1 DEF Good, Config
  <2> DEFINE entry == [cfg.agents[i] EXCEPT !.level = r.level]
  <2>3. /\ entry \in Agent /\ entry.slug = cfg.agents[i].slug
        /\ entry.mappings = cfg.agents[i].mappings
    BY <2>2 DEF Agent
  <2>4. new = [cfg EXCEPT !.agents[i] = entry]
    BY <1>2 DEF SetLogLevel
  <2> HIDE DEF i, entry
  <2> QED BY <2>1, <2>3, <2>4, ReplaceKeepsGood
<1> QED BY <1>1, <1>2

\* Every accepted request turns a good document into a good one.
LEMMA AppliedKeepsGood ==
    ASSUME NEW cfg, Good(cfg), NEW r \in Requests, NEW new \in Applied(cfg, r)
    PROVE  Good(new)
<1>1. CASE r.op = "CreateAgent"
  <2>1. new \in AppendNewAgent(cfg, Entry(r.slug, r.level, r.mappings))
    BY <1>1 DEF Applied, CreateAgent
  <2>2. r.slug \in Slugs /\ r.level \in Levels \cup {NoLevel} /\ r.mappings \in Mappings
    BY <1>1 DEF Requests
  <2> QED BY <2>1, <2>2, CreateKeepsGood
<1>2. CASE r.op = "UpdateAgent"
  <2>1. new \in UpdateAgent(cfg, r)
    BY <1>2 DEF Applied
  <2>2. r.slug \in Slugs /\ r.level \in Levels \cup {NoLevel} /\ r.mappings \in Mappings
    BY <1>2 DEF Requests
  <2> QED BY <2>1, <2>2, UpdateKeepsGood
<1>3. CASE r.op = "DeleteAgent"
  <2>1. new \in DeleteAgent(cfg, r) /\ r.slug \in Slugs
    BY <1>3 DEF Applied, Requests
  <2> QED BY <2>1, DeleteKeepsGood
<1>4. CASE r.op = "SetLogLevel"
  <2>1. new \in SetLogLevel(cfg, r) /\ r.slug \in Slugs /\ r.level \in Levels
    BY <1>4 DEF Applied, Requests
  <2> QED BY <2>1, SetLogLevelKeepsGood
<1>5. CASE r.op \in {"CreateScanDirectory", "UpdateScanDirectory"}
  <2>1. r.scanner \in Scanners /\ r.type \in Types
    BY <1>5 DEF Requests
  <2>2. new = [cfg EXCEPT !.scanners[r.scanner] = r.type]
    BY <1>5 DEF Applied, CreateScanDirectory, UpdateScanDirectory, Writes
  <2> QED BY <2>1, <2>2, ScannersKeepGood
<1>6. CASE r.op = "DeleteScanDirectory"
  <2>1. r.scanner \in Scanners
    BY <1>6 DEF Requests
  <2>2. new = [cfg EXCEPT !.scanners[r.scanner] = NoType]
    BY <1>6 DEF Applied, DeleteScanDirectory, Writes
  <2> QED BY <2>1, <2>2, ScannersKeepGood
<1>7. r.op \in {"CreateAgent", "UpdateAgent", "DeleteAgent", "SetLogLevel", "CreateScanDirectory",
                "UpdateScanDirectory", "DeleteScanDirectory"}
  BY DEF Requests
<1> QED BY <1>1, <1>2, <1>3, <1>4, <1>5, <1>6, <1>7

\* The default document is Good.
LEMMA DefaultGood == Good(Default)
BY DEF Good, Default, Config, UniqueSlugs, UniqueOwners

-----------------------------------------------------------------------------
\* The document never has two entries for an agent slug, nor two owners for a
\* scan directory, for any number of agents, directories and requests: what
\* AgentForScanner relies on when it stops at the first mapping it finds.
THEOREM OwnershipCorrect == AtomicSpec => [](ConfigTypeOK /\ AgentsUnique /\ OwnershipUnique)
<1>1. AtomicInit => Good(stored)
  BY DefaultGood DEF AtomicInit
<1>2. Good(stored) /\ [AtomicNext]_stored => Good(stored)'
  <2> SUFFICES ASSUME Good(stored), [AtomicNext]_stored PROVE Good(stored')
    OBVIOUS
  <2>1. CASE AtomicNext
    BY <2>1, AppliedKeepsGood DEF AtomicNext
  <2>2. CASE UNCHANGED stored
    BY <2>2
  <2> QED BY <2>1, <2>2
<1>3. Good(stored) => ConfigTypeOK /\ AgentsUnique /\ OwnershipUnique
  BY DEF Good, UniqueSlugs, UniqueOwners, ConfigTypeOK, AgentsUnique, OwnershipUnique
<1> QED BY <1>1, <1>2, <1>3, PTL DEF AtomicSpec
=============================================================================
