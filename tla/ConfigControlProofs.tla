------------------------- MODULE ConfigControlProofs -------------------------
(***************************************************************************)
(* MutateSync keeps the configuration store's promise: the server with its *)
(* lock, its failing writes and its crashes implements the store that      *)
(* applies one request at a time, and what it serves from memory is what   *)
(* it stored.  What it publishes to Redis after the lock follows, request  *)
(* by request: nothing stale and nothing of a deleted agent is left there. *)
(***************************************************************************)
EXTENDS ConfigControl, AppConfigProofs

Holding == {"upsert", "live", "publish"}
Calls == [pc: {"idle", "forget"} \cup Holding, cfg: Config, left: Seq(Slugs),
          forget: Slugs \cup {NoOne}]

\* What the proofs need of the types.
CallsTyped == /\ lock \in Clients \cup {NoOne}
              /\ call \in [Clients -> Calls]
              /\ boot \in [pc: {"up", "read", "publish"}, left: Seq(Slugs)]
              /\ unsure \in BOOLEAN

\* A request is inside MutateSync exactly when it holds the lock.
LockHeld == \A c \in Clients : call[c].pc \in Holding <=> lock = c

\* While the server starts, no request runs.
BootAlone == boot.pc # "up" => \A c \in Clients : call[c].pc = "idle"

\* What a request is about to write was computed from the document as it is.
WriteGrounded ==
    \A c \in Clients : call[c].pc = "upsert" => \E r \in Requests : call[c].cfg \in Applied(stored, r)

\* After its write the document is the request's, and it alone may differ
\* from the live config.
Written == \A c \in Clients :
    /\ call[c].pc = "live" => stored = call[c].cfg
    /\ call[c].pc = "publish" => stored = call[c].cfg /\ live = call[c].cfg

LiveFollows ==
    /\ boot.pc = "up" /\ ~unsure /\ (\A c \in Clients : call[c].pc # "live") => live = stored
    /\ boot.pc = "publish" => live = stored /\ ~unsure

ControlInv == Good(stored) /\ CallsTyped /\ LockHeld /\ BootAlone /\ WriteGrounded /\ Written
              /\ LiveFollows

-----------------------------------------------------------------------------
\* The agents of a document are a sequence of slugs.
LEMMA SlugsOfType ==
    ASSUME NEW cfg \in Config
    PROVE  SlugsOf(cfg) \in Seq(Slugs)
<1>1. cfg.agents \in Seq(Agent) /\ DOMAIN cfg.agents = 1..Len(cfg.agents)
  BY DEF Config
<1>2. \A i \in DOMAIN cfg.agents : cfg.agents[i] \in Agent
  BY <1>1
<1>3. \A i \in DOMAIN cfg.agents : cfg.agents[i].slug \in Slugs
  BY <1>2 DEF Agent
<1> QED BY <1>1, <1>3 DEF SlugsOf

\* A client without a request is idle.
LEMMA IdleCallType == IdleCall \in Calls /\ IdleCall.pc = "idle"
BY DefaultGood DEF IdleCall, Calls, Good

\* The invariant of the lock and the document holds at first.
LEMMA InitControl == Init => ControlInv
<1> SUFFICES ASSUME Init PROVE ControlInv
  OBVIOUS
<1>1. \A c \in Clients : call[c] = IdleCall /\ call[c].pc = "idle"
  BY IdleCallType DEF Init
<1>2. Good(stored)
  BY DefaultGood DEF Init, AtomicInit
<1>3. CallsTyped
  <2>1. call \in [Clients -> Calls]
    BY IdleCallType DEF Init
  <2>2. boot \in [pc: {"up", "read", "publish"}, left: Seq(Slugs)]
    BY DEF Init
  <2> QED BY <2>1, <2>2 DEF Init, CallsTyped
<1>4. LockHeld /\ BootAlone /\ WriteGrounded /\ Written
  BY <1>1, ControlAssumption DEF Init, LockHeld, Holding, BootAlone, WriteGrounded, Written
<1>5. LiveFollows
  BY DEF Init, AtomicInit, LiveFollows
<1> QED BY <1>2, <1>3, <1>4, <1>5 DEF ControlInv

-----------------------------------------------------------------------------
(* The steps.                                                               *)

\* The steps of the agents, and Forget, touch none of this state but a call
\* outside the lock.
LEMMA AgentStep ==
    ASSUME ControlInv, UNCHANGED serverVars
    PROVE  ControlInv'
BY DEF ControlInv, serverVars, Good, CallsTyped, LockHeld, BootAlone, WriteGrounded, Written,
       LiveFollows, UniqueSlugs, UniqueOwners

\* A Forget leaves the document alone.
LEMMA ForgetStep ==
    ASSUME ControlInv, NEW c \in Clients, call[c].pc = "forget",
           call' = [call EXCEPT ![c] = IdleCall], UNCHANGED <<stored, lock, boot, live, unsure>>
    PROVE  ControlInv'
<1>1. /\ \A d \in Clients : d # c => call'[d] = call[d]
      /\ call'[c].pc = "idle"
  BY IdleCallType DEF ControlInv, CallsTyped
<1>2. CallsTyped'
  BY IdleCallType DEF ControlInv, CallsTyped
<1>3. LockHeld' /\ WriteGrounded' /\ Written'
  BY <1>1 DEF ControlInv, LockHeld, Holding, WriteGrounded, Written
<1>4. BootAlone' /\ LiveFollows'
  BY <1>1 DEF ControlInv, BootAlone, LiveFollows
<1> QED BY <1>2, <1>3, <1>4 DEF ControlInv

\* A request that begins takes the lock, and works on the document as it is.
LEMMA BeginStep ==
    ASSUME ControlInv, NEW c \in Clients, NEW r \in Requests, Begin(c, r)
    PROVE  ControlInv'
<1>1. PICK new \in Applied(stored, r) :
        call' = [call EXCEPT ![c] = [pc |-> "upsert", cfg |-> new, left |-> SlugsOf(new),
                    forget |-> IF r.op = "DeleteAgent" THEN r.slug ELSE NoOne]]
  BY DEF Begin
<1>2. Good(new)
  BY AppliedKeepsGood DEF ControlInv
<1>3. /\ UNCHANGED <<stored, boot, live, unsure>> /\ lock = NoOne /\ lock' = c
      /\ boot.pc = "up" /\ call[c].pc = "idle"
  BY DEF Begin
<1>4. r.op = "DeleteAgent" => r.slug \in Slugs
  BY DEF Requests
<1>5. call \in [Clients -> Calls]
  BY DEF ControlInv, CallsTyped
<1>6. /\ \A d \in Clients : d # c => call'[d] = call[d]
      /\ call'[c].pc = "upsert" /\ call'[c].cfg = new
  BY <1>1, <1>5
<1>7. CallsTyped'
  <2>1. [pc |-> "upsert", cfg |-> new, left |-> SlugsOf(new),
         forget |-> IF r.op = "DeleteAgent" THEN r.slug ELSE NoOne] \in Calls
    BY <1>2, <1>4, SlugsOfType DEF Calls, Holding, Good
  <2>2. call' \in [Clients -> Calls]
    BY <1>1, <1>5, <2>1
  <2> QED BY <1>3, <2>2 DEF ControlInv, CallsTyped
<1>8. LockHeld'
  BY <1>3, <1>6, ControlAssumption DEF ControlInv, LockHeld, Holding
<1>9. WriteGrounded' /\ Written'
  BY <1>3, <1>6 DEF ControlInv, WriteGrounded, Written
<1>10. BootAlone' /\ LiveFollows'
  BY <1>3, <1>6 DEF ControlInv, BootAlone, LiveFollows
<1>11. Good(stored)'
  BY <1>3 DEF ControlInv
<1> QED BY <1>7, <1>8, <1>9, <1>10, <1>11 DEF ControlInv

\* The write is grounded, so it is one whole request, and nobody else is
\* inside MutateSync to have computed a write from the old document.
LEMMA UpsertStep ==
    ASSUME ControlInv, NEW c \in Clients, Upsert(c)
    PROVE  ControlInv'
<1>1. /\ call[c].pc = "upsert" /\ stored' = call[c].cfg
      /\ call' = [call EXCEPT ![c].pc = "live"] /\ UNCHANGED <<lock, boot, live, unsure>>
  BY DEF Upsert
<1>2. call \in [Clients -> Calls] /\ lock = c
  BY <1>1 DEF ControlInv, CallsTyped, LockHeld, Holding
<1>3. \A d \in Clients : d # c => call'[d] = call[d] /\ call[d].pc \notin Holding
  BY <1>1, <1>2 DEF ControlInv, LockHeld
<1>4. call'[c].pc = "live" /\ call'[c].cfg = call[c].cfg
  BY <1>1, <1>2 DEF Calls
<1>5. Good(stored)'
  BY <1>1, AppliedKeepsGood DEF ControlInv, WriteGrounded
<1>6. CallsTyped'
  <2>1. [call[c] EXCEPT !.pc = "live"] \in Calls
    BY <1>2 DEF Calls, Holding
  <2>2. call' \in [Clients -> Calls]
    BY <1>1, <1>2, <2>1
  <2> QED BY <1>1, <2>2 DEF ControlInv, CallsTyped
<1>7. LockHeld'
  BY <1>1, <1>2, <1>3, <1>4 DEF ControlInv, LockHeld, Holding
<1>8. WriteGrounded' /\ Written'
  BY <1>1, <1>3, <1>4 DEF ControlInv, WriteGrounded, Written, Holding
<1>9. BootAlone' /\ LiveFollows'
  BY <1>1, <1>3, <1>4 DEF ControlInv, BootAlone, LiveFollows, Holding
<1> QED BY <1>5, <1>6, <1>7, <1>8, <1>9 DEF ControlInv

\* A write that fails may have been made or not, and releases the lock.
LEMMA UpsertFailsStep ==
    ASSUME ControlInv, NEW c \in Clients, UpsertFails(c)
    PROVE  ControlInv'
<1>1. /\ call[c].pc = "upsert" /\ lock' = NoOne
      /\ UNCHANGED <<stored, unsure>> \/ (stored' = call[c].cfg /\ unsure' = TRUE)
      /\ call' = [call EXCEPT ![c] = IdleCall] /\ UNCHANGED <<boot, live>>
  BY DEF UpsertFails
<1>2. call \in [Clients -> Calls] /\ lock = c
  BY <1>1 DEF ControlInv, CallsTyped, LockHeld, Holding
<1>3. \A d \in Clients : d # c => call'[d] = call[d] /\ call[d].pc \notin Holding
  BY <1>1, <1>2 DEF ControlInv, LockHeld
<1>4. call'[c].pc = "idle"
  BY <1>1, <1>2, IdleCallType
<1>5. Good(stored)'
  BY <1>1, AppliedKeepsGood DEF ControlInv, WriteGrounded
<1>6. CallsTyped'
  BY <1>1, <1>2, IdleCallType DEF ControlInv, CallsTyped
<1>7. LockHeld'
  BY <1>1, <1>3, <1>4, ControlAssumption DEF LockHeld, Holding
<1>8. WriteGrounded' /\ Written'
  BY <1>3, <1>4 DEF WriteGrounded, Written, Holding
<1>9. BootAlone'
  BY <1>1, <1>3, <1>4 DEF ControlInv, BootAlone
<1>10. LiveFollows'
  BY <1>1, <1>3, <1>4 DEF ControlInv, BootAlone, LiveFollows, Holding
<1> QED BY <1>5, <1>6, <1>7, <1>8, <1>9, <1>10 DEF ControlInv

\* The singleton follows the write under the same lock.
LEMMA SetLiveStep ==
    ASSUME ControlInv, NEW c \in Clients, SetLive(c)
    PROVE  ControlInv'
<1>1. /\ call[c].pc = "live" /\ live' = call[c].cfg /\ unsure' = FALSE
      /\ call' = [call EXCEPT ![c].pc = "publish"] /\ UNCHANGED <<stored, lock, boot>>
  BY DEF SetLive
<1>2. call \in [Clients -> Calls] /\ lock = c
  BY <1>1 DEF ControlInv, CallsTyped, LockHeld, Holding
<1>3. \A d \in Clients : d # c => call'[d] = call[d] /\ call[d].pc \notin Holding
  BY <1>1, <1>2 DEF ControlInv, LockHeld
<1>4. call'[c].pc = "publish" /\ call'[c].cfg = call[c].cfg /\ stored = call[c].cfg
  BY <1>1, <1>2 DEF Calls, ControlInv, Written
<1>5. CallsTyped'
  <2>1. [call[c] EXCEPT !.pc = "publish"] \in Calls
    BY <1>2 DEF Calls, Holding
  <2>2. call' \in [Clients -> Calls]
    BY <1>1, <1>2, <2>1
  <2> QED BY <1>1, <2>2 DEF ControlInv, CallsTyped
<1>6. LockHeld'
  BY <1>1, <1>2, <1>3, <1>4 DEF ControlInv, LockHeld, Holding
<1>7. WriteGrounded' /\ Written'
  BY <1>1, <1>3, <1>4 DEF ControlInv, WriteGrounded, Written, Holding
<1>8. BootAlone' /\ LiveFollows'
  BY <1>1, <1>3, <1>4 DEF ControlInv, BootAlone, LiveFollows
<1>9. Good(stored)'
  BY <1>1 DEF ControlInv
<1> QED BY <1>5, <1>6, <1>7, <1>8, <1>9 DEF ControlInv

\* PublishAll only uses up the list of agents left.
LEMMA PublishStep ==
    ASSUME ControlInv, NEW c \in Clients, Publish(c) \/ PublishFails(c)
    PROVE  ControlInv'
<1>1. PICK rest \in Seq(Slugs) :
        /\ call[c].pc = "publish" /\ call' = [call EXCEPT ![c].left = rest]
        /\ UNCHANGED <<stored, lock, boot, live, unsure>>
  <2>1. call[c].left \in Seq(Slugs)
    BY DEF ControlInv, CallsTyped, Calls
  <2>2. CASE Publish(c)
    <3>1. Tail(call[c].left) \in Seq(Slugs)
      BY <2>1, <2>2 DEF Publish
    <3> QED BY <2>2, <3>1 DEF Publish
  <2>3. CASE PublishFails(c)
    <3>1. << >> \in Seq(Slugs)
      OBVIOUS
    <3> QED BY <2>3, <3>1 DEF PublishFails
  <2> QED BY <2>2, <2>3
<1>2. call \in [Clients -> Calls]
  BY DEF ControlInv, CallsTyped
<1>3. \A d \in Clients : call'[d].pc = call[d].pc /\ call'[d].cfg = call[d].cfg
  BY <1>1, <1>2 DEF Calls
<1>4. CallsTyped'
  <2>1. [call[c] EXCEPT !.left = rest] \in Calls
    BY <1>2 DEF Calls
  <2>2. call' \in [Clients -> Calls]
    BY <1>1, <1>2, <2>1
  <2> QED BY <1>1, <2>2 DEF ControlInv, CallsTyped
<1>5. LockHeld' /\ BootAlone' /\ LiveFollows'
  BY <1>1, <1>3 DEF ControlInv, LockHeld, BootAlone, LiveFollows
<1>6. WriteGrounded' /\ Written'
  BY <1>1, <1>3 DEF ControlInv, WriteGrounded, Written
<1>7. Good(stored)'
  BY <1>1 DEF ControlInv
<1> QED BY <1>4, <1>5, <1>6, <1>7 DEF ControlInv

\* A request that returns leaves the lock free.
LEMMA ReturnStep ==
    ASSUME ControlInv, NEW c \in Clients, Return(c)
    PROVE  ControlInv'
<1> DEFINE next == IF call[c].forget = NoOne THEN IdleCall
                   ELSE [IdleCall EXCEPT !.pc = "forget", !.forget = call[c].forget]
<1>1. /\ call[c].pc = "publish" /\ lock' = NoOne /\ UNCHANGED <<stored, boot, live, unsure>>
      /\ call' = [call EXCEPT ![c] = next]
  BY DEF Return
<1>2. call \in [Clients -> Calls] /\ lock = c
  BY <1>1 DEF ControlInv, CallsTyped, LockHeld, Holding
<1>3. \A d \in Clients : d # c => call'[d] = call[d] /\ call[d].pc \notin Holding
  BY <1>1, <1>2 DEF ControlInv, LockHeld
<1>4. next \in Calls /\ next.pc \in {"idle", "forget"}
  BY <1>2, IdleCallType DEF Calls, IdleCall
<1> HIDE DEF next
<1>5. call'[c].pc \in {"idle", "forget"}
  BY <1>1, <1>2, <1>4
<1>6. CallsTyped'
  BY <1>1, <1>2, <1>4 DEF ControlInv, CallsTyped
<1>7. LockHeld'
  BY <1>1, <1>3, <1>5, ControlAssumption DEF LockHeld, Holding
<1>8. WriteGrounded' /\ Written'
  BY <1>3, <1>5 DEF WriteGrounded, Written, Holding
<1>9. boot.pc = "up"
  BY <1>1 DEF ControlInv, BootAlone
<1>10. BootAlone' /\ LiveFollows'
  BY <1>1, <1>9 DEF ControlInv, BootAlone, LiveFollows, Written
<1>11. Good(stored)'
  BY <1>1 DEF ControlInv
<1> QED BY <1>6, <1>7, <1>8, <1>10, <1>11 DEF ControlInv

\* A crash takes the lock and the singleton with it, not the document.
LEMMA CrashStep ==
    ASSUME ControlInv, ServerCrash
    PROVE  ControlInv'
<1>1. /\ boot' = [pc |-> "read", left |-> <<>>] /\ lock' = NoOne
      /\ call' = [c \in Clients |-> IdleCall] /\ UNCHANGED <<stored, unsure>>
  BY DEF ServerCrash
<1>2. \A c \in Clients : call'[c].pc = "idle"
  BY <1>1, IdleCallType
<1>3. CallsTyped'
  <2>1. call' \in [Clients -> Calls]
    BY <1>1, IdleCallType
  <2>2. boot' \in [pc: {"up", "read", "publish"}, left: Seq(Slugs)]
    BY <1>1
  <2> QED BY <1>1, <2>1, <2>2 DEF ControlInv, CallsTyped
<1>4. LockHeld'
  BY <1>1, <1>2, ControlAssumption DEF LockHeld, Holding
<1>5. BootAlone' /\ WriteGrounded' /\ Written'
  BY <1>2 DEF BootAlone, WriteGrounded, Written
<1>6. LiveFollows'
  BY <1>1 DEF LiveFollows
<1>7. Good(stored)'
  BY <1>1 DEF ControlInv
<1> QED BY <1>3, <1>4, <1>5, <1>6, <1>7 DEF ControlInv

\* A server that boots reads the document before it serves.
LEMMA BootStep ==
    ASSUME ControlInv, Boot
    PROVE  ControlInv'
<1>1. /\ boot.pc \in {"read", "publish"} /\ UNCHANGED <<stored, lock, call>>
      /\ live' = stored /\ (boot'.pc = "publish" => unsure' = FALSE)
      /\ (boot.pc = "publish" => unsure' = unsure)
      /\ unsure' \in BOOLEAN
      /\ boot' \in [pc: {"up", "read", "publish"}, left: Seq(Slugs)]
  <2>1. CASE BootRead
    <3>1. SlugsOf(stored) \in Seq(Slugs)
      BY SlugsOfType DEF ControlInv, Good
    <3> QED BY <2>1, <3>1 DEF BootRead
  <2>2. CASE BootPublish
    <3>1. boot.left \in Seq(Slugs) /\ boot.left # <<>>
      BY <2>2 DEF BootPublish, ControlInv, CallsTyped
    <3>2. Tail(boot.left) \in Seq(Slugs)
      BY <3>1
    <3>3. \/ boot' = [boot EXCEPT !.left = Tail(boot.left)]
          \/ boot' = [boot EXCEPT !.left = <<>>]
      BY <2>2 DEF BootPublish
    <3>4. << >> \in Seq(Slugs) /\ boot \in [pc: {"up", "read", "publish"}, left: Seq(Slugs)]
      BY DEF ControlInv, CallsTyped
    <3>5. boot' \in [pc: {"up", "read", "publish"}, left: Seq(Slugs)]
      BY <3>2, <3>3, <3>4
    <3> QED BY <2>2, <3>5 DEF BootPublish, ControlInv, LiveFollows, CallsTyped
  <2>3. CASE BootServe
    <3>1. boot' \in [pc: {"up", "read", "publish"}, left: Seq(Slugs)]
      BY <2>3 DEF BootServe, ControlInv, CallsTyped
    <3> QED BY <2>3, <3>1 DEF BootServe, ControlInv, LiveFollows, CallsTyped
  <2> QED BY <2>1, <2>2, <2>3 DEF Boot
<1>2. CallsTyped' /\ LockHeld' /\ WriteGrounded'
  BY <1>1 DEF ControlInv, CallsTyped, LockHeld, WriteGrounded
<1>3. BootAlone' /\ Written'
  BY <1>1 DEF ControlInv, BootAlone, Written
<1>4. LiveFollows' /\ Good(stored)'
  BY <1>1 DEF ControlInv, LiveFollows
<1> QED BY <1>2, <1>3, <1>4 DEF ControlInv

\* Every step keeps the invariant of the lock and the document.
LEMMA ControlStep ==
    ASSUME ControlInv, [Next]_vars
    PROVE  ControlInv'
<1>1. ASSUME NEW c \in Clients, NEW r \in Requests, Begin(c, r) PROVE ControlInv'
  BY <1>1, BeginStep
<1>2. ASSUME NEW c \in Clients, Request(c) \/ RequestFails(c) PROVE ControlInv'
  <2>1. CASE Forget(c) \/ ForgetFails(c)
    BY <2>1, ForgetStep DEF Forget, ForgetFails
  <2> QED BY <1>2, <2>1, UpsertStep, UpsertFailsStep, SetLiveStep, PublishStep, ReturnStep
          DEF Request, RequestFails
<1>3. ASSUME NEW a \in Slugs, NEW w \in Readers, Refresh(a, w) \/ RefreshFails(a, w)
      PROVE  ControlInv'
  BY <1>3, AgentStep DEF Refresh, RefreshRead, RefreshInstall, RefreshFails
<1>4. ASSUME NEW a \in Slugs, AgentRestart(a) PROVE ControlInv'
  BY <1>4, AgentStep DEF AgentRestart
<1>5. CASE UNCHANGED vars
  <2>1. UNCHANGED serverVars
    BY <1>5 DEF vars, serverVars
  <2> QED BY <2>1, AgentStep
<1>6. Running \subseteq Slugs
  BY ControlAssumption
<1> QED BY <1>1, <1>2, <1>3, <1>4, <1>5, <1>6, CrashStep, BootStep DEF Next

\* The invariant of MutateSync: who holds its lock, and what its holder has read
\* and written, agrees with the document and the singleton.
THEOREM ControlInvariant == Spec => []ControlInv
<1>1. ControlInv /\ [Next]_vars => ControlInv'
  BY ControlStep
<1> QED BY <1>1, InitControl, PTL DEF Spec

-----------------------------------------------------------------------------
\* The singleton that RunDirectoryScan and every read handler use is the stored
\* document between mutations, through crashes and failed writes.
THEOREM LiveCorrect == Spec => []LiveIsStored
<1>1. ControlInv => LiveIsStored
  <2> SUFFICES ASSUME ControlInv, AtRest, ~unsure PROVE live = stored
    BY DEF LiveIsStored
  <2>1. \A c \in Clients : call[c].pc # "live"
    BY ControlAssumption DEF ControlInv, LockHeld, Holding, AtRest
  <2> QED BY <2>1 DEF ControlInv, LiveFollows, AtRest
<1> QED BY <1>1, ControlInvariant, PTL

\* The server implements the store that applies one request at a time.
THEOREM MutateSyncSerialises == Spec => Serialised
<1>1. Init => AtomicInit
  BY DEF Init
<1>2. ControlInv /\ [Next]_vars => [AtomicNext]_stored
  <2> SUFFICES ASSUME ControlInv, [Next]_vars, stored' # stored PROVE AtomicNext
    OBVIOUS
  <2>1. PICK c \in Clients : Upsert(c) \/ UpsertFails(c)
    BY DEF Next, vars, Begin, Request, RequestFails, SetLive, Publish, PublishFails, Return, Forget,
           ForgetFails, ServerCrash, Boot, BootRead, BootPublish, BootServe, Refresh, RefreshRead,
           RefreshInstall, RefreshFails, AgentRestart, serverVars
  <2>2. call[c].pc = "upsert" /\ stored' = call[c].cfg
    BY <2>1 DEF Upsert, UpsertFails
  <2> QED BY <2>2 DEF ControlInv, WriteGrounded, AtomicNext
<1> QED BY <1>1, <1>2, ControlInvariant, PTL DEF Spec, AtomicSpec, Serialised

\* With that, ownership of scan directories is unique in the real server too.
THEOREM ServerOwnership == Spec => []OwnershipUnique
BY MutateSyncSerialises, OwnershipCorrect, PTL DEF Serialised

-----------------------------------------------------------------------------
(* What is in Redis.                                                        *)

Listed(a, s) == \E j \in 1..Len(s) : s[j] = a

\* The rest of the types.
RedisTyped ==
    /\ live \in Config
    /\ published \in [Slugs -> MaybeProjection]
    /\ notified \subseteq Slugs
    /\ current \in [Slugs -> MaybeProjection]
    /\ reading \in [Slugs -> [Readers -> [busy: BOOLEAN, got: MaybeProjection]]]

BudgetTyped ==
    /\ budget \in [{"calls", "failures", "crashes"} -> Nat]
    /\ budget.failures <= MaxFailures /\ budget.crashes <= MaxCrashes

\* PublishAll is handed every agent of the configuration it publishes, and no
\* other.
LeftToPublish ==
    /\ \A c \in Clients :
         /\ call[c].pc \in {"upsert", "live"} => call[c].left = SlugsOf(call[c].cfg)
         /\ call[c].pc = "publish" => \A a \in Slugs : Listed(a, call[c].left) => Configured(call[c].cfg, a)
    /\ boot.pc = "publish" => \A a \in Slugs : Listed(a, boot.left) => Configured(live, a)

\* Somebody is about to write agent a's projection.
Underway(a) ==
    \/ \E c \in Clients : \/ call[c].pc = "live"
                          \/ call[c].pc = "publish" /\ Listed(a, call[c].left)
    \/ boot.pc = "read"
    \/ boot.pc = "publish" /\ Listed(a, boot.left)

\* A stale projection is about to be replaced.
StaleIsUnderway ==
    NoFailures => \A a \in Slugs :
        /\ Configured(stored, a) /\ published[a] # NoProjection
        /\ published[a] # BuildProjection(stored, a)
        => Underway(a)

\* A request that takes an agent out of the configuration will forget it.
RemovalForgets ==
    \A c \in Clients : call[c].pc = "upsert" =>
        \A a \in Slugs : Configured(stored, a) /\ ~Configured(call[c].cfg, a) => call[c].forget = a

\* The projection of a deleted agent is about to be forgotten.
LeftoverIsForgotten ==
    NoFailures /\ NoCrashes => \A a \in Slugs :
        ~Configured(stored, a) /\ published[a] # NoProjection =>
            \E c \in Clients : call[c].forget = a /\ call[c].pc \in {"live", "publish", "forget"}

RedisInv == /\ RedisTyped /\ BudgetTyped /\ LeftToPublish
            /\ StaleIsUnderway /\ RemovalForgets /\ LeftoverIsForgotten

\* An agent is configured when it has an entry.
LEMMA ConfiguredIs ==
    ASSUME NEW cfg \in Config, NEW a \in Slugs
    PROVE  /\ Configured(cfg, a) <=> \E i \in DOMAIN cfg.agents : cfg.agents[i].slug = a
           /\ Configured(cfg, a) => /\ FindAgentIndex(cfg, a) \in DOMAIN cfg.agents
                                    /\ cfg.agents[FindAgentIndex(cfg, a)] \in Agent
<1>1. \/ FindAgentIndex(cfg, a) = 0 /\ \A j \in DOMAIN cfg.agents : cfg.agents[j].slug # a
      \/ /\ FindAgentIndex(cfg, a) # 0 /\ FindAgentIndex(cfg, a) \in DOMAIN cfg.agents
         /\ cfg.agents[FindAgentIndex(cfg, a)].slug = a
  BY FindAgentIndexCorrect
<1>2. \A j \in DOMAIN cfg.agents : cfg.agents[j] \in Agent
  BY DEF Config
<1> QED BY <1>1, <1>2 DEF Configured

\* PublishAll's list names the configured agents.
LEMMA ListedSlugs ==
    ASSUME NEW cfg \in Config, NEW a \in Slugs
    PROVE  Listed(a, SlugsOf(cfg)) <=> Configured(cfg, a)
<1>1. cfg.agents \in Seq(Agent) /\ DOMAIN cfg.agents = 1..Len(cfg.agents)
  BY DEF Config
<1>2. SlugsOf(cfg) \in Seq(Slugs)
  BY SlugsOfType
<1>3. DOMAIN SlugsOf(cfg) = 1..Len(SlugsOf(cfg))
  BY <1>2
<1>4. DOMAIN SlugsOf(cfg) = DOMAIN cfg.agents
      /\ \A i \in DOMAIN cfg.agents : SlugsOf(cfg)[i] = cfg.agents[i].slug
  BY DEF SlugsOf
<1> HIDE DEF SlugsOf
<1> QED BY <1>3, <1>4, ConfiguredIs DEF Listed

\* What an agent is sent is a projection: its level is set and every directory
\* it is told of exists.
LEMMA ProjectionType ==
    ASSUME NEW cfg \in Config, NEW a \in Slugs, Configured(cfg, a)
    PROVE  BuildProjection(cfg, a) \in Projection
<1> DEFINE agent == cfg.agents[FindAgentIndex(cfg, a)]
           Shown == {m \in ToSet(agent.mappings) : ScannerExists(cfg, m.scanner) /\ m.path # NoPath}
           lvl == IF agent.level = NoLevel THEN Info ELSE agent.level
           dirs == {[scanner |-> m.scanner, type |-> cfg.scanners[m.scanner], path |-> m.path]
                      : m \in Shown}
<1>1. agent \in Agent
  BY ConfiguredIs
<1>2. lvl \in Levels
  BY <1>1, ConfigAssumption DEF Agent
<1>3. agent.mappings \in Seq(Mapping)
  BY <1>1 DEF Agent
<1>4. \A m \in ToSet(agent.mappings) : m \in Mapping
  BY <1>3 DEF ToSet
<1>5. cfg.scanners \in [Scanners -> Types \cup {NoType}]
  BY DEF Config
<1>6. \A m \in Shown : /\ m.scanner \in Scanners /\ m.path \in Paths
                       /\ cfg.scanners[m.scanner] \in Types
  BY <1>4, <1>5 DEF Mapping, ScannerExists
<1> HIDE DEF Shown
<1>7. dirs \in SUBSET [scanner: Scanners, type: Types, path: Paths]
  BY <1>6
<1>8. BuildProjection(cfg, a) = [level |-> lvl, dirs |-> dirs]
  BY DEF BuildProjection, Shown
<1> HIDE DEF lvl, dirs
<1> QED BY <1>2, <1>7, <1>8 DEF Projection

\* Only DeleteAgent takes an agent out of the configuration, and only its own.
LEMMA OnlyDeleteRemoves ==
    ASSUME NEW cfg, Good(cfg), NEW r \in Requests, NEW new \in Applied(cfg, r), NEW a \in Slugs,
           Configured(cfg, a), ~Configured(new, a)
    PROVE  r.op = "DeleteAgent" /\ r.slug = a
<1>0. /\ cfg \in Config /\ new \in Config
      /\ cfg.agents \in Seq(Agent) /\ Len(cfg.agents) \in Nat
      /\ DOMAIN cfg.agents = 1..Len(cfg.agents)
  BY AppliedKeepsGood DEF Good, Config
<1>1. PICK i \in DOMAIN cfg.agents : cfg.agents[i].slug = a
  BY <1>0, ConfiguredIs
<1>2. \A j \in DOMAIN new.agents : new.agents[j].slug # a
  BY <1>0, ConfiguredIs
<1>3. ASSUME NEW entry \in Agent, new = [cfg EXCEPT !.agents = Append(@, entry)]
      PROVE  FALSE
  <2>1. new.agents = Append(cfg.agents, entry)
    BY <1>0, <1>3 DEF Config
  <2>2. i \in DOMAIN new.agents /\ new.agents[i] = cfg.agents[i]
    BY <1>0, <1>1, <2>1
  <2> QED BY <1>1, <1>2, <2>2
<1>4. ASSUME NEW k \in DOMAIN cfg.agents, NEW entry, entry.slug = cfg.agents[k].slug,
             new = [cfg EXCEPT !.agents[k] = entry]
      PROVE  FALSE
  <2>1. new.agents = [cfg.agents EXCEPT ![k] = entry]
    BY <1>0, <1>4 DEF Config
  <2>2. i \in DOMAIN new.agents /\ new.agents[i].slug = a
    BY <1>0, <1>1, <1>4, <2>1
  <2> QED BY <1>2, <2>2
<1>5. ASSUME new.agents = cfg.agents
      PROVE  FALSE
  BY <1>1, <1>2, <1>5
<1>6. CASE r.op = "CreateAgent"
  <2>1. r.slug \in Slugs /\ r.level \in Levels \cup {NoLevel} /\ r.mappings \in Mappings
    BY <1>6 DEF Requests
  <2>2. Entry(r.slug, r.level, r.mappings) \in Agent
    BY <2>1, RequestMappings DEF Entry, Agent
  <2>3. new \in CreateAgent(cfg, r)
    BY <1>6 DEF Applied
  <2>4. new = [cfg EXCEPT !.agents = Append(@, Entry(r.slug, r.level, r.mappings))]
    BY <2>3 DEF CreateAgent, AppendNewAgent, Writes
  <2> QED BY <1>3, <2>2, <2>4
<1>7. CASE r.op = "UpdateAgent"
  <2>1. r.slug \in Slugs /\ r.level \in Levels \cup {NoLevel} /\ r.mappings \in Mappings
    BY <1>7 DEF Requests
  <2>2. Entry(r.slug, r.level, r.mappings) \in Agent
    BY <2>1, RequestMappings DEF Entry, Agent
  <2>3. new \in UpdateAgent(cfg, r)
    BY <1>7 DEF Applied
  <2> DEFINE k == FindAgentIndex(cfg, r.slug)
  <2>4. CASE k = 0
    <3>1. new = [cfg EXCEPT !.agents = Append(@, Entry(r.slug, r.level, r.mappings))]
      BY <2>3, <2>4 DEF UpdateAgent, CreateAgent, AppendNewAgent, Writes
    <3> QED BY <1>3, <2>2, <3>1
  <2>5. CASE k # 0
    <3>1. k \in DOMAIN cfg.agents /\ cfg.agents[k].slug = r.slug
      BY <1>0, <2>1, <2>5, FindAgentIndexCorrect
    <3>2. new = [cfg EXCEPT !.agents[k] = Merged(cfg.agents[k], r)]
      BY <2>3, <2>5 DEF UpdateAgent, Writes
    <3>3. Merged(cfg.agents[k], r).slug = r.slug
      BY DEF Merged, Entry
    <3> QED BY <1>4, <3>1, <3>2, <3>3
  <2> QED BY <2>4, <2>5
<1>8. CASE r.op = "SetLogLevel"
  <2>1. r.slug \in Slugs /\ r.level \in Levels
    BY <1>8 DEF Requests
  <2>2. new \in SetLogLevel(cfg, r)
    BY <1>8 DEF Applied
  <2> DEFINE k == FindAgentIndex(cfg, r.slug)
  <2>3. CASE k = 0
    <3>1. new = [cfg EXCEPT !.agents = Append(@, Entry(r.slug, r.level, <<>>))]
      BY <2>2, <2>3 DEF SetLogLevel
    <3>2. Entry(r.slug, r.level, <<>>) \in Agent
      BY <2>1 DEF Entry, Agent
    <3> QED BY <1>3, <3>1, <3>2
  <2>4. CASE k # 0
    <3>1. k \in DOMAIN cfg.agents
      BY <1>0, <2>1, <2>4, FindAgentIndexCorrect
    <3>2. new = [cfg EXCEPT !.agents[k].level = r.level]
      BY <2>2, <2>4 DEF SetLogLevel
    <3>3. new = [cfg EXCEPT !.agents[k] = [cfg.agents[k] EXCEPT !.level = r.level]]
      BY <3>2
    <3>4. cfg.agents[k] \in Agent
      BY <1>0, <3>1
    <3>5. [cfg.agents[k] EXCEPT !.level = r.level].slug = cfg.agents[k].slug
      BY <3>4 DEF Agent
    <3> QED BY <1>4, <3>1, <3>3, <3>5
  <2> QED BY <2>3, <2>4
<1>9. CASE r.op \in {"CreateScanDirectory", "UpdateScanDirectory", "DeleteScanDirectory"}
  <2>1. \E t : new = [cfg EXCEPT !.scanners[r.scanner] = t]
    BY <1>9 DEF Applied, CreateScanDirectory, UpdateScanDirectory, DeleteScanDirectory, Writes
  <2>2. new.agents = cfg.agents
    BY <1>0, <2>1 DEF Config
  <2> QED BY <1>5, <2>2
<1>10. CASE r.op = "DeleteAgent" /\ r.slug # a
  <2>1. r.slug \in Slugs
    BY <1>10 DEF Requests
  <2> DEFINE k == FindAgentIndex(cfg, r.slug)
  <2>2. new \in DeleteAgent(cfg, r)
    BY <1>10 DEF Applied
  <2>3. k # 0 /\ new = [cfg EXCEPT !.agents = Without(@, k)]
    BY <2>2 DEF DeleteAgent, Writes, Configured
  <2>4. k \in 1..Len(cfg.agents) /\ cfg.agents[k].slug = r.slug /\ k # i
    BY <1>0, <1>1, <1>10, <2>1, <2>3, FindAgentIndexCorrect
  <2> HIDE DEF k
  <2>5. new.agents = [j \in 1..(Len(cfg.agents) - 1) |->
                        IF j < k THEN cfg.agents[j] ELSE cfg.agents[j + 1]]
    BY <1>0, <2>3 DEF Config, Without
  <2>6. CASE i < k
    <3>1. i \in 1..(Len(cfg.agents) - 1)
      BY <1>0, <1>1, <2>4, <2>6
    <3> QED BY <1>1, <1>2, <2>5, <2>6, <3>1
  <2>7. CASE ~(i < k)
    <3>1. /\ i - 1 \in 1..(Len(cfg.agents) - 1) /\ ~(i - 1 < k) /\ (i - 1) + 1 = i
      BY <1>0, <1>1, <2>4, <2>7
    <3>2. new.agents[i - 1] = cfg.agents[i]
      BY <2>5, <3>1
    <3> QED BY <1>1, <1>2, <2>5, <3>1, <3>2
  <2> QED BY <2>6, <2>7
<1>11. r.op \in {"CreateAgent", "UpdateAgent", "DeleteAgent", "SetLogLevel", "CreateScanDirectory",
                 "UpdateScanDirectory", "DeleteScanDirectory"}
  BY DEF Requests
<1> QED BY <1>6, <1>7, <1>8, <1>9, <1>10, <1>11

-----------------------------------------------------------------------------
(* The steps, for what is in Redis.                                         *)

\* What publishing has left is what comes after its head.
LEMMA ListedTail ==
    ASSUME NEW s \in Seq(Slugs), s # <<>>, NEW a
    PROVE  /\ Head(s) \in Slugs /\ Tail(s) \in Seq(Slugs)
           /\ Listed(Head(s), s)
           /\ Listed(a, s) <=> a = Head(s) \/ Listed(a, Tail(s))
<1>1. /\ Len(s) \in Nat /\ Len(s) > 0 /\ Head(s) = s[1] /\ Head(s) \in Slugs
      /\ Tail(s) \in Seq(Slugs) /\ Len(Tail(s)) = Len(s) - 1
      /\ \A j \in 1..Len(Tail(s)) : Tail(s)[j] = s[j + 1]
  OBVIOUS
<1>2. 1 \in 1..Len(s)
  BY <1>1
<1>3. \A j \in 1..Len(Tail(s)) : j + 1 \in 1..Len(s)
  BY <1>1
<1>4. ASSUME NEW j \in 1..Len(s), s[j] = a, a # Head(s)
      PROVE  Listed(a, Tail(s))
  <2>1. j # 1
    BY <1>1, <1>4
  <2>2. j - 1 \in 1..Len(Tail(s)) /\ (j - 1) + 1 = j
    BY <1>1, <2>1
  <2>3. Tail(s)[j - 1] = s[j]
    BY <1>1, <2>2
  <2> QED BY <1>4, <2>2, <2>3 DEF Listed
<1>5. Listed(a, s) => a = Head(s) \/ Listed(a, Tail(s))
  BY <1>4 DEF Listed
<1>6. Listed(Head(s), s)
  BY <1>1, <1>2 DEF Listed
<1>7. Listed(a, Tail(s)) => Listed(a, s)
  BY <1>1, <1>3 DEF Listed
<1> QED BY <1>1, <1>5, <1>6, <1>7

\* The bounds: spent, never refunded.
LEMMA SpendSteps ==
    ASSUME BudgetTyped
    PROVE  /\ \A w \in {"calls", "failures", "crashes"} : Spend(w) =>
                BudgetTyped' /\ (NoFailures' => NoFailures) /\ (NoCrashes' => NoCrashes)
           /\ Spend("failures") => ~NoFailures'
           /\ Spend("crashes") => ~NoCrashes'
<1>1. ASSUME NEW w \in {"calls", "failures", "crashes"}, Spend(w)
      PROVE  /\ budget' \in [{"calls", "failures", "crashes"} -> Nat]
             /\ budget'.failures <= budget.failures /\ budget'.crashes <= budget.crashes
             /\ w = "failures" => budget'.failures < budget.failures
             /\ w = "crashes" => budget'.crashes < budget.crashes
  BY <1>1 DEF Spend, BudgetTyped
<1>2. budget.failures \in Nat /\ budget.crashes \in Nat
  BY DEF BudgetTyped
<1>3. budget' \in [{"calls", "failures", "crashes"} -> Nat] =>
        budget'.failures \in Nat /\ budget'.crashes \in Nat
  OBVIOUS
<1>4. MaxFailures \in Nat /\ MaxCrashes \in Nat
  BY ControlAssumption
<1>5. ASSUME NEW w \in {"calls", "failures", "crashes"}, Spend(w)
      PROVE  /\ BudgetTyped' /\ (NoFailures' => NoFailures) /\ (NoCrashes' => NoCrashes)
             /\ w = "failures" => ~NoFailures'
             /\ w = "crashes" => ~NoCrashes'
  BY <1>1, <1>2, <1>3, <1>4, <1>5 DEF BudgetTyped, NoFailures, NoCrashes
<1> QED BY <1>5

\* No step takes back a failure or a crash.
LEMMA BudgetStep ==
    ASSUME BudgetTyped, [Next]_vars
    PROVE  BudgetTyped' /\ (NoFailures' => NoFailures) /\ (NoCrashes' => NoCrashes)
<1>1. (\E w \in {"calls", "failures", "crashes"} : Spend(w)) \/ UNCHANGED budget
  <2>1. CASE \E c \in Clients : (\E r \in Requests : Begin(c, r)) \/ Request(c) \/ RequestFails(c)
    BY <2>1 DEF Begin, Request, RequestFails, Upsert, UpsertFails, SetLive, Publish, PublishFails,
                Return, Forget, ForgetFails
  <2>2. CASE ServerCrash \/ Boot
    BY <2>2 DEF ServerCrash, Boot, BootRead, BootPublish, BootServe
  <2>3. CASE \E a \in Running : \/ \E w \in Readers : Refresh(a, w) \/ RefreshFails(a, w)
                                \/ AgentRestart(a)
    BY <2>3 DEF Refresh, RefreshRead, RefreshInstall, RefreshFails, AgentRestart
  <2>4. CASE UNCHANGED vars
    BY <2>4 DEF vars
  <2> QED BY <2>1, <2>2, <2>3, <2>4 DEF Next
<1>2. CASE UNCHANGED budget
  BY <1>2 DEF BudgetTyped, NoFailures, NoCrashes
<1> QED BY <1>1, <1>2, SpendSteps

\* The inductive invariant of this part rests on that of MutateSync.
BothInv == ControlInv /\ RedisInv

\* Facts about the calls that every step of a request needs: the others stay,
\* and while one holds the lock no other does and the server is up.
LEMMA HolderAlone ==
    ASSUME BothInv, NEW c \in Clients, call[c].pc \in Holding
    PROVE  /\ boot.pc = "up"
           /\ \A d \in Clients : d # c => call[d].pc \notin Holding
BY DEF BothInv, ControlInv, LockHeld, BootAlone, Holding

\* An agent's refreshes and restarts, and anything else that leaves the
\* document, the calls and the keys alone.
LEMMA RedisFrame ==
    ASSUME BothInv, [Next]_vars, RedisTyped', UNCHANGED <<stored, call, boot, live, published>>
    PROVE  RedisInv'
<1>1. BudgetTyped' /\ (NoFailures' => NoFailures) /\ (NoCrashes' => NoCrashes)
  BY BudgetStep DEF BothInv, RedisInv
<1>2. LeftToPublish' /\ RemovalForgets'
  BY DEF BothInv, RedisInv, LeftToPublish, RemovalForgets, Listed, Configured, FindAgentIndex,
         SlugsOf
<1>3. \A a : Underway(a)' <=> Underway(a)
  BY DEF Underway, Listed
<1>4. StaleIsUnderway'
  <2>1. \A a : BuildProjection(stored, a)' = BuildProjection(stored, a)
              /\ Configured(stored, a)' = Configured(stored, a)
    BY DEF BuildProjection, Configured, FindAgentIndex, ScannerExists
  <2> QED BY <1>1, <1>3, <2>1 DEF BothInv, RedisInv, StaleIsUnderway
<1>5. LeftoverIsForgotten'
  BY <1>1 DEF BothInv, RedisInv, LeftoverIsForgotten, Configured, FindAgentIndex
<1> QED BY <1>1, <1>2, <1>4, <1>5 DEF RedisInv

\* A request that begins leaves Redis alone, and has read a current document.
LEMMA BeginRedis ==
    ASSUME BothInv, [Next]_vars, NEW c \in Clients, NEW r \in Requests, Begin(c, r)
    PROVE  RedisInv'
<1>1. PICK new \in Applied(stored, r) :
        call' = [call EXCEPT ![c] = [pc |-> "upsert", cfg |-> new, left |-> SlugsOf(new),
                    forget |-> IF r.op = "DeleteAgent" THEN r.slug ELSE NoOne]]
  BY DEF Begin
<1>2. /\ UNCHANGED <<stored, boot, live, published, notified, current, reading>>
      /\ call[c].pc = "idle" /\ call \in [Clients -> Calls] /\ Good(stored)
  BY DEF Begin, agentVars, BothInv, ControlInv, CallsTyped
<1>3. /\ \A d \in Clients : d # c => call'[d] = call[d]
      /\ call'[c].pc = "upsert" /\ call'[c].cfg = new /\ call'[c].left = SlugsOf(new)
      /\ call'[c].forget = IF r.op = "DeleteAgent" THEN r.slug ELSE NoOne
  BY <1>1, <1>2
<1>4. BudgetTyped' /\ (NoFailures' => NoFailures) /\ (NoCrashes' => NoCrashes)
  BY BudgetStep DEF BothInv, RedisInv
<1>5. RedisTyped'
  BY <1>2 DEF BothInv, RedisInv, RedisTyped
<1>6. LeftToPublish'
  BY <1>2, <1>3 DEF BothInv, RedisInv, LeftToPublish, Listed
<1>7. StaleIsUnderway'
  <2>1. \A a \in Slugs : Underway(a) => Underway(a)'
    BY <1>2, <1>3 DEF Underway, Listed
  <2> QED BY <1>2, <1>4, <2>1 DEF BothInv, RedisInv, StaleIsUnderway
<1>8. RemovalForgets'
  <2>1. \A a \in Slugs : Configured(stored, a) /\ ~Configured(new, a) => call'[c].forget = a
    BY <1>2, <1>3, OnlyDeleteRemoves
  <2> QED BY <1>2, <1>3, <2>1 DEF BothInv, RedisInv, RemovalForgets
<1>9. LeftoverIsForgotten'
  <2> SUFFICES ASSUME NoFailures, NoCrashes, NEW a \in Slugs, ~Configured(stored, a),
                      published[a] # NoProjection
               PROVE  \E d \in Clients : /\ call'[d].forget = a
                                         /\ call'[d].pc \in {"live", "publish", "forget"}
    BY <1>2, <1>4 DEF LeftoverIsForgotten
  <2>1. PICK d \in Clients : call[d].forget = a /\ call[d].pc \in {"live", "publish", "forget"}
    BY DEF BothInv, RedisInv, LeftoverIsForgotten
  <2>2. d # c
    BY <1>2, <2>1
  <2> QED BY <1>3, <2>1, <2>2
<1> QED BY <1>4, <1>5, <1>6, <1>7, <1>8, <1>9 DEF RedisInv

\* The write: what was configured and no longer is will be forgotten, and every
\* projection that the new document outdates is about to be written.
LEMMA UpsertRedis ==
    ASSUME BothInv, [Next]_vars, NEW c \in Clients, Upsert(c)
    PROVE  RedisInv'
<1>1. /\ call[c].pc = "upsert" /\ stored' = call[c].cfg
      /\ call' = [call EXCEPT ![c].pc = "live"]
      /\ UNCHANGED <<boot, live, published, notified, current, reading>>
      /\ call \in [Clients -> Calls]
  BY DEF Upsert, agentVars, BothInv, ControlInv, CallsTyped
<1>2. /\ \A d \in Clients : d # c => call'[d] = call[d] /\ call[d].pc \notin Holding
      /\ call'[c].pc = "live" /\ call'[c].cfg = call[c].cfg /\ call'[c].left = call[c].left
      /\ call'[c].forget = call[c].forget
  BY <1>1, HolderAlone DEF Calls, Holding
<1>3. BudgetTyped' /\ (NoFailures' => NoFailures) /\ (NoCrashes' => NoCrashes)
  BY BudgetStep DEF BothInv, RedisInv
<1>4. RedisTyped'
  BY <1>1 DEF BothInv, RedisInv, RedisTyped
<1>5. LeftToPublish'
  BY <1>1, <1>2 DEF BothInv, RedisInv, LeftToPublish, Listed
<1>6. StaleIsUnderway'
  BY <1>2 DEF StaleIsUnderway, Underway
<1>7. RemovalForgets'
  BY <1>2 DEF RemovalForgets, Holding
<1>8. LeftoverIsForgotten'
  <2> SUFFICES ASSUME NoFailures, NoCrashes, NEW a \in Slugs, ~Configured(call[c].cfg, a),
                      published[a] # NoProjection
               PROVE  \E d \in Clients : /\ call'[d].forget = a
                                         /\ call'[d].pc \in {"live", "publish", "forget"}
    BY <1>1, <1>3 DEF LeftoverIsForgotten
  <2>1. CASE Configured(stored, a)
    BY <1>1, <1>2, <2>1 DEF BothInv, RedisInv, RemovalForgets
  <2>2. CASE ~Configured(stored, a)
    <3>1. PICK d \in Clients : call[d].forget = a /\ call[d].pc \in {"live", "publish", "forget"}
      BY <2>2 DEF BothInv, RedisInv, LeftoverIsForgotten
    <3>2. d # c
      BY <1>1, <3>1
    <3> QED BY <1>2, <3>1, <3>2
  <2> QED BY <2>1, <2>2
<1> QED BY <1>3, <1>4, <1>5, <1>6, <1>7, <1>8 DEF RedisInv

\* A failed write or a failed DEL ends the request; the failure is spent.
LEMMA FailureRedis ==
    ASSUME BothInv, [Next]_vars, NEW c \in Clients, UpsertFails(c) \/ ForgetFails(c)
    PROVE  RedisInv'
<1>1. /\ call' = [call EXCEPT ![c] = IdleCall] /\ call \in [Clients -> Calls]
      /\ UNCHANGED <<boot, live, published, notified, current, reading>>
      /\ Spend("failures")
  BY DEF UpsertFails, ForgetFails, agentVars, BothInv, ControlInv, CallsTyped
<1>2. call'[c].pc = "idle" /\ \A d \in Clients : d # c => call'[d] = call[d]
  BY <1>1, IdleCallType
<1>3. BudgetTyped' /\ ~NoFailures'
  BY <1>1, SpendSteps DEF BothInv, RedisInv
<1>4. RedisTyped'
  BY <1>1 DEF BothInv, RedisInv, RedisTyped
<1>5. LeftToPublish'
  BY <1>1, <1>2 DEF BothInv, RedisInv, LeftToPublish, Listed
<1>6. RemovalForgets'
  <2>1. CASE UpsertFails(c)
    <3>1. \A d \in Clients : call'[d].pc # "upsert"
      BY <1>2, <2>1, HolderAlone DEF UpsertFails, Holding
    <3> QED BY <3>1 DEF RemovalForgets
  <2>2. CASE ForgetFails(c)
    BY <1>2, <2>2 DEF ForgetFails, BothInv, RedisInv, RemovalForgets
  <2> QED BY <2>1, <2>2
<1> QED BY <1>3, <1>4, <1>5, <1>6 DEF RedisInv, StaleIsUnderway, LeftoverIsForgotten

\* A mutation that is in memory has every agent left to publish.
LEMMA SetLiveRedis ==
    ASSUME BothInv, [Next]_vars, NEW c \in Clients, SetLive(c)
    PROVE  RedisInv'
<1>1. /\ call[c].pc = "live" /\ live' = call[c].cfg
      /\ call' = [call EXCEPT ![c].pc = "publish"]
      /\ UNCHANGED <<stored, boot, published, notified, current, reading>>
      /\ call \in [Clients -> Calls] /\ stored = call[c].cfg /\ call[c].cfg \in Config
  BY DEF SetLive, agentVars, BothInv, ControlInv, CallsTyped, Written, Calls
<1>2. /\ \A d \in Clients : d # c => call'[d] = call[d] /\ call[d].pc \notin Holding
      /\ call'[c].pc = "publish" /\ call'[c].cfg = call[c].cfg /\ call'[c].left = call[c].left
      /\ call'[c].forget = call[c].forget
      /\ boot.pc = "up"
  BY <1>1, HolderAlone DEF Calls, Holding
<1>3. BudgetTyped' /\ (NoFailures' => NoFailures) /\ (NoCrashes' => NoCrashes)
  BY BudgetStep DEF BothInv, RedisInv
<1>4. RedisTyped'
  BY <1>1 DEF BothInv, RedisInv, RedisTyped
<1>5. \A a \in Slugs : Listed(a, call[c].left) <=> Configured(call[c].cfg, a)
  BY <1>1, ListedSlugs DEF BothInv, RedisInv, LeftToPublish
<1>6. LeftToPublish'
  BY <1>1, <1>2, <1>5 DEF BothInv, RedisInv, LeftToPublish, Listed, Holding
<1>7. StaleIsUnderway'
  <2>1. \A a \in Slugs : Configured(stored', a) => Underway(a)'
    BY <1>1, <1>2, <1>5 DEF Underway, Listed
  <2> QED BY <2>1 DEF StaleIsUnderway
<1>8. RemovalForgets'
  BY <1>2 DEF RemovalForgets, Holding
<1>9. LeftoverIsForgotten'
  <2>1. \A d \in Clients : /\ call'[d].forget = call[d].forget
                           /\ call[d].pc \in {"live", "publish", "forget"} =>
                                call'[d].pc \in {"live", "publish", "forget"}
    BY <1>2
  <2> QED BY <1>1, <1>3, <2>1 DEF BothInv, RedisInv, LeftoverIsForgotten
<1> QED BY <1>3, <1>4, <1>6, <1>7, <1>8, <1>9 DEF RedisInv

\* One agent's projection is written from the document as it is; the agents
\* after it are still to come.
LEMMA PublishRedis ==
    ASSUME BothInv, [Next]_vars, NEW c \in Clients, Publish(c)
    PROVE  RedisInv'
<1> DEFINE slug == Head(call[c].left)
<1>1. /\ call[c].pc = "publish" /\ call[c].left # <<>>
      /\ published' = [published EXCEPT ![slug] = BuildProjection(call[c].cfg, slug)]
      /\ notified' = notified \cup {slug} \/ UNCHANGED notified
      /\ call' = [call EXCEPT ![c].left = Tail(call[c].left)]
      /\ UNCHANGED <<stored, boot, live, current, reading>>
      /\ call \in [Clients -> Calls] /\ stored = call[c].cfg /\ call[c].cfg \in Config
      /\ call[c].left \in Seq(Slugs)
  BY DEF Publish, PublishTo, agentVars, BothInv, ControlInv, CallsTyped, Written, Calls
<1>2. /\ \A d \in Clients : d # c => call'[d] = call[d] /\ call[d].pc \notin Holding
      /\ call'[c].pc = "publish" /\ call'[c].cfg = call[c].cfg
      /\ call'[c].left = Tail(call[c].left)
      /\ call'[c].forget = call[c].forget
      /\ boot.pc = "up"
  BY <1>1, HolderAlone DEF Calls, Holding
<1>3. BudgetTyped' /\ (NoFailures' => NoFailures) /\ (NoCrashes' => NoCrashes)
  BY BudgetStep DEF BothInv, RedisInv
<1>4. /\ slug \in Slugs /\ Listed(slug, call[c].left)
      /\ \A a : Listed(a, call[c].left) <=> a = slug \/ Listed(a, Tail(call[c].left))
  BY <1>1, ListedTail
<1>5. Configured(call[c].cfg, slug)
  BY <1>1, <1>4 DEF BothInv, RedisInv, LeftToPublish
<1> HIDE DEF slug
<1>6. published \in [Slugs -> MaybeProjection] /\ BuildProjection(call[c].cfg, slug) \in MaybeProjection
  BY <1>1, <1>4, <1>5, ProjectionType DEF BothInv, RedisInv, RedisTyped, MaybeProjection
<1>7. RedisTyped'
  BY <1>1, <1>4, <1>6 DEF BothInv, RedisInv, RedisTyped
<1>8. LeftToPublish'
  BY <1>1, <1>2, <1>4 DEF BothInv, RedisInv, LeftToPublish, Listed, Holding
<1>9. StaleIsUnderway'
  <2> SUFFICES ASSUME NoFailures, NEW a \in Slugs, Configured(stored, a),
                      published'[a] # NoProjection, published'[a] # BuildProjection(stored, a)
               PROVE  Underway(a)'
    BY <1>1, <1>3 DEF StaleIsUnderway
  <2>1. a # slug /\ published'[a] = published[a]
    BY <1>1, <1>4, <1>6
  <2>2. Underway(a)
    BY <2>1 DEF BothInv, RedisInv, StaleIsUnderway
  <2>3. Listed(a, call[c].left)
    BY <1>1, <1>2, <2>2 DEF Underway, Holding
  <2>4. Listed(a, call'[c].left)
    BY <1>2, <1>4, <2>1, <2>3
  <2> QED BY <1>2, <2>4 DEF Underway, Listed
<1>10. RemovalForgets'
  BY <1>2 DEF RemovalForgets, Holding
<1>11. LeftoverIsForgotten'
  <2> SUFFICES ASSUME NoFailures, NoCrashes, NEW a \in Slugs, ~Configured(stored, a),
                      published'[a] # NoProjection
               PROVE  \E d \in Clients : /\ call'[d].forget = a
                                         /\ call'[d].pc \in {"live", "publish", "forget"}
    BY <1>1, <1>3 DEF LeftoverIsForgotten
  <2>1. a # slug
    BY <1>1, <1>5
  <2>2. published'[a] = published[a]
    BY <1>1, <1>6, <2>1
  <2>3. PICK d \in Clients : call[d].forget = a /\ call[d].pc \in {"live", "publish", "forget"}
    BY <2>2 DEF BothInv, RedisInv, LeftoverIsForgotten
  <2>4. call'[d].forget = call[d].forget /\ call'[d].pc = call[d].pc
    BY <1>1, <1>2
  <2> QED BY <2>3, <2>4
<1> QED BY <1>3, <1>7, <1>8, <1>9, <1>10, <1>11 DEF RedisInv

\* PublishAll gives up: the failure is spent.
LEMMA PublishFailsRedis ==
    ASSUME BothInv, [Next]_vars, NEW c \in Clients, PublishFails(c)
    PROVE  RedisInv'
<1>1. /\ call[c].pc = "publish" /\ call' = [call EXCEPT ![c].left = <<>>]
      /\ UNCHANGED <<stored, boot, live, published, notified, current, reading>>
      /\ Spend("failures") /\ call \in [Clients -> Calls]
  BY DEF PublishFails, agentVars, BothInv, ControlInv, CallsTyped
<1>2. /\ \A d \in Clients : d # c => call'[d] = call[d]
      /\ call'[c].pc = "publish" /\ call'[c].left = <<>>
  BY <1>1 DEF Calls
<1>3. BudgetTyped' /\ ~NoFailures'
  BY <1>1, SpendSteps DEF BothInv, RedisInv
<1>4. RedisTyped'
  BY <1>1 DEF BothInv, RedisInv, RedisTyped
<1>5. \A a : ~Listed(a, <<>>)
  BY DEF Listed
<1>6. LeftToPublish'
  <2>1. \A d \in Clients :
          /\ call'[d].pc \in {"upsert", "live"} => call'[d].left = SlugsOf(call'[d].cfg)
          /\ call'[d].pc = "publish" =>
               \A a \in Slugs : Listed(a, call'[d].left) => Configured(call'[d].cfg, a)
    BY <1>1, <1>2, <1>5 DEF BothInv, RedisInv, LeftToPublish
  <2> QED BY <1>1, <2>1 DEF BothInv, RedisInv, LeftToPublish, Listed
<1>7. RemovalForgets'
  BY <1>1, <1>2 DEF BothInv, RedisInv, RemovalForgets
<1> QED BY <1>3, <1>4, <1>6, <1>7 DEF RedisInv, StaleIsUnderway, LeftoverIsForgotten

\* MutateSync returns with nothing left to publish; DeleteAgent goes on to
\* forget the agent it removed.
LEMMA ReturnRedis ==
    ASSUME BothInv, [Next]_vars, NEW c \in Clients, Return(c)
    PROVE  RedisInv'
<1> DEFINE next == IF call[c].forget = NoOne THEN IdleCall
                   ELSE [IdleCall EXCEPT !.pc = "forget", !.forget = call[c].forget]
<1>1. /\ call[c].pc = "publish" /\ call[c].left = <<>>
      /\ call' = [call EXCEPT ![c] = next] /\ call \in [Clients -> Calls]
      /\ UNCHANGED <<stored, boot, live, published, notified, current, reading>>
  BY DEF Return, agentVars, BothInv, ControlInv, CallsTyped
<1>2. /\ next.pc \in {"idle", "forget"}
      /\ call[c].forget # NoOne => next.pc = "forget" /\ next.forget = call[c].forget
  BY IdleCallType DEF IdleCall
<1> HIDE DEF next
<1>3. /\ \A d \in Clients : d # c => call'[d] = call[d] /\ call[d].pc \notin Holding
      /\ call'[c] = next /\ boot.pc = "up"
  BY <1>1, HolderAlone DEF Holding
<1>4. BudgetTyped' /\ (NoFailures' => NoFailures) /\ (NoCrashes' => NoCrashes)
  BY BudgetStep DEF BothInv, RedisInv
<1>5. RedisTyped'
  BY <1>1 DEF BothInv, RedisInv, RedisTyped
<1>6. LeftToPublish'
  BY <1>1, <1>2, <1>3 DEF BothInv, RedisInv, LeftToPublish, Listed
<1>7. StaleIsUnderway'
  <2>1. \A a : ~Listed(a, <<>>)
    BY DEF Listed
  <2>2. \A a \in Slugs : ~Underway(a)
    BY <1>1, <1>3, <2>1 DEF Underway, Holding
  <2> QED BY <1>1, <1>4, <2>2 DEF BothInv, RedisInv, StaleIsUnderway
<1>8. RemovalForgets'
  BY <1>2, <1>3 DEF RemovalForgets, Holding
<1>9. LeftoverIsForgotten'
  <2> SUFFICES ASSUME NoFailures, NoCrashes, NEW a \in Slugs, ~Configured(stored, a),
                      published[a] # NoProjection
               PROVE  \E d \in Clients : /\ call'[d].forget = a
                                         /\ call'[d].pc \in {"live", "publish", "forget"}
    BY <1>1, <1>4 DEF LeftoverIsForgotten
  <2>1. PICK d \in Clients : call[d].forget = a /\ call[d].pc \in {"live", "publish", "forget"}
    BY DEF BothInv, RedisInv, LeftoverIsForgotten
  <2>2. a # NoOne
    BY ControlAssumption
  <2> QED BY <1>2, <1>3, <2>1, <2>2
<1> QED BY <1>4, <1>5, <1>6, <1>7, <1>8, <1>9 DEF RedisInv

\* The DEL: only its own agent's key goes.
LEMMA ForgetRedis ==
    ASSUME BothInv, [Next]_vars, NEW c \in Clients, Forget(c)
    PROVE  RedisInv'
<1>1. /\ call[c].pc = "forget"
      /\ published' = [published EXCEPT ![call[c].forget] = NoProjection]
      /\ call' = [call EXCEPT ![c] = IdleCall] /\ call \in [Clients -> Calls]
      /\ UNCHANGED <<stored, boot, live, notified, current, reading>>
      /\ published \in [Slugs -> MaybeProjection]
  BY DEF Forget, agentVars, BothInv, ControlInv, CallsTyped, RedisInv, RedisTyped
<1>2. call'[c].pc = "idle" /\ \A d \in Clients : d # c => call'[d] = call[d]
  BY <1>1, IdleCallType
<1>3. \A a \in Slugs : /\ a = call[c].forget => published'[a] = NoProjection
                       /\ a # call[c].forget => published'[a] = published[a]
  BY <1>1
<1>4. BudgetTyped' /\ (NoFailures' => NoFailures) /\ (NoCrashes' => NoCrashes)
  BY BudgetStep DEF BothInv, RedisInv
<1>5. RedisTyped'
  <2>1. published' \in [Slugs -> MaybeProjection]
    BY <1>1 DEF MaybeProjection
  <2> QED BY <1>1, <2>1 DEF BothInv, RedisInv, RedisTyped
<1>6. LeftToPublish'
  BY <1>1, <1>2 DEF BothInv, RedisInv, LeftToPublish, Listed
<1>7. StaleIsUnderway'
  <2>1. \A a \in Slugs : Underway(a) => Underway(a)'
    BY <1>1, <1>2 DEF Underway, Listed
  <2> QED BY <1>1, <1>3, <1>4, <2>1 DEF BothInv, RedisInv, StaleIsUnderway
<1>8. RemovalForgets'
  BY <1>1, <1>2 DEF BothInv, RedisInv, RemovalForgets
<1>9. LeftoverIsForgotten'
  <2> SUFFICES ASSUME NoFailures, NoCrashes, NEW a \in Slugs, ~Configured(stored, a),
                      published'[a] # NoProjection
               PROVE  \E d \in Clients : /\ call'[d].forget = a
                                         /\ call'[d].pc \in {"live", "publish", "forget"}
    BY <1>1, <1>4 DEF LeftoverIsForgotten
  <2>1. a # call[c].forget /\ published[a] # NoProjection
    BY <1>3
  <2>2. PICK d \in Clients : call[d].forget = a /\ call[d].pc \in {"live", "publish", "forget"}
    BY <2>1 DEF BothInv, RedisInv, LeftoverIsForgotten
  <2> QED BY <1>2, <2>1, <2>2
<1> QED BY <1>4, <1>5, <1>6, <1>7, <1>8, <1>9 DEF RedisInv

\* After a crash the start-up reads the document and writes every projection
\* again.
LEMMA CrashRedis ==
    ASSUME BothInv, [Next]_vars, ServerCrash
    PROVE  RedisInv'
<1>1. /\ boot' = [pc |-> "read", left |-> <<>>] /\ call' = [c \in Clients |-> IdleCall]
      /\ live' = Default /\ UNCHANGED <<stored, published, notified, current, reading>>
      /\ Spend("crashes")
  BY DEF ServerCrash, agentVars
<1>2. boot'.pc = "read" /\ \A c \in Clients : call'[c].pc = "idle"
  BY <1>1, IdleCallType
<1>3. BudgetTyped' /\ ~NoCrashes'
  BY <1>1, SpendSteps DEF BothInv, RedisInv
<1>4. RedisTyped'
  BY <1>1, DefaultGood DEF Good, BothInv, RedisInv, RedisTyped
<1>5. LeftToPublish' /\ RemovalForgets'
  BY <1>2 DEF LeftToPublish, RemovalForgets
<1>6. StaleIsUnderway'
  BY <1>2 DEF StaleIsUnderway, Underway
<1> QED BY <1>3, <1>4, <1>5, <1>6 DEF RedisInv, LeftoverIsForgotten

\* A server that has read the document at boot has every agent left to publish.
LEMMA BootReadRedis ==
    ASSUME BothInv, [Next]_vars, BootRead
    PROVE  RedisInv'
<1>1. /\ live' = stored /\ boot' = [pc |-> "publish", left |-> SlugsOf(stored)]
      /\ UNCHANGED <<stored, call, published, notified, current, reading>>
      /\ stored \in Config
  BY DEF BootRead, agentVars, BothInv, ControlInv, Good
<1>2. boot'.pc = "publish" /\ boot'.left = SlugsOf(stored)
  BY <1>1
<1>3. BudgetTyped' /\ (NoFailures' => NoFailures) /\ (NoCrashes' => NoCrashes)
  BY BudgetStep DEF BothInv, RedisInv
<1>4. RedisTyped'
  BY <1>1 DEF BothInv, RedisInv, RedisTyped
<1>5. \A a \in Slugs : Listed(a, boot'.left) <=> Configured(stored, a)
  BY <1>1, <1>2, ListedSlugs
<1>6. LeftToPublish'
  BY <1>1, <1>5 DEF BothInv, RedisInv, LeftToPublish, Listed
<1>7. StaleIsUnderway'
  <2>1. \A a \in Slugs : Configured(stored', a) => Underway(a)'
    BY <1>1, <1>2, <1>5 DEF Underway, Listed
  <2> QED BY <2>1 DEF StaleIsUnderway
<1>8. RemovalForgets' /\ LeftoverIsForgotten'
  BY <1>1, <1>3 DEF BothInv, RedisInv, RemovalForgets, LeftoverIsForgotten
<1> QED BY <1>3, <1>4, <1>6, <1>7, <1>8 DEF RedisInv

\* Start-up publishes from the document too.
LEMMA BootPublishRedis ==
    ASSUME BothInv, [Next]_vars, BootPublish
    PROVE  RedisInv'
<1>1. /\ boot.pc = "publish" /\ boot.left # <<>> /\ boot.left \in Seq(Slugs)
      /\ boot \in [pc: {"up", "read", "publish"}, left: Seq(Slugs)]
      /\ UNCHANGED <<stored, call, live, current, reading>>
      /\ live = stored /\ stored \in Config
      /\ \A c \in Clients : call[c].pc = "idle"
  BY DEF BootPublish, agentVars, BothInv, ControlInv, CallsTyped, LiveFollows, Good, BootAlone
<1>2. BudgetTyped' /\ (NoFailures' => NoFailures) /\ (NoCrashes' => NoCrashes)
  BY BudgetStep DEF BothInv, RedisInv
<1> DEFINE slug == Head(boot.left)
<1>3. /\ slug \in Slugs /\ Listed(slug, boot.left)
      /\ \A a : Listed(a, boot.left) <=> a = slug \/ Listed(a, Tail(boot.left))
  BY <1>1, ListedTail
<1>4. Configured(live, slug) /\ \A a \in Slugs : Listed(a, boot.left) => Configured(live, a)
  BY <1>1, <1>3 DEF BothInv, RedisInv, LeftToPublish
<1>5. RemovalForgets'
  BY <1>1 DEF RemovalForgets
<1>6. CASE /\ published' = [published EXCEPT ![slug] = BuildProjection(live, slug)]
           /\ notified' = notified \cup {slug} \/ UNCHANGED notified
           /\ boot' = [boot EXCEPT !.left = Tail(boot.left)]
  <2>0. boot'.pc = "publish" /\ boot'.left = Tail(boot.left)
    BY <1>1, <1>6
  <2> HIDE DEF slug
  <2>1. published \in [Slugs -> MaybeProjection] /\ BuildProjection(live, slug) \in MaybeProjection
    BY <1>1, <1>3, <1>4, ProjectionType DEF BothInv, RedisInv, RedisTyped, MaybeProjection
  <2>2. RedisTyped'
    BY <1>1, <1>3, <1>6, <2>1 DEF BothInv, RedisInv, RedisTyped
  <2>3. \A a \in Slugs : Listed(a, boot'.left) => Configured(live, a)
    BY <1>3, <1>4, <2>0
  <2>4. LeftToPublish'
    BY <1>1, <2>3 DEF BothInv, RedisInv, LeftToPublish, Listed
  <2>5. StaleIsUnderway'
    <3> SUFFICES ASSUME NoFailures, NEW a \in Slugs, Configured(stored, a),
                        published'[a] # NoProjection, published'[a] # BuildProjection(stored, a)
                 PROVE  Underway(a)'
      BY <1>1, <1>2 DEF StaleIsUnderway
    <3>1. a # slug /\ published'[a] = published[a]
      BY <1>1, <1>3, <1>6, <2>1
    <3>2. Underway(a)
      BY <3>1 DEF BothInv, RedisInv, StaleIsUnderway
    <3>3. Listed(a, boot.left)
      BY <1>1, <3>2 DEF Underway
    <3>4. Listed(a, boot'.left)
      BY <1>3, <2>0, <3>1, <3>3
    <3> QED BY <2>0, <3>4 DEF Underway, Listed
  <2>6. LeftoverIsForgotten'
    <3> SUFFICES ASSUME NoFailures, NoCrashes, NEW a \in Slugs, ~Configured(stored, a),
                        published'[a] # NoProjection
                 PROVE  \E d \in Clients : /\ call[d].forget = a
                                           /\ call[d].pc \in {"live", "publish", "forget"}
      BY <1>1, <1>2 DEF LeftoverIsForgotten
    <3>1. a # slug
      BY <1>1, <1>4
    <3>2. published'[a] = published[a]
      BY <1>6, <2>1, <3>1
    <3> QED BY <3>2 DEF BothInv, RedisInv, LeftoverIsForgotten
  <2> QED BY <1>2, <1>5, <2>2, <2>4, <2>5, <2>6 DEF RedisInv
<1>7. CASE Spend("failures") /\ boot' = [boot EXCEPT !.left = <<>>] /\ UNCHANGED <<published, notified>>
  <2>1. boot'.left = <<>> /\ \A a : ~Listed(a, boot'.left)
    BY <1>1, <1>7 DEF Listed
  <2>2. ~NoFailures'
    BY <1>7, SpendSteps DEF BothInv, RedisInv
  <2>3. RedisTyped'
    BY <1>1, <1>7 DEF BothInv, RedisInv, RedisTyped
  <2>4. LeftToPublish'
    BY <1>1, <2>1 DEF BothInv, RedisInv, LeftToPublish, Listed
  <2> QED BY <1>2, <1>5, <2>2, <2>3, <2>4 DEF RedisInv, StaleIsUnderway, LeftoverIsForgotten
<1> QED BY <1>6, <1>7 DEF BootPublish, PublishTo

\* A server that has published all at boot has left nothing stale.
LEMMA BootServeRedis ==
    ASSUME BothInv, [Next]_vars, BootServe
    PROVE  RedisInv'
<1>1. /\ boot.pc = "publish" /\ boot.left = <<>> /\ boot' = [boot EXCEPT !.pc = "up"]
      /\ boot \in [pc: {"up", "read", "publish"}, left: Seq(Slugs)]
      /\ UNCHANGED <<stored, call, live, published, notified, current, reading>>
      /\ \A c \in Clients : call[c].pc = "idle"
  BY DEF BootServe, agentVars, BothInv, ControlInv, CallsTyped, BootAlone
<1>2. boot'.pc = "up"
  BY <1>1
<1>3. BudgetTyped' /\ (NoFailures' => NoFailures) /\ (NoCrashes' => NoCrashes)
  BY BudgetStep DEF BothInv, RedisInv
<1>4. RedisTyped'
  BY <1>1 DEF BothInv, RedisInv, RedisTyped
<1>5. LeftToPublish' /\ RemovalForgets'
  BY <1>1, <1>2 DEF LeftToPublish, RemovalForgets
<1>6. StaleIsUnderway'
  <2>1. \A a : ~Listed(a, <<>>)
    BY DEF Listed
  <2>2. \A a \in Slugs : ~Underway(a)
    BY <1>1, <2>1 DEF Underway
  <2> QED BY <1>1, <1>3, <2>2 DEF BothInv, RedisInv, StaleIsUnderway
<1>7. LeftoverIsForgotten'
  BY <1>1, <1>3 DEF BothInv, RedisInv, LeftoverIsForgotten
<1> QED BY <1>3, <1>4, <1>5, <1>6, <1>7 DEF RedisInv

\* The agents read and install; they write nothing.
LEMMA AgentRedis ==
    ASSUME BothInv, [Next]_vars, NEW a \in Slugs,
           \/ \E w \in Readers : Refresh(a, w) \/ RefreshFails(a, w)
           \/ AgentRestart(a)
    PROVE  RedisInv'
<1>0. UNCHANGED <<stored, call, boot, live, published>>
  BY DEF Refresh, RefreshRead, RefreshInstall, RefreshFails, AgentRestart, serverVars
<1>1. /\ current \in [Slugs -> MaybeProjection] /\ published \in [Slugs -> MaybeProjection]
      /\ reading \in [Slugs -> [Readers -> [busy: BOOLEAN, got: MaybeProjection]]]
      /\ notified \subseteq Slugs
  BY DEF BothInv, RedisInv, RedisTyped
<1>2. NotReading \in [busy: BOOLEAN, got: MaybeProjection]
  BY DEF NotReading, MaybeProjection
<1>3. /\ current' \in [Slugs -> MaybeProjection] /\ notified' \subseteq Slugs
      /\ reading' \in [Slugs -> [Readers -> [busy: BOOLEAN, got: MaybeProjection]]]
  <2>1. ASSUME NEW w \in Readers, RefreshRead(a, w)
        PROVE  /\ current' \in [Slugs -> MaybeProjection] /\ notified' \subseteq Slugs
               /\ reading' \in [Slugs -> [Readers -> [busy: BOOLEAN, got: MaybeProjection]]]
    <3>1. [busy |-> TRUE, got |-> published[a]] \in [busy: BOOLEAN, got: MaybeProjection]
      BY <1>1
    <3>2. reading' = [reading EXCEPT ![a][w] = [busy |-> TRUE, got |-> published[a]]]
      BY <2>1 DEF RefreshRead
    <3>3. reading' \in [Slugs -> [Readers -> [busy: BOOLEAN, got: MaybeProjection]]]
      BY <1>1, <3>1, <3>2
    <3> QED BY <1>1, <2>1, <3>3 DEF RefreshRead
  <2>2. ASSUME NEW w \in Readers, RefreshInstall(a, w) \/ RefreshFails(a, w)
        PROVE  /\ current' \in [Slugs -> MaybeProjection] /\ notified' \subseteq Slugs
               /\ reading' \in [Slugs -> [Readers -> [busy: BOOLEAN, got: MaybeProjection]]]
    <3>1. reading' = [reading EXCEPT ![a][w] = NotReading]
      BY <2>2 DEF RefreshInstall, RefreshFails
    <3>2. reading' \in [Slugs -> [Readers -> [busy: BOOLEAN, got: MaybeProjection]]]
      BY <1>1, <1>2, <3>1
    <3>3. reading[a][w].got \in MaybeProjection
      BY <1>1
    <3>4. current' = current \/ current' = [current EXCEPT ![a] = reading[a][w].got]
      BY <2>2 DEF RefreshInstall, RefreshFails
    <3>5. current' \in [Slugs -> MaybeProjection]
      BY <1>1, <3>3, <3>4
    <3>6. notified' = notified
      BY <2>2 DEF RefreshInstall, RefreshFails
    <3> QED BY <1>1, <3>2, <3>5, <3>6
  <2>3. CASE AgentRestart(a)
    <3>1. NoProjection \in MaybeProjection
      BY DEF MaybeProjection
    <3>2. [w \in Readers |-> NotReading] \in [Readers -> [busy: BOOLEAN, got: MaybeProjection]]
      BY <1>2
    <3>3. /\ current' = [current EXCEPT ![a] = NoProjection] /\ notified' = notified \ {a}
          /\ reading' = [reading EXCEPT ![a] = [w \in Readers |-> NotReading]]
      BY <2>3 DEF AgentRestart
    <3>4. reading' \in [Slugs -> [Readers -> [busy: BOOLEAN, got: MaybeProjection]]]
      BY <1>1, <3>2, <3>3
    <3>5. current' \in [Slugs -> MaybeProjection] /\ notified' \subseteq Slugs
      BY <1>1, <3>1, <3>3
    <3> QED BY <3>4, <3>5
  <2> QED BY <2>1, <2>2, <2>3 DEF Refresh
<1>4. RedisTyped'
  BY <1>0, <1>3 DEF BothInv, RedisInv, RedisTyped
<1> QED BY <1>0, <1>4, RedisFrame

\* Every step keeps what is said of Redis.
LEMMA RedisStep ==
    ASSUME BothInv, [Next]_vars
    PROVE  RedisInv'
<1>1. ASSUME NEW c \in Clients, NEW r \in Requests, Begin(c, r)
      PROVE  RedisInv'
  BY <1>1, BeginRedis
<1>2. ASSUME NEW c \in Clients, Request(c) \/ RequestFails(c)
      PROVE  RedisInv'
  BY <1>2, UpsertRedis, SetLiveRedis, PublishRedis, ReturnRedis, ForgetRedis, FailureRedis,
     PublishFailsRedis DEF Request, RequestFails
<1>3. ASSUME Boot
      PROVE  RedisInv'
  BY <1>3, BootReadRedis, BootPublishRedis, BootServeRedis DEF Boot
<1>4. CASE UNCHANGED vars
  <2>1. UNCHANGED <<stored, call, boot, live, published, notified, current, reading>>
    BY <1>4 DEF vars
  <2>2. RedisTyped'
    BY <2>1 DEF BothInv, RedisInv, RedisTyped
  <2> QED BY <2>1, <2>2, RedisFrame
<1>5. Running \subseteq Slugs
  BY ControlAssumption
<1> QED BY <1>1, <1>2, <1>3, <1>4, <1>5, CrashRedis, AgentRedis DEF Next

\* Redis is empty at first.
LEMMA RedisInit == Init => RedisInv
<1> SUFFICES ASSUME Init PROVE RedisInv
  OBVIOUS
<1>1. \A c \in Clients : call[c].pc = "idle"
  BY IdleCallType DEF Init
<1>2. NotReading \in [busy: BOOLEAN, got: MaybeProjection] /\ NoProjection \in MaybeProjection
  BY DEF NotReading, MaybeProjection
<1>3. RedisTyped
  BY <1>2, DefaultGood DEF Init, RedisTyped, Good
<1>4. BudgetTyped
  <2>1. /\ budget = [calls |-> MaxCalls, failures |-> MaxFailures, crashes |-> MaxCrashes]
        /\ MaxCalls \in Nat /\ MaxFailures \in Nat /\ MaxCrashes \in Nat
    BY ControlAssumption DEF Init
  <2>2. budget \in [{"calls", "failures", "crashes"} -> Nat]
    BY <2>1
  <2> QED BY <2>1, <2>2 DEF BudgetTyped
<1>5. boot.pc = "up" /\ \A a \in Slugs : published[a] = NoProjection
  BY DEF Init
<1> QED BY <1>1, <1>3, <1>4, <1>5 DEF RedisInv, LeftToPublish, StaleIsUnderway, RemovalForgets,
                                      LeftoverIsForgotten

\* The inductive invariant of both halves.
THEOREM RedisInvariant == Spec => []BothInv
<1>1. Init => BothInv
  BY InitControl, RedisInit DEF BothInv
<1>2. BothInv /\ [Next]_vars => BothInv'
  BY ControlStep, RedisStep DEF BothInv
<1> QED BY <1>1, <1>2, PTL DEF Spec

-----------------------------------------------------------------------------
\* Every projection in Redis or with an agent is one BuildProjection produces
\* from a configured agent, and the two halves of the server are well typed.
THEOREM ControlTypeCorrect == Spec => []TypeOK
<1>1. BothInv => TypeOK
  <2> SUFFICES ASSUME BothInv PROVE TypeOK
    OBVIOUS
  <2>1. call \in [Clients -> [pc: {"idle", "upsert", "live", "publish", "forget"}, cfg: Config,
                              left: Seq(Slugs), forget: Slugs \cup {NoOne}]]
    <3>1. {"idle", "forget"} \cup Holding = {"idle", "upsert", "live", "publish", "forget"}
      BY DEF Holding
    <3> QED BY <3>1 DEF BothInv, ControlInv, CallsTyped, Calls
  <2> QED BY <2>1 DEF BothInv, ControlInv, CallsTyped, Good, RedisInv, RedisTyped, BudgetTyped,
                      TypeOK, ConfigTypeOK
<1> QED BY <1>1, RedisInvariant, PTL

\* Between mutations a projection in Redis is that of the document as it is:
\* whatever requests ran at once, and through crashes of the server, as long as
\* no write to MongoDB or Redis failed.
THEOREM PublishedCurrent == Spec => []PublishedNeverStale
<1>1. BothInv => PublishedNeverStale
  <2> SUFFICES ASSUME BothInv, AtRest, NoFailures, NEW a \in Slugs, Configured(stored, a),
                      published[a] # NoProjection
               PROVE  published[a] = BuildProjection(stored, a)
    BY DEF PublishedNeverStale
  <2>1. \A c \in Clients : call[c].pc \notin Holding
    BY ControlAssumption DEF BothInv, ControlInv, LockHeld, AtRest
  <2>2. ~Underway(a)
    BY <2>1 DEF Underway, AtRest, Holding
  <2> QED BY <2>2 DEF BothInv, RedisInv, StaleIsUnderway
<1> QED BY <1>1, RedisInvariant, PTL

\* Forget after the lock is enough: whatever mutations run meanwhile, a deleted
\* agent's projection is gone once its Forget has run.
THEOREM DeletedForgotten == Spec => []ForgottenStaysForgotten
<1>1. BothInv => ForgottenStaysForgotten
  <2> SUFFICES ASSUME BothInv, AtRest, NoFailures, NoCrashes, NEW a \in Slugs,
                      ~Configured(stored, a), ~Forgetting(a), published[a] # NoProjection
               PROVE  FALSE
    BY DEF ForgottenStaysForgotten
  <2>1. PICK c \in Clients : call[c].forget = a /\ call[c].pc \in {"live", "publish", "forget"}
    BY DEF BothInv, RedisInv, LeftoverIsForgotten
  <2>2. call[c].pc \notin Holding
    BY ControlAssumption DEF BothInv, ControlInv, LockHeld, AtRest
  <2> QED BY <2>1, <2>2 DEF Holding, Forgetting
<1> QED BY <1>1, RedisInvariant, PTL
=============================================================================
