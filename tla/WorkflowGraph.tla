--------------------------- MODULE WorkflowGraph ---------------------------
(***************************************************************************)
(* Validation of a drawn workflow (server/workflow/validate) and what its  *)
(* verdict promises.  The checks run in the order of validate.Graph over a *)
(* graph with at most one data edge; the fixed point of computeMustHaveRun *)
(* and the walk of scopeVisible are taken step by step.  A graph without   *)
(* errors is then run: one token per point of control, each kind of node   *)
(* moving tokens as the comments on the kinds (shared/workflow/catalog.go),*)
(* the catalog (config/catalog.json) and the design page                   *)
(* (workflow_engine.adoc) say.  The engine itself is not written yet, so   *)
(* that part is the meaning the verdict is checked against, not a model of *)
(* code.  Where the page leaves a choice open, both are taken.             *)
(***************************************************************************)
EXTENDS WorkflowTypes, FiniteSets

CONSTANTS
    Order,     \* the node ids, sorted
    NoNode,    \* "", no node
    NoData,    \* the graph has no data edge
    Graphs,    \* the graphs submitted
    MaxItems   \* bound: items of one loop's collection

Nodes == {Order[i] : i \in DOMAIN Order}
ASSUME GraphsAssumption ==
    \A g \in Graphs : g.data = NoData \/ {g.data.produced, g.data.target} \subseteq TypeNames
ASSUME OrderAssumption == Order \in Seq(Nodes) /\ NoNode \notin Nodes /\ MaxItems \in Nat

VARIABLES
    graph,    \* what is validated
    pc,       \* the check that is next, or the run's phase
    diag,     \* the codes reported so far
    scope,    \* loopScope
    must,     \* mustHaveRun
    at,       \* the sweep: index into Order of the node visited next
    changed,  \* the sweep: this pass changed something
    walk,     \* scopeVisible's loop variable
    tokens,   \* run: the control edges with a token on them
    poison,   \* run: those of the tokens that say a branch failed
    running,  \* run: the nodes being executed
    failing,  \* run: the nodes whose error looks for its handler
    open,     \* run: the loops between their first item and done
    items,    \* run: items each open loop has left
    ran,      \* run: the nodes executed so far
    value,    \* run: the nodes whose value exists, in the current iteration
    sockets,  \* run: the item and failedCount sockets of loops that have a value
    failed,   \* run: some node has failed
    joinError \* run: a join has left by its error port

checkVars == <<graph, diag, scope, must, at, changed, walk>>
runVars == <<tokens, poison, running, failing, open, items, ran, value, sockets, failed, joinError>>
vars == <<graph, pc, diag, scope, must, at, changed, walk,
          tokens, poison, running, failing, open, items, ran, value, sockets, failed, joinError>>

-----------------------------------------------------------------------------
(* The catalog: the control ports of each kind of node.                     *)

Branches == {"branch1", "branch2"}
ErrorPort == "error"
Outs(kind) ==
    CASE kind \in {"start", "task", "collect", "join"} -> {"next"}
      [] kind = "branch" -> {"yes", "no"}
      [] kind = "forEach" -> {"body", "done"}
      [] kind = "parallel" -> Branches
      [] OTHER -> {}
Ins(kind) ==
    CASE kind \in {"start", "source", "note"} -> {}
      [] kind = "join" -> Branches
      [] OTHER -> {"in"}
HasError(kind) == kind \in {"task", "branch", "forEach", "parallel", "join"}
HasControlOut(kind, port) == port \in Outs(kind) \/ (HasError(kind) /\ port = ErrorPort)

\* The type a node is resolved to.  An edge may name a node the drawing does not
\* have: it is not resolved either, and checkNodeTypes, which goes over the
\* nodes, does not report it.
Kind(n) == IF n \in Nodes THEN graph.kind[n] ELSE "missing"
OfKind(k) == {n \in Nodes : Kind(n) = k}
Resolved(n) == Kind(n) # "missing"
Executable(n) == Kind(n) \notin {"missing", "note", "source"}

\* startNode: the only Start, if there is just one.
Start == IF Cardinality(OfKind("start")) = 1 THEN CHOOSE n \in OfKind("start") : TRUE ELSE NoNode

-----------------------------------------------------------------------------
(* Reachability.                                                            *)

Flow == {e \in graph.control : Executable(e.from) /\ Executable(e.to)}
Inbound(n) == {e \in Flow : e.to = n}
Wired(n, port) == {e \in Flow : e.from = n /\ e.out = port}

\* The breadth-first search of reachableFromPortBounded and witnessPath: what
\* the given nodes lead to without entering avoid or going on from stop.
Closure(seed, stop, avoid) ==
    LET Step(S) == S \cup ({e.to : e \in {f \in Flow : f.from \in S \ stop}} \ avoid)
        grown[i \in Nat] == IF i = 0 THEN seed \ avoid ELSE UNION {Step(S) : S \in {grown[i - 1]}}
    IN  grown[Cardinality(Nodes)]

Entered(n, port) == {e.to : e \in {f \in graph.control : f.from = n /\ f.out = port}}
reachableFromPort(n, port) == Closure(Entered(n, port), {}, {})

\* branchRegion: up to, and not through, the join that closes the branch.
branchRegion(n, port) == Closure(Entered(n, port), OfKind("join"), {})

Region(loop) == reachableFromPort(loop, "body")
Loops == OfKind("forEach")

-----------------------------------------------------------------------------
(* The structural checks: schema, types, ports, arity, start and end.       *)

If(condition, code) == IF condition THEN {code} ELSE {}

SchemaErrors == If(graph.schema < 1, "schema.legacy") \cup If(graph.schema > 1, "schema.future")

PortErrors ==
    LET known == {e \in graph.control : Resolved(e.from) /\ Resolved(e.to)}
    IN  If(\E e \in known : ~HasControlOut(Kind(e.from), e.out), "port.unknownControlOut")
          \cup If(\E e \in known : e.in \notin Ins(Kind(e.to)), "port.unknownControlIn")

\* Mutant of ArityErrors: a second wire from a port is let through.
AnyArity == {}

\* checkArity, the control half: one edge per control out-port.
ArityErrors ==
    If(\E e, f \in graph.control : e # f /\ e.from = f.from /\ e.out = f.out, "arity.controlOut")

CheckStructure ==
    /\ pc = "structure"
    /\ diag' = SchemaErrors \cup PortErrors \cup ArityErrors
                 \cup If(OfKind("missing") # {}, "type.missing")
                 \cup If(OfKind("start") = {}, "start.missing")
                 \cup If(Cardinality(OfKind("start")) > 1, "start.multiple")
                 \cup If(OfKind("end") = {}, "end.missing")
    /\ pc' = "terminals"
    /\ UNCHANGED <<graph, scope, must, at, changed, walk, runVars>>

-----------------------------------------------------------------------------
(* Loop scopes and the placement of terminals.                              *)

\* computeLoopScopes: the loop with the smallest region around a node.  The
\* regions are in a map, so a tie is broken by the order Go iterates it in.
LoopScopes(region) ==
    LET Around(n) == {l \in Loops : n \in region[l]}
        Innermost(n) == {l \in Around(n) :
                           \A m \in Around(n) : Cardinality(region[l]) <= Cardinality(region[m])}
        inside == UNION {region[l] : l \in Loops}
    IN  {[n \in Nodes |-> IF n \in inside THEN pick[n] ELSE NoNode] :
           pick \in {p \in [inside -> Loops] : \A n \in inside : p[n] \in Innermost(n)}}

\* effectiveScope: a Collect's value belongs to the loop around its own.
effectiveScope(n) ==
    IF Kind(n) = "collect" /\ scope[n] # NoNode THEN scope[scope[n]] ELSE scope[n]

\* Mutant of TerminalErrors: loop bodies are not looked at.
BranchErrors(s) ==
    If(\E n \in OfKind("end") \cup OfKind("fail") : \E p \in OfKind("parallel") :
         \E port \in Outs("parallel") : n \in branchRegion(p, port), "terminal.inParallelBranch")

TerminalErrors(s) ==
    LET ends == OfKind("end") \cup OfKind("fail")
    IN  If(\E n \in ends : s[n] # NoNode, "terminal.inLoop")
          \cup If(\E n \in ends : \E p \in OfKind("parallel") : \E port \in Outs("parallel") :
                    s[n] = NoNode /\ n \in branchRegion(p, port), "terminal.inParallelBranch")

CheckTerminalPlacement ==
    /\ pc = "terminals"
    /\ \E region \in {[l \in Loops |-> Region(l)]} : scope' \in LoopScopes(region)
    /\ diag' = diag \cup TerminalErrors(scope')
    /\ pc' = "joins"
    /\ UNCHANGED <<graph, must, at, changed, walk, runVars>>

-----------------------------------------------------------------------------
(* Parallel branches and their join; the sweep is set up at the same time.  *)

UsedPorts(p) == {e.out : e \in {f \in graph.control : f.from = p}}
SharedJoins(p) ==
    {j \in OfKind("join") : \A port \in UsedPorts(p) : j \in reachableFromPort(p, port)}

JoinDiagnostics ==
    UNION {IF UsedPorts(p) = {} THEN {}
           ELSE If(Cardinality(UsedPorts(p)) < 2, "parallel.singleBranch")
                  \cup If(graph.branches > 0 /\ Cardinality(UsedPorts(p)) > graph.branches, "parallel.tooManyBranches")
                  \cup If(SharedJoins(p) = {}, "parallel.noSharedJoin")
             : p \in OfKind("parallel")}

CheckParallelJoins ==
    /\ pc = "joins"
    /\ diag' = diag \cup JoinDiagnostics
    /\ must' = [n \in Nodes |-> IF n = Start THEN {} ELSE {m \in Nodes : Executable(m)}]
    /\ at' = 1
    /\ changed' = FALSE
    /\ pc' = IF Start = NoNode THEN "data" ELSE "sweep"
    /\ UNCHANGED <<graph, scope, walk, runVars>>

-----------------------------------------------------------------------------
(* computeMustHaveRun: passes over the nodes until one changes nothing.     *)

\* Mutant of through: the edge's own source is forgotten.
throughBefore(e) == must[e.from]

through(e) == must[e.from] \cup {e.from}

\* Mutant of joinMeet: one branch is enough, whichever it is.
joinAny(n) == UNION {through(e) : e \in Inbound(n)}

\* joinMeet: within an in-port one edge delivers, across in-ports all of them.
joinMeet(n) ==
    {m \in Nodes : \E port \in {e.in : e \in Inbound(n)} :
                     \A e \in Inbound(n) : e.in = port => m \in through(e)}

ordinaryMeet(n) == {m \in Nodes : \A e \in Inbound(n) : m \in through(e)}

Meet(n) == IF Kind(n) = "join" THEN joinMeet(n) ELSE ordinaryMeet(n)

\* The nodes the sweep visits and may change.
Swept(n) == Executable(n) /\ n # Start /\ Inbound(n) # {}

Visit ==
    /\ pc = "sweep" /\ at \in DOMAIN Order
    /\ IF Swept(Order[at]) /\ Meet(Order[at]) # must[Order[at]]
       THEN must' = [must EXCEPT ![Order[at]] = Meet(Order[at])] /\ changed' = TRUE
       ELSE UNCHANGED <<must, changed>>
    /\ at' = at + 1
    /\ UNCHANGED <<graph, pc, diag, scope, walk, runVars>>

\* Mutant of EndPass: the next pass begins one place before the first node.
EndPassFromZero ==
    /\ pc = "sweep" /\ at \notin DOMAIN Order
    /\ at' = 0
    /\ changed' = FALSE
    /\ pc' = IF changed THEN "sweep" ELSE "data"
    /\ UNCHANGED <<graph, diag, scope, must, walk, runVars>>

\* Mutant of EndPass: what changed in an earlier pass is not forgotten.
EndPassSticky ==
    /\ pc = "sweep" /\ at \notin DOMAIN Order
    /\ at' = 1
    /\ pc' = IF changed THEN "sweep" ELSE "data"
    /\ UNCHANGED <<graph, diag, scope, must, changed, walk, runVars>>

EndPass ==
    /\ pc = "sweep" /\ at \notin DOMAIN Order
    /\ at' = 1
    /\ changed' = FALSE
    /\ pc' = IF changed THEN "sweep" ELSE "data"
    /\ UNCHANGED <<graph, diag, scope, must, walk, runVars>>

-----------------------------------------------------------------------------
(* The data edge: availability, scope, types.                               *)

Data == graph.data

availabilityProducer(n) ==
    IF Kind(n) = "collect" /\ scope[n] # NoNode THEN scope[n] ELSE n

\* Mutant of Guaranteed: some path through the source is enough.
GuaranteedOnSomePath == \/ Kind(Data.from) = "source"
                        \/ Start = NoNode
                        \/ ~Executable(Data.to)
                        \/ availabilityProducer(Data.from) \in must[Data.to]
                        \/ Data.to \in Closure({Data.from}, {}, {})

Guaranteed == \/ Kind(Data.from) = "source"
              \/ Start = NoNode
              \/ ~Executable(Data.to)
              \/ availabilityProducer(Data.from) \in must[Data.to]

\* parallelSiblings: the two sit in different branches of one parallel; a node
\* in several branches counts for the last of them.
parallelSiblings(left, right) ==
    LET Last(p, n) == IF n \in branchRegion(p, "branch2") THEN "branch2"
                      ELSE IF n \in branchRegion(p, "branch1") THEN "branch1" ELSE ""
    IN  \E p \in OfKind("parallel") :
            {Last(p, left), Last(p, right)} = Branches

\* checkDataEdgeAvailability; then checkDataEdgeScope begins its walk.
CheckAvailability ==
    /\ pc = "data"
    /\ IF Data = NoData \/ ~Resolved(Data.from) \/ ~Resolved(Data.to)
       THEN pc' = "verdict" /\ UNCHANGED <<diag, walk>>
       ELSE /\ diag' = IF Guaranteed THEN diag
                       ELSE diag \cup {IF parallelSiblings(Data.from, Data.to)
                                       THEN "data.parallelSiblings" ELSE "data.notGuaranteed"}
            /\ walk' = scope[Data.to]
            /\ pc' = IF effectiveScope(Data.from) = NoNode THEN "types" ELSE "scope"
    /\ UNCHANGED <<graph, scope, must, at, changed, runVars>>

\* scopeVisible: up the loops around the target, looking for the source's.
ScopeStep ==
    /\ pc = "scope"
    /\ CASE walk = NoNode -> /\ diag' = diag \cup {"data.escapesLoop"}
                             /\ pc' = "types"
                             /\ UNCHANGED walk
         [] walk = effectiveScope(Data.from) -> pc' = "types" /\ UNCHANGED <<diag, walk>>
         [] OTHER -> walk' = scope[walk] /\ UNCHANGED <<diag, pc>>
    /\ UNCHANGED <<graph, scope, must, at, changed, runVars>>

Transforms == ResolveTransform(Data.transform, Data.produced, Data.target)

\* Mutant of TypeErrors: what the conversion produces is not looked at.
TypeErrorsInput ==
    IF Data.transform # ""
    THEN If(Transforms = {}, "data.unknownTransform")
           \cup If(\E t \in Transforms : ~IsSubtypeOf(Data.produced, t.from), "data.transformInputMismatch")
    ELSE {}

\* checkDataEdgeTypes, for the type the source's socket produces.
TypeErrors ==
    LET connection == CanConnect(Data.produced, Data.target)
    IN  IF Data.transform # ""
        THEN If(Transforms = {}, "data.unknownTransform")
               \cup UNION {IF ~IsSubtypeOf(Data.produced, t.from) THEN {"data.transformInputMismatch"}
                           ELSE If(~IsSubtypeOf(t.to, Data.target), "data.transformOutputMismatch")
                             : t \in Transforms}
        ELSE IF connection.direct THEN {}
        ELSE {IF connection.candidates # {} THEN "data.transformRequired" ELSE "data.incompatible"}

CheckTypes ==
    /\ pc = "types"
    /\ diag' = diag \cup TypeErrors
    /\ pc' = "verdict"
    /\ UNCHANGED <<graph, scope, must, at, changed, walk, runVars>>

\* Result.Runnable: warnings do not count.
Runnable == diag \subseteq {"parallel.singleBranch"}

Validate == \/ CheckStructure \/ CheckTerminalPlacement \/ CheckParallelJoins
            \/ Visit \/ EndPass
            \/ CheckAvailability \/ ScopeStep \/ CheckTypes

-----------------------------------------------------------------------------
(* The meaning of the verdict: a run of a graph without errors.             *)

\* "Run at once" is 1: the items of a loop are taken one after the other.
Serial == graph.atOnce = 1

Body(loop) == Region(loop) \ {loop}

Begin ==
    /\ pc = "verdict" /\ Runnable
    /\ pc' = "running"
    /\ running' = {Start}
    /\ UNCHANGED <<checkVars, tokens, poison, failing, open, items, ran, value, sockets, failed, joinError>>

\* The tokens a node is entered with: one, or at a join one on every in-port
\* that is wired ("a join only proceeds once every branch has arrived").
Arrivals(n) ==
    LET here == {e \in tokens : e.to = n}
    IN  IF Kind(n) = "join"
        THEN {A \in SUBSET here : /\ {e.in : e \in A} = {e.in : e \in Inbound(n)}
                                  /\ \A e, f \in A : e.in = f.in => e = f}
        ELSE {{e} : e \in here}

\* A join "fires error instead of next if any branch failed".
Enter(n) ==
    /\ pc = "running" /\ n \notin running \cup open \cup failing
    /\ \E A \in Arrivals(n) :
          /\ A # {}
          /\ tokens' = tokens \ A
          /\ poison' = poison \ A
          /\ \/ /\ A \cap poison = {}
                /\ running' = running \cup {n}
                /\ UNCHANGED <<failing, ran>>
             \/ /\ A \cap poison # {}
                /\ failing' = failing \cup {n}
                /\ ran' = ran \cup {n}
                /\ UNCHANGED running
    /\ UNCHANGED <<checkVars, pc, open, items, value, sockets, failed, joinError>>

\* A step ends by one of its ports; a Branch "chooses exactly one".
Leave(n, port) ==
    /\ pc = "running" /\ n \in running
    /\ Kind(n) \notin {"parallel", "forEach"} /\ port \in Outs(Kind(n))
    /\ tokens' = tokens \cup Wired(n, port)
    /\ running' = running \ {n}
    /\ ran' = ran \cup {n}
    /\ value' = value \cup {n}
    /\ UNCHANGED <<checkVars, pc, poison, failing, open, items, sockets, failed, joinError>>

\* A Parallel "fans out into concurrent branches".
Fork(n) ==
    /\ pc = "running" /\ n \in running /\ Kind(n) = "parallel"
    /\ tokens' = tokens \cup UNION {Wired(n, port) : port \in Outs("parallel")}
    /\ running' = running \ {n}
    /\ ran' = ran \cup {n}
    /\ value' = value \cup {n}
    /\ UNCHANGED <<checkVars, pc, poison, failing, open, items, sockets, failed, joinError>>

-----------------------------------------------------------------------------
(* Loops.                                                                   *)

IterationOver(n) == /\ \A e \in tokens : e.to \notin Region(n)
                    /\ (running \cup failing \cup open) \cap Region(n) = {}

\* A For Each "iterates, firing body per item": it opens with the size of its
\* collection, which is its count.
OpenLoop(n) ==
    /\ pc = "running" /\ n \in running /\ Kind(n) = "forEach"
    /\ running' = running \ {n}
    /\ open' = open \cup {n}
    /\ \E size \in 0 .. MaxItems : items' = [items EXCEPT ![n] = size]
    /\ ran' = ran \cup {n}
    /\ value' = value \cup {n}
    /\ UNCHANGED <<checkVars, pc, tokens, poison, failing, sockets, failed, joinError>>

\* What an iteration has produced goes with it: the values of the body and the
\* sockets of the loops in it.  A list is the loop's, not the iteration's.
Kept(n) == {m \in value : m \notin Body(n) \/ (Kind(m) = "collect" /\ scope[m] = n)}
KeptSockets(n) == {v \in sockets : v[1] \notin Body(n)}

\* The next item, once the last iteration is over or, when several run at
\* once, on its way.
Item(n) ==
    /\ pc = "running" /\ n \in open /\ items[n] > 0
    /\ IF Serial THEN IterationOver(n) ELSE Wired(n, "body") \cap tokens = {}
    /\ items' = [items EXCEPT ![n] = @ - 1]
    /\ tokens' = tokens \cup Wired(n, "body")
    /\ value' = Kept(n)
    /\ sockets' = KeptSockets(n) \cup {<<n, "item">>}
    /\ UNCHANGED <<checkVars, pc, poison, running, failing, open, ran, failed, joinError>>

\* "Then done once": the loop's Collect nodes have their lists, there is a
\* failedCount and no item any more.
Done(n) ==
    /\ pc = "running" /\ n \in open /\ items[n] = 0 /\ IterationOver(n)
    /\ open' = open \ {n}
    /\ tokens' = tokens \cup Wired(n, "done")
    /\ value' = Kept(n) \cup {c \in OfKind("collect") : scope[c] = n}
    /\ sockets' = (KeptSockets(n) \ {<<n, "item">>}) \cup {<<n, "failedCount">>}
    /\ UNCHANGED <<checkVars, pc, poison, running, failing, items, ran, failed, joinError>>

\* A Break "terminates the enclosing loop": no further item is begun.
Break(n) ==
    /\ pc = "running" /\ n \in running /\ Kind(n) = "break"
    /\ running' = running \ {n}
    /\ items' = [l \in Nodes |-> IF l = scope[n] THEN 0 ELSE items[l]]
    /\ ran' = ran \cup {n}
    /\ value' = value \cup {n}
    /\ UNCHANGED <<checkVars, pc, tokens, poison, failing, open, sockets, failed, joinError>>

-----------------------------------------------------------------------------
(* Errors.  A join fails by a poison token only, any other step by itself.  *)

Fail(n) ==
    /\ pc = "running" /\ n \in running /\ HasError(Kind(n)) /\ Kind(n) # "join"
    /\ running' = running \ {n}
    /\ failing' = failing \cup {n}
    /\ ran' = ran \cup {n}
    /\ failed' = TRUE
    /\ UNCHANGED <<checkVars, pc, tokens, poison, open, items, value, sockets, joinError>>

\* The error port is wired: the error is handled there.
Catch(n) ==
    /\ pc = "running" /\ n \in failing /\ Wired(n, ErrorPort) # {}
    /\ tokens' = tokens \cup Wired(n, ErrorPort)
    /\ failing' = failing \ {n}
    /\ joinError' = (joinError \/ Kind(n) = "join")
    /\ UNCHANGED <<checkVars, pc, poison, running, open, items, ran, value, sockets, failed>>

Unhandled(n) == pc = "running" /\ n \in failing /\ Wired(n, ErrorPort) = {}

\* n's error is dealt with: control goes from the nodes of gone, poison tokens
\* are put on the edges sent, and the loops of raised fail in its place.
Resolve(n, gone, sent, raised) ==
    /\ tokens' = {e \in tokens : e.to \notin gone} \cup sent
    /\ poison' = {e \in poison : e.to \notin gone} \cup sent
    /\ running' = running \ gone
    /\ open' = open \ (gone \cup raised)
    /\ failing' = (failing \ (gone \cup {n})) \cup raised
    /\ UNCHANGED <<checkVars, pc, items, ran, value, sockets, failed, joinError>>

\* "Inside a loop body the forEach's onItemError decides": the innermost loop
\* with an iteration under way.
Iterating(n) == {l \in open : n \in Region(l) /\ \A m \in open \cap Body(l) : n \notin Region(m)}

\* Skip: the iteration is dropped, the loop goes on.
SkipItem(n) ==
    /\ Unhandled(n)
    /\ \E l \in Iterating(n) : Resolve(n, IF Serial THEN Body(l) ELSE {}, {}, {})

\* Abort: the loop stops, cancels what is in flight and fails.
AbortLoop(n) ==
    /\ Unhandled(n)
    /\ \E l \in Iterating(n) : Resolve(n, Body(l), {}, {l})

\* A branch of a Parallel, up to the joins its branches share, and the edges
\* that enter these.
Branch(p, port) == Closure(Entered(p, port), SharedJoins(p), {}) \ SharedJoins(p)
Exits(p, port) == {e \in Flow : e.from \in Branch(p, port) /\ e.to \in SharedJoins(p)}

InBranch(n, p, port) == n \in Branch(p, port) /\ \A l \in Iterating(n) : p \in Region(l)

Busy(S) == (running \cup failing \cup open) \cap S # {} \/ \E e \in tokens : e.to \in S

\* "Inside a parallel branch a poison token to the join": waitForSiblings.
SendPoison(n) ==
    /\ Unhandled(n)
    /\ \E p \in OfKind("parallel"), port \in Branches :
          /\ InBranch(n, p, port)
          /\ \E e \in Exits(p, port) : Resolve(n, {}, {e}, {})

\* The same with cancelSiblings: the other branch is stopped and counts as failed.
CancelSiblings(n) ==
    /\ Unhandled(n)
    /\ \E p \in OfKind("parallel"), port, other \in Branches :
          /\ port # other
          /\ InBranch(n, p, port) /\ Busy(Branch(p, other) \ Branch(p, port))
          /\ \E e \in Exits(p, port), f \in Exits(p, other) :
                Resolve(n, Branch(p, other) \ Branch(p, port), {e, f}, {})

End ==
    /\ pc' = "ended"
    /\ tokens' = {} /\ poison' = {} /\ running' = {} /\ failing' = {} /\ open' = {}
    /\ UNCHANGED <<checkVars, items, ran, value, sockets, failed, joinError>>

\* "Otherwise abort."
AbortRun(n) ==
    /\ Unhandled(n)
    /\ Iterating(n) = {}
    /\ \A p \in OfKind("parallel"), port \in Branches : n \notin Branch(p, port)
    /\ End

\* End and Fail terminate the run.
Stop(n) ==
    /\ pc = "running" /\ n \in running /\ Kind(n) \in {"end", "fail"}
    /\ End

-----------------------------------------------------------------------------
Init ==
    /\ graph \in Graphs
    /\ pc = "structure"
    /\ diag = {}
    /\ scope = [n \in Nodes |-> NoNode]
    /\ must = [n \in Nodes |-> {}]
    /\ at = 1 /\ changed = FALSE
    /\ walk = NoNode
    /\ tokens = {} /\ poison = {} /\ running = {} /\ failing = {} /\ open = {}
    /\ items = [n \in Nodes |-> 0]
    /\ ran = {} /\ value = {} /\ sockets = {}
    /\ failed = FALSE /\ joinError = FALSE

Run == \/ Begin
       \/ \E n \in Nodes : \/ Enter(n)
                           \/ \E port \in Outs(Kind(n)) : Leave(n, port)
                           \/ Fork(n)
                           \/ OpenLoop(n) \/ Item(n) \/ Done(n) \/ Break(n)
                           \/ Fail(n) \/ Catch(n) \/ SkipItem(n) \/ AbortLoop(n)
                           \/ SendPoison(n) \/ CancelSiblings(n) \/ AbortRun(n)
                           \/ Stop(n)

Next == Validate \/ Run

\* Validation is one call that runs to its end.
Spec == Init /\ [][Next]_vars /\ WF_vars(Validate)

-----------------------------------------------------------------------------
TypeOK ==
    /\ pc \in {"structure", "terminals", "joins", "sweep", "data", "scope", "types", "verdict",
               "running", "ended"}
    /\ scope \in [Nodes -> Nodes \cup {NoNode}]
    /\ must \in [Nodes -> SUBSET Nodes]
    /\ at \in 1 .. Len(Order) + 1
    /\ changed \in BOOLEAN
    /\ walk \in Nodes \cup {NoNode}
    /\ tokens \subseteq Flow
    /\ poison \subseteq tokens
    /\ running \cup failing \cup open \cup ran \cup value \subseteq Nodes
    /\ sockets \subseteq Nodes \X {"item", "failedCount"}
    /\ items \in [Nodes -> 0 .. MaxItems]
    /\ failed \in BOOLEAN /\ joinError \in BOOLEAN

\* mustHaveRun is what it says (flow.go:142-152): when a node is entered, every
\* node of its set has been executed, whichever branches were chosen, however
\* the parallel ones interleave, however often a loop went round and wherever
\* steps failed, as long as no join has left by its error port.
AvailabilitySound == ~joinError => \A n \in running : must[n] \subseteq ran

\* The shape the comments on loops assume (flow.go:69-75): a body does not lead
\* back to its For Each nor to what follows it, and two bodies are nested or
\* apart.
Inside(l, m) == l \in Region(m) /\ Region(l) \subseteq Region(m)
WellNested ==
    \A l \in Loops :
        /\ l \notin Region(l)
        /\ Region(l) \cap reachableFromPort(l, "done") = {}
        /\ \A m \in Loops : Region(l) \cap Region(m) = {} \/ l = m \/ Inside(l, m) \/ Inside(m, l)

CollectInside == Kind(Data.from) = "collect" /\ Data.to \in Region(scope[Data.from])

\* A socket of a For Each read where the catalog says it cannot be
\* (config/catalog.json:143-146): item outside the body, failedCount inside.
Misplaced ==
    Kind(Data.from) = "forEach" /\ \/ Data.socket = "item" /\ Data.to \notin Region(Data.from)
                                   \/ Data.socket = "failedCount" /\ Data.to \in Region(Data.from)

\* What the socket the edge begins at has to offer.
Delivered ==
    /\ Data.from \in value
    /\ Kind(Data.from) = "forEach" /\ Data.socket \in {"item", "failedCount"} =>
           <<Data.from, Data.socket>> \in sockets

\* A data edge that passes delivers (data.go:9-11, 118-120): when its target is
\* entered the socket's value exists, and is this iteration's.  Not covered:
\* runs in which a step failed, loops that take several items at once or do not
\* nest, sockets the validator lets be read where they have no value (a Collect
\* inside its loop, a misplaced socket of a For Each), and a source the drawing
\* does not have, which is not reported.
ValueThere ==
    Data # NoData /\ Data.to \in running /\ ~failed /\ Serial /\ WellNested =>
        \/ Delivered
        \/ Data.from \notin Nodes
        \/ Kind(Data.from) = "source"
        \/ CollectInside
        \/ Misplaced

\* No accidental race (validate.go:201-204): without a Parallel node and with
\* loops that take one item at a time there is never more than one point of
\* control.
SingleToken ==
    OfKind("parallel") = {} /\ Serial =>
        Cardinality(tokens) + Cardinality(running) + Cardinality(failing) <= 1

\* No End in a loop (flow.go:330-333): without a Parallel node a run never ends
\* half way through a loop.
EndsOutsideLoops ==
    OfKind("parallel") = {} =>
        \A n \in running : Kind(n) \in {"end", "fail"} => open = {}

\* A refusal can be shown (flow.go:282-283): when a data edge is not guaranteed
\* there is a path from Start to its target around its source, for the editor
\* to paint.  Not for an edge from a node to itself, from a Note, which never
\* runs, nor from a Collect, whose loop is asked about in its place.
WitnessReal ==
    "data.notGuaranteed" \in diag /\ Data.from # Data.to /\ Kind(Data.from) \notin {"collect", "note"} =>
        Data.to \in Closure({Start}, {}, {Data.from})

\* Types hold (types.go:99-104, 247-263): over an edge that passes, and is not
\* marked unsafe, every value the source may produce arrives as one the socket
\* takes.
Takes(v, socket) == IsSubtypeOf(v, socket) \/ SameRepresentation(v, socket)
Converted(v) == IF Data.transform = "" THEN v
                ELSE IF Data.transform = "wrap" THEN ListOf(v)
                ELSE (CHOOSE t \in Transforms : TRUE).to
ScalarTypes == {TypeAny, TypeBool, TypeNumber, TypeString, TypeDatetime, TypePath, TypePathDir, TypePathFile,
                TypeMedia, TypeMediaFile, TypeTVSeries, TypeMovie, TypeAgent, TypeAgentSlug, TypeScanner,
                TypeScannerSlug, TypeError}
ValueTypes == ScalarTypes \cup {ListOf(t) : t \in ScalarTypes}
TypeSafe ==
    Data # NoData /\ {Data.from, Data.to} \subseteq Nodes /\ pc \in {"verdict", "running"} /\ Runnable =>
        \/ Data.transform = "" /\ CanConnect(Data.produced, Data.target).unsafe
        \/ \A v \in ValueTypes : IsSubtypeOf(v, Data.produced) => Takes(Converted(v), Data.target)

\* Validation ends, for a graph no loop of which leads back into itself.
Validated == pc \in {"verdict", "running", "ended"}
ValidationEndsOnTrees == (\A l \in Loops : l \notin Region(l)) ~> Validated

-----------------------------------------------------------------------------
(* Statements of the repository's text that the model refutes.              *)

\* flow.go:127-129: scopeVisible walks the loop-nesting tree.  A loop whose
\* body leads back to it is its own scope, and the walk does not end.
ValidationEnds == <>Validated

\* workflow_engine.adoc:365: a consumer of a Collect inside the body fails.
CollectReadAfterLoop == pc = "running" /\ Data # NoData => ~CollectInside

\* validate.go:155: an edge's end without a type has been reported by then.
UnresolvedReported ==
    pc = "verdict" /\ Data # NoData /\ Runnable => Resolved(Data.from) /\ Resolved(Data.to)

\* flow.go:142-152, workflow_engine.adoc:325: mustHaveRun is what it says.  A
\* join entered with a poison token leaves by its error port, and what follows
\* there is promised every branch: joinMeet does not tell the port from next.
AvailableAfterError == \A n \in running : must[n] \subseteq ran

\* config/catalog.json:143-146: item is readable only inside the body and
\* failedCount after done.  The scope of both is the loop's own.
SocketsInPlace == pc = "running" /\ Data # NoData => ~Misplaced

\* validate.go:201-204: no accidental race.  A For Each that takes several
\* items at once (config/catalog.json:149) runs its body beside itself.
SingleTokenAlways == OfKind("parallel") = {} => Cardinality(tokens) + Cardinality(running) <= 1

\* flow.go:330-333: every branch reaches its join, deadlock is impossible.
JoinsComplete ==
    pc = "running" /\ ~failed => running # {} \/ open # {} \/ \E n \in Nodes : Arrivals(n) # {}
                                   \/ \A e \in tokens : Kind(e.to) # "join"
=============================================================================
