------------------------ MODULE WorkflowGraphProofs ------------------------
(***************************************************************************)
(* What the verdict of validation promises of a run, for every drawing.    *)
(*                                                                         *)
(* What computeMustHaveRun computes is sound: MustHaveRunSound.  The       *)
(* argument has two halves.  The sweep stops only                          *)
(* at a fixed point: when a pass changed nothing, every node it visited    *)
(* has the meet of its predecessors (SweepInv).  At a fixed point, a run   *)
(* preserves that whatever an edge with a token promises has happened      *)
(* (RunInv): a node entered by an edge has no more in its set than that    *)
(* edge promises, a join no more than the edges it waited for.  A poison   *)
(* token promises nothing, and a join that it makes fail only breaks the   *)
(* promise once it leaves by its error port.                               *)
(*                                                                         *)
(* The sweep is exact enough: what it drops from a node's set can be gone  *)
(* around (WitnessInv, theorem RefusalShown).  A value that is promised is *)
(* there (HeldInv, SocketInv, theorem DataDelivered): an iteration         *)
(* discards the values of its body when control has left it, and control   *)
(* has come from all it is promised (LeadInv), so nothing of the body is   *)
(* promised where it is then; where a loop is promised, control is in its  *)
(* body, where there is an item, or after it (LoopInv), where there are    *)
(* its failedCount and the lists of the Collect nodes it is the innermost  *)
(* loop of.  Without a Parallel node and with one item at a time there is  *)
(* one point of control, inside every open loop (SingleInv, theorem        *)
(* OnePointOfControl); with several items at once all control is inside    *)
(* the outermost open loop (RootInv, theorem NeverEndsInALoop).  Subtyping *)
(* is transitive, so what fits a socket's type by the check fits it by     *)
(* value (theorem TypesHold).                                              *)
(*                                                                         *)
(* The searches are iterations with a fixed number of rounds; that these   *)
(* reach the fixed point is ClosureFixed, by a least counterexample.       *)
(***************************************************************************)
EXTENDS WorkflowGraph, FiniteSetTheorems, WellFoundedInduction, TLAPS

Fixed(n) == Swept(n) => must[n] = Meet(n)

\* The phases after the sweep.
Settled == {"data", "scope", "types", "verdict", "running", "ended"}

TypeInv ==
    /\ must \in [Nodes -> SUBSET Nodes]
    /\ at \in Nat \ {0}
    /\ changed \in BOOLEAN

\* A graph without exactly one Start is not runnable.
StartInv ==
    /\ pc # "structure" /\ Start = NoNode => ~Runnable
    /\ pc \in {"running", "ended"} => Start \in Nodes

SweepInv ==
    /\ pc \in {"sweep"} \cup Settled /\ Start # NoNode => must[Start] = {}
    /\ pc = "sweep" => Start # NoNode
    /\ pc = "sweep" /\ ~changed => \A i \in DOMAIN Order : i < at => Fixed(Order[i])
    /\ pc \in Settled /\ Start # NoNode => \A n \in Nodes : Fixed(n)

\* What a point of control is promised has happened, except where a branch
\* failed: on a poison token, and at a join that was entered with one.
Promised ==
    /\ \A e \in tokens \ poison : through(e) \subseteq ran
    /\ \A n \in running \cup open : must[n] \subseteq ran
    /\ \A n \in failing : Kind(n) = "join" \/ must[n] \subseteq ran

RunInv ==
    /\ pc # "running" => tokens = {} /\ running = {} /\ failing = {} /\ open = {}
    /\ tokens \subseteq Flow /\ poison \subseteq tokens
    /\ \A e \in poison : Kind(e.to) = "join"
    /\ running \cup failing \cup open \subseteq Nodes
    /\ open \cup failing \subseteq ran
    /\ ~joinError => Promised
    /\ ~failed => failing = {} /\ poison = {} /\ ~joinError

IInv == TypeInv /\ StartInv /\ SweepInv /\ RunInv

-----------------------------------------------------------------------------
(* Iteration.  The searches of flow.go are queues that run empty; the model   *)
(* counts their rounds, and these facts say that enough rounds are counted.  *)

\* What holds of zero, and of the next number with each, holds of all.
LEMMA AllNumbers ==
    ASSUME NEW S \in SUBSET Nat, 0 \in S, \A n \in S : n + 1 \in S
    PROVE  S = Nat
<1> DEFINE R == {ss \in Nat \X Nat : ss[1] < ss[2]}
<1> SUFFICES ASSUME Nat \ S # {} PROVE FALSE
  OBVIOUS
<1>1. IsWellFoundedOn(R, Nat)
  BY NatLessThanWellFounded, Zenon DEF OpToRel
<1> HIDE DEF R
<1> DEFINE T == Nat \ S
<1>t. T \subseteq Nat /\ T # {}
  OBVIOUS
<1> HIDE DEF T
<1>2. PICK n \in T : \A m \in T : ~(<<m, n>> \in R)
  BY <1>1, <1>t, WFMin, Zenon
<1>3. \A m \in T : ~(m < n)
  BY <1>2, <1>t DEF R
<1>4. n \in Nat /\ n \notin S /\ n # 0
  BY <1>2 DEF T
<1>5. n - 1 \in Nat /\ n - 1 < n /\ (n - 1) + 1 = n
  BY <1>4
<1>6. n - 1 \in S
  BY <1>3, <1>5 DEF T
<1> QED BY <1>4, <1>5, <1>6

\* The first n applications of F to s.
Approx(X, s, F, n) == {h \in [0 .. n -> X] : h[0] = s /\ \A i \in Nat : i < n => h[i + 1] = F[h[i]]}

\* They can be made.
LEMMA ApproxExists ==
    ASSUME NEW X, NEW s \in X, NEW F \in [X -> X], NEW k \in Nat
    PROVE  Approx(X, s, F, k) # {}
<1> DEFINE S == {n \in Nat : Approx(X, s, F, n) # {}}
<1>1. 0 \in S
  <2>1. [i \in 0 .. 0 |-> s] \in Approx(X, s, F, 0)
    BY DEF Approx
  <2> QED BY <2>1
<1>2. ASSUME NEW n \in S PROVE n + 1 \in S
  <2>1. PICK h : h \in Approx(X, s, F, n)
    OBVIOUS
  <2>0. n \in Nat
    OBVIOUS
  <2>2. h \in [0 .. n -> X] /\ h[0] = s /\ \A i \in Nat : i < n => h[i + 1] = F[h[i]]
    BY <2>1 DEF Approx
  <2> DEFINE g == [i \in 0 .. n + 1 |-> IF i = n + 1 THEN F[h[n]] ELSE h[i]]
  <2>3. h[n] \in X
    BY <2>0, <2>2
  <2>4. g \in [0 .. n + 1 -> X]
    <3>1. \A i \in 0 .. n + 1 : i = n + 1 \/ i \in 0 .. n
      BY <2>0
    <3>2. F[h[n]] \in X
      BY <2>3
    <3> QED BY <3>1, <3>2, <2>2
  <2>5. g[0] = s
    BY <2>0, <2>2
  <2>6. ASSUME NEW i \in Nat, i < n + 1 PROVE g[i + 1] = F[g[i]]
    <3>1. g[i] = h[i]
      BY <2>0, <2>6
    <3>2. CASE i = n
      BY <3>1, <3>2, <2>0
    <3>3. CASE i < n
      BY <3>1, <3>3, <2>0, <2>2
    <3> QED BY <3>2, <3>3, <2>6, <2>0
  <2> HIDE DEF g
  <2>7. g \in Approx(X, s, F, n + 1)
    BY <2>4, <2>5, <2>6 DEF Approx
  <2> QED BY <2>0, <2>7
<1> HIDE DEF S
<1>3. S \in SUBSET Nat
  BY DEF S
<1>4. S = Nat
  BY <1>1, <1>2, <1>3, AllNumbers
<1> QED BY <1>4 DEF S

\* And in one way only.
LEMMA ApproxAgree ==
    ASSUME NEW X, NEW s \in X, NEW F \in [X -> X], NEW n \in Nat, NEW m \in Nat, n <= m,
           NEW g \in Approx(X, s, F, n), NEW h \in Approx(X, s, F, m)
    PROVE  g[n] = h[n]
<1> DEFINE S == {i \in Nat : i <= n => g[i] = h[i]}
<1>1. 0 \in S
  BY DEF Approx
<1>2. ASSUME NEW i \in S PROVE i + 1 \in S
  <2>0. i \in Nat
    OBVIOUS
  <2>1. CASE i + 1 <= n
    <3>1. i < n /\ i < m /\ i <= n
      BY <2>0, <2>1
    <3>2. g[i] = h[i]
      BY <3>1
    <3>3. g[i + 1] = F[g[i]] /\ h[i + 1] = F[h[i]]
      BY <3>1, <2>0 DEF Approx
    <3> QED BY <3>2, <3>3, <2>0
  <2>2. CASE ~(i + 1 <= n)
    BY <2>2, <2>0
  <2> QED BY <2>1, <2>2
<1> HIDE DEF S
<1>3. S \in SUBSET Nat
  BY DEF S
<1>4. S = Nat
  BY <1>1, <1>2, <1>3, AllNumbers
<1>5. n \in S /\ n <= n
  BY <1>4
<1> QED BY <1>5 DEF S

\* A function on a set can be applied over and over.
LEMMA Iterates ==
    ASSUME NEW X, NEW s \in X, NEW F \in [X -> X]
    PROVE  \E g \in [Nat -> X] : g[0] = s /\ \A i \in Nat : g[i + 1] = F[g[i]]
<1> DEFINE Pick(n) == CHOOSE h : h \in Approx(X, s, F, n)
           g == [n \in Nat |-> Pick(n)[n]]
<1>1. \A n \in Nat : Pick(n) \in Approx(X, s, F, n)
  BY ApproxExists
<1> HIDE DEF Pick
<1>2. \A n \in Nat : Pick(n)[n] \in X
  BY <1>1 DEF Approx
<1>3. g \in [Nat -> X]
  BY <1>2
<1>4. g[0] = s
  BY <1>1 DEF Approx
<1>5. ASSUME NEW i \in Nat PROVE g[i + 1] = F[g[i]]
  <2>1. i + 1 \in Nat /\ i < i + 1 /\ i <= i + 1
    OBVIOUS
  <2>2. Pick(i)[i] = Pick(i + 1)[i]
    BY <1>1, <2>1, ApproxAgree
  <2>3. Pick(i + 1)[i + 1] = F[Pick(i + 1)[i]]
    BY <1>1, <2>1 DEF Approx
  <2> QED BY <2>1, <2>2, <2>3
<1> HIDE DEF g
<1> QED BY <1>3, <1>4, <1>5

\* A set that only grows, by members of a finite set, stops growing in as many
\* steps as that has members.
LEMMA Stabilizes ==
    ASSUME NEW U, IsFiniteSet(U), NEW g,
           \A i, j \in Nat : g[i] = g[j] => g[i + 1] = g[j + 1],
           \A i \in Nat : g[i] \subseteq g[i + 1] /\ g[i + 1] \subseteq g[i] \cup U
    PROVE  /\ g[Cardinality(U) + 1] = g[Cardinality(U)]
           /\ \A i, j \in Nat : i <= j => g[i] \subseteq g[j]
<1> DEFINE N == Cardinality(U)
<1>0. N \in Nat
  BY FS_CardinalityType
<1>1. ASSUME NEW i \in Nat, NEW j \in Nat, i <= j PROVE g[i] \subseteq g[j]
  <2> DEFINE S == {k \in Nat : i <= k => g[i] \subseteq g[k]}
  <2>1. 0 \in S
    <3>1. i <= 0 => i = 0
      OBVIOUS
    <3> QED BY <3>1
  <2>2. ASSUME NEW k \in S PROVE k + 1 \in S
    <3>0. k \in Nat /\ k + 1 \in Nat
      OBVIOUS
    <3>1. i <= k + 1 => i <= k \/ i = k + 1
      BY <3>0
    <3>2. g[k] \subseteq g[k + 1]
      BY <3>0
    <3> QED BY <3>0, <3>1, <3>2
  <2> HIDE DEF S
  <2>3. S \in SUBSET Nat
    BY DEF S
  <2>4. j \in S
    BY <2>1, <2>2, <2>3, AllNumbers
  <2> QED BY <2>4, <1>1 DEF S
<1>2. ASSUME NEW i \in Nat, g[i + 1] = g[i], NEW j \in Nat, i <= j PROVE g[j + 1] = g[j]
  <2> DEFINE S == {k \in Nat : i <= k => g[k + 1] = g[k]}
  <2>1. 0 \in S
    <3>1. i <= 0 => i = 0
      OBVIOUS
    <3> QED BY <3>1, <1>2
  <2>2. ASSUME NEW k \in S PROVE k + 1 \in S
    <3>0. k \in Nat /\ k + 1 \in Nat
      OBVIOUS
    <3>1. i <= k + 1 => i <= k \/ i = k + 1
      BY <3>0
    <3>2. g[k + 1] = g[k] => g[(k + 1) + 1] = g[k + 1]
      BY <3>0
    <3>3. i <= k => g[k + 1] = g[k]
      OBVIOUS
    <3> QED BY <3>0, <3>1, <3>2, <3>3, <1>2
  <2> HIDE DEF S
  <2>3. S \in SUBSET Nat
    BY DEF S
  <2>4. j \in S
    BY <2>1, <2>2, <2>3, AllNumbers
  <2> QED BY <2>4, <1>2 DEF S
<1>3. ASSUME g[N + 1] # g[N] PROVE FALSE
  <2>1. \A i \in 0 .. N : g[i + 1] # g[i]
    BY <1>0, <1>2, <1>3
  <2>2. ASSUME NEW i \in 0 .. N PROVE \E x : x \in U /\ x \in g[i + 1] /\ x \notin g[i]
    <3>1. i \in Nat
      BY <1>0
    <3>2. g[i + 1] # g[i] /\ g[i] \subseteq g[i + 1] /\ g[i + 1] \subseteq g[i] \cup U
      BY <2>1, <3>1
    <3> QED BY <3>2, Zenon
  <2> DEFINE new == [i \in 0 .. N |-> CHOOSE x : x \in U /\ x \in g[i + 1] /\ x \notin g[i]]
  <2>3. \A i \in 0 .. N : new[i] \in U /\ new[i] \in g[i + 1] /\ new[i] \notin g[i]
    BY <2>2
  <2>4. new \in [0 .. N -> U]
    BY <2>3
  <2> HIDE DEF new
  <2>5. ASSUME NEW i \in 0 .. N, NEW j \in 0 .. N, i < j PROVE new[i] # new[j]
    <3>1. i + 1 \in Nat /\ j \in Nat /\ i + 1 <= j
      BY <2>5, <1>0
    <3>2. g[i + 1] \subseteq g[j]
      BY <1>1, <3>1
    <3> QED BY <2>3, <3>2
  <2>6. IsFiniteSet(0 .. N) /\ Cardinality(0 .. N) = N + 1
    <3>1. 0 \in Int /\ N \in Int /\ ~(0 > N)
      BY <1>0
    <3>2. IsFiniteSet(0 .. N) /\ Cardinality(0 .. N) = N - 0 + 1
      BY <3>1, FS_Interval
    <3> QED BY <1>0, <3>2
  <2>7. Cardinality(U) < Cardinality(0 .. N)
    BY <1>0, <2>6
  <2>8. PICK i, j \in 0 .. N : i # j /\ new[i] = new[j]
    <3> DEFINE D == 0 .. N
    <3>1. IsFiniteSet(D) /\ Cardinality(U) < Cardinality(D) /\ new \in [D -> U]
      BY <2>4, <2>6, <2>7
    <3> HIDE DEF D, N
    <3>2. \E i, j \in D : i # j /\ new[i] = new[j]
      BY <3>1, FS_PigeonHole
    <3> QED BY <3>2 DEF D
  <2>9. i < j \/ j < i
    BY <2>8, <1>0
  <2> QED BY <2>5, <2>8, <2>9
<1> QED BY <1>0, <1>1, <1>3
-----------------------------------------------------------------------------
(* What stays as it is while the graph does.                                *)

\* What depends on the drawing only does not change.
LEMMA SameGraph ==
    ASSUME graph' = graph
    PROVE  /\ Start' = Start
           /\ Flow' = Flow
           /\ \A n : Kind(n)' = Kind(n) /\ Executable(n)' = Executable(n)
           /\ \A n : Inbound(n)' = Inbound(n)
           /\ \A n : Swept(n)' = Swept(n)
<1>1. Flow' = Flow
  BY DEF Flow, Executable, Kind
<1>2. Start' = Start
  BY DEF Start, OfKind, Kind
<1>3. \A n : Kind(n)' = Kind(n) /\ Executable(n)' = Executable(n)
  BY DEF Executable, Kind
<1>4. \A n : Inbound(n)' = Inbound(n)
  BY <1>1 DEF Inbound
<1> QED BY <1>1, <1>2, <1>3, <1>4 DEF Swept

\* The meets depend on the drawing and on must only.
LEMMA SameMeets ==
    ASSUME graph' = graph, must' = must
    PROVE  /\ \A e : through(e)' = through(e)
           /\ \A n : Fixed(n)' = Fixed(n)
<1>1. \A e : through(e)' = through(e)
  BY DEF through
<1>2. \A n : Meet(n)' = Meet(n)
  BY DEF Meet, joinMeet, ordinaryMeet, Inbound, Flow, Executable, Kind, through
<1> QED BY <1>1, <1>2, SameGraph DEF Fixed

\* A meet holds nodes only.
LEMMA MeetType == \A n : Meet(n) \in SUBSET Nodes
  BY DEF Meet, joinMeet, ordinaryMeet

\* There are finitely many nodes.
LEMMA NodesFinite == IsFiniteSet(Nodes)
<1>1. IsFiniteSet(1 .. Len(Order)) /\ DOMAIN Order = 1 .. Len(Order)
  BY OrderAssumption, FS_Interval
<1>2. Order \in [DOMAIN Order -> Nodes] /\ \A n \in Nodes : \E i \in DOMAIN Order : Order[i] = n
  BY OrderAssumption DEF Nodes
<1>3. Order \in Surjection(DOMAIN Order, Nodes)
  BY <1>2 DEF Surjection
<1> QED BY <1>1, <1>3, FS_Surjection

\* Control flows between nodes of the drawing.
LEMMA FlowNodes == \A e \in Flow : e.from \in Nodes /\ e.to \in Nodes
  BY DEF Flow, Executable, Kind

\* What the search has found when it stops: what it began with, and all that
\* leads on to.
LEMMA ClosureFixed ==
    ASSUME NEW seed, NEW stop, NEW avoid
    PROVE  /\ seed \ avoid \subseteq Closure(seed, stop, avoid)
           /\ Closure(seed, stop, avoid) \subseteq seed \cup Nodes
           /\ \A e \in Flow : e.from \in Closure(seed, stop, avoid) /\ e.from \notin stop /\ e.to \notin avoid
                             => e.to \in Closure(seed, stop, avoid)
<1> DEFINE Step(S) == S \cup ({e.to : e \in {f \in Flow : f.from \in S \ stop}} \ avoid)
           Def(f) == [i \in Nat |-> IF i = 0 THEN seed \ avoid ELSE UNION {Step(S) : S \in {f[i - 1]}}]
           G == CHOOSE f : f = Def(f)
           X == SUBSET (seed \cup Nodes)
           F == [S \in X |-> Step(S)]
<1>1. Closure(seed, stop, avoid) = G[Cardinality(Nodes)]
  BY DEF Closure
<1>2. \A S \in X : Step(S) \in X
  BY FlowNodes
<1>3. F \in [X -> X]
  BY <1>2
<1>4. seed \ avoid \in X
  OBVIOUS
<1>x. \A S \in X : F[S] = Step(S)
  OBVIOUS
<1>u. \A S : UNION {Step(T) : T \in {S}} = Step(S)
  OBVIOUS
<1>s. \A S \in X : S \subseteq Step(S) /\ Step(S) \subseteq S \cup Nodes
  BY FlowNodes
<1>c. \A S : \A e \in Flow : e.from \in S /\ e.from \notin stop /\ e.to \notin avoid => e.to \in Step(S)
  OBVIOUS
<1> HIDE DEF Step, X, F
<1>5. \E f : f = Def(f)
  <2>1. PICK g \in [Nat -> X] : g[0] = seed \ avoid /\ \A i \in Nat : g[i + 1] = F[g[i]]
    BY <1>3, <1>4, Iterates
  <2>2. ASSUME NEW i \in Nat PROVE g[i] = Def(g)[i]
    <3>1. CASE i = 0
      BY <2>1, <3>1
    <3>2. CASE i # 0
      <4>1. i - 1 \in Nat /\ (i - 1) + 1 = i
        BY <3>2
      <4>2. g[i] = Step(g[i - 1])
        BY <4>1, <2>1, <1>x
      <4>3. Def(g)[i] = UNION {Step(S) : S \in {g[i - 1]}}
        BY <3>2
      <4> QED BY <4>2, <4>3, <1>u
    <3> QED BY <3>1, <3>2
  <2>3. g = [i \in Nat |-> g[i]]
    BY <2>1
  <2>4. g = Def(g)
    BY <2>2, <2>3
  <2> QED BY <2>4
<1>6. G = Def(G)
  <2> HIDE DEF Def
  <2> QED BY <1>5
<1> HIDE DEF G
<1>7. G[0] = seed \ avoid
  BY <1>6
<1>8. ASSUME NEW i \in Nat PROVE G[i + 1] = Step(G[i])
  <2>1. i + 1 \in Nat /\ i + 1 # 0 /\ (i + 1) - 1 = i
    OBVIOUS
  <2>2. Def(G)[i + 1] = UNION {Step(S) : S \in {G[i]}}
    BY <2>1
  <2>3. G[i + 1] = Def(G)[i + 1]
    BY <1>6
  <2> QED BY <2>2, <2>3, <1>u
<1>9. \A i \in Nat : G[i] \in X
  <2> DEFINE S == {i \in Nat : G[i] \in X}
  <2>1. 0 \in S
    BY <1>7, <1>4
  <2>2. ASSUME NEW i \in S PROVE i + 1 \in S
    <3>1. i \in Nat /\ i + 1 \in Nat /\ G[i] \in X
      OBVIOUS
    <3>2. G[i + 1] \in X
      BY <3>1, <1>8, <1>2
    <3> QED BY <3>1, <3>2
  <2>3. S \in SUBSET Nat
    OBVIOUS
  <2> HIDE DEF S
  <2>4. S = Nat
    BY <2>1, <2>2, <2>3, AllNumbers
  <2> QED BY <2>4 DEF S
<1>12. \A i \in Nat : G[i] \subseteq G[i + 1] /\ G[i + 1] \subseteq G[i] \cup Nodes
  <2> SUFFICES ASSUME NEW i \in Nat PROVE G[i] \subseteq G[i + 1] /\ G[i + 1] \subseteq G[i] \cup Nodes
    OBVIOUS
  <2>1. G[i] \in X /\ G[i + 1] = Step(G[i])
    BY <1>8, <1>9
  <2> QED BY <2>1, <1>s, Zenon
<1> DEFINE N == Cardinality(Nodes)
<1>13. N \in Nat
  BY NodesFinite, FS_CardinalityType
<1>14. G[N + 1] = G[N] /\ \A i, j \in Nat : i <= j => G[i] \subseteq G[j]
  <2>1. \A i, j \in Nat : G[i] = G[j] => G[i + 1] = G[j + 1]
    BY <1>8
  <2> HIDE DEF Def
  <2> QED BY <2>1, <1>12, NodesFinite, Stabilizes
<1> HIDE DEF N
<1>15. Step(G[N]) = G[N]
  BY <1>8, <1>13, <1>14
<1>16. G[0] \subseteq G[N]
  <2>1. 0 \in Nat /\ 0 <= N
    BY <1>13
  <2> QED BY <1>13, <1>14, <2>1
<1>17. G[N] \subseteq seed \cup Nodes
  BY <1>13, <1>9 DEF X
<1>18. Closure(seed, stop, avoid) = G[N]
  BY <1>1 DEF N
<1> QED BY <1>7, <1>15, <1>16, <1>17, <1>18, <1>c

\* When startNode answers "", checkStart has reported it.
LEMMA NoStart ==
    ASSUME Start = NoNode
    PROVE  OfKind("start") = {} \/ Cardinality(OfKind("start")) > 1
<1>1. IsFiniteSet(OfKind("start"))
  BY NodesFinite, FS_Subset DEF OfKind
<1>2. Cardinality(OfKind("start")) \in Nat
  BY <1>1, FS_CardinalityType
<1>3. Cardinality(OfKind("start")) = 0 <=> OfKind("start") = {}
  BY <1>1, FS_EmptySet
<1>4. Cardinality(OfKind("start")) = 1 => OfKind("start") # {}
  BY <1>3
<1>5. OfKind("start") # {} => (CHOOSE n \in OfKind("start") : TRUE) \in Nodes
  BY DEF OfKind
<1>6. Cardinality(OfKind("start")) # 1
  BY <1>4, <1>5, OrderAssumption DEF Start
<1> QED BY <1>2, <1>3, <1>6

\* A Start that startNode answers is a node.
LEMMA StartIsNode == Start = NoNode \/ Start \in Nodes
<1>1. IsFiniteSet(OfKind("start"))
  BY NodesFinite, FS_Subset DEF OfKind
<1>2. Cardinality(OfKind("start")) = 1 => OfKind("start") # {}
  BY <1>1, FS_EmptySet
<1> QED BY <1>2 DEF Start, OfKind

-----------------------------------------------------------------------------
(* The parts of the invariant under the steps that leave them alone.        *)

\* No step of the checks touches the run.
LEMMA RunIdle ==
    ASSUME IInv, graph' = graph, UNCHANGED runVars, pc # "running", pc' # "running"
    PROVE  RunInv'
  BY SMT DEF IInv, RunInv, Promised, runVars

\* A step that keeps the sets of mustHaveRun keeps them settled.
LEMMA SettledStays ==
    ASSUME IInv, graph' = graph, must' = must, pc \in Settled, pc' \in Settled
    PROVE  SweepInv'
<1>1. Start' = Start
  BY SameGraph
<1>2. pc' # "sweep" /\ pc # "sweep"
  BY DEF Settled
<1>3. \A n : Fixed(n)' = Fixed(n)
  BY SameMeets
<1>4. Start # NoNode => must[Start] = {} /\ \A n \in Nodes : Fixed(n)
  BY DEF IInv, SweepInv
<1> QED BY <1>1, <1>2, <1>3, <1>4 DEF SweepInv

\* Once a graph is not runnable, no diagnostic makes it so.
LEMMA StartStays ==
    ASSUME IInv, graph' = graph, pc # "structure", diag \subseteq diag',
           pc' \in {"running", "ended"} => pc \in {"running", "ended"}
    PROVE  StartInv'
<1>1. Start' = Start
  BY SameGraph
<1>2. ~Runnable => ~Runnable'
  BY DEF Runnable
<1> QED BY <1>1, <1>2 DEF IInv, StartInv

-----------------------------------------------------------------------------
(* The checks.                                                              *)

\* Before validation there is nothing to show.
LEMMA InitIInv == Init => IInv
<1> SUFFICES ASSUME Init PROVE IInv
  OBVIOUS
<1>1. TypeInv
  <2>1. must \in [Nodes -> SUBSET Nodes] /\ at \in Nat \ {0}
    BY DEF Init
  <2>2. changed \in BOOLEAN
    BY DEF Init
  <2> QED BY <2>1, <2>2 DEF TypeInv
<1>2. StartInv
  BY DEF Init, StartInv
<1>3. SweepInv
  BY DEF Init, SweepInv, Settled
<1>4. RunInv
  BY DEF Init, RunInv, Promised
<1> QED BY <1>1, <1>2, <1>3, <1>4 DEF IInv

\* A drawing without just one Start is refused by the first check.
LEMMA StructureIInv == IInv /\ CheckStructure => IInv'
<1> SUFFICES ASSUME IInv, CheckStructure PROVE IInv'
  OBVIOUS
<1>0. graph' = graph /\ pc = "structure" /\ pc' = "terminals" /\ UNCHANGED <<must, at, changed, runVars>>
  BY DEF CheckStructure
<1>1. TypeInv'
  BY <1>0 DEF IInv, TypeInv
<1>2. StartInv'
  <2>1. Start' = Start
    BY <1>0, SameGraph
  <2>2. ASSUME Start = NoNode PROVE ~Runnable'
    <3>1. OfKind("start") = {} \/ Cardinality(OfKind("start")) > 1
      BY <2>2, NoStart
    <3>2. "start.missing" \in diag' \/ "start.multiple" \in diag'
      BY <3>1 DEF CheckStructure, If
    <3> QED BY <3>2 DEF Runnable
  <2> QED BY <1>0, <2>1, <2>2 DEF StartInv
<1>3. SweepInv'
  BY <1>0 DEF SweepInv, Settled
<1>4. RunInv'
  BY <1>0, RunIdle
<1> QED BY <1>1, <1>2, <1>3, <1>4 DEF IInv

\* The check of terminals touches no set.
LEMMA TerminalsIInv == IInv /\ CheckTerminalPlacement => IInv'
<1> SUFFICES ASSUME IInv, CheckTerminalPlacement PROVE IInv'
  OBVIOUS
<1>0. /\ graph' = graph /\ pc = "terminals" /\ pc' = "joins" /\ UNCHANGED <<must, at, changed, runVars>>
      /\ diag \subseteq diag'
  BY DEF CheckTerminalPlacement
<1>1. TypeInv'
  BY <1>0 DEF IInv, TypeInv
<1>2. StartInv'
  BY <1>0, StartStays
<1>3. SweepInv'
  BY <1>0 DEF SweepInv, Settled
<1>4. RunInv'
  BY <1>0, RunIdle
<1> QED BY <1>1, <1>2, <1>3, <1>4 DEF IInv

\* The sweep begins with every set full but Start's.
LEMMA JoinsIInv == IInv /\ CheckParallelJoins => IInv'
<1> SUFFICES ASSUME IInv, CheckParallelJoins PROVE IInv'
  OBVIOUS
<1>0. /\ graph' = graph /\ pc = "joins" /\ UNCHANGED runVars
      /\ at' = 1 /\ changed' = FALSE /\ diag \subseteq diag'
      /\ pc' = IF Start = NoNode THEN "data" ELSE "sweep"
      /\ must' = [n \in Nodes |-> IF n = Start THEN {} ELSE {m \in Nodes : Executable(m)}]
  BY DEF CheckParallelJoins
<1>1. TypeInv'
  <2>1. must' \in [Nodes -> SUBSET Nodes] /\ at' \in Nat \ {0}
    BY <1>0
  <2>2. changed' \in BOOLEAN
    BY <1>0
  <2> QED BY <2>1, <2>2 DEF TypeInv
<1>2. StartInv'
  BY <1>0, StartStays
<1>3. SweepInv'
  <2>1. Start' = Start
    BY <1>0, SameGraph
  <2>2. Start # NoNode => must'[Start] = {}
    BY <1>0, StartIsNode
  <2>3. \A i \in DOMAIN Order : ~(i < at')
    BY <1>0, OrderAssumption
  <2> QED BY <1>0, <2>1, <2>2, <2>3 DEF SweepInv, Settled
<1>4. RunInv'
  BY <1>0, RunIdle
<1> QED BY <1>1, <1>2, <1>3, <1>4 DEF IInv

-----------------------------------------------------------------------------
(* The sweep.                                                               *)

\* A visit fixes the node it visits, or notes that something changed.
LEMMA VisitIInv == IInv /\ Visit => IInv'
<1> SUFFICES ASSUME IInv, Visit PROVE IInv'
  OBVIOUS
<1>0. /\ graph' = graph /\ pc = "sweep" /\ pc' = "sweep" /\ UNCHANGED <<diag, runVars>>
      /\ at \in DOMAIN Order /\ at' = at + 1
  BY DEF Visit
<1> DEFINE n == Order[at]
<1>n. n \in Nodes
  BY <1>0 DEF Nodes
<1>i. TypeInv /\ SweepInv
  BY DEF IInv
<1>s. Start' = Start /\ Start # NoNode /\ Start \in Nodes
  BY <1>0, <1>i, SameGraph, StartIsNode DEF SweepInv
<1>2. StartInv'
  BY <1>0, StartStays
<1>4. RunInv'
  BY <1>0, RunIdle
<1>5. CASE Swept(n) /\ Meet(n) # must[n]
  <2>1. must' = [must EXCEPT ![n] = Meet(n)] /\ changed' = TRUE
    BY <1>5 DEF Visit
  <2>2. must' \in [Nodes -> SUBSET Nodes]
    <3>1. Meet(n) \in SUBSET Nodes
      BY MeetType
    <3>2. must \in [Nodes -> SUBSET Nodes]
      BY <1>i DEF TypeInv
    <3> HIDE DEF n
    <3> QED BY <2>1, <3>1, <3>2
  <2>3. TypeInv'
    <3>1. at' \in Nat \ {0}
      BY <1>0, <1>i DEF TypeInv
    <3>2. changed' \in BOOLEAN
      BY <2>1
    <3> QED BY <2>2, <3>1, <3>2 DEF TypeInv
  <2>4. n # Start
    BY <1>5 DEF Swept
  <2>5. must'[Start] = {}
    BY <2>1, <2>4, <1>i, <1>s, <1>0 DEF SweepInv, TypeInv
  <2>6. SweepInv'
    BY <2>5, <2>1, <1>0, <1>s DEF SweepInv, Settled
  <2> QED BY <2>3, <2>6, <1>2, <1>4 DEF IInv
<1>6. CASE ~(Swept(n) /\ Meet(n) # must[n])
  <2>1. must' = must /\ changed' = changed
    BY <1>6 DEF Visit
  <2>2. TypeInv'
    BY <2>1, <1>0, <1>i DEF TypeInv
  <2>3. Fixed(n)
    BY <1>6 DEF Fixed
  <2>4. \A m : Fixed(m)' = Fixed(m)
    BY <1>0, <2>1, SameMeets
  <2>5. ASSUME ~changed, NEW i \in DOMAIN Order, i < at'
        PROVE  Fixed(Order[i])
    <3>1. i < at \/ i = at
      BY <2>5, <1>0, <1>i, OrderAssumption DEF TypeInv
    <3>2. i < at => Fixed(Order[i])
      BY <2>5, <1>0, <1>i DEF SweepInv
    <3> QED BY <3>1, <3>2, <2>3
  <2>6. must'[Start] = {}
    BY <2>1, <1>0, <1>i, <1>s DEF SweepInv
  <2>7. SweepInv'
    <3>1. ~changed' => \A i \in DOMAIN Order : i < at' => Fixed(Order[i])'
      BY <2>1, <2>4, <2>5
    <3> QED BY <3>1, <2>6, <1>0, <1>s DEF SweepInv, Settled
  <2> QED BY <2>2, <2>7, <1>2, <1>4 DEF IInv
<1> QED BY <1>5, <1>6

\* A pass that changed nothing leaves a fixed point.
LEMMA EndPassIInv == IInv /\ EndPass => IInv'
<1> SUFFICES ASSUME IInv, EndPass PROVE IInv'
  OBVIOUS
<1>0. /\ graph' = graph /\ must' = must /\ pc = "sweep" /\ UNCHANGED <<diag, runVars>>
      /\ at \notin DOMAIN Order /\ at' = 1 /\ changed' = FALSE
      /\ pc' = IF changed THEN "sweep" ELSE "data"
  BY DEF EndPass
<1>i. TypeInv /\ SweepInv
  BY DEF IInv
<1>1. TypeInv'
  <2>1. changed' \in BOOLEAN
    BY <1>0
  <2>2. at' \in Nat \ {0}
    BY <1>0
  <2> QED BY <2>1, <2>2, <1>0, <1>i DEF TypeInv
<1>2. StartInv'
  BY <1>0, StartStays
<1>3. SweepInv'
  <2>1. Start' = Start /\ Start # NoNode
    BY <1>0, <1>i, SameGraph DEF SweepInv
  <2>2. \A m : Fixed(m)' = Fixed(m)
    BY <1>0, SameMeets
  <2>3. must'[Start] = {}
    BY <2>1, <1>0, <1>i DEF SweepInv
  <2>4. CASE changed
    <3>1. \A i \in DOMAIN Order : ~(i < at')
      BY <1>0, OrderAssumption
    <3> QED BY <3>1, <2>4, <2>1, <2>3, <1>0 DEF SweepInv, Settled
  <2>5. CASE ~changed
    <3>1. \A i \in DOMAIN Order : i < at
      BY <1>0, <1>i, OrderAssumption DEF TypeInv
    <3>2. \A i \in DOMAIN Order : Fixed(Order[i])
      BY <3>1, <2>5, <1>0, <1>i DEF SweepInv
    <3>3. \A n \in Nodes : Fixed(n)
      BY <3>2 DEF Nodes
    <3> QED BY <3>3, <2>5, <2>1, <2>2, <2>3, <1>0 DEF SweepInv, Settled
  <2> QED BY <2>4, <2>5
<1>4. RunInv'
  BY <1>0, RunIdle
<1> QED BY <1>1, <1>2, <1>3, <1>4 DEF IInv

-----------------------------------------------------------------------------
(* The data edge.                                                           *)

\* The checks of the data edge touch no set.
LEMMA DataIInv == IInv /\ (CheckAvailability \/ ScopeStep \/ CheckTypes) => IInv'
<1> SUFFICES ASSUME IInv, CheckAvailability \/ ScopeStep \/ CheckTypes PROVE IInv'
  OBVIOUS
<1>0. /\ graph' = graph /\ must' = must /\ at' = at /\ changed' = changed /\ UNCHANGED runVars
      /\ diag \subseteq diag'
      /\ pc \in {"data", "scope", "types"} /\ pc' \in {"scope", "types", "verdict"}
  <2>1. CASE CheckAvailability
    BY <2>1 DEF CheckAvailability
  <2>2. CASE ScopeStep
    BY <2>2 DEF ScopeStep
  <2>3. CASE CheckTypes
    BY <2>3 DEF CheckTypes
  <2> QED BY <2>1, <2>2, <2>3
<1>1. TypeInv'
  BY <1>0 DEF IInv, TypeInv
<1>2. StartInv'
  BY <1>0, StartStays
<1>3. SweepInv'
  BY <1>0, SettledStays DEF Settled
<1>4. RunInv'
  BY <1>0, RunIdle
<1> QED BY <1>1, <1>2, <1>3, <1>4 DEF IInv

-----------------------------------------------------------------------------
(* The run.                                                                 *)

\* A run begins with nothing promised.
LEMMA BeginIInv == IInv /\ Begin => IInv'
<1> SUFFICES ASSUME IInv, Begin PROVE IInv'
  OBVIOUS
<1>0. /\ graph' = graph /\ must' = must /\ at' = at /\ changed' = changed /\ diag' = diag
      /\ pc = "verdict" /\ pc' = "running" /\ Runnable
      /\ running' = {Start} /\ UNCHANGED <<tokens, poison, failing, open, ran, failed, joinError>>
  BY DEF Begin, checkVars
<1>1. TypeInv'
  BY <1>0 DEF IInv, TypeInv
<1>2. Start \in Nodes /\ Start # NoNode
  BY <1>0, StartIsNode, OrderAssumption DEF IInv, StartInv
<1>3. StartInv'
  BY <1>0, <1>2, SameGraph, OrderAssumption DEF StartInv
<1>4. SweepInv'
  BY <1>0, SettledStays DEF Settled
<1>5. RunInv'
  <2>1. must[Start] = {}
    BY <1>0, <1>2 DEF IInv, SweepInv, Settled
  <2>2. tokens = {} /\ poison = {} /\ failing = {} /\ open = {} /\ (~failed => ~joinError)
    BY <1>0 DEF IInv, RunInv
  <2> QED BY <1>0, <1>2, <2>1, <2>2 DEF RunInv, Promised
<1> QED BY <1>1, <1>3, <1>4, <1>5 DEF IInv

\* What a step of a run other than Stop keeps.
LEMMA RunningKeeps ==
    ASSUME IInv, UNCHANGED checkVars, pc = "running", pc' \in {"running", "ended"}
    PROVE  /\ TypeInv' /\ StartInv' /\ SweepInv'
           /\ Flow' = Flow /\ must' = must
           /\ \A e : through(e)' = through(e)
<1>0. graph' = graph /\ must' = must /\ at' = at /\ changed' = changed /\ diag' = diag
  BY DEF checkVars
<1>1. TypeInv'
  BY <1>0 DEF IInv, TypeInv
<1>2. StartInv'
  BY <1>0, StartStays
<1>3. SweepInv'
  BY <1>0, SettledStays DEF Settled
<1> QED BY <1>0, <1>1, <1>2, <1>3, SameGraph, SameMeets

\* What a node entered by these tokens has in its set, one of them promises.
LEMMA EntryFrom ==
    ASSUME IInv, pc = "running", NEW n \in Nodes, NEW A \in Arrivals(n), A # {}
    PROVE  /\ A \subseteq tokens
           /\ \A e \in A : e.to = n
           /\ \A m \in must[n] : \E e \in A : m \in through(e)
<1>1. A \subseteq tokens /\ \A e \in A : e.to = n
  BY DEF Arrivals
<1>2. \A e \in A : e \in Inbound(n)
  BY <1>1 DEF IInv, RunInv, Inbound
<1>3. Start # NoNode /\ must[Start] = {} /\ Fixed(n)
  BY OrderAssumption DEF IInv, StartInv, SweepInv, Settled
<1>4. CASE n = Start
  BY <1>1, <1>3, <1>4
<1>5. CASE n # Start
  <2>1. Executable(n) /\ Inbound(n) # {}
    BY <1>2 DEF Inbound, Flow
  <2>2. must[n] = Meet(n)
    BY <1>3, <1>5, <2>1 DEF Fixed, Swept
  <2>3. CASE Kind(n) = "join"
    <3>1. {e.in : e \in A} = {e.in : e \in Inbound(n)}
      BY <2>3 DEF Arrivals
    <3>2. ASSUME NEW m \in joinMeet(n) PROVE \E e \in A : m \in through(e)
      <4>1. PICK port \in {e.in : e \in Inbound(n)} :
              \A e \in Inbound(n) : e.in = port => m \in through(e)
        BY DEF joinMeet
      <4>2. PICK e \in A : e.in = port
        BY <3>1, <4>1
      <4> QED BY <1>2, <4>1, <4>2
    <3> QED BY <1>1, <2>2, <2>3, <3>2 DEF Meet
  <2>4. CASE Kind(n) # "join"
    <3>1. PICK e \in A : TRUE
      OBVIOUS
    <3>2. ordinaryMeet(n) \subseteq through(e)
      BY <1>2, <3>1 DEF ordinaryMeet
    <3> QED BY <1>1, <2>2, <2>4, <3>1, <3>2 DEF Meet
  <2> QED BY <2>3, <2>4
<1> QED BY <1>4, <1>5

\* The heart of the matter: whatever a node was entered by, its set has run,
\* unless one of the tokens says that a branch failed.
LEMMA EntryGuaranteed ==
    ASSUME IInv, pc = "running", NEW n \in Nodes, NEW A \in Arrivals(n), A # {}, A \cap poison = {}, ~joinError
    PROVE  must[n] \subseteq ran
<1>1. A \subseteq tokens /\ \A m \in must[n] : \E e \in A : m \in through(e)
  BY EntryFrom
<1>2. \A e \in tokens \ poison : through(e) \subseteq ran
  BY DEF IInv, RunInv, Promised
<1> QED BY <1>1, <1>2

\* A node that has run hands its promise on to the edges it puts tokens on.
LEMMA TokensPromise ==
    ASSUME NEW n, NEW S \in SUBSET {e \in Flow : e.from = n}, NEW R,
           must[n] \subseteq R, n \in R
    PROVE  \A e \in S : through(e) \subseteq R
  BY DEF through

\* A step of a run at one node.
RunStep(n) ==
    \/ Enter(n)
    \/ \E port \in Outs(Kind(n)) : Leave(n, port)
    \/ Fork(n) \/ OpenLoop(n) \/ Item(n) \/ Done(n) \/ Break(n)
    \/ Fail(n) \/ Catch(n) \/ SkipItem(n) \/ AbortLoop(n)
    \/ SendPoison(n) \/ CancelSiblings(n) \/ AbortRun(n)
    \/ Stop(n)

\* The ways an error is dealt with short of ending the run.
Handled(n) == SkipItem(n) \/ AbortLoop(n) \/ SendPoison(n) \/ CancelSiblings(n)

\* What they have in common: control is taken away, poison is sent to joins and
\* an open loop may fail.  Poison takes a Parallel.
LEMMA Handles ==
    ASSUME NEW n, Handled(n)
    PROVE  \E gone, sent, raised :
              /\ Resolve(n, gone, sent, raised)
              /\ pc = "running" /\ n \in failing
              /\ raised \subseteq open
              /\ sent \subseteq Flow /\ \A e \in sent : Kind(e.to) = "join"
              /\ \/ OfKind("parallel") # {}
                 \/ /\ sent = {}
                    /\ \E l \in open : raised = {} \/ (raised = {l} /\ gone = Body(l))
<1>0. pc = "running" /\ n \in failing
  BY DEF Handled, SkipItem, AbortLoop, SendPoison, CancelSiblings, Unhandled
<1>1. CASE SkipItem(n)
  <2>1. PICK l \in Iterating(n) : Resolve(n, IF Serial THEN Body(l) ELSE {}, {}, {})
    BY <1>1 DEF SkipItem
  <2>2. l \in open
    BY <2>1 DEF Iterating
  <2> QED BY <1>0, <2>1, <2>2
<1>2. CASE AbortLoop(n)
  <2>1. PICK l \in Iterating(n) : Resolve(n, Body(l), {}, {l})
    BY <1>2 DEF AbortLoop
  <2>2. l \in open
    BY <2>1 DEF Iterating
  <2> QED BY <1>0, <2>1, <2>2
<1>j. \A p, port : \A e \in Exits(p, port) : e \in Flow /\ Kind(e.to) = "join"
  BY DEF Exits, SharedJoins, OfKind
<1>3. CASE SendPoison(n)
  <2>1. PICK p \in OfKind("parallel"), port \in Branches : \E e \in Exits(p, port) : Resolve(n, {}, {e}, {})
    BY <1>3 DEF SendPoison
  <2>2. PICK e \in Exits(p, port) : Resolve(n, {}, {e}, {})
    BY <2>1
  <2> QED BY <1>0, <1>j, <2>1, <2>2
<1>4. CASE CancelSiblings(n)
  <2>1. PICK p \in OfKind("parallel"), port \in Branches, other \in Branches :
          \E e \in Exits(p, port), f \in Exits(p, other) :
              Resolve(n, Branch(p, other) \ Branch(p, port), {e, f}, {})
    BY <1>4 DEF CancelSiblings
  <2>2. PICK e \in Exits(p, port), f \in Exits(p, other) :
          Resolve(n, Branch(p, other) \ Branch(p, port), {e, f}, {})
    BY <2>1
  <2> QED BY <1>0, <1>j, <2>1, <2>2
<1> QED BY <1>1, <1>2, <1>3, <1>4 DEF Handled

\* A run leaves alone what the checks found.
LEMMA StepFrame ==
    ASSUME NEW n, RunStep(n)
    PROVE  UNCHANGED checkVars /\ pc = "running" /\ pc' \in {"running", "ended"}
<1>1. CASE Handled(n)
  BY <1>1, Handles DEF Resolve
<1>2. CASE AbortRun(n) \/ Stop(n)
  BY <1>2 DEF AbortRun, Stop, End, Unhandled
<1>3. CASE ~Handled(n) /\ ~AbortRun(n) /\ ~Stop(n)
  BY <1>3 DEF RunStep, Handled, Enter, Leave, Fork, OpenLoop, Item, Done, Break, Fail, Catch
<1> QED BY <1>1, <1>2, <1>3

\* It is enough to say what a step may have added.
LEMMA Adds ==
    ASSUME IInv, NEW n, NEW S \in SUBSET {e \in Flow : e.from = n},
           pc' = "running", UNCHANGED checkVars, Flow' = Flow, \A e : through(e)' = through(e),
           tokens' \subseteq Flow, poison' \subseteq tokens',
           \A e \in tokens' \ poison' : e \in tokens \ poison \/ e \in S,
           \A e \in poison' : Kind(e.to) = "join",
           ran \subseteq ran',
           running' \cup failing' \cup open' \subseteq Nodes,
           open' \cup failing' \subseteq ran',
           ~joinError' => /\ ~joinError
                          /\ S # {} => n \in ran' /\ must[n] \subseteq ran'
                          /\ \A m \in running' \cup open' : m \in running \cup open \/ must[m] \subseteq ran'
                          /\ \A m \in failing' : \/ m \in failing \cup running \cup open
                                                 \/ Kind(m) = "join" \/ must[m] \subseteq ran',
           ~failed' => failing' = {} /\ poison' = {} /\ ~joinError'
    PROVE  RunInv'
<1>k. must' = must /\ \A m : Kind(m)' = Kind(m)
  BY SameGraph DEF checkVars
<1>1. ASSUME ~joinError' PROVE Promised'
  <2>1. Promised /\ ~joinError
    BY <1>1 DEF IInv, RunInv
  <2>2. \A e \in tokens' \ poison' : through(e) \subseteq ran'
    <3>1. \A e \in S : through(e) \subseteq ran'
      BY <1>1, TokensPromise
    <3>2. \A e \in tokens \ poison : through(e) \subseteq ran'
      BY <2>1 DEF Promised
    <3> QED BY <3>1, <3>2
  <2>3. \A m \in running' \cup open' : must[m] \subseteq ran'
    BY <1>1, <2>1 DEF Promised
  <2>4. \A m \in failing' : Kind(m) = "join" \/ must[m] \subseteq ran'
    BY <1>1, <2>1 DEF Promised
  <2> QED BY <1>k, <2>2, <2>3, <2>4 DEF Promised
<1>2. \A e \in poison' : Kind(e.to)' = "join"
  BY <1>k
<1>3. ~failed' => failing' = {} /\ poison' = {} /\ ~joinError'
  OBVIOUS
<1> QED BY <1>1, <1>2, <1>3 DEF RunInv

\* The same for a step that makes no new promise.
LEMMA AddsNothing ==
    ASSUME IInv, pc' = "running", UNCHANGED checkVars, Flow' = Flow, \A e : through(e)' = through(e),
           tokens' \subseteq Flow, poison' \subseteq tokens',
           \A e \in tokens' \ poison' : e \in tokens \ poison,
           \A e \in poison' : Kind(e.to) = "join",
           ran \subseteq ran',
           running' \cup failing' \cup open' \subseteq Nodes,
           open' \cup failing' \subseteq ran',
           ~joinError' => ~joinError,
           \A m \in running' \cup open' : m \in running \cup open,
           \A m \in failing' : m \in failing \cup running \cup open \/ Kind(m) = "join",
           ~failed' => failing' = {} /\ poison' = {} /\ ~joinError'
    PROVE  RunInv'
<1>k. must' = must /\ \A m : Kind(m)' = Kind(m)
  BY SameGraph DEF checkVars
<1>1. ASSUME ~joinError' PROVE Promised'
  <2>1. Promised
    BY <1>1 DEF IInv, RunInv
  <2>2. \A e \in tokens' \ poison' : through(e) \subseteq ran'
    BY <2>1 DEF Promised
  <2>3. \A m \in running' \cup open' : must[m] \subseteq ran'
    BY <2>1 DEF Promised
  <2>4. \A m \in failing' : Kind(m) = "join" \/ must[m] \subseteq ran'
    BY <2>1 DEF Promised
  <2> QED BY <1>k, <2>2, <2>3, <2>4 DEF Promised
<1>2. \A e \in poison' : Kind(e.to)' = "join"
  BY <1>k
<1>3. ~failed' => failing' = {} /\ poison' = {} /\ ~joinError'
  OBVIOUS
<1> QED BY <1>1, <1>2, <1>3 DEF RunInv

\* A step of a run keeps what is promised.
LEMMA StepIInv ==
    ASSUME IInv, NEW n \in Nodes, RunStep(n)
    PROVE  IInv'
<1>0. UNCHANGED checkVars /\ pc = "running" /\ pc' \in {"running", "ended"}
  BY StepFrame
<1>1. TypeInv' /\ StartInv' /\ SweepInv' /\ Flow' = Flow /\ must' = must
      /\ \A e : through(e)' = through(e)
  BY <1>0, RunningKeeps
<1>r. /\ tokens \subseteq Flow /\ poison \subseteq tokens /\ (\A e \in poison : Kind(e.to) = "join")
      /\ running \cup failing \cup open \subseteq Nodes /\ open \cup failing \subseteq ran
      /\ (~failed => failing = {} /\ poison = {} /\ ~joinError)
      /\ ~joinError => \A m \in running \cup open : must[m] \subseteq ran
  BY DEF IInv, RunInv, Promised
<1> DEFINE From == {e \in Flow : e.from = n}
<1>w. \A port : Wired(n, port) \in SUBSET From
  BY DEF Wired
<1> SUFFICES RunInv'
  BY <1>1 DEF IInv
<1> HIDE DEF From
<1>2. CASE Enter(n)
  <2>1. PICK A \in Arrivals(n) :
          /\ A # {} /\ tokens' = tokens \ A /\ poison' = poison \ A
          /\ \/ A \cap poison = {} /\ running' = running \cup {n} /\ UNCHANGED <<failing, ran>>
             \/ A \cap poison # {} /\ failing' = failing \cup {n} /\ ran' = ran \cup {n} /\ running' = running
    BY <1>2 DEF Enter
  <2>2. open' = open /\ pc' = "running" /\ failed' = failed /\ joinError' = joinError
    BY <1>2, <1>0 DEF Enter
  <2>3. A \subseteq tokens /\ \A e \in A : e.to = n
    BY DEF Arrivals
  <2>4. A \cap poison # {} => Kind(n) = "join"
    BY <1>r, <2>3
  <2>5. A \cap poison = {} /\ ~joinError => must[n] \subseteq ran
    BY <1>0, <2>1, EntryGuaranteed
  <2>6. {} \in SUBSET From
    OBVIOUS
  <2>7. CASE A \cap poison = {}
    BY <1>0, <1>1, <1>r, <2>1, <2>2, <2>5, <2>6, <2>7, Adds DEF From
  <2>8. CASE A \cap poison # {}
    <3>1. failed
      BY <1>r, <2>8
    <3>2. failing' = failing \cup {n} /\ ran' = ran \cup {n} /\ running' = running
      BY <2>1, <2>8
    <3>3. ~failed' => failing' = {} /\ poison' = {} /\ ~joinError'
      BY <2>2, <3>1
    <3>4. /\ tokens' \subseteq Flow /\ poison' \subseteq tokens' /\ (\A e \in poison' : Kind(e.to) = "join")
          /\ \A e \in tokens' \ poison' : e \in tokens \ poison
      BY <1>r, <2>1
    <3>5. running' \cup failing' \cup open' \subseteq Nodes /\ open' \cup failing' \subseteq ran' /\ ran \subseteq ran'
      BY <1>r, <2>2, <3>2
    <3>6. /\ ~joinError' => ~joinError
          /\ \A m \in running' \cup open' : m \in running \cup open
          /\ \A m \in failing' : m \in failing \cup running \cup open \/ Kind(m) = "join"
      BY <2>2, <2>4, <2>8, <3>2
    <3> QED BY <1>0, <1>1, <2>2, <3>3, <3>4, <3>5, <3>6, AddsNothing
  <2> QED BY <2>7, <2>8
<1>3. CASE \E port \in Outs(Kind(n)) : Leave(n, port)
  <2>1. PICK port : Leave(n, port)
    BY <1>3
  <2>2. /\ n \in running /\ tokens' = tokens \cup Wired(n, port) /\ running' = running \ {n}
        /\ ran' = ran \cup {n} /\ pc' = "running"
        /\ UNCHANGED <<poison, failing, open, failed, joinError>>
    BY <1>0, <2>1 DEF Leave
  <2> QED BY <1>0, <1>1, <1>r, <1>w, <2>2, Adds DEF From
<1>4. CASE Fork(n)
  <2> DEFINE S == UNION {Wired(n, port) : port \in Outs("parallel")}
  <2>1. S \in SUBSET From
    BY <1>w
  <2>2. /\ n \in running /\ tokens' = tokens \cup S /\ running' = running \ {n}
        /\ ran' = ran \cup {n} /\ pc' = "running"
        /\ UNCHANGED <<poison, failing, open, failed, joinError>>
    BY <1>0, <1>4 DEF Fork
  <2> HIDE DEF S
  <2> QED BY <1>0, <1>1, <1>r, <2>1, <2>2, Adds DEF From
<1>5. CASE OpenLoop(n)
  <2>1. /\ n \in running /\ tokens' = tokens /\ running' = running \ {n} /\ open' = open \cup {n}
        /\ ran' = ran \cup {n} /\ pc' = "running" /\ UNCHANGED <<poison, failing, failed, joinError>>
    BY <1>0, <1>5 DEF OpenLoop
  <2>2. {} \in SUBSET From
    OBVIOUS
  <2> QED BY <1>0, <1>1, <1>r, <2>1, <2>2, Adds DEF From
<1>6. CASE Item(n) \/ Done(n)
  <2>1. PICK port \in {"body", "done"} : tokens' = tokens \cup Wired(n, port)
    BY <1>6 DEF Item, Done
  <2>2. /\ n \in open /\ running' = running /\ open' \subseteq open /\ ran' = ran /\ pc' = "running"
        /\ UNCHANGED <<poison, failing, failed, joinError>>
    BY <1>0, <1>6 DEF Item, Done
  <2> QED BY <1>0, <1>1, <1>r, <1>w, <2>1, <2>2, Adds DEF From
<1>7. CASE Break(n) \/ Fail(n)
  <2>1. /\ n \in running /\ tokens' = tokens /\ running' = running \ {n} /\ failing' \subseteq failing \cup {n}
        /\ ran' = ran \cup {n} /\ pc' = "running" /\ UNCHANGED <<poison, open, joinError>>
    BY <1>0, <1>7 DEF Break, Fail
  <2>2. {} \in SUBSET From
    OBVIOUS
  <2>3. ~failed' => ~failed /\ failing' = failing
    BY <1>7 DEF Break, Fail
  <2>4. ~failed' => failing' = {} /\ poison' = {} /\ ~joinError'
    BY <1>r, <2>1, <2>3
  <2> QED BY <1>0, <1>1, <1>r, <2>1, <2>2, <2>4, Adds DEF From
<1>8. CASE Catch(n)
  <2>1. /\ n \in failing /\ tokens' = tokens \cup Wired(n, ErrorPort) /\ failing' = failing \ {n}
        /\ (~joinError' => ~joinError /\ Kind(n) # "join")
        /\ pc' = "running" /\ UNCHANGED <<poison, running, open, ran, failed>>
    BY <1>0, <1>8 DEF Catch
  <2>2. failed
    BY <1>r, <2>1
  <2>3. ~joinError' => n \in ran /\ must[n] \subseteq ran
    BY <1>r, <2>1 DEF IInv, RunInv, Promised
  <2> QED BY <1>0, <1>1, <1>r, <1>w, <2>1, <2>2, <2>3, Adds DEF From
<1>9. CASE Handled(n)
  <2>1. PICK gone, sent, raised :
          /\ Resolve(n, gone, sent, raised)
          /\ n \in failing
          /\ raised \subseteq open
          /\ sent \subseteq Flow /\ \A e \in sent : Kind(e.to) = "join"
    BY <1>9, Handles
  <2>2. /\ tokens' = {e \in tokens : e.to \notin gone} \cup sent
        /\ poison' = {e \in poison : e.to \notin gone} \cup sent
        /\ running' = running \ gone /\ open' = open \ (gone \cup raised)
        /\ failing' = (failing \ (gone \cup {n})) \cup raised
        /\ pc' = "running" /\ UNCHANGED <<ran, failed, joinError>>
    BY <1>0, <2>1 DEF Resolve
  <2>3. failed
    BY <1>r, <2>1
  <2>5. tokens' \subseteq Flow /\ poison' \subseteq tokens' /\ \A e \in poison' : Kind(e.to) = "join"
    BY <1>r, <2>1, <2>2
  <2>6. \A e \in tokens' \ poison' : e \in tokens \ poison
    BY <1>r, <2>2
  <2>7. /\ running' \cup failing' \cup open' \subseteq Nodes /\ open' \cup failing' \subseteq ran'
        /\ (\A m \in running' \cup open' : m \in running \cup open)
        /\ \A m \in failing' : m \in failing \cup running \cup open
    BY <1>r, <2>1, <2>2
  <2>8. ran \subseteq ran' /\ (~joinError' => ~joinError) /\ pc' = "running"
    BY <2>2
  <2>9. ~failed' => failing' = {} /\ poison' = {} /\ ~joinError'
    BY <2>2, <2>3
  <2> QED BY <1>0, <1>1, <2>5, <2>6, <2>7, <2>8, <2>9, AddsNothing
<1>10. CASE AbortRun(n) \/ Stop(n)
  <2>1. /\ tokens' = {} /\ poison' = {} /\ running' = {} /\ failing' = {} /\ open' = {}
        /\ failed' = failed /\ joinError' = joinError
    BY <1>10 DEF AbortRun, Stop, End
  <2>2. ~failed => ~joinError
    BY <1>r
  <2> QED BY <2>1, <2>2 DEF RunInv, Promised
<1> QED BY <1>2, <1>3, <1>4, <1>5, <1>6, <1>7, <1>8, <1>9, <1>10 DEF RunStep, Handled

-----------------------------------------------------------------------------
\* Every step keeps the invariant.
LEMMA NextIInv == IInv /\ [Next]_vars => IInv'
<1> SUFFICES ASSUME IInv, [Next]_vars PROVE IInv'
  OBVIOUS
<1>1. CASE Validate
  BY <1>1, StructureIInv, TerminalsIInv, JoinsIInv, VisitIInv, EndPassIInv, DataIInv DEF Validate
<1>2. CASE Run
  BY <1>2, BeginIInv, StepIInv DEF Run, RunStep
<1>3. CASE UNCHANGED vars
  <2>1. /\ graph' = graph /\ must' = must /\ at' = at /\ changed' = changed /\ diag' = diag /\ pc' = pc
        /\ tokens' = tokens /\ poison' = poison /\ running' = running /\ failing' = failing /\ open' = open
        /\ ran' = ran /\ failed' = failed /\ joinError' = joinError
    BY <1>3 DEF vars
  <2>2. /\ Start' = Start /\ Flow' = Flow /\ (\A n : Fixed(n)' = Fixed(n)) /\ (\A n : Kind(n)' = Kind(n))
        /\ \A e : through(e)' = through(e)
    BY <2>1, SameGraph, SameMeets
  <2>3. TypeInv' /\ StartInv'
    BY <2>1, <2>2 DEF IInv, TypeInv, StartInv, Runnable
  <2>4. SweepInv'
    BY <2>1, <2>2 DEF IInv, SweepInv
  <2>5. RunInv'
    BY <2>1, <2>2 DEF IInv, RunInv, Promised
  <2> QED BY <2>3, <2>4, <2>5 DEF IInv
<1> QED BY <1>1, <1>2, <1>3 DEF Next

\* mustHaveRun is what its comment says (flow.go:142-152), for every graph and
\* every run of it: when a node is entered, the nodes of its set have executed,
\* as long as no join has left by its error port.
THEOREM MustHaveRunSound == Spec => []AvailabilitySound
<1>1. IInv => AvailabilitySound
  BY DEF IInv, RunInv, Promised, AvailabilitySound
<1> QED BY InitIInv, NextIInv, <1>1, PTL DEF Spec

-----------------------------------------------------------------------------
(* The whole run.                                                           *)

\* The searches depend on the drawing only.
LEMMA SameRegions ==
    ASSUME graph' = graph
    PROVE  /\ \A seed, stop, avoid : Closure(seed, stop, avoid)' = Closure(seed, stop, avoid)
           /\ \A l : Region(l)' = Region(l)
           /\ Loops' = Loops
           /\ \A k : OfKind(k)' = OfKind(k)
<1>1. Flow' = Flow
  BY SameGraph
<1>2. ASSUME NEW seed, NEW stop, NEW avoid
      PROVE  Closure(seed, stop, avoid)' = Closure(seed, stop, avoid)
  BY <1>1 DEF Closure
<1>3. \A l : Region(l)' = Region(l)
  BY DEF Region, reachableFromPort, Closure, Entered, Flow, Executable, Kind
<1>4. \A k : OfKind(k)' = OfKind(k)
  BY DEF OfKind, Kind
<1> QED BY <1>2, <1>3, <1>4 DEF Loops

Closed(S) == \A e \in Flow : e.from \in S => e.to \in S
Leads(m, n) == \A S \in SUBSET Nodes : m \in S /\ Closed(S) => n \in S

\* A loop's body leads nowhere but into the body.
LEMMA RegionClosed ==
    ASSUME NEW l
    PROVE  /\ \A e \in Flow : e.from \in Region(l) => e.to \in Region(l)
           /\ \A e \in Wired(l, "body") : e.to \in Region(l)
<1>1. \A e \in Flow : e.from \in Region(l) => e.to \in Region(l)
  BY ClosureFixed DEF Region, reachableFromPort
<1>2. Entered(l, "body") \subseteq Region(l)
  BY ClosureFixed DEF Region, reachableFromPort
<1>3. \A e \in Wired(l, "body") : e.to \in Entered(l, "body")
  BY DEF Wired, Entered, Flow
<1> QED BY <1>1, <1>2, <1>3

\* What leads out of a body's node is in the body.
LEMMA LeadsInto ==
    ASSUME NEW l, NEW m \in Nodes, NEW n, Leads(m, n), m \in Region(l)
    PROVE  n \in Region(l)
<1> DEFINE S == Region(l) \cap Nodes
<1>1. S \in SUBSET Nodes /\ m \in S
  OBVIOUS
<1>2. Closed(S)
  BY RegionClosed, FlowNodes DEF Closed
<1>3. n \in S
  BY <1>1, <1>2 DEF Leads
<1> QED BY <1>3

\* An edge leads on.
LEMMA LeadsOn ==
    ASSUME NEW e \in Flow
    PROVE  /\ Leads(e.from, e.to)
           /\ \A m : Leads(m, e.from) => Leads(m, e.to)
  BY DEF Leads, Closed

\* What leads where depends on the drawing only.
LEMMA SameLeads ==
    ASSUME graph' = graph
    PROVE  \A m, n : Leads(m, n)' = Leads(m, n)
<1>1. Flow' = Flow
  BY SameGraph
<1>2. \A S : Closed(S)' = Closed(S)
  BY <1>1 DEF Closed
<1> QED BY <1>2 DEF Leads
-----------------------------------------------------------------------------
(* What each half of the specification leaves alone.                        *)

\* The checks do not touch the graph or the run, and after the first of them
\* only add to what is reported.
LEMMA ValidateFrame ==
    ASSUME Validate
    PROVE  /\ graph' = graph
           /\ tokens' = tokens /\ poison' = poison /\ running' = running /\ failing' = failing /\ open' = open
           /\ items' = items /\ ran' = ran /\ value' = value /\ sockets' = sockets
           /\ failed' = failed /\ joinError' = joinError
           /\ pc \in {"structure", "terminals", "joins", "sweep", "data", "scope", "types"}
           /\ pc' \in {"terminals", "joins", "sweep", "data", "scope", "types", "verdict"}
           /\ pc = "structure" \/ diag \subseteq diag'
           /\ pc = "structure" => pc' = "terminals"
           /\ pc = "terminals" => CheckTerminalPlacement
           /\ pc # "terminals" => scope' = scope
           /\ pc \in {"scope", "types"} => pc' \in {"scope", "types", "verdict"}
<1>1. CASE CheckStructure
  BY <1>1 DEF CheckStructure, runVars
<1>2. CASE CheckTerminalPlacement
  BY <1>2 DEF CheckTerminalPlacement, runVars
<1>3. CASE CheckParallelJoins
  BY <1>3 DEF CheckParallelJoins, runVars
<1>4. CASE Visit
  BY <1>4 DEF Visit, runVars
<1>5. CASE EndPass
  BY <1>5 DEF EndPass, runVars
<1>6. CASE CheckAvailability
  BY <1>6 DEF CheckAvailability, runVars
<1>7. CASE ScopeStep
  BY <1>7 DEF ScopeStep, runVars
<1>8. CASE CheckTypes
  BY <1>8 DEF CheckTypes, runVars
<1> QED BY <1>1, <1>2, <1>3, <1>4, <1>5, <1>6, <1>7, <1>8 DEF Validate

\* The run does not touch what the checks found.
LEMMA RunFrame ==
    ASSUME Run
    PROVE  /\ graph' = graph /\ diag' = diag /\ scope' = scope /\ must' = must
           /\ at' = at /\ changed' = changed /\ walk' = walk
           /\ pc \in {"verdict", "running"} /\ pc' \in {"running", "ended"}
           /\ Begin \/ (pc = "running" /\ \E n \in Nodes : RunStep(n))
<1>1. CASE Begin
  BY <1>1 DEF Begin, checkVars
<1>2. ASSUME NEW n \in Nodes, RunStep(n)
      PROVE  UNCHANGED checkVars /\ pc = "running" /\ pc' \in {"running", "ended"}
  BY <1>2, StepFrame
<1>3. CASE \E n \in Nodes : RunStep(n)
  BY <1>2, <1>3 DEF checkVars
<1> QED BY <1>1, <1>3 DEF Run, RunStep

-----------------------------------------------------------------------------
(* Loop scopes.                                                             *)

\* computeLoopScopes gives a node a loop it is in the body of, if there is one.
LEMMA ScopesAre ==
    ASSUME NEW region, NEW s \in LoopScopes(region)
    PROVE  /\ s \in [Nodes -> Loops \cup {NoNode}]
           /\ \A n \in Nodes : (\E l \in Loops : n \in region[l]) => s[n] \in Loops /\ n \in region[s[n]]
           /\ \A n \in Nodes : (\A l \in Loops : n \notin region[l]) => s[n] = NoNode
           /\ \A n \in Nodes : \A l \in Loops :
                n \in region[l] => Cardinality(region[s[n]]) <= Cardinality(region[l])
<1> DEFINE Around(n) == {l \in Loops : n \in region[l]}
           Innermost(n) == {l \in Around(n) :
                              \A m \in Around(n) : Cardinality(region[l]) <= Cardinality(region[m])}
           inside == UNION {region[l] : l \in Loops}
<1>1. PICK pick \in [inside -> Loops] :
        /\ \A n \in inside : pick[n] \in Innermost(n)
        /\ s = [n \in Nodes |-> IF n \in inside THEN pick[n] ELSE NoNode]
  BY DEF LoopScopes
<1>2. \A n : n \in inside <=> \E l \in Loops : n \in region[l]
  OBVIOUS
<1>3. \A n \in inside : pick[n] \in Loops /\ n \in region[pick[n]]
  BY <1>1
<1>4. \A n \in inside : \A l \in Loops : n \in region[l] => Cardinality(region[pick[n]]) <= Cardinality(region[l])
  BY <1>1
<1> HIDE DEF inside, Innermost, Around
<1>5. \A n \in Nodes : s[n] = IF n \in inside THEN pick[n] ELSE NoNode
  BY <1>1
<1>6. ASSUME NEW n \in Nodes, NEW l \in Loops, n \in region[l]
      PROVE  Cardinality(region[s[n]]) <= Cardinality(region[l])
  BY <1>2, <1>4, <1>5, <1>6
<1>7. s \in [Nodes -> Loops \cup {NoNode}]
  BY <1>1, <1>3
<1> QED BY <1>2, <1>3, <1>5, <1>6, <1>7

\* A loop is a node.
LEMMA LoopsNodes == Loops \subseteq Nodes /\ NoNode \notin Loops
  BY OrderAssumption DEF Loops, OfKind

-----------------------------------------------------------------------------
(* Types.                                                                   *)

\* Types, at first.
LEMMA InitTypeOK == Init => TypeOK
<1> SUFFICES ASSUME Init PROVE TypeOK
  OBVIOUS
<1>1. failed \in BOOLEAN /\ joinError \in BOOLEAN /\ changed \in BOOLEAN
  BY DEF Init
<1>2. scope \in [Nodes -> Nodes \cup {NoNode}] /\ walk \in Nodes \cup {NoNode} /\ must \in [Nodes -> SUBSET Nodes]
  BY DEF Init
<1>3. at \in 1 .. Len(Order) + 1
  <2>1. Len(Order) \in Nat
    BY OrderAssumption
  <2> QED BY <2>1 DEF Init
<1>4. items \in [Nodes -> 0 .. MaxItems]
  BY OrderAssumption DEF Init
<1> QED BY <1>1, <1>2, <1>3, <1>4 DEF Init, TypeOK

\* The checks keep the types.
LEMMA ValidateTypes ==
    ASSUME TypeOK, IInv', Validate
    PROVE  TypeOK'
<1>f. /\ graph' = graph
      /\ tokens' = tokens /\ poison' = poison /\ running' = running /\ failing' = failing /\ open' = open
      /\ items' = items /\ ran' = ran /\ value' = value /\ sockets' = sockets
      /\ failed' = failed /\ joinError' = joinError
      /\ pc' \in {"terminals", "joins", "sweep", "data", "scope", "types", "verdict"}
  BY ValidateFrame
<1>1. scope' \in [Nodes -> Nodes \cup {NoNode}]
  <2>1. CASE pc = "terminals"
    <3>1. PICK region : scope' \in LoopScopes(region)
      BY <2>1, ValidateFrame DEF CheckTerminalPlacement
    <3>2. scope' \in [Nodes -> Loops \cup {NoNode}]
      BY <3>1, ScopesAre
    <3> QED BY <3>2, LoopsNodes
  <2>2. CASE pc # "terminals"
    BY <2>2, ValidateFrame DEF TypeOK
  <2> QED BY <2>1, <2>2
<1>2. at' \in 1 .. Len(Order) + 1
  <2>1. Len(Order) \in Nat /\ DOMAIN Order = 1 .. Len(Order)
    BY OrderAssumption
  <2>2. CASE CheckParallelJoins \/ EndPass
    BY <2>1, <2>2 DEF CheckParallelJoins, EndPass
  <2>3. CASE Visit
    BY <2>1, <2>3 DEF Visit
  <2>4. CASE CheckStructure \/ CheckTerminalPlacement \/ CheckAvailability \/ ScopeStep \/ CheckTypes
    BY <2>4 DEF TypeOK, CheckStructure, CheckTerminalPlacement, CheckAvailability, ScopeStep, CheckTypes
  <2> QED BY <2>2, <2>3, <2>4 DEF Validate
<1>3. walk' \in Nodes \cup {NoNode}
  <2>1. CASE CheckAvailability
    <3>1. Resolved(Data.to) => Data.to \in Nodes
      BY DEF Resolved, Kind
    <3>2. walk' = walk \/ (Resolved(Data.to) /\ walk' = scope[Data.to])
      BY <2>1 DEF CheckAvailability
    <3> QED BY <3>1, <3>2 DEF TypeOK
  <2>2. CASE ScopeStep
    <3>1. walk' = walk \/ (walk # NoNode /\ walk' = scope[walk])
      BY <2>2 DEF ScopeStep
    <3> QED BY <3>1 DEF TypeOK
  <2>3. CASE CheckStructure \/ CheckTerminalPlacement \/ CheckParallelJoins \/ Visit \/ EndPass \/ CheckTypes
    BY <2>3 DEF TypeOK, CheckStructure, CheckTerminalPlacement, CheckParallelJoins, Visit, EndPass, CheckTypes
  <2> QED BY <2>1, <2>2, <2>3 DEF Validate
<1>4. must' \in [Nodes -> SUBSET Nodes] /\ tokens' \subseteq Flow' /\ poison' \subseteq tokens'
  BY DEF IInv, TypeInv, RunInv
<1>5. changed' \in BOOLEAN
  BY DEF IInv, TypeInv
<1> QED BY <1>f, <1>1, <1>2, <1>3, <1>4, <1>5 DEF TypeOK

\* A run keeps the types.
LEMMA RunTypes ==
    ASSUME TypeOK, IInv', Run
    PROVE  TypeOK'
<1>f. /\ graph' = graph /\ scope' = scope /\ at' = at /\ walk' = walk /\ pc' \in {"running", "ended"}
  BY RunFrame
<1>4. /\ must' \in [Nodes -> SUBSET Nodes]
      /\ tokens' \subseteq Flow' /\ poison' \subseteq tokens'
      /\ running' \cup failing' \cup open' \subseteq Nodes
  BY DEF IInv, TypeInv, RunInv
<1>5. changed' \in BOOLEAN
  BY DEF IInv, TypeInv
<1>h. ASSUME NEW n \in Nodes, Handled(n) \/ AbortRun(n) \/ Stop(n)
      PROVE  UNCHANGED <<items, ran, value, sockets, failed, joinError>>
  <2>1. CASE Handled(n)
    BY <2>1, Handles DEF Resolve
  <2>2. CASE AbortRun(n) \/ Stop(n)
    BY <2>2 DEF AbortRun, Stop, End
  <2> QED BY <1>h, <2>1, <2>2
<1>o. ASSUME NEW n \in Nodes, RunStep(n), ~(Handled(n) \/ AbortRun(n) \/ Stop(n))
      PROVE  \/ Enter(n) \/ (\E port \in Outs(Kind(n)) : Leave(n, port)) \/ Fork(n) \/ OpenLoop(n)
             \/ Item(n) \/ Done(n) \/ Break(n) \/ Fail(n) \/ Catch(n)
  BY <1>o DEF RunStep, Handled
<1>6. ran' \cup value' \subseteq Nodes
  <2>1. ASSUME NEW n \in Nodes, RunStep(n) PROVE ran' \cup value' \subseteq Nodes
    <3>1. ran' \subseteq ran \cup {n} /\ value' \subseteq value \cup {n} \cup OfKind("collect")
      <4>1. CASE Handled(n) \/ AbortRun(n) \/ Stop(n)
        BY <1>h, <4>1
      <4>2. CASE ~(Handled(n) \/ AbortRun(n) \/ Stop(n))
        BY <1>o, <2>1, <4>2 DEF Enter, Leave, Fork, OpenLoop, Item, Done, Kept, Break, Fail, Catch
      <4> QED BY <4>1, <4>2
    <3> QED BY <3>1 DEF TypeOK, OfKind
  <2>2. CASE Begin
    BY <2>2 DEF Begin, TypeOK
  <2> QED BY <2>1, <2>2, RunFrame
<1>7. items' \in [Nodes -> 0 .. MaxItems]
  <2>0. items \in [Nodes -> 0 .. MaxItems] /\ MaxItems \in Nat
    BY OrderAssumption DEF TypeOK
  <2>1. ASSUME NEW n \in Nodes, RunStep(n) PROVE items' \in [Nodes -> 0 .. MaxItems]
    <3>1. CASE OpenLoop(n)
      BY <2>0, <3>1 DEF OpenLoop
    <3>2. CASE Item(n)
      <4>1. items' = [items EXCEPT ![n] = items[n] - 1] /\ items[n] > 0
        BY <3>2 DEF Item
      <4>2. items[n] - 1 \in 0 .. MaxItems
        BY <2>0, <4>1
      <4> QED BY <2>0, <4>1, <4>2
    <3>3. CASE Break(n)
      BY <2>0, <3>3 DEF Break
    <3>4. CASE Enter(n) \/ (\E port \in Outs(Kind(n)) : Leave(n, port)) \/ Fork(n) \/ Done(n) \/ Fail(n) \/ Catch(n)
      BY <2>0, <3>4 DEF Enter, Leave, Fork, Done, Fail, Catch
    <3>5. CASE Handled(n) \/ AbortRun(n) \/ Stop(n)
      BY <1>h, <2>0, <3>5
    <3> QED BY <1>o, <2>1, <3>1, <3>2, <3>3, <3>4, <3>5
  <2>2. CASE Begin
    BY <2>0, <2>2 DEF Begin
  <2> QED BY <2>1, <2>2, RunFrame
<1>8. failed' \in BOOLEAN /\ joinError' \in BOOLEAN
  <2>0. failed \in BOOLEAN /\ joinError \in BOOLEAN
    BY DEF TypeOK
  <2>1. ASSUME NEW n \in Nodes, RunStep(n) PROVE failed' \in BOOLEAN /\ joinError' \in BOOLEAN
    <3>1. CASE Fail(n)
      BY <2>0, <3>1, Zenon DEF Fail
    <3>2. CASE Catch(n)
      BY <2>0, <3>2, Zenon DEF Catch
    <3>3. CASE Handled(n) \/ AbortRun(n) \/ Stop(n)
      BY <1>h, <2>0, <3>3
    <3>4. CASE Enter(n) \/ (\E port \in Outs(Kind(n)) : Leave(n, port)) \/ Fork(n) \/ OpenLoop(n)
               \/ Item(n) \/ Done(n) \/ Break(n)
      <4>1. failed' = failed /\ joinError' = joinError
        BY <3>4 DEF Enter, Leave, Fork, OpenLoop, Item, Done, Break
      <4> QED BY <2>0, <4>1
    <3> QED BY <1>o, <2>1, <3>1, <3>2, <3>3, <3>4
  <2>2. Begin => failed' = failed /\ joinError' = joinError
    BY DEF Begin
  <2> QED BY <2>0, <2>1, <2>2, RunFrame
<1>9. sockets' \subseteq Nodes \X {"item", "failedCount"}
  <2>0. sockets \subseteq Nodes \X {"item", "failedCount"}
    BY DEF TypeOK
  <2>1. ASSUME NEW n \in Nodes, RunStep(n) PROVE sockets' \subseteq Nodes \X {"item", "failedCount"}
    <3>1. <<n, "item">> \in Nodes \X {"item", "failedCount"} /\ <<n, "failedCount">> \in Nodes \X {"item", "failedCount"}
      OBVIOUS
    <3>2. sockets' \subseteq sockets \cup {<<n, "item">>, <<n, "failedCount">>}
      <4>1. CASE Handled(n) \/ AbortRun(n) \/ Stop(n)
        BY <1>h, <4>1
      <4>2. CASE ~(Handled(n) \/ AbortRun(n) \/ Stop(n))
        BY <1>o, <2>1, <4>2 DEF Enter, Leave, Fork, OpenLoop, Item, Done, KeptSockets, Break, Fail, Catch
      <4> QED BY <4>1, <4>2
    <3> QED BY <2>0, <3>1, <3>2
  <2>2. Begin => sockets' = sockets
    BY DEF Begin
  <2> QED BY <2>0, <2>1, <2>2, RunFrame
<1> QED BY <1>f, <1>4, <1>5, <1>6, <1>7, <1>8, <1>9 DEF TypeOK

-----------------------------------------------------------------------------
(* What the verdict says of the drawing.                                    *)

\* A runnable drawing has a type for each node, and one edge from each port.
PortInv ==
    /\ pc # "structure" /\ Runnable =>
         /\ OfKind("missing") = {}
         /\ \A e, f \in graph.control : e.from = f.from /\ e.out = f.out => e = f
    /\ pc \in {"running", "ended"} => Runnable

\* Each node's scope is an innermost loop around it, and no terminal has one.
ScopeInv ==
    pc \notin {"structure", "terminals"} =>
        /\ \A n \in Nodes : scope[n] = NoNode => \A l \in Loops : n \notin Region(l)
        /\ \A n \in Nodes : scope[n] # NoNode => scope[n] \in Loops /\ n \in Region(scope[n])
        /\ \A n \in Nodes : \A l \in Loops :
             n \in Region(l) => Cardinality(Region(scope[n])) <= Cardinality(Region(l))
        /\ Runnable => \A n \in OfKind("end") \cup OfKind("fail") : scope[n] = NoNode

\* Later checks only add to the diagnostics.
LEMMA PortStep ==
    ASSUME PortInv, Next
    PROVE  PortInv'
<1>1. CASE Validate
  <2>f. graph' = graph /\ pc' \notin {"structure", "running", "ended"} /\ (pc = "structure" \/ diag \subseteq diag')
    BY <1>1, ValidateFrame
  <2>1. CASE pc = "structure"
    <3>1. CheckStructure
      BY <1>1, <2>1 DEF Validate, CheckTerminalPlacement, CheckParallelJoins, Visit, EndPass,
                        CheckAvailability, ScopeStep, CheckTypes
    <3>2. If(OfKind("missing") # {}, "type.missing") \subseteq diag' /\ ArityErrors \subseteq diag'
      BY <3>1 DEF CheckStructure
    <3>3. ASSUME Runnable'
          PROVE  "type.missing" \notin diag' /\ "arity.controlOut" \notin diag'
      BY <3>3 DEF Runnable
    <3>4. Runnable' => OfKind("missing") = {}
      BY <3>2, <3>3 DEF If
    <3>5. Runnable' => \A e, f \in graph.control : e.from = f.from /\ e.out = f.out => e = f
      BY <3>2, <3>3 DEF If, ArityErrors
    <3>6. OfKind("missing")' = OfKind("missing")
      BY <2>f, SameRegions
    <3> QED BY <2>f, <3>4, <3>5, <3>6 DEF PortInv
  <2>2. CASE pc # "structure"
    <3>1. Runnable' => Runnable
      BY <2>f, <2>2 DEF Runnable
    <3>2. OfKind("missing")' = OfKind("missing")
      BY <2>f, SameRegions
    <3> QED BY <2>f, <2>2, <3>1, <3>2 DEF PortInv
  <2> QED BY <2>1, <2>2
<1>2. CASE Run
  <2>f. graph' = graph /\ diag' = diag /\ pc \in {"verdict", "running"}
    BY <1>2, RunFrame
  <2>1. Runnable /\ Runnable'
    <3>1. CASE Begin
      BY <3>1, <2>f DEF Begin, Runnable
    <3>2. CASE pc = "running"
      BY <3>2, <2>f DEF PortInv, Runnable
    <3> QED BY <3>1, <3>2, <1>2, RunFrame
  <2>2. OfKind("missing")' = OfKind("missing")
    BY <2>f, SameRegions
  <2> QED BY <2>f, <2>1, <2>2 DEF PortInv
<1> QED BY <1>1, <1>2 DEF Next

\* The scopes are set once, by the check of terminals.
LEMMA ScopeInvStep ==
    ASSUME ScopeInv, Next
    PROVE  ScopeInv'
<1>g. graph' = graph
  BY ValidateFrame, RunFrame DEF Next
<1>s. Loops' = Loops /\ (\A l : Region(l)' = Region(l)) /\ \A k : OfKind(k)' = OfKind(k)
  BY <1>g, SameRegions
<1>1. CASE CheckTerminalPlacement
  <2> DEFINE region == [l \in Loops |-> Region(l)]
  <2>1. scope' \in LoopScopes(region) /\ diag' = diag \cup TerminalErrors(scope')
    BY <1>1 DEF CheckTerminalPlacement
  <2>2. \A l \in Loops : region[l] = Region(l)
    OBVIOUS
  <2> HIDE DEF region
  <2>3. /\ scope' \in [Nodes -> Loops \cup {NoNode}]
        /\ \A n \in Nodes : (\E l \in Loops : n \in region[l]) => scope'[n] \in Loops /\ n \in region[scope'[n]]
        /\ \A n \in Nodes : (\A l \in Loops : n \notin region[l]) => scope'[n] = NoNode
        /\ \A n \in Nodes : \A l \in Loops :
             n \in region[l] => Cardinality(region[scope'[n]]) <= Cardinality(region[l])
    BY <2>1, ScopesAre
  <2>4. \A n \in Nodes : scope'[n] = NoNode => \A l \in Loops : n \notin Region(l)
    BY <2>2, <2>3, LoopsNodes
  <2>5. \A n \in Nodes : scope'[n] # NoNode => scope'[n] \in Loops /\ n \in Region(scope'[n])
    BY <2>2, <2>3
  <2>6. ASSUME Runnable', NEW n \in OfKind("end") \cup OfKind("fail") PROVE scope'[n] = NoNode
    <3>1. "terminal.inLoop" \notin diag'
      BY <2>6 DEF Runnable
    <3> QED BY <2>1, <3>1 DEF TerminalErrors, If
  <2>7. ASSUME NEW n \in Nodes, NEW l \in Loops, n \in Region(l)
        PROVE  Cardinality(Region(scope'[n])) <= Cardinality(Region(l))
    <3>1. scope'[n] \in Loops /\ n \in region[l]
      BY <2>2, <2>3, <2>7
    <3>2. region[l] = Region(l) /\ region[scope'[n]] = Region(scope'[n])
      BY <2>2, <3>1
    <3>3. Cardinality(region[scope'[n]]) <= Cardinality(region[l])
      BY <2>3, <3>1
    <3> QED BY <3>2, <3>3
  <2> QED BY <2>4, <2>5, <2>6, <2>7, <1>s DEF ScopeInv
<1>2. CASE ~CheckTerminalPlacement
  <2>1. scope' = scope /\ (pc = "structure" => pc' = "terminals") /\ pc # "terminals"
        /\ (pc = "structure" \/ diag \subseteq diag')
    BY <1>2, ValidateFrame, RunFrame DEF Next
  <2>2. CASE pc = "structure"
    BY <2>1, <2>2 DEF ScopeInv
  <2>3. CASE pc # "structure"
    <3>1. Runnable' => Runnable
      BY <2>1, <2>3 DEF Runnable
    <3> QED BY <1>s, <2>1, <2>3, <3>1 DEF ScopeInv
  <2> QED BY <2>2, <2>3
<1> QED BY <1>1, <1>2

-----------------------------------------------------------------------------
(* One point of control.                                                    *)

\* There is one token, or one node being executed, or one error looking for its
\* handler, at most.
One ==
    /\ \A e, f \in tokens : e = f
    /\ \A m, n \in running \cup failing : m = n
    /\ tokens = {} \/ running \cup failing = {}
    /\ running = {} \/ failing = {}

\* Control is in a loop's body.
Within(l) == running \cup failing \subseteq Region(l) /\ \A e \in tokens : e.to \in Region(l)

\* Without a Parallel, and with one item at a time, there is one point of control;
\* it is in the body of every open loop, and of two open loops one is in the body
\* of the other.
SingleInv ==
    /\ open \subseteq Loops
    /\ \A n \in running : Executable(n)
    /\ OfKind("parallel") = {} /\ Serial =>
         /\ One
         /\ \A l \in open : Within(l)
         /\ \A l, m \in open : l = m \/ l \in Region(m) \/ m \in Region(l)

\* Without a Parallel, whatever the loops run at once is in the outermost of them.
RootInv ==
    OfKind("parallel") = {} =>
        \/ open = {} /\ One
        \/ \E o \in Loops : Within(o) /\ open \subseteq Region(o) \cup {o}

\* A step that puts tokens on one port's edges when there are none.
LEMMA OneToken ==
    ASSUME PortInv, pc = "running", NEW n, NEW port
    PROVE  \A e, f \in Wired(n, port) : e = f
<1>1. Runnable
  BY DEF PortInv
<1> QED BY <1>1 DEF PortInv, Wired, Flow

\* Most steps move one point of control, or take some away.
LEMMA PlainStep ==
    ASSUME IInv, PortInv, NEW n \in Nodes, RunStep(n), OfKind("parallel") = {},
           ~OpenLoop(n), ~Item(n), ~Done(n), ~AbortLoop(n)
    PROVE  /\ open' \subseteq open
           /\ One => One'
           /\ \A l : Within(l) => Within(l)'
<1>0. pc = "running" /\ graph' = graph
  BY StepFrame DEF checkVars
<1>s. \A l : Region(l)' = Region(l)
  BY <1>0, SameRegions
<1>r. \A l : \A e \in Flow : e.from \in Region(l) => e.to \in Region(l)
  BY RegionClosed
<1>w. \A port : (\A e, f \in Wired(n, port) : e = f) /\ \A e \in Wired(n, port) : e \in Flow /\ e.from = n
  BY <1>0, OneToken DEF Wired
<1>1. CASE Enter(n)
  <2>1. PICK A \in Arrivals(n) : A # {} /\ tokens' = tokens \ A
    BY <1>1 DEF Enter
  <2>2. /\ open' = open
        /\ \/ running' = running \cup {n} /\ failing' = failing
           \/ running' = running /\ failing' = failing \cup {n}
    BY <1>1 DEF Enter
  <2>3. A \subseteq tokens /\ \A e \in A : e.to = n
    BY DEF Arrivals
  <2>4. ASSUME One PROVE One'
    <3>1. running = {} /\ failing = {} /\ tokens' = {}
      BY <2>1, <2>3, <2>4 DEF One
    <3> QED BY <2>2, <3>1 DEF One
  <2>5. ASSUME NEW l, Within(l) PROVE Within(l)'
    <3>1. n \in Region(l)
      BY <2>1, <2>3, <2>5 DEF Within
    <3>2. running' \cup failing' \subseteq Region(l)
      BY <2>2, <2>5, <3>1 DEF Within
    <3> QED BY <1>s, <2>1, <2>5, <3>2 DEF Within
  <2> QED BY <2>2, <2>4, <2>5
<1>2. CASE (\E port \in Outs(Kind(n)) : Leave(n, port)) \/ Catch(n)
  <2>1. PICK port : tokens' = tokens \cup Wired(n, port)
    BY <1>2 DEF Leave, Catch
  <2>2. /\ open' = open
        /\ \/ n \in running /\ running' = running \ {n} /\ failing' = failing
           \/ n \in failing /\ running' = running /\ failing' = failing \ {n}
    BY <1>2 DEF Leave, Catch
  <2>3. ASSUME One PROVE One'
    <3>1. tokens = {} /\ running' = {} /\ failing' = {}
      BY <2>2, <2>3 DEF One
    <3> QED BY <1>w, <2>1, <3>1 DEF One
  <2>4. ASSUME NEW l, Within(l) PROVE Within(l)'
    <3>1. n \in Region(l) /\ running' \cup failing' \subseteq Region(l)
      BY <2>2, <2>4 DEF Within
    <3>2. \A e \in tokens' : e.to \in Region(l)
      BY <1>r, <1>w, <2>1, <2>4, <3>1 DEF Within
    <3> QED BY <1>s, <3>1, <3>2 DEF Within
  <2> QED BY <2>2, <2>3, <2>4
<1>3. CASE Break(n) \/ Fail(n)
  <2>1. n \in running /\ tokens' = tokens /\ running' = running \ {n} /\ failing' \subseteq failing \cup {n} /\ open' = open
    BY <1>3 DEF Break, Fail
  <2>2. ASSUME One PROVE One'
    <3>1. tokens = {} /\ failing = {} /\ running' = {}
      BY <2>1, <2>2 DEF One
    <3> QED BY <2>1, <3>1 DEF One
  <2>3. ASSUME NEW l, Within(l) PROVE Within(l)'
    BY <1>s, <2>1, <2>3 DEF Within
  <2> QED BY <2>1, <2>2, <2>3
<1>4. CASE Handled(n) \/ AbortRun(n) \/ Stop(n)
  <2>1. tokens' \subseteq tokens /\ running' \subseteq running /\ failing' \subseteq failing /\ open' \subseteq open
    <3>1. CASE SkipItem(n)
      <4>1. PICK l : Resolve(n, IF Serial THEN Body(l) ELSE {}, {}, {})
        BY <3>1 DEF SkipItem
      <4> DEFINE gone == IF Serial THEN Body(l) ELSE {}
      <4>2. Resolve(n, gone, {}, {})
        BY <4>1
      <4> HIDE DEF gone
      <4> QED BY <4>2 DEF Resolve
    <3>2. CASE SendPoison(n) \/ CancelSiblings(n)
      BY <3>2 DEF SendPoison, CancelSiblings
    <3>3. CASE AbortRun(n) \/ Stop(n)
      BY <3>3 DEF AbortRun, Stop, End
    <3> QED BY <1>4, <3>1, <3>2, <3>3 DEF Handled
  <2>2. One => One'
    BY <2>1 DEF One
  <2>3. ASSUME NEW l, Within(l) PROVE Within(l)'
    BY <1>s, <2>1, <2>3 DEF Within
  <2> QED BY <2>1, <2>2, <2>3
<1>5. ~Fork(n)
  BY DEF Fork, OfKind
<1> QED BY <1>1, <1>2, <1>3, <1>4, <1>5 DEF RunStep, Handled

\* What is open is a loop and what runs is a step.
LEMMA KindStep ==
    ASSUME IInv, SingleInv, NEW n \in Nodes, RunStep(n)
    PROVE  open' \subseteq Loops /\ \A m \in running' : Executable(m)
<1>0. open \subseteq Loops /\ (\A m \in running : Executable(m)) /\ tokens \subseteq Flow
  BY DEF IInv, RunInv, SingleInv
<1>1. CASE Enter(n)
  <2>1. PICK A \in Arrivals(n) : A # {}
    BY <1>1 DEF Enter
  <2>2. A \subseteq tokens /\ \A e \in A : e.to = n
    BY DEF Arrivals
  <2>3. Executable(n)
    BY <1>0, <2>1, <2>2 DEF Flow
  <2>4. open' = open /\ running' \subseteq running \cup {n}
    BY <1>1 DEF Enter
  <2> QED BY <1>0, <2>3, <2>4
<1>2. CASE OpenLoop(n)
  <2>1. n \in Loops
    BY <1>2 DEF OpenLoop, Loops, OfKind
  <2>2. open' = open \cup {n} /\ running' \subseteq running
    BY <1>2 DEF OpenLoop
  <2> QED BY <1>0, <2>1, <2>2
<1>3. CASE (\E port \in Outs(Kind(n)) : Leave(n, port)) \/ Fork(n) \/ Item(n) \/ Done(n) \/ Break(n) \/ Fail(n) \/ Catch(n)
  <2>1. open' \subseteq open /\ running' \subseteq running
    BY <1>3 DEF Leave, Fork, Item, Done, Break, Fail, Catch
  <2> QED BY <1>0, <2>1
<1>4. CASE Handled(n)
  <2>1. open' \subseteq open /\ running' \subseteq running
    BY <1>4, Handles DEF Resolve
  <2> QED BY <1>0, <2>1
<1>5. CASE AbortRun(n) \/ Stop(n)
  <2>1. open' = {} /\ running' = {}
    BY <1>5 DEF AbortRun, Stop, End
  <2> QED BY <2>1
<1> QED BY <1>1, <1>2, <1>3, <1>4, <1>5 DEF RunStep, Handled

\* A loop that is aborted fails in place of what was in its body.
LEMMA AbortIs ==
    ASSUME NEW n, AbortLoop(n)
    PROVE  \E l \in open : /\ n \in failing
                           /\ tokens' = {e \in tokens : e.to \notin Body(l)}
                           /\ running' = running \ Body(l)
                           /\ open' = open \ (Body(l) \cup {l})
                           /\ failing' = (failing \ (Body(l) \cup {n})) \cup {l}
<1>1. PICK l \in Iterating(n) : Resolve(n, Body(l), {}, {l})
  BY DEF AbortLoop
<1>2. l \in open /\ n \in failing
  BY <1>1 DEF Iterating, AbortLoop, Unhandled
<1> QED BY <1>1, <1>2 DEF Resolve

\* Without a Parallel and with one item at a time, a step moves the one point of
\* control.
LEMMA SingleStep ==
    ASSUME IInv, PortInv, SingleInv, NEW n \in Nodes, RunStep(n)
    PROVE  SingleInv'
<1>0. pc = "running" /\ graph' = graph
  BY StepFrame DEF checkVars
<1>s. Loops' = Loops /\ (\A l : Region(l)' = Region(l)) /\ \A k : OfKind(k)' = OfKind(k)
  BY <1>0, SameRegions
<1>x. (\A m : Executable(m)' = Executable(m)) /\ (Serial' <=> Serial)
  BY <1>0, SameGraph DEF Serial
<1>y. open' \subseteq Loops /\ \A m \in running' : Executable(m)
  BY KindStep
<1> SUFFICES ASSUME OfKind("parallel") = {}, Serial
             PROVE  /\ One'
                    /\ \A l \in open' : Within(l)'
                    /\ \A l, m \in open' : l = m \/ l \in Region(m) \/ m \in Region(l)
  BY <1>s, <1>x, <1>y DEF SingleInv
<1>i. /\ One
      /\ \A l \in open : Within(l)
      /\ \A l, m \in open : l = m \/ l \in Region(m) \/ m \in Region(l)
  BY DEF SingleInv
<1>r. \A l : \A e \in Flow : e.from \in Region(l) => e.to \in Region(l)
  BY RegionClosed
<1>w. \A port : (\A e, f \in Wired(n, port) : e = f) /\ \A e \in Wired(n, port) : e \in Flow /\ e.from = n
  BY <1>0, OneToken DEF Wired
<1>1. CASE OpenLoop(n)
  <2>1. n \in running /\ tokens' = tokens /\ failing' = failing /\ running' = running \ {n} /\ open' = open \cup {n}
    BY <1>1 DEF OpenLoop
  <2>2. tokens' = {} /\ running' = {} /\ failing' = {}
    BY <1>i, <2>1 DEF One
  <2>3. \A l \in open : n \in Region(l)
    BY <1>i, <2>1 DEF Within
  <2>4. One' /\ \A l : Within(l)'
    BY <2>2 DEF One, Within
  <2> QED BY <1>i, <2>1, <2>3, <2>4
<1>2. CASE Item(n) \/ Done(n)
  <2>1. PICK port \in {"body", "done"} : /\ tokens' = tokens \cup Wired(n, port)
                                         /\ port = "body" \/ n \notin open'
    BY <1>2 DEF Item, Done
  <2>2. n \in open /\ IterationOver(n) /\ running' = running /\ failing' = failing /\ open' \subseteq open
    BY <1>2 DEF Item, Done
  <2>3. tokens = {} /\ running = {} /\ failing = {}
    BY <1>i, <2>2 DEF Within, IterationOver
  <2>4. \A l \in open : l = n \/ n \in Region(l)
    BY <1>i, <2>2 DEF IterationOver
  <2>5. One'
    BY <1>w, <2>1, <2>2, <2>3 DEF One
  <2>6. \A e \in Wired(n, "body") : e.to \in Region(n)
    BY RegionClosed
  <2>7. ASSUME NEW l \in open' PROVE Within(l)'
    <3>1. \A e \in Wired(n, port) : e.to \in Region(l)
      BY <1>r, <1>w, <2>1, <2>2, <2>4, <2>6, <2>7
    <3> QED BY <1>s, <2>1, <2>2, <2>3, <3>1 DEF Within
  <2> QED BY <1>i, <2>2, <2>5, <2>7
<1>3. CASE AbortLoop(n)
  <2>1. PICK l \in open : /\ n \in failing
                          /\ tokens' = {e \in tokens : e.to \notin Body(l)}
                          /\ running' = running \ Body(l)
                          /\ open' = open \ (Body(l) \cup {l})
                          /\ failing' = (failing \ (Body(l) \cup {n})) \cup {l}
    BY <1>3, AbortIs
  <2>2. tokens' = {} /\ running' = {} /\ failing' = {l}
    BY <1>i, <2>1 DEF One
  <2>3. One'
    BY <2>2 DEF One
  <2>4. ASSUME NEW m \in open' PROVE Within(m)'
    <3>1. m # l /\ m \in open /\ m \notin Region(l)
      BY <2>1, <2>4 DEF Body
    <3>2. l \in Region(m)
      BY <1>i, <3>1
    <3> QED BY <1>s, <2>2, <3>2 DEF Within
  <2> QED BY <1>i, <2>1, <2>3, <2>4
<1>4. CASE ~OpenLoop(n) /\ ~Item(n) /\ ~Done(n) /\ ~AbortLoop(n)
  <2>1. /\ open' \subseteq open
        /\ One => One'
        /\ \A l : Within(l) => Within(l)'
    BY <1>4, PlainStep
  <2> QED BY <1>i, <2>1
<1> QED BY <1>1, <1>2, <1>3, <1>4

\* Without a Parallel, what a step does to the control in the outermost loop
\* stays in it.
LEMMA RootStep ==
    ASSUME IInv, PortInv, SingleInv, RootInv, NEW n \in Nodes, RunStep(n)
    PROVE  RootInv'
<1>0. pc = "running" /\ graph' = graph
  BY StepFrame DEF checkVars
<1>s. Loops' = Loops /\ (\A l : Region(l)' = Region(l)) /\ \A k : OfKind(k)' = OfKind(k)
  BY <1>0, SameRegions
<1> SUFFICES ASSUME OfKind("parallel") = {}
             PROVE  \/ open' = {} /\ One'
                    \/ \E o \in Loops : Within(o)' /\ open' \subseteq Region(o) \cup {o}
  BY <1>s DEF RootInv
<1>i. \/ open = {} /\ One
      \/ \E o \in Loops : Within(o) /\ open \subseteq Region(o) \cup {o}
  BY DEF RootInv
<1>r. \A l : \A e \in Flow : e.from \in Region(l) => e.to \in Region(l)
  BY RegionClosed
<1>w. \A port : (\A e, f \in Wired(n, port) : e = f) /\ \A e \in Wired(n, port) : e \in Flow /\ e.from = n
  BY <1>0, OneToken DEF Wired
<1>1. CASE OpenLoop(n)
  <2>1. n \in running /\ tokens' = tokens /\ failing' = failing /\ running' = running \ {n} /\ open' = open \cup {n}
    BY <1>1 DEF OpenLoop
  <2>2. n \in Loops
    BY <1>1 DEF OpenLoop, Loops, OfKind
  <2>3. CASE open = {} /\ One
    <3>1. tokens' = {} /\ running' = {} /\ failing' = {} /\ open' = {n}
      BY <2>1, <2>3 DEF One
    <3>2. Within(n)'
      BY <3>1 DEF Within
    <3> QED BY <2>2, <3>1, <3>2
  <2>4. ASSUME NEW o \in Loops, Within(o), open \subseteq Region(o) \cup {o}
        PROVE  Within(o)' /\ open' \subseteq Region(o) \cup {o}
    BY <1>s, <2>1, <2>4 DEF Within
  <2> QED BY <1>i, <2>3, <2>4
<1>2. CASE Item(n) \/ Done(n)
  <2>1. PICK port \in {"body", "done"} : /\ tokens' = tokens \cup Wired(n, port)
                                         /\ port = "body" \/ (IterationOver(n) /\ open' = open \ {n})
    BY <1>2 DEF Item, Done
  <2>2. n \in open /\ running' = running /\ failing' = failing /\ open' \subseteq open
    BY <1>2 DEF Item, Done
  <2>3. PICK o \in Loops : Within(o) /\ open \subseteq Region(o) \cup {o}
    BY <1>i, <2>2
  <2>4. CASE n \in Region(o) \/ port = "body"
    <3>1. \A e \in Wired(n, "body") : e.to \in Region(n)
      BY RegionClosed
    <3>2. \A e \in Wired(n, port) : e.to \in Region(o)
      BY <1>r, <1>w, <2>2, <2>3, <2>4, <3>1
    <3>3. Within(o)'
      BY <1>s, <2>1, <2>2, <2>3, <3>2 DEF Within
    <3> QED BY <2>2, <2>3, <3>3
  <2>5. CASE n \notin Region(o) /\ port # "body"
    <3>1. n = o /\ IterationOver(o) /\ open' = open \ {o}
      BY <2>1, <2>2, <2>3, <2>5
    <3>2. tokens = {} /\ running = {} /\ failing = {} /\ open' = {}
      BY <2>3, <3>1 DEF Within, IterationOver
    <3>3. One'
      BY <1>w, <2>1, <2>2, <3>2 DEF One
    <3> QED BY <3>2, <3>3
  <2> QED BY <2>4, <2>5
<1>3. CASE AbortLoop(n)
  <2>1. PICK l \in open : /\ n \in failing
                          /\ tokens' = {e \in tokens : e.to \notin Body(l)}
                          /\ running' = running \ Body(l)
                          /\ open' = open \ (Body(l) \cup {l})
                          /\ failing' = (failing \ (Body(l) \cup {n})) \cup {l}
    BY <1>3, AbortIs
  <2>2. PICK o \in Loops : Within(o) /\ open \subseteq Region(o) \cup {o}
    BY <1>i, <2>1
  <2>3. CASE l \in Region(o)
    <3>1. Within(o)'
      BY <1>s, <2>1, <2>2, <2>3 DEF Within
    <3> QED BY <2>1, <2>2, <3>1
  <2>4. CASE l \notin Region(o)
    <3>1. l = o /\ Body(o) = Region(o)
      BY <2>1, <2>2, <2>4 DEF Body
    <3>2. tokens' = {} /\ running' = {} /\ failing' = {o} /\ open' = {}
      BY <2>1, <2>2, <3>1 DEF Within
    <3>3. One'
      BY <3>2 DEF One
    <3> QED BY <3>2, <3>3
  <2> QED BY <2>3, <2>4
<1>4. CASE ~OpenLoop(n) /\ ~Item(n) /\ ~Done(n) /\ ~AbortLoop(n)
  <2>1. /\ open' \subseteq open
        /\ One => One'
        /\ \A l : Within(l) => Within(l)'
    BY <1>4, PlainStep
  <2> QED BY <1>i, <2>1
<1> QED BY <1>1, <1>2, <1>3, <1>4

\* The Start a run begins with is a step.
LEMMA StartExecutable == Start # NoNode => Executable(Start)
<1>1. IsFiniteSet(OfKind("start"))
  BY NodesFinite, FS_Subset DEF OfKind
<1>2. Cardinality(OfKind("start")) = 1 => OfKind("start") # {}
  BY <1>1, FS_EmptySet
<1>3. Start # NoNode => Start \in OfKind("start")
  BY <1>2 DEF Start
<1> QED BY <1>3 DEF OfKind, Executable

\* Every step keeps it one.
LEMMA SingleNext ==
    ASSUME IInv, IInv', PortInv, SingleInv, RootInv, Next
    PROVE  SingleInv' /\ RootInv'
<1>g. graph' = graph
  BY ValidateFrame, RunFrame DEF Next
<1>s. Loops' = Loops /\ (\A l : Region(l)' = Region(l)) /\ \A k : OfKind(k)' = OfKind(k)
  BY <1>g, SameRegions
<1>x. (\A m : Executable(m)' = Executable(m)) /\ Start' = Start /\ (Serial' <=> Serial)
  BY <1>g, SameGraph DEF Serial
<1>1. CASE Validate
  <2>1. tokens' = tokens /\ running' = running /\ failing' = failing /\ open' = open
    BY <1>1, ValidateFrame
  <2>2. (One' <=> One) /\ \A l : Within(l)' <=> Within(l)
    BY <1>s, <2>1 DEF One, Within
  <2> QED BY <1>s, <1>x, <2>1, <2>2 DEF SingleInv, RootInv
<1>2. CASE Begin
  <2>1. /\ tokens' = tokens /\ open' = open /\ failing' = failing /\ running' = {Start}
        /\ pc = "verdict" /\ pc' = "running"
    BY <1>2 DEF Begin
  <2>2. tokens = {} /\ open = {} /\ failing = {}
    BY <2>1 DEF IInv, RunInv
  <2>3. Start # NoNode
    BY <1>x, <2>1, OrderAssumption DEF IInv, StartInv
  <2>4. One' /\ open' = {}
    BY <2>1, <2>2 DEF One
  <2> QED BY <1>x, <2>1, <2>3, <2>4, StartExecutable DEF SingleInv, RootInv
<1>3. CASE \E n \in Nodes : RunStep(n)
  BY <1>3, SingleStep, RootStep
<1> QED BY <1>1, <1>2, <1>3, RunFrame DEF Next

-----------------------------------------------------------------------------
(* The path an editor paints.                                               *)

\* The nodes a run may come to without having executed x.
Around(x) == Closure({Start}, {}, {x})

\* What the sweep has not taken away is away for a reason: where x is not in a
\* node's set, the node can be reached around x.
Paths(x, n) == Executable(x) /\ n # x /\ n \notin Around(x) => x \in must[n]
WitnessInv ==
    pc \in {"sweep"} \cup Settled /\ Start # NoNode => \A x, n \in Nodes : Paths(x, n)

\* Where every way leads through x, x is in the meet.
LEMMA MeetKeeps ==
    ASSUME NEW x \in Nodes, NEW n \in Nodes, Executable(x), n # x, n \notin Around(x), Swept(n),
           \A m \in Nodes : Paths(x, m)
    PROVE  x \in Meet(n)
<1>1. ASSUME NEW e \in Inbound(n) PROVE x \in through(e)
  <2>1. e \in Flow /\ e.to = n /\ e.from \in Nodes
    BY FlowNodes DEF Inbound
  <2>2. CASE e.from = x
    BY <2>2 DEF through
  <2>3. CASE e.from # x
    <3>1. e.from \notin Around(x)
      BY <2>1, ClosureFixed DEF Around
    <3>2. x \in must[e.from]
      BY <2>1, <2>3, <3>1 DEF Paths
    <3> QED BY <3>2 DEF through
  <2> QED BY <2>2, <2>3
<1>2. PICK e \in Inbound(n) : TRUE
  BY DEF Swept
<1>3. x \in ordinaryMeet(n)
  BY <1>1 DEF ordinaryMeet
<1>4. x \in joinMeet(n)
  <2>1. e.in \in {f.in : f \in Inbound(n)}
    BY <1>2
  <2> QED BY <1>1, <2>1 DEF joinMeet
<1> QED BY <1>3, <1>4 DEF Meet

\* The sweep takes a node away only where a path around it exists.
LEMMA WitnessStep ==
    ASSUME IInv, WitnessInv, Next
    PROVE  WitnessInv'
<1>g. graph' = graph
  BY ValidateFrame, RunFrame DEF Next
<1>s. /\ \A seed, stop, avoid : Closure(seed, stop, avoid)' = Closure(seed, stop, avoid)
      /\ Start' = Start /\ \A m : Executable(m)' = Executable(m)
  BY <1>g, SameRegions, SameGraph
<1>a. \A x : Around(x)' = Around(x)
  <2> SUFFICES ASSUME NEW x PROVE Around(x)' = Around(x)
    OBVIOUS
  <2>1. Closure({Start}, {}, {x})' = Closure({Start'}, {}, {x})
    BY <1>g, <1>s DEF Closure, Flow, Executable, Kind
  <2> QED BY <1>s, <2>1 DEF Around
<1>1. CASE CheckParallelJoins
  <2>1. must' = [n \in Nodes |-> IF n = Start THEN {} ELSE {m \in Nodes : Executable(m)}]
    BY <1>1 DEF CheckParallelJoins
  <2>2. ASSUME Start # NoNode, NEW x \in Nodes, NEW n \in Nodes, Executable(x), n # x, n \notin Around(x)
        PROVE  x \in must'[n]
    <3>1. n # Start
      BY <2>2, ClosureFixed DEF Around
    <3> QED BY <2>1, <2>2, <3>1
  <2> QED BY <1>s, <1>a, <2>2 DEF WitnessInv, Paths
<1>2. CASE Visit
  <2>0. pc = "sweep" /\ pc' = "sweep" /\ at \in DOMAIN Order
    BY <1>2 DEF Visit
  <2> DEFINE v == Order[at]
  <2>1. v \in Nodes
    BY <2>0 DEF Nodes
  <2>2. Start # NoNode /\ must \in [Nodes -> SUBSET Nodes]
    BY <2>0 DEF IInv, SweepInv, TypeInv
  <2>3. \A x, n \in Nodes : Paths(x, n)
    BY <2>0, <2>2 DEF WitnessInv
  <2>4. ASSUME NEW x \in Nodes, NEW n \in Nodes, Executable(x), n # x, n \notin Around(x)
        PROVE  x \in must'[n]
    <3>1. x \in must[n]
      BY <2>3, <2>4 DEF Paths
    <3>2. CASE Swept(v) /\ Meet(v) # must[v]
      <4>1. must' = [must EXCEPT ![v] = Meet(v)]
        BY <1>2, <3>2 DEF Visit
      <4>2. n = v => x \in Meet(v)
        BY <2>3, <2>4, <3>2, MeetKeeps
      <4> HIDE DEF v
      <4> QED BY <2>1, <2>2, <3>1, <4>1, <4>2
    <3>3. CASE ~(Swept(v) /\ Meet(v) # must[v])
      BY <1>2, <3>1, <3>3 DEF Visit
    <3> QED BY <3>2, <3>3
  <2> QED BY <1>s, <1>a, <2>4 DEF WitnessInv, Paths
<1>3. CASE ~CheckParallelJoins /\ ~Visit
  <2>1. must' = must /\ (pc' \in {"sweep"} \cup Settled => pc \in {"sweep"} \cup Settled)
    <3>1. CASE Run
      BY <3>1, RunFrame DEF Settled
    <3>2. CASE Validate
      BY <1>3, <3>2 DEF Validate, CheckStructure, CheckTerminalPlacement, EndPass, CheckAvailability, ScopeStep,
                        CheckTypes, Settled
    <3> QED BY <3>1, <3>2 DEF Next
  <2> QED BY <1>s, <1>a, <2>1 DEF WitnessInv, Paths
<1> QED BY <1>1, <1>2, <1>3

\* Only checkDataEdgeAvailability says that a value is not guaranteed.
LEMMA OnlyAvailability ==
    ASSUME Next, ~CheckAvailability, "data.notGuaranteed" \in diag'
    PROVE  "data.notGuaranteed" \in diag
<1>1. CASE CheckStructure
  BY <1>1 DEF CheckStructure, SchemaErrors, PortErrors, ArityErrors, If
<1>2. CASE CheckTerminalPlacement
  BY <1>2 DEF CheckTerminalPlacement, TerminalErrors, If
<1>3. CASE CheckParallelJoins
  <2>1. "data.notGuaranteed" \notin JoinDiagnostics
    BY DEF JoinDiagnostics, If
  <2> QED BY <1>3, <2>1 DEF CheckParallelJoins
<1>4. CASE Visit \/ EndPass
  BY <1>4 DEF Visit, EndPass
<1>5. CASE ScopeStep
  BY <1>5 DEF ScopeStep
<1>6. CASE CheckTypes
  <2>1. "data.notGuaranteed" \notin TypeErrors
    BY DEF TypeErrors, If
  <2> QED BY <1>6, <2>1 DEF CheckTypes
<1>7. CASE Run
  BY <1>7, RunFrame
<1> QED BY <1>1, <1>2, <1>3, <1>4, <1>5, <1>6, <1>7 DEF Next, Validate

\* A refusal is made only where the sweep took the source away.
LEMMA WitnessRealStep ==
    ASSUME IInv, WitnessInv, WitnessReal, Next
    PROVE  WitnessReal'
<1>g. graph' = graph
  BY ValidateFrame, RunFrame DEF Next
<1>s. /\ Start' = Start /\ Data' = Data /\ Kind(Data.from)' = Kind(Data.from)
  BY <1>g, SameGraph DEF Data, Kind
<1>c. Closure({Start}, {}, {Data.from})' = Closure({Start}, {}, {Data.from})
  <2>1. Closure({Start}, {}, {Data.from})' = Closure({Start'}, {}, {Data'.from})
    BY <1>g, <1>s DEF Closure, Flow, Executable, Kind
  <2> QED BY <1>s, <2>1
<1>1. CASE "data.notGuaranteed" \in diag
  BY <1>1, <1>s, <1>c DEF WitnessReal
<1>2. CASE "data.notGuaranteed" \notin diag
  <2> SUFFICES ASSUME "data.notGuaranteed" \in diag', Data.from # Data.to, Kind(Data.from) \notin {"collect", "note"}
               PROVE  Data.to \in Closure({Start}, {}, {Data.from})
    BY <1>s, <1>c DEF WitnessReal
  <2>1. CheckAvailability
    BY <1>2, OnlyAvailability
  <2>2. pc = "data" /\ ~Guaranteed /\ Resolved(Data.from) /\ Resolved(Data.to)
    BY <1>2, <2>1 DEF CheckAvailability
  <2>3. Data.from \in Nodes /\ Data.to \in Nodes
    BY <2>2 DEF Resolved, Kind
  <2>4. Executable(Data.from) /\ Start # NoNode /\ Data.from \notin must[Data.to]
    BY <2>2 DEF Guaranteed, availabilityProducer, Executable, Resolved
  <2>5. Paths(Data.from, Data.to)
    BY <2>2, <2>3, <2>4 DEF WitnessInv, Settled
  <2> QED BY <2>4, <2>5 DEF Paths, Around
<1> QED BY <1>1, <1>2

-----------------------------------------------------------------------------
(* Where control has been.                                                  *)

\* m is promised where control is at x, or on its way there.
Due(m, x) == \/ \E e \in tokens : e.to = x /\ m \in through(e)
             \/ x \in running \cup open /\ m \in must[x]

\* While no step has failed, control has come to a point from all that is
\* promised there, and a node it comes to is not promised to itself.
LeadInv ==
    /\ ~failed => /\ \A m, x : Due(m, x) => Leads(m, x)
                  /\ \A n \in running \cup open \cup ran : n \notin must[n]
    /\ pc \notin {"running", "ended"} => ran = {}

\* A step that puts a token on the edge.
Sends(n, e) ==
    /\ e \in Flow /\ e.from = n /\ n \in running \cup open
    /\ \/ \E port \in Outs(Kind(n)) : Leave(n, port)
       \/ Fork(n)
       \/ Item(n) /\ e \in Wired(n, "body")
       \/ Done(n) /\ e \in Wired(n, "done")

\* A For Each sends by taking an item or by being done.
LEMMA LoopSends ==
    ASSUME NEW n \in Loops, NEW e, Sends(n, e)
    PROVE  \/ Item(n) /\ e \in Wired(n, "body")
           \/ Done(n) /\ e \in Wired(n, "done")
<1>1. Kind(n) = "forEach"
  BY DEF Loops, OfKind
<1>2. ~Fork(n) /\ \A port : ~Leave(n, port)
  BY <1>1 DEF Fork, Leave
<1> QED BY <1>2 DEF Sends

\* The steps of a run in which nothing has failed.
Regular(n) ==
    \/ \E port \in Outs(Kind(n)) : Leave(n, port)
    \/ Fork(n) \/ OpenLoop(n) \/ Item(n) \/ Done(n) \/ Break(n) \/ Stop(n)

\* An error is never forgotten, and nothing fails without one.
LEMMA Faultless ==
    ASSUME IInv, NEW n, RunStep(n), ~failed'
    PROVE  /\ ~failed /\ ~joinError /\ poison = {} /\ failing = {}
           /\ Enter(n) \/ Regular(n)
<1>1. ~Fail(n)
  BY DEF Fail
<1>2. failed' = failed
  <2>1. CASE Handled(n)
    BY <2>1, Handles DEF Resolve
  <2>2. CASE AbortRun(n) \/ Stop(n)
    BY <2>2 DEF AbortRun, Stop, End
  <2>3. CASE Enter(n) \/ (\E port \in Outs(Kind(n)) : Leave(n, port)) \/ Fork(n) \/ OpenLoop(n) \/ Item(n) \/ Done(n)
             \/ Break(n) \/ Catch(n)
    BY <2>3 DEF Enter, Leave, Fork, OpenLoop, Item, Done, Break, Catch
  <2> QED BY <1>1, <2>1, <2>2, <2>3 DEF RunStep, Handled
<1>3. ~failed
  BY <1>2
<1>4. failing = {} /\ poison = {} /\ ~joinError
  BY <1>3 DEF IInv, RunInv
<1>5. n \notin failing
  BY <1>4
<1>6. ~Handled(n) /\ ~Catch(n) /\ ~AbortRun(n)
  BY <1>5 DEF Handled, SkipItem, AbortLoop, SendPoison, CancelSiblings, AbortRun, Unhandled, Catch
<1> QED BY <1>1, <1>3, <1>4, <1>6 DEF RunStep, Handled, Regular

\* A node is entered with what its tokens promise.
LEMMA EntryIs ==
    ASSUME IInv, NEW n \in Nodes, Enter(n), poison = {}
    PROVE  /\ tokens' \subseteq tokens /\ running' = running \cup {n}
           /\ UNCHANGED <<failing, open, ran, value, sockets>>
           /\ \A m \in must[n] : Due(m, n)
<1>1. PICK A \in Arrivals(n) :
        /\ A # {} /\ tokens' = tokens \ A
        /\ \/ A \cap poison = {} /\ running' = running \cup {n} /\ UNCHANGED <<failing, ran>>
           \/ A \cap poison # {}
  BY DEF Enter
<1>2. pc = "running" /\ UNCHANGED <<open, value, sockets>>
  BY DEF Enter
<1>3. /\ A \subseteq tokens /\ (\A e \in A : e.to = n)
      /\ \A m \in must[n] : \E e \in A : m \in through(e)
  BY <1>1, <1>2, EntryFrom
<1>4. A \cap poison = {}
  OBVIOUS
<1> QED BY <1>1, <1>2, <1>3, <1>4 DEF Due

\* What another step does to the points of control.
LEMMA RegularMoves ==
    ASSUME NEW n \in Nodes, Regular(n)
    PROVE  /\ n \in running \cup open
           /\ \A e \in tokens' : e \in tokens \/ Sends(n, e)
           /\ running' \cup open' \subseteq running \cup open
           /\ ran' \subseteq ran \cup {n}
<1>1. \A port : \A e \in Wired(n, port) : e \in Flow /\ e.from = n
  BY DEF Wired
<1>2. CASE \E port \in Outs(Kind(n)) : Leave(n, port)
  <2>1. PICK port \in Outs(Kind(n)) : Leave(n, port)
    BY <1>2
  <2>2. n \in running /\ tokens' = tokens \cup Wired(n, port) /\ running' = running \ {n} /\ open' = open
        /\ ran' = ran \cup {n}
    BY <2>1 DEF Leave
  <2> QED BY <1>1, <1>2, <2>2 DEF Sends
<1>3. CASE Fork(n)
  <2>1. n \in running /\ tokens' = tokens \cup UNION {Wired(n, port) : port \in Outs("parallel")}
        /\ running' = running \ {n} /\ open' = open /\ ran' = ran \cup {n}
    BY <1>3 DEF Fork
  <2> QED BY <1>1, <1>3, <2>1 DEF Sends
<1>4. CASE OpenLoop(n)
  BY <1>4 DEF OpenLoop
<1>5. CASE Item(n)
  <2>1. n \in open /\ tokens' = tokens \cup Wired(n, "body") /\ running' = running /\ open' = open /\ ran' = ran
    BY <1>5 DEF Item
  <2> QED BY <1>1, <1>5, <2>1 DEF Sends
<1>6. CASE Done(n)
  <2>1. n \in open /\ tokens' = tokens \cup Wired(n, "done") /\ running' = running /\ open' = open \ {n} /\ ran' = ran
    BY <1>6 DEF Done
  <2> QED BY <1>1, <1>6, <2>1 DEF Sends
<1>7. CASE Break(n)
  BY <1>7 DEF Break
<1>8. CASE Stop(n)
  BY <1>8 DEF Stop, End
<1> QED BY <1>2, <1>3, <1>4, <1>5, <1>6, <1>7, <1>8 DEF Regular

\* What is promised after a step was so before it, or at the node it was taken
\* at, or is that node.
LEMMA DueStep ==
    ASSUME IInv, NEW n \in Nodes, RunStep(n), ~failed', NEW m, NEW x, Due(m, x)'
    PROVE  \/ Due(m, x)
           \/ \E e : e.to = x /\ Sends(n, e) /\ (m = n \/ Due(m, n))
<1>s. must' = must /\ \A e : through(e)' = through(e)
  BY StepFrame, SameMeets DEF checkVars
<1>d. \/ \E e \in tokens' : e.to = x /\ m \in through(e)
      \/ x \in running' \cup open' /\ m \in must[x]
  BY <1>s DEF Due
<1>f. poison = {} /\ (Enter(n) \/ Regular(n))
  BY Faultless
<1>1. CASE Enter(n)
  <2>1. tokens' \subseteq tokens /\ running' = running \cup {n} /\ open' = open /\ \A k \in must[n] : Due(k, n)
    BY <1>f, <1>1, EntryIs
  <2> QED BY <1>d, <2>1 DEF Due
<1>2. CASE Regular(n)
  <2>1. /\ n \in running \cup open
        /\ \A e \in tokens' : e \in tokens \/ Sends(n, e)
        /\ running' \cup open' \subseteq running \cup open
    BY <1>2, RegularMoves
  <2>2. CASE x \in running' \cup open' /\ m \in must[x]
    BY <2>1, <2>2 DEF Due
  <2>3. ASSUME NEW e \in tokens', e.to = x, m \in through(e)
        PROVE  Due(m, x) \/ (Sends(n, e) /\ (m = n \/ Due(m, n)))
    <3>1. CASE e \in tokens
      BY <2>3, <3>1 DEF Due
    <3>2. CASE Sends(n, e)
      <4>1. m = n \/ m \in must[n]
        BY <2>3, <3>2 DEF Sends, through
      <4> QED BY <2>1, <3>2, <4>1 DEF Due
    <3> QED BY <2>1, <3>1, <3>2
  <2> QED BY <1>d, <2>2, <2>3
<1> QED BY <1>f, <1>1, <1>2

\* A step of a run comes from where its control was.
LEMMA LeadStep ==
    ASSUME IInv, LeadInv, NEW n \in Nodes, RunStep(n)
    PROVE  LeadInv'
<1>0. graph' = graph /\ must' = must /\ pc = "running" /\ pc' \in {"running", "ended"}
  BY StepFrame DEF checkVars
<1>s. \A a, b : Leads(a, b)' = Leads(a, b)
  BY <1>0, SameLeads
<1>1. ASSUME ~failed', NEW m, NEW x, Due(m, x)' PROVE Leads(m, x)
  <2>0. ~failed
    BY <1>1, Faultless
  <2>1. \A a, b : Due(a, b) => Leads(a, b)
    BY <2>0 DEF LeadInv
  <2>2. Due(m, x) \/ \E e : e.to = x /\ Sends(n, e) /\ (m = n \/ Due(m, n))
    BY <1>1, DueStep
  <2>3. ASSUME NEW e, e.to = x, Sends(n, e), m = n \/ Due(m, n) PROVE Leads(m, x)
    <3>1. e \in Flow /\ e.from = n
      BY <2>3 DEF Sends
    <3>2. Leads(n, x) /\ \A k : Leads(k, n) => Leads(k, x)
      BY <2>3, <3>1, LeadsOn
    <3> QED BY <2>1, <2>3, <3>2
  <2> QED BY <2>1, <2>2, <2>3
<1>2. ASSUME ~failed', NEW k \in running' \cup open' \cup ran' PROVE k \notin must[k]
  <2>0. ~failed /\ ~joinError /\ poison = {} /\ (Enter(n) \/ Regular(n))
    BY <1>2, Faultless
  <2>1. \A j \in running \cup open \cup ran : j \notin must[j]
    BY <2>0 DEF LeadInv
  <2>2. CASE Enter(n)
    <3>1. PICK A \in Arrivals(n) : A # {}
      BY <2>2 DEF Enter
    <3>2. A \cap poison = {}
      BY <2>0
    <3>3. must[n] \subseteq ran
      BY <1>0, <2>0, <3>1, <3>2, EntryGuaranteed
    <3>4. running' = running \cup {n} /\ open' = open /\ ran' = ran
      BY <2>0, <2>2, EntryIs
    <3> QED BY <2>1, <3>3, <3>4
  <2>3. CASE Regular(n)
    BY <2>1, <2>3, RegularMoves
  <2> QED BY <2>0, <2>2, <2>3
<1> QED BY <1>0, <1>s, <1>1, <1>2 DEF LeadInv

-----------------------------------------------------------------------------
(* Values.                                                                  *)

\* While no step has failed and loops take one item at a time, what is promised
\* at a point has its value: an iteration that ends discards the values of the
\* loop's body, and control is then nowhere the body leads to.
HeldInv ==
    ~failed /\ Serial => /\ \A m, x : Due(m, x) => m \in value
                         /\ open \subseteq value

\* When an iteration is over, nothing of the body is promised anywhere.
LEMMA IterationKeeps ==
    ASSUME IInv, LeadInv, ~failed, NEW l \in Nodes, IterationOver(l), NEW m, NEW x, Due(m, x)
    PROVE  m \notin Region(l) /\ x \notin Region(l)
<1>0. must \in [Nodes -> SUBSET Nodes] /\ tokens \subseteq Flow /\ running \cup open \subseteq Nodes
  BY DEF IInv, TypeInv, RunInv
<1>1. m \in Nodes
  BY <1>0, FlowNodes DEF Due, through
<1>2. x \notin Region(l)
  BY DEF Due, IterationOver
<1>3. Leads(m, x)
  BY DEF LeadInv
<1> QED BY <1>1, <1>2, <1>3, LeadsInto

\* A step of a run keeps the promised values.
LEMMA HeldStep ==
    ASSUME IInv, LeadInv, HeldInv, NEW n \in Nodes, RunStep(n)
    PROVE  HeldInv'
<1>0. Serial' <=> Serial
  BY StepFrame DEF checkVars, Serial
<1> SUFFICES ASSUME ~failed', Serial
             PROVE  (\A m, x : Due(m, x)' => m \in value') /\ open' \subseteq value'
  BY <1>0 DEF HeldInv
<1>f. ~failed /\ poison = {} /\ (Enter(n) \/ Regular(n))
  BY Faultless
<1>h. (\A m, x : Due(m, x) => m \in value) /\ open \subseteq value
  BY <1>f DEF HeldInv
<1>d. ASSUME NEW m, NEW x, Due(m, x)' PROVE (\E y : Due(m, y)) \/ (m = n /\ \E e : Sends(n, e))
  BY <1>d, DueStep
<1>1. CASE Enter(n) \/ Stop(n)
  <2>1. value' = value /\ open' \subseteq open
    BY <1>1 DEF Enter, Stop, End
  <2>2. ASSUME NEW e, Sends(n, e) PROVE FALSE
    <3>1. n \in running \cup open /\ pc' = "running"
      BY <2>2 DEF Sends, Leave, Fork, Item, Done
    <3> QED BY <1>1, <3>1 DEF Enter, Stop, End
  <2> QED BY <1>d, <1>h, <2>1, <2>2
<1>2. CASE (\E port \in Outs(Kind(n)) : Leave(n, port)) \/ Fork(n) \/ OpenLoop(n) \/ Break(n)
  <2>1. n \in value' /\ value \subseteq value' /\ open' \subseteq open \cup {n}
    BY <1>2 DEF Leave, Fork, OpenLoop, Break
  <2> QED BY <1>d, <1>h, <2>1
<1>3. CASE Item(n) \/ Done(n)
  <2>1. n \in open /\ IterationOver(n) /\ open' \subseteq open
    BY <1>3 DEF Item, Done
  <2>2. value \ Region(n) \subseteq value'
    BY <1>3 DEF Item, Done, Kept, Body
  <2>3. \A k \in open : k \notin Region(n)
    BY <2>1 DEF IterationOver
  <2>4. ASSUME NEW m, NEW x, Due(m, x)' PROVE m \in value'
    <3>1. CASE m = n
      BY <1>h, <2>1, <2>2, <2>3, <3>1
    <3>2. CASE m # n
      <4>1. PICK y : Due(m, y)
        BY <1>d, <2>4, <3>2
      <4>2. m \notin Region(n)
        BY <1>f, <2>1, <4>1, IterationKeeps
      <4> QED BY <1>h, <2>2, <4>1, <4>2
    <3> QED BY <3>1, <3>2
  <2> QED BY <1>h, <2>1, <2>2, <2>3, <2>4
<1> QED BY <1>f, <1>1, <1>2, <1>3 DEF Regular

\* A runnable drawing has had its data edge checked.
AvailInv ==
    pc \in {"scope", "types", "verdict", "running", "ended"} /\ Runnable
      /\ Data # NoData /\ Data.from \in Nodes /\ Data.to \in Nodes => Guaranteed

\* The availability check refuses every edge that is not guaranteed.
LEMMA AvailStep ==
    ASSUME PortInv, AvailInv, Next
    PROVE  AvailInv'
<1>g. graph' = graph
  BY ValidateFrame, RunFrame DEF Next
<1>s. Start' = Start /\ Data' = Data /\ \A n : Kind(n)' = Kind(n) /\ Executable(n)' = Executable(n)
  BY <1>g, SameGraph DEF Data
<1>k. scope' = scope /\ must' = must => Guaranteed' = Guaranteed
  BY <1>s DEF Guaranteed, availabilityProducer, Data, Kind, Executable, Start, OfKind
<1>1. CASE CheckAvailability
  <2>0. pc = "data" /\ scope' = scope /\ must' = must
    BY <1>1 DEF CheckAvailability
  <2>1. ASSUME Runnable', Data # NoData, Data.from \in Nodes, Data.to \in Nodes PROVE Guaranteed
    <3>1. diag \subseteq diag'
      BY <1>1 DEF CheckAvailability
    <3>2. Runnable
      BY <2>1, <3>1 DEF Runnable
    <3>3. Resolved(Data.from) /\ Resolved(Data.to)
      BY <2>0, <2>1, <3>2 DEF PortInv, OfKind, Resolved
    <3>4. "data.parallelSiblings" \notin diag' /\ "data.notGuaranteed" \notin diag'
      BY <2>1 DEF Runnable
    <3> QED BY <1>1, <2>1, <3>3, <3>4 DEF CheckAvailability
  <2> QED BY <1>s, <1>k, <2>0, <2>1 DEF AvailInv
<1>2. CASE ~CheckAvailability
  <2>1. /\ pc' \in {"scope", "types", "verdict", "running", "ended"}
             => pc \in {"scope", "types", "verdict", "running", "ended"} /\ scope' = scope /\ must' = must
                /\ diag \subseteq diag'
    <3>1. CASE Run
      BY <3>1, RunFrame
    <3>2. CASE Validate
      BY <1>2, <3>2 DEF Validate, CheckStructure, CheckTerminalPlacement, CheckParallelJoins, Visit, EndPass,
                        ScopeStep, CheckTypes
    <3> QED BY <3>1, <3>2 DEF Next
  <2>2. diag \subseteq diag' /\ Runnable' => Runnable
    BY DEF Runnable
  <2> QED BY <1>s, <1>k, <2>1, <2>2 DEF AvailInv
<1> QED BY <1>1, <1>2

-----------------------------------------------------------------------------
(* What a loop has to offer, in its body and when it is done.               *)

After(l) == reachableFromPort(l, "done")

\* While no step has failed, where a loop is promised control is in its body or
\* after it.
LoopInv == ~failed => \A l \in Loops : \A x : Due(l, x) => x \in Region(l) \cup After(l)

\* Its failedCount and the lists of its Collect nodes exist.
Ready(l) == /\ <<l, "failedCount">> \in sockets
            /\ \A c \in OfKind("collect") : scope[c] = l => c \in value

\* With loops that nest and take one item at a time: in its body there is an
\* item, and elsewhere what it leaves behind.
SocketInv ==
    ~failed /\ Serial /\ WellNested => \A l \in Loops : \A x : Due(l, x) =>
        /\ x \in Region(l) => <<l, "item">> \in sockets
        /\ x \notin Region(l) => Ready(l)

\* What follows a loop leads nowhere but to what follows it.
LEMMA AfterClosed ==
    ASSUME NEW l
    PROVE  /\ \A e \in Flow : e.from \in After(l) => e.to \in After(l)
           /\ \A e \in Wired(l, "done") : e.to \in After(l)
<1>1. \A e \in Flow : e.from \in After(l) => e.to \in After(l)
  BY ClosureFixed DEF After, reachableFromPort
<1>2. Entered(l, "done") \subseteq After(l)
  BY ClosureFixed DEF After, reachableFromPort
<1>3. \A e \in Wired(l, "done") : e.to \in Entered(l, "done")
  BY DEF Wired, Entered, Flow
<1> QED BY <1>1, <1>2, <1>3

\* Nesting depends on the drawing only.
LEMMA SameNesting ==
    ASSUME graph' = graph
    PROVE  (WellNested' <=> WellNested) /\ \A l : After(l)' = After(l)
<1>s. Loops' = Loops /\ \A l : Region(l)' = Region(l)
  BY SameRegions
<1>1. \A l : reachableFromPort(l, "done")' = reachableFromPort(l, "done")
  BY DEF reachableFromPort, Entered, Closure, Flow, Executable, Kind
<1>2. \A l, m : Inside(l, m)' <=> Inside(l, m)
  BY <1>s DEF Inside
<1>3. WellNested' <=> \A l \in Loops :
          /\ l \notin Region(l)
          /\ Region(l) \cap reachableFromPort(l, "done") = {}
          /\ \A m \in Loops : Region(l) \cap Region(m) = {} \/ l = m \/ Inside(l, m) \/ Inside(m, l)
  BY <1>s, <1>1, <1>2 DEF WellNested
<1> QED BY <1>1, <1>3 DEF WellNested, After

\* A body is finite: one edge enters it.
LEMMA RegionFinite ==
    ASSUME PortInv, pc = "running", NEW l
    PROVE  IsFiniteSet(Region(l))
<1>1. \A e, f \in graph.control : e.from = f.from /\ e.out = f.out => e = f
  BY DEF PortInv
<1>2. IsFiniteSet(Entered(l, "body"))
  <2>1. CASE Entered(l, "body") = {}
    BY <2>1, FS_EmptySet
  <2>2. CASE Entered(l, "body") # {}
    <3>0. \A x, y \in Entered(l, "body") : x = y
      BY <1>1 DEF Entered
    <3>1. PICK x : Entered(l, "body") = {x}
      BY <2>2, <3>0
    <3> QED BY <3>1, FS_Singleton
  <2> QED BY <2>1, <2>2
<1>3. Region(l) \subseteq Entered(l, "body") \cup Nodes
  BY ClosureFixed DEF Region, reachableFromPort
<1>4. IsFiniteSet(Entered(l, "body") \cup Nodes)
  BY <1>2, NodesFinite, FS_Union
<1> QED BY <1>3, <1>4, FS_Subset

\* A larger set has not fewer members.
LEMMA FewerMembers ==
    ASSUME NEW S, NEW T, IsFiniteSet(T), S \subseteq T, NEW x \in T, x \notin S
    PROVE  ~(Cardinality(T) <= Cardinality(S))
<1>1. Cardinality(S) \in Nat /\ Cardinality(T) \in Nat /\ IsFiniteSet(S)
  BY FS_CardinalityType, FS_Subset
<1>2. Cardinality(S) <= Cardinality(T) /\ (Cardinality(S) = Cardinality(T) => S = T)
  BY FS_Subset
<1>3. S # T
  OBVIOUS
<1> QED BY <1>1, <1>2, <1>3

\* A Collect in the bodies of two loops collects for the inner one: an iteration
\* that ends discards no other loop's list, unless that loop is in its body.
LEMMA ListKept ==
    ASSUME PortInv, ScopeInv, pc = "running", WellNested, NEW o \in Loops, NEW l \in Loops, l \notin Region(o),
           NEW c \in OfKind("collect"), scope[c] = l, c \in Region(o)
    PROVE  l = o
<1> SUFFICES ASSUME l # o PROVE FALSE
  OBVIOUS
<1>1. c \in Nodes /\ l # NoNode
  BY LoopsNodes DEF OfKind
<1>2. c \in Region(l) /\ Cardinality(Region(l)) <= Cardinality(Region(o))
  BY <1>1 DEF ScopeInv
<1>3. Inside(o, l) /\ o \notin Region(o)
  BY <1>2 DEF WellNested, Inside
<1>4. Region(o) \subseteq Region(l) /\ o \in Region(l)
  BY <1>3 DEF Inside
<1>5. ~(Cardinality(Region(l)) <= Cardinality(Region(o)))
  BY <1>3, <1>4, RegionFinite, FewerMembers
<1> QED BY <1>2, <1>5

\* A step from a loop's body stays there, one from behind it too.
LEMMA LoopStep ==
    ASSUME IInv, LoopInv, NEW n \in Nodes, RunStep(n)
    PROVE  LoopInv'
<1>0. graph' = graph
  BY StepFrame DEF checkVars
<1>s. Loops' = Loops /\ \A l : Region(l)' = Region(l) /\ After(l)' = After(l)
  BY <1>0, SameRegions, SameNesting
<1> SUFFICES ASSUME ~failed', NEW l \in Loops, NEW x, Due(l, x)' PROVE x \in Region(l) \cup After(l)
  BY <1>s DEF LoopInv
<1>1. \A y : Due(l, y) => y \in Region(l) \cup After(l)
  BY Faultless DEF LoopInv
<1>2. ASSUME NEW e, e.to = x, Sends(n, e), l = n \/ Due(l, n) PROVE x \in Region(l) \cup After(l)
  <2>1. e \in Flow /\ e.from = n
    BY <1>2 DEF Sends
  <2>2. CASE Due(l, n)
    BY <1>1, <1>2, <2>1, <2>2, RegionClosed, AfterClosed
  <2>3. CASE l = n
    <3>1. e \in Wired(l, "body") \/ e \in Wired(l, "done")
      BY <1>2, <2>3, LoopSends
    <3> QED BY <1>2, <3>1, RegionClosed, AfterClosed
  <2> QED BY <1>2, <2>2, <2>3
<1> QED BY <1>1, <1>2, DueStep

\* A step of a run keeps what a loop has to offer where it is promised.
LEMMA SocketStep ==
    ASSUME IInv, PortInv, ScopeInv, SingleInv, LeadInv, LoopInv, SocketInv, NEW n \in Nodes, RunStep(n)
    PROVE  SocketInv'
<1>0. graph' = graph /\ scope' = scope /\ pc = "running"
  BY StepFrame DEF checkVars
<1>s. /\ Loops' = Loops /\ (\A l : Region(l)' = Region(l)) /\ (\A k : OfKind(k)' = OfKind(k))
      /\ (WellNested' <=> WellNested) /\ (Serial' <=> Serial)
  BY <1>0, SameRegions, SameNesting DEF Serial
<1> SUFFICES ASSUME ~failed', Serial, WellNested, NEW l \in Loops, NEW x, Due(l, x)'
             PROVE  /\ x \in Region(l) => <<l, "item">> \in sockets'
                    /\ x \notin Region(l) => Ready(l)'
  BY <1>s DEF SocketInv
<1>f. ~failed /\ poison = {} /\ (Enter(n) \/ Regular(n))
  BY Faultless
<1>h. \A y : Due(l, y) => /\ y \in Region(l) => <<l, "item">> \in sockets
                          /\ y \notin Region(l) => Ready(l)
  BY <1>f DEF SocketInv
<1>n. l \in Nodes /\ l \notin Region(l) /\ Region(l) \cap After(l) = {}
  BY LoopsNodes DEF WellNested, After
\* What the step keeps of what l has to offer, if it is promised somewhere.
<1>k. ASSUME NEW y, Due(l, y)
      PROVE  /\ <<l, "item">> \in sockets => <<l, "item">> \in sockets' \/ (l = n /\ Done(n))
             /\ Ready(l) => Ready(l)'
  <2>1. CASE ~Item(n) /\ ~Done(n)
    <3>1. sockets' = sockets /\ value \subseteq value'
      <4>1. CASE Enter(n) \/ Stop(n)
        BY <4>1 DEF Enter, Stop, End
      <4>2. CASE (\E port \in Outs(Kind(n)) : Leave(n, port)) \/ Fork(n) \/ OpenLoop(n) \/ Break(n)
        BY <4>2 DEF Leave, Fork, OpenLoop, Break
      <4> QED BY <1>f, <2>1, <4>1, <4>2 DEF Regular
    <3> QED BY <1>0, <1>s, <3>1 DEF Ready
  <2>2. CASE Item(n) \/ Done(n)
    <3>1. n \in open /\ IterationOver(n)
      BY <2>2 DEF Item, Done
    <3>2. n \in Loops
      BY <3>1 DEF SingleInv
    <3>3. l \notin Region(n)
      BY <1>f, <1>k, <3>1, IterationKeeps
    <3>4. /\ Kept(n) \subseteq value'
          /\ \A v \in KeptSockets(n) : v \in sockets' \/ (v = <<n, "item">> /\ Done(n))
      BY <2>2 DEF Item, Done
    <3>5. \A v \in sockets : v[1] = l => v \in KeptSockets(n)
      BY <3>3 DEF KeptSockets, Body
    <3>6. <<l, "item">>[1] = l /\ <<l, "failedCount">>[1] = l /\ (<<l, "item">> = <<n, "item">> => l = n)
          /\ <<l, "failedCount">> # <<n, "item">>
      OBVIOUS
    <3>7. ASSUME Ready(l), NEW c \in OfKind("collect"), scope[c] = l PROVE c \in value'
      <4>1. c \in value /\ Kind(c) = "collect"
        BY <3>7 DEF Ready, OfKind
      <4>2. c \in Region(n) => l = n
        BY <1>0, <3>2, <3>3, <3>7, ListKept
      <4>3. c \in Kept(n)
        BY <3>7, <4>1, <4>2 DEF Kept, Body
      <4> QED BY <3>4, <4>3
    <3>8. Ready(l) => <<l, "failedCount">> \in sockets'
      BY <3>4, <3>5, <3>6 DEF Ready
    <3>9. <<l, "item">> \in sockets => <<l, "item">> \in sockets' \/ (l = n /\ Done(n))
      BY <3>4, <3>5, <3>6
    <3> QED BY <1>0, <1>s, <3>7, <3>8, <3>9 DEF Ready
  <2> QED BY <2>1, <2>2
<1>1. CASE Due(l, x)
  <2>1. ASSUME x \in Region(l), l = n, Done(n) PROVE FALSE
    <3>1. IterationOver(n)
      BY <2>1 DEF Done
    <3> QED BY <1>f, <1>1, <2>1, <3>1, IterationKeeps
  <2> QED BY <1>h, <1>k, <1>1, <2>1
<1>2. ASSUME NEW e, e.to = x, Sends(n, e), l # n, Due(l, n)
      PROVE  /\ x \in Region(l) => <<l, "item">> \in sockets'
             /\ x \notin Region(l) => Ready(l)'
  <2>1. e \in Flow /\ e.from = n /\ n \in running \cup open
    BY <1>2 DEF Sends
  <2>3. n \in Region(l) <=> x \in Region(l)
    <3>1. n \in Region(l) \cup After(l)
      BY <1>f, <1>2 DEF LoopInv
    <3> QED BY <1>2, <1>n, <2>1, <3>1, RegionClosed, AfterClosed
  <2> QED BY <1>h, <1>k, <1>2, <2>3
<1>3. ASSUME NEW e, e.to = x, Sends(n, e), l = n
      PROVE  /\ x \in Region(l) => <<l, "item">> \in sockets'
             /\ x \notin Region(l) => Ready(l)'
  <2>1. CASE Item(n) /\ e \in Wired(n, "body")
    <3>1. x \in Region(l)
      BY <1>3, <2>1, RegionClosed
    <3>2. <<n, "item">> \in sockets'
      BY <2>1 DEF Item
    <3> QED BY <1>3, <3>1, <3>2
  <2>2. CASE Done(n) /\ e \in Wired(n, "done")
    <3>1. x \in After(l)
      BY <1>3, <2>2, AfterClosed
    <3>2. x \notin Region(l)
      BY <1>n, <3>1
    <3>3. <<n, "failedCount">> \in sockets' /\ \A c \in OfKind("collect") : scope[c] = n => c \in value'
      BY <2>2 DEF Done
    <3> QED BY <1>0, <1>s, <1>3, <3>2, <3>3 DEF Ready
  <2> QED BY <1>3, <2>1, <2>2, LoopSends
<1> QED BY <1>1, <1>2, <1>3, DueStep

\* At a node that is entered, the data edge's value is there.
LEMMA ValueIsThere ==
    ASSUME IInv, PortInv, ScopeInv, SingleInv, AvailInv, HeldInv, SocketInv
    PROVE  ValueThere
<1> SUFFICES ASSUME Data # NoData, Data.to \in running, ~failed, Serial, WellNested, Data.from \in Nodes,
                    Kind(Data.from) # "source", ~CollectInside, ~Misplaced
             PROVE  Delivered
  BY DEF ValueThere
<1>1. pc = "running" /\ Data.to \in Nodes /\ Executable(Data.to)
  BY DEF IInv, RunInv, SingleInv
<1>2. Start # NoNode /\ Runnable
  BY <1>1, OrderAssumption DEF IInv, StartInv, PortInv
<1>3. Due(availabilityProducer(Data.from), Data.to)
  BY <1>1, <1>2 DEF AvailInv, Guaranteed, Due
<1>4. CASE Kind(Data.from) = "collect" /\ scope[Data.from] # NoNode
  <2>1. Due(scope[Data.from], Data.to) /\ scope[Data.from] \in Loops
    BY <1>1, <1>3, <1>4 DEF availabilityProducer, ScopeInv
  <2>2. Data.to \notin Region(scope[Data.from])
    BY <1>4 DEF CollectInside
  <2>3. Ready(scope[Data.from]) /\ Data.from \in OfKind("collect")
    BY <1>4, <2>1, <2>2 DEF SocketInv, OfKind
  <2> QED BY <1>4, <2>3 DEF Ready, Delivered
<1>5. CASE ~(Kind(Data.from) = "collect" /\ scope[Data.from] # NoNode)
  <2>1. Due(Data.from, Data.to)
    BY <1>3, <1>5 DEF availabilityProducer
  <2>2. Data.from \in value
    BY <2>1 DEF HeldInv
  <2>3. ASSUME Kind(Data.from) = "forEach", Data.socket \in {"item", "failedCount"}
        PROVE  <<Data.from, Data.socket>> \in sockets
    <3>1. Data.from \in Loops
      BY <2>3 DEF Loops, OfKind
    <3>2. CASE Data.socket = "item"
      <4>1. Data.to \in Region(Data.from)
        BY <2>3, <3>2 DEF Misplaced
      <4> QED BY <2>1, <3>1, <3>2, <4>1 DEF SocketInv
    <3>3. CASE Data.socket = "failedCount"
      <4>1. Data.to \notin Region(Data.from)
        BY <2>3, <3>3 DEF Misplaced
      <4> QED BY <2>1, <3>1, <3>3, <4>1 DEF SocketInv, Ready
    <3> QED BY <2>3, <3>2, <3>3
  <2> QED BY <2>2, <2>3 DEF Delivered
<1> QED BY <1>4, <1>5

-----------------------------------------------------------------------------
(* The parts together.                                                      *)

GraphInv == graph \in Graphs

Whole == /\ GraphInv /\ IInv /\ TypeOK /\ PortInv /\ ScopeInv /\ SingleInv /\ RootInv /\ WitnessInv /\ WitnessReal
         /\ AvailInv /\ LeadInv /\ HeldInv /\ LoopInv /\ SocketInv

\* The facts about a run that do not hold of one yet to begin.
LEMMA NotBegun ==
    ASSUME tokens = {}, running = {}, open = {}, ran = {}
    PROVE  LeadInv /\ HeldInv /\ LoopInv /\ SocketInv
<1>1. \A m, x : ~Due(m, x)
  BY DEF Due
<1> QED BY <1>1 DEF LeadInv, HeldInv, LoopInv, SocketInv

\* The parts hold at first.
LEMMA InitWhole == Init => Whole
<1> SUFFICES ASSUME Init PROVE Whole
  OBVIOUS
<1>0. /\ pc = "structure" /\ diag = {} /\ tokens = {} /\ running = {} /\ failing = {} /\ open = {} /\ ran = {}
      /\ graph \in Graphs
  BY DEF Init
<1>1. IInv /\ TypeOK /\ GraphInv
  BY <1>0, InitIInv, InitTypeOK DEF GraphInv
<1>o. One
  BY <1>0 DEF One
<1>2. PortInv /\ ScopeInv /\ SingleInv /\ RootInv /\ AvailInv
  BY <1>0, <1>o DEF PortInv, ScopeInv, SingleInv, RootInv, AvailInv
<1>3. WitnessInv /\ WitnessReal
  BY <1>0 DEF WitnessInv, WitnessReal, Settled
<1>4. LeadInv /\ HeldInv /\ LoopInv /\ SocketInv
  BY <1>0, NotBegun
<1> QED BY <1>1, <1>2, <1>3, <1>4 DEF Whole

\* Every step keeps them all.
LEMMA NextWhole == Whole /\ Next => Whole'
<1> SUFFICES ASSUME Whole, Next PROVE Whole'
  OBVIOUS
<1>w. /\ GraphInv /\ IInv /\ TypeOK /\ PortInv /\ ScopeInv /\ SingleInv /\ RootInv /\ WitnessInv /\ WitnessReal
      /\ AvailInv /\ LeadInv /\ HeldInv /\ LoopInv /\ SocketInv
  BY DEF Whole
<1>g. GraphInv'
  BY <1>w, ValidateFrame, RunFrame DEF Next, GraphInv
<1>1. IInv'
  BY <1>w, NextIInv
<1>2. TypeOK'
  BY <1>1, <1>w, ValidateTypes, RunTypes DEF Next
<1>3. PortInv' /\ ScopeInv' /\ SingleInv' /\ RootInv'
  BY <1>1, <1>w, PortStep, ScopeInvStep, SingleNext
<1>4. WitnessInv' /\ WitnessReal' /\ AvailInv'
  BY <1>w, WitnessStep, WitnessRealStep, AvailStep
<1>5. LeadInv' /\ HeldInv' /\ LoopInv' /\ SocketInv'
  <2>1. CASE Validate
    <3>1. pc \notin {"running", "ended"} /\ tokens' = tokens /\ running' = running /\ open' = open /\ ran' = ran
      BY <2>1, ValidateFrame
    <3>2. tokens' = {} /\ running' = {} /\ open' = {} /\ ran' = {}
      BY <1>w, <3>1 DEF IInv, RunInv, LeadInv
    <3>3. \A m, x : ~Due(m, x)'
      BY <3>2 DEF Due
    <3> QED BY <3>2, <3>3 DEF LeadInv, HeldInv, LoopInv, SocketInv
  <2>2. CASE Begin
    <3>1. /\ pc = "verdict" /\ pc' = "running" /\ tokens' = tokens /\ running' = {Start} /\ open' = open
          /\ ran' = ran /\ must' = must /\ scope' = scope
      BY <2>2 DEF Begin, checkVars
    <3>2. tokens = {} /\ open = {} /\ ran = {}
      BY <1>w, <3>1 DEF IInv, RunInv, LeadInv
    <3>3. Start' = Start
      BY <2>2, SameGraph DEF Begin, checkVars
    <3>4. must'[Start] = {}
      BY <1>1, <3>1, <3>3, OrderAssumption DEF IInv, StartInv, SweepInv, Settled
    <3>5. \A m, x : ~Due(m, x)'
      BY <3>1, <3>2, <3>4 DEF Due
    <3> QED BY <3>1, <3>2, <3>4, <3>5 DEF LeadInv, HeldInv, LoopInv, SocketInv
  <2>3. ASSUME NEW n \in Nodes, RunStep(n) PROVE LeadInv' /\ HeldInv' /\ LoopInv' /\ SocketInv'
    BY <1>w, <2>3, LeadStep, HeldStep, LoopStep, SocketStep
  <2> QED BY <2>1, <2>2, <2>3, RunFrame DEF Next
<1> QED BY <1>g, <1>1, <1>2, <1>3, <1>4, <1>5 DEF Whole

\* So does a step that changes nothing.
LEMMA StutterWhole == Whole /\ UNCHANGED vars => Whole'
<1> SUFFICES ASSUME Whole, UNCHANGED vars PROVE Whole'
  OBVIOUS
<1>w. /\ GraphInv /\ IInv /\ TypeOK /\ PortInv /\ ScopeInv /\ SingleInv /\ RootInv /\ WitnessInv /\ WitnessReal
      /\ AvailInv /\ LeadInv /\ HeldInv /\ LoopInv /\ SocketInv
  BY DEF Whole
<1>0. /\ graph' = graph /\ pc' = pc /\ diag' = diag /\ scope' = scope /\ must' = must /\ at' = at
      /\ changed' = changed /\ walk' = walk /\ tokens' = tokens /\ poison' = poison /\ running' = running
      /\ failing' = failing /\ open' = open /\ items' = items /\ ran' = ran /\ value' = value
      /\ sockets' = sockets /\ failed' = failed /\ joinError' = joinError
  BY DEF vars
<1>1. IInv' /\ GraphInv'
  BY <1>w, <1>0, NextIInv DEF GraphInv
<1>2. TypeOK'
  BY <1>w, <1>0, SameGraph DEF TypeOK
<1>s. /\ Loops' = Loops /\ (\A l : Region(l)' = Region(l)) /\ (\A k : OfKind(k)' = OfKind(k))
      /\ (\A m : Kind(m)' = Kind(m) /\ Executable(m)' = Executable(m)) /\ Start' = Start /\ Data' = Data
      /\ (\A e : through(e)' = through(e)) /\ (\A a, b : Leads(a, b)' = Leads(a, b))
      /\ Runnable' = Runnable /\ (Serial' <=> Serial)
  BY <1>0, SameRegions, SameGraph, SameMeets, SameLeads DEF Data, Runnable, Serial
<1>o. (One' <=> One) /\ \A l : Within(l)' <=> Within(l)
  BY <1>0, <1>s DEF One, Within
<1>3. PortInv' /\ ScopeInv' /\ SingleInv' /\ RootInv'
  BY <1>w, <1>0, <1>s, <1>o DEF PortInv, ScopeInv, SingleInv, RootInv
<1>d. \A m, x : Due(m, x)' <=> Due(m, x)
  BY <1>0, <1>s DEF Due
<1>4. LeadInv' /\ HeldInv'
  BY <1>w, <1>0, <1>s, <1>d DEF LeadInv, HeldInv
<1>n. (WellNested' <=> WellNested) /\ \A l : After(l)' = After(l)
  BY <1>0, SameNesting
<1>y. \A l : Ready(l)' <=> Ready(l)
  BY <1>0, <1>s DEF Ready
<1>5. LoopInv' /\ SocketInv'
  BY <1>w, <1>0, <1>s, <1>d, <1>n, <1>y DEF LoopInv, SocketInv
<1>6. WitnessInv' /\ WitnessReal' /\ AvailInv'
  <2>1. \A x : Around(x)' = Around(x)
    BY <1>0 DEF Around, Closure, Start, OfKind, Flow, Executable, Kind
  <2>2. WitnessInv'
    BY <1>w, <1>0, <1>s, <2>1 DEF WitnessInv, Paths
  <2>3. Closure({Start}, {}, {Data.from})' = Closure({Start}, {}, {Data.from})
    BY <1>0 DEF Closure, Start, OfKind, Flow, Executable, Kind, Data
  <2>4. WitnessReal'
    BY <1>w, <1>0, <1>s, <2>3 DEF WitnessReal
  <2>5. Guaranteed' = Guaranteed
    BY <1>0, <1>s DEF Guaranteed, availabilityProducer, Data, Kind, Executable, Start, OfKind
  <2>6. AvailInv'
    BY <1>w, <1>0, <1>s, <2>5 DEF AvailInv
  <2> QED BY <2>2, <2>4, <2>6
<1> QED BY <1>1, <1>2, <1>3, <1>4, <1>5, <1>6 DEF Whole

\* The inductive invariant of validation and run.
LEMMA WholeInvariant == Spec => []Whole
<1>1. Whole /\ [Next]_vars => Whole'
  BY NextWhole, StutterWhole
<1> QED BY InitWhole, <1>1, PTL DEF Spec

-----------------------------------------------------------------------------
(* Types along the data edge.                                               *)


\* A prefix of a prefix is a prefix.
LEMMA BelowTransitive ==
    ASSUME NEW a \in Seq(Segments), NEW b \in Seq(Segments), NEW c \in Seq(Segments), Below(a, b), Below(b, c)
    PROVE  Below(a, c)
<1>1. Len(c) < Len(b) /\ Len(b) < Len(a) /\ Len(a) \in Nat /\ Len(b) \in Nat /\ Len(c) \in Nat
  BY DEF Below
<1>2. SubSeq(a, 1, Len(b)) = b /\ SubSeq(b, 1, Len(c)) = c
  BY DEF Below
<1>3. \A i \in 1 .. Len(b) : a[i] = b[i]
  BY <1>1, <1>2
<1>4. \A i \in 1 .. Len(c) : b[i] = c[i]
  BY <1>1, <1>2
<1>5. \A i \in 1 .. Len(c) : a[i] = c[i]
  BY <1>1, <1>3, <1>4
<1> DEFINE s == SubSeq(a, 1, Len(c))
<1>6. s \in Seq(Segments) /\ Len(s) = Len(c) /\ \A i \in 1 .. Len(c) : s[i] = a[i]
  BY <1>1
<1> HIDE DEF s
<1>7. s = c
  BY <1>5, <1>6
<1> QED BY <1>1, <1>7 DEF Below, s

\* IsSubtypeOf is transitive, over lists and any too.
LEMMA SubtypeTransitive ==
    ASSUME NEW a \in TypeNames, NEW b \in TypeNames, NEW c \in TypeNames,
           IsSubtypeOf(a, b), IsSubtypeOf(b, c)
    PROVE  IsSubtypeOf(a, c)
<1>t. /\ a.lists \in Nat /\ b.lists \in Nat /\ c.lists \in Nat
      /\ a.name \in Seq(Segments) /\ b.name \in Seq(Segments) /\ c.name \in Seq(Segments)
      /\ c.name # <<>> /\ b.name # <<>>
  BY DEF TypeNames
<1>1. a.lists >= b.lists /\ b.lists >= c.lists
  BY <1>t DEF IsSubtypeOf
<1>2. CASE c.name = TypeAny.name
  BY <1>t, <1>1, <1>2 DEF IsSubtypeOf
<1>3. CASE c.name # TypeAny.name /\ b # c
  <2>1. b.lists = c.lists /\ Below(b.name, c.name)
    BY <1>3 DEF IsSubtypeOf
  <2>2. ASSUME b.name = TypeAny.name PROVE FALSE
    <3>1. Len(c.name) # 0 /\ Len(c.name) \in Nat /\ Len(b.name) > Len(c.name) /\ Len(b.name) \in Nat
      BY <1>t, <2>1 DEF Below
    <3>2. Len(TypeAny.name) = 1
      BY DEF TypeAny, Scalar
    <3>3. Len(b.name) = 1
      BY <2>2, <3>2
    <3> QED BY <3>1, <3>3
  <2>3. CASE a = b
    BY <2>3
  <2>4. CASE a # b
    <3>1. a.lists = b.lists /\ Below(a.name, b.name)
      BY <2>2, <2>4 DEF IsSubtypeOf
    <3>2. Below(a.name, c.name)
      BY <1>t, <2>1, <3>1, BelowTransitive
    <3> QED BY <2>1, <3>1, <3>2 DEF IsSubtypeOf
  <2> QED BY <2>3, <2>4
<1>4. CASE b = c
  BY <1>4
<1> QED BY <1>2, <1>3, <1>4

\* A value that fits the elements of a list fits the list as a list of one.
LEMMA WrapFits ==
    ASSUME NEW v \in TypeNames, NEW t \in TypeNames, IsList(t), IsSubtypeOf(v, ElementType(t))
    PROVE  IsSubtypeOf(ListOf(v), t)
<1>1. v.lists \in Nat /\ t.lists \in Nat /\ t.lists > 0
  BY DEF TypeNames, IsList
<1>2. /\ ElementType(t).lists = t.lists - 1 /\ ElementType(t).name = t.name
      /\ ListOf(v).lists = v.lists + 1 /\ ListOf(v).name = v.name
  BY DEF TypeNames, ElementType, ListOf
<1>3. CASE t.name = TypeAny.name /\ v.lists >= t.lists - 1
  BY <1>1, <1>2, <1>3 DEF IsSubtypeOf
<1>4. CASE v = ElementType(t)
  <2>1. v.lists = t.lists - 1 /\ v.name = t.name
    BY <1>2, <1>4
  <2>2. ListOf(v).lists = t.lists /\ ListOf(v).name = t.name
    BY <1>1, <1>2, <2>1
  <2>3. ListOf(v) \in [lists : Nat, name : Seq(Segments)] /\ t \in [lists : Nat, name : Seq(Segments)]
    BY <1>1 DEF TypeNames, ListOf
  <2>4. ListOf(v) = t
    BY <2>2, <2>3
  <2> QED BY <2>4 DEF IsSubtypeOf
<1>5. CASE v.lists = t.lists - 1 /\ Below(v.name, t.name)
  BY <1>1, <1>2, <1>5 DEF IsSubtypeOf
<1> QED BY <1>2, <1>3, <1>4, <1>5 DEF IsSubtypeOf

\* The element type of a list is a type.
LEMMA ElementTyped ==
    ASSUME NEW t \in TypeNames, IsList(t)
    PROVE  ElementType(t) \in TypeNames
  BY DEF TypeNames, IsList, ElementType
\* Names of one and of two segments.
LEMMA OneSegment ==
    ASSUME NEW a
    PROVE  /\ Len(<<a>>) = 1 /\ <<a>>[1] = a
           /\ a \in Segments => <<a>> \in Seq(Segments) \ {<<>>}
<1>1. Len(<<a>>) = 1 /\ <<a>>[1] = a
  OBVIOUS
<1>2. a \in Segments => <<a>> \in Seq(Segments)
  OBVIOUS
<1>3. <<a>> # <<>>
  OBVIOUS
<1> QED BY <1>1, <1>2, <1>3

\* A name of two segments.
LEMMA TwoSegments ==
    ASSUME NEW a, NEW b
    PROVE  /\ Len(<<a, b>>) = 2 /\ <<a, b>>[1] = a
           /\ a \in Segments /\ b \in Segments => <<a, b>> \in Seq(Segments) \ {<<>>}
<1>1. Len(<<a, b>>) = 2 /\ <<a, b>>[1] = a
  OBVIOUS
<1>2. a \in Segments /\ b \in Segments => <<a, b>> \in Seq(Segments)
  OBVIOUS
<1>3. <<a, b>> # <<>>
  OBVIOUS
<1> QED BY <1>1, <1>2, <1>3

\* The types a value may have are type names.
LEMMA ValuesTyped == ValueTypes \subseteq TypeNames
<1>1. /\ <<"any">> \in Seq(Segments) \ {<<>>} /\ <<"bool">> \in Seq(Segments) \ {<<>>}
      /\ <<"number">> \in Seq(Segments) \ {<<>>} /\ <<"string">> \in Seq(Segments) \ {<<>>}
      /\ <<"datetime">> \in Seq(Segments) \ {<<>>} /\ <<"path">> \in Seq(Segments) \ {<<>>}
      /\ <<"media">> \in Seq(Segments) \ {<<>>} /\ <<"tvseries">> \in Seq(Segments) \ {<<>>}
      /\ <<"movie">> \in Seq(Segments) \ {<<>>} /\ <<"agent">> \in Seq(Segments) \ {<<>>}
      /\ <<"scanner">> \in Seq(Segments) \ {<<>>} /\ <<"error">> \in Seq(Segments) \ {<<>>}
  BY OneSegment, SegmentsAssumption
<1>2. /\ <<"path", "dir">> \in Seq(Segments) \ {<<>>} /\ <<"path", "file">> \in Seq(Segments) \ {<<>>}
      /\ <<"media", "file">> \in Seq(Segments) \ {<<>>} /\ <<"agent", "slug">> \in Seq(Segments) \ {<<>>}
      /\ <<"scanner", "slug">> \in Seq(Segments) \ {<<>>}
  BY TwoSegments, SegmentsAssumption
<1>3. ScalarTypes \subseteq TypeNames
  <2>1. \A x \in Seq(Segments) \ {<<>>} : Scalar(x) \in TypeNames
    BY DEF Scalar, TypeNames
  <2> QED BY <1>1, <1>2, <2>1 DEF ScalarTypes, TypeAny, TypeBool, TypeNumber, TypeString, TypeDatetime,
                                  TypePath, TypePathDir, TypePathFile, TypeMedia, TypeMediaFile, TypeTVSeries,
                                  TypeMovie, TypeAgent, TypeAgentSlug, TypeScanner, TypeScannerSlug, TypeError
<1>4. \A t \in TypeNames : ListOf(t) \in TypeNames
  BY DEF ListOf, TypeNames
<1> QED BY <1>3, <1>4 DEF ValueTypes

\* The names of the types a value may have, and those that share a representation.
ShortNames == {<<"any">>, <<"bool">>, <<"number">>, <<"string">>, <<"datetime">>, <<"path">>, <<"media">>,
               <<"tvseries">>, <<"movie">>, <<"agent">>, <<"scanner">>, <<"error">>, <<"path", "dir">>,
               <<"path", "file">>, <<"media", "file">>, <<"agent", "slug">>, <<"scanner", "slug">>}
SharedNames == {<<"string">>, <<"agent", "slug">>, <<"scanner", "slug">>, <<"media", "file">>, <<"path", "file">>}

\* The names of the types a value may have.
LEMMA ValueNames == \A v \in ValueTypes : v.name \in ShortNames
<1>1. \A v \in ScalarTypes : v.name \in ShortNames /\ ListOf(v).name = v.name
  BY DEF ScalarTypes, TypeAny, TypeBool, TypeNumber, TypeString, TypeDatetime, TypePath, TypePathDir,
         TypePathFile, TypeMedia, TypeMediaFile, TypeTVSeries, TypeMovie, TypeAgent, TypeAgentSlug,
         TypeScanner, TypeScannerSlug, TypeError, Scalar, ListOf, ShortNames
<1> QED BY <1>1 DEF ValueTypes

\* Names are of one or two segments.
LEMMA TwoIsLast == \A k \in Nat : k <= 2 /\ 1 < k => k = 2
  OBVIOUS

\* Nothing is below a type that shares its representation.
LEMMA SharedAreLowest ==
    ASSUME NEW s \in ShortNames,
           NEW n \in SharedNames
    PROVE  ~Below(s, n)
<1>1. SUFFICES ASSUME Below(s, n) PROVE FALSE
  OBVIOUS
<1> DEFINE Short(x) == Len(x) <= 2 /\ Len(x) \in Nat /\ x \in Seq(Segments) /\ (Len(x) = 2 => x[1] # "string")
<1>a. ASSUME NEW a \in Segments PROVE Short(<<a>>)
  <2>1. Len(<<a>>) = 1 /\ <<a>> \in Seq(Segments)
    BY OneSegment
  <2> QED BY <2>1
<1>b. \A a, b \in Segments : a # "string" => Short(<<a, b>>)
  BY TwoSegments
<1> HIDE DEF Short
<1>c. Short(s)
  BY <1>a, <1>b, SegmentsAssumption DEF ShortNames
<1>2. Len(s) <= 2 /\ Len(s) \in Nat /\ s \in Seq(Segments) /\ (Len(s) = 2 => s[1] # "string")
  BY <1>c DEF Short
<1>3. Len(n) < Len(s) /\ SubSeq(s, 1, Len(n)) = n
  BY <1>1 DEF Below
<1>n. n = <<"string">> \/ Len(n) = 2
  BY TwoSegments DEF SharedNames
<1>4. n = <<"string">>
  BY <1>2, <1>3, <1>n
<1>5. Len(n) = 1 /\ n[1] = "string"
  BY <1>4
<1>6. SubSeq(s, 1, 1)[1] = s[1]
  BY <1>2, <1>3, <1>5
<1>7. s[1] = "string" /\ Len(s) = 2
  <2>1. SubSeq(s, 1, 1) = n
    BY <1>3, <1>5
  <2>2. s[1] = "string"
    BY <1>5, <1>6, <2>1
  <2>3. Len(s) \in Nat /\ Len(s) <= 2
    BY <1>2
  <2>4. 1 < Len(s)
    BY <1>3, <1>5
  <2>5. Len(s) = 2
    BY <2>3, <2>4, TwoIsLast, Zenon
  <2> QED BY <2>2, <2>5
<1> QED BY <1>2, <1>7

\* What fits a type that shares its representation is of that very type.
LEMMA SharedTakes ==
    ASSUME NEW p \in TypeNames, NEW t \in TypeNames, SameRepresentation(p, t),
           NEW v \in ValueTypes, IsSubtypeOf(v, p)
    PROVE  SameRepresentation(v, t)
<1>1. PICK rep \in Representations : {Scalar(p.name), Scalar(t.name)} \subseteq rep
  BY DEF SameRepresentation
<1>2. p.name \in SharedNames
  <2>1. Scalar(p.name).name = p.name
    BY DEF Scalar
  <2>2. Scalar(p.name) \in {TypeString, TypeAgentSlug, TypeScannerSlug, TypeMediaFile, TypePathFile}
    BY <1>1 DEF Representations
  <2>3. \A x \in {TypeString, TypeAgentSlug, TypeScannerSlug, TypeMediaFile, TypePathFile} :
          x.name \in SharedNames
    BY DEF TypeString, TypeAgentSlug, TypeScannerSlug, TypeMediaFile, TypePathFile, Scalar, SharedNames
  <2> QED BY <2>1, <2>2, <2>3
<1>3. p.name # TypeAny.name
  <2>1. TypeAny.name = <<"any">>
    BY DEF TypeAny, Scalar
  <2>2. \A x \in SharedNames : x # <<"any">>
    BY DEF SharedNames
  <2> QED BY <1>2, <2>1, <2>2
<1>4. ~Below(v.name, p.name)
  BY <1>2, ValueNames, SharedAreLowest
<1>5. v = p
  BY <1>3, <1>4 DEF IsSubtypeOf
<1> QED BY <1>5

\* The transform made up per connection is in no registry.
LEMMA RegistryNames == \A x \in transformRegistry : x.name # "wrap"
<1> SUFFICES ASSUME NEW x \in transformRegistry PROVE x.name # "wrap"
  OBVIOUS
<1>1. CASE x = [name |-> "parentDir", from |-> TypePathFile, to |-> TypePathDir]
  BY <1>1
<1>2. CASE x = [name |-> "eachFile", from |-> TypePathDir, to |-> TypePathFile]
  BY <1>2
<1>3. CASE x = [name |-> "toString", from |-> TypePath, to |-> TypeString]
  BY <1>3
<1>4. CASE x = [name |-> "media.file.parentDir", from |-> TypeMediaFile, to |-> TypePathDir]
  BY <1>4
<1>5. CASE x = [name |-> "parseNumber", from |-> TypeString, to |-> TypeNumber]
  BY <1>5
<1>6. CASE x = [name |-> "format", from |-> TypeNumber, to |-> TypeString]
  BY <1>6
<1> QED BY <1>1, <1>2, <1>3, <1>4, <1>5, <1>6, Zenon DEF transformRegistry

\* An edge without type errors delivers what its target takes.
LEMMA NoTypeErrors ==
    ASSUME Data.produced \in TypeNames, Data.target \in TypeNames, TypeErrors = {},
           ~(Data.transform = "" /\ CanConnect(Data.produced, Data.target).unsafe),
           NEW v \in ValueTypes, IsSubtypeOf(v, Data.produced)
    PROVE  Takes(Converted(v), Data.target)
<1> DEFINE p == Data.produced
           t == Data.target
<1>v. v \in TypeNames
  BY ValuesTyped
<1>1. CASE Data.transform = ""
  <2>1. CanConnect(p, t).direct
    BY <1>1 DEF TypeErrors
  <2>2. IsSubtypeOf(p, t) \/ SameRepresentation(p, t)
    <3>1. IsSubtypeOf(p, t) \/ IsSubtypeOf(t, p) \/ SameRepresentation(p, t)
      BY <2>1 DEF CanConnect
    <3>2. ~(~IsSubtypeOf(p, t) /\ IsSubtypeOf(t, p))
      BY <1>1 DEF CanConnect
    <3> QED BY <3>1, <3>2
  <2>3. Converted(v) = v
    BY <1>1 DEF Converted
  <2>4. IsSubtypeOf(p, t) => IsSubtypeOf(v, t)
    BY <1>v, SubtypeTransitive
  <2>5. SameRepresentation(p, t) => SameRepresentation(v, t)
    BY SharedTakes
  <2> QED BY <2>2, <2>3, <2>4, <2>5 DEF Takes
<1>2. CASE Data.transform = "wrap"
  <2>1. Transforms # {}
    BY <1>2 DEF TypeErrors, If
  <2>2. {x \in transformRegistry : x.name = "wrap"} = {}
    BY RegistryNames
  <2>3. wrapTransform(p, t) # {}
    BY <1>2, <2>1, <2>2 DEF Transforms, ResolveTransform
  <2>4. IsList(t) /\ IsSubtypeOf(p, ElementType(t))
    BY <2>3 DEF wrapTransform
  <2>5. ElementType(t) \in TypeNames
    BY <2>4, ElementTyped
  <2>6. IsSubtypeOf(v, ElementType(t))
    BY <1>v, <2>4, <2>5, SubtypeTransitive
  <2>7. IsSubtypeOf(ListOf(v), t)
    BY <1>v, <2>4, <2>6, WrapFits
  <2> QED BY <1>2, <2>7 DEF Converted, Takes
<1>3. CASE Data.transform # "" /\ Data.transform # "wrap"
  <2>1. Transforms # {}
    BY <1>3 DEF TypeErrors, If
  <2> DEFINE x == CHOOSE x \in Transforms : TRUE
  <2>2. x \in Transforms
    BY <2>1
  <2> HIDE DEF x
  <2>3. IF ~IsSubtypeOf(p, x.from) THEN {"data.transformInputMismatch"} = {}
        ELSE If(~IsSubtypeOf(x.to, t), "data.transformOutputMismatch") = {}
    BY <1>3, <2>2 DEF TypeErrors
  <2>4. IsSubtypeOf(x.to, t)
    BY <2>3 DEF If
  <2>5. Converted(v) = x.to
    BY <1>3 DEF Converted, x
  <2> QED BY <2>4, <2>5 DEF Takes
<1> QED BY <1>1, <1>2, <1>3

\* A runnable drawing has no type error: the last check saw its data edge.
TypedInv ==
    pc \in {"verdict", "running"} /\ Runnable /\ Data # NoData /\ {Data.from, Data.to} \subseteq Nodes =>
        TypeErrors = {}

\* Each type error makes the drawing unrunnable.
LEMMA TypeErrorsRefuse == TypeErrors \cap {"parallel.singleBranch"} = {}
  BY DEF TypeErrors, If

\* Only a drawing with an unresolved end, or none, is not looked at.
LEMMA TypedStep ==
    ASSUME TypedInv, PortInv, Next
    PROVE  TypedInv'
<1> SUFFICES ASSUME pc' \in {"verdict", "running"}, Runnable', Data' # NoData, {Data.from, Data.to}' \subseteq Nodes
             PROVE  TypeErrors' = {}
  BY DEF TypedInv
<1>g. graph' = graph
  BY ValidateFrame, RunFrame DEF Next
<1>s. Data' = Data /\ TypeErrors' = TypeErrors
  BY <1>g DEF Data, TypeErrors, Transforms
<1>1. CASE Run
  <2>1. diag' = diag /\ pc \in {"verdict", "running"}
    BY <1>1, RunFrame
  <2> QED BY <1>s, <2>1 DEF TypedInv, Runnable
<1>2. CASE CheckTypes
  <2>1. TypeErrors \subseteq {"parallel.singleBranch"}
    BY <1>2 DEF CheckTypes, Runnable
  <2> QED BY <1>s, <2>1, TypeErrorsRefuse
<1>3. CASE CheckAvailability
  <2>1. Data = NoData \/ ~Resolved(Data.from) \/ ~Resolved(Data.to)
    BY <1>3 DEF CheckAvailability
  <2>2. diag' = diag
    BY <1>3, <2>1 DEF CheckAvailability
  <2>3. OfKind("missing") = {}
    BY <1>3, <2>2 DEF PortInv, Runnable, CheckAvailability
  <2> QED BY <1>s, <2>1, <2>3 DEF Resolved, OfKind
<1>4. CASE CheckStructure \/ CheckTerminalPlacement \/ CheckParallelJoins \/ Visit \/ EndPass \/ ScopeStep
  BY <1>4 DEF CheckStructure, CheckTerminalPlacement, CheckParallelJoins, Visit, EndPass, ScopeStep
<1> QED BY <1>1, <1>2, <1>3, <1>4 DEF Next, Validate

\* The type check holds for the rest of the run.
LEMMA TypedInvariant == Spec => []TypedInv
<1>1. Init => TypedInv
  BY DEF Init, TypedInv
<1>2. ASSUME Whole, TypedInv, [Next]_vars PROVE TypedInv'
  <2>1. CASE Next
    BY <1>2, <2>1, TypedStep DEF Whole
  <2>2. CASE UNCHANGED vars
    <3>1. graph' = graph /\ pc' = pc /\ diag' = diag
      BY <2>2 DEF vars
    <3>2. Data' = Data /\ TypeErrors' = TypeErrors /\ Runnable' = Runnable
      BY <3>1 DEF Data, TypeErrors, Transforms, Runnable
    <3> QED BY <1>2, <3>1, <3>2 DEF TypedInv
  <2> QED BY <1>2, <2>1, <2>2
<1> QED BY WholeInvariant, <1>1, <1>2, PTL DEF Spec

-----------------------------------------------------------------------------
(* What it comes to.                                                        *)

\* Every variable keeps its type, for every drawing: tokens lie on edges between
\* executable nodes, and a loop never has more items left than it opened with.
THEOREM GraphTypeCorrect == Spec => []TypeOK
<1>1. Whole => TypeOK
  BY DEF Whole
<1> QED BY WholeInvariant, <1>1, PTL

\* No accidental race (validate.go:201-204), for every drawing that passes: with
\* one edge per control port, without a Parallel node and with loops that take one
\* item at a time, there is never more than one point of control, whatever fails.
THEOREM OnePointOfControl == Spec => []SingleToken
<1>1. ASSUME Whole, OfKind("parallel") = {}, Serial
      PROVE  Cardinality(tokens) + Cardinality(running) + Cardinality(failing) <= 1
  <2>1. One
    BY <1>1 DEF Whole, SingleInv
  <2>2. ASSUME NEW S, \A x, y \in S : x = y PROVE Cardinality(S) = 0 \/ Cardinality(S) = 1
    <3>1. CASE S = {}
      BY <3>1, FS_EmptySet
    <3>2. CASE S # {}
      <4>1. PICK x : S = {x}
        BY <2>2, <3>2
      <4> QED BY <4>1, FS_Singleton
    <3> QED BY <3>1, <3>2
  <2>3. Cardinality({}) = 0
    BY FS_EmptySet
  <2>4. /\ Cardinality(tokens) = 0 \/ Cardinality(tokens) = 1
        /\ Cardinality(running) = 0 \/ Cardinality(running) = 1
        /\ Cardinality(failing) = 0 \/ Cardinality(failing) = 1
    BY <2>1, <2>2 DEF One
  <2>5. \/ tokens = {} /\ running = {}
        \/ tokens = {} /\ failing = {}
        \/ running = {} /\ failing = {}
    BY <2>1 DEF One
  <2> QED BY <2>3, <2>4, <2>5
<1>2. Whole => SingleToken
  BY <1>1 DEF SingleToken
<1> QED BY WholeInvariant, <1>2, PTL

\* No End in a loop (flow.go:330-333), for every drawing that passes: without a
\* Parallel node no run ends while a loop is open, however many items the loops
\* take at once, since all control is in the body of the outermost open loop and
\* no terminal is.
THEOREM NeverEndsInALoop == Spec => []EndsOutsideLoops
<1>1. ASSUME Whole, OfKind("parallel") = {}, NEW n \in running, Kind(n) \in {"end", "fail"} PROVE open = {}
  <2>1. pc = "running" /\ n \in Nodes
    BY <1>1 DEF Whole, IInv, RunInv
  <2>2. Runnable /\ n \in OfKind("end") \cup OfKind("fail")
    BY <1>1, <2>1 DEF Whole, PortInv, OfKind
  <2>3. \A l \in Loops : n \notin Region(l)
    BY <1>1, <2>1, <2>2 DEF Whole, ScopeInv
  <2>4. \A l \in Loops : ~Within(l)
    BY <1>1, <2>3 DEF Within
  <2> QED BY <1>1, <2>4 DEF Whole, RootInv
<1>2. Whole => EndsOutsideLoops
  BY <1>1 DEF EndsOutsideLoops
<1> QED BY WholeInvariant, <1>2, PTL

\* A refusal can be shown (flow.go:282-283), for every drawing: where the sweep
\* did not find the source of a data edge guaranteed, there is a path from Start
\* to the target around it.
THEOREM RefusalShown == Spec => []WitnessReal
<1>1. Whole => WitnessReal
  BY DEF Whole
<1> QED BY WholeInvariant, <1>1, PTL

\* A data edge that passes delivers (data.go:9-11, 118-120), for every drawing
\* whose loops nest and take one item at a time, as long as no step failed: its
\* target is entered only when the source's socket has its value, and this is not
\* one of an iteration that is over.
THEOREM DataDelivered == Spec => []ValueThere
<1>1. Whole => ValueThere
  BY ValueIsThere DEF Whole
<1> QED BY WholeInvariant, <1>1, PTL

\* Types hold (types.go:99-104, 247-263), for every drawing and every pair of
\* types: over an edge that passes and is not marked unsafe, each value the
\* source may produce arrives as one the socket takes.
THEOREM TypesHold == Spec => []TypeSafe
<1>1. ASSUME Whole, TypedInv PROVE TypeSafe
  <2> SUFFICES ASSUME Data # NoData, {Data.from, Data.to} \subseteq Nodes, pc \in {"verdict", "running"}, Runnable,
                      ~(Data.transform = "" /\ CanConnect(Data.produced, Data.target).unsafe),
                      NEW v \in ValueTypes, IsSubtypeOf(v, Data.produced)
               PROVE  Takes(Converted(v), Data.target)
    BY DEF TypeSafe
  <2>1. TypeErrors = {}
    BY <1>1 DEF TypedInv
  <2>2. graph \in Graphs
    BY <1>1 DEF Whole, GraphInv
  <2>3. Data.produced \in TypeNames /\ Data.target \in TypeNames
    BY <2>2, GraphsAssumption DEF Data
  <2> QED BY <2>1, <2>3, NoTypeErrors
<1> QED BY WholeInvariant, TypedInvariant, <1>1, PTL
=============================================================================
