--------------------------- MODULE StartupProofs ---------------------------
(***************************************************************************)
(* Proofs about Startup, for any number of built-in and custom sidecar     *)
(* types, of requests, releases, failed writes and deaths.                 *)
(***************************************************************************)
EXTENDS Startup, NaturalsInduction, WellFoundedInduction, TLAPS

Tables == [Ids -> Entry \cup {Absent}]

\* Nothing is left for start-up to seed but built-in types.
SectionsSet(d) == \A s \in Sections : d.section[s] # Unset
Filled(d) == d.admin # 0 /\ d.secret # 0 /\ SectionsSet(d)
HasBuiltins(table, n) == \A k \in 1 .. n : table[Builtins[k]] # Absent

\* A server that serves, or is about to, has a filled document; one that is
\* settled has all its built-ins too.
FilledInv ==
    /\ pc \in {"up", "propagate", "warm"} => Filled(doc)
    /\ pc = "warm" \/ settled => Filled(doc) /\ HasBuiltins(doc.table, shipped)
    /\ pc \in {"config", "merge"} => doc.admin # 0
    /\ doc.dirs => doc.section["scanner"] # Unset

\* The draft of a merge extends the document; its orders are distinct and none
\* exceeds highestOrder.
Extends(old, new) ==
    /\ \A i \in Present(old.table) : new.table[i] = old.table[i]
    /\ new.admin = old.admin /\ new.secret = old.secret /\ new.dirs = old.dirs
    /\ \A s \in Sections : old.section[s] \in {Unset, new.section[s]}
Ordered(table, h) == OrdersDistinct(table) /\ \A i \in Present(table) : table[i].order <= h
MergeInv ==
    pc = "merge" =>
        /\ Extends(doc, draft)
        /\ SectionsSet(draft)
        /\ HasBuiltins(draft.table, at - 1)
        /\ ~wrapped => Ordered(draft.table, highest)
        /\ settled => draft = doc

IInv == TypeOK /\ OrdersUnambiguous /\ RegistryFollows /\ FilledInv /\ MergeInv

-----------------------------------------------------------------------------
\* Every set of naturals but the empty one has a least element.
LEMMA LeastOf ==
    ASSUME NEW T \in SUBSET Nat, T # {}
    PROVE  \E x \in T : \A y \in T : x <= y
<1> DEFINE R == OpToRel(<, Nat)
<1>1. IsWellFoundedOn(R, Nat)
  BY NatLessThanWellFounded, Zenon
<1> HIDE DEF R
<1>2. PICK x \in T : \A y \in T : ~ (<<y, x>> \in R)
  BY <1>1, WFMin
<1>3. \A y \in T : y < x => <<y, x>> \in R
  BY DEF R, OpToRel
<1>4. \A y \in T : ~ (y < x)
  BY <1>2, <1>3, Zenon
<1>5. \A y \in T : x <= y
  BY <1>4
<1> QED BY <1>5, Zenon

\* The largest of a set of 32-bit orders.
LEMMA MaxOfOrders ==
    ASSUME NEW S \in SUBSET (MinOrder .. MaxOrder), S # {}
    PROVE  Max(S) \in S /\ \A y \in S : y <= Max(S)
<1> DEFINE T == {MaxOrder - y : y \in S}
<1>0. MaxOrder \in Nat /\ MinOrder \in Int
  BY StartupAssumption DEF MinOrder
<1>1. T \in SUBSET Nat /\ T # {}
  <2>1. \A y \in S : MaxOrder - y \in Nat
    BY <1>0
  <2> QED BY <2>1
<1>2. PICK t \in T : \A u \in T : t <= u
  BY <1>1, LeastOf
<1>3. PICK x \in S : t = MaxOrder - x
  BY <1>2
<1>4. \A y \in S : x >= y
  <2> TAKE y \in S
  <2>1. MaxOrder - y \in T
    OBVIOUS
  <2>2. x \in Int /\ y \in Int
    BY <1>0
  <2> QED BY <1>0, <1>2, <1>3, <2>1, <2>2
<1>5. Max(S) \in S /\ \A y \in S : Max(S) >= y
  BY <1>4, Zenon DEF Max
<1>6. S \subseteq Int
  BY <1>0
<1>7. \A m \in Int, y \in Int : m >= y => y <= m
  OBVIOUS
<1> HIDE DEF T
<1> QED BY <1>5, <1>6, <1>7, Zenon

\* The table of a release is well-typed, compiles and holds its built-ins.
LEMMA DefaultsCompile ==
    ASSUME NEW n \in 1 .. Len(Builtins)
    PROVE  /\ DefaultSidecarTypes(n) \in Tables
           /\ Compiles(DefaultSidecarTypes(n))
           /\ HasBuiltins(DefaultSidecarTypes(n), n)
           /\ DefaultSidecarTypes(n) # NoTable
<1> DEFINE D == DefaultSidecarTypes(n)
<1>1. DOMAIN Builtins = 1 .. Len(Builtins) /\ Len(Builtins) \in Nat /\ MaxOrder \in Nat
  BY StartupAssumption
<1>2. \A k \in 1 .. n : Builtins[k] \in BuiltinIds
  BY <1>1 DEF BuiltinIds
<1>3. \A b \in BuiltinIds : [type |-> DefaultType[b], order |-> DefaultOrder[b]] \in Entry
  BY <1>1, StartupAssumption DEF Entry, MinOrder
<1>4. \A b \in BuiltinIds : [type |-> DefaultType[b], order |-> DefaultOrder[b]] # Absent
  BY <1>3, StartupAssumption
<1>5. D \in Tables
  BY <1>2, <1>3 DEF DefaultSidecarTypes, Tables
<1>6. HasBuiltins(D, n)
  BY <1>2, <1>4 DEF DefaultSidecarTypes, HasBuiltins, Ids
<1>7. \A i \in Present(D) : i \in BuiltinIds /\ D[i].type = DefaultType[i] /\ D[i].order = DefaultOrder[i]
  BY <1>2 DEF Present, DefaultSidecarTypes
<1>8. Compiles(D)
  <2> SUFFICES ASSUME NEW i \in Present(D), NEW j \in Present(D),
                      D[i].type = D[j].type \/ D[i].order = D[j].order
               PROVE  i = j
    BY DEF Compiles, TypesDistinct, OrdersDistinct
  <2>1. /\ i \in BuiltinIds /\ D[i].type = DefaultType[i] /\ D[i].order = DefaultOrder[i]
        /\ j \in BuiltinIds /\ D[j].type = DefaultType[j] /\ D[j].order = DefaultOrder[j]
    BY <1>7, Zenon
  <2> QED BY <2>1, StartupAssumption
<1>9. D # NoTable
  <2>1. 1 \in 1 .. n /\ Builtins[1] \in Ids
    BY <1>2 DEF Ids
  <2>2. D[Builtins[1]] # Absent
    BY <1>6, <2>1 DEF HasBuiltins
  <2> HIDE DEF D
  <2> QED BY <2>1, <2>2 DEF NoTable
<1> QED BY <1>5, <1>6, <1>8, <1>9

\* What the registry is compiled to compiles.
LEMMA RecompiledCompiles ==
    ASSUME NEW table \in Tables, registry \in Tables, Compiles(registry), shipped \in 1 .. Len(Builtins)
    PROVE  /\ Recompiled(table) \in Tables
           /\ Compiles(Recompiled(table))
           /\ Compiles(table) => Recompiled(table) = NewSidecarRegistry(table)
BY DefaultsCompile DEF Recompiled, NewSidecarRegistry

-----------------------------------------------------------------------------
\* The initial documents satisfy the invariant.
LEMMA InitHolds ==
    ASSUME Init
    PROVE  IInv
<1>1. Len(Builtins) \in Nat /\ MaxOrder \in Nat /\ shipped \in 1 .. Len(Builtins)
  BY StartupAssumption DEF Init
<1>2. NoTable \in Tables /\ Present(NoTable) = {}
  BY DEF NoTable, Tables, Present
<1>3. /\ DefaultSidecarTypes(shipped) \in Tables
      /\ Compiles(DefaultSidecarTypes(shipped))
  BY <1>1, DefaultsCompile
<1>4. Blank \in Document
  BY <1>2 DEF Blank, Document, Tables
<1>5. doc.table \in {NoTable, DefaultSidecarTypes(shipped)} /\ doc \in Document
  <2>1. {Unset, DefaultValue} \subseteq {Unset} \cup Settings
    BY DEF Settings
  <2>2. doc \in [admin: {0, 1}, secret: {0}, section: [Sections -> {Unset, DefaultValue}], dirs: BOOLEAN,
                table: {NoTable, DefaultSidecarTypes(shipped)}]
    BY DEF Init
  <2>3. /\ doc.table \in Tables /\ doc.admin \in Nat /\ doc.secret \in Nat
        /\ doc.table \in {NoTable, DefaultSidecarTypes(shipped)}
    <3>1. doc.table \in {NoTable, DefaultSidecarTypes(shipped)}
      BY <2>2
    <3>2. doc.admin \in {0, 1} /\ doc.secret \in {0}
      BY <2>2
    <3> QED BY <1>2, <1>3, <3>1, <3>2
  <2>4. doc.section \in [Sections -> {Unset} \cup Settings]
    <3>1. doc.section \in [Sections -> {Unset, DefaultValue}]
      BY <2>2
    <3> QED BY <2>1, <3>1
  <2>5. /\ doc.dirs \in BOOLEAN
        /\ doc = [admin |-> doc.admin, secret |-> doc.secret, section |-> doc.section, dirs |-> doc.dirs,
                  table |-> doc.table]
    BY <2>2
  <2> QED BY <2>3, <2>4, <2>5 DEF Document, Tables
<1>6. TypeOK
  <2>1. registry \in Tables /\ draft \in Document
    BY <1>3, <1>4 DEF Init
  <2>2. at \in 1 .. shipped + 1 /\ highest \in MinOrder .. MaxOrder /\ fresh \in Nat
    BY <1>1 DEF Init, MinOrder
  <2>3. minted \in Nat /\ known \subseteq Nat /\ edits \in Nat /\ faults \in Nat
    BY DEF Init
  <2>4. pc = "admin" /\ unsure \in BOOLEAN /\ settled \in BOOLEAN /\ wrapped \in BOOLEAN
    BY DEF Init
  <2> QED BY <1>1, <1>5, <2>1, <2>2, <2>3, <2>4 DEF TypeOK, Tables
<1>7. OrdersDistinct(doc.table)
  BY <1>2, <1>3, <1>5 DEF Compiles, OrdersDistinct
<1>8. RegistryFollows
  BY <1>3 DEF Init, RegistryFollows
<1>9. FilledInv /\ MergeInv
  BY <1>5 DEF Init, FilledInv, MergeInv
<1> QED BY <1>6, <1>7, <1>8, <1>9 DEF IInv, OrdersUnambiguous

-----------------------------------------------------------------------------
\* A request that keeps the document filled and its orders distinct.
LEMMA RequestHolds ==
    ASSUME IInv, NEW new \in Document, MutateSync(new), minted' \in Nat, known' \subseteq Nat,
           Filled(new), ~wrapped => OrdersDistinct(new.table)
    PROVE  IInv'
<1>1. /\ TypeOK /\ OrdersUnambiguous /\ Compiles(registry) /\ FilledInv /\ pc = "up"
      /\ registry \in Tables /\ shipped \in 1 .. Len(Builtins)
  BY DEF IInv, MutateSync, RegistryFollows, TypeOK, Tables
<1>2. /\ doc' \in {doc, new} /\ shipped' = shipped /\ wrapped' = wrapped /\ registry' = registry
      /\ pc' = "propagate" \/ (pc' = "up" /\ unsure' = TRUE)
  BY <1>1 DEF MutateSync
<1>3. TypeOK'
  <2>1. doc' \in Document /\ registry' \in Tables
    BY <1>1, <1>2 DEF TypeOK
  <2>2. /\ draft' = draft /\ at' = at /\ highest' = highest /\ fresh' = fresh
        /\ settled' \in BOOLEAN
    BY DEF MutateSync
  <2>3. edits' \in Nat /\ faults' \in Nat
    BY <1>1 DEF MutateSync, TypeOK
  <2>4. unsure' \in BOOLEAN
    BY <1>1, Zenon DEF MutateSync, TypeOK
  <2> QED BY <1>1, <1>2, <2>1, <2>2, <2>3, <2>4 DEF TypeOK, Tables
<1>4. OrdersUnambiguous'
  BY <1>1, <1>2 DEF OrdersUnambiguous, OrdersDistinct, Present
<1>5. RegistryFollows'
  BY <1>1, <1>2 DEF RegistryFollows, Compiles, TypesDistinct, OrdersDistinct, Present
<1>6. FilledInv'
  <2>1. Filled(doc')
    BY <1>1, <1>2 DEF FilledInv
  <2>2. settled' => HasBuiltins(doc'.table, shipped)
    <3> SUFFICES ASSUME settled' PROVE HasBuiltins(doc'.table, shipped)
      OBVIOUS
    <3>1. settled /\ Present(doc.table) \subseteq Present(doc'.table)
      BY DEF MutateSync
    <3>2. \A k \in 1 .. shipped : Builtins[k] \in Ids
      BY <1>1, StartupAssumption DEF Ids, BuiltinIds
    <3>3. \A k \in 1 .. shipped : doc.table[Builtins[k]] # Absent
      BY <1>1, <3>1 DEF FilledInv, HasBuiltins
    <3> QED BY <3>1, <3>2, <3>3, Zenon DEF HasBuiltins, Present
  <2> QED BY <1>2, <2>1, <2>2 DEF FilledInv, Filled, SectionsSet, HasBuiltins, Sections
<1>7. MergeInv'
  BY <1>2 DEF MergeInv
<1> QED BY <1>3, <1>4, <1>5, <1>6, <1>7 DEF IInv

\* A request's write is propagated.
LEMMA PropagateHolds ==
    ASSUME IInv, PropagateInProcess
    PROVE  IInv'
<1>1. /\ TypeOK /\ pc = "propagate" /\ doc.table \in Tables /\ registry \in Tables /\ Compiles(registry)
      /\ shipped \in 1 .. Len(Builtins)
      /\ FilledInv /\ Filled(doc) /\ OrdersUnambiguous
  BY DEF IInv, TypeOK, PropagateInProcess, Document, Tables, RegistryFollows, FilledInv
<1>2. /\ Recompiled(doc.table) \in Tables
      /\ Compiles(Recompiled(doc.table))
      /\ Compiles(doc.table) => Recompiled(doc.table) = NewSidecarRegistry(doc.table)
  BY <1>1, RecompiledCompiles
<1>3. /\ pc' = "up" /\ registry' = Recompiled(doc.table) /\ unsure' = FALSE
      /\ UNCHANGED <<doc, draft, at, highest, fresh, shipped, minted, known, edits, faults, settled, wrapped>>
  BY DEF PropagateInProcess
<1>4. TypeOK'
  BY <1>1, <1>2, <1>3 DEF TypeOK, Tables
<1>5. OrdersUnambiguous' /\ MergeInv'
  BY <1>1, <1>3 DEF OrdersUnambiguous, OrdersDistinct, Present, MergeInv
<1>6. RegistryFollows'
  <2>1. NewSidecarRegistry(doc.table)' = NewSidecarRegistry(doc.table)
    BY <1>3 DEF NewSidecarRegistry, DefaultSidecarTypes
  <2> QED BY <1>2, <1>3, <2>1 DEF RegistryFollows, Compiles, TypesDistinct, OrdersDistinct, Present
<1>7. FilledInv'
  BY <1>1, <1>3 DEF FilledInv, Filled, SectionsSet, HasBuiltins
<1> QED BY <1>4, <1>5, <1>6, <1>7 DEF IInv

\* The same for a request that changes only the table.
LEMMA EditTableHolds ==
    ASSUME IInv, NEW table \in Tables, EditTable(table), ~wrapped => OrdersDistinct(table)
    PROVE  IInv'
<1> DEFINE new == [doc EXCEPT !.table = table]
<1>1. doc \in Document /\ Filled(doc) /\ minted' \in Nat /\ known' \subseteq Nat
  BY DEF IInv, TypeOK, FilledInv, EditTable, MutateSync
<1>2. new \in Document /\ new.table = table
  BY <1>1 DEF Document, Tables
<1>3. Filled(new)
  BY <1>1 DEF Filled, SectionsSet, Document
<1>4. MutateSync(new)
  BY DEF EditTable
<1> HIDE DEF new
<1> QED BY <1>1, <1>2, <1>3, <1>4, RequestHolds

\* Every request of the API keeps the invariant.
LEMMA EachRequestHolds ==
    ASSUME IInv, Request
    PROVE  IInv'
<1>1. /\ doc \in Document /\ doc.table \in Tables /\ minted \in Nat /\ known \subseteq Nat
      /\ shipped \in 1 .. Len(Builtins)
      /\ ~wrapped => OrdersDistinct(doc.table)
  BY DEF IInv, TypeOK, OrdersUnambiguous, Document, Tables
<1>2. pc = "up" => Filled(doc)
  BY DEF IInv, FilledInv
<1>3. ASSUME NEW type \in Types, NEW i \in Custom, CreateSidecarType(i, type)
      PROVE  IInv'
  <2> DEFINE table == [doc.table EXCEPT ![i] = [type |-> type, order |-> 0]]
  <2>0. [type |-> type, order |-> 0] \in Entry
    BY StartupAssumption DEF Entry, MinOrder
  <2>1. table \in Tables
    BY <1>1, <2>0 DEF Tables
  <2>2. Compiles(table) /\ EditTable(table)
    BY <1>3 DEF CreateSidecarType
  <2> HIDE DEF table
  <2> QED BY <2>1, <2>2, EditTableHolds DEF Compiles
<1>4. ASSUME NEW type \in Types, NEW i \in Ids, UpdateSidecarType(i, type)
      PROVE  IInv'
  <2> DEFINE table == [doc.table EXCEPT ![i].type = type]
  <2>1. doc.table[i] \in Entry
    BY <1>1, <1>4 DEF UpdateSidecarType, Present, Tables
  <2>2. [doc.table[i] EXCEPT !.type = type] \in Entry
    BY <2>1 DEF Entry
  <2>3. table \in Tables
    BY <1>1, <2>2 DEF Tables
  <2>4. Compiles(table) /\ EditTable(table)
    BY <1>4 DEF UpdateSidecarType
  <2> HIDE DEF table
  <2> QED BY <2>3, <2>4, EditTableHolds DEF Compiles
<1>5. ASSUME NEW i \in Ids, DeleteSidecarType(i)
      PROVE  IInv'
  <2> DEFINE table == [doc.table EXCEPT ![i] = Absent]
  <2>1. table \in Tables
    BY <1>1 DEF Tables
  <2>2. \A j \in Present(table) : j \in Present(doc.table) /\ table[j] = doc.table[j]
    BY <1>1 DEF Present, Tables
  <2>3. OrdersDistinct(doc.table) => OrdersDistinct(table)
    BY <2>2 DEF OrdersDistinct
  <2>4. EditTable(table)
    BY <1>5 DEF DeleteSidecarType
  <2> HIDE DEF table
  <2> QED BY <1>1, <2>1, <2>3, <2>4, EditTableHolds
<1>6. CASE ReorderSidecarTypes
  <2> DEFINE T(r) == [i \in Ids |-> IF i \in Present(doc.table)
                                    THEN [type |-> doc.table[i].type, order |-> r[i]] ELSE Absent]
  <2>1. PICK r \in [Present(doc.table) -> Orders] : Compiles(T(r)) /\ EditTable(T(r))
    BY <1>6 DEF ReorderSidecarTypes
  <2>2. \A i \in Present(doc.table) : doc.table[i] \in Entry
    BY <1>1 DEF Present, Tables
  <2>3. \A i \in Present(doc.table) : r[i] \in MinOrder .. MaxOrder
    BY <2>1, StartupAssumption
  <2>4. \A i \in Present(doc.table) : [type |-> doc.table[i].type, order |-> r[i]] \in Entry
    BY <2>2, <2>3 DEF Entry
  <2>5. T(r) \in Tables
    BY <2>4 DEF Tables
  <2>6. Compiles(T(r)) /\ EditTable(T(r))
    BY <2>1
  <2> HIDE DEF T
  <2> QED BY <2>5, <2>6, EditTableHolds DEF Compiles
<1>7. CASE ResetSidecarTypes
  BY <1>1, <1>7, DefaultsCompile, EditTableHolds DEF ResetSidecarTypes, Compiles
<1>8. ASSUME UpdateAdminUser
      PROVE  IInv'
  <2> DEFINE new == IF minted' = minted THEN doc ELSE [doc EXCEPT !.admin = minted + 1]
  <2>1. new \in Document /\ new.table = doc.table /\ minted' \in Nat /\ known' \subseteq Nat
    BY <1>1, <1>8 DEF Document, UpdateAdminUser
  <2>2. MutateSync(new)
    <3>1. minted + 1 # minted
      BY <1>1
    <3> QED BY <1>8, <3>1, Zenon DEF UpdateAdminUser
  <2>3. Filled(new)
    BY <1>1, <1>2, <2>2 DEF Filled, SectionsSet, Document, MutateSync
  <2> HIDE DEF new
  <2> QED BY <1>1, <2>1, <2>2, <2>3, RequestHolds
<1>9. CASE RotateHmacSecret
  <2> DEFINE new == [doc EXCEPT !.secret = minted + 1]
  <2>1. new \in Document /\ new.table = doc.table /\ minted' \in Nat /\ known' \subseteq Nat
    BY <1>1, <1>9 DEF Document, RotateHmacSecret
  <2>2. MutateSync(new)
    BY <1>9 DEF RotateHmacSecret
  <2>3. Filled(new)
    BY <1>1, <1>2, <2>2 DEF Filled, SectionsSet, Document, MutateSync
  <2> HIDE DEF new
  <2> QED BY <1>1, <2>1, <2>2, <2>3, RequestHolds
<1>10. ASSUME NEW s \in Sections, UpdateSection(s)
       PROVE  IInv'
  <2> DEFINE new(v) == [doc EXCEPT !.section[s] = v]
  <2>1. PICK v \in Settings : MutateSync(new(v))
    BY <1>10 DEF UpdateSection
  <2>2. new(v) \in Document /\ new(v).table = doc.table /\ minted' \in Nat /\ known' \subseteq Nat
    BY <1>1, <1>10 DEF Document, UpdateSection
  <2>3. v # Unset
    BY DEF Settings, Unset, DefaultValue
  <2>4. Filled(new(v))
    BY <1>1, <1>2, <2>1, <2>3 DEF Filled, SectionsSet, Document, MutateSync
  <2> HIDE DEF new
  <2> QED BY <1>1, <2>1, <2>2, <2>4, RequestHolds
<1>11. CASE EditScanDirectories
  <2> DEFINE new == [doc EXCEPT !.dirs = ~doc.dirs]
  <2>1. new \in Document /\ new.table = doc.table /\ minted' \in Nat /\ known' \subseteq Nat
    BY <1>1, <1>11 DEF Document, EditScanDirectories
  <2>2. MutateSync(new)
    BY <1>11 DEF EditScanDirectories
  <2>3. Filled(new)
    BY <1>1, <1>2, <2>2 DEF Filled, SectionsSet, Document, MutateSync
  <2> HIDE DEF new
  <2> QED BY <1>1, <2>1, <2>2, <2>3, RequestHolds
<1>12. CASE UpdateDirectoryScannerConfig \/ UpdateLoggingConfig \/ UpdateEventBusConfig
  BY <1>10, <1>12 DEF UpdateDirectoryScannerConfig, UpdateLoggingConfig, UpdateEventBusConfig, Sections
<1> QED BY <1>3, <1>4, <1>5, <1>6, <1>7, <1>8, <1>9, <1>11, <1>12, Zenon DEF Request

-----------------------------------------------------------------------------
\* A start-up begins, on a document that is as it was or as it is written.
LEMMA RestartHolds ==
    ASSUME IInv, NEW n \in shipped .. Len(Builtins), Restart(n),
           doc' \in Document, minted' \in Nat, faults' \in Nat,
           ~wrapped => OrdersDistinct(doc'.table),
           doc'.dirs => doc'.section["scanner"] # Unset,
           settled => Filled(doc') /\ HasBuiltins(doc'.table, shipped)
    PROVE  IInv'
<1>1. TypeOK /\ shipped \in 1 .. Len(Builtins) /\ Len(Builtins) \in Nat /\ MaxOrder \in Nat
  BY StartupAssumption DEF IInv, TypeOK
<1>2. n \in 1 .. Len(Builtins)
  BY <1>1
<1>3. DefaultSidecarTypes(n) \in Tables /\ Compiles(DefaultSidecarTypes(n))
  BY <1>2, DefaultsCompile
<1>4. /\ pc' = "admin" /\ shipped' = n /\ registry' = DefaultSidecarTypes(n) /\ wrapped' = wrapped
      /\ settled' = (settled /\ n = shipped)
  BY DEF Restart
<1>5. Blank \in Document
  BY DEF Blank, Document, NoTable
<1>6. TypeOK'
  <2>1. at' \in 1 .. shipped' + 1 /\ highest' \in MinOrder .. MaxOrder
    BY <1>1, <1>2, <1>4 DEF Restart, Forgotten, MinOrder
  <2>2. draft' \in Document /\ fresh' \in Nat /\ registry' \in Tables /\ shipped' \in 1 .. Len(Builtins)
    BY <1>2, <1>3, <1>4, <1>5 DEF Restart, Forgotten
  <2>3. known' = known /\ edits' = edits /\ unsure' = unsure /\ settled' \in BOOLEAN
    BY <1>4 DEF Restart
  <2> QED BY <1>1, <1>4, <2>1, <2>2, <2>3 DEF TypeOK, Tables
<1>7. OrdersUnambiguous'
  BY <1>4 DEF OrdersUnambiguous, OrdersDistinct, Present
<1>8. RegistryFollows'
  BY <1>3, <1>4 DEF RegistryFollows, Compiles, TypesDistinct, OrdersDistinct, Present
<1>9. FilledInv'
  BY <1>4 DEF FilledInv, Filled, SectionsSet, HasBuiltins
<1>10. MergeInv'
  BY <1>4 DEF MergeInv
<1> QED BY <1>6, <1>7, <1>8, <1>9, <1>10 DEF IInv

\* The server dies, anywhere.
LEMMA DieHolds ==
    ASSUME IInv, Die
    PROVE  IInv'
<1>1. PICK n \in shipped .. Len(Builtins) : Restart(n) /\ UNCHANGED <<doc, minted, faults>>
  BY DEF Die
<1> QED BY <1>1, RestartHolds DEF IInv, TypeOK, OrdersUnambiguous, FilledInv

\* A write of start-up that fails: the document is the written one.
LEMMA WriteFailsHolds ==
    ASSUME IInv, WriteFails, doc' \in Document, minted' \in Nat,
           ~wrapped => OrdersDistinct(doc'.table),
           doc'.dirs => doc'.section["scanner"] # Unset,
           settled => Filled(doc') /\ HasBuiltins(doc'.table, shipped)
    PROVE  IInv'
<1>1. shipped \in shipped .. Len(Builtins) /\ faults' \in Nat
  BY StartupAssumption DEF IInv, TypeOK, WriteFails
<1> QED BY <1>1, RestartHolds DEF WriteFails

\* The first write of start-up, or none.
LEMMA SeedAdminHolds ==
    ASSUME IInv, SeedAdmin
    PROVE  IInv'
<1>1. /\ TypeOK /\ pc = "admin" /\ doc \in Document /\ minted \in Nat
      /\ ~wrapped => OrdersDistinct(doc.table)
      /\ Compiles(registry) /\ FilledInv
  BY DEF IInv, TypeOK, SeedAdmin, OrdersUnambiguous, RegistryFollows
<1>2. CASE doc.admin # 0
  <2>1. /\ pc' = "config"
        /\ UNCHANGED <<doc, registry, draft, at, highest, fresh, shipped, minted, faults, known, edits, unsure,
                       settled, wrapped>>
    BY <1>2 DEF SeedAdmin
  <2>2. TypeOK' /\ OrdersUnambiguous' /\ MergeInv'
    BY <1>1, <2>1 DEF TypeOK, OrdersUnambiguous, OrdersDistinct, Present, MergeInv
  <2>3. RegistryFollows'
    BY <1>1, <2>1 DEF RegistryFollows, Compiles, TypesDistinct, OrdersDistinct, Present
  <2>4. FilledInv'
    BY <1>1, <1>2, <2>1 DEF FilledInv, Filled, SectionsSet, HasBuiltins
  <2> QED BY <2>2, <2>3, <2>4 DEF IInv
<1>3. CASE doc.admin = 0
  <2>1. doc' = [doc EXCEPT !.admin = minted + 1] /\ minted' = minted + 1
    BY <1>3 DEF SeedAdmin
  <2>2. /\ doc' \in Document /\ doc'.table = doc.table /\ doc'.dirs = doc.dirs /\ doc'.section = doc.section
        /\ doc'.admin # 0 /\ minted' \in Nat
    BY <1>1, <2>1 DEF Document
  <2>3. ~settled
    BY <1>1, <1>3 DEF FilledInv, Filled
  <2>4. doc'.dirs => doc'.section["scanner"] # Unset
    BY <1>1, <2>2 DEF FilledInv
  <2>5. CASE WriteFails
    BY <1>1, <2>2, <2>3, <2>4, <2>5, WriteFailsHolds
  <2>6. CASE ~WriteFails
    <3>1. /\ pc' = "config" /\ fresh' = minted + 1
          /\ UNCHANGED <<registry, draft, at, highest, shipped, faults, known, edits, unsure, settled, wrapped>>
      BY <1>3, <2>6 DEF SeedAdmin
    <3>2. fresh' \in Nat
      BY <1>1, <3>1
    <3>3. TypeOK'
      BY <1>1, <2>2, <3>1, <3>2 DEF TypeOK
    <3>4. OrdersUnambiguous' /\ MergeInv'
      BY <1>1, <2>2, <3>1 DEF OrdersUnambiguous, OrdersDistinct, Present, MergeInv
    <3>5. RegistryFollows'
      BY <1>1, <3>1 DEF RegistryFollows, Compiles, TypesDistinct, OrdersDistinct, Present
    <3>6. FilledInv'
      BY <2>2, <2>3, <2>4, <3>1 DEF FilledInv
    <3> QED BY <3>3, <3>4, <3>5, <3>6 DEF IInv
  <2> QED BY <2>5, <2>6
<1> QED BY <1>2, <1>3

\* What the first steps make of the document.
LEMMA SeededExtends ==
    ASSUME IInv
    PROVE  /\ Seeded(doc) \in Document
           /\ Extends(doc, Seeded(doc))
           /\ SectionsSet(Seeded(doc))
           /\ ~wrapped => OrdersDistinct(Seeded(doc).table)
           /\ settled => Seeded(doc) = doc
<1> DEFINE sections == [s \in Sections |-> IF doc.section[s] = Unset THEN DefaultValue ELSE doc.section[s]]
           dirs == doc.dirs /\ doc.section["scanner"] # Unset
           table == IF doc.table = NoTable THEN DefaultSidecarTypes(shipped) ELSE doc.table
<1>1. /\ doc \in Document /\ shipped \in 1 .. Len(Builtins) /\ FilledInv
      /\ doc.dirs \in BOOLEAN /\ doc.table \in Tables /\ doc.section \in [Sections -> {Unset} \cup Settings]
  BY DEF IInv, TypeOK, Document, Tables
<1>2. Seeded(doc) = [doc EXCEPT !.section = sections, !.dirs = dirs, !.table = table]
  BY DEF Seeded
<1>3. dirs = doc.dirs
  BY <1>1 DEF FilledInv
<1>4. sections \in [Sections -> Settings]
  BY <1>1 DEF Settings
<1>5. table \in Tables
  BY <1>1, DefaultsCompile
<1>6. \A i \in Present(doc.table) : table[i] = doc.table[i]
  BY DEF Present, NoTable
<1>7. ~wrapped => OrdersDistinct(table)
  BY <1>1, DefaultsCompile DEF IInv, OrdersUnambiguous, Compiles
<1>8. settled => sections = doc.section /\ table = doc.table
  <2> SUFFICES ASSUME settled PROVE sections = doc.section /\ table = doc.table
    OBVIOUS
  <2>1. SectionsSet(doc) /\ doc.table[Builtins[1]] # Absent
    BY <1>1 DEF FilledInv, Filled, HasBuiltins
  <2>2. Builtins[1] \in Ids
    BY <1>1, StartupAssumption DEF Ids, BuiltinIds
  <2>3. doc.table # NoTable
    BY <2>1, <2>2 DEF NoTable
  <2> QED BY <1>1, <2>1, <2>3 DEF SectionsSet
<1> HIDE DEF sections, dirs, table
<1>9. /\ Seeded(doc).admin = doc.admin /\ Seeded(doc).secret = doc.secret /\ Seeded(doc).section = sections
      /\ Seeded(doc).dirs = dirs /\ Seeded(doc).table = table
  BY <1>1, <1>2 DEF Document
<1>10. Seeded(doc) \in Document
  BY <1>1, <1>2, <1>3, <1>4, <1>5 DEF Document, Tables
<1>11. SectionsSet(Seeded(doc))
  BY <1>4, <1>9 DEF SectionsSet, Settings, Unset, DefaultValue
<1>12. Extends(doc, Seeded(doc))
  <2>1. \A s \in Sections : doc.section[s] \in {Unset, sections[s]}
    BY DEF sections
  <2> QED BY <1>3, <1>6, <1>9, <2>1 DEF Extends
<1>13. settled => Seeded(doc) = doc
  BY <1>1, <1>2, <1>3, <1>8 DEF Document
<1> QED BY <1>7, <1>9, <1>10, <1>11, <1>12, <1>13

\* highestOrder starts at the largest order of the draft, or at 0.
LEMMA HighestBounds ==
    ASSUME NEW table \in Tables
    PROVE  LET h == Max({0} \cup {table[i].order : i \in Present(table)})
           IN  h \in MinOrder .. MaxOrder /\ \A i \in Present(table) : table[i].order <= h
<1> DEFINE S == {0} \cup {table[i].order : i \in Present(table)}
<1>1. \A i \in Present(table) : table[i].order \in MinOrder .. MaxOrder
  <2> TAKE i \in Present(table)
  <2>1. table[i] \in Entry
    BY DEF Present, Tables
  <2> QED BY <2>1 DEF Entry
<1>2. 0 \in MinOrder .. MaxOrder
  BY StartupAssumption DEF MinOrder
<1>3. S \in SUBSET (MinOrder .. MaxOrder) /\ S # {}
  BY <1>1, <1>2
<1>4. \A i \in Present(table) : table[i].order \in S
  OBVIOUS
<1> HIDE DEF S
<1>5. Max(S) \in S /\ \A y \in S : y <= Max(S)
  BY <1>3, MaxOfOrders
<1>6. Max(S) \in MinOrder .. MaxOrder /\ \A i \in Present(table) : table[i].order <= Max(S)
  BY <1>3, <1>4, <1>5
<1> QED BY <1>6 DEF S

\* Start-up reads the document and seeds its copy.
LEMMA ReadConfigHolds ==
    ASSUME IInv, ReadConfig
    PROVE  IInv'
<1>1. /\ TypeOK /\ pc = "config" /\ FilledInv
      /\ ~wrapped => OrdersDistinct(doc.table)
      /\ Compiles(registry)
  BY DEF IInv, ReadConfig, OrdersUnambiguous, RegistryFollows
<1>2. /\ draft' \in Document /\ Extends(doc, draft') /\ SectionsSet(draft')
      /\ ~wrapped => OrdersDistinct(draft'.table)
      /\ settled => draft' = doc
  BY SeededExtends DEF ReadConfig
<1>3. draft'.table \in Tables
  BY <1>2 DEF Document, Tables
<1>4. highest' \in MinOrder .. MaxOrder /\ \A i \in Present(draft'.table) : draft'.table[i].order <= highest'
  BY <1>3, HighestBounds DEF ReadConfig
<1>5. /\ at' = 1 /\ pc' = "merge"
      /\ UNCHANGED <<doc, registry, fresh, shipped, minted, known, edits, faults, unsure, settled, wrapped>>
  BY DEF ReadConfig
<1>6. TypeOK'
  BY <1>1, <1>2, <1>4, <1>5 DEF TypeOK
<1>7. OrdersUnambiguous'
  BY <1>1, <1>5 DEF OrdersUnambiguous, OrdersDistinct, Present
<1>8. RegistryFollows'
  BY <1>1, <1>5 DEF RegistryFollows, Compiles, TypesDistinct, OrdersDistinct, Present
<1>9. FilledInv'
  BY <1>1, <1>5 DEF FilledInv, Filled, SectionsSet, HasBuiltins
<1>10. MergeInv'
  <2>1. ~wrapped => Ordered(draft'.table, highest')
    BY <1>2, <1>4 DEF Ordered
  <2>2. HasBuiltins(draft'.table, at' - 1)
    BY <1>5 DEF HasBuiltins
  <2> QED BY <1>2, <1>5, <2>1, <2>2 DEF MergeInv, Extends, SectionsSet, HasBuiltins, Ordered, OrdersDistinct, Present
<1> QED BY <1>6, <1>7, <1>8, <1>9, <1>10 DEF IInv

-----------------------------------------------------------------------------
\* A built-in is added at an order no other type has: its own when that is
\* free, else one beyond the largest, unless that left the 32 bits.
LEMMA AddKeepsOrder ==
    ASSUME NEW table \in Tables, NEW h \in MinOrder .. MaxOrder, NEW b \in BuiltinIds, table[b] = Absent,
           Ordered(table, h), NEW taken \in BOOLEAN,
           taken <=> \E i \in Present(table) : table[i].order = DefaultOrder[b],
           taken => h + Gap <= MaxOrder
    PROVE  LET order == IF taken THEN Wrap(h + Gap) ELSE DefaultOrder[b]
               new == [table EXCEPT ![b] = [type |-> DefaultType[b], order |-> order]]
           IN  Ordered(new, IF taken \/ order > h THEN order ELSE h)
<1> DEFINE order == IF taken THEN Wrap(h + Gap) ELSE DefaultOrder[b]
           new == [table EXCEPT ![b] = [type |-> DefaultType[b], order |-> order]]
           top == IF taken \/ order > h THEN order ELSE h
<1>1. /\ MaxOrder \in Nat /\ Gap \in 1 .. MaxOrder /\ h \in Int /\ DefaultOrder[b] \in 1 .. MaxOrder
      /\ b \in Ids
  BY StartupAssumption DEF MinOrder, Ids
<1>2. /\ taken => order = h + Gap
      /\ ~taken => order = DefaultOrder[b]
  BY <1>1 DEF Wrap
<1>3. order \in Int /\ top \in Int /\ h <= top /\ order <= top
  BY <1>1, <1>2
<1>4. \A i \in Present(table) : table[i].order \in Int /\ table[i].order <= h
  <2> TAKE i \in Present(table)
  <2>1. table[i] \in Entry
    BY DEF Present, Tables
  <2>2. table[i].order \in MinOrder .. MaxOrder
    BY <2>1 DEF Entry
  <2> QED BY <1>1, <2>2 DEF Ordered, MinOrder
<1>5. \A i \in Present(table) : table[i].order # order
  <2> TAKE i \in Present(table)
  <2>1. CASE taken
    BY <1>1, <1>2, <1>4, <2>1
  <2>2. CASE ~taken
    BY <1>2, <2>2
  <2> QED BY <2>1, <2>2
<1> HIDE DEF order, top
<1>6. \A i \in Present(new) : \/ i \in Present(table) /\ new[i] = table[i] /\ i # b
                              \/ i = b /\ new[i].order = order
  BY <1>1 DEF Present, Tables
<1> HIDE DEF new
<1>7. OrdersDistinct(new)
  <2> SUFFICES ASSUME NEW i \in Present(new), NEW j \in Present(new),
                      new[i].order = new[j].order, new[i].order # 0
               PROVE  i = j
    BY DEF OrdersDistinct
  <2>1. CASE i = b /\ j = b
    BY <2>1
  <2>2. CASE i # b /\ j # b
    BY <1>6, <2>2 DEF Ordered, OrdersDistinct
  <2>3. CASE i = b /\ j # b
    BY <1>5, <1>6, <2>3
  <2>4. CASE i # b /\ j = b
    BY <1>5, <1>6, <2>4
  <2> QED BY <2>1, <2>2, <2>3, <2>4
<1>8. \A i \in Present(new) : new[i].order <= top
  <2> TAKE i \in Present(new)
  <2>1. CASE i \in Present(table) /\ new[i] = table[i]
    BY <1>1, <1>3, <1>4, <2>1
  <2>2. CASE i = b /\ new[i].order = order
    BY <1>3, <2>2
  <2> QED BY <1>6, <2>1, <2>2
<1> QED BY <1>7, <1>8 DEF Ordered, order, new, top

\* One built-in of the release is merged in.
LEMMA MergeMissingHolds ==
    ASSUME IInv, MergeMissing
    PROVE  IInv'
<1> DEFINE b == Builtins[at]
           taken == \E i \in Present(draft.table) : draft.table[i].order = DefaultOrder[b]
           order == IF taken THEN Wrap(highest + Gap) ELSE DefaultOrder[b]
<1>1. /\ TypeOK /\ pc = "merge" /\ at \in 1 .. shipped /\ at' = at + 1 /\ FilledInv
      /\ ~wrapped => OrdersDistinct(doc.table)
      /\ Compiles(registry)
  BY DEF IInv, TypeOK, MergeMissing, OrdersUnambiguous, RegistryFollows
<1>2. /\ Extends(doc, draft) /\ SectionsSet(draft) /\ HasBuiltins(draft.table, at - 1)
      /\ ~wrapped => Ordered(draft.table, highest)
      /\ settled => draft = doc
  BY <1>1 DEF IInv, MergeInv
<1>3. UNCHANGED <<doc, registry, pc, fresh, shipped, minted, known, edits, faults, unsure, settled>>
  BY DEF MergeMissing
<1>4. /\ MaxOrder \in Nat /\ Gap \in 1 .. MaxOrder /\ b \in BuiltinIds /\ b \in Ids
      /\ shipped \in 1 .. Len(Builtins) /\ Len(Builtins) \in Nat
  BY <1>1, StartupAssumption DEF TypeOK, BuiltinIds, Ids
<1>5. draft \in Document /\ draft.table \in Tables /\ highest \in MinOrder .. MaxOrder
  BY <1>1 DEF TypeOK, Document, Tables
<1>6. /\ draft' \in Document /\ Extends(doc, draft') /\ SectionsSet(draft') /\ draft'.table[b] # Absent
      /\ \A i \in Present(draft.table) : draft'.table[i] = draft.table[i]
      /\ highest' \in MinOrder .. MaxOrder /\ wrapped' \in BOOLEAN
      /\ wrapped => wrapped'
      /\ ~wrapped' => Ordered(draft'.table, highest')
      /\ settled => draft' = doc
  <2>1. CASE draft.table[b] # Absent
    <3>1. UNCHANGED <<draft, highest, wrapped>>
      BY <2>1 DEF MergeMissing
    <3>2. wrapped' \in BOOLEAN
      BY <1>1, <3>1 DEF TypeOK
    <3> QED BY <1>2, <1>5, <2>1, <3>1, <3>2
  <2>2. CASE draft.table[b] = Absent
    <3>1. /\ draft' = [draft EXCEPT !.table[b] = [type |-> DefaultType[b], order |-> order]]
          /\ highest' = IF taken \/ order > highest THEN order ELSE highest
          /\ wrapped' = (wrapped \/ (taken /\ highest + Gap > MaxOrder))
      BY <2>2 DEF MergeMissing, Add
    <3>2. order \in MinOrder .. MaxOrder
      <4>1. DefaultOrder[b] \in 1 .. MaxOrder
        BY <1>4, StartupAssumption
      <4> QED BY <1>4, <1>5, <4>1 DEF Wrap, MinOrder
    <3>3. [type |-> DefaultType[b], order |-> order] \in Entry
      BY <1>4, <3>2, StartupAssumption DEF Entry
    <3>4. [type |-> DefaultType[b], order |-> order] # Absent
      BY <3>3, StartupAssumption
    <3>5. ~wrapped' => Ordered(draft'.table, highest')
      <4> SUFFICES ASSUME ~wrapped' PROVE Ordered(draft'.table, highest')
        OBVIOUS
      <4>1. ~wrapped /\ ~(taken /\ highest + Gap > MaxOrder)
        BY <3>1
      <4>2. taken => highest + Gap <= MaxOrder
        BY <1>4, <1>5, <4>1 DEF MinOrder
      <4>3. taken \in BOOLEAN
        OBVIOUS
      <4>4. draft'.table = [draft.table EXCEPT ![b] = [type |-> DefaultType[b], order |-> order]]
        BY <1>5, <3>1 DEF Document
      <4>5. Ordered(draft.table, highest)
        BY <1>2, <4>1
      <4>6. taken <=> \E i \in Present(draft.table) : draft.table[i].order = DefaultOrder[b]
        OBVIOUS
      <4> DEFINE top == IF taken \/ order > highest THEN order ELSE highest
      <4> HIDE DEF taken, b
      <4>7. Ordered([draft.table EXCEPT ![b] = [type |-> DefaultType[b], order |-> order]], top)
        BY <1>4, <1>5, <2>2, <4>2, <4>3, <4>5, <4>6, AddKeepsOrder
      <4> HIDE DEF order, top
      <4>8. highest' = top
        BY <3>1 DEF top
      <4> QED BY <4>4, <4>7, <4>8
    <3> HIDE DEF taken, order
    <3>6. /\ draft'.table = [draft.table EXCEPT ![b] = [type |-> DefaultType[b], order |-> order]]
          /\ draft'.admin = draft.admin /\ draft'.secret = draft.secret /\ draft'.section = draft.section
          /\ draft'.dirs = draft.dirs
      BY <1>5, <3>1 DEF Document
    <3>7. draft'.table \in Tables /\ draft' \in Document
      BY <1>4, <1>5, <3>1, <3>3, <3>6 DEF Document, Tables
    <3>8. \A i \in Present(draft.table) : draft'.table[i] = draft.table[i]
      BY <1>5, <2>2, <3>6 DEF Present, Tables
    <3>9. draft'.table[b] # Absent
      BY <1>4, <1>5, <3>4, <3>6 DEF Tables
    <3>10. Extends(doc, draft')
      <4>1. \A i \in Present(doc.table) : i \in Present(draft.table)
        BY <1>2 DEF Extends, Present
      <4> QED BY <1>2, <3>6, <3>8, <4>1 DEF Extends
    <3>11. SectionsSet(draft')
      BY <1>2, <3>6 DEF SectionsSet
    <3>12. highest' \in MinOrder .. MaxOrder
      BY <1>5, <3>1, <3>2
    <3>13. ~settled
      <4>1. settled => doc.table[b] # Absent
        BY <1>1 DEF FilledInv, HasBuiltins
      <4> QED BY <1>2, <2>2, <4>1
    <3>14. wrapped' \in BOOLEAN /\ (wrapped => wrapped')
      BY <3>1
    <3> QED BY <3>5, <3>7, <3>8, <3>9, <3>10, <3>11, <3>12, <3>13, <3>14
  <2> QED BY <2>1, <2>2
<1>7. HasBuiltins(draft'.table, at' - 1)
  <2> SUFFICES ASSUME NEW k \in 1 .. at' - 1 PROVE draft'.table[Builtins[k]] # Absent
    BY DEF HasBuiltins
  <2>1. CASE k = at
    BY <1>6, <2>1
  <2>2. CASE k \in 1 .. at - 1
    <3>1. draft.table[Builtins[k]] # Absent
      BY <1>2, <2>2 DEF HasBuiltins
    <3>2. Builtins[k] \in Ids
      BY <1>1, <1>4, <2>2, StartupAssumption DEF BuiltinIds, Ids
    <3> QED BY <1>6, <3>1, <3>2 DEF Present
  <2> QED BY <1>1, <1>4, <2>1, <2>2
<1> HIDE DEF b, taken, order
<1>8. TypeOK'
  <2>1. at' \in 1 .. shipped' + 1
    BY <1>1, <1>3, <1>4
  <2> QED BY <1>1, <1>3, <1>6, <2>1 DEF TypeOK
<1>9. OrdersUnambiguous'
  BY <1>1, <1>3, <1>6 DEF OrdersUnambiguous, OrdersDistinct, Present
<1>10. RegistryFollows'
  BY <1>1, <1>3 DEF RegistryFollows, Compiles, TypesDistinct, OrdersDistinct, Present
<1>11. FilledInv'
  BY <1>1, <1>3 DEF FilledInv, Filled, SectionsSet, HasBuiltins
<1>12. MergeInv'
  BY <1>3, <1>6, <1>7 DEF MergeInv, Extends, SectionsSet, HasBuiltins, Ordered, OrdersDistinct, Present
<1> QED BY <1>8, <1>9, <1>10, <1>11, <1>12 DEF IInv

-----------------------------------------------------------------------------
\* What the second write stores: the draft, with a secret.
LEMMA WriteConfigWrites ==
    ASSUME IInv, WriteConfig
    PROVE  /\ doc' \in Document /\ minted' \in Nat
           /\ Filled(doc') /\ HasBuiltins(doc'.table, shipped)
           /\ doc'.table = draft.table /\ doc'.admin = draft.admin /\ doc'.dirs = draft.dirs
           /\ doc'.section = draft.section /\ draft.secret \in {0, doc'.secret}
           /\ ~wrapped => OrdersDistinct(doc'.table)
           /\ settled => doc' = doc
<1>1. /\ TypeOK /\ pc = "merge" /\ at = shipped + 1 /\ FilledInv
      /\ draft \in Document /\ minted \in Nat /\ shipped \in Nat
  BY StartupAssumption DEF IInv, TypeOK, WriteConfig
<1>2. /\ Extends(doc, draft) /\ SectionsSet(draft) /\ HasBuiltins(draft.table, shipped)
      /\ ~wrapped => OrdersDistinct(draft.table)
      /\ settled => draft = doc
  <2>1. at - 1 = shipped
    BY <1>1
  <2> QED BY <1>1, <2>1 DEF IInv, MergeInv, Ordered
<1> DEFINE secret == IF draft.secret = 0 THEN minted + 1 ELSE draft.secret
<1>3. doc' = [draft EXCEPT !.secret = secret] /\ minted' = IF draft.secret = 0 THEN minted + 1 ELSE minted
  BY DEF WriteConfig
<1>4. draft.secret \in Nat /\ draft.admin # 0
  <2>1. draft.admin = doc.admin /\ doc.admin # 0
    BY <1>1, <1>2 DEF Extends, FilledInv
  <2> QED BY <1>1, <2>1 DEF Document
<1>5. secret \in Nat /\ secret # 0 /\ draft.secret \in {0, secret} /\ minted' \in Nat
  BY <1>1, <1>3, <1>4
<1>6. settled => secret = draft.secret
  BY <1>1, <1>2 DEF FilledInv, Filled
<1> HIDE DEF secret
<1>7. /\ doc' \in Document /\ doc'.secret = secret
      /\ doc'.table = draft.table /\ doc'.admin = draft.admin /\ doc'.dirs = draft.dirs
      /\ doc'.section = draft.section
  BY <1>1, <1>3, <1>5 DEF Document
<1>8. settled => doc' = doc
  BY <1>1, <1>2, <1>3, <1>6 DEF Document
<1>9. Filled(doc') /\ HasBuiltins(doc'.table, shipped)
  BY <1>2, <1>4, <1>5, <1>7 DEF Filled, SectionsSet, HasBuiltins
<1> QED BY <1>2, <1>5, <1>7, <1>8, <1>9

\* The second write of start-up, landed or failed.
LEMMA WriteConfigHolds ==
    ASSUME IInv, WriteConfig
    PROVE  IInv'
<1>1. /\ doc' \in Document /\ minted' \in Nat
      /\ Filled(doc') /\ HasBuiltins(doc'.table, shipped)
      /\ ~wrapped => OrdersDistinct(doc'.table)
  BY WriteConfigWrites
<1>2. doc'.section["scanner"] # Unset
  BY <1>1 DEF Filled, SectionsSet, Sections
<1>3. CASE WriteFails
  BY <1>1, <1>2, <1>3, WriteFailsHolds
<1>4. CASE ~WriteFails
  <2>1. /\ pc' = "warm"
        /\ UNCHANGED <<registry, draft, at, highest, fresh, shipped, faults, known, edits, unsure, settled, wrapped>>
    BY <1>4 DEF WriteConfig
  <2>2. TypeOK /\ Compiles(registry)
    BY DEF IInv, RegistryFollows
  <2>3. TypeOK'
    BY <1>1, <2>1, <2>2 DEF TypeOK
  <2>4. OrdersUnambiguous' /\ MergeInv'
    BY <1>1, <2>1 DEF OrdersUnambiguous, OrdersDistinct, Present, MergeInv
  <2>5. RegistryFollows'
    BY <2>1, <2>2 DEF RegistryFollows, Compiles, TypesDistinct, OrdersDistinct, Present
  <2>6. FilledInv'
    BY <1>1, <1>2, <2>1 DEF FilledInv, Filled, SectionsSet, HasBuiltins
  <2> QED BY <2>3, <2>4, <2>5, <2>6 DEF IInv
<1> QED BY <1>3, <1>4

\* The table is compiled and the server serves.
LEMMA WarmHolds ==
    ASSUME IInv, Warm
    PROVE  IInv'
<1>1. /\ TypeOK /\ pc = "warm" /\ doc.table \in Tables /\ registry \in Tables /\ Compiles(registry)
      /\ shipped \in 1 .. Len(Builtins) /\ MaxOrder \in Nat /\ Len(Builtins) \in Nat
      /\ Filled(doc) /\ HasBuiltins(doc.table, shipped)
      /\ ~wrapped => OrdersDistinct(doc.table)
      /\ doc.dirs => doc.section["scanner"] # Unset
  BY StartupAssumption DEF IInv, TypeOK, Warm, Document, Tables, RegistryFollows, FilledInv, OrdersUnambiguous
<1>2. /\ Recompiled(doc.table) \in Tables
      /\ Compiles(Recompiled(doc.table))
      /\ Compiles(doc.table) => Recompiled(doc.table) = NewSidecarRegistry(doc.table)
  BY <1>1, RecompiledCompiles
<1>3. /\ pc' = "up" /\ registry' = Recompiled(doc.table) /\ unsure' = FALSE /\ settled' = TRUE
      /\ UNCHANGED <<doc, shipped, minted, edits, faults, wrapped>>
      /\ draft' = Blank /\ at' = 1 /\ highest' = 0 /\ fresh' = 0
  BY DEF Warm, Forgotten
<1>4. Blank \in Document
  BY DEF Blank, Document, NoTable
<1>5. TypeOK'
  <2>1. known' \subseteq Nat
    BY <1>1 DEF Warm, TypeOK
  <2>2. at' \in 1 .. shipped' + 1 /\ highest' \in MinOrder .. MaxOrder /\ fresh' \in Nat
    BY <1>1, <1>3 DEF MinOrder
  <2> QED BY <1>1, <1>2, <1>3, <1>4, <2>1, <2>2 DEF TypeOK, Tables
<1>6. OrdersUnambiguous' /\ MergeInv'
  BY <1>1, <1>3 DEF OrdersUnambiguous, OrdersDistinct, Present, MergeInv
<1>7. RegistryFollows'
  <2>1. NewSidecarRegistry(doc.table)' = NewSidecarRegistry(doc.table)
    BY <1>3 DEF NewSidecarRegistry, DefaultSidecarTypes
  <2> QED BY <1>2, <1>3, <2>1 DEF RegistryFollows, Compiles, TypesDistinct, OrdersDistinct, Present
<1>8. FilledInv'
  BY <1>1, <1>3 DEF FilledInv, Filled, SectionsSet, HasBuiltins
<1> QED BY <1>5, <1>6, <1>7, <1>8 DEF IInv

-----------------------------------------------------------------------------
\* Every step keeps the invariant.
LEMMA NextHolds ==
    ASSUME IInv, [Next]_vars
    PROVE  IInv'
<1>1. CASE Request
  BY <1>1, EachRequestHolds
<1>2. CASE Die
  BY <1>2, DieHolds
<1>3. CASE SeedAdmin
  BY <1>3, SeedAdminHolds
<1>4. CASE ReadConfig
  BY <1>4, ReadConfigHolds
<1>5. CASE MergeMissing
  BY <1>5, MergeMissingHolds
<1>6. CASE WriteConfig
  BY <1>6, WriteConfigHolds
<1>7. CASE Warm
  BY <1>7, WarmHolds
<1>8. CASE PropagateInProcess
  BY <1>8, PropagateHolds
<1>9. CASE UNCHANGED vars
  BY <1>9 DEF vars, bootVars, IInv, TypeOK, OrdersUnambiguous, RegistryFollows, FilledInv, MergeInv, Compiles,
              TypesDistinct, OrdersDistinct, Present, NewSidecarRegistry, DefaultSidecarTypes, Filled, SectionsSet,
              HasBuiltins, Extends, Ordered
<1> QED BY <1>1, <1>2, <1>3, <1>4, <1>5, <1>6, <1>7, <1>8, <1>9, Zenon DEF Next, Boot

\* The invariant the others follow from: besides what they say, a serving
\* server's document is filled, a settled one has its built-ins, and the draft
\* of a merge (sidecar_types.go:69-114) extends the document in order.
THEOREM StartupInvariant == Spec => []IInv
<1>1. Init => IInv
  BY InitHolds
<1>2. IInv /\ [Next]_vars => IInv'
  BY NextHolds
<1> QED BY <1>1, <1>2, PTL DEF Spec

\* The types: every table, draft and registry is one of known sidecar types.
THEOREM StartupTypes == Spec => []TypeOK
<1>1. IInv => TypeOK
  BY DEF IInv
<1> QED BY <1>1, StartupInvariant, PTL

\* The scanner is never without a table, and classifies by the stored one as
\* soon as it compiles (config_propagator.go:121-123), unless a write has just
\* failed.
THEOREM ScannerFollows == Spec => []RegistryFollows
<1>1. IInv => RegistryFollows
  BY DEF IInv
<1> QED BY <1>1, StartupInvariant, PTL

\* No two enabled sidecar types of the stored table share an order
\* (sidecar_types.go:97-100), as long as the merge's orders fit 32 bits.
THEOREM TableIsUnambiguous == Spec => []OrdersUnambiguous
<1>1. IInv => OrdersUnambiguous
  BY DEF IInv
<1> QED BY <1>1, StartupInvariant, PTL

\* Start-up keeps what operators have set, whatever died half way, and an
\* ordinary restart writes nothing (bootstrap.go:49-64).
THEOREM StartupOnlyFillsIn == Spec => StartupGentle
<1> DEFINE Gentle == pc # "up" /\ doc' # doc =>
                       /\ ~settled
                       /\ \A i \in Present(doc.table) : doc'.table[i] = doc.table[i]
                       /\ doc.admin \in {0, doc'.admin} /\ doc.secret \in {0, doc'.secret}
                       /\ \A s \in Sections : doc.section[s] \in {Unset, doc'.section[s]}
                       /\ doc'.dirs = doc.dirs
<1>1. IInv /\ [Next]_vars => [Gentle]_vars
  <2> SUFFICES ASSUME IInv, Next, pc # "up", doc' # doc PROVE Gentle
    BY Zenon DEF vars
  <2>1. ~Request /\ ~Die /\ ~ReadConfig /\ ~MergeMissing /\ ~Warm /\ ~PropagateInProcess
    BY DEF Request, CreateSidecarType, UpdateSidecarType, DeleteSidecarType, ReorderSidecarTypes,
           ResetSidecarTypes, UpdateAdminUser, RotateHmacSecret, UpdateSection, UpdateDirectoryScannerConfig,
           UpdateLoggingConfig, UpdateEventBusConfig, EditScanDirectories, EditTable,
           MutateSync, Die, ReadConfig, MergeMissing, Warm, PropagateInProcess
  <2>2. CASE SeedAdmin
    <3>1. doc.admin = 0 /\ doc' = [doc EXCEPT !.admin = minted + 1] /\ doc \in Document
      BY <2>2 DEF SeedAdmin, IInv, TypeOK
    <3>2. ~settled
      BY <3>1 DEF IInv, FilledInv, Filled
    <3> QED BY <3>1, <3>2 DEF Document
  <2>3. CASE WriteConfig
    <3>1. /\ doc'.table = draft.table /\ doc'.admin = draft.admin /\ doc'.dirs = draft.dirs
          /\ doc'.section = draft.section /\ draft.secret \in {0, doc'.secret}
          /\ settled => doc' = doc
      BY <2>3, WriteConfigWrites
    <3>2. Extends(doc, draft)
      BY <2>3 DEF WriteConfig, IInv, MergeInv
    <3> QED BY <3>1, <3>2 DEF Extends
  <2> QED BY <2>1, <2>2, <2>3, Zenon DEF Next, Boot
<1>2. Spec => [][Gentle]_vars
  BY <1>1, StartupInvariant, PTL DEF Spec
<1> QED BY <1>2 DEF StartupGentle
=============================================================================
