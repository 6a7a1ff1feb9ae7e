------------------------------ MODULE Startup ------------------------------
(***************************************************************************)
(* The server's start-up (bootstrap.Run, main.go) against the document     *)
(* operators edit.  Start-up seeds what is missing in two writes, the      *)
(* admin account first, then everything else: sections an older release    *)
(* did not have, built-in sidecar types a newer one ships, the signing     *)
(* secret.  Then it shows a password it generated, once, and compiles the  *)
(* sidecar table.  It may fail or die anywhere, and comes back, possibly   *)
(* as a newer release.                                                     *)
(***************************************************************************)
EXTENDS Integers, Sequences, FiniteSetsExt

CONSTANTS
    Builtins,      \* ids of the built-in sidecar types, in the order of the defaults file
    Custom,        \* ids that CreateSidecarType mints
    Types,         \* names of sidecar types
    DefaultType,   \* name and
    DefaultOrder,  \* order of each built-in
    Orders,        \* the orders an operator gives
    Gap,           \* 10
    MaxOrder,      \* bound: the largest order, 2^31 - 1
    Absent,        \* not in the table
    MaxEdits,      \* bound: configuration requests
    MaxFaults      \* bound: failed writes

BuiltinIds == {Builtins[n] : n \in DOMAIN Builtins}
Ids == BuiltinIds \cup Custom
MinOrder == -MaxOrder - 1
Entry == [type: Types, order: MinOrder .. MaxOrder]

ASSUME StartupAssumption ==
    /\ Builtins \in Seq(BuiltinIds) /\ Builtins # <<>>
    /\ \A m, n \in DOMAIN Builtins : Builtins[m] = Builtins[n] => m = n
    /\ BuiltinIds \cap Custom = {}
    /\ MaxOrder \in Nat /\ Gap \in 1 .. MaxOrder
    /\ DefaultType \in [BuiltinIds -> Types]
    /\ DefaultOrder \in [BuiltinIds -> 1 .. MaxOrder]
    /\ \A b, c \in BuiltinIds : DefaultType[b] = DefaultType[c] \/ DefaultOrder[b] = DefaultOrder[c] => b = c
    /\ Orders \subseteq MinOrder .. MaxOrder
    /\ Absent \notin Entry
    /\ MaxEdits \in Nat /\ MaxFaults \in Nat

VARIABLES
    doc,       \* the stored document
    registry,  \* the sidecar table the scanner classifies against
    pc,        \* "up", "propagate" (a request's write has landed), or where
               \* start-up stands: "admin", "config", "merge", "warm"
    draft,     \* start-up's copy of the document
    at,        \* the built-in the merge has come to
    highest,   \* highestOrder of the merge
    fresh,     \* the password this start-up generated, 0 if none
    shipped,   \* how many of the built-ins this release has
    minted,    \* passwords and secrets generated or chosen so far
    known,     \* the passwords somebody was shown or has chosen
    edits,     \* configuration requests so far
    faults,    \* failed writes so far
    unsure,    \* history: a request's write failed
    settled,   \* history: this release came up, and no sidecar type was deleted since
    wrapped    \* history: an order left the 32 bits

bootVars == <<pc, draft, at, highest, fresh, shipped>>
vars == <<doc, registry, bootVars, minted, known, edits, faults, unsure, settled, wrapped>>

Sections == {"scanner", "logging", "bus"}
Unset == 0
DefaultValue == 1
Settings == {DefaultValue, 2}   \* the default, and what an operator sets

-----------------------------------------------------------------------------
(* The sidecar table.                                                       *)

Present(table) == {i \in Ids : table[i] # Absent}
NoTable == [i \in Ids |-> Absent]
Blank == [admin |-> 0, secret |-> 0, section |-> [s \in Sections |-> Unset], dirs |-> FALSE, table |-> NoTable]

\* DefaultSidecarTypes of a release with n built-ins.
DefaultSidecarTypes(n) ==
    [i \in Ids |-> IF \E k \in 1 .. n : Builtins[k] = i
                   THEN [type |-> DefaultType[i], order |-> DefaultOrder[i]] ELSE Absent]

\* Order 0 is "disabled", which any number of entries may be.
OrdersDistinct(table) ==
    \A i, j \in Present(table) : table[i].order = table[j].order /\ table[i].order # 0 => i = j
TypesDistinct(table) ==
    \A i, j \in Present(table) : table[i].type = table[j].type => i = j

\* NewSidecarRegistry: what it refuses, and what it compiles.
Compiles(table) == TypesDistinct(table) /\ OrdersDistinct(table)
NewSidecarRegistry(table) == IF table = NoTable THEN DefaultSidecarTypes(shipped) ELSE table

\* Mutant of Recompiled: a table that is refused leaves nothing in its place.
RecompiledAnyway(table) == NewSidecarRegistry(table)

\* A table that is refused leaves the registry as it is.
Recompiled(table) == IF Compiles(table) THEN NewSidecarRegistry(table) ELSE registry

-----------------------------------------------------------------------------
(* The requests that change the document, each one MutateSync.             *)

\* Up to Upsert: the document is written, or the write fails, having landed or
\* not, and nothing is propagated.  The lock keeps other requests out.
MutateSync(new) ==
    /\ pc = "up" /\ edits < MaxEdits
    /\ edits' = edits + 1
    /\ \/ /\ doc' = new
          /\ pc' = "propagate"
          /\ UNCHANGED <<faults, unsure>>
       \/ /\ faults < MaxFaults
          /\ faults' = faults + 1
          /\ doc' \in {doc, new}
          /\ unsure' = TRUE
          /\ UNCHANGED pc
    /\ settled' = (settled /\ Present(doc.table) \subseteq Present(doc'.table))
    /\ UNCHANGED <<registry, draft, at, highest, fresh, shipped, wrapped>>

\* PropagateInProcess: the scanner's table is compiled, and the lock released.
PropagateInProcess ==
    /\ pc = "propagate"
    /\ pc' = "up"
    /\ registry' = Recompiled(doc.table)
    /\ unsure' = FALSE
    /\ UNCHANGED <<doc, draft, at, highest, fresh, shipped, minted, known, edits, faults, settled, wrapped>>

EditTable(table) ==
    /\ MutateSync([doc EXCEPT !.table = table])
    /\ UNCHANGED <<minted, known>>

\* A new type is created disabled.
CreateSidecarType(i, type) ==
    /\ i \notin Present(doc.table)
    /\ LET table == [doc.table EXCEPT ![i] = [type |-> type, order |-> 0]]
       IN Compiles(table) /\ EditTable(table)

\* The mask moves neither id nor order.
UpdateSidecarType(i, type) ==
    /\ i \in Present(doc.table)
    /\ LET table == [doc.table EXCEPT ![i].type = type]
       IN Compiles(table) /\ EditTable(table)

\* The table that is left is not compiled.
DeleteSidecarType(i) ==
    /\ i \in Present(doc.table)
    /\ EditTable([doc.table EXCEPT ![i] = Absent])

\* The request names every entry of the table and no other.
ReorderSidecarTypes ==
    \E requested \in [Present(doc.table) -> Orders] :
        LET table == [i \in Ids |-> IF i \in Present(doc.table)
                                    THEN [type |-> doc.table[i].type, order |-> requested[i]] ELSE Absent]
        IN Compiles(table) /\ EditTable(table)

ResetSidecarTypes == EditTable(DefaultSidecarTypes(shipped))

\* A new password, which the operator knows whether or not the request succeeds,
\* or only another name or address.
UpdateAdminUser ==
    \/ /\ minted' = minted + 1
       /\ known' = known \cup {minted + 1}
       /\ MutateSync([doc EXCEPT !.admin = minted + 1])
    \/ /\ MutateSync(doc)
       /\ UNCHANGED <<minted, known>>

RotateHmacSecret ==
    /\ minted' = minted + 1
    /\ MutateSync([doc EXCEPT !.secret = minted + 1])
    /\ UNCHANGED known

\* The scalar sections: the value start-up takes for "never set" is refused.
UpdateSection(s) ==
    /\ \E v \in Settings : MutateSync([doc EXCEPT !.section[s] = v])
    /\ UNCHANGED <<minted, known>>
UpdateDirectoryScannerConfig == UpdateSection("scanner")
UpdateLoggingConfig == UpdateSection("logging")
UpdateEventBusConfig == UpdateSection("bus")

\* CreateScanDirectory and DeleteScanDirectory, of one directory.
EditScanDirectories ==
    /\ MutateSync([doc EXCEPT !.dirs = ~doc.dirs])
    /\ UNCHANGED <<minted, known>>

Request ==
    \/ \E type \in Types : \/ \E i \in Custom : CreateSidecarType(i, type)
                           \/ \E i \in Ids : UpdateSidecarType(i, type)
    \/ \E i \in Ids : DeleteSidecarType(i)
    \/ ReorderSidecarTypes \/ ResetSidecarTypes
    \/ UpdateAdminUser \/ RotateHmacSecret
    \/ UpdateDirectoryScannerConfig \/ UpdateLoggingConfig \/ UpdateEventBusConfig
    \/ EditScanDirectories

-----------------------------------------------------------------------------
(* Start-up.                                                                *)

\* What start-up held in memory is gone.
Forgotten == draft' = Blank /\ at' = 1 /\ highest' = 0 /\ fresh' = 0

\* A process of the release with n built-ins begins; its registry is theirs.
Restart(n) ==
    /\ pc' = "admin"
    /\ shipped' = n
    /\ registry' = DefaultSidecarTypes(n)
    /\ Forgotten
    /\ settled' = (settled /\ n = shipped)
    /\ UNCHANGED <<known, edits, unsure, wrapped>>

\* The server stops or dies, and comes back as this release or a later one.
Die == \E n \in shipped .. Len(Builtins) : Restart(n) /\ UNCHANGED <<doc, minted, faults>>

\* A write of start-up fails, having landed: the process exits and is started
\* again.
WriteFails ==
    /\ faults < MaxFaults
    /\ faults' = faults + 1
    /\ Restart(shipped)

\* SeedAdmin: an account without a usable password gets one.
SeedAdmin ==
    /\ pc = "admin"
    /\ \/ /\ doc.admin # 0
          /\ pc' = "config"
          /\ UNCHANGED <<doc, registry, draft, at, highest, fresh, shipped, minted, faults, known, edits, unsure,
                         settled, wrapped>>
       \/ /\ doc.admin = 0
          /\ doc' = [doc EXCEPT !.admin = minted + 1]
          /\ minted' = minted + 1
          /\ \/ /\ pc' = "config"
                /\ fresh' = minted + 1
                /\ UNCHANGED <<registry, draft, at, highest, shipped, faults, known, edits, unsure, settled, wrapped>>
             \/ WriteFails

\* The steps of the second call up to the merge.
Seeded(d) ==
    [d EXCEPT !.section = [s \in Sections |-> IF d.section[s] = Unset THEN DefaultValue ELSE d.section[s]],
              !.dirs = d.dirs /\ d.section["scanner"] # Unset,
              !.table = IF d.table = NoTable THEN DefaultSidecarTypes(shipped) ELSE d.table]

ReadConfig ==
    /\ pc = "config"
    /\ draft' = Seeded(doc)
    /\ highest' = Max({0} \cup {draft'.table[i].order : i \in Present(draft'.table)})
    /\ at' = 1
    /\ pc' = "merge"
    /\ UNCHANGED <<doc, registry, fresh, shipped, minted, known, edits, faults, unsure, settled, wrapped>>

\* 32-bit addition.
Wrap(n) == IF n > MaxOrder THEN n - 2 * (MaxOrder + 1) ELSE n

\* One built-in goes into the draft, at its own order or after all the others.
Add(b, taken) ==
    LET order == IF taken THEN Wrap(highest + Gap) ELSE DefaultOrder[b]
    IN  /\ draft' = [draft EXCEPT !.table[b] = [type |-> DefaultType[b], order |-> order]]
        /\ highest' = IF taken \/ order > highest THEN order ELSE highest
        /\ wrapped' = (wrapped \/ (taken /\ highest + Gap > MaxOrder))

\* Mutants of MergeMissing: a built-in takes its own order, and a built-in is
\* known by its name.
MergeAtOwnOrder ==
    /\ pc = "merge" /\ at <= shipped
    /\ at' = at + 1
    /\ IF draft.table[Builtins[at]] = Absent THEN Add(Builtins[at], FALSE)
                                             ELSE UNCHANGED <<draft, highest, wrapped>>
    /\ UNCHANGED <<doc, registry, pc, fresh, shipped, minted, known, edits, faults, unsure, settled>>
MergeByName ==
    /\ pc = "merge" /\ at <= shipped
    /\ at' = at + 1
    /\ LET b == Builtins[at]
       IN IF \A i \in Present(draft.table) : draft.table[i].type # DefaultType[b]
          THEN Add(b, \E i \in Present(draft.table) : draft.table[i].order = DefaultOrder[b])
          ELSE UNCHANGED <<draft, highest, wrapped>>
    /\ UNCHANGED <<doc, registry, pc, fresh, shipped, minted, known, edits, faults, unsure, settled>>

\* MergeMissingSidecarTypes, one built-in: appended when its id is not there.
MergeMissing ==
    /\ pc = "merge" /\ at <= shipped
    /\ at' = at + 1
    /\ LET b == Builtins[at]
       IN IF draft.table[b] = Absent
          THEN Add(b, \E i \in Present(draft.table) : draft.table[i].order = DefaultOrder[b])
          ELSE UNCHANGED <<draft, highest, wrapped>>
    /\ UNCHANGED <<doc, registry, pc, fresh, shipped, minted, known, edits, faults, unsure, settled>>

\* The secret is generated if there is none; the document is written if a step
\* has changed it.
WriteConfig ==
    /\ pc = "merge" /\ at > shipped
    /\ doc' = [draft EXCEPT !.secret = IF draft.secret = 0 THEN minted + 1 ELSE draft.secret]
    /\ minted' = IF draft.secret = 0 THEN minted + 1 ELSE minted
    /\ \/ /\ pc' = "warm"
          /\ UNCHANGED <<registry, draft, at, highest, fresh, shipped, faults, known, edits, unsure, settled, wrapped>>
       \/ WriteFails

\* main.go: the password is printed, the table compiled, the server serves.
Warm ==
    /\ pc = "warm"
    /\ pc' = "up"
    /\ known' = known \cup ({fresh} \ {0})
    /\ registry' = Recompiled(doc.table)
    /\ unsure' = FALSE
    /\ settled' = TRUE
    /\ Forgotten
    /\ UNCHANGED <<doc, shipped, minted, edits, faults, wrapped>>

Boot == SeedAdmin \/ ReadConfig \/ MergeMissing \/ WriteConfig \/ Warm

-----------------------------------------------------------------------------
\* No document yet, which reads as the defaults; or one of an older release,
\* with an account or one that was locked out, lacking any of the sections; its
\* directories came with the scanner's section.
Init ==
    /\ shipped \in 1 .. Len(Builtins)
    /\ minted = 1 /\ known = {1}
    /\ doc \in [admin: {0, 1}, secret: {0}, section: [Sections -> {Unset, DefaultValue}], dirs: BOOLEAN,
                table: {NoTable, DefaultSidecarTypes(shipped)}]
    /\ doc.dirs => doc.section["scanner"] # Unset
    /\ registry = DefaultSidecarTypes(shipped)
    /\ pc = "admin" /\ draft = Blank /\ at = 1 /\ highest = 0 /\ fresh = 0
    /\ edits = 0 /\ faults = 0
    /\ unsure = FALSE /\ settled = FALSE /\ wrapped = FALSE

Next == Request \/ PropagateInProcess \/ Die \/ Boot

Spec == Init /\ [][Next]_vars

-----------------------------------------------------------------------------
Document == [admin: Nat, secret: Nat, section: [Sections -> {Unset} \cup Settings], dirs: BOOLEAN,
             table: [Ids -> Entry \cup {Absent}]]

TypeOK ==
    /\ doc \in Document /\ draft \in Document
    /\ registry \in [Ids -> Entry \cup {Absent}]
    /\ pc \in {"up", "propagate", "admin", "config", "merge", "warm"}
    /\ at \in 1 .. shipped + 1 /\ shipped \in 1 .. Len(Builtins)
    /\ highest \in MinOrder .. MaxOrder
    /\ fresh \in Nat /\ minted \in Nat /\ known \subseteq Nat
    /\ edits \in Nat /\ faults \in Nat
    /\ unsure \in BOOLEAN /\ settled \in BOOLEAN /\ wrapped \in BOOLEAN

\* "First match wins" is never ambiguous (sidecar_types.go:97-100): no two
\* enabled types of the stored table share an order, whatever was reordered,
\* deleted, created, reset and merged in by later releases, as long as the
\* merge's orders fit 32 bits.
OrdersUnambiguous == ~wrapped => OrdersDistinct(doc.table)

\* The scanner is never without a table, and classifies by the stored one as
\* soon as it compiles and the request that wrote it is through
\* (config_propagator.go:121-123, main.go:207-211), unless that write failed.
RegistryFollows ==
    /\ Compiles(registry)
    /\ pc = "up" /\ ~unsure /\ Compiles(doc.table) => registry = NewSidecarRegistry(doc.table)

\* Start-up only fills in (bootstrap.go:49-64, main.go:157-162): it keeps what
\* operators have set, also when an earlier start-up died half way, and an
\* ordinary restart writes nothing.
StartupGentle ==
    [][pc # "up" /\ doc' # doc =>
         /\ ~settled
         /\ \A i \in Present(doc.table) : doc'.table[i] = doc.table[i]
         /\ doc.admin \in {0, doc'.admin} /\ doc.secret \in {0, doc'.secret}
         /\ \A s \in Sections : doc.section[s] \in {Unset, doc'.section[s]}
         /\ doc'.dirs = doc.dirs]_vars

-----------------------------------------------------------------------------
(* Statements of the repository's text that the model refutes.              *)

\* sidecar_types.go:97-100: the merge takes care not to produce "a table the
\* registry refuses".  It looks at ids and orders, not at names: a custom type
\* may have the name of a built-in that was deleted, or that a later release
\* ships.
TableCompiles == ~wrapped => Compiles(doc.table)

\* bootstrap.go:20-22: freshly generated secrets are shown exactly once.  A
\* start-up that fails after SeedAdmin, or dies before it prints, has stored a
\* password nobody sees.
PasswordShown == pc = "up" => doc.admin \in known

\* steps.go:24-27: an empty table would classify nothing.
EmptyClassifiesNothing == pc = "up" /\ ~unsure /\ doc.table = NoTable => registry = NoTable
=============================================================================
