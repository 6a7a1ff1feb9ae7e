--------------------------- MODULE VersionedStore ---------------------------
(***************************************************************************)
(* The versioned Mongo collection behind the workflow service              *)
(* (internal/server/mongostore/versioned) and the handlers of              *)
(* internal/server/services/workflows.go that write to it.                 *)
(*                                                                         *)
(* Every save appends a row and moves the is_latest flag to it.  A save is *)
(* not a transaction: read the latest row, unmark it, insert the new one.  *)
(* Each of those database calls is an action of its own here, so the calls *)
(* of concurrent requests interleave, and a request may die (driver error, *)
(* cancelled context, process crash) between any two of them.              *)
(***************************************************************************)
EXTENDS Naturals

CONSTANTS
    Clients,     \* concurrent RPC requests
    Docs,        \* document ids that can be minted
    Fields,      \* the fields an update mask may name
    Values,      \* the values of a field
    MaxVersion,  \* bound: no save beyond this version number
    MaxId        \* bound: object ids handed out

ASSUME DataAssumption == Docs # {} /\ Values # {}
ASSUME BoundsAssumption == MaxVersion \in Nat \ {0} /\ MaxId \in Nat \ {0}

VARIABLES
    rows,     \* the collection: one record per version
    minted,   \* document ids handed out by bson.NewObjectID
    nextId,   \* the next _id; the ids one process mints only grow
    req,      \* the state of each request
    reply,    \* the answer to each client's last request
    deleted   \* history: documents DeleteAllVersions ever removed

vars == <<rows, minted, nextId, req, reply, deleted>>

Contents == [Fields -> Values]
Row == [id: Nat, doc: Docs, version: Nat \ {0}, latest: BOOLEAN, content: Contents]

\* A request: where it stands in Save, the document, the content to insert, the
\* fields its update mask names, nextVersion and the _id of the new envelope.
Request == [pc: {"idle", "read", "unmark", "insert"}, doc: Docs, content: Contents,
            mask: SUBSET Fields, next: Nat \ {0}, id: Nat]
Replies == {"none", "ok", "notfound", "error"}

AnyDoc == CHOOSE d \in Docs : TRUE
AnyValue == CHOOSE v \in Values : TRUE
NoRequest == [pc |-> "idle", doc |-> AnyDoc, content |-> [f \in Fields |-> AnyValue],
              mask |-> {}, next |-> 1, id |-> 0]

RowsOf(d) == {r \in rows : r.doc = d}

\* GetLatest: FindOne {document_id, is_latest: true} returns one of these rows.
Latest(d) == {r \in rows : r.doc = d /\ r.latest}

\* The unique index on (document_id, version).
HasVersion(d, v) == \E r \in rows : r.doc = d /\ r.version = v

Init ==
    /\ rows = {}
    /\ minted = {}
    /\ nextId = 1
    /\ req = [c \in Clients |-> NoRequest]
    /\ reply = [c \in Clients |-> "none"]
    /\ deleted = {}

-----------------------------------------------------------------------------
\* CreateWorkflow: Save with the nil document id mints a fresh one and skips
\* the read, so nextVersion is 1.
CreateWorkflow(c) ==
    /\ req[c].pc = "idle"
    /\ \E d \in Docs \ minted, x \in Contents :
        /\ minted' = minted \cup {d}
        /\ req' = [req EXCEPT ![c] = [pc |-> "unmark", doc |-> d, content |-> x,
                                      mask |-> Fields, next |-> 1, id |-> 0]]
    /\ reply' = [reply EXCEPT ![c] = "none"]
    /\ UNCHANGED <<rows, nextId, deleted>>

\* applyUpdateMask: the masked fields come from the patch, the rest from base.
Merge(base, patch, m) == [f \in Fields |-> IF f \in m THEN patch[f] ELSE base[f]]

\* UpdateWorkflow reads the latest version and merges the masked fields into
\* it; the merged content is then handed to Save.
UpdateWorkflow(c) ==
    /\ req[c].pc = "idle"
    /\ \E d \in minted, m \in SUBSET Fields \ {{}}, patch \in Contents :
        \E r \in Latest(d) :
            req' = [req EXCEPT ![c] = [pc |-> "read", doc |-> d,
                                       content |-> Merge(r.content, patch, m),
                                       mask |-> m, next |-> 1, id |-> 0]]
    /\ reply' = [reply EXCEPT ![c] = "none"]
    /\ UNCHANGED <<rows, minted, nextId, deleted>>

\* UpdateWorkflow of a document without a latest row answers NotFound.
UpdateNotFound(c) ==
    /\ req[c].pc = "idle"
    /\ \E d \in minted : Latest(d) = {}
    /\ reply' = [reply EXCEPT ![c] = "notfound"]
    /\ UNCHANGED <<rows, minted, nextId, req, deleted>>

\* Save, first call: GetLatest decides nextVersion; a document without a
\* latest row is treated as a first version.
SaveRead(c) ==
    /\ req[c].pc = "read"
    /\ \/ /\ Latest(req[c].doc) = {}
          /\ req' = [req EXCEPT ![c].pc = "unmark", ![c].next = 1]
       \/ \E r \in Latest(req[c].doc) :
            /\ r.version < MaxVersion
            /\ req' = [req EXCEPT ![c].pc = "unmark", ![c].next = r.version + 1]
    /\ UNCHANGED <<rows, minted, nextId, reply, deleted>>

\* Mutant of SaveUnmark: the previous version keeps its flag.
KeepMark(c) ==
    /\ req[c].pc = "unmark"
    /\ nextId <= MaxId
    /\ req' = [req EXCEPT ![c].pc = "insert", ![c].id = nextId]
    /\ nextId' = nextId + 1
    /\ UNCHANGED <<rows, minted, reply, deleted>>

\* Save, second call: UpdateMany clears is_latest on the document's rows; the
\* envelope of the new version is then stamped.
SaveUnmark(c) ==
    /\ req[c].pc = "unmark"
    /\ nextId <= MaxId
    /\ rows' = {[r EXCEPT !.latest = @ /\ r.doc # req[c].doc] : r \in rows}
    /\ req' = [req EXCEPT ![c].pc = "insert", ![c].id = nextId]
    /\ nextId' = nextId + 1
    /\ UNCHANGED <<minted, reply, deleted>>

\* Mutant of NewRow: the version number is one too large.
RowAhead(c) == [id |-> req[c].id, doc |-> req[c].doc, version |-> req[c].next + 1,
                latest |-> TRUE, content |-> req[c].content]

\* The new envelope.
NewRow(c) == [id |-> req[c].id, doc |-> req[c].doc, version |-> req[c].next,
              latest |-> TRUE, content |-> req[c].content]

\* The request is over; its handler answers a.
Answer(c, a) ==
    /\ req' = [req EXCEPT ![c] = NoRequest]
    /\ reply' = [reply EXCEPT ![c] = a]

\* Mutant of SaveInsert: the document is replaced in place.
ReplaceInPlace(c) ==
    /\ req[c].pc = "insert"
    /\ rows' = (rows \ RowsOf(req[c].doc)) \cup {NewRow(c)}
    /\ Answer(c, "ok")
    /\ UNCHANGED <<minted, nextId, deleted>>

\* Save, third call: InsertOne under the unique index.
SaveInsert(c) ==
    /\ req[c].pc = "insert"
    /\ ~HasVersion(req[c].doc, req[c].next)
    /\ rows' = rows \cup {NewRow(c)}
    /\ Answer(c, "ok")
    /\ UNCHANGED <<minted, nextId, deleted>>

\* The index refuses a version number that exists: Save returns the error.
SaveDuplicate(c) ==
    /\ req[c].pc = "insert"
    /\ HasVersion(req[c].doc, req[c].next)
    /\ Answer(c, "error")
    /\ UNCHANGED <<rows, minted, nextId, deleted>>

\* The pending call fails without effect: a driver error or a cancelled
\* context (the handler returns the error), or the server process dies.
Abort(c) ==
    /\ req[c].pc # "idle"
    /\ Answer(c, "error")
    /\ UNCHANGED <<rows, minted, nextId, deleted>>

\* DeleteWorkflow: DeleteMany on the document id.  (With no rows it answers
\* NotFound and changes nothing.)
DeleteWorkflow(d) ==
    /\ RowsOf(d) # {}
    /\ rows' = rows \ RowsOf(d)
    /\ deleted' = deleted \cup {d}
    /\ UNCHANGED <<minted, nextId, req, reply>>

-----------------------------------------------------------------------------
Save(c) == SaveRead(c) \/ SaveUnmark(c) \/ SaveInsert(c) \/ SaveDuplicate(c)

Next ==
    \/ \E c \in Clients :
        \/ CreateWorkflow(c)
        \/ UpdateWorkflow(c)
        \/ UpdateNotFound(c)
        \/ Save(c)
        \/ Abort(c)
    \/ \E d \in Docs : DeleteWorkflow(d)

Spec == Init /\ [][Next]_vars

\* A request that has begun its save goes on to the end (its goroutine is
\* scheduled), and the operator retries: an update is sent again and again.
Fairness ==
    \A c \in Clients : /\ WF_vars(Save(c))
                       /\ SF_vars(UpdateWorkflow(c))
                       /\ WF_vars(UpdateNotFound(c))

LiveSpec == Spec /\ Fairness

-----------------------------------------------------------------------------
\* The collection holds whole envelopes, numbered from 1, and every request is at
\* a call of Save.
TypeOK ==
    /\ rows \subseteq Row
    /\ minted \subseteq Docs
    /\ nextId \in Nat
    /\ req \in [Clients -> Request]
    /\ reply \in [Clients -> Replies]
    /\ deleted \subseteq Docs

(* What a document that was never deleted keeps, however its saves          *)
(* interleave and wherever they stop.                                       *)

\* No two rows of a document carry the same version number.
VersionsUnique ==
    \A r, s \in rows : r.doc = s.doc /\ r.version = s.version => r = s

\* The history has no gap: below every version lie all the earlier ones.
HistoryContiguous ==
    \A r \in rows : r.doc \notin deleted =>
        \A v \in 1..r.version : HasVersion(r.doc, v)

\* The row flagged is_latest is the newest version, so GetLatest never serves
\* a superseded one and ListLatest never shows a document twice.
LatestIsNewest ==
    \A r, s \in rows :
        r.doc = s.doc /\ r.doc \notin deleted /\ r.latest => s.version <= r.version

\* At most one row of a document is flagged.
AtMostOneLatest ==
    \A r, s \in rows :
        r.doc = s.doc /\ r.doc \notin deleted /\ r.latest /\ s.latest => r = s

\* Save never mutates a version in place: a row keeps everything but the
\* flag, which is only ever cleared, until its document is deleted as a whole.
SameVersion(r, s) == /\ r.id = s.id /\ r.doc = s.doc /\ r.version = s.version
                     /\ r.content = s.content
                     /\ s.latest => r.latest
HistoryImmutable ==
    [][\A r \in rows : \/ \E s \in rows' : SameVersion(r, s)
                       \/ \A s \in rows' : s.doc # r.doc]_rows

-----------------------------------------------------------------------------
(* Statements of the repository's text that concurrency refutes.            *)

LatestLess(d) == RowsOf(d) # {} /\ Latest(d) = {}

\* versioned.go:112-115: a save that fails between its two writes leaves the
\* document "briefly latest-less"; "a retried save fixes it".
RetriedSaveFixesIt ==
    \A d \in Docs : LatestLess(d) ~> ~LatestLess(d)

\* ADR 0013: the delete hard-removes every version and is irreversible.
DeleteIsFinal == \A d \in deleted : RowsOf(d) = {}

\* workflows.proto: an update changes the masked fields of the latest version;
\* what it appends agrees with its predecessor on every other field.
UpdateKeepsUnmasked ==
    [][\A c \in Clients : SaveInsert(c) =>
         \A r \in rows : r.doc = req[c].doc /\ r.version = req[c].next - 1 =>
             \A f \in Fields \ req[c].mask : r.content[f] = req[c].content[f]]_vars

=============================================================================
