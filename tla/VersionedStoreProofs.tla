------------------------ MODULE VersionedStoreProofs ------------------------
(***************************************************************************)
(* Proofs about VersionedStore and WorkflowListing for any number of       *)
(* clients, documents, versions and pages: whatever way the calls of       *)
(* concurrent saves interleave and wherever they stop, a document that was *)
(* never deleted keeps a gap-free history whose flagged row is its newest  *)
(* version, and a listing shows every document that stands still once.     *)
(***************************************************************************)
EXTENDS WorkflowListing, FiniteSetTheorems, WellFoundedInduction, TLAPS

\* A request that reads to save, or saves a version above the first, works on
\* a document that has versions; one that inserts version 1 of a document
\* without any is the request that minted it, and nobody else knows the id.
RequestsGrounded ==
    \A c \in Clients :
        LET q == req[c] IN
        /\ q.pc # "idle" => q.doc \in minted
        /\ q.pc # "idle" /\ q.doc \notin deleted =>
            /\ q.pc = "read" => HasVersion(q.doc, 1)
            /\ q.pc # "read" /\ q.next > 1 => HasVersion(q.doc, q.next - 1)
            /\ q.pc # "read" /\ q.next = 1 /\ ~HasVersion(q.doc, 1) =>
                 \A e \in Clients \ {c} : req[e].pc # "idle" => req[e].doc # q.doc

\* Between its unmark and its insert, a request that can still insert finds
\* the version it follows unflagged.
UnmarkHolds ==
    \A c \in Clients : \A r \in rows :
        /\ req[c].pc = "insert"
        /\ r.doc = req[c].doc
        /\ r.doc \notin deleted
        /\ ~HasVersion(req[c].doc, req[c].next)
        => ~r.latest

RowsMinted == \A r \in rows : r.doc \in minted

\* The inductive invariant.
StoreInv ==
    /\ TypeOK
    /\ RowsMinted
    /\ VersionsUnique
    /\ HistoryContiguous
    /\ LatestIsNewest
    /\ RequestsGrounded
    /\ UnmarkHolds

-----------------------------------------------------------------------------
\* A client without a request has a request's type.
LEMMA NoRequestType == NoRequest \in Request
  <1>1. AnyDoc \in Docs
    BY DataAssumption DEF AnyDoc
  <1>2. AnyValue \in Values
    BY DataAssumption DEF AnyValue
  <1> QED
    BY <1>1, <1>2 DEF NoRequest, Request, Contents

\* Such a client is idle.
LEMMA NoRequestIdle == NoRequest.pc = "idle"
  BY DEF NoRequest

\* Every action keeps the types.
LEMMA TypeStep == TypeOK /\ [Next]_vars => TypeOK'
  <1> SUFFICES ASSUME TypeOK, [Next]_vars PROVE TypeOK'
    OBVIOUS
  <1> USE DEF TypeOK
  <1>1. ASSUME NEW c \in Clients, CreateWorkflow(c) PROVE TypeOK'
    BY <1>1 DEF CreateWorkflow, Request, Replies
  <1>2. ASSUME NEW c \in Clients, UpdateWorkflow(c) PROVE TypeOK'
    <2>1. PICK d \in minted, m \in SUBSET Fields \ {{}}, patch \in Contents :
            \E r \in Latest(d) :
              req' = [req EXCEPT ![c] = [pc |-> "read", doc |-> d,
                                     content |-> Merge(r.content, patch, m),
                                     mask |-> m, next |-> 1, id |-> 0]]
      BY <1>2 DEF UpdateWorkflow
    <2>2. PICK r \in Latest(d) :
              req' = [req EXCEPT ![c] = [pc |-> "read", doc |-> d,
                                     content |-> Merge(r.content, patch, m),
                                     mask |-> m, next |-> 1, id |-> 0]]
      BY <2>1
    <2>3. Merge(r.content, patch, m) \in Contents
      BY DEF Latest, Row, Contents, Merge
    <2>4. req' \in [Clients -> Request]
      BY <2>2, <2>3 DEF Request
    <2> QED
      BY <1>2, <2>4 DEF UpdateWorkflow, Replies
  <1>3. ASSUME NEW c \in Clients, UpdateNotFound(c) PROVE TypeOK'
    BY <1>3 DEF UpdateNotFound, Replies
  <1>4. ASSUME NEW c \in Clients, SaveRead(c) PROVE TypeOK'
    <2>1. PICK n \in Nat \ {0} : req' = [req EXCEPT ![c].pc = "unmark", ![c].next = n]
      BY <1>4 DEF SaveRead, Latest, Row
    <2>2. [req[c] EXCEPT !.pc = "unmark", !.next = n] \in Request
      BY DEF Request
    <2>3. req' = [req EXCEPT ![c] = [req[c] EXCEPT !.pc = "unmark", !.next = n]]
      BY <2>1
    <2>4. req' \in [Clients -> Request]
      BY <2>2, <2>3
    <2> QED
      BY <1>4, <2>4 DEF SaveRead
  <1>5. ASSUME NEW c \in Clients, SaveUnmark(c) PROVE TypeOK'
    <2>1. rows' \subseteq Row
      BY <1>5 DEF SaveUnmark, Row
    <2>2. req' \in [Clients -> Request]
      BY <1>5 DEF SaveUnmark, Request
    <2> QED
      BY <1>5, <2>1, <2>2 DEF SaveUnmark
  <1>6. ASSUME NEW c \in Clients, SaveInsert(c) PROVE TypeOK'
    <2>1. NewRow(c) \in Row
      BY DEF NewRow, Row, Request
    <2> QED
      BY <1>6, <2>1, NoRequestType DEF SaveInsert, Answer, Replies
  <1>7. ASSUME NEW c \in Clients, SaveDuplicate(c) PROVE TypeOK'
    BY <1>7, NoRequestType DEF SaveDuplicate, Answer, Replies
  <1>8. ASSUME NEW c \in Clients, Abort(c) PROVE TypeOK'
    BY <1>8, NoRequestType DEF Abort, Answer, Replies
  <1>9. ASSUME NEW d \in Docs, DeleteWorkflow(d) PROVE TypeOK'
    BY <1>9 DEF DeleteWorkflow
  <1>10. CASE UNCHANGED vars
    BY <1>10 DEF vars
  <1> QED
    BY <1>1, <1>2, <1>3, <1>4, <1>5, <1>6, <1>7, <1>8, <1>9, <1>10 DEF Next, Save

\* Type correctness: every row, request and reply keeps its type.
THEOREM TypeCorrect == Spec => []TypeOK
  <1>1. Init => TypeOK
    BY NoRequestType DEF Init, TypeOK, Replies
  <1> QED
    BY <1>1, TypeStep, PTL DEF Spec

-----------------------------------------------------------------------------
\* Every step of the store keeps the inductive invariant.
LEMMA StepInv == StoreInv /\ [Next]_vars => StoreInv'
  <1> SUFFICES ASSUME StoreInv, [Next]_vars, TypeOK' PROVE StoreInv'
    BY TypeStep DEF StoreInv
  <1> USE DEF StoreInv
  <1>1. ASSUME NEW c \in Clients, CreateWorkflow(c) PROVE StoreInv'
    <2>1. PICK d \in Docs \ minted, x \in Contents :
        /\ minted' = minted \cup {d}
        /\ req' = [req EXCEPT ![c] = [pc |-> "unmark", doc |-> d, content |-> x,
                                      mask |-> Fields, next |-> 1, id |-> 0]]
      BY <1>1 DEF CreateWorkflow
    <2>2. /\ rows' = rows /\ deleted' = deleted
          /\ req'[c].pc = "unmark" /\ req'[c].doc = d /\ req'[c].next = 1
          /\ \A e \in Clients \ {c} : req'[e] = req[e]
      BY <1>1, <2>1 DEF CreateWorkflow, TypeOK
    <2>3. RequestsGrounded'
      BY <2>1, <2>2 DEF RequestsGrounded, RowsMinted, HasVersion, TypeOK, Request
    <2>4. UnmarkHolds'
      BY <2>2 DEF UnmarkHolds, HasVersion
    <2> QED
      BY <2>1, <2>2, <2>3, <2>4
         DEF RowsMinted, VersionsUnique, HistoryContiguous, LatestIsNewest, HasVersion
  <1>2. ASSUME NEW c \in Clients, UpdateWorkflow(c) PROVE StoreInv'
    <2>1. PICK d \in minted, m \in SUBSET Fields \ {{}}, patch \in Contents :
            \E r \in Latest(d) :
              req' = [req EXCEPT ![c] = [pc |-> "read", doc |-> d,
                                     content |-> Merge(r.content, patch, m),
                                     mask |-> m, next |-> 1, id |-> 0]]
      BY <1>2 DEF UpdateWorkflow
    <2>2. /\ rows' = rows /\ deleted' = deleted /\ minted' = minted
          /\ req'[c].pc = "read" /\ req'[c].doc = d
          /\ \A e \in Clients \ {c} : req'[e] = req[e]
      BY <1>2, <2>1 DEF UpdateWorkflow, TypeOK
    <2>3. d \notin deleted => HasVersion(d, 1)
      <3>1. PICK r \in rows : r.doc = d
        BY <2>1 DEF Latest
      <3>2. r.version \in Nat \ {0}
        BY <3>1 DEF TypeOK, Row
      <3> QED
        BY <3>1, <3>2 DEF HistoryContiguous
    <2>4. RequestsGrounded'
      BY <2>2, <2>3 DEF RequestsGrounded, HasVersion
    <2>5. UnmarkHolds'
      BY <2>2 DEF UnmarkHolds, HasVersion
    <2> QED
      BY <2>2, <2>4, <2>5
         DEF RowsMinted, VersionsUnique, HistoryContiguous, LatestIsNewest, HasVersion
  <1>3. ASSUME NEW c \in Clients, SaveRead(c) PROVE StoreInv'
    <2> DEFINE d == req[c].doc
    <2>1. /\ rows' = rows /\ deleted' = deleted /\ minted' = minted
          /\ req[c].pc = "read" /\ d \in minted
          /\ d \notin deleted => HasVersion(d, 1)
      BY <1>3 DEF SaveRead, RequestsGrounded
    <2>2. PICK n \in Nat \ {0} :
            /\ req' = [req EXCEPT ![c].pc = "unmark", ![c].next = n]
            /\ n > 1 => HasVersion(d, n - 1)
      <3>1. CASE /\ Latest(d) = {}
                 /\ req' = [req EXCEPT ![c].pc = "unmark", ![c].next = 1]
        <4>1. 1 \in Nat \ {0} /\ ~(1 > 1)
          OBVIOUS
        <4> QED
          BY <3>1, <4>1
      <3>2. CASE \E r \in Latest(d) :
                    req' = [req EXCEPT ![c].pc = "unmark", ![c].next = r.version + 1]
        <4>1. PICK r \in Latest(d) :
                    req' = [req EXCEPT ![c].pc = "unmark", ![c].next = r.version + 1]
          BY <3>2
        <4>2. r.version + 1 \in Nat \ {0} /\ (r.version + 1) - 1 = r.version
          BY DEF Latest, TypeOK, Row
        <4>3. HasVersion(d, r.version)
          BY DEF Latest, HasVersion
        <4> QED
          BY <4>1, <4>2, <4>3
      <3> QED
        BY <1>3, <3>1, <3>2 DEF SaveRead
    <2>3. /\ req'[c].pc = "unmark" /\ req'[c].doc = d /\ req'[c].next = n
          /\ \A e \in Clients \ {c} : req'[e] = req[e]
      BY <2>2 DEF TypeOK, Request
    <2> HIDE DEF d
    <2>4. RequestsGrounded'
      <3>1. \A e, v : HasVersion(e, v)' <=> HasVersion(e, v)
        BY <2>1 DEF HasVersion
      <3>2. d = req[c].doc
        BY DEF d
      <3> SUFFICES ASSUME NEW e \in Clients, req'[e].pc # "idle"
                   PROVE
            /\ req'[e].doc \in minted
            /\ req'[e].doc \notin deleted =>
              /\ req'[e].pc = "read" => HasVersion(req'[e].doc, 1)
              /\ req'[e].pc # "read" /\ req'[e].next > 1 => HasVersion(req'[e].doc, req'[e].next - 1)
              /\ req'[e].pc # "read" /\ req'[e].next = 1 /\ ~HasVersion(req'[e].doc, 1) =>
                   \A f \in Clients \ {e} : req'[f].pc # "idle" => req'[f].doc # req'[e].doc
        BY <2>1, <3>1 DEF RequestsGrounded, HasVersion
      <3>3. CASE e = c
        BY <3>2, <3>3, <2>1, <2>2, <2>3
      <3>4. CASE e # c
        BY <3>2, <3>4, <2>1, <2>3 DEF RequestsGrounded
      <3> QED
        BY <3>3, <3>4
    <2>5. UnmarkHolds'
      BY <2>1, <2>3 DEF UnmarkHolds, HasVersion
    <2> QED
      BY <2>1, <2>4, <2>5
         DEF RowsMinted, VersionsUnique, HistoryContiguous, LatestIsNewest, HasVersion
  <1>4. ASSUME NEW c \in Clients, SaveUnmark(c) PROVE StoreInv'
    <2> DEFINE d == req[c].doc
               Cleared(r) == [r EXCEPT !.latest = @ /\ r.doc # d]
    <2>1. /\ rows' = {Cleared(r) : r \in rows}
          /\ deleted' = deleted /\ minted' = minted /\ req[c].pc = "unmark"
      BY <1>4 DEF SaveUnmark
    <2>2. /\ req'[c].pc = "insert" /\ req'[c].doc = d /\ req'[c].next = req[c].next
          /\ \A e \in Clients \ {c} : req'[e] = req[e]
      BY <1>4 DEF SaveUnmark, TypeOK, Request
    <2>3. ASSUME NEW r \in rows
          PROVE  /\ Cleared(r).doc = r.doc /\ Cleared(r).version = r.version
                 /\ Cleared(r).latest => r.latest
                 /\ r.doc = d => ~Cleared(r).latest
      BY DEF TypeOK, Row
    <2> HIDE DEF Cleared
    <2>4. \A e, v : HasVersion(e, v)' <=> HasVersion(e, v)
      BY <2>1, <2>3 DEF HasVersion
    <2>5. RowsMinted' /\ VersionsUnique' /\ LatestIsNewest'
      BY <2>1, <2>3 DEF RowsMinted, VersionsUnique, LatestIsNewest
    <2>6. HistoryContiguous'
      BY <2>1, <2>3, <2>4 DEF HistoryContiguous
    <2>7. RequestsGrounded'
      BY <2>1, <2>2, <2>4 DEF RequestsGrounded
    <2>8. UnmarkHolds'
      <3> SUFFICES ASSUME NEW e \in Clients, NEW s \in rows',
                          req'[e].pc = "insert", s.doc = req'[e].doc,
                          s.doc \notin deleted,
                          ~HasVersion(req'[e].doc, req'[e].next)
                   PROVE  ~s.latest
        BY <2>1, <2>4 DEF UnmarkHolds
      <3>1. PICK r \in rows : s = Cleared(r)
        BY <2>1
      <3>2. CASE e = c
        BY <3>1, <3>2, <2>2, <2>3
      <3>3. CASE e # c
        BY <3>1, <3>3, <2>2, <2>3 DEF UnmarkHolds
      <3> QED
        BY <3>2, <3>3
    <2> QED
      BY <2>5, <2>6, <2>7, <2>8
  <1>5. ASSUME NEW c \in Clients, SaveInsert(c) PROVE StoreInv'
    <2> DEFINE d == req[c].doc
               n == req[c].next
    <2>1. /\ rows' = rows \cup {NewRow(c)}
          /\ deleted' = deleted /\ minted' = minted
          /\ req[c].pc = "insert" /\ ~HasVersion(d, n) /\ d \in minted
          /\ d \in Docs /\ n \in Nat \ {0}
      BY <1>5 DEF SaveInsert, RequestsGrounded, TypeOK, Request
    <2>2. /\ req'[c].pc = "idle"
          /\ \A e \in Clients \ {c} : req'[e] = req[e]
      BY <1>5, NoRequestIdle DEF SaveInsert, Answer, TypeOK
    <2>3. NewRow(c).doc = d /\ NewRow(c).version = n
      BY DEF NewRow
    <2>4. \A e, v : HasVersion(e, v)' <=> HasVersion(e, v) \/ (e = d /\ v = n)
      BY <2>1, <2>3 DEF HasVersion
    <2>5. \A r \in rows : r.version \in Nat \ {0}
      BY DEF TypeOK, Row
    <2>6. ASSUME d \notin deleted
          PROVE  \A v \in Nat \ {0} : HasVersion(d, v) <=> v < n
      <3>1. n > 1 => HasVersion(d, n - 1)
        BY <2>1, <2>6 DEF RequestsGrounded
      <3>2. \A v \in Nat \ {0} : v < n => HasVersion(d, v)
        BY <2>1, <2>6, <3>1 DEF HistoryContiguous, HasVersion
      <3>3. \A v \in Nat \ {0} : HasVersion(d, v) => v < n
        BY <2>1, <2>6 DEF HistoryContiguous, HasVersion
      <3> QED
        BY <3>2, <3>3
    <2>7. RowsMinted' /\ VersionsUnique'
      BY <2>1, <2>3 DEF RowsMinted, VersionsUnique, HasVersion
    <2>8. HistoryContiguous'
      <3> SUFFICES ASSUME NEW r \in rows', r.doc \notin deleted, NEW v \in 1..r.version
                   PROVE  HasVersion(r.doc, v)'
        BY <2>1 DEF HistoryContiguous
      <3>1. CASE r \in rows
        BY <3>1, <2>4 DEF HistoryContiguous
      <3>2. CASE r = NewRow(c)
        <4>1. v = n \/ (v \in Nat \ {0} /\ v < n)
          BY <3>2, <2>1, <2>3
        <4> QED
          BY <4>1, <3>2, <2>3, <2>4, <2>6
      <3> QED
        BY <3>1, <3>2, <2>1
    <2>9. LatestIsNewest'
      <3> SUFFICES ASSUME NEW r \in rows', NEW s \in rows', r.doc = s.doc,
                          r.doc \notin deleted, r.latest
                   PROVE  s.version <= r.version
        BY <2>1 DEF LatestIsNewest
      <3>1. CASE r \in rows /\ s \in rows
        BY <3>1 DEF LatestIsNewest
      <3>2. CASE r \in rows /\ s = NewRow(c)
        BY <3>2, <2>1, <2>3 DEF UnmarkHolds
      <3>3. CASE r = NewRow(c) /\ s \in rows
        <4>1. HasVersion(d, s.version)
          BY <3>3, <2>3 DEF HasVersion
        <4> QED
          BY <4>1, <3>3, <2>1, <2>3, <2>5, <2>6
      <3>4. CASE r = NewRow(c) /\ s = NewRow(c)
        BY <3>4, <2>1, <2>3
      <3> QED
        BY <3>1, <3>2, <3>3, <3>4, <2>1
    <2>10. RequestsGrounded'
      BY <2>1, <2>2, <2>4 DEF RequestsGrounded
    <2>11. UnmarkHolds'
      <3> SUFFICES ASSUME NEW e \in Clients, NEW r \in rows',
                          req'[e].pc = "insert", r.doc = req'[e].doc,
                          r.doc \notin deleted,
                          ~(HasVersion(req[e].doc, req[e].next)')
                   PROVE  ~r.latest
        BY <2>1, <2>2 DEF UnmarkHolds, HasVersion
      <3>1. e # c /\ req'[e] = req[e]
        BY <2>2
      <3>2. ~HasVersion(req[e].doc, req[e].next)
        BY <3>1, <2>4
      <3>3. CASE r \in rows
        BY <3>1, <3>2, <3>3 DEF UnmarkHolds
      <3>4. CASE r = NewRow(c)
        <4>1. req[e].doc = d /\ d \notin deleted /\ req[e].pc = "insert"
          BY <3>1, <3>4, <2>3
        <4>2. req[e].next \in Nat \ {0} /\ req[e].next # n
          BY <3>1, <4>1, <2>4 DEF TypeOK, Request
        <4>3. req[e].next > 1
          BY <4>1, <4>2, <3>1, <3>2, <2>1 DEF RequestsGrounded
        <4>4. HasVersion(d, req[e].next - 1)
          BY <4>1, <4>3 DEF RequestsGrounded
        <4> QED
          BY <4>1, <4>2, <4>3, <4>4, <3>2, <2>1, <2>6
      <3> QED
        BY <3>3, <3>4, <2>1
    <2> QED
      BY <2>7, <2>8, <2>9, <2>10, <2>11
  <1>6. ASSUME NEW c \in Clients, SaveDuplicate(c) \/ Abort(c) PROVE StoreInv'
    <2>1. /\ rows' = rows /\ deleted' = deleted /\ minted' = minted
          /\ req'[c].pc = "idle"
          /\ \A e \in Clients \ {c} : req'[e] = req[e]
      BY <1>6, NoRequestIdle DEF SaveDuplicate, Abort, Answer, TypeOK
    <2>2. RequestsGrounded' /\ UnmarkHolds'
      BY <2>1 DEF RequestsGrounded, UnmarkHolds, HasVersion
    <2> QED
      BY <2>1, <2>2 DEF RowsMinted, VersionsUnique, HistoryContiguous, LatestIsNewest, HasVersion
  <1>7. ASSUME NEW d \in Docs, DeleteWorkflow(d) PROVE StoreInv'
    <2>1. /\ rows' = rows \ RowsOf(d) /\ deleted' = deleted \cup {d}
          /\ minted' = minted /\ req' = req
      BY <1>7 DEF DeleteWorkflow
    <2>2. \A e, v : e # d => (HasVersion(e, v)' <=> HasVersion(e, v))
      BY <2>1 DEF HasVersion, RowsOf
    <2>3. RowsMinted' /\ VersionsUnique' /\ LatestIsNewest'
      BY <2>1 DEF RowsMinted, VersionsUnique, LatestIsNewest
    <2>4. HistoryContiguous'
      BY <2>1, <2>2 DEF HistoryContiguous
    <2>5. RequestsGrounded'
      BY <2>1, <2>2 DEF RequestsGrounded
    <2>6. UnmarkHolds'
      BY <2>1, <2>2 DEF UnmarkHolds
    <2> QED
      BY <2>3, <2>4, <2>5, <2>6
  <1>8. CASE UNCHANGED vars \/ \E c \in Clients : UpdateNotFound(c)
    <2>1. rows' = rows /\ deleted' = deleted /\ minted' = minted /\ req' = req
      BY <1>8 DEF vars, UpdateNotFound
    <2> QED
      BY <2>1 DEF RowsMinted, VersionsUnique, HistoryContiguous, LatestIsNewest, HasVersion,
                  RequestsGrounded, UnmarkHolds
  <1> QED
    BY <1>1, <1>2, <1>3, <1>4, <1>5, <1>6, <1>7, <1>8 DEF Next, Save

\* The inductive invariant holds in every reachable state.
THEOREM StoreInvariant == Spec => []StoreInv
  <1>1. Init => StoreInv
    BY NoRequestType, NoRequestIdle
       DEF Init, StoreInv, TypeOK, Replies, RowsMinted, VersionsUnique, HistoryContiguous,
           LatestIsNewest, RequestsGrounded, UnmarkHolds
  <1> QED
    BY <1>1, StepInv, PTL DEF Spec

\* The history of a document that was never deleted has no gap and no
\* duplicate, its flagged row is its newest version and there is at most one:
\* two saves that read the same latest row cannot both append.
THEOREM HistoryCorrect ==
    Spec => [](VersionsUnique /\ HistoryContiguous /\ LatestIsNewest /\ AtMostOneLatest)
  <1>1. StoreInv => AtMostOneLatest
    <2> SUFFICES ASSUME StoreInv, NEW r \in rows, NEW s \in rows, r.doc = s.doc,
                        r.doc \notin deleted, r.latest, s.latest
                 PROVE  r = s
      BY DEF AtMostOneLatest
    <2>1. s.version <= r.version /\ r.version <= s.version
      BY DEF StoreInv, LatestIsNewest
    <2>2. r.version \in Nat /\ s.version \in Nat
      BY DEF StoreInv, TypeOK, Row
    <2> QED
      BY <2>1, <2>2 DEF StoreInv, VersionsUnique
  <1>2. StoreInv => VersionsUnique /\ HistoryContiguous /\ LatestIsNewest
    BY DEF StoreInv
  <1> QED
    BY <1>1, <1>2, StoreInvariant, PTL

\* No step rewrites a version that is stored: only its flag is cleared, and
\* it leaves the collection only together with its whole document.
THEOREM HistoryKept == Spec => HistoryImmutable
  <1> DEFINE Kept == \A r \in rows : \/ \E s \in rows' : SameVersion(r, s)
                                     \/ \A s \in rows' : s.doc # r.doc
  <1>1. TypeOK /\ [Next]_vars => [Kept]_rows
    <2> SUFFICES ASSUME TypeOK, Next, rows' # rows PROVE Kept
      BY DEF vars
    <2>1. ASSUME NEW c \in Clients, SaveUnmark(c) PROVE Kept
      <3> SUFFICES ASSUME NEW r \in rows PROVE \E s \in rows' : SameVersion(r, s)
        OBVIOUS
      <3>1. SameVersion(r, [r EXCEPT !.latest = @ /\ r.doc # req[c].doc])
        BY DEF SameVersion, TypeOK, Row
      <3> QED
        BY <2>1, <3>1 DEF SaveUnmark
    <2>2. ASSUME NEW c \in Clients, SaveInsert(c) PROVE Kept
      BY <2>2 DEF SaveInsert, SameVersion
    <2>3. ASSUME NEW d \in Docs, DeleteWorkflow(d) PROVE Kept
      BY <2>3 DEF DeleteWorkflow, RowsOf, SameVersion
    <2> QED
      BY <2>1, <2>2, <2>3
         DEF Next, Save, CreateWorkflow, UpdateWorkflow, UpdateNotFound, SaveRead,
             SaveDuplicate, Abort
  <1> QED
    BY <1>1, TypeCorrect, PTL DEF Spec, HistoryImmutable

\* Below every version of a document that was never deleted lie all the
\* earlier ones: Save numbers from the latest row it read, and a save that
\* read a stale one finds its number taken (versioned.go:116-154).
THEOREM HistoryHasNoGap == Spec => []HistoryContiguous
  <1>1. StoreInv => HistoryContiguous
    BY DEF StoreInv
  <1> QED
    BY <1>1, StoreInvariant, PTL

-----------------------------------------------------------------------------
(* Paging through the list.                                                 *)
(*                                                                          *)
(* A page takes the rows with the largest ids out of those below the        *)
(* cursor: nothing left out lies above the new cursor, and when no further  *)
(* row was fetched nothing was left out.  So a document whose flagged row   *)
(* did not change was shown exactly when its row is not ahead of the cursor *)
(* any more.                                                                *)

\* The row is still to be shown by the listing.
Ahead(l, r) == list[l].active /\ (list[l].cursor = 0 \/ r.id < list[l].cursor)

ListingInv ==
    \A l \in Listers : \A d \in list[l].stable \ deleted :
        /\ Latest(d) # {}
        /\ \A r \in Latest(d) : list[l].shown[d] = IF Ahead(l, r) THEN 0 ELSE 1

\* The collection is finite, and ids are handed out from 1 to MaxId.
IdsMinted ==
    /\ IsFiniteSet(rows)
    /\ nextId >= 1
    /\ \A r \in rows : r.id \in 1 .. MaxId
    /\ \A c \in Clients : req[c].pc = "insert" => req[c].id \in 1 .. MaxId

ListType ==
    list \in [Listers -> [active: BOOLEAN, cursor: 0..MaxId, shown: [Docs -> 0..2], stable: SUBSET Docs]]

\* A set of natural numbers that is not empty has a least element: Min.
LEMMA MinIsLeast ==
    ASSUME NEW S \in SUBSET Nat, S # {}
    PROVE  Min(S) \in S /\ \A y \in S : Min(S) <= y
  <1> DEFINE R == {ss \in Nat \X Nat : ss[1] < ss[2]}
  <1>1. IsWellFoundedOn(R, Nat)
    BY NatLessThanWellFounded, Zenon DEF OpToRel
  <1> HIDE DEF R
  <1>2. PICK x \in S : \A y \in S : ~(<<y, x>> \in R)
    BY <1>1, WFMin, Zenon
  <1>3. \A y \in S : ~(<<y, x>> \in R) => x <= y
    BY DEF R
  <1>4. \E z \in S : \A y \in S : z <= y
    BY <1>2, <1>3
  <1> QED
    BY <1>4 DEF Min

\* Rows that are not empty have one with the largest id.
LEMMA NewestRow ==
    ASSUME NEW S, S # {}, \A r \in S : r.id \in 1 .. MaxId
    PROVE  \E r \in S : \A s \in S : s.id <= r.id
  <1> DEFINE D == {MaxId - r.id : r \in S}
  <1>1. D \in SUBSET Nat /\ D # {}
    BY BoundsAssumption
  <1>2. Min(D) \in D /\ \A y \in D : Min(D) <= y
    <2> HIDE DEF D
    <2> QED BY <1>1, MinIsLeast
  <1>3. PICK r \in S : Min(D) = MaxId - r.id
    BY <1>2
  <1>4. ASSUME NEW s \in S PROVE s.id <= r.id
    <2>1. MaxId - s.id \in D
      OBVIOUS
    <2>2. MaxId - r.id <= MaxId - s.id
      BY <1>2, <1>3, <2>1
    <2> QED BY <2>2, BoundsAssumption
  <1> QED BY <1>4

\* What a page leaves out lies below everything on it.
LEMMA TopIsAbove ==
    ASSUME NEW S, IsFiniteSet(S), \A r \in S : r.id \in Nat, NEW n \in Nat,
           NEW r \in S \ Top(n, S), NEW s \in Top(n, S)
    PROVE  r.id < s.id
  <1> SUFFICES ASSUME ~(r.id < s.id) PROVE FALSE
    OBVIOUS
  <1> DEFINE AboveR == {t \in S : t.id > r.id}
             AboveS == {t \in S : t.id > s.id}
  <1>1. s \in S /\ s.id \in Nat /\ r.id \in Nat /\ s.id <= r.id
    BY DEF Top
  <1>2. AboveR \subseteq AboveS /\ AboveS \subseteq S
    BY <1>1
  <1>3. IsFiniteSet(AboveS) /\ IsFiniteSet(AboveR)
    BY <1>2, FS_Subset
  <1>4. Cardinality(AboveR) <= Cardinality(AboveS)
    BY <1>2, <1>3, FS_Subset
  <1>5. Cardinality(AboveR) \in Nat /\ Cardinality(AboveS) \in Nat
    BY <1>3, FS_CardinalityType
  <1>6. Cardinality(AboveS) < n /\ ~(Cardinality(AboveR) < n)
    BY DEF Top
  <1> HIDE DEF AboveR, AboveS
  <1> QED BY <1>4, <1>5, <1>6

\* The first n of the first n + 1 are the first n.
LEMMA TopOfTop ==
    ASSUME NEW S, IsFiniteSet(S), \A r \in S : r.id \in Nat, NEW n \in Nat
    PROVE  Top(n, Top(n + 1, S)) = Top(n, S)
  <1> DEFINE T == Top(n + 1, S)
  <1>1. T \subseteq S
    BY DEF Top
  <1>2. ASSUME NEW r \in T PROVE {t \in T : t.id > r.id} = {t \in S : t.id > r.id}
    <2>1. ASSUME NEW t \in S, t.id > r.id, t \notin T PROVE FALSE
      <3>1. t.id < r.id
        <4> HIDE DEF T
        <4>1. t \in S \ Top(n + 1, S) /\ r \in Top(n + 1, S)
          BY <2>1 DEF T
        <4> QED BY <4>1, TopIsAbove
      <3> QED BY <1>1, <2>1, <3>1
    <2> HIDE DEF T
    <2> QED BY <1>1, <2>1
  <1>3. ASSUME NEW r \in Top(n, S) PROVE r \in T
    <2>1. r \in S /\ Cardinality({t \in S : t.id > r.id}) < n
      BY DEF Top
    <2>2. IsFiniteSet({t \in S : t.id > r.id})
      BY FS_Subset
    <2>3. Cardinality({t \in S : t.id > r.id}) \in Nat
      BY <2>2, FS_CardinalityType
    <2>4. Cardinality({t \in S : t.id > r.id}) < n + 1
      BY <2>1, <2>3
    <2> QED BY <2>1, <2>4 DEF Top
  <1>4. Top(n, T) = {r \in T : Cardinality({t \in S : t.id > r.id}) < n}
    <2> HIDE DEF T
    <2> QED BY <1>2 DEF Top
  <1>5. Top(n, S) = {r \in T : Cardinality({t \in S : t.id > r.id}) < n}
    <2> HIDE DEF T
    <2>1. Top(n, S) = {r \in S : Cardinality({t \in S : t.id > r.id}) < n}
      BY DEF Top
    <2> QED BY <1>1, <1>3, <2>1
  <1> QED BY <1>4, <1>5

\* Without an extra row nothing was left out.
LEMMA ShortPageIsAll ==
    ASSUME NEW S, IsFiniteSet(S), \A r \in S : r.id \in 1 .. MaxId, NEW n \in Nat,
           ~(Cardinality(Top(n + 1, S)) > n)
    PROVE  Top(n, S) = S
  <1> DEFINE T == Top(n, S)
  <1> SUFFICES ASSUME S \ T # {} PROVE FALSE
    BY DEF Top
  <1>0. \A r \in S : r.id \in Nat
    BY BoundsAssumption
  <1>1. PICK r \in S \ T : \A s \in S \ T : s.id <= r.id
    <2>1. \A s \in S \ T : s.id \in 1 .. MaxId
      OBVIOUS
    <2> HIDE DEF T
    <2> QED BY <2>1, NewestRow
  <1> DEFINE Above == {t \in S : t.id > r.id}
  <1>2. IsFiniteSet(Above) /\ Cardinality(Above) \in Nat
    <2>1. IsFiniteSet(Above)
      BY FS_Subset
    <2> HIDE DEF Above
    <2> QED BY <2>1, FS_CardinalityType
  <1>3. ~(Cardinality(Above) < n)
    BY <1>1 DEF Top
  <1>4. ASSUME NEW t \in Above PROVE t \in T
    BY <1>0, <1>1
  <1>5. T \subseteq Top(n + 1, S)
    <2> SUFFICES ASSUME NEW t \in T PROVE t \in Top(n + 1, S)
      OBVIOUS
    <2>1. t \in S /\ Cardinality({u \in S : u.id > t.id}) < n
      BY DEF Top
    <2>2. IsFiniteSet({u \in S : u.id > t.id})
      BY FS_Subset
    <2>3. Cardinality({u \in S : u.id > t.id}) \in Nat
      BY <2>2, FS_CardinalityType
    <2>4. Cardinality({u \in S : u.id > t.id}) < n + 1
      BY <2>1, <2>3
    <2> QED BY <2>1, <2>4 DEF Top
  <1>6. CASE Cardinality(Above) < n + 1
    \* r itself was fetched, with everything above it.
    <2>1. r \in Top(n + 1, S) /\ r \notin Above
      BY <1>0, <1>1, <1>6 DEF Top
    <2>2. IsFiniteSet(Top(n + 1, S))
      <3>1. Top(n + 1, S) \subseteq S
        BY DEF Top
      <3> QED BY <3>1, FS_Subset
    <2> HIDE DEF Above, T
    <2>3. Above \cup {r} \subseteq Top(n + 1, S)
      BY <1>4, <1>5, <2>1
    <2>4. Cardinality(Above \cup {r}) = Cardinality(Above) + 1
      BY <1>2, <2>1, FS_AddElement
    <2>5. Cardinality(Above \cup {r}) <= Cardinality(Top(n + 1, S))
      BY <2>2, <2>3, FS_Subset
    <2>6. Cardinality(Top(n + 1, S)) \in Nat
      BY <2>2, FS_CardinalityType
    <2> QED BY <1>2, <1>3, <2>4, <2>5, <2>6
  <1>7. CASE ~(Cardinality(Above) < n + 1)
    <2>2. IsFiniteSet(Top(n + 1, S))
      <3>1. Top(n + 1, S) \subseteq S
        BY DEF Top
      <3> QED BY <3>1, FS_Subset
    <2> HIDE DEF Above, T
    <2>3. Above \subseteq Top(n + 1, S)
      BY <1>4, <1>5
    <2>4. Cardinality(Above) <= Cardinality(Top(n + 1, S))
      BY <2>2, <2>3, FS_Subset
    <2>5. Cardinality(Top(n + 1, S)) \in Nat
      BY <2>2, FS_CardinalityType
    <2> QED BY <1>2, <1>7, <2>4, <2>5
  <1> QED BY <1>6, <1>7

\* A page is not empty when there is a row to show.
LEMMA PageNotEmpty ==
    ASSUME NEW S, S # {}, \A r \in S : r.id \in 1 .. MaxId, NEW n \in Nat \ {0}
    PROVE  Top(n, S) # {}
  <1>1. PICK r \in S : \A s \in S : s.id <= r.id
    BY NewestRow
  <1>2. {s \in S : s.id > r.id} = {}
    BY <1>1, BoundsAssumption
  <1>3. Cardinality({s \in S : s.id > r.id}) < n
    BY <1>2, FS_EmptySet
  <1> QED BY <1>3 DEF Top

-----------------------------------------------------------------------------
\* Ids stay in range and the collection finite: rows come one at a time.
LEMMA IdsStep ==
    ASSUME TypeOK, IdsMinted, [Next]_vars
    PROVE  IdsMinted'
  <1> USE BoundsAssumption
  <1>0. nextId \in Nat
    BY DEF TypeOK
  <1>1. ASSUME NEW c \in Clients,
               CreateWorkflow(c) \/ UpdateWorkflow(c) \/ UpdateNotFound(c) \/ SaveRead(c)
        PROVE  IdsMinted'
    <2>1. rows' = rows /\ nextId' = nextId
      BY <1>1 DEF CreateWorkflow, UpdateWorkflow, UpdateNotFound, SaveRead
    <2>2. \A e \in Clients : req'[e].pc = "insert" => req'[e] = req[e]
      BY <1>1 DEF TypeOK, Request, CreateWorkflow, UpdateWorkflow, UpdateNotFound, SaveRead
    <2> QED BY <2>1, <2>2 DEF IdsMinted
  <1>2. ASSUME NEW c \in Clients, SaveUnmark(c) PROVE IdsMinted'
    <2> DEFINE Unmarked(r) == [r EXCEPT !.latest = @ /\ r.doc # req[c].doc]
               f == [r \in rows |-> Unmarked(r)]
    <2>1. rows' = {Unmarked(r) : r \in rows} /\ nextId <= MaxId /\ nextId' = nextId + 1
          /\ req' = [req EXCEPT ![c].pc = "insert", ![c].id = nextId]
      BY <1>2 DEF SaveUnmark
    <2>2. f \in Surjection(rows, rows')
      BY <2>1 DEF Surjection
    <2>3. IsFiniteSet(rows')
      <3> HIDE DEF f
      <3> QED BY <2>2, FS_Surjection DEF IdsMinted
    <2>4. \A r \in rows : Unmarked(r).id = r.id
      BY DEF TypeOK, Row
    <2>5. \A r \in rows' : r.id \in 1 .. MaxId
      <3> HIDE DEF Unmarked
      <3> SUFFICES ASSUME NEW s \in rows' PROVE s.id \in 1 .. MaxId
        OBVIOUS
      <3>1. PICK r \in rows : s = Unmarked(r)
        BY <2>1
      <3> QED BY <2>4, <3>1 DEF IdsMinted
    <2>6. \A e \in Clients : IF e = c THEN req'[e].id = nextId ELSE req'[e] = req[e]
      BY <2>1 DEF TypeOK, Request
    <2>7. nextId' >= 1 /\ nextId \in 1 .. MaxId
      BY <1>0, <2>1 DEF IdsMinted
    <2> QED BY <2>3, <2>5, <2>6, <2>7 DEF IdsMinted
  <1>3. ASSUME NEW c \in Clients, SaveInsert(c) PROVE IdsMinted'
    <2>1. /\ req[c].pc = "insert" /\ rows' = rows \cup {NewRow(c)} /\ nextId' = nextId
          /\ req' = [req EXCEPT ![c] = NoRequest]
      BY <1>3 DEF SaveInsert, Answer
    <2>2. NewRow(c).id \in 1 .. MaxId
      BY <2>1 DEF NewRow, IdsMinted
    <2>3. IsFiniteSet(rows')
      BY <2>1, FS_AddElement DEF IdsMinted
    <2>4. \A e \in Clients : req'[e].pc = "insert" => req'[e] = req[e]
      BY <2>1, NoRequestIdle DEF TypeOK
    <2> QED BY <2>1, <2>2, <2>3, <2>4 DEF IdsMinted
  <1>4. ASSUME NEW c \in Clients, SaveDuplicate(c) \/ Abort(c) PROVE IdsMinted'
    <2>1. rows' = rows /\ nextId' = nextId /\ req' = [req EXCEPT ![c] = NoRequest]
      BY <1>4 DEF SaveDuplicate, Abort, Answer
    <2>2. \A e \in Clients : req'[e].pc = "insert" => req'[e] = req[e]
      BY <2>1, NoRequestIdle DEF TypeOK
    <2> QED BY <2>1, <2>2 DEF IdsMinted
  <1>5. ASSUME NEW d \in Docs, DeleteWorkflow(d) PROVE IdsMinted'
    <2>1. rows' \subseteq rows /\ nextId' = nextId /\ req' = req
      BY <1>5 DEF DeleteWorkflow
    <2>2. IsFiniteSet(rows')
      BY <2>1, FS_Subset DEF IdsMinted
    <2> QED BY <2>1, <2>2 DEF IdsMinted
  <1>6. CASE UNCHANGED vars
    BY <1>6 DEF vars, IdsMinted
  <1> QED BY <1>1, <1>2, <1>3, <1>4, <1>5, <1>6 DEF Next, Save

\* The listing only reads: its steps are steps of the store, or none.
LEMMA ListingReads == [ListNext]_listVars => [Next]_vars
BY DEF ListNext, Write, ListStart, ListPage, listVars, vars

\* What one page is: the n newest rows of the window, whose token bounds it
\* from below; without a next page it is the whole window.
LEMMA PageIs ==
    ASSUME TypeOK, IdsMinted, NEW cursor \in 0 .. MaxId,
           NEW W, W = Window(cursor),
           NEW fetched, fetched = Top(PageSize + 1, W),
           NEW page, page = Top(PageSize, fetched)
    PROVE  /\ page \subseteq W /\ W \subseteq rows
           /\ ~(Cardinality(fetched) > PageSize) => page = W
           /\ Cardinality(fetched) > PageSize =>
                /\ Token(page) \in 1 .. MaxId
                /\ cursor # 0 => Token(page) < cursor
                /\ \A r \in page : Token(page) <= r.id
                /\ \A r \in W \ page : r.id < Token(page)
  <1> USE BoundsAssumption, PageAssumption
  <1>1. W \subseteq rows /\ \A r \in W : cursor = 0 \/ r.id < cursor
    BY DEF Window
  <1>2. /\ IsFiniteSet(W)
        /\ \A r \in W : r.id \in 1 .. MaxId
        /\ \A r \in W : r.id \in Nat
    <2>1. IsFiniteSet(W)
      BY <1>1, FS_Subset DEF IdsMinted
    <2>2. \A r \in W : r.id \in 1 .. MaxId
      BY <1>1 DEF IdsMinted
    <2> QED BY <2>1, <2>2
  <1>3. page = Top(PageSize, W)
    BY <1>2, TopOfTop
  <1>4. page \subseteq W
    BY <1>3 DEF Top
  <1>5. ~(Cardinality(fetched) > PageSize) => page = W
    BY <1>2, <1>3, ShortPageIsAll
  <1>6. ASSUME Cardinality(fetched) > PageSize
        PROVE  /\ Token(page) \in 1 .. MaxId
               /\ cursor # 0 => Token(page) < cursor
               /\ \A r \in page : Token(page) <= r.id
               /\ \A r \in W \ page : r.id < Token(page)
    <2>1. W # {}
      <3> SUFFICES ASSUME W = {} PROVE FALSE
        OBVIOUS
      <3>1. fetched = {}
        BY DEF Top
      <3> QED BY <1>6, <3>1, FS_EmptySet
    <2>2. page # {}
      BY <1>2, <1>3, <2>1, PageNotEmpty
    <2> DEFINE Ids == {r.id : r \in page}
    <2>3. Ids \in SUBSET Nat /\ Ids # {}
      BY <1>2, <1>4, <2>2
    <2>4. Min(Ids) \in Ids /\ \A y \in Ids : Min(Ids) <= y
      <3> HIDE DEF Ids
      <3> QED BY <2>3, MinIsLeast
    <2>5. Token(page) = Min(Ids)
      BY DEF Token
    <2>6. PICK t \in page : Token(page) = t.id
      BY <2>4, <2>5
    <2>7. \A r \in page : Token(page) <= r.id
      BY <2>4, <2>5
    <2>8. \A r \in W \ page : r.id < t.id
      BY <1>2, <1>3, <2>6, TopIsAbove
    <2> QED BY <1>1, <1>2, <1>4, <2>6, <2>7, <2>8
  <1> QED BY <1>1, <1>4, <1>5, <1>6

\* A document is counted up to 2.
LEMMA CountedUp ==
    /\ Min({2, 0 + 1}) = 1
    /\ \A n \in 0 .. 2 : Min({2, n + 1}) \in 0 .. 2
  <1>1. ASSUME NEW n \in 0 .. 2
        PROVE  Min({2, n + 1}) \in {2, n + 1} /\ Min({2, n + 1}) <= n + 1 /\ Min({2, n + 1}) <= 2
    <2> DEFINE S == {2, n + 1}
    <2>1. S \in SUBSET Nat /\ S # {} /\ n + 1 \in S /\ 2 \in S
      OBVIOUS
    <2>2. Min(S) \in S /\ \A y \in S : Min(S) <= y
      <3> HIDE DEF S
      <3> QED BY <2>1, MinIsLeast
    <2> QED BY <2>1, <2>2
  <1>2. ASSUME NEW n \in 0 .. 2 PROVE Min({2, n + 1}) \in 0 .. 2
    BY <1>1
  <1>3. Min({2, 0 + 1}) \in {2, 0 + 1} /\ Min({2, 0 + 1}) <= 0 + 1
    BY <1>1
  <1> QED BY <1>2, <1>3

\* A page changes one lister's record: whether there is more, the cursor, and
\* what was shown.
LEMMA PageTurned ==
    ASSUME TypeOK, IdsMinted, ListType, NEW l \in Listers, ListPage(l),
           NEW fetched, fetched = Top(PageSize + 1, Window(list[l].cursor)),
           NEW page, page = Top(PageSize, fetched)
    PROVE  /\ ListType'
           /\ list[l].active /\ UNCHANGED vars
           /\ list'[l].active = (Cardinality(fetched) > PageSize)
           /\ list'[l].cursor = IF Cardinality(fetched) > PageSize THEN Token(page) ELSE 0
           /\ \A d \in Docs : list'[l].shown[d] =
                IF \E r \in page : r.doc = d THEN Min({2, list[l].shown[d] + 1}) ELSE list[l].shown[d]
           /\ list'[l].stable = list[l].stable
           /\ \A k \in Listers \ {l} : list'[k] = list[k]
  <1> DEFINE hasMore == Cardinality(fetched) > PageSize
             shown == [d \in Docs |-> IF \E r \in page : r.doc = d
                                      THEN Min({2, list[l].shown[d] + 1}) ELSE list[l].shown[d]]
             next == IF hasMore THEN Token(page) ELSE 0
  <1>1. list[l].active /\ UNCHANGED vars
    BY DEF ListPage
  <1>2. list' = [list EXCEPT ![l].active = hasMore, ![l].cursor = next, ![l].shown = shown]
    BY DEF ListPage
  <1>3. hasMore \in BOOLEAN
    OBVIOUS
  <1>4. list[l].cursor \in 0 .. MaxId /\ list[l].shown \in [Docs -> 0 .. 2]
    BY DEF ListType
  <1>5. shown \in [Docs -> 0 .. 2]
    <2>1. \A d \in Docs : list[l].shown[d] \in 0 .. 2
      BY <1>4
    <2> QED BY <2>1, CountedUp
  <1>6. next \in 0 .. MaxId
    <2>1. hasMore => Token(page) \in 1 .. MaxId
      BY <1>4, PageIs
    <2> QED BY <2>1, BoundsAssumption
  <1>7. \A d \in Docs : shown[d] =
                IF \E r \in page : r.doc = d THEN Min({2, list[l].shown[d] + 1}) ELSE list[l].shown[d]
    OBVIOUS
  <1> HIDE DEF hasMore, shown, next
  <1>8. ListType'
    BY <1>2, <1>3, <1>5, <1>6, Zenon DEF ListType
  <1>9. /\ list'[l].cursor = next /\ list'[l].shown = shown
        /\ list'[l].stable = list[l].stable
        /\ \A k \in Listers \ {l} : list'[k] = list[k]
    BY <1>2 DEF ListType
  <1>10. list'[l].active = hasMore
    BY <1>2, Zenon DEF ListType
  <1> QED BY <1>1, <1>7, <1>8, <1>9, <1>10 DEF hasMore, next

\* The types of the listing.
LEMMA ListTypeStep ==
    ASSUME TypeOK, IdsMinted, ListType, [ListNext]_listVars
    PROVE  ListType'
  <1>1. CASE Write
    BY <1>1 DEF Write, ListType
  <1>2. ASSUME NEW l \in Listers, ListStart(l) PROVE ListType'
    <2> DEFINE new == [NoListing EXCEPT !.active = TRUE, !.stable = {d \in Docs : Latest(d) # {}}]
    <2>1. new \in [active: BOOLEAN, cursor: 0..MaxId, shown: [Docs -> 0..2], stable: SUBSET Docs]
      <3>1. NoListing \in [active: BOOLEAN, cursor: 0..MaxId, shown: [Docs -> 0..2], stable: SUBSET Docs]
        BY BoundsAssumption DEF NoListing
      <3>2. {d \in Docs : Latest(d) # {}} \in SUBSET Docs /\ TRUE \in BOOLEAN
        OBVIOUS
      <3> QED BY <3>1, <3>2, Zenon
    <2>2. list' = [list EXCEPT ![l] = new]
      BY <1>2 DEF ListStart
    <2> HIDE DEF new
    <2> QED BY <2>1, <2>2 DEF ListType
  <1>3. ASSUME NEW l \in Listers, ListPage(l) PROVE ListType'
    BY <1>3, PageTurned
  <1>4. CASE UNCHANGED listVars
    BY <1>4 DEF listVars, ListType
  <1> QED BY <1>1, <1>2, <1>3, <1>4 DEF ListNext

\* A write that leaves a document's flagged row alone leaves it where it is in
\* the listing.
LEMMA WriteKeepsListing ==
    ASSUME TypeOK, ListType, ListingInv, Write
    PROVE  ListingInv'
  <1> SUFFICES ASSUME NEW l \in Listers, NEW d \in list'[l].stable \ deleted'
               PROVE  /\ Latest(d)' # {}
                      /\ \A r \in Latest(d)' : list'[l].shown[d] = IF Ahead(l, r)' THEN 0 ELSE 1
    BY DEF ListingInv
  <1>1. list'[l] = [list[l] EXCEPT !.stable = {e \in @ : Latest(e)' = Latest(e)}]
    BY DEF Write
  <1>2. list[l] \in [active: BOOLEAN, cursor: 0..MaxId, shown: [Docs -> 0..2], stable: SUBSET Docs]
    BY DEF ListType
  <1>3. /\ list'[l].stable = {e \in list[l].stable : Latest(e)' = Latest(e)}
        /\ list'[l].shown = list[l].shown /\ list'[l].cursor = list[l].cursor
        /\ list'[l].active = list[l].active
    BY <1>1, <1>2, Zenon
  <1>4. deleted \subseteq deleted'
    BY DEF Write, Next, Save, CreateWorkflow, UpdateWorkflow, UpdateNotFound, SaveRead, SaveUnmark,
           SaveInsert, SaveDuplicate, Abort, DeleteWorkflow
  <1>5. d \in list[l].stable \ deleted /\ Latest(d)' = Latest(d)
    BY <1>3, <1>4
  <1>6. \A r : Ahead(l, r)' <=> Ahead(l, r)
    BY <1>3 DEF Ahead
  <1> QED BY <1>3, <1>5, <1>6 DEF ListingInv

\* The listing begins with every flagged row ahead.
LEMMA StartListing ==
    ASSUME TypeOK, ListType, ListingInv, NEW k \in Listers, ListStart(k)
    PROVE  ListingInv'
  <1> SUFFICES ASSUME NEW l \in Listers, NEW d \in list'[l].stable \ deleted'
               PROVE  /\ Latest(d)' # {}
                      /\ \A r \in Latest(d)' : list'[l].shown[d] = IF Ahead(l, r)' THEN 0 ELSE 1
    BY DEF ListingInv
  <1>1. rows' = rows /\ deleted' = deleted
    BY DEF ListStart, vars
  <1>2. Latest(d)' = Latest(d)
    BY <1>1 DEF Latest
  <1>3. CASE l # k
    <2>1. list'[l] = list[l]
      BY <1>3 DEF ListStart, ListType
    <2>2. \A r : Ahead(l, r)' <=> Ahead(l, r)
      BY <2>1 DEF Ahead
    <2> QED BY <1>1, <1>2, <2>1, <2>2 DEF ListingInv
  <1>4. CASE l = k
    <2>1. list'[l] = [NoListing EXCEPT !.active = TRUE, !.stable = {e \in Docs : Latest(e) # {}}]
      BY <1>4 DEF ListStart, ListType
    <2>2. /\ list'[l].active = TRUE /\ list'[l].cursor = 0 /\ list'[l].shown = [e \in Docs |-> 0]
          /\ list'[l].stable = {e \in Docs : Latest(e) # {}}
      BY <2>1, Zenon DEF NoListing
    <2>3. d \in Docs /\ Latest(d) # {} /\ list'[l].shown[d] = 0
      BY <2>2
    <2>4. \A r : Ahead(l, r)'
      BY <2>2 DEF Ahead
    <2> QED BY <1>2, <2>3, <2>4
  <1> QED BY <1>3, <1>4

\* A page shows what it passes, and passes what it shows.
LEMMA TurnPage ==
    ASSUME TypeOK, IdsMinted, ListType, AtMostOneLatest, ListingInv, NEW k \in Listers, ListPage(k)
    PROVE  ListingInv'
  <1> DEFINE W == Window(list[k].cursor)
             fetched == Top(PageSize + 1, W)
             page == Top(PageSize, fetched)
             hasMore == Cardinality(fetched) > PageSize
  <1>1. list[k].cursor \in 0 .. MaxId
    BY DEF ListType
  <1>2. /\ list[k].active /\ UNCHANGED vars
        /\ list'[k].active = hasMore
        /\ list'[k].cursor = IF hasMore THEN Token(page) ELSE 0
        /\ \A d \in Docs : list'[k].shown[d] =
              IF \E r \in page : r.doc = d THEN Min({2, list[k].shown[d] + 1}) ELSE list[k].shown[d]
        /\ list'[k].stable = list[k].stable
        /\ \A l \in Listers \ {k} : list'[l] = list[l]
    BY PageTurned
  <1>3. /\ page \subseteq W /\ W \subseteq rows
        /\ ~hasMore => page = W
        /\ hasMore => /\ Token(page) \in 1 .. MaxId
                      /\ list[k].cursor # 0 => Token(page) < list[k].cursor
                      /\ \A r \in page : Token(page) <= r.id
                      /\ \A r \in W \ page : r.id < Token(page)
    <2>1. W = Window(list[k].cursor) /\ fetched = Top(PageSize + 1, W) /\ page = Top(PageSize, fetched)
      OBVIOUS
    <2> HIDE DEF W, fetched, page
    <2> QED BY <1>1, <2>1, PageIs DEF hasMore
  <1>4. W = {r \in rows : r.latest /\ (list[k].cursor = 0 \/ r.id < list[k].cursor)}
    BY DEF Window
  <1> HIDE DEF W, fetched, page, hasMore
  <1> SUFFICES ASSUME NEW l \in Listers, NEW d \in list'[l].stable \ deleted'
               PROVE  /\ Latest(d)' # {}
                      /\ \A r \in Latest(d)' : list'[l].shown[d] = IF Ahead(l, r)' THEN 0 ELSE 1
    BY DEF ListingInv
  <1>5. rows' = rows /\ deleted' = deleted /\ Latest(d)' = Latest(d)
    BY <1>2 DEF vars, Latest
  <1>6. CASE l # k
    <2>1. list'[l] = list[l]
      BY <1>2, <1>6
    <2>2. \A r : Ahead(l, r)' <=> Ahead(l, r)
      BY <2>1 DEF Ahead
    <2> QED BY <1>5, <2>1, <2>2 DEF ListingInv
  <1>7. CASE l = k
    <2>1. d \in list[k].stable /\ d \notin deleted /\ d \in Docs /\ Latest(d) # {}
      BY <1>2, <1>5, <1>7 DEF ListType, ListingInv
    <2> SUFFICES ASSUME NEW r \in Latest(d)
                 PROVE  list'[k].shown[d] = IF Ahead(k, r)' THEN 0 ELSE 1
      BY <1>5, <1>7, <2>1
    <2>2. /\ r \in rows /\ r.doc = d /\ r.latest
          /\ list[k].shown[d] = IF Ahead(k, r) THEN 0 ELSE 1
      BY <2>1 DEF Latest, ListingInv
    <2>3. Ahead(k, r) <=> r \in W
      BY <1>2, <1>4, <2>2 DEF Ahead
    <2>4. \A s \in page : s.doc = d => s = r
      BY <1>3, <1>4, <2>1, <2>2 DEF AtMostOneLatest
    <2>5. (\E s \in page : s.doc = d) <=> r \in page
      BY <2>2, <2>4
    <2>6. r.id \in 1 .. MaxId
      BY <2>2 DEF IdsMinted
    <2>7. Ahead(k, r)' <=> hasMore /\ r.id < Token(page)
      BY <1>2, <1>3, <2>6 DEF Ahead
    <2>8. CASE r \in page
      <3>1. list[k].shown[d] = 0
        BY <1>3, <2>2, <2>3, <2>8
      <3>2. list'[k].shown[d] = Min({2, 0 + 1})
        BY <1>2, <2>1, <2>5, <2>8, <3>1
      <3>3. ~(Ahead(k, r)')
        BY <1>3, <2>6, <2>7, <2>8
      <3> QED BY <3>2, <3>3, CountedUp
    <2>9. CASE r \in W \ page
      <3>1. list[k].shown[d] = 0
        BY <2>2, <2>3, <2>9
      <3>2. list'[k].shown[d] = 0
        BY <1>2, <2>1, <2>5, <2>9, <3>1
      <3>3. Ahead(k, r)'
        BY <1>3, <2>7, <2>9
      <3> QED BY <3>2, <3>3
    <2>10. CASE r \notin W
      <3>1. list[k].shown[d] = 1 /\ list[k].cursor # 0 /\ ~(r.id < list[k].cursor)
        BY <1>4, <2>2, <2>3, <2>10
      <3>2. list'[k].shown[d] = 1
        BY <1>2, <1>3, <2>1, <2>5, <2>10, <3>1
      <3>3. ~(Ahead(k, r)')
        BY <1>1, <1>3, <2>6, <2>7, <3>1
      <3> QED BY <3>2, <3>3
    <2> QED BY <1>3, <2>8, <2>9, <2>10
  <1> QED BY <1>6, <1>7

\* The listing's inductive invariant, on top of the store's.
ListInv == IdsMinted /\ ListType /\ ListingInv

\* No listing has begun at first.
LEMMA ListInvInit == ListInit => ListInv
  <1> SUFFICES ASSUME ListInit PROVE ListInv
    OBVIOUS
  <1>1. IdsMinted
    BY FS_EmptySet, NoRequestIdle DEF ListInit, Init, IdsMinted
  <1>2. NoListing \in [active: BOOLEAN, cursor: 0..MaxId, shown: [Docs -> 0..2], stable: SUBSET Docs]
    BY BoundsAssumption DEF NoListing
  <1>3. ListType
    BY <1>2 DEF ListInit, ListType
  <1>4. ListingInv
    BY DEF ListInit, ListingInv, NoListing
  <1> QED BY <1>1, <1>3, <1>4 DEF ListInv

\* Every step keeps what a listing has shown.
LEMMA ListInvStep ==
    ASSUME StoreInv, AtMostOneLatest, ListInv, [ListNext]_listVars
    PROVE  ListInv'
  <1>1. TypeOK /\ IdsMinted /\ ListType /\ ListingInv
    BY DEF StoreInv, ListInv
  <1>2. IdsMinted'
    BY <1>1, ListingReads, IdsStep
  <1>3. ListType'
    BY <1>1, ListTypeStep
  <1>4. ListingInv'
    <2>1. CASE UNCHANGED listVars
      BY <1>1, <2>1 DEF listVars, ListingInv, Latest, Ahead
    <2> QED BY <1>1, <2>1, WriteKeepsListing, StartListing, TurnPage DEF ListNext
  <1> QED BY <1>2, <1>3, <1>4 DEF ListInv

\* The store keeps what it promises while it is listed: a listing writes
\* nothing, so the specification with listings implements the one without.
THEOREM ListingImplementsStore == ListSpec => Spec
  BY ListingReads, PTL DEF ListSpec, ListInit, Spec

\* The invariant of the store and the listing together.
THEOREM ListingInvariant == ListSpec => [](StoreInv /\ AtMostOneLatest /\ ListInv)
  <1>1. ListSpec => [](StoreInv /\ AtMostOneLatest)
    BY ListingImplementsStore, StoreInvariant, HistoryCorrect, PTL
  <1>2. StoreInv /\ AtMostOneLatest /\ ListInv /\ [ListNext]_listVars => ListInv'
    BY ListInvStep
  <1> QED
    BY <1>1, <1>2, ListInvInit, PTL DEF ListSpec

\* Page tokens are ids of rows, and the listing's records keep their types.
THEOREM ListTypeCorrect == ListSpec => []ListTypeOK
  <1>1. StoreInv /\ ListInv => ListTypeOK
    BY DEF StoreInv, ListInv, ListType, ListTypeOK
  <1> QED
    BY <1>1, ListingInvariant, PTL

\* Whatever is created, saved or deleted between its pages, a listing that has
\* ended has shown every document that was not written meanwhile exactly once
\* (versioned.go:158-196, ListLatest).
THEOREM EveryDocumentListedOnce == ListSpec => []ListingComplete
  <1>1. ListInv => ListingComplete
    <2> SUFFICES ASSUME ListInv, NEW l \in Listers, NEW d \in list[l].stable \ deleted
                 PROVE  /\ list[l].shown[d] <= 1
                        /\ ~list[l].active => list[l].shown[d] = 1
      BY DEF ListingComplete
    <2>1. PICK r \in Latest(d) : list[l].shown[d] = IF Ahead(l, r) THEN 0 ELSE 1
      BY DEF ListInv, ListingInv
    <2> QED BY <2>1 DEF Ahead
  <1> QED
    BY <1>1, ListingInvariant, PTL
=============================================================================
