--------------------------- MODULE WorkflowListing ---------------------------
(***************************************************************************)
(* Paging through ListWorkflows while workflows are saved and deleted.     *)
(*                                                                         *)
(* ListLatest pages by _id, newest first: the token is the _id of the last *)
(* row shown and the next page holds flagged rows with a smaller _id.  The *)
(* collection changes between two pages; this module composes the listing  *)
(* with every write of VersionedStore.                                     *)
(***************************************************************************)
EXTENDS VersionedStore, FiniteSetsExt

CONSTANTS
    Listers,   \* clients that page through the list
    PageSize   \* the limit of a page (page_size, or the default)

ASSUME PageAssumption == PageSize \in Nat \ {0}

VARIABLE list  \* per lister: its page token, what it was shown, and history

listVars == <<rows, minted, nextId, req, reply, deleted, list>>

\* cursor 0 stands for "no page token"; shown counts how often a document was
\* on a page (counted up to 2); stable is history: the documents listed when
\* the listing began whose flagged row has not changed since.
NoListing == [active |-> FALSE, cursor |-> 0, shown |-> [d \in Docs |-> 0], stable |-> {}]

ListInit == Init /\ list = [l \in Listers |-> NoListing]

\* Any write of the store; it ends the stability of the documents it touches.
Write ==
    /\ Next
    /\ list' = [l \in Listers |->
                  [list[l] EXCEPT !.stable = {d \in @ : Latest(d)' = Latest(d)}]]

\* ListWorkflows without a token.
ListStart(l) ==
    /\ ~list[l].active
    /\ list' = [list EXCEPT ![l] = [NoListing EXCEPT
                  !.active = TRUE, !.stable = {d \in Docs : Latest(d) # {}}]]
    /\ UNCHANGED vars

\* Mutants of Window: the cursor's own row is fetched again; the cursor is ignored.
WindowFrom(cursor) == {r \in rows : r.latest /\ (cursor = 0 \/ r.id <= cursor)}
WindowAll(cursor) == {r \in rows : r.latest}

\* The query of ListLatest: is_latest, and _id below the cursor if there is one.
Window(cursor) == {r \in rows : r.latest /\ (cursor = 0 \/ r.id < cursor)}

\* Sorted by _id descending and limited: the rows fewer than n others precede.
Top(n, S) == {r \in S : Cardinality({s \in S : s.id > r.id}) < n}

\* Mutant of Token: above the page instead of at its end.
TokenAbove(page) == Max({r.id : r \in page}) + 1

\* The page token: the _id of the last row shown.
Token(page) == Min({r.id : r \in page})

\* One page.  limit + 1 rows are fetched: the extra one tells that there is a
\* next page and is not shown.  Without it the listing is over.
ListPage(l) ==
    LET fetched == Top(PageSize + 1, Window(list[l].cursor))
        page    == Top(PageSize, fetched)
        hasMore == Cardinality(fetched) > PageSize
        Shown(d) == IF \E r \in page : r.doc = d
                    THEN Min({2, list[l].shown[d] + 1}) ELSE list[l].shown[d]
    IN  /\ list[l].active
        /\ list' = [list EXCEPT
              ![l].active = hasMore,
              ![l].cursor = IF hasMore THEN Token(page) ELSE 0,
              ![l].shown = [d \in Docs |-> Shown(d)]]
        /\ UNCHANGED vars

ListNext == Write \/ \E l \in Listers : ListStart(l) \/ ListPage(l)

ListSpec == ListInit /\ [][ListNext]_listVars

\* Listers turn the pages until there is no token.
ListLiveSpec == ListSpec /\ \A l \in Listers : WF_listVars(ListPage(l))

-----------------------------------------------------------------------------
\* The store's types, and page tokens that are ids of rows.
ListTypeOK ==
    /\ TypeOK
    /\ list \in [Listers -> [active: BOOLEAN, cursor: 0..MaxId,
                             shown: [Docs -> 0..2], stable: SUBSET Docs]]

\* A listing shows every document that was not written meanwhile, exactly
\* once, whatever was created, saved or deleted between its pages.  (A document
\* that a save brought back after a delete may carry two flags: excluded.)
ListingComplete ==
    \A l \in Listers : \A d \in list[l].stable \ deleted :
        /\ list[l].shown[d] <= 1
        /\ ~list[l].active => list[l].shown[d] = 1

\* A listing ends: saves move documents to the front, never behind the cursor.
ListingEnds == \A l \in Listers : list[l].active ~> ~list[l].active
=============================================================================
