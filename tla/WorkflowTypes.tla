--------------------------- MODULE WorkflowTypes ---------------------------
(***************************************************************************)
(* The type system of workflow data edges (shared/workflow/types.go).  A   *)
(* type name is a dotted path, kept as the sequence of its segments;       *)
(* list<list<T>> is kept as T with the number of list constructors around  *)
(* it, so that the recursions over list<...> become comparisons of depths. *)
(***************************************************************************)
EXTENDS Naturals, Sequences

CONSTANT Segments   \* what the names of types are made of

ASSUME SegmentsAssumption ==
    {"any", "bool", "number", "string", "datetime", "path", "dir", "file", "media", "tvseries", "movie",
     "agent", "scanner", "slug", "error"} \subseteq Segments

\* A name has at least one segment.
TypeNames == [lists : Nat, name : Seq(Segments) \ {<<>>}]

Scalar(name) == [lists |-> 0, name |-> name]
ListOf(t) == [t EXCEPT !.lists = @ + 1]
IsList(t) == t.lists > 0
ElementType(t) == [t EXCEPT !.lists = @ - 1]

TypeAny == Scalar(<<"any">>)
TypeBool == Scalar(<<"bool">>)
TypeNumber == Scalar(<<"number">>)
TypeString == Scalar(<<"string">>)
TypeDatetime == Scalar(<<"datetime">>)
TypePath == Scalar(<<"path">>)
TypePathDir == Scalar(<<"path", "dir">>)
TypePathFile == Scalar(<<"path", "file">>)
TypeMedia == Scalar(<<"media">>)
TypeMediaFile == Scalar(<<"media", "file">>)
TypeTVSeries == Scalar(<<"tvseries">>)
TypeMovie == Scalar(<<"movie">>)
TypeAgent == Scalar(<<"agent">>)
TypeAgentSlug == Scalar(<<"agent", "slug">>)
TypeScanner == Scalar(<<"scanner">>)
TypeScannerSlug == Scalar(<<"scanner", "slug">>)
TypeError == Scalar(<<"error">>)

Below(sub, super) == /\ Len(super) < Len(sub)
                     /\ SubSeq(sub, 1, Len(super)) = super

\* IsSubtypeOf: any takes everything, lists are covariant, and otherwise the
\* super type is a dotted prefix.  Stripping one list from both sides until one
\* is a scalar leaves the depths to compare.
IsSubtypeOf(sub, super) ==
    \/ super.name = TypeAny.name /\ sub.lists >= super.lists
    \/ sub = super
    \/ sub.lists = super.lists /\ Below(sub.name, super.name)

\* representationOf: the representations more than one type shares.
Representations == {{TypeString, TypeAgentSlug, TypeScannerSlug}, {TypeMediaFile, TypePathFile}}

SameRepresentation(a, b) ==
    /\ a.lists = b.lists
    /\ \E rep \in Representations : {Scalar(a.name), Scalar(b.name)} \subseteq rep

transformRegistry == {
    [name |-> "parentDir", from |-> TypePathFile, to |-> TypePathDir],
    [name |-> "eachFile", from |-> TypePathDir, to |-> TypePathFile],
    [name |-> "toString", from |-> TypePath, to |-> TypeString],
    [name |-> "media.file.parentDir", from |-> TypeMediaFile, to |-> TypePathDir],
    [name |-> "parseNumber", from |-> TypeString, to |-> TypeNumber],
    [name |-> "format", from |-> TypeNumber, to |-> TypeString]}

\* wrapTransform: a single value as a list of one, made up per connection.
wrapTransform(from, to) ==
    IF ~IsList(from) /\ IsList(to) /\ IsSubtypeOf(from, ElementType(to))
    THEN {[name |-> "wrap", from |-> from, to |-> to]}
    ELSE {}

\* ResolveTransform: the transform a stored edge names, if there is one.
ResolveTransform(name, from, to) ==
    {t \in transformRegistry : t.name = name}
        \cup (IF name = "wrap" THEN wrapTransform(from, to) ELSE {})

\* CanConnect.
CanConnect(from, to) ==
    LET direct == \/ IsSubtypeOf(from, to)
                  \/ IsSubtypeOf(to, from)
                  \/ SameRepresentation(from, to)
    IN  [direct |-> direct,
         unsafe |-> ~IsSubtypeOf(from, to) /\ IsSubtypeOf(to, from),
         candidates |-> IF direct THEN {}
                        ELSE {t \in transformRegistry : IsSubtypeOf(from, t.from) /\ IsSubtypeOf(t.to, to)}
                                 \cup wrapTransform(from, to)]
=============================================================================
