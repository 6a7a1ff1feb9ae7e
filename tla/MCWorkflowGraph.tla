--------------------------- MODULE MCWorkflowGraph ---------------------------
(* WorkflowGraph for TLC: families of drawings over seven nodes.  In each,   *)
(* every port is wired in all the ways listed for it, and one data edge is   *)
(* drawn between each of the listed pairs.                                   *)
EXTENDS WorkflowGraph

MCOrder == <<"a", "b", "c", "d", "e", "f", "s">>

Edge(from, out, to, in) == [from |-> from, out |-> out, to |-> to, in |-> in]

\* One port led to one of the given nodes, or nowhere when "" is among them.
Wire(from, out, targets) ==
    {IF to = "" THEN {} ELSE {Edge(from, out, to, "in")} : to \in targets}

\* The same for a port that may also lead to the join d, by one of these ins.
WireJoin(from, out, ins, targets) ==
    {{Edge(from, out, "d", in)} : in \in ins} \cup Wire(from, out, targets)

Link(from, to, produced, target, transform) ==
    [from |-> from, socket |-> "out", to |-> to, produced |-> produced, target |-> target, transform |-> transform]
Links(pairs) == {Link(p[1], p[2], TypePathFile, TypePath, "") : p \in pairs}

\* The same from each socket of a For Each.
LoopLinks(pairs) ==
    {[link EXCEPT !.socket = name] : link \in Links(pairs), name \in {"item", "count", "failedCount"}}

Drawing(kind, control, data) ==
    [kind |-> kind, control |-> control, data |-> data, schema |-> 1, branches |-> 2, atOnce |-> 1]

\* Branches of a Parallel, with a Branch inside one of them.
Forked == [a |-> "parallel", b |-> "task", c |-> "branch", d |-> "join", e |-> "end",
           f |-> "task", s |-> "start"]
ForkedGraphs ==
    {Drawing(Forked,
             {Edge("s", "next", "a", "in"), Edge("f", "next", "e", "in")}
               \cup w1 \cup w2 \cup w3 \cup w4 \cup w5 \cup w6, link) :
        w1 \in WireJoin("a", "branch1", {}, {"b", "c"}),
        w2 \in WireJoin("a", "branch2", {"branch2"}, {"c", ""}),
        w3 \in WireJoin("b", "next", {"branch1", "branch2"}, {"f"}),
        w4 \in WireJoin("c", "yes", {"branch2"}, {"b", "e"}),
        w5 \in WireJoin("c", "no", {"branch1", "branch2"}, {""}),
        w6 \in Wire("d", "next", {"f"}),
        link \in Links({<<"b", "f">>, <<"b", "c">>, <<"c", "f">>})}

\* Two loops, one after the other or one inside the other.
Looped == [a |-> "forEach", b |-> "forEach", c |-> "collect", d |-> "task", e |-> "end",
           f |-> "break", s |-> "start"]
LoopedGraphs ==
    {Drawing(Looped,
             {Edge("s", "next", "a", "in")} \cup w1 \cup w2 \cup w3 \cup w4 \cup w5 \cup w6, link) :
        w1 \in Wire("a", "body", {"b", "d"}),
        w2 \in Wire("a", "done", {"b", "e"}),
        w3 \in Wire("b", "body", {"c", "d"}),
        w4 \in Wire("b", "done", {"e", "c"}),
        w5 \in Wire("d", "next", {"", "c", "b", "f"}),
        w6 \in Wire("c", "next", {"", "e"}),
        link \in Links({<<"c", "b">>, <<"d", "c">>, <<"c", "d">>, <<"d", "b">>})}

\* A line of steps with one error edge: every way to draw it wrong, and data
\* edges of many types.
Plain == [a |-> "task", b |-> "task", c |-> "source", d |-> "note", e |-> "end", f |-> "fail",
          s |-> "start"]
Line == {Edge("s", "next", "a", "in"), Edge("a", "next", "b", "in"), Edge("b", "next", "e", "in"),
         Edge("a", "error", "f", "in")}
TypedLinks == {
    Link("a", "b", TypePath, TypePathFile, ""), Link("c", "b", TypeString, TypeAgentSlug, ""),
    Link("a", "b", TypePathFile, ListOf(TypePath), ""), Link("a", "b", TypePathFile, ListOf(TypePath), "wrap"),
    Link("a", "b", TypePathFile, TypeString, "toString"), Link("a", "b", TypeNumber, TypeNumber, "parseNumber"),
    Link("a", "b", TypePathFile, TypeNumber, "toString"), Link("a", "b", TypeNumber, TypePathDir, ""),
    Link("a", "b", TypeString, TypePathDir, "gone"), Link("a", "b", ListOf(TypePathDir), ListOf(TypeAny), ""),
    Link("a", "b", ListOf(TypeMediaFile), ListOf(TypePathFile), ""), Link("b", "a", TypePath, TypePath, ""),
    Link("a", "b", TypePathFile, ListOf(TypeNumber), "wrap"), Link("a", "d", TypePath, TypePath, "")}
Line0 == Drawing(Plain, Line, NoData)
PlainGraphs ==
    {Drawing(Plain, Line, link) : link \in TypedLinks}
      \cup {[Line0 EXCEPT !.schema = v] : v \in 0 .. 2}
      \cup {[Line0 EXCEPT !.kind[n] = "missing"] : n \in {"s", "a", "e"}}
      \cup {[Drawing(Plain, Line, link) EXCEPT !.kind["d"] = "start"] : link \in Links({<<"a", "b">>})}
      \cup {[Line0 EXCEPT !.control = @ \cup {e}] :
               e \in {Edge("s", "next", "b", "in"), Edge("a", "yes", "b", "in"), Edge("c", "next", "b", "in"),
                      Edge("b", "error", "e", "branch1"), Edge("b", "error", "d", "in"), Edge("b", "error", "a", "in")}}

\* A body that leads back to its own For Each.
BackEdged == {Drawing([Looped EXCEPT !["c"] = "task"],
                      {Edge("s", "next", "a", "in"), Edge("a", "body", "d", "in"), Edge("d", "next", "a", "in"),
                       Edge("a", "done", "b", "in"), Edge("b", "body", "c", "in")} \cup wire, link) :
                wire \in Wire("b", "done", {"e"}), link \in Links({<<"c", "d">>, <<"a", "d">>})}

\* A Parallel set to fewer branches than are wired.
Narrow == {[g EXCEPT !.branches = 1] :
             g \in {g \in ForkedGraphs : Edge("a", "branch2", "d", "branch2") \in g.control
                                          /\ g.data = Link("b", "f", TypePathFile, TypePath, "")}}

\* A loop both branches of a Parallel enter, its list read after it.
Shared == [a |-> "parallel", b |-> "forEach", c |-> "collect", d |-> "join", e |-> "end",
           f |-> "task", s |-> "start"]
SharedLoop ==
    {Drawing(Shared, {Edge("s", "next", "a", "in"), Edge("a", "branch1", "b", "in"), Edge("a", "branch2", "b", "in"),
                      Edge("b", "body", "c", "in"), Edge("b", "done", "f", "in"), Edge("f", "next", "d", "branch1"),
                      Edge("d", "next", "e", "in")}, link) : link \in Links({<<"c", "f">>, <<"b", "f">>})}

\* Edges that name a node the drawing does not have, and a Note read from.
Dangling ==
    {Drawing(Plain, Line \cup {edge}, NoData) :
        edge \in {Edge("b", "error", "gone", "in"), Edge("gone", "next", "b", "in")}}
      \cup {Drawing(Plain, Line, link) : link \in Links({<<"gone", "b">>, <<"a", "gone">>, <<"d", "b">>})}

\* A join whose error port is wired, in one branch of an outer Parallel or not,
\* and a loop around or in a branch.
Failing == [a |-> "parallel", b |-> "task", c |-> "forEach", d |-> "join", e |-> "end",
            f |-> "task", s |-> "start"]
FailingGraphs ==
    {Drawing(Failing, {Edge("d", "next", "e", "in"), Edge("b", "next", "d", "branch1")}
                        \cup w1 \cup w2 \cup w3 \cup w4, link) :
        w1 \in {{Edge("s", "next", "c", "in"), Edge("c", "body", "a", "in"), Edge("a", "branch1", "b", "in"),
                 Edge("a", "branch2", "f", "in"), Edge("f", "next", "d", "branch2")},
                {Edge("s", "next", "a", "in"), Edge("a", "branch1", "b", "in"), Edge("a", "branch2", "c", "in"),
                 Edge("c", "done", "d", "branch2"), Edge("c", "body", "f", "in")}},
        w2 \in Wire("d", "error", {"", "e"}),
        w3 \in Wire("b", "error", {"", "e"}),
        w4 \in Wire("c", "error", {"", "e"}),
        link \in Links({<<"b", "d">>, <<"b", "e">>})}

\* The sockets of two loops, in a row or nested, read in and after them.
Sockets == [a |-> "forEach", b |-> "forEach", c |-> "task", d |-> "task", e |-> "end",
            f |-> "task", s |-> "start"]
SocketGraphs ==
    {Drawing(Sockets,
             {Edge("s", "next", "a", "in"), Edge("b", "body", "c", "in"), Edge("d", "next", "e", "in")}
               \cup w1 \cup w2 \cup w3 \cup w4, link) :
        w1 \in Wire("a", "body", {"b", "f"}),
        w2 \in Wire("a", "done", {"b", "d"}),
        w3 \in Wire("b", "done", {"", "d", "f"}),
        w4 \in Wire("c", "error", {"", "f"}),
        link \in LoopLinks({"a", "b"} \X {"c", "d", "f"})}

\* Loops that take two items at once.
AtOnce == {[g EXCEPT !.atOnce = 2] :
             g \in {g \in LoopedGraphs : g.data = Link("d", "c", TypePathFile, TypePath, "")}}

MCGraphs == ForkedGraphs \cup LoopedGraphs \cup PlainGraphs \cup BackEdged \cup Narrow
              \cup SharedLoop \cup Dangling \cup FailingGraphs \cup SocketGraphs \cup AtOnce
=============================================================================
