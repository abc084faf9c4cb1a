---------------------------- MODULE MCGraphBuild ----------------------------
(***************************************************************************)
(* The graphs didagle builds from families of small files: every way to    *)
(* draw edges between three vertices, the data of a writer, a reader and   *)
(* an in-out vertex, and the conditions.  Nothing is executed.             *)
(***************************************************************************)
EXTENDS GraphManager

Field(n, extern, inout) == [name |-> n, type |-> "T", extern |-> extern, inout |-> inout]
Out(n, kind) == [name |-> n, type |-> "T", kind |-> kind]

MCProcs ==
  [expr |-> [in |-> <<>>, out |-> <<>>],
   p |-> [in |-> <<>>, out |-> <<>>],
   w |-> [in |-> <<>>, out |-> <<Out("x", "object")>>],
   r |-> [in |-> <<Field("x", FALSE, FALSE), Field("e", TRUE, FALSE)>>, out |-> <<>>],
   m |-> [in |-> <<Field("x", FALSE, TRUE)>>, out |-> <<Out("x", "inout")>>]]

V(id, p) == [NoVertex EXCEPT !.id = id, !.processor = p]

File(strict, vs) ==
  [name |-> "k", strict |-> strict, expr |-> "expr", pool |-> 0,
   graph |-> <<[name |-> "g", rank |-> 1, vertex |-> vs, version |-> TRUE, priority |-> 0]>>,
   setting |-> <<[name |-> "flag", processor |-> ""]>>]

\* Every pair of three vertices is left alone or joined in one of two ways.
Ways == {"none", "deps", "successor_on_ok"}
Pairs == {<<"a", "b">>, <<"b", "a">>, <<"b", "c">>, <<"c", "b">>, <<"c", "a">>, <<"a", "c">>}
Joined(f, way, id) == {q[2] : q \in {x \in DOMAIN f : x[1] = id /\ f[x] = way}}
Drawn ==
  {File(FALSE,
     [i \in 1 .. 3 |-> LET id == <<"a", "b", "c">>[i] IN
        [V(id, "p") EXCEPT !.deps = Joined(f, "deps", id),
                           !.successor_on_ok = Joined(f, "successor_on_ok", id)]]) : f \in [Pairs -> Ways]}

\* A writer, an in-out vertex and a reader of data that may be renamed.
Data(field, id) == [NoData EXCEPT !.field = field, !.id = id]
Reads ==
  {<<>>} \cup {<<[Data("x", id) EXCEPT !.required = q, !.aggregate = agg]>> :
                 id \in {"x", "y"}, q \in BOOLEAN, agg \in {<<>>, <<"x", "y">>, <<"y", "z">>}}
Moves == {<<>>, <<Data("x", "y")>>, <<Data("x", "x")>>}
Writes == {<<>>, <<Data("x", "y")>>, <<Data("x", "")>>, <<Data("x", "z"), Data("q", "y")>>}
Flowing ==
  {File(s, <<[V("w", "w") EXCEPT !.output = wo], [V("m", "m") EXCEPT !.input = mi, !.output = mo],
             [V("r", "r") EXCEPT !.input = ri, !.deps_on_err = dep]>>)
     : s \in BOOLEAN, wo \in Writes, mi \in Moves, mo \in Moves, ri \in Reads, dep \in SUBSET {"w"}}

\* Conditions, branches, settings, names left out and processors not known.
Deciding ==
  {File(s, <<[NoVertex EXCEPT !.cond = "c1", !.id = id, !.consequent = {"t"}, !.alternative = {"u"}, !.start = st],
             [V("t", p) EXCEPT !.expect = e1, !.expect_config = ec],
             [V("u", "p") EXCEPT !.expect = e2, !.expect_deps = ed, !.deps = d,
                                 !.sel = IF ec = "" THEN <<>> ELSE <<[match |-> ec, expr |-> FALSE, args |-> <<>>]>>]>>)
     : s \in BOOLEAN, st \in BOOLEAN, id \in {"", "i"}, p \in {"p", "gone"}, e1 \in {"", "e"}, e2 \in {"", "e", "f"},
       ec \in {"", "flag", "nope"}, ed \in SUBSET {"t"}, d \in SUBSET {"t", "g_0"}}

\* Two graphs of one name, of other priorities and versions.
Chosen ==
  {[File(FALSE, <<>>) EXCEPT
      !.graph = [k \in 1 .. 2 |-> [name |-> "g", rank |-> 1, version |-> on[k], priority |-> pri[k],
                                   vertex |-> <<V("a", "p"), [V("b", "p") EXCEPT !.deps = {<<"a", "c">>[k]}],
                                                [V("c", "p") EXCEPT !.deps = {"b"}]>>]]]
     : on \in [1 .. 2 -> BOOLEAN], pri \in [1 .. 2 -> 0 .. 1]}

MCFiles == [k |-> Drawn \cup Flowing \cup Deciding \cup Chosen]
NoCalls == <<>>
NoParams == <<>>
=============================================================================
