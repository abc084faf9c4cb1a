--------------------------- MODULE MCGraphManager ---------------------------
(***************************************************************************)
(* Two executions of a graph that runs a graph of another cluster, over    *)
(* pools of one context and none, while the clusters are loaded again.     *)
(***************************************************************************)
EXTENDS GraphManager

In(n, extern, inout) == [name |-> n, type |-> "T", extern |-> extern, inout |-> inout]
Out(n, kind) == [name |-> n, type |-> "T", kind |-> kind]

\* w writes, m and k change what the caller gave, k also reads what w wrote
\* and writes what u reads, which it may leave empty.
MCProcs ==
  [expr |-> [in |-> <<>>, out |-> <<>>],
   w |-> [in |-> <<>>, out |-> <<Out("o", "object")>>],
   m |-> [in |-> <<In("e", TRUE, TRUE)>>, out |-> <<Out("e", "inout")>>],
   k |-> [in |-> <<In("x", TRUE, FALSE), In("e", TRUE, TRUE)>>, out |-> <<Out("y", "shared"), Out("e", "inout")>>],
   u |-> [in |-> <<In("x", FALSE, FALSE), In("y", TRUE, FALSE), In("v", TRUE, FALSE)>>, out |-> <<>>]]

V(id, p) == [NoVertex EXCEPT !.id = id, !.processor = p]
Data(field, id) == [NoData EXCEPT !.field = field, !.id = id]

Main ==
  [name |-> "main", strict |-> TRUE, expr |-> "expr", pool |-> 1, setting |-> <<[name |-> "flag", processor |-> ""]>>,
   graph |->
     <<[name |-> "g", rank |-> 1, version |-> TRUE, priority |-> 0, vertex |->
         <<[V("w", "w") EXCEPT !.output = <<Data("o", "z")>>, !.ignore = FALSE],
           [V("s", "") EXCEPT !.cluster = "lib", !.graph = "l", !.deps_on_ok = {"w"}],
           [V("u", "u") EXCEPT !.input = <<Data("x", "z"), [Data("v", "$v") EXCEPT !.extern = TRUE]>>, !.deps = {"s"},
                               !.expect_config = "flag"]>>]>>]

Lib ==
  [name |-> "lib", strict |-> FALSE, expr |-> "expr", pool |-> 0, setting |-> <<>>, graph |->
     <<[name |-> "l", rank |-> 1, version |-> TRUE, priority |-> 0, vertex |->
         <<[V("k", "k") EXCEPT !.start = TRUE, !.input = <<[Data("x", "z") EXCEPT !.extern = TRUE]>>]>>],
       [name |-> "h", rank |-> 2, version |-> TRUE, priority |-> 0, vertex |->
         <<[V("m", "m") EXCEPT !.start = TRUE],
           [V("s", "") EXCEPT !.cluster = ".", !.graph = "l", !.start = TRUE]>>]>>]

MCFiles == [main |-> {Main}, lib |-> {Lib}]
MCCalls == <<{<<"main", "g">>}, {<<"lib", "h">>, <<"main", "none">>}>>
MCGiven == {<<"e", "T">>}
MCParams == ("$v" :> "e")
MCVarName == {"$v"}
=============================================================================
