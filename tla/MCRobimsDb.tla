----------------------------- MODULE MCRobimsDb -----------------------------
(***************************************************************************)
(* Two documents in a table with a field of every kind, and a second table *)
(* that hands out no ids.                                                  *)
(***************************************************************************)
EXTENDS RobimsDb

MCTable == [name |-> "t", nocreate |-> FALSE,
            fields |-> <<Meta("a", "int", 0, 3, 0), Meta("f", "float", -1, 2, 0),
                         Meta("c", "set", 0, 0, 0), Meta("b", "bool", 0, 0, 0),
                         Meta("w", "weight_set", 0, 0, 1)>>]
MCOther == [name |-> "u", nocreate |-> TRUE, fields |-> <<Meta("g", "mutex", 0, 0, 0)>>]
MCSchemas == {MCTable, MCOther}
MCStart == {MCTable}

Column(type) == Meta("x", type, 0, 0, 0)
MCDescs == {[name |-> "u", fields |-> <<Meta("k", "id", 0, 0, 0), Meta("g", "mutex", 0, 0, 0)>>],
            [name |-> "v", fields |-> <<Column("id"), Column("id")>>],
            [name |-> "v", fields |-> <<Column("json")>>]}

Doc(a, f, c, b, w) == [a |-> a, f |-> f, c |-> c, b |-> b, w |-> w] @@ NoMap
Whole(n) == Json("int", <<>>, <<>>, n)
Real(n) == Json("real", <<>>, <<>>, n)
Words(ss) == Json("strs", ss, <<>>, 0)
Truth(n) == Json("bool", <<>>, <<>>, n)
Weighed(ws) == Json("weights", <<>>, ws, 0)
W(s, w) == [s |-> s, w |-> w]

MCDocs == "t" :> {Doc(Whole(1), Real(-1), Words(<<"x", "y">>), Truth(1), Weighed(<<W("x", 1)>>)),
                  Doc(Whole(2), Absent, Words(<<"y">>), Absent, Weighed(<<W("x", 2), W("y", 0)>>)),
                  Doc(Absent, Whole(1), Words(<<"", NotString>>), Absent, Weighed(<<W("y", 1), W("x", NotNumber)>>))}
       @@ "u" :> {[g |-> Json("str", <<"x">>, <<>>, 0)] @@ NoMap}

Lit(n) == Node("int", n, <<>>, <<>>)
Half(n) == Node("double", n, <<>>, <<>>)
Text(s) == Node("str", 0, <<s>>, <<>>)
Var(t, f) == Node("var", 0, <<t, f>>, <<>>)
Bin(l, op, r) == Node("expr", 0, <<op>>, <<l, r>>)
Minus(x) == Node("neg", 0, <<>>, <<x>>)

MCQueries ==
  {Bin(Var("t", "a"), op, Lit(1)) : op \in {"==", "!=", "<=", ">", ">="}}
  \cup {Bin(Lit(1), "<", Var("t", "a")), Bin(Bin(Lit(1), "+", Lit(1)), ">=", Var("t", "a"))}
  \cup {Bin(Var("t", "f"), op, Half(0)) : op \in {"==", "<=", ">"}}
  \cup {Bin(Minus(Half(1)), "==", Var("t", "f")), Bin(Var("t", "f"), "!=", Lit(1))}
  \cup {Bin(Var("t", "c"), op, Text("x")) : op \in {"==", "!="}}
  \cup {Bin(Var("t", "b"), op, Lit(n)) : op \in {"==", "!="}, n \in 0..1}
  \cup {Bin(Var("t", "w"), op, Text("x")) : op \in {"==", "!="}}
  \cup {Bin(Var("u", "g"), "==", Text("x"))}
  \cup {Node("cond", 0, <<>>, <<Bin(Lit(1), "<", Half(3)), Bin(Var("t", "c"), "==", Text("y")), Text("x")>>)}
  \cup {Node("expr", 0, <<"||", "&&">>, <<Bin(Var("t", "c"), "==", Text("x")),
                                          Bin(Var("t", "a"), ">", Lit(1)), Bin(Var("t", "b"), "==", Lit(0))>>)}

MCAsked == {Bin(Var("t", "a"), ">", Lit(1))}

MCAlphabet == <<"", "x", "y">>
MCLocalId == 0..1
MCBudget == [put |-> 2, save |-> 1, read |-> 2, other |-> 1]
=============================================================================
