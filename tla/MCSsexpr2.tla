---------------------------- MODULE MCSsexpr2 -----------------------------
(***************************************************************************)
(* Every tree with one operator over the leaves, every chain of two         *)
(* operators of one level, and every tree with a smaller tree as operand,   *)
(* test, branch or argument; calls of up to five arguments.                 *)
(***************************************************************************)
EXTENDS Ssexpr2

Member(type, v, x, getter) == [type |-> type, v |-> v, x |-> x, getter |-> getter]

MCObject ==
  (<<"on">> :> Member("bool", 1, 0, FALSE)) @@ (<<"off">> :> Member("bool", 0, 0, FALSE))
  @@ (<<"vv">> :> Member("int32_t", 3, 1, FALSE))
  @@ (<<"sub", "score">> :> Member("float", 3, 2, FALSE))
  @@ (<<"sub", "id">> :> Member("std::string", 2, 1, FALSE))
  @@ (<<"msg", "num">> :> Member("uint16_t", 2, 1, TRUE))
  @@ (<<"msg", "c">> :> Member("char", 2, 1, TRUE))
  @@ (<<"raw">> :> Member("struct", 1, 1, FALSE))

MCVars == [n |-> Val("int64", 2, 1), s |-> Val("string", 2, 1)]

Literals == {Lit(Val("int64", 0, 1)), Lit(Val("int64", -3, 1)), Lit(Val("int64", 2, 1)), Lit(Val("double", 1, 2)),
             Lit(Bool(TRUE)), Lit(Bool(FALSE)), Lit(Val("string", 1, 1))}
Leaves == Literals \cup {Var(p) : p \in DOMAIN MCObject} \cup {Dyn(n) : n \in {"n", "s", "none"}}
Few == {Lit(Val("int64", 2, 1)), Lit(Bool(TRUE)), Var(<<"off">>), Var(<<"vv">>)}

AllOps == UNION {Tables(TRUE)[i] : i \in DOMAIN Tables(TRUE)}
Two(as, bs, ops) == {Expr(a, <<Operation(op, b)>>) : a \in as, b \in bs, op \in ops}
Chains == UNION {{Expr(a, <<Operation(o1, b), Operation(o2, c)>>) :
                    a \in Few, b \in Few, c \in Few, o1 \in Tables(TRUE)[i], o2 \in Tables(TRUE)[i]} :
                   i \in {1, 4}}

Small == Two(Few, Few, {"+", "<", "&&", "||"}) \cup {FuncCall("odd", <<a>>) : a \in Few}
         \cup {Unary(op, a) : op \in UnaryOp, a \in Few}
         \cup {Cond(c, a, Lit(Val("int64", 2, 1))) : c \in Few, a \in Few}

One == Leaves \cup Two(Leaves, Leaves, AllOps) \cup {Unary(op, a) : op \in UnaryOp, a \in Leaves}
       \cup {Cond(c, a, b) : c \in Leaves, a \in Few, b \in Few}
       \cup {FuncCall("weigh", as) : as \in SeqOf(Few, 2)}
       \cup {Var(<<"sub">>), FuncCall("none", <<>>), FuncCall("odd", <<Var(<<"none">>)>>),
             FuncCall("weigh", [i \in 1..11 |-> Lit(Bool(TRUE))])}

Nested == Two(Small, Few, {"*", "-", "%", "/", "==", "&&", "||"}) \cup Two(Few, Small, {"*", "-", "<=", "&&", "||"})
          \cup {Unary(op, s) : op \in UnaryOp, s \in Small}
          \cup {Cond(s, a, b) : s \in Small, a \in Few, b \in {Lit(Bool(TRUE))}}
          \cup {Cond(Lit(Bool(TRUE)), s, Var(<<"vv">>)) : s \in Small}
          \cup {Cond(Var(<<"off">>), Lit(Bool(TRUE)), s) : s \in Small}
          \cup {FuncCall("weigh", <<a, s, b>>) : s \in Small, a \in Few, b \in Few}

(* Calls with arguments on the stack.  An argument that is given up while   *)
(* others are already there is left out of the passing run.                 *)
Spilling(ss) == {FuncCall("weigh", <<a, s, Lit(Bool(TRUE)), b, Lit(Val("int64", 2, 1))>>) :
                   s \in ss, a \in Few, b \in Few}
                \cup {Expr(Lit(Val("int64", 2, 1)), <<Operation("+", FuncCall("weigh", <<a, a, s, a>>))>>) :
                        s \in ss, a \in Few}

(* The same calls with arguments that may be given up. *)
SpillTrees == Spilling(Small)

MCTrees == One \cup Chains \cup Nested \cup Spilling({s \in Small : ~Means(s).stop})
=============================================================================
