------------------------------- MODULE Ssexpr -------------------------------
(***************************************************************************)
(* src/ssexpr: the expression language, its grammar and the interpreter of  *)
(* the tree.  src/ssexpr2 has the same trees and, but for '%', the same     *)
(* grammar; Ssexpr2 models what it compiles them to.                        *)
(*                                                                          *)
(* A value is a record [t, v, x]: its type, its number, and x, which is the *)
(* denominator of a double (0 for an infinity or a NaN), the length of a    *)
(* string view, and what lies in memory after a bool.  Booleans are 0 and   *)
(* 1, strings are numbers in their order, 0 the empty one.                  *)
(***************************************************************************)
EXTENDS Integers, Sequences, SequencesExt

CONSTANTS Object,     \* the root object: path of field names -> member
          Vars        \* the dynamic variables: name -> value

Val(t, v, x) == [t |-> t, v |-> v, x |-> x]
Error(code) == Val("Error", code, 1)
Bool(b) == Val("bool", IF b THEN 1 ELSE 0, 1)
Unknown == -1
ERR_INVALID_OPERATOR == 10001
ERR_INVALID_OPERAND_TYPE == 10002
ERR_INVALID_FUNCTION == 10003
ERR_INVALID_STRUCT_MEMBER == 10004
ERR_TOO_MANY_ARGS == 10007
ERR_NIL_VAR == 10008

(***************************************************************************)
(* Trees.  An Expression with nothing after its first operand is the        *)
(* operand itself.                                                          *)
(***************************************************************************)
Lit(val) == [k |-> "lit", val |-> val]
Var(path) == [k |-> "var", path |-> path]
Dyn(name) == [k |-> "dyn", name |-> name]
Unary(op, a) == [k |-> "un", op |-> op, a |-> a]
Cond(c, a, b) == [k |-> "cond", c |-> c, a |-> a, b |-> b]
FuncCall(f, args) == [k |-> "call", f |-> f, args |-> args]
Expr(first, rest) == IF rest = <<>> THEN first
                     ELSE [k |-> "expr", first |-> first, rest |-> rest]
Operation(op, a) == [op |-> op, a |-> a]

-----------------------------------------------------------------------------
(***************************************************************************)
(* The grammar, on tokens [k, n].  A rule takes the position it starts at   *)
(* and gives <<tree, next position>>, or <<>> when it does not match.       *)
(***************************************************************************)
Tok(k, n) == [k |-> k, n |-> n]
Sym(s) == Tok(s, 0)
Op(s) == Tok("op", s)

(* The symbol tables, loosest first.  ssexpr2 has '%' beside '+' and '-'.   *)
Tables(mod) == <<{"&&", "||"}, {"==", "!="}, {"<", "<=", ">", ">="},
                 {"+", "-"} \cup (IF mod THEN {"%"} ELSE {}), {"*", "/"}>>
UnaryOp == {"+", "-", "!"}

IsOp(ts, p, ops) == p <= Len(ts) /\ ts[p].k = "op" /\ ts[p].n \in ops
IsSym(ts, p, s) == p <= Len(ts) /\ ts[p].k = s

RECURSIVE expression(_, _, _), level(_, _, _, _), rest_of(_, _, _, _, _), arguments(_, _, _)

(* *(op > operand): operands as long as an operator of the table follows.   *)
rest_of(m, ts, p, i, acc) ==
  IF ~IsOp(ts, p, Tables(m)[i]) THEN <<acc, p>>
  ELSE LET r == level(m, ts, p + 1, i + 1) IN
       IF r = <<>> THEN <<>>
       ELSE rest_of(m, ts, r[2], i, Append(acc, Operation(ts[p].n, r[1])))

arguments(m, ts, p) ==
  LET a == expression(m, ts, p) IN
  IF a = <<>> THEN <<<<>>, p>>
  ELSE IF ~IsSym(ts, a[2], ",") THEN <<<<a[1]>>, a[2]>>
  ELSE LET more == arguments(m, ts, a[2] + 1) IN <<<<a[1]>> \o more[1], more[2]>>

func(m, ts, p) ==
  IF ~(IsSym(ts, p, "id") /\ IsSym(ts, p + 1, "(")) THEN <<>>
  ELSE LET as == arguments(m, ts, p + 2) IN
       IF IsSym(ts, as[2], ")") THEN <<FuncCall(ts[p].n, as[1]), as[2] + 1>> ELSE <<>>

IsNumber(n) == n.k = "lit" /\ n.val.t \in {"int64", "double"}
Signed(s, val) == Lit(Val(val.t, IF s = "-" THEN 0 - val.v ELSE val.v, val.x))

(* A sign in front of a number belongs to the number. *)
primary_expr(m, ts, p) ==
  IF IsOp(ts, p, {"+", "-"}) /\ IsSym(ts, p + 1, "operand") /\ IsNumber(ts[p + 1].n)
  THEN <<Signed(ts[p].n, ts[p + 1].n.val), p + 2>>
  ELSE IF IsSym(ts, p, "operand") THEN <<ts[p].n, p + 1>>
  ELSE IF func(m, ts, p) # <<>> THEN func(m, ts, p)
  ELSE IF ~IsSym(ts, p, "(") THEN <<>>
  ELSE LET e == expression(m, ts, p + 1) IN
       IF e # <<>> /\ IsSym(ts, e[2], ")") THEN <<e[1], e[2] + 1>> ELSE <<>>

unary_expr(m, ts, p) ==
  IF primary_expr(m, ts, p) # <<>> THEN primary_expr(m, ts, p)
  ELSE IF ~IsOp(ts, p, UnaryOp) THEN <<>>
  ELSE LET a == primary_expr(m, ts, p + 1) IN
       IF a = <<>> THEN <<>> ELSE <<Unary(ts[p].n, a[1]), a[2]>>

(* logical_expr, equality_expr, relational_expr, additive_expr and          *)
(* multiplicative_expr: the table of the level between operands of the next. *)
level(m, ts, p, i) ==
  IF i > Len(Tables(m)) THEN unary_expr(m, ts, p)
  ELSE LET f == level(m, ts, p, i + 1) IN
       IF f = <<>> THEN <<>>
       ELSE LET r == rest_of(m, ts, f[2], i, <<>>) IN
            IF r = <<>> THEN <<>> ELSE <<Expr(f[1], r[1]), r[2]>>

(* cond_expr, which is what an expression is. *)
expression(m, ts, p) ==
  LET c == level(m, ts, p, 1) IN
  IF c = <<>> \/ ~IsSym(ts, c[2], "?") THEN c
  ELSE LET a == expression(m, ts, c[2] + 1) IN
       IF a = <<>> \/ ~IsSym(ts, a[2], ":") THEN <<>>
       ELSE LET b == expression(m, ts, a[2] + 1) IN
            IF b = <<>> THEN <<>> ELSE <<Cond(c[1], a[1], b[1]), b[2]>>

-----------------------------------------------------------------------------
(***************************************************************************)
(* The arithmetic of C++ on int64_t and double, of which x carries the      *)
(* denominator: an int64_t has 1.                                           *)
(***************************************************************************)
Sign(n) == IF n < 0 THEN -1 ELSE 1
IsNaN(a) == a.x = 0 /\ a.v = 0
Trunc(n, d) == Sign(n) * Sign(d) * ((Sign(n) * n) \div (Sign(d) * d))
Rem(n, d) == n - d * Trunc(n, d)
Trap == Val("trap", 0, 1)   \* an integer division by zero is undefined

Plus(t, a, b) == Val(t, a.v * b.x + b.v * a.x, a.x * b.x)
Minus(t, a, b) == Val(t, a.v * b.x - b.v * a.x, a.x * b.x)
Times(t, a, b) == Val(t, a.v * b.v, a.x * b.x)
DivideInt(t, a, b) == IF b.v = 0 THEN Trap ELSE Val(t, Trunc(a.v, b.v), 1)
Divide(t, a, b) == Val(t, Sign(b.v) * a.v * b.x, Sign(b.v) * a.x * b.v)

(* Comparisons of numbers, strings and booleans; a NaN is unequal to all.   *)
Less(a, b) == ~IsNaN(a) /\ ~IsNaN(b) /\ a.v * b.x < b.v * a.x
Equal(a, b) == ~IsNaN(a) /\ ~IsNaN(b) /\ a.v * b.x = b.v * a.x
Compare(op, a, b) ==
  CASE op = "==" -> Equal(a, b)
    [] op = "!=" -> ~Equal(a, b)
    [] op = "<"  -> Less(a, b)
    [] op = "<=" -> Less(a, b) \/ Equal(a, b)
    [] op = ">"  -> Less(b, a)
    [] op = ">=" -> Less(b, a) \/ Equal(a, b)

(* The interpreter on two values.  An error is not handed on: the operation *)
(* on it has no case and gives the unknown error.                           *)
Number == {"int64", "double"}
Joined(a, b) == IF {a.t, b.t} = {"int64"} THEN "int64" ELSE "double"

CalcArithmetic(op, a, b) ==
  IF ~({a.t, b.t} \subseteq Number) THEN Error(Unknown)
  ELSE CASE op = "+" -> Plus(Joined(a, b), a, b)
         [] op = "-" -> Minus(Joined(a, b), a, b)
         [] op = "*" -> Times(Joined(a, b), a, b)
         [] op = "/" -> IF Joined(a, b) = "int64" THEN DivideInt("int64", a, b)
                        ELSE Divide("double", a, b)

CalcEquality(op, a, b) ==
  IF {a.t, b.t} \subseteq Number \/ (a.t = b.t /\ a.t \in {"string", "bool"})
  THEN Bool(Compare(op, a, b)) ELSE Error(Unknown)

CalcOrder(op, a, b) ==
  IF {a.t, b.t} \subseteq Number \/ (a.t = b.t /\ a.t = "string")
  THEN Bool(Compare(op, a, b)) ELSE Error(Unknown)

CalcLogic(op, a, b) ==
  IF {a.t, b.t} # {"bool"} THEN Error(Unknown)
  ELSE Bool(IF op = "&&" THEN a.v = 1 /\ b.v = 1 ELSE a.v = 1 \/ b.v = 1)

CalcVisitor(op, a, b) ==
  CASE a.t = "trap" \/ b.t = "trap" -> Trap
    [] op \in {"+", "-", "*", "/"} -> CalcArithmetic(op, a, b)
    [] op \in {"==", "!="} -> CalcEquality(op, a, b)
    [] op \in {"<", "<=", ">", ">="} -> CalcOrder(op, a, b)
    [] op \in {"&&", "||"} -> CalcLogic(op, a, b)
    [] OTHER -> Error(ERR_INVALID_OPERATOR)

-----------------------------------------------------------------------------
(***************************************************************************)
(* The object.  A member is [type, v, x]: its C++ type and what it holds.   *)
(* The interpreter widens every integer to int64_t and a float to double;   *)
(* a path that leads nowhere (an argument that Init did not refuse) is the  *)
(* first alternative of the variant, the bool false.                        *)
(***************************************************************************)
IntegerTypes == {"char", "uint8_t", "int16_t", "uint16_t", "int32_t", "uint32_t", "int64_t", "uint64_t"}
StringTypes == {"std::string", "std::string_view"}

FieldAccessorTable == DOMAIN Object
GetFieldAccessors(path) == path \in FieldAccessorTable

toFieldValue(m) ==
  CASE m.type \in IntegerTypes \cup {"bool", "float", "double"} -> Val(m.type, m.v, m.x)
    [] m.type \in StringTypes -> Val("std::string_view", m.v, 1)
    [] OTHER -> Val("const void*", m.v, 1)

GetFieldValue(path) == IF GetFieldAccessors(path) THEN toFieldValue(Object[path])
                       ELSE Val("bool", 0, 1)

struct_vistitor(path) ==
  LET f == GetFieldValue(path) IN
  CASE f.t = "bool" -> Val("bool", f.v, 1)
    [] f.t \in IntegerTypes -> Val("int64", f.v, 1)
    [] f.t \in {"float", "double"} -> Val("double", f.v, f.x)
    [] f.t = "std::string_view" -> Val("string", f.v, 1)
    [] OTHER -> Val("ptr", f.v, 1)

(* Functions the application registers: one weighs its arguments by their   *)
(* place, one answers whether its argument is odd; both hand on an error    *)
(* they are given.                                                          *)
Functions == {"weigh", "odd"}
Apply(f, args) ==
  IF \E i \in DOMAIN args : args[i].t \in {"Error", "V_UNKNOWN"} THEN Error(Unknown)
  ELSE IF f = "weigh" THEN Val("int64", FoldLeftDomain(LAMBDA s, i : s + i * args[i].v, 0, args), 1)
  ELSE Bool(args # <<>> /\ Rem(args[1].v, 2) # 0)

RECURSIVE Initializer(_), Interpreter(_)

FirstError(rcs) == LET bad == SelectSeq(rcs, LAMBDA rc : rc # 0)
                   IN IF bad = <<>> THEN 0 ELSE bad[1]

(* Init refuses a tree with an unknown member or function, but does not     *)
(* mind what it finds in the arguments of a call.                           *)
Initializer(n) ==
  CASE n.k = "var" -> IF GetFieldAccessors(n.path) THEN 0 ELSE ERR_INVALID_STRUCT_MEMBER
    [] n.k = "call" -> IF n.f \in Functions THEN 0 ELSE ERR_INVALID_FUNCTION
    [] n.k = "un" -> Initializer(n.a)
    [] n.k = "cond" -> FirstError(<<Initializer(n.c), Initializer(n.a), Initializer(n.b)>>)
    [] n.k = "expr" -> FirstError(<<Initializer(n.first)>> \o
                                  [i \in DOMAIN n.rest |-> Initializer(n.rest[i].a)])
    [] OTHER -> 0

(* op_not takes a bool, op_positive and op_negative a number. *)
InterpretUnary(op, a) ==
  CASE a.t = "trap" -> Trap
    [] op = "!" -> IF a.t = "bool" THEN Bool(a.v = 0) ELSE Error(ERR_INVALID_OPERAND_TYPE)
    [] op = "+" -> IF a.t \in Number THEN a ELSE Error(ERR_INVALID_OPERAND_TYPE)
    [] op = "-" -> IF a.t \in Number THEN Val(a.t, 0 - a.v, a.x) ELSE Error(ERR_INVALID_OPERAND_TYPE)

(* && and || do not look at the right operand when the left one decides. *)
InterpretOperation(lhs, op) ==
  IF lhs = Bool(FALSE) /\ op.op = "&&" THEN lhs
  ELSE IF lhs = Bool(TRUE) /\ op.op = "||" THEN lhs
  ELSE CalcVisitor(op.op, lhs, Interpreter(op.a))

(* A test that is not a bool is the value of the conditional. *)
Interpreter(n) ==
  CASE n.k = "lit" -> n.val
    [] n.k = "var" -> struct_vistitor(n.path)
    [] n.k = "dyn" -> IF n.name \in DOMAIN Vars THEN Vars[n.name] ELSE Error(Unknown)
    [] n.k = "un" -> InterpretUnary(n.op, Interpreter(n.a))
    [] n.k = "cond" -> LET c == Interpreter(n.c) IN
                       IF c.t # "bool" THEN c
                       ELSE IF c.v = 1 THEN Interpreter(n.a) ELSE Interpreter(n.b)
    [] n.k = "call" -> LET args == [i \in DOMAIN n.args |-> Interpreter(n.args[i])] IN
                       IF \E i \in DOMAIN args : args[i].t = "trap" THEN Trap ELSE Apply(n.f, args)
    [] n.k = "expr" -> FoldLeft(InterpretOperation, Interpreter(n.first), n.rest)
=============================================================================
