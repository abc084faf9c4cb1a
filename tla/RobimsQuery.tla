----------------------------- MODULE RobimsQuery -----------------------------
(***************************************************************************)
(* Queries over robims tables (src/robims/robims_query.cpp): the syntax     *)
(* tree, its initialisation against the tables and its evaluation to a      *)
(* bitmap of local ids.                                                     *)
(***************************************************************************)
EXTENDS RobimsTable

CONSTANT Alphabet      \* the strings in their order

(* A node: a literal, a variable with its parts, a unary operator, a        *)
(* condition, a call, or operands ks joined by the operators ss from the    *)
(* left.  A double counts halves.                                           *)
Node(k, n, ss, ks) == [k |-> k, n |-> n, ss |-> ss, ks |-> ks]

Value(k, n, ss, ids) == [k |-> k, n |-> n, ss |-> ss, ids |-> ids]
QueryError == Value("error", 0, <<>>, {})
BoolValue(b) == Value("bool", IF b THEN 1 ELSE 0, <<>>, {})
Bitmap(ids) == Value("bitmap", 0, <<>>, ids)
IsNumber(v) == v.k \in {"int", "double"}
Halves(v) == IF v.k = "int" THEN 2 * v.n ELSE v.n
Rank(s) == CHOOSE i \in DOMAIN Alphabet : Alphabet[i] = s

-----------------------------------------------------------------------------
(* Initializer: a variable is a table and a field.  The field itself may be *)
(* missing: the test after GetField looks at the table again.               *)
RECURSIVE Initializer(_, _)
Initializer(ts, q) ==
  IF q.k = "var" THEN Len(q.ss) = 2 /\ q.ss[1] \in DOMAIN ts
  ELSE q.k = "call" \/ \A i \in DOMAIN q.ks : Initializer(ts, q.ks[i])

-----------------------------------------------------------------------------
(* The Select of each kind of field: rc and the ids. *)
Failed == [ok |-> FALSE, ids |-> {}]
Found(ids) == [ok |-> TRUE, ids |-> ids]

SetSelect(t, f, op, arg) ==
  IF op \notin {"==", "!="} \/ arg.k # "str" \/ arg.ss[1] \notin DOMAIN f.bm THEN Failed
  ELSE Found(IF op = "==" THEN f.bm[arg.ss[1]] ELSE t.ids \ f.bm[arg.ss[1]])

BoolSelect(t, f, op, arg) ==
  IF op \notin {"==", "!="} \/ arg.k # "int" THEN Failed
  ELSE Found(IF (op = "==") = (arg.n = 0) THEN t.ids \ f.ids ELSE f.ids)

BsiSelect(f, op, n) ==
  LET lo == Lo(f.meta)
      hi == Hi(f.meta)
  IN CASE op = "==" -> Bsi(lo, hi)!RangeEQ(f.bits, n, {})
       [] op = "!=" -> Bsi(lo, hi)!RangeNEQ(f.bits, n)
       [] op = "<"  -> Bsi(lo, hi)!RangeLT(f.bits, n, FALSE, {})
       [] op = "<=" -> Bsi(lo, hi)!RangeLT(f.bits, n, TRUE, {})
       [] op = ">"  -> Bsi(lo, hi)!RangeGT(f.bits, n, FALSE, {})
       [] op = ">=" -> Bsi(lo, hi)!RangeGT(f.bits, n, TRUE, {})

IntSelect(f, op, arg) == IF arg.k # "int" THEN Failed ELSE Found(BsiSelect(f, op, arg.n))
FloatSelect(f, op, arg) ==
  IF ~IsNumber(arg) THEN Failed ELSE Found(BsiSelect(f, op, float_to_uint32(Halves(arg))))

FieldSelect(t, f, op, arg) ==
  CASE f.meta.type \in {"set", "mutex", "weight_set"} -> SetSelect(t, f, op, arg)
    [] f.meta.type = "bool" -> BoolSelect(t, f, op, arg)
    [] f.meta.type = "int" -> IntSelect(f, op, arg)
    [] f.meta.type = "float" -> FloatSelect(f, op, arg)

-----------------------------------------------------------------------------
(* QueryCalc, one operator per group of cases. *)
Abs(n) == IF n < 0 THEN -n ELSE n
Quotient(a, b) == LET q == Abs(a) \div Abs(b) IN IF (a < 0) = (b < 0) THEN q ELSE -q

(* Two integers give an integer; anything but two numbers leaves the result *)
(* what it was made, an error.  Dividing by the integer 0 ends the process. *)
Arithmetic(op, l, r) ==
  LET a == Halves(l)
      b == Halves(r)
  IN IF ~IsNumber(l) \/ ~IsNumber(r) THEN QueryError
     ELSE IF l.k = "int" /\ r.k = "int"
     THEN Value("int", CASE op = "+" -> l.n + r.n [] op = "-" -> l.n - r.n
                         [] op = "*" -> l.n * r.n [] op = "/" -> Quotient(l.n, r.n), <<>>, {})
     ELSE Value("double", CASE op = "+" -> a + b [] op = "-" -> a - b
                            [] op = "*" -> Quotient(a * b, 2) [] op = "/" -> Quotient(2 * a, b), <<>>, {})

Compares(op, a, b) ==
  CASE op = "==" -> a = b [] op = "!=" -> a # b [] op = "<" -> a < b
    [] op = "<=" -> a <= b [] op = ">" -> a > b [] op = ">=" -> a >= b

(* The operator a field on the right gets. *)
Mirror(op) == CASE op = "<" -> ">" [] op = ">" -> "<" [] op = "<=" -> ">="
                [] op = ">=" -> "<=" [] op \in {"==", "!="} -> op

SelectVar(ts, v, op, arg) ==
  LET t == ts[v.ss[1]]
      r == FieldSelect(t, t.f[v.ss[2]], op, arg)
  IN IF r.ok THEN Bitmap(r.ids) ELSE QueryError

(* A field takes a number, and for == and != also a string. *)
Comparison(ts, op, l, r) ==
  LET fits(v) == IsNumber(v) \/ (v.k = "str" /\ op \in {"==", "!="})
  IN CASE IsNumber(l) /\ IsNumber(r) -> BoolValue(Compares(op, Halves(l), Halves(r)))
       [] l.k = "str" /\ r.k = "str" -> BoolValue(Compares(op, Rank(l.ss[1]), Rank(r.ss[1])))
       [] l.k = "field" -> IF fits(r) THEN SelectVar(ts, l, op, r) ELSE QueryError
       [] l.k # "field" /\ r.k = "field" ->
            IF fits(l) THEN SelectVar(ts, r, Mirror(op), l) ELSE QueryError
       [] OTHER -> QueryError

Logic(op, l, r) ==
  CASE l.k = "bool" /\ r.k = "bool" ->
         BoolValue(IF op = "&&" THEN l.n = 1 /\ r.n = 1 ELSE l.n = 1 \/ r.n = 1)
    [] l.k = "bitmap" /\ r.k = "bitmap" ->
         Bitmap(IF op = "&&" THEN l.ids \cap r.ids ELSE l.ids \cup r.ids)
    [] OTHER -> QueryError

QueryCalc(ts, op, l, r) ==
  CASE op \in {"+", "-", "*", "/"} -> Arithmetic(op, l, r)
    [] op \in {"==", "!=", "<", "<=", ">", ">="} -> Comparison(ts, op, l, r)
    [] op \in {"&&", "||"} -> Logic(op, l, r)
    [] OTHER -> QueryError

UnaryCalc(op, v) ==
  IF ~IsNumber(v) THEN QueryError
  ELSE IF op = "pos" THEN v ELSE [v EXCEPT !.n = 0 - v.n]

(* QueryInterpreter.  A condition whose test is no bool is its test. *)
RECURSIVE QueryInterpreter(_, _)
QueryInterpreter(ts, q) ==
  CASE q.k \in {"int", "double", "bool", "str"} -> Value(q.k, q.n, q.ss, {})
    [] q.k = "var" -> IF q.ss[2] \in DOMAIN ts[q.ss[1]].f THEN Value("field", 0, q.ss, {}) ELSE QueryError
    [] q.k = "call" -> QueryError
    [] q.k \in {"pos", "neg"} -> UnaryCalc(q.k, QueryInterpreter(ts, q.ks[1]))
    [] q.k = "cond" -> LET test == QueryInterpreter(ts, q.ks[1]) IN
                       IF test.k # "bool" THEN test
                       ELSE QueryInterpreter(ts, q.ks[IF test.n = 1 THEN 2 ELSE 3])
    [] q.k = "expr" -> FoldLeftDomain(LAMBDA v, i :
                         QueryCalc(ts, q.ss[i], v, QueryInterpreter(ts, q.ks[i + 1])),
                         QueryInterpreter(ts, q.ks[1]), q.ss)

-----------------------------------------------------------------------------
(* The page of RobimsDBImpl::Select: an array of zeros of limit elements    *)
(* takes the ids from offset on; the first 0 after the first element ends   *)
(* it, a 0 in front is an id only on the first page of a bitmap with 0.     *)
Sorted(ids) == SetToSortSeq(ids, <)

SelectPage(ids, offset, limit) ==
  LET at(i) == IF offset + i <= Cardinality(ids) THEN Sorted(ids)[offset + i] ELSE 0
      end == {i \in 1..limit : at(i) = 0 /\ (i > 1 \/ offset > 0 \/ 0 \notin ids)}
  IN SubSeq([i \in 1..limit |-> at(i)], 1, IF end = {} THEN limit ELSE Min(end) - 1)
=============================================================================
