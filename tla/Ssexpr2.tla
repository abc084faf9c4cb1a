------------------------------- MODULE Ssexpr2 ------------------------------
(***************************************************************************)
(* src/ssexpr2: the expression compiled to machine code, and the run of     *)
(* that code.  A value travels in the register pair rax:rdx (rax and rdx    *)
(* together are `acc` here); pairs are saved on the stack and r13 counts    *)
(* them, so that an error inside an operand can take them off again.        *)
(***************************************************************************)
EXTENDS Ssexpr

CONSTANT Trees        \* the expressions that are compiled and run

VARIABLES tree,       \* the expression, and `src`, its text
          src,
          phase,      \* "new", "refused", "run", "unwind", "done", "trap"
          code, pc,
          acc,        \* rax:rdx
          r10, r13,
          stack,      \* pairs, and the registers the prologue saved
          regs,       \* what the epilogue restored
          calls       \* the calls of registered functions, in order

vars == <<tree, src, phase, code, pc, acc, r10, r13, stack, regs, calls>>

-----------------------------------------------------------------------------
(***************************************************************************)
(* Values.  A field gives a pointer to the member (V_INT32 ...), a getter   *)
(* of a helper struct the number itself (V_INT32_VALUE ...).  For a bool, x *)
(* is what the other seven bytes of the word hold.                          *)
(***************************************************************************)
Err(e) == Val("V_UNKNOWN", e, 1)

Suffix == [bool |-> "V_BOOL", char |-> "V_CHAR", uint8_t |-> "V_UINT8", int16_t |-> "V_INT16",
           uint16_t |-> "V_UINT16", int32_t |-> "V_INT32", uint32_t |-> "V_UINT32",
           int64_t |-> "V_INT64", uint64_t |-> "V_UINT64", float |-> "V_FLOAT",
           double |-> "V_DOUBLE"]
ValueSuffix == [bool |-> "V_BOOL_VALUE", char |-> "V_CHAR_VALUE", uint8_t |-> "V_UINT8_VALUE",
                int16_t |-> "V_INT16_VALUE", uint16_t |-> "V_UINT16_VALUE",
                int32_t |-> "V_INT32_VALUE", uint32_t |-> "V_UINT32_VALUE",
                int64_t |-> "V_INT64_VALUE", uint64_t |-> "V_UINT64_VALUE",
                float |-> "V_FLOAT_VALUE", double |-> "V_DOUBLE_VALUE"]

(* The code DEFINE_JIT_STRUCT builds for a member, DEFINE_JIT_STRUCT_HELPER *)
(* for a getter.  A string_view member is passed by its own address with a  *)
(* length of 0.                                                             *)
MemberAccess(m) ==
  CASE m.type \in DOMAIN Suffix -> Val(Suffix[m.type], m.v, m.x)
    [] m.type = "std::string" -> Val("V_STD_STRING", m.v, 1)
    [] m.type = "std::string_view" -> Val("V_STD_STRING_VIEW", m.v, 0)
    [] OTHER -> Val("V_STRUCT", m.v, 1)

GetterAccess(m) ==
  CASE m.type \in DOMAIN ValueSuffix -> Val(ValueSuffix[m.type], m.v, m.x)
    [] m.type = "std::string" -> Val("V_STD_STRING", m.v, 1)
    [] m.type = "std::string_view" -> Val("V_STD_STRING_VIEW", m.v, 0)
    [] OTHER -> Val("V_JIT_STRUCT", m.v, 1)

GetField(path) == LET m == Object[path] IN IF m.getter THEN GetterAccess(m) ELSE MemberAccess(m)

(* Value::Set, of a literal or of a variable of the evaluation context. *)
SetValue(val) ==
  CASE val.t = "bool" -> Val("V_BOOL_VALUE", val.v, 0)
    [] val.t = "int64" -> Val("V_INT64_VALUE", val.v, 1)
    [] val.t = "double" -> Val("V_DOUBLE_VALUE", val.v, val.x)
    [] val.t = "string" -> Val("V_STD_STRING", val.v, 1)
    [] OTHER -> Err(val.v)

find_var_value(name) == IF name \in DOMAIN Vars THEN SetValue(Vars[name]) ELSE Err(ERR_NIL_VAR)

Strings == {"V_STD_STRING", "V_STD_STRING_VIEW", "V_FLATBUFFERS_STRING", "V_CSTRING"}

(* Value::Get<std::string_view>: a view of length 0 is the empty string. *)
GetString(a) == IF a.t = "V_STD_STRING_VIEW" /\ a.x = 0 THEN Val(a.t, 0, 1) ELSE Val(a.t, a.v, 1)

(* Every integer becomes int64_t, a float a double, a bool a bool value.    *)
(* V_CHAR_VALUE has no case.                                                *)
normValue(a) ==
  CASE a.t = "V_BOOL" -> Val("V_BOOL_VALUE", a.v, 0)
    [] a.t \in {Suffix[c] : c \in IntegerTypes} -> Val("V_INT64_VALUE", a.v, 1)
    [] a.t \in {ValueSuffix[c] : c \in IntegerTypes \ {"char"}} -> Val("V_INT64_VALUE", a.v, 1)
    [] a.t \in {"V_FLOAT", "V_FLOAT_VALUE", "V_DOUBLE"} -> Val("V_DOUBLE_VALUE", a.v, a.x)
    [] OTHER -> a

-----------------------------------------------------------------------------
(***************************************************************************)
(* The functions the code calls on two values.                              *)
(***************************************************************************)
Numeric == {"V_INT64_VALUE", "V_DOUBLE_VALUE"}
Joint(a, b) == IF {a.t, b.t} = {"V_INT64_VALUE"} THEN "V_INT64_VALUE" ELSE "V_DOUBLE_VALUE"
BadType == Err(ERR_INVALID_OPERAND_TYPE)
Truth(b) == Val("V_BOOL_VALUE", IF b THEN 1 ELSE 0, 0)

doAdd(a, b) == IF {a.t, b.t} \subseteq Numeric THEN Plus(Joint(a, b), a, b) ELSE BadType
doMinus(a, b) == IF {a.t, b.t} \subseteq Numeric THEN Minus(Joint(a, b), a, b) ELSE BadType
doMultiply(a, b) == IF {a.t, b.t} \subseteq Numeric THEN Times(Joint(a, b), a, b) ELSE BadType
doDivide(a, b) ==
  IF ~({a.t, b.t} \subseteq Numeric) THEN BadType
  ELSE IF Joint(a, b) = "V_INT64_VALUE" THEN DivideInt(Joint(a, b), a, b)
  ELSE Divide(Joint(a, b), a, b)
doModulus(a, b) ==
  IF {a.t, b.t} # {"V_INT64_VALUE"} THEN BadType
  ELSE IF b.v = 0 THEN Trap ELSE Val("V_INT64_VALUE", Rem(a.v, b.v), 1)
doAnd(a, b) == IF {a.t, b.t} # {"V_BOOL_VALUE"} THEN BadType ELSE Truth(a.v = 1 /\ b.v = 1)
doOr(a, b) == IF {a.t, b.t} # {"V_BOOL_VALUE"} THEN BadType ELSE Truth(a.v = 1 \/ b.v = 1)

(* Numbers with numbers, strings with strings, bools with bools. *)
Comparison(op, a, b) ==
  IF {a.t, b.t} \subseteq Numeric THEN Truth(Compare(op, a, b))
  ELSE IF {a.t, b.t} \subseteq Strings THEN Truth(Compare(op, GetString(a), GetString(b)))
  ELSE IF {a.t, b.t} = {"V_BOOL_VALUE"} THEN Truth(Compare(op, Bool(a.v = 1), Bool(b.v = 1)))
  ELSE BadType
doEq(a, b) == Comparison("==", a, b)
doNotEq(a, b) == Comparison("!=", a, b)
doLess(a, b) == Comparison("<", a, b)
doLessEq(a, b) == Comparison("<=", a, b)
doGt(a, b) == Comparison(">", a, b)
doGe(a, b) == Comparison(">=", a, b)

(* Mistake: the operands are left as the fields gave them. *)
calcPairValue_Raw(l, r, op) ==
  IF l.t = "V_UNKNOWN" THEN l ELSE IF r.t = "V_UNKNOWN" THEN r
  ELSE CASE op = "+" -> doAdd(l, r)
         [] op = "<" -> doLess(l, r)
         [] OTHER -> doEq(l, r)

calcPairValue(l, r, op) ==
  IF l.t = "V_UNKNOWN" THEN l ELSE IF r.t = "V_UNKNOWN" THEN r
  ELSE LET a == normValue(l) b == normValue(r) IN
       CASE op = "+" -> doAdd(a, b)
         [] op = "-" -> doMinus(a, b)
         [] op = "*" -> doMultiply(a, b)
         [] op = "/" -> doDivide(a, b)
         [] op = "%" -> doModulus(a, b)
         [] op = "==" -> doEq(a, b)
         [] op = "!=" -> doNotEq(a, b)
         [] op = "<" -> doLess(a, b)
         [] op = "<=" -> doLessEq(a, b)
         [] op = ">" -> doGt(a, b)
         [] op = ">=" -> doGe(a, b)
         [] op = "&&" -> doAnd(a, b)
         [] op = "||" -> doOr(a, b)
         [] OTHER -> Err(ERR_INVALID_OPERATOR)

notValue(a) == IF a.t \in {"V_BOOL", "V_BOOL_VALUE"} THEN Truth(a.v = 0) ELSE BadType
negValue(a) == a

(* The registered functions take the numbers out of their arguments. *)
Call(f, args) == SetValue(Apply(f, args))

-----------------------------------------------------------------------------
(***************************************************************************)
(* Init: the text is parsed, the names are looked up, then the code is      *)
(* generated.  Jumps go a number of instructions forward.                   *)
(***************************************************************************)
MaxArgs == 10

get_expression(ts) == expression(TRUE, ts, 1)

RECURSIVE Resolve(_), Gen(_)

Resolve(n) ==
  CASE n.k = "var" -> IF GetFieldAccessors(n.path) THEN 0 ELSE ERR_INVALID_STRUCT_MEMBER
    [] n.k = "un" -> Resolve(n.a)
    [] n.k = "cond" -> FirstError(<<Resolve(n.c), Resolve(n.a), Resolve(n.b)>>)
    [] n.k = "call" -> IF n.f \notin Functions THEN ERR_INVALID_FUNCTION
                       ELSE IF Len(n.args) > MaxArgs THEN ERR_TOO_MANY_ARGS
                       ELSE FirstError([i \in DOMAIN n.args |-> Resolve(n.args[i])])
    [] n.k = "expr" -> FirstError(<<Resolve(n.first)>> \o
                                  [i \in DOMAIN n.rest |-> Resolve(n.rest[i].a)])
    [] OTHER -> 0

I(i, a) == <<[i |-> i, a |-> a]>>

(* Mistake: the decided value of && and || jumps past the pair's removal.  *)
GenOperation_PushFirst(x) ==
  LET rhs   == Gen(x.a) \o I("calc", x.op)
      fast  == I("mov", Truth(x.op = "||"))
      tests == I("push", 0) \o I("test", 0)
               \o I(IF x.op = "&&" THEN "jz" ELSE "jnz", Len(rhs) + 2)
  IN IF x.op \in {"&&", "||"} THEN tests \o rhs \o I("jmp", 2) \o fast
     ELSE I("push", 0) \o rhs

(* && and || test the left operand and jump over the right one when it      *)
(* decides; otherwise the left operand waits on the stack.                  *)
GenOperation(x) ==
  LET rhs   == I("push", 0) \o Gen(x.a) \o I("calc", x.op)
      fast  == I("mov", Truth(x.op = "||"))
      tests == I("test", 0) \o I(IF x.op = "&&" THEN "jz" ELSE "jnz", Len(rhs) + 2)
  IN IF x.op \in {"&&", "||"} THEN tests \o rhs \o I("jmp", 2) \o fast ELSE rhs

(* The arguments after the third go to the stack first, the last one first; *)
(* the first three are pushed and popped into the argument registers.       *)
GenFuncCall(n) ==
  LET num   == Len(n.args)
      extra == IF num > 3 THEN num - 3 ELSE 0
      spill == [i \in 1..extra |-> Gen(n.args[num + 1 - i]) \o I("pushraw", 0)]
      first == [i \in 1..(num - extra) |-> Gen(n.args[i]) \o I("push", 0)]
  IN FlattenSeq(spill) \o FlattenSeq(first) \o I("call", [f |-> n.f, num |-> num])

GenCond(n) ==
  LET a == Gen(n.a) b == Gen(n.b)
  IN Gen(n.c) \o I("test", 0) \o I("jz", Len(a) + 2) \o a \o I("jmp", Len(b) + 1) \o b

Gen(n) ==
  CASE n.k = "lit" -> I("mov", SetValue(n.val))
    [] n.k = "var" -> I("field", n.path)
    [] n.k = "dyn" -> I("dyn", n.name)
    [] n.k = "un" -> Gen(n.a) \o (CASE n.op = "!" -> I("not", 0)
                                   [] n.op = "-" -> I("neg", 0)
                                   [] OTHER -> <<>>)
    [] n.k = "cond" -> GenCond(n)
    [] n.k = "call" -> GenFuncCall(n)
    [] n.k = "expr" -> Gen(n.first) \o FlattenSeq([i \in DOMAIN n.rest |-> GenOperation(n.rest[i])])

-----------------------------------------------------------------------------
(***************************************************************************)
(* The text of a tree, with no more parentheses than it needs.              *)
(***************************************************************************)
LevelOf(op) == CHOOSE i \in DOMAIN Tables(TRUE) : op \in Tables(TRUE)[i]
Parens(ts) == <<Sym("(")>> \o ts \o <<Sym(")")>>

RECURSIVE Text(_, _)
Text(n, lvl) ==
  CASE n.k = "lit" -> IF IsNumber(n) /\ n.val.v < 0
                      THEN <<Op("-"), Tok("operand", Signed("-", n.val))>>
                      ELSE <<Tok("operand", n)>>
    [] n.k \in {"var", "dyn"} -> <<Tok("operand", n)>>
    [] n.k = "call" ->
         <<Tok("id", n.f), Sym("(")>>
           \o FlattenSeq([i \in DOMAIN n.args |->
                            (IF i > 1 THEN <<Sym(",")>> ELSE <<>>) \o Text(n.args[i], 0)])
           \o <<Sym(")")>>
    [] n.k = "un" -> LET a  == IF IsNumber(n.a) THEN Parens(Text(n.a, 0)) ELSE Text(n.a, 7)
                         ts == <<Op(n.op)>> \o a
                     IN IF lvl > 6 THEN Parens(ts) ELSE ts
    [] n.k = "cond" ->
         LET ts == Text(n.c, 1) \o <<Sym("?")>> \o Text(n.a, 0) \o <<Sym(":")>> \o Text(n.b, 0)
         IN IF lvl > 0 THEN Parens(ts) ELSE ts
    [] n.k = "expr" ->
         LET l  == LevelOf(n.rest[1].op)
             ts == Text(n.first, l + 1)
                     \o FlattenSeq([i \in DOMAIN n.rest |->
                                      <<Op(n.rest[i].op)>> \o Text(n.rest[i].a, l + 1)])
         IN IF lvl > l THEN Parens(ts) ELSE ts

-----------------------------------------------------------------------------
(* The registers the prologue pushes, marked so that they can be told apart. *)
Prologue == [i \in 1..5 |-> Val("saved", i, 1)]

Start ==
  /\ tree \in Trees
  /\ src = Text(tree, 0)
  /\ phase = "new" /\ code = <<>> /\ pc = 1
  /\ acc = Err(0) /\ r10 = 0 /\ r13 = 0
  /\ stack = <<>> /\ regs = <<>> /\ calls = <<>>

(* SpiritExpression::Init and the prologue.  What follows the expression in *)
(* the text is not looked at.                                               *)
InitExpr ==
  /\ phase = "new"
  /\ LET p == get_expression(src) IN
     IF p = <<>> \/ Resolve(p[1]) # 0
     THEN phase' = "refused" /\ UNCHANGED <<code, stack>>
     ELSE /\ phase' = "run"
          /\ code' = Gen(p[1])
          /\ stack' = Prologue
  /\ UNCHANGED <<tree, src, pc, acc, r10, r13, regs, calls>>

At(i) == phase = "run" /\ pc <= Len(code) /\ code[pc].i = i
Arg == code[pc].a
Step(n) == pc' = pc + n
Pairs(n) == SubSeq(stack, 1, Len(stack) - n)

Load ==
  /\ At("mov") \/ At("field") \/ At("dyn")
  /\ acc' = CASE At("mov") -> Arg
              [] At("field") -> GetField(Arg)
              [] At("dyn") -> find_var_value(Arg)
  /\ Step(1)
  /\ UNCHANGED <<tree, src, phase, code, r10, r13, stack, regs, calls>>

(* PushRegisters counts the pair; the pushes of GenFuncCall do not. *)
PushRegisters ==
  /\ At("push") \/ At("pushraw")
  /\ stack' = Append(stack, acc)
  /\ r13' = IF At("push") THEN r13 + 1 ELSE r13
  /\ Step(1)
  /\ UNCHANGED <<tree, src, phase, code, acc, r10, regs, calls>>

(* Three pairs into the argument registers, the call, and the arguments on  *)
(* the stack are dropped.                                                   *)
CallFunction ==
  /\ At("call")
  /\ LET num  == Arg.num
         n    == IF num > 3 THEN 3 ELSE num
         args == [i \in 1..num |-> IF i <= n THEN stack[Len(stack) - n + i]
                                   ELSE stack[Len(stack) + 1 - i]]
     IN /\ acc' = Call(Arg.f, args)
        /\ calls' = Append(calls, [f |-> Arg.f, args |-> args])
        /\ stack' = Pairs(num)
        /\ r13' = r13 - n
  /\ Step(1)
  /\ UNCHANGED <<tree, src, phase, code, r10, regs>>

CallUnary ==
  /\ At("not") \/ At("neg")
  /\ acc' = IF At("not") THEN notValue(acc) ELSE negValue(acc)
  /\ Step(1)
  /\ UNCHANGED <<tree, src, phase, code, r10, r13, stack, regs, calls>>

(* A pointer to a bool is replaced by the eight bytes it points at; what is *)
(* not a bool leaves the expression through .err_exit.                      *)
TestBool ==
  /\ At("test")
  /\ CASE acc.t = "V_BOOL" -> /\ acc' = Val("V_BOOL_VALUE", acc.v, acc.x)
                              /\ Step(1) /\ UNCHANGED <<phase, r10>>
       [] acc.t = "V_BOOL_VALUE" -> Step(1) /\ UNCHANGED <<acc, phase, r10>>
       [] OTHER -> /\ phase' = "unwind" /\ r10' = ERR_INVALID_OPERAND_TYPE
                   /\ UNCHANGED <<acc, pc>>
  /\ UNCHANGED <<tree, src, code, r13, stack, regs, calls>>

Zero == acc.v = 0 /\ acc.x = 0
Jump ==
  /\ At("jz") \/ At("jnz") \/ At("jmp")
  /\ Step(IF At("jmp") \/ (At("jz") <=> Zero) THEN Arg ELSE 1)
  /\ UNCHANGED <<tree, src, phase, code, acc, r10, r13, stack, regs, calls>>

(* PopValue and calcPairValue; a division by zero ends the process. *)
CalcPair ==
  /\ At("calc")
  /\ acc' = calcPairValue(Last(stack), acc, Arg)
  /\ stack' = Front(stack) /\ r13' = r13 - 1
  /\ phase' = IF acc' = Trap THEN "trap" ELSE phase
  /\ Step(1)
  /\ UNCHANGED <<tree, src, code, r10, regs, calls>>

(* Mistake: the loop stops one pair short. *)
Unwind_OneShort ==
  /\ phase = "unwind"
  /\ IF r13 <= 1 THEN /\ phase' = "run" /\ pc' = Len(code) + 1 /\ acc' = Err(r10)
                      /\ UNCHANGED <<stack, r13>>
     ELSE stack' = Front(stack) /\ r13' = r13 - 1 /\ UNCHANGED <<phase, pc, acc>>
  /\ UNCHANGED <<tree, src, code, r10, regs, calls>>

(* .err_exit: the counted pairs come off, then the error is the result. *)
Unwind ==
  /\ phase = "unwind"
  /\ IF r13 = 0 THEN /\ phase' = "run" /\ pc' = Len(code) + 1 /\ acc' = Err(r10)
                     /\ UNCHANGED <<stack, r13>>
     ELSE stack' = Front(stack) /\ r13' = r13 - 1 /\ UNCHANGED <<phase, pc, acc>>
  /\ UNCHANGED <<tree, src, code, r10, regs, calls>>

(* .ok_exit: the epilogue pops the five registers and returns. *)
Return ==
  /\ phase = "run" /\ pc > Len(code)
  /\ phase' = "done"
  /\ regs' = SubSeq(stack, Len(stack) - 4, Len(stack))
  /\ stack' = Pairs(5)
  /\ UNCHANGED <<tree, src, code, pc, acc, r10, r13, calls>>

Next == InitExpr \/ Load \/ PushRegisters \/ CallFunction \/ CallUnary \/ TestBool
        \/ Jump \/ CalcPair \/ Unwind \/ Return

Spec == Start /\ [][Next]_vars

-----------------------------------------------------------------------------
(***************************************************************************)
(* What an expression means: its value, the calls it makes, and whether it  *)
(* was given up.  No stack, no jumps.                                       *)
(***************************************************************************)
Meaning(v, cs, stop) == [v |-> v, calls |-> cs, stop |-> stop]
IsBool(a) == a.t \in {"V_BOOL", "V_BOOL_VALUE"}
ThenMeans(m, n) == [n EXCEPT !.calls = m.calls \o @]
GivenUp(m) == Meaning(BadType, m.calls, TRUE)

RECURSIVE Means(_), MeansArgs(_)
MeansOperation(m, x) ==
  IF m.stop THEN m
  ELSE IF x.op \in {"&&", "||"} /\ ~IsBool(m.v) THEN GivenUp(m)
  ELSE IF x.op \in {"&&", "||"} /\ (m.v.v = 1) = (x.op = "||")
  THEN [m EXCEPT !.v = Truth(x.op = "||")]
  ELSE LET r == ThenMeans(m, Means(x.a))
       IN IF r.stop THEN r
          ELSE LET v == calcPairValue(m.v, r.v, x.op) IN Meaning(v, r.calls, v = Trap)

(* The arguments in the order of GenFuncCall. *)
MeansArgs(as) ==
  LET num   == Len(as)
      order == [k \in 1..num |-> IF k <= num - 3 THEN num + 1 - k
                                 ELSE k - (IF num > 3 THEN num - 3 ELSE 0)]
      one(acc0, i) == IF acc0.stop THEN acc0
                      ELSE LET m == Means(as[i])
                           IN [calls |-> acc0.calls \o m.calls, stop |-> m.stop,
                               v |-> IF m.stop THEN m.v ELSE acc0.v,
                               args |-> [acc0.args EXCEPT ![i] = m.v]]
  IN FoldLeft(one, [calls |-> <<>>, stop |-> FALSE, v |-> Err(0),
                    args |-> [i \in 1..num |-> Err(0)]], order)

Means(n) ==
  CASE n.k = "lit" -> Meaning(SetValue(n.val), <<>>, FALSE)
    [] n.k = "var" -> Meaning(GetField(n.path), <<>>, FALSE)
    [] n.k = "dyn" -> Meaning(find_var_value(n.name), <<>>, FALSE)
    [] n.k = "un" -> LET m == Means(n.a) IN
                     IF m.stop \/ n.op = "+" THEN m
                     ELSE [m EXCEPT !.v = IF n.op = "!" THEN notValue(@) ELSE negValue(@)]
    [] n.k = "cond" -> LET c == Means(n.c) IN
                       IF c.stop THEN c ELSE IF ~IsBool(c.v) THEN GivenUp(c)
                       ELSE ThenMeans(c, IF c.v.v = 1 THEN Means(n.a) ELSE Means(n.b))
    [] n.k = "call" -> LET as == MeansArgs(n.args) IN
                       IF as.stop THEN Meaning(as.v, as.calls, TRUE)
                       ELSE Meaning(Call(n.f, as.args),
                                    Append(as.calls, [f |-> n.f, args |-> as.args]), FALSE)
    [] n.k = "expr" -> FoldLeft(MeansOperation, Means(n.first), n.rest)

-----------------------------------------------------------------------------
(* The code returns with the stack as it found it and the registers of its  *)
(* caller restored, whether it ran to its end or an operand of the wrong    *)
(* type sent it to .err_exit from inside other operands.                    *)
StackBalanced == phase = "done" => regs = Prologue /\ stack = <<>>

(* What the code computes is what the expression means, and the functions   *)
(* it called are the ones the meaning calls, in that order: a right operand *)
(* that && or || does not need is not evaluated (test FastAnd, FastOr).     *)
CodeMeansTree ==
  phase \in {"done", "trap"} => LET m == Means(tree) IN acc = m.v /\ calls = m.calls

(* The code and the interpreter of src/ssexpr give the same value whenever  *)
(* both give one, for expressions both have (no '%'), but for the unary     *)
(* minus, which the code does not apply.                                    *)
RECURSIVE Uses(_, _)
Uses(n, op) ==
  CASE n.k = "un" -> n.op = op \/ Uses(n.a, op)
    [] n.k = "cond" -> Uses(n.c, op) \/ Uses(n.a, op) \/ Uses(n.b, op)
    [] n.k = "call" -> \E i \in DOMAIN n.args : Uses(n.args[i], op)
    [] n.k = "expr" -> Uses(n.first, op) \/ \E i \in DOMAIN n.rest :
                                               n.rest[i].op = op \/ Uses(n.rest[i].a, op)
    [] OTHER -> FALSE

RECURSIVE Negates(_)
Negates(n) ==
  CASE n.k = "un" -> n.op = "-" \/ Negates(n.a)
    [] n.k = "cond" -> Negates(n.c) \/ Negates(n.a) \/ Negates(n.b)
    [] n.k = "call" -> \E i \in DOMAIN n.args : Negates(n.args[i])
    [] n.k = "expr" -> Negates(n.first) \/ \E i \in DOMAIN n.rest : Negates(n.rest[i].a)
    [] OTHER -> FALSE

SameKind == [V_BOOL_VALUE |-> "bool", V_INT64_VALUE |-> "int64", V_DOUBLE_VALUE |-> "double"]
AsInterpreted(a) ==
  LET b == normValue(a) IN
  CASE b.t = "V_BOOL_VALUE" -> Bool(b.v = 1)
    [] b.t \in Numeric -> Val(SameKind[b.t], b.v, b.x)
    [] b.t \in Strings -> Val("string", GetString(b).v, 1)
    [] OTHER -> Error(b.v)

AgreesWithInterpreter ==
  phase = "done" /\ ~Uses(tree, "%") /\ ~Negates(tree) /\ Initializer(tree) = 0
    => LET mine == AsInterpreted(acc) theirs == Interpreter(tree)
       IN mine.t # "Error" /\ theirs.t \notin {"Error", "ptr"} => mine = theirs
=============================================================================
