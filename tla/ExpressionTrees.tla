--------------------------- MODULE ExpressionTrees ---------------------------
(***************************************************************************)
(* What the evaluator is for: a compiler turns an expression, here a tree, *)
(* into a DWARF program, and evaluating the program must give the value of *)
(* the tree.  The value of a tree is defined without a stack.              *)
(*                                                                         *)
(* Division and the order comparisons have two readings.  The comment      *)
(* before plcrash_async_dwarf_expression_eval cites DWARF 4, section 2.5,  *)
(* where they are signed; the evaluator computes them on unsigned machine  *)
(* words.  The constant Reading says which one the value of a tree takes.  *)
(***************************************************************************)
EXTENDS DwarfExpression

CONSTANTS
    Trees,          \* the expressions
    Height,         \* how deep the operands of an expression are nested
    Err,            \* the value of an expression that has none
    Reading         \* "signed", the standard's, or "unsigned", the evaluator's

\* u is an operand of t: any expression but a program that no compiler emits.
Operand(u, t) == u \in Trees /\ Height[u] < Height[t] /\ u.kind # "malformed"

IsLeaf(i) == i \in Instructions /\ i.op \in {"const", "breg", "bregx", "unsupported"}

IsTree(t) ==
    \/ t.kind = "leaf" /\ IsLeaf(t.leaf)
    \/ t.kind = "malformed" /\ t.code \in Seq(Instructions)
    \/ t.kind = "unary" /\ t.op \in UnaryOps /\ Operand(t.a, t)
    \/ t.kind = "uconst" /\ t.n \in Int /\ Operand(t.a, t)
    \/ t.kind \in {"load", "farLoad"} /\ Operand(t.a, t)
    \/ t.kind \in {"loadSize", "farLoadSize"} /\ t.n \in Nat /\ Operand(t.a, t)
    \/ t.kind \in {"binary", "reversed", "over"} /\ t.op \in BinaryOps
       /\ Operand(t.a, t) /\ Operand(t.b, t)
    \/ t.kind = "twice" /\ t.op \in BinaryOps /\ Operand(t.a, t)
    \/ t.kind = "first" /\ Operand(t.a, t) /\ Operand(t.b, t)
    \/ t.kind = "rot" /\ t.op \in BinaryOps
       /\ Operand(t.a, t) /\ Operand(t.b, t) /\ Operand(t.c, t)
    \/ t.kind = "if" /\ Operand(t.a, t) /\ Operand(t.b, t) /\ Operand(t.c, t)

ASSUME TreesAssumption ==
    /\ Err \notin Word
    /\ Reading \in {"signed", "unsigned"}
    /\ Height \in [Trees -> Nat]
    /\ \A t \in Trees : IsTree(t)

VARIABLE tree

treeVars == <<tree, vars>>

op0(o) == <<[op |-> o]>>
op1(o, a) == <<[op |-> o, arg |-> a]>>

\* The program of a tree, as compilers emit it, from those of its operands: the operands
\* in order, then the operation; the other shapes use an operand twice or in another order.
CompileOf(code, t) ==
    CASE t.kind = "leaf" -> <<t.leaf>>
      [] t.kind = "malformed" -> t.code
      [] t.kind = "unary" -> code[t.a] \o op0(t.op)
      [] t.kind = "uconst" -> code[t.a] \o op1("plus_uconst", t.n)
      [] t.kind = "load" -> code[t.a] \o op0("deref")
      [] t.kind = "loadSize" -> code[t.a] \o op1("deref_size", t.n)
      [] t.kind = "farLoad" -> op1("const", 1) \o code[t.a] \o op0("xderef")
      [] t.kind = "farLoadSize" -> op1("const", 1) \o code[t.a] \o op1("xderef_size", t.n)
      [] t.kind = "binary" -> code[t.a] \o code[t.b] \o op0(t.op)
      [] t.kind = "reversed" -> code[t.b] \o code[t.a] \o op0("swap") \o op0(t.op)
      [] t.kind = "twice" -> code[t.a] \o op0("dup") \o op0(t.op)
      [] t.kind = "first" -> code[t.a] \o code[t.b] \o op0("drop") \o op0("nop")
      [] t.kind = "over" -> code[t.a] \o code[t.b] \o op1("pick", 1)
                            \o op0("minus") \o op0(t.op)
      [] t.kind = "rot" -> code[t.a] \o code[t.b] \o code[t.c]
                           \o op0("rot") \o op0("minus") \o op0(t.op)
      [] t.kind = "if" ->
            code[t.a] \o op1("bra", Len(code[t.c]) + 1)
            \o code[t.c] \o op1("skip", Len(code[t.b])) \o code[t.b]

Compile[t \in Trees] == CompileOf(Compile, t)

\* The values of f, a function of one word or of two in turn, where each operand has one;
\* Err where one has none.
Lift1(A, f) == UNION {IF v = Err THEN {Err} ELSE f[v] : v \in A}
Lift2(A, B, f) == Lift1(A, [v \in Word |-> Lift1(B, f[v])])

\* The operations DWARF 4, section 2.5.1, defines on signed numbers.
SignedOps == {"div", "le", "ge", "lt", "gt"}

\* The number a word stands for in them.
Number(v) == IF Reading = "signed" THEN Signed(v) ELSE v

\* The quotient of two numbers, cut off towards zero as a C division does.
Ratio(m, n) ==
    IF m >= 0 THEN IF n > 0 THEN m \div n ELSE -(m \div (-n))
    ELSE IF n > 0 THEN -((-m) \div n) ELSE (-m) \div (-n)

\* The meaning of an operation on words, on the integers they stand for.
Apply(op, v, w) ==
    IF op \in {"div", "mod"} /\ w = 0 THEN {Err}
    ELSE IF op \in {"shl", "shr", "shra"} /\ w >= Width THEN Binary(op, v, w)
    ELSE {CASE op = "minus" -> (v + 2 ^ Width - w) % 2 ^ Width
            [] op = "plus"  -> (v + w) % 2 ^ Width
            [] op = "mul"   -> (v * w) % 2 ^ Width
            [] op = "div"   -> Ratio(Number(v), Number(w)) % 2 ^ Width
            [] op = "mod"   -> v - w * (v \div w)
            [] op = "shl"   -> (v * 2 ^ w) % 2 ^ Width
            [] op = "shr"   -> v \div 2 ^ w
            [] op = "shra"  -> (Signed(v) \div 2 ^ w) % 2 ^ Width
            [] op = "and"   -> CHOOSE x \in Word : \A i \in 0 .. Width - 1 :
                                  Bit(x, i) = 1 <=> Bit(v, i) = 1 /\ Bit(w, i) = 1
            [] op = "or"    -> CHOOSE x \in Word : \A i \in 0 .. Width - 1 :
                                  Bit(x, i) = 1 <=> Bit(v, i) = 1 \/ Bit(w, i) = 1
            [] op = "xor"   -> CHOOSE x \in Word : \A i \in 0 .. Width - 1 :
                                  Bit(x, i) = 1 <=> Bit(v, i) # Bit(w, i)
            [] op = "eq" -> Truth(v = w)  [] op = "ne" -> Truth(~ v = w)
            [] op = "lt" -> Truth(Number(v) < Number(w))
            [] op = "le" -> Truth(~ Number(w) < Number(v))
            [] op = "gt" -> Truth(Number(w) < Number(v))
            [] op = "ge" -> Truth(~ Number(v) < Number(w))}

LoadValue(A, size) ==
    Lift1(A, [v \in Word |-> {IF v \in DOMAIN Memory /\ size \in Sizes
                              THEN Memory[v] % 2 ^ (ByteWidth * size) ELSE Err}])

\* The values a tree may have, from those of its operands.
ValuesOf(value, t) ==
    CASE t.kind = "leaf" /\ t.leaf.op = "const" -> {t.leaf.arg % 2 ^ Width}
      [] t.kind = "leaf" /\ t.leaf.op \in {"breg", "bregx"} ->
            {IF RegValue[t.leaf.arg.reg] \in Word
             THEN (RegValue[t.leaf.arg.reg] + t.leaf.arg.off) % 2 ^ Width ELSE Err}
      [] t.kind = "leaf" /\ t.leaf.op = "unsupported" -> {Err}
      [] t.kind = "malformed" -> {Err}
      [] t.kind = "unary" ->
            Lift1(value[t.a], [v \in Word |->
                {CASE t.op = "abs" -> IF Signed(v) < 0 THEN 2 ^ Width - v ELSE v
                   [] t.op = "neg" -> (2 ^ Width - v) % 2 ^ Width
                   [] t.op = "not" -> (2 ^ Width - 1) - v}])
      [] t.kind = "uconst" -> Lift1(value[t.a], [v \in Word |-> {(v + t.n) % 2 ^ Width}])
      [] t.kind \in {"load", "farLoad"} -> LoadValue(value[t.a], WordSize)
      [] t.kind \in {"loadSize", "farLoadSize"} -> LoadValue(value[t.a], t.n)
      [] t.kind \in {"binary", "reversed"} ->
            Lift2(value[t.a], value[t.b], [v \in Word |-> [w \in Word |-> Apply(t.op, v, w)]])
      [] t.kind = "twice" -> Lift1(value[t.a], [v \in Word |-> Apply(t.op, v, v)])
      [] t.kind = "first" -> Lift2(value[t.a], value[t.b], [v \in Word |-> [w \in Word |-> {v}]])
      [] t.kind = "over" ->
            Lift2(value[t.a], value[t.b], [v \in Word |-> [w \in Word |->
                Lift1(Apply("minus", w, v), [d \in Word |-> Apply(t.op, v, d)])]])
      [] t.kind = "rot" ->
            Lift2(value[t.a], value[t.b], [v \in Word |-> [w \in Word |->
                Lift2(Apply("minus", v, w), value[t.c],
                      [d \in Word |-> [x \in Word |-> Apply(t.op, x, d)]])]])
      [] t.kind = "if" ->
            Lift1(value[t.a], [v \in Word |-> IF v # 0 THEN value[t.b] ELSE value[t.c]])

Values[t \in Trees] == ValuesOf(Values, t)

Larger(m, n) == IF m > n THEN m ELSE n

\* The stack entries the program of a tree needs.
NeedOf(need, t) ==
    CASE t.kind \in {"leaf", "malformed"} -> 1
      [] t.kind \in {"unary", "uconst", "load", "loadSize"} -> need[t.a]
      [] t.kind \in {"farLoad", "farLoadSize"} -> 1 + need[t.a]
      [] t.kind \in {"binary", "first"} -> Larger(need[t.a], 1 + need[t.b])
      [] t.kind = "reversed" -> Larger(need[t.b], 1 + need[t.a])
      [] t.kind = "twice" -> Larger(need[t.a], 2)
      [] t.kind = "over" -> Larger(Larger(need[t.a], 1 + need[t.b]), 3)
      [] t.kind = "rot" -> Larger(Larger(need[t.a], 1 + need[t.b]), 2 + need[t.c])
      [] t.kind = "if" -> Larger(need[t.a], Larger(need[t.b], need[t.c]))

Need[t \in Trees] == NeedOf(Need, t)

\* The program has such an instruction.
Uses(p, op) == \E k \in 1 .. Len(p) : p[k].op = op

TreeInit == \E t \in Trees : tree = t /\ Start(Compile[t])

TreeSpec == TreeInit /\ [][Next /\ UNCHANGED tree]_treeVars /\ WF_treeVars(Next /\ UNCHANGED tree)

----------------------------------------------------------------------------
(* Properties.                                                             *)

\* The program of an expression evaluates to a value of the expression and leaves what
\* initial_state had put on the stack, or fails where there is no value or the stack is
\* too small; never does it end with another value.
ExpressionValue ==
    /\ status = "ESUCCESS" => result \in Values[tree] /\ stack = InitialStack
    /\ status \in Errors => Err \in Values[tree] \/ Len(InitialStack) + Need[tree] > StackSize

\* The two readings give the program one meaning, or the evaluator's is the one taken.
ReadAlike(p) == Reading = "signed" => \A o \in SignedOps : ~ Uses(p, o)

\* Where the evaluator computes what a compiler meant.  A bregx pushes twice, an over on
\* a full stack goes on without the copy, and the standard's division and order comparisons
\* are signed where the evaluator's are not: with Reading <- "signed" ExpressionValue is
\* violated, by a division of or an order comparison with a negative number.
Exact ==
    /\ tree.kind # "malformed"
    /\ ~ Uses(program, "bregx")
    /\ ReadAlike(program)
    /\ Uses(program, "pick") => Len(InitialStack) + Need[tree] <= StackSize

\* The program of an expression, which only branches forward, comes to its end: the
\* crash handler that evaluates it goes on.
EvaluationEnds == <>(status # "running")
=============================================================================
