-------------------------- MODULE MCExpressionTrees --------------------------
EXTENDS ExpressionTrees, TLC

CONSTANTS r0, r1, r2    \* registers: one with a value, one without, one unmapped

MCRegValue == (r0 :> 5) @@ (r1 :> Missing) @@ (r2 :> Unsupported)
MCMemory == [a \in {1, 4} |-> IF a = 1 THEN 14 ELSE 3]

Leaf(o, a) == [kind |-> "leaf", leaf |-> [op |-> o, arg |-> a]]
Breg(r, n) == Leaf("breg", [reg |-> r, off |-> n])

Leaves == {Leaf("const", n) : n \in {0, 3, 17, -3}} \cup {Breg(r0, -1)}
BadLeaves == {Breg(r1, 0), Breg(r2, 0), [kind |-> "leaf", leaf |-> [op |-> "unsupported"]]}

Unaries(A) ==
    [kind : {"unary"}, op : UnaryOps, a : A]
    \cup [kind : {"uconst"}, n : {2}, a : A]
    \cup [kind : {"load", "farLoad"}, a : A]
    \cup [kind : {"loadSize", "farLoadSize"}, n : 0 .. 3, a : A]

Binaries(A, B) ==
    [kind : {"binary", "reversed"}, op : BinaryOps, a : A, b : B]
    \cup [kind : {"first"}, a : A, b : B]

Flat == Binaries(Leaves, Leaves)
Some == [kind : {"binary"}, op : {"minus", "div", "lt"}, a : Leaves, b : Leaves]

\* Programs that no compiler emits; all of them fail.
Const(n) == [op |-> "const", arg |-> n]
Op(o) == [op |-> o]
Op1(o, a) == [op |-> o, arg |-> a]
BregX(r) == Op1("bregx", [reg |-> r, off |-> 0])
Full == <<Const(1), Const(1), Const(1)>>

Malformed ==
    {<<Op("drop"), Op(o)>> : o \in UnaryOps \cup BinaryOps \cup {"dup", "drop", "deref"}}
    \cup {<<Op(o)>> : o \in BinaryOps \cup {"swap", "rot", "xderef", "drop"}}
    \cup {<<Op("drop"), Op1(o, 1)>> : o \in {"plus_uconst", "bra", "deref_size"}}
    \cup {<<Op1(o, 1)>> : o \in {"pick", "xderef_size", "skip", "bra"}}
    \cup {<<Op1("skip", -2)>>, <<Const(0), Const(1), Op1("bra", -9)>>}
    \cup {Append(Full, i) : i \in {Const(1), Op("dup"), BregX(r0),
                            Op1("breg", [reg |-> r0, off |-> 0])}}
    \cup {Full \o <<Op1("pick", 0), Op("unsupported")>>, <<Const(1), Const(1), BregX(r0)>>}
    \cup {<<BregX(r), Op("unsupported")>> : r \in {r0, r1, r2}}

MCTrees ==
    [kind : {"malformed"}, code : Malformed] \cup Leaves \cup BadLeaves \cup Unaries(Leaves \cup Flat) \cup Flat
    \cup Binaries(Leaves, BadLeaves) \cup Binaries(Some, Leaves) \cup Binaries(Leaves, Some)
    \cup [kind : {"twice"}, op : {"mul", "minus"}, a : Leaves \cup Flat]
    \cup [kind : {"over"}, op : {"minus", "shl"}, a : Leaves \cup Some, b : Leaves \cup Some]
    \cup [kind : {"rot"}, op : {"minus", "gt"}, a : Leaves, b : Leaves, c : Leaves \cup Some]
    \cup [kind : {"if"}, a : Leaves \cup Some, b : Leaves \cup Some, c : Leaves]

\* Operands nest at most twice.
MCHeight ==
    LET Flattest == Leaves \cup BadLeaves \cup [kind : {"malformed"}, code : Malformed]
    IN [t \in MCTrees |-> IF t \in Flattest THEN 0 ELSE IF t \in Flat THEN 1 ELSE 2]

\* Expressions with a register whose number needs a bregx.
MCRegisterTrees == Binaries(Leaves, {Leaf("bregx", [reg |-> r0, off |-> 1])})

MCInitialStack == <<7>>
=============================================================================
