--------------------------- MODULE DwarfExpression ---------------------------
(***************************************************************************)
(* apigee_plcrash_async_dwarf_expression_eval: the stack machine that      *)
(* computes a frame's address, or the place or value of a register, from a *)
(* DWARF expression.                                                       *)
(*                                                                         *)
(* Words have Width bits.  A program is a sequence of instructions, and a  *)
(* branch counts instructions, not bytes.                                  *)
(***************************************************************************)
EXTENDS Integers, Sequences

CONSTANTS
    Width,          \* bits of machine_ptr
    ByteWidth,      \* bits of a byte
    StackSize,      \* the S of dwarf_stack<T, S>, 100
    RegValue,       \* the thread state: the word of each register, or ...
    Unsupported,    \* ... that no such register is mapped,
    Missing,        \* ... that the frame has no value for it
    Memory,         \* the words of the addresses that can be read
    Programs,       \* the expressions to evaluate
    InitialStack    \* initial_state

Word == 0 .. 2 ^ Width - 1

UnaryOps == {"abs", "neg", "not"}
BinaryOps == {"and", "or", "xor", "div", "mod", "minus", "mul", "plus", "shl", "shr",
              "shra", "le", "ge", "eq", "lt", "gt", "ne"}

\* An opcode with its operand: a register and an offset, a constant, an index, a size
\* or the distance of a branch.
Instructions ==
    [op : UnaryOps \cup BinaryOps \cup {"dup", "drop", "swap", "rot", "deref", "xderef", "nop",
                                       "unsupported"}]
    \cup [op : {"const", "plus_uconst", "skip", "bra"}, arg : Int]
    \cup [op : {"pick", "deref_size", "xderef_size"}, arg : Nat]
    \cup [op : {"breg", "bregx"}, arg : [reg : DOMAIN RegValue, off : Int]]

ASSUME ExpressionAssumption ==
    /\ Width \in Nat \ {0} /\ ByteWidth \in 1 .. Width
    /\ Width \div ByteWidth \in {1, 2, 4, 8}
    /\ Unsupported \notin Word /\ Missing \notin Word /\ Unsupported # Missing
    /\ StackSize \in Nat \ {0}
    /\ DOMAIN Memory \subseteq Word
    /\ \A a \in DOMAIN Memory : Memory[a] \in Word
    /\ \A r \in DOMAIN RegValue : RegValue[r] \in Word \cup {Unsupported, Missing}
    /\ Programs \subseteq Seq(Instructions)
    /\ InitialStack \in Seq(Word) /\ Len(InitialStack) <= StackSize

VARIABLES program, ip, stack, status, result

vars == <<program, ip, stack, status, result>>

Errors == {"EINVAL", "EINTERNAL", "ENOTSUP", "ENOTFOUND"}

TypeOK ==
    /\ program \in Seq(Instructions)
    /\ ip \in 0 .. Len(program)
    /\ stack \in Seq(Word) /\ Len(stack) <= StackSize
    /\ status \in {"running", "ESUCCESS"} \cup Errors
    /\ result \in Word

Start(p) ==
    /\ program = p
    /\ ip = 0
    /\ stack = InitialStack
    /\ status = "running"
    /\ result = 0

Init == \E p \in Programs : Start(p)

----------------------------------------------------------------------------
(* Words.                                                                  *)

Wrap(n) == n % 2 ^ Width
Signed(v) == IF v < 2 ^ (Width - 1) THEN v ELSE v - 2 ^ Width
Bit(v, i) == (v \div 2 ^ i) % 2
\* The word with the bits that are given.
FromBits(bit) == CHOOSE x \in Word : \A i \in 0 .. Width - 1 : Bit(x, i) = bit[i]
Truth(b) == IF b THEN 1 ELSE 0

\* A shift by Width or more is undefined: the shifters of the processors take the
\* count modulo Width or shift everything out.
Shifts(Shift(_), out, by) == IF by < Width THEN {Shift(by)} ELSE {Shift(by % Width), out}

\* The outcomes of an operation on the value v below the top of the stack and the
\* top w.  Only shra and the divisor are signed, and the divisor is converted back.
Binary(op, v, w) ==
    CASE op = "and"   -> {FromBits([i \in 0 .. Width - 1 |-> Bit(v, i) * Bit(w, i)])}
      [] op = "or"    -> {FromBits([i \in 0 .. Width - 1 |->
                                   Bit(v, i) + Bit(w, i) - Bit(v, i) * Bit(w, i)])}
      [] op = "xor"   -> {FromBits([i \in 0 .. Width - 1 |-> (Bit(v, i) + Bit(w, i)) % 2])}
      [] op = "div"   -> {v \div w}
      [] op = "mod"   -> {v % w}
      [] op = "minus" -> {Wrap(v - w)}
      [] op = "mul"   -> {Wrap(v * w)}
      [] op = "plus"  -> {Wrap(v + w)}
      [] op = "shl"   -> Shifts(LAMBDA n : Wrap(v * 2 ^ n), 0, w)
      [] op = "shr"   -> Shifts(LAMBDA n : v \div 2 ^ n, 0, w)
      [] op = "shra"  -> Shifts(LAMBDA n : Wrap(Signed(v) \div 2 ^ n),
                                Wrap(IF Signed(v) < 0 THEN -1 ELSE 0), w)
      [] op = "le"    -> {Truth(v <= w)}
      [] op = "ge"    -> {Truth(v >= w)}
      [] op = "eq"    -> {Truth(v = w)}
      [] op = "lt"    -> {Truth(v < w)}
      [] op = "gt"    -> {Truth(v > w)}
      [] op = "ne"    -> {Truth(v # w)}

Unary(op, v) ==
    CASE op = "abs" -> IF Signed(v) < 0 THEN Wrap(-Signed(v)) ELSE v
      [] op = "neg" -> Wrap(0 - Signed(v))
      [] op = "not" -> 2 ^ Width - 1 - v

----------------------------------------------------------------------------
(* The stack: dwarf_stack.                                                 *)

depth == Len(stack)
\* The entry with that many entries above it.
peek(index) == stack[depth - index]
\* What is left below the topmost n entries.
Below(n) == SubSeq(stack, 1, depth - n)

Instruction(op) == /\ status = "running"
                   /\ ip < Len(program)
                   /\ program[ip + 1].op = op

arg == program[ip + 1].arg

Continue(s) == /\ stack' = s
               /\ ip' = ip + 1
               /\ UNCHANGED <<program, status, result>>

Fail(e) == /\ status' = e
           /\ UNCHANGED <<program, ip, stack, result>>

\* Fault: the size of the stack is not tested.
FaultyPush(s, v) == Continue(Append(s, v))

\* dw_expr_push on what is left of the stack.
push(s, v) == \/ Len(s) < StackSize /\ Continue(Append(s, v))
              \/ Len(s) = StackSize /\ Fail("EINTERNAL")

----------------------------------------------------------------------------
(* The opcodes.                                                            *)

\* lit0 to lit31, const1u to const8s, constu and consts.
constant == Instruction("const") /\ push(stack, Wrap(arg))

RegisterFails(r) == \/ RegValue[r] = Unsupported /\ Fail("ENOTSUP")
                    \/ RegValue[r] = Missing /\ Fail("ENOTFOUND")

\* breg0 to breg31: a register and an offset.
breg ==
    /\ Instruction("breg")
    /\ \/ RegisterFails(arg.reg)
       \/ RegValue[arg.reg] \in Word /\ push(stack, Wrap(RegValue[arg.reg] + arg.off))

\* The case of bregx ends without a break: what was pushed is duplicated.
bregx ==
    LET v == Wrap(RegValue[arg.reg] + arg.off) IN
    /\ Instruction("bregx")
    /\ \/ RegisterFails(arg.reg)
       \/ /\ RegValue[arg.reg] \in Word
          /\ \/ depth = StackSize /\ Fail("EINTERNAL")
             \/ depth + 1 = StackSize /\ Fail("EINVAL")
             \/ depth + 1 < StackSize /\ Continue(stack \o <<v, v>>)

dup ==
    /\ Instruction("dup")
    /\ \/ depth \in {0, StackSize} /\ Fail("EINVAL")
       \/ depth \in 1 .. StackSize - 1 /\ Continue(Append(stack, peek(0)))

drop ==
    /\ Instruction("drop")
    /\ \/ depth = 0 /\ Fail("EINVAL")
       \/ depth > 0 /\ Continue(Below(1))

\* pick, and over which picks 1.  A push on a full stack fails unnoticed.
pick ==
    /\ Instruction("pick")
    /\ \/ depth <= arg /\ Fail("EINVAL")
       \/ depth > arg /\ Continue(IF depth = StackSize THEN stack
                                  ELSE Append(stack, peek(arg)))

\* Entries popped one by one before there turn out to be too few do not matter: the
\* evaluation ends.
swap ==
    /\ Instruction("swap")
    /\ \/ depth < 2 /\ Fail("EINVAL")
       \/ depth >= 2 /\ Continue(Below(2) \o <<peek(0), peek(1)>>)

\* Fault: the entries are rotated the other way.
FaultyRotate ==
    /\ Instruction("rot")
    /\ \/ depth < 3 /\ Fail("EINVAL")
       \/ depth >= 3 /\ Continue(Below(3) \o <<peek(1), peek(0), peek(2)>>)

rotate ==
    /\ Instruction("rot")
    /\ \/ depth < 3 /\ Fail("EINVAL")
       \/ depth >= 3 /\ Continue(Below(3) \o <<peek(0), peek(2), peek(1)>>)

\* A word read from memory, or its low order bytes; below has room for it.
Load(below, address, size) ==
    IF address \in DOMAIN Memory
    THEN Continue(Append(below, Memory[address] % 2 ^ (ByteWidth * size)))
    ELSE Fail("EINVAL")

WordSize == Width \div ByteWidth

deref ==
    /\ Instruction("deref")
    /\ \/ depth = 0 /\ Fail("EINTERNAL")
       \/ depth > 0 /\ Load(Below(1), peek(0), WordSize)

\* The address space below the address is swapped to the top and dropped.
xderef ==
    /\ Instruction("xderef")
    /\ \/ depth < 2 /\ Fail("EINVAL")
       \/ depth >= 2 /\ Load(Below(2), peek(0), WordSize)

Sizes == {n \in 1 .. WordSize : n \in {1, 2, 4, 8}}

deref_size ==
    /\ Instruction("deref_size")
    /\ \/ arg \notin Sizes /\ Fail("EINVAL")
       \/ arg \in Sizes /\ depth = 0 /\ Fail("EINTERNAL")
       \/ arg \in Sizes /\ depth > 0 /\ Load(Below(1), peek(0), arg)

xderef_size ==
    /\ Instruction("xderef_size")
    /\ \/ depth < 2 /\ Fail("EINVAL")
       \/ depth >= 2 /\ arg \notin Sizes /\ Fail("EINVAL")
       \/ depth >= 2 /\ arg \in Sizes /\ Load(Below(2), peek(0), arg)

unary(op) ==
    /\ Instruction(op)
    /\ \/ depth = 0 /\ Fail("EINTERNAL")
       \/ depth > 0 /\ Continue(Append(Below(1), Unary(op, peek(0))))

binary(op) ==
    /\ Instruction(op)
    /\ \/ depth < 2 /\ Fail("EINTERNAL")
       \/ depth >= 2 /\ op \in {"div", "mod"} /\ peek(0) = 0 /\ Fail("EINVAL")
       \/ /\ depth >= 2
          /\ ~ (op \in {"div", "mod"} /\ peek(0) = 0)
          /\ \E v \in Binary(op, peek(1), peek(0)) : Continue(Append(Below(2), v))

plus_uconst ==
    /\ Instruction("plus_uconst")
    /\ \/ depth = 0 /\ Fail("EINTERNAL")
       \/ depth > 0 /\ Continue(Append(Below(1), Wrap(arg + peek(0))))

\* Fault: the distance is taken in the other direction.
FaultyJump(s) ==
    LET to == ip + 1 - arg IN
    \/ /\ to \in 0 .. Len(program)
       /\ ip' = to
       /\ stack' = s
       /\ UNCHANGED <<program, status, result>>
    \/ to \notin 0 .. Len(program) /\ Fail("EINVAL")

\* opstream.skip, from the instruction after the branch.
Jump(s) ==
    LET to == ip + 1 + arg IN
    \/ /\ to \in 0 .. Len(program)
       /\ ip' = to
       /\ stack' = s
       /\ UNCHANGED <<program, status, result>>
    \/ to \notin 0 .. Len(program) /\ Fail("EINVAL")

skip == Instruction("skip") /\ Jump(stack)

bra ==
    /\ Instruction("bra")
    /\ \/ depth = 0 /\ Fail("EINTERNAL")
       \/ depth > 0 /\ peek(0) # 0 /\ Jump(Below(1))
       \/ depth > 0 /\ peek(0) = 0 /\ Continue(Below(1))

nop == Instruction("nop") /\ Continue(stack)

\* fbreg, the calls, push_object_address, form_tls_address and any other opcode.
unsupported == Instruction("unsupported") /\ Fail("ENOTSUP")

\* There is no opcode left: the result is popped.
finish ==
    /\ status = "running" /\ ip = Len(program)
    /\ \/ /\ depth > 0
          /\ status' = "ESUCCESS"
          /\ result' = peek(0)
          /\ stack' = Below(1)
          /\ UNCHANGED <<program, ip>>
       \/ depth = 0 /\ Fail("EINVAL")

----------------------------------------------------------------------------
Next ==
    \/ constant \/ breg \/ bregx
    \/ dup \/ drop \/ pick \/ swap \/ rotate
    \/ deref \/ xderef \/ deref_size \/ xderef_size
    \/ \E op \in UnaryOps : unary(op)
    \/ \E op \in BinaryOps : binary(op)
    \/ plus_uconst
    \/ skip \/ bra \/ nop \/ unsupported
    \/ finish

Spec == Init /\ [][Next]_vars /\ WF_vars(Next)
=============================================================================
