---------------------------- MODULE FrameUnwind ----------------------------
(***************************************************************************)
(* A thread calls functions, crashes, and the frame walker finds its way   *)
(* back through the frames, with the compact unwind reader, the DWARF      *)
(* reader and the frame pointer reader, in this order.                     *)
(*                                                                         *)
(* The functions, their prologues and the unwind information that the      *)
(* compiler and the linker wrote about them are the walker's environment.  *)
(* A function is a record of what its prologue does:                       *)
(*   info    what describes it: "frame", "immediate" or "indirect" (compact *)
(*           encodings), "dwarf", or nothing: "none", or "outside" of any   *)
(*           image                                                         *)
(*   framed  whether it sets up a frame pointer                            *)
(*   saved   the registers it pushes, by their numbers in the encodings, 0 *)
(*           for an unused word, and room the words of its locals           *)
(*   rule    a DWARF rule beside those for the pushed registers             *)
(***************************************************************************)
EXTENDS CompactUnwind, DwarfUnwind

CONSTANTS
    Programs,       \* sequences of functions, in the order of their addresses
    Layouts,        \* how the linker lays out the unwind sections
    MaxDepth,       \* bound: calls in progress
    StackTop,       \* the address above the stack
    StackSize,
    HeaderAddr,     \* where the image is mapped
    PageSize        \* PAGE_SIZE: below it lies nothing

FunctionSize == 3

\* The indexes of the words that a prologue pushes a register into.
Pushed(s) == Len(s.saved)
Used(s) == {i \in DOMAIN s.saved : s.saved[i] # 0}

\* What a function can be: no register is pushed twice; an encoding holds five words for a
\* frame, or a list of registers without gaps; a DWARF rule is only for what it is true of.
IsFunction(s) ==
    /\ s.info \in {"frame", "immediate", "indirect", "dwarf", "none", "outside"}
    /\ s.framed \in BOOLEAN /\ s.room \in Nat /\ s.saved \in Seq(0 .. RegisterMax)
    /\ s.rule \in {"none", "register", "same_value", "val_offset", "expression"}
    /\ \A i, j \in Used(s) : s.saved[i] = s.saved[j] => i = j
    /\ s.info = "frame" => s.framed /\ Pushed(s) <= 5
    /\ s.info \in {"immediate", "indirect"} =>
          ~ s.framed /\ Pushed(s) <= RegisterMax /\ Used(s) = DOMAIN s.saved
    /\ s.rule # "none" => s.info = "dwarf"
    /\ s.rule = "register" => 5 \in ToSet(s.saved)
    /\ s.rule = "same_value" => 1 \notin ToSet(s.saved)

\* A program has a function in the image, which ends before what is outside of it.
ASSUME ProgramAssumption ==
    /\ \A p \in Programs :
          /\ Len(p) \in Nat /\ DOMAIN p = 1 .. Len(p) /\ \A f \in DOMAIN p : IsFunction(p[f])
          /\ \E f \in DOMAIN p : p[f].info # "outside"
          /\ FunctionSize * (Len(p) + 1) <= HeaderAddr
    /\ \A l \in Layouts :
          /\ l.unwind_info \in BOOLEAN /\ l.frame_section \in BOOLEAN
          /\ l.split \in Nat \ {0} /\ l.common \in Nat /\ l.kinds \in [1 .. 2 -> {"regular", "compressed"}]

\* The stack lies between the NULL page and the image; what a register is used for is not
\* an address.
ASSUME UnwindAssumption ==
    /\ MaxDepth \in Nat \ {0}
    /\ {StackTop, StackSize, HeaderAddr, PageSize} \subseteq Nat
    /\ PageSize < StackTop - StackSize /\ StackTop < HeaderAddr
    /\ 8 * MaxDepth + RegisterMax < StackTop - StackSize

VARIABLES
    arch,
    functions,      \* the program
    layout,
    regs,           \* the registers of the running thread
    mem,            \* its stack
    callers,        \* for each call in progress the registers that the caller finds when
                    \* the callee returns; the first one is the outermost
    depth,          \* the cursor: depth, frame and prev_frame
    frame,
    prev_frame,
    walked,         \* history: the frames the cursor has returned
    reader,         \* which reader's turn it is; "none" while the cursor is not moving
    result          \* what the last step of the cursor returned

program == <<arch, functions, layout, regs, mem, callers>>
cursor == <<depth, frame, prev_frame, walked, reader, result>>
vars == <<program, cursor>>

Acc == [x86 |-> "EAX", x86_64 |-> "RAX"]
Registers == {"IP", "SP", Acc[arch]} \cup ToSet(map_register_name[arch])
NoState == [r \in {} |-> 0]

----------------------------------------------------------------------------
(* The compiler: addresses, prologues and unwind information.              *)

Functions == DOMAIN functions
Start(f) == IF functions[f].info = "outside" THEN 2 * HeaderAddr + FunctionSize * f
            ELSE HeaderAddr + FunctionSize * f
Body(f) == Start(f) + 1             \* the pc of a crash, after the prologue
ReturnTo(f) == Start(f) + 2         \* the pc after a call
InImage == {f \in Functions : functions[f].info # "outside"}
Addresses == UNION {Start(f) .. Start(f) + FunctionSize - 1 : f \in Functions}

\* A section of the image describes the function: the frame section, or the compact one
\* unless it only refers to the frame section.
HasInfo(f) ==
    \/ functions[f].info \notin {"none", "outside"} /\ layout.frame_section
    \/ functions[f].info \in {"frame", "immediate", "indirect"} /\ layout.unwind_info

Name(n) == map_register_name[arch][n]

\* The words from the stack pointer to the caller's, without a frame pointer.
FrameSize(s) == s.room + Pushed(s) + 1

Encoding(s) ==
    CASE s.info = "frame" ->
            [mode |-> "frame", offset |-> Pushed(s), registers |-> s.saved]
      [] s.info = "immediate" ->
            [mode |-> "immediate", size |-> FrameSize(s), adjust |-> 0, count |-> Pushed(s),
             permutation |-> register_encode(s.saved)]
      \* The room is subtracted by an instruction of the prologue.
      [] s.info = "indirect" ->
            [mode |-> "indirect", size |-> 0, adjust |-> Pushed(s) + 1, count |-> Pushed(s),
             permutation |-> register_encode(s.saved)]
      [] s.info = "dwarf" -> [mode |-> "dwarf", offset |-> 0]
      [] s.info = "none" -> [mode |-> "none"]

\* The distance of a pushed register from the CFA.
Slot(s, i) == (i - 1) - Pushed(s) - (IF s.framed THEN 2 ELSE 1)

Dwarf(r) == map_reg_to_dwarf(arch, r)
Rule(r, type, value) == <<[reg |-> r, rule |-> [type |-> type, value |-> value]]>>

\* The rules of a function's row, in no special order.
RowRules(s) ==
    LET type == IF s.rule = "expression" THEN "expression" ELSE "offset"
        words == SetToSeq(Used(s))
        pushed == [k \in DOMAIN words |->
            [reg |-> Dwarf(Name(s.saved[words[k]])), rule |-> [type |-> type, value |-> Slot(s, words[k])]]]
    IN pushed \o (IF s.framed THEN Rule(Dwarf("FP"), "offset", -2) ELSE <<>>)
       \o (CASE s.rule = "register" -> Rule(Dwarf(Name(1)), "register", Dwarf(Name(5)))
             [] s.rule = "same_value" -> Rule(Dwarf(Name(1)), "same_value", 0)
             [] s.rule = "val_offset" -> Rule(Dwarf("SP"), "val_offset", 0)
             [] s.rule = "expression" -> Rule(Dwarf("SP"), "val_expression", 0)
             [] s.rule = "none" -> <<>>)
       \o Rule(return_address_register[arch], "offset", -1)

Row(s) ==
    LET base == IF s.framed THEN [reg |-> Dwarf("FP"), off |-> 2]
                ELSE [reg |-> Dwarf("SP"), off |-> FrameSize(s)]
    IN [cfa |-> IF s.rule = "expression" THEN [type |-> "expression", breg |-> base]
                ELSE [type |-> "register", reg |-> base.reg, off |-> base.off],
        rules |-> RowRules(s)]

\* The k-th of a set of numbers, and all of them in order.
Kth(S, k) == CHOOSE x \in S : Cardinality({y \in S : y < x}) = k - 1
Ascending(S) == [k \in 1 .. Cardinality(S) |-> Kth(S, k)]

\* Pages of the functions from the a-th to the b-th: of the regular kind, and compressed,
\* where an encoding that is a common one has its position among these.
RegularPage(offset, encoding, a, b) ==
    [kind |-> "regular",
     entries |-> [k \in 1 .. b - a + 1 |-> [offset |-> offset[a + k - 1], encoding |-> encoding[a + k - 1]]]]

CompressedPage(common, offset, encoding, a, b) ==
    LET position(i) == IF encoding[i] \in ToSet(common)
                       THEN (CHOOSE c \in DOMAIN common : common[c] = encoding[i]) - 1
                       ELSE Len(common) + i - a
    IN [kind |-> "compressed",
        entries |-> [k \in 1 .. b - a + 1 |->
            [offset |-> offset[a + k - 1] - offset[a], encoding |-> position(a + k - 1)]],
        encodings |-> SubSeq(encoding, a, b)]

Page(kind, common, offset, encoding, a, b) ==
    IF kind = "regular" THEN RegularPage(offset, encoding, a, b)
    ELSE CompressedPage(common, offset, encoding, a, b)

\* The linker's unwind section: the functions of the image by their offsets, split into
\* pages after the split-th one; the encodings of the first few are common ones.
UnwindInfo ==
    LET order == Ascending(InImage)
        n == Cardinality(InImage)
        offset == [i \in 1 .. n |-> Start(order[i]) - HeaderAddr]
        encoding == [i \in 1 .. n |-> Encoding(functions[order[i]])]
        common == SubSeq(encoding, 1, IF layout.common < n THEN layout.common ELSE n)
        page(k, a, b) == Page(layout.kinds[k], common, offset, encoding, a, b)
        Index(i, k) == [offset |-> offset[i], page |-> k]
        sentinel == [offset |-> offset[n] + FunctionSize, page |-> 0]
    IN IF layout.split < n
       THEN [common |-> common, index |-> <<Index(1, 1), Index(layout.split + 1, 2), sentinel>>,
             pages |-> <<page(1, 1, layout.split), page(2, layout.split + 1, n)>>]
       ELSE [common |-> common, index |-> <<Index(1, 1), sentinel>>, pages |-> <<page(1, 1, n)>>]

\* The frame section, where there is one: without a compact section it describes every
\* function.
FrameSection ==
    LET described == {f \in InImage : /\ HasInfo(f)
                                      /\ functions[f].info = "dwarf" \/ ~ layout.unwind_info}
        order == Reverse(Ascending(described))
    IN <<[kind |-> "cie"]>> \o [i \in DOMAIN order |->
            [kind |-> "fde", start |-> Start(order[i]), end |-> Start(order[i]) + FunctionSize,
             row |-> Row(functions[order[i]])]] \o <<[kind |-> "end"]>>

\* What can be read: the stack, and in the code the operands of the prologues.
Memory == [a \in DOMAIN mem \cup {Start(f) : f \in InImage} |->
              IF a \in DOMAIN mem THEN mem[a]
              ELSE functions[CHOOSE f \in InImage : Start(f) = a].room]

----------------------------------------------------------------------------
(* The thread, until it crashes.                                           *)

Init ==
    /\ arch \in Architectures
    /\ functions \in Programs
    /\ layout \in Layouts
    /\ regs = [r \in Registers |-> IF r = "SP" THEN StackTop ELSE 0]
    /\ mem = [a \in StackTop - StackSize .. StackTop - 1 |-> 0]
    /\ callers = <<>>
    /\ depth = 0 /\ frame = NoState /\ prev_frame = NoState /\ walked = <<>>
    /\ reader = "none" /\ result = "running"

\* What a register holds after the function of the n-th call has used it: no address.
Fresh(n, r) ==
    8 * n + (IF r = Acc[arch] THEN 0 ELSE CHOOSE k \in 1 .. RegisterMax : Name(k) = r)

\* The running function, or the system's start-up code, calls f, whose prologue runs.
Call(f) ==
    LET s == functions[f]
        n == Len(callers) + 1
        retaddr == IF callers = <<>> THEN 0 ELSE regs["IP"] + 1
        at == regs["SP"] - 1
        base == IF s.framed THEN at - 1 ELSE at
        low == base - Pushed(s)
        pushed == {low + i - 1 : i \in Used(s)}
        copied == s.rule = "register"
        changed == {Name(s.saved[i]) : i \in Used(s)} \cup {Acc[arch]}
                   \cup (IF copied THEN {Name(1)} ELSE {})
    IN
    /\ result = "running"
    /\ n <= MaxDepth /\ low - s.room >= StackTop - StackSize
    /\ callers' = Append(callers, [regs EXCEPT !["IP"] = retaddr])
    /\ mem' = [a \in DOMAIN mem |->
                  CASE a = at -> retaddr
                    [] a = base /\ s.framed -> regs["FP"]
                    [] a \in pushed -> regs[Name(s.saved[a - low + 1])]
                    [] a \notin pushed \cup {at} /\ ~ (a = base /\ s.framed) -> mem[a]]
    /\ regs' = [r \in Registers |->
                  CASE r = "IP" -> Body(f)
                    [] r = "SP" -> low - s.room
                    [] r = "FP" /\ s.framed -> base
                    [] r = Name(5) /\ copied -> regs[Name(1)]
                    [] r \in changed /\ ~ (r = Name(5) /\ copied) /\ ~ (r = "FP" /\ s.framed) -> Fresh(n, r)
                    [] r \notin changed \cup {"IP", "SP"} /\ ~ (r = "FP" /\ s.framed) -> regs[r]]
    /\ UNCHANGED <<arch, functions, layout, cursor>>

\* The cursor is given the thread's state.
crash ==
    /\ result = "running" /\ callers # <<>>
    /\ frame' = regs
    /\ result' = "ESUCCESS"
    /\ UNCHANGED <<program, depth, prev_frame, walked, reader>>

----------------------------------------------------------------------------
(* The walker.                                                             *)

image_containing(pc) == HeaderAddr <= pc /\ pc < HeaderAddr + FunctionSize * (Len(functions) + 1)

\* The compact reader: ENOTSUP or ENOFRAME is all that becomes of the errors within.
read_compact_unwind ==
    LET pc == get_reg(frame, "IP")
        found == find_pc(UnwindInfo, pc - HeaderAddr)
        entry == entry_init(arch, found.encoding)
        applied == entry_apply(arch, Memory, HeaderAddr + found.function, frame, entry)
    IN IF ~ has_reg(frame, "IP") THEN Failed("EBADFRAME")
       ELSE IF ~ image_containing(pc) \/ ~ layout.unwind_info \/ ~ Succeeded(found)
       THEN Failed("ENOTSUP")
       ELSE IF entry.type = "NONE" \/ ~ Succeeded(applied) THEN Failed("ENOFRAME")
       ELSE applied

\* The DWARF reader, in an image that contains the pc.
read_dwarf_unwind_int(pc) ==
    LET found == find_fde(FrameSection, pc)
        applied == apply_state(arch, Memory, frame, found.row)
    IN IF ~ layout.frame_section THEN Failed("ENOFRAME")
       ELSE IF ~ Succeeded(found) THEN Failed("ENOTSUP")
       ELSE IF ~ Succeeded(applied) THEN Failed("ENOFRAME")
       ELSE applied

read_dwarf_unwind ==
    LET pc == get_reg(frame, "IP")
    IN IF ~ has_reg(frame, "IP") THEN Failed("EBADFRAME")
       ELSE IF ~ image_containing(pc) THEN Failed("ENOTSUP")
       ELSE read_dwarf_unwind_int(pc)

\* The frame pointer reader: of the new frame it knows two registers.
read_frame_ptr ==
    LET fp == get_reg(frame, "FP") IN
    IF ~ has_reg(frame, "FP") THEN Failed("EBADFRAME")
    ELSE IF fp = 0 THEN Failed("ENOFRAME")
    ELSE IF depth >= 2 /\ has_reg(prev_frame, "FP") /\ fp < get_reg(prev_frame, "FP") THEN Failed("EBADFRAME")
    ELSE IF ~ {fp, fp + 1} \subseteq DOMAIN Memory THEN Failed("EBADFRAME")
    ELSE Read([r \in {"FP", "IP"} |-> IF r = "FP" THEN Memory[fp] ELSE Memory[fp + 1]])

\* The first frame is the thread's own.
firstFrame ==
    /\ result = "ESUCCESS" /\ reader = "none" /\ depth = 0
    /\ depth' = 1
    /\ walked' = <<frame>>
    /\ UNCHANGED <<program, frame, prev_frame, reader, result>>

cursor_next ==
    /\ result = "ESUCCESS" /\ reader = "none" /\ depth > 0
    /\ reader' = "compact"
    /\ UNCHANGED <<program, depth, frame, prev_frame, walked, result>>

\* Fault: a pc on the NULL page does not end the walk.
FaultyTake(state) ==
    /\ reader' = "none"
    /\ prev_frame' = frame /\ frame' = state
    /\ depth' = depth + 1
    /\ walked' = Append(walked, state)
    /\ UNCHANGED result

\* A frame that was read is the next one, unless it has no pc or one on the NULL page.
takeFrame(state) ==
    /\ reader' = "none"
    /\ \/ /\ has_reg(state, "IP") /\ get_reg(state, "IP") > PageSize
          /\ prev_frame' = frame /\ frame' = state
          /\ depth' = depth + 1
          /\ walked' = Append(walked, state)
          /\ UNCHANGED result
       \/ /\ ~ (has_reg(state, "IP") /\ get_reg(state, "IP") > PageSize)
          /\ result' = "ENOFRAME"
          /\ UNCHANGED <<depth, frame, prev_frame, walked>>

\* A reader that fails leaves the frame to the next one; the last one's error is returned.
tryReader(r, read, next) ==
    /\ reader = r
    /\ \/ Succeeded(read) /\ takeFrame(read.state)
       \/ /\ ~ Succeeded(read)
          /\ reader' = next
          /\ result' = IF next = "none" THEN read.error ELSE result
          /\ UNCHANGED <<depth, frame, prev_frame, walked>>
    /\ UNCHANGED program

\* Fault: the frame pointer is tried before the frame section.
FaultyReaders ==
    \/ tryReader("compact", read_compact_unwind, "frame_ptr")
    \/ tryReader("frame_ptr", read_frame_ptr, "dwarf")
    \/ tryReader("dwarf", read_dwarf_unwind, "none")

next_with_readers ==
    \/ tryReader("compact", read_compact_unwind, "dwarf")
    \/ tryReader("dwarf", read_dwarf_unwind, "frame_ptr")
    \/ tryReader("frame_ptr", read_frame_ptr, "none")

Next ==
    \/ \E f \in Functions : Call(f)
    \/ crash
    \/ firstFrame \/ cursor_next \/ next_with_readers

Spec == Init /\ [][Next]_vars

----------------------------------------------------------------------------
(* Properties.                                                             *)

IsState(s) == DOMAIN s \subseteq Registers /\ \A r \in DOMAIN s : s[r] \in Int

\* Every frame the cursor returns has a pc, in a function of the program.
TypeOK ==
    /\ arch \in Architectures
    /\ DOMAIN regs = Registers /\ IsState(regs)
    /\ \A a \in DOMAIN mem : mem[a] \in Int
    /\ Len(callers) <= MaxDepth
    /\ IsState(frame) /\ IsState(prev_frame)
    /\ depth = Len(walked)
    /\ \A k \in DOMAIN walked : IsState(walked[k]) /\ "IP" \in DOMAIN walked[k]
                                /\ walked[k]["IP"] \in Addresses
    /\ reader \in {"none", "compact", "dwarf", "frame_ptr"}
    /\ result \in {"running", "ESUCCESS", "ENOFRAME", "EBADFRAME"}

\* What the registers of a frame should be: those the callee would have returned with.
IsCaller(state, n) == \A r \in DOMAIN state : state[r] = callers[n][r]

\* The caller that a walked frame is: the innermost one that it can be.
Caller ==
    LET at[k \in 1 .. Len(walked)] ==
            IF k = 1 THEN Len(callers) + 1
            ELSE LET fits == {n \in 1 .. at[k - 1] - 1 : IsCaller(walked[k], n)}
                 IN Max({0} \cup fits)
    IN at

\* The frames of the report are real ones, from the inside out: each is a caller farther
\* out than the one before, and each of its registers that is valid has the value with
\* which its callee would have returned.
FramesAreReal == \A k \in 2 .. Len(walked) : Caller[k] > 0

\* With unwind information about all of them, no frame is left out: the walk ends at the
\* outermost function.
RunningFunctions ==
    {f \in Functions : \/ regs["IP"] = Body(f)
                       \/ \E n \in 2 .. Len(callers) : callers[n]["IP"] = ReturnTo(f)}
NoFrameIsMissing ==
    (result \notin {"running", "ESUCCESS"} /\ \A f \in RunningFunctions : HasInfo(f))
        => Len(walked) = Len(callers) /\ result = "ENOFRAME"

\* The unwind section is written once and for all: it is looked at before the first call.
\* The search in the pages of the unwind section finds, for every pc in the image, the
\* function that it is in and its own encoding, wherever the linker cuts the pages.
LookupFindsTheFunction ==
    callers = <<>> =>
        \A f \in InImage : \A pc \in Start(f) .. Start(f) + FunctionSize - 1 :
            LET found == find_pc(UnwindInfo, pc - HeaderAddr) IN
            /\ Succeeded(found)
            /\ HeaderAddr + found.function = Start(f)
            /\ found.encoding = Encoding(functions[f])

\* Every list of saved registers is read back as it was written.
RegistersRoundTrip ==
    \A f \in Functions :
        functions[f].info \in {"immediate", "indirect"} =>
            entry_init(arch, Encoding(functions[f])).register_list
                = [i \in DOMAIN functions[f].saved |-> Name(functions[f].saved[i])]
=============================================================================
