--------------------------- MODULE CompactUnwind ---------------------------
(***************************************************************************)
(* Apple's compact unwind encoding: the list of saved registers packed     *)
(* into a number, the two-level table from a function's offset to its      *)
(* encoding, and what an encoding does to a thread state.                  *)
(*                                                                         *)
(* An encoding is a record of its fields.  Memory is a function from       *)
(* addresses to words, and addresses and sizes count words: what a 32-bit  *)
(* and a 64-bit target differ in is their registers.                       *)
(***************************************************************************)
EXTENDS ThreadState, SequencesExt

RegisterMax == 6        \* PLCRASH_ASYNC_CFE_SAVED_REGISTER_MAX

----------------------------------------------------------------------------
(* Lists of registers, numbered 1 to 6, without repetition.                *)

\* The ranges that the places of a list of that length subdivide.
Factors == << <<1>>, <<5, 1>>, <<20, 4, 1>>, <<60, 12, 3, 1>>, <<120, 24, 6, 2, 1>>,
              <<120, 24, 6, 2, 1, 1>> >>

\* Fault: a register is not numbered among those that are left.
FaultyEncode(registers) ==
    FoldSet(LAMBDA i, sum : sum + Factors[Len(registers)][i] * (registers[i] - 1), 0,
            DOMAIN registers)

\* Each register is numbered among those that have not occurred before it.
register_encode(registers) ==
    LET before(i) == {j \in 1 .. i - 1 : registers[j] < registers[i]}
        renumbered(i) == registers[i] - Cardinality(before(i)) - 1
        sum[i \in 0 .. Len(registers)] ==
            IF i = 0 THEN 0 ELSE sum[i - 1] + Factors[Len(registers)][i] * renumbered(i)
    IN sum[Len(registers)]

\* PERMUTE: what is left of a permutation when the first places have been taken from it.
Rest(permutation, count) ==
    LET rest[i \in 0 .. count] ==
            IF i = 0 THEN permutation ELSE rest[i - 1] % Factors[count][i]
    IN rest

register_decode(permutation, count) ==
    LET rest == Rest(permutation, count)
        renumbered(i) == rest[i - 1] \div Factors[count][i]
        list[i \in 0 .. count] ==
            IF i = 0 THEN <<>>
            ELSE LET left == (1 .. RegisterMax) \ ToSet(list[i - 1])
                     at == CHOOSE u \in left :
                               Cardinality({v \in left : v < u}) = renumbered(i)
                 IN Append(list[i - 1], at)
    IN list[count]

\* apigee_plcrash_async_map_register_name.
map_register_name ==
    [x86    |-> <<"EBX", "ECX", "EDX", "EDI", "ESI", "FP">>,
     x86_64 |-> <<"RBX", "R12", "R13", "R14", "R15", "FP">>]

----------------------------------------------------------------------------
(* The table: common encodings, an index of pages by the offset of their   *)
(* first function, and pages of entries by offset.                         *)

\* Fault: an equal offset is passed over.
FaultySearch(offsets, pc) ==
    LET n == Len(offsets)
        at[bounds \in (1 .. n + 1) \X (0 .. n)] ==
            LET min == bounds[1]
                max == bounds[2]
                mid == (min + max) \div 2
            IN
            IF max < min THEN 0
            ELSE IF offsets[mid] < pc
            THEN IF mid = max \/ offsets[mid + 1] >= pc THEN mid ELSE at[<<mid + 1, max>>]
            ELSE IF offsets[mid] = pc THEN mid
            ELSE IF mid = 1 THEN 0 ELSE at[<<min, mid - 1>>]
    IN at[<<1, n>>]

\* CFE_FUN_BINARY_SEARCH on a table that is not empty: the entry found, or 0.
Search(offsets, pc) ==
    LET n == Len(offsets)
        at[bounds \in (1 .. n + 1) \X (0 .. n)] ==
            LET min == bounds[1]
                max == bounds[2]
                mid == (min + max) \div 2
            IN
            IF max < min THEN 0
            ELSE IF offsets[mid] < pc
            THEN IF mid = max \/ offsets[mid + 1] > pc THEN mid ELSE at[<<mid + 1, max>>]
            ELSE IF offsets[mid] = pc THEN mid
            ELSE IF mid = 1 THEN 0 ELSE at[<<min, mid - 1>>]
    IN at[<<1, n>>]

Offsets(table) == [i \in DOMAIN table |-> table[i].offset]

\* A page of the regular kind: offsets and encodings side by side.
RegularEntry(page, pc) ==
    LET i == Search(Offsets(page.entries), pc)
    IN IF i = 0 THEN Failed("ENOTFOUND")
       ELSE [error |-> "ESUCCESS", function |-> page.entries[i].offset,
             encoding |-> page.entries[i].encoding]

\* A compressed page: offsets from that of its index entry, and positions (from 0) in
\* the common encodings followed by the page's own.
CompressedEntry(common, base, page, pc) ==
    LET i == Search([e \in DOMAIN page.entries |-> base + page.entries[e].offset], pc)
        entry == page.entries[i]
        own == entry.encoding - Len(common)
        Found(encoding) == [error |-> "ESUCCESS", function |-> base + entry.offset,
                            encoding |-> encoding]
    IN CASE i = 0 -> Failed("ENOTFOUND")
         [] i # 0 /\ own < 0 -> Found(common[entry.encoding + 1])
         [] i # 0 /\ own \in 0 .. Len(page.encodings) - 1 -> Found(page.encodings[own + 1])
         [] i # 0 /\ own >= Len(page.encodings) -> Failed("EINVAL")

\* The index ends with an entry that does not count.
find_pc(section, pc) ==
    LET index == Front(section.index)
        first == Search(Offsets(index), pc)
    IN IF section.index = <<>> \/ first = 0 THEN Failed("ENOTFOUND")
       ELSE LET page == section.pages[index[first].page]
            IN IF page.kind = "regular" THEN RegularEntry(page, pc)
               ELSE CompressedEntry(section.common, index[first].offset, page, pc)

----------------------------------------------------------------------------
(* An encoding, decoded and applied.                                       *)

\* The registers of a frame fill three bits each: those after the last one that is not
\* 0 do not count, and a 0 before it is a gap.
UpToLast(list) ==
    LET used == {i \in DOMAIN list : list[i] # 0}
    IN SubSeq(list, 1, Max({0} \cup used))

\* "gap" is the invalid register.
RegisterName(arch, n) == IF n = 0 THEN "gap" ELSE map_register_name[arch][n]
RegisterList(arch, list) == [i \in DOMAIN list |-> RegisterName(arch, list[i])]

entry_init(arch, encoding) ==
    CASE encoding.mode = "frame" ->
            [type |-> "FRAME_PTR", stack_offset |-> -encoding.offset, stack_adjust |-> 0,
             register_list |-> RegisterList(arch, UpToLast(encoding.registers))]
      [] encoding.mode \in {"immediate", "indirect"} ->
            [type |-> IF encoding.mode = "immediate" THEN "FRAMELESS_IMMD"
                      ELSE "FRAMELESS_INDIRECT",
             stack_offset |-> encoding.size, stack_adjust |-> encoding.adjust,
             register_list |-> RegisterList(arch, register_decode(encoding.permutation,
                                                                  encoding.count))]
      [] encoding.mode = "dwarf" ->
            [type |-> "DWARF", stack_offset |-> encoding.offset, stack_adjust |-> 0,
             register_list |-> <<>>]
      [] encoding.mode = "none" ->
            [type |-> "NONE", stack_offset |-> 0, stack_adjust |-> 0, register_list |-> <<>>]

\* Where the frame of a function with a frame pointer has what.
FramePtrLayout(mem, state, entry) ==
    LET fp == get_reg(state, "FP") IN
    IF ~ has_reg(state, "FP") THEN Failed("ENOTFOUND")
    ELSE IF ~ {fp, fp + 1} \subseteq DOMAIN mem THEN Failed("EINVAL")
    ELSE [error |-> "ESUCCESS", saved |-> fp + entry.stack_offset, sp |-> fp + 2,
          fp |-> <<mem[fp]>>, ip |-> mem[fp + 1]]

\* The same for one without: its size is in the encoding, or in the function's code.
FramelessLayout(mem, function, state, entry) ==
    LET at == function + entry.stack_offset
        indirect == entry.type = "FRAMELESS_INDIRECT"
        size == IF indirect THEN mem[at] + entry.stack_adjust ELSE entry.stack_offset
        retaddr == get_reg(state, "SP") + size - 1
    IN IF ~ has_reg(state, "SP") THEN Failed("ENOTFOUND")
       ELSE IF indirect /\ at \notin DOMAIN mem THEN Failed("EINVAL")
       ELSE IF retaddr \notin DOMAIN mem THEN Failed("EINVAL")
       ELSE [error |-> "ESUCCESS", saved |-> retaddr - Len(entry.register_list),
             sp |-> retaddr + 1, fp |-> <<>>, ip |-> mem[retaddr]]

FrameLayout(mem, function, state, entry) ==
    CASE entry.type = "FRAME_PTR" -> FramePtrLayout(mem, state, entry)
      [] entry.type \in {"FRAMELESS_IMMD", "FRAMELESS_INDIRECT"} ->
            FramelessLayout(mem, function, state, entry)
      [] entry.type \in {"DWARF", "NONE"} -> Failed("ENOTSUP")

\* The registers of the list, each from the next word; a gap takes a word too.
RestoreSaved(mem, from, list, state) ==
    LET used == {i \in DOMAIN list : list[i] # "gap"}
        restored[i \in 0 .. Len(list)] ==
            IF i = 0 THEN state
            ELSE IF i \notin used THEN restored[i - 1]
            ELSE set_reg(restored[i - 1], list[i], mem[from + i - 1])
    IN IF {from + i - 1 : i \in used} \subseteq DOMAIN mem THEN Read(restored[Len(list)])
       ELSE Failed("EINVAL")

entry_apply(arch, mem, function, state, entry) ==
    LET layout == FrameLayout(mem, function, state, entry)
        kept == clear_volatile_regs(arch, state)
        moved == set_reg(set_reg(kept, "SP", layout.sp), "IP", layout.ip)
        framed == IF layout.fp = <<>> THEN moved ELSE set_reg(moved, "FP", layout.fp[1])
    IN IF ~ Succeeded(layout) THEN layout
       ELSE RestoreSaved(mem, layout.saved, entry.register_list, framed)
=============================================================================
