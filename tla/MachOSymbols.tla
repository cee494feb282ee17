---------------------------- MODULE MachOSymbols ----------------------------
(***************************************************************************)
(* The symbol table of a Mach-O image, and the search in it for the symbol *)
(* that is closest before a pc.                                            *)
(*                                                                         *)
(* An entry has a value on disk, a kind ("section" for a symbol that is    *)
(* defined in a section, "stab" for a debugging entry, "undefined"), the   *)
(* flag of a Thumb function and a name.                                    *)
(***************************************************************************)
EXTENDS Integers, Sequences, SequencesExt

NoEntry == [kind |-> "none"]
NoSymbol == [address |-> 0, name |-> << >>]

contains_address(image, address) == address \in image.header .. image.header + image.size - 1

\* The value with the low-order bit of a Thumb function.
normalized_value(entry) ==
    IF entry.thumb /\ entry.value % 2 = 0 THEN entry.value + 1 ELSE entry.value

\* Fault: the best entry so far is not compared with.
FaultyBest(table, slide_pc, prev) ==
    FoldLeft(LAMBDA found, entry :
                IF entry.kind = "section" /\ entry.value <= slide_pc THEN entry ELSE found,
             prev, table)

\* The entry of a table with the greatest value up to slide_pc, if that is greater
\* than the value of what was found before.
find_best_symbol(table, slide_pc, prev) ==
    FoldLeft(LAMBDA found, entry :
                IF /\ entry.kind = "section" /\ entry.value <= slide_pc
                   /\ found = NoEntry \/ found.value < entry.value
                THEN entry ELSE found,
             prev, table)

\* symtab_reader_init: the ranges of the global and of the local symbols, both
\* within the table.
SymbolsIn(image, range) == SubSeq(image.symtab, range.first, range.first + range.count - 1)
IsReadable(image) ==
    /\ image.symtab # << >>
    /\ \A range \in {image.global, image.local} :
          range.first + range.count - 1 <= Len(image.symtab)

\* The global symbols are searched, then the local ones.
find_symbol_by_pc(image, pc) ==
    LET slide_pc == pc - image.slide
        global == find_best_symbol(SymbolsIn(image, image.global), slide_pc, NoEntry)
        found == find_best_symbol(SymbolsIn(image, image.local), slide_pc, global)
    IN IF ~ IsReadable(image) THEN NoSymbol
       ELSE IF found = NoEntry THEN NoSymbol
       ELSE [address |-> normalized_value(found) + image.slide, name |-> found.name]
=============================================================================
