------------------------------ MODULE DwarfRows ------------------------------
(***************************************************************************)
(* What the opcodes of a CFA program mean: the rows of a function, each a  *)
(* rule for the CFA and rules for the registers, the last one current and  *)
(* the others saved; and the rules the program began with.                 *)
(*                                                                         *)
(* The meaning is that of DWARF 4 section 6.4.2, which the interpreter's   *)
(* comment cites, but for the two opcodes in which the code has one of its *)
(* own: RememberState and RestoreExtended. Each stands beside what the     *)
(* standard and a comment of the code say of it: KeepState and Restore.    *)
(***************************************************************************)
EXTENDS Sequences, Naturals

CONSTANTS Registers, NoRule, MaxStates

VARIABLES rows, initial

EmptyRow == [rule |-> [r \in Registers |-> NoRule], cfa |-> [type |-> "undefined"]]

Init == rows = <<EmptyRow>> /\ initial = EmptyRow.rule

\* The initial rules are those of the row with which a program begins.
BeginProgram == initial' = rows[Len(rows)].rule /\ UNCHANGED rows

DefineRule(r, rule) ==
    /\ rows' = [rows EXCEPT ![Len(rows)].rule[r] = rule]
    /\ UNCHANGED initial

DefineCfa(c) ==
    /\ rows' = [rows EXCEPT ![Len(rows)].cfa = c]
    /\ UNCHANGED initial

Undefine(r) == DefineRule(r, NoRule)

Restore(r) == DefineRule(r, initial[r])

\* Not Restore(r): without an initial rule it is register 0 that loses its rule.
RestoreExtended(r) == IF initial[r] = NoRule THEN Undefine(0) ELSE Restore(r)

\* The row is saved and goes on as it is.
KeepState ==
    /\ Len(rows) < MaxStates
    /\ rows' = Append(rows, rows[Len(rows)])
    /\ UNCHANGED initial

\* Not KeepState: the row is saved, and an empty one begins.
RememberState ==
    /\ Len(rows) < MaxStates
    /\ rows' = Append(rows, EmptyRow)
    /\ UNCHANGED initial

RestoreState ==
    /\ Len(rows) > 1
    /\ rows' = SubSeq(rows, 1, Len(rows) - 1)
    /\ UNCHANGED initial
=============================================================================
