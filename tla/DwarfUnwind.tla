---------------------------- MODULE DwarfUnwind ----------------------------
(***************************************************************************)
(* Unwinding by DWARF call frame information: the search of a frame        *)
(* section for the entry of a pc, and the application of a row of the      *)
(* table that the entry's CFA program describes (see DwarfCFA) to a        *)
(* thread state.                                                           *)
(*                                                                         *)
(* A row has a rule for the canonical frame address and a function from    *)
(* DWARF register numbers to rules.  The expression of a register's rule   *)
(* is its distance from the CFA, with which its evaluation begins; that of *)
(* a CFA is a breg, a register and an offset, on an empty stack.           *)
(***************************************************************************)
EXTENDS ThreadState

\* The entries of a section up to the end marker; common entries (CIEs) are skipped.
EndMarker(section) == {i \in DOMAIN section : section[i].kind = "end"}
Covers(entry, pc) == entry.kind = "fde" /\ entry.start <= pc /\ pc < entry.end

find_fde(section, pc) ==
    LET found == {i \in DOMAIN section : /\ Covers(section[i], pc)
                                         /\ \A e \in EndMarker(section) : i < e}
    IN IF found = {} THEN Failed("ENOTFOUND")
       ELSE [error |-> "ESUCCESS",
             row |-> section[CHOOSE i \in found : \A j \in found : i <= j].row]

----------------------------------------------------------------------------
(* apply_state.                                                            *)

\* The value of a register and an offset.  The breg of an expression maps the register,
\* asks for it and fails just as apply_state does for the rule of a register.
register_value(arch, state, n, off) ==
    LET r == map_dwarf_to_reg(arch, n) IN
    IF ~ Mapped(arch, n) THEN Failed("ENOTSUP")
    ELSE IF ~ has_reg(state, r) THEN Failed("ENOTFOUND")
    ELSE [error |-> "ESUCCESS", value |-> get_reg(state, r) + off]

cfa_value(arch, state, rule) ==
    CASE rule.type = "undefined" -> Failed("EINVAL")
      [] rule.type = "register" -> register_value(arch, state, rule.reg, rule.off)
      [] rule.type = "expression" ->
            register_value(arch, state, rule.breg.reg, rule.breg.off)

\* The register a rule is for: one that is not mapped must be the return address.
Target(arch, n) ==
    IF Mapped(arch, n) THEN map_dwarf_to_reg(arch, n)
    ELSE IF n = return_address_register[arch] THEN "IP" ELSE "unsupported"

\* Fault: a rule reads the registers that were restored before it.
FaultyApply(arch, mem, old, new, cfa, target, rule) ==
    LET source == IF rule.type = "register" THEN map_dwarf_to_reg(arch, rule.value) ELSE target
        at == cfa + rule.value
    IN
    CASE rule.type \in {"offset", "expression"} ->
            IF at \in DOMAIN mem THEN Read(set_reg(new, target, mem[at])) ELSE Failed("EINVAL")
      [] rule.type \in {"val_offset", "val_expression"} -> Read(set_reg(new, target, at))
      [] rule.type \in {"register", "same_value"} ->
            IF has_reg(new, source) THEN Read(set_reg(new, target, get_reg(new, source)))
            ELSE Failed("ENOTFOUND")

\* apply_register: a rule's value, from the old state, for the target in the new one.
apply_register(arch, mem, old, new, cfa, target, rule) ==
    LET source == IF rule.type = "register" THEN map_dwarf_to_reg(arch, rule.value) ELSE target
        at == cfa + rule.value
    IN
    CASE rule.type \in {"offset", "expression"} ->
            IF at \in DOMAIN mem THEN Read(set_reg(new, target, mem[at])) ELSE Failed("EINVAL")
      [] rule.type \in {"val_offset", "val_expression"} -> Read(set_reg(new, target, at))
      [] rule.type \in {"register", "same_value"} ->
            IF rule.type = "register" /\ ~ Mapped(arch, rule.value) THEN Failed("EINVAL")
            ELSE IF has_reg(old, source) THEN Read(set_reg(new, target, get_reg(old, source)))
            ELSE Failed("ENOTFOUND")

\* A rule that is for the return address is for the instruction pointer as well.
apply_rule(arch, mem, old, new, cfa, n, rule) ==
    LET target == Target(arch, n)
        result == apply_register(arch, mem, old, new, cfa, target, rule)
    IN IF target = "unsupported" THEN Failed("EINVAL")
       ELSE IF Succeeded(result) /\ n = return_address_register[arch]
       THEN Read(set_reg(result.state, "IP", get_reg(result.state, target)))
       ELSE result

\* The rules in the order in which the iterator returns them, up to the first that fails.
apply_state(arch, mem, old, row) ==
    LET cfa == cfa_value(arch, old, row.cfa)
        kept == clear_volatile_regs(arch, old)
        rules == row.rules
        applied[i \in 0 .. Len(rules)] ==
            IF i = 0 THEN Read(set_reg(kept, "SP", cfa.value))
            ELSE IF ~ Succeeded(applied[i - 1]) THEN applied[i - 1]
            ELSE apply_rule(arch, mem, old, applied[i - 1].state, cfa.value,
                            rules[i].reg, rules[i].rule)
    IN IF Succeeded(cfa) THEN applied[Len(rules)] ELSE cfa
=============================================================================
