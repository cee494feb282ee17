---------------------------- MODULE ThreadState ----------------------------
(***************************************************************************)
(* The registers of a thread as the crash reporter sees them, for the two  *)
(* architectures of which it reads unwind information.  A thread state is  *)
(* a function whose domain is the set of registers that are valid; the     *)
(* instruction, frame and stack pointer have the same names everywhere.    *)
(***************************************************************************)
EXTENDS Integers, Sequences, FiniteSets

Architectures == {"x86", "x86_64"}

\* The registers a callee preserves.  The instruction pointer is not among them.
nonvolatile_registers ==
    [x86    |-> {"EBX", "FP", "ESI", "EDI", "SP"},
     x86_64 |-> {"RBX", "SP", "FP", "R12", "R13", "R14", "R15"}]

\* The DWARF numbers of the registers, from 0 on; x86-64 numbers its return address
\* 16, a register that the thread state does not have.
dwarf_table ==
    [x86    |-> <<"EAX", "ECX", "EDX", "EBX", "FP", "SP", "ESI", "EDI", "IP">>,
     x86_64 |-> <<"RAX", "RDX", "RCX", "RBX", "RSI", "RDI", "FP", "SP", "R8", "R9", "R10",
                  "R11", "R12", "R13", "R14", "R15">>]

return_address_register == [x86 |-> 8, x86_64 |-> 16]

Mapped(arch, n) == n \in 0 .. Len(dwarf_table[arch]) - 1
map_dwarf_to_reg(arch, n) == dwarf_table[arch][n + 1]
map_reg_to_dwarf(arch, r) ==
    CHOOSE n \in 0 .. Len(dwarf_table[arch]) - 1 : dwarf_table[arch][n + 1] = r

has_reg(state, r) == r \in DOMAIN state
get_reg(state, r) == state[r]

set_reg(state, r, value) ==
    [x \in DOMAIN state \cup {r} |-> IF x = r THEN value ELSE state[x]]

clear_volatile_regs(arch, state) ==
    [r \in DOMAIN state \cap nonvolatile_registers[arch] |-> state[r]]

\* What a frame reader and its parts return: an error, or a thread state.
Failed(error) == [error |-> error]
Read(state) == [error |-> "ESUCCESS", state |-> state]
Succeeded(result) == result.error = "ESUCCESS"
=============================================================================
