------------------------------ MODULE DwarfCFA ------------------------------
(***************************************************************************)
(* The DWARF call frame information of a function, evaluated: the sparse   *)
(* table of register rules (dwarf_cfa_state) and the interpreter of the    *)
(* CFA programs of a CIE and an FDE that fills it (eval_program).          *)
(*                                                                         *)
(* A program is an arbitrary sequence of opcodes: each step executes one.  *)
(* A rule with its value is a member of Rules; the loop of remove_register *)
(* takes a step for each entry it removes.                                  *)
(***************************************************************************)
EXTENDS Integers, FiniteSets, Sequences

CONSTANTS
    Registers,      \* DWARF register numbers
    Rules,          \* register rules, each with its value
    NoRule,
    CfaRegisters,   \* the registers and offsets of register based CFA rules
    Offsets,
    MaxStates,      \* DWARF_CFA_STATE_MAX_STATES
    Buckets,        \* DWARF_CFA_STATE_BUCKET_COUNT
    MaxRegisters,   \* DWARF_CFA_STATE_MAX_REGISTERS
    CountSize,      \* the values of a uint8_t, 256: enough to count the entries
    LastLocation    \* bound: the locations of the function are 1 .. LastLocation

ASSUME CFAAssumption ==
    /\ Registers \subseteq Nat /\ 0 \in Registers /\ IsFiniteSet(Registers)
    /\ CfaRegisters \subseteq Registers
    /\ NoRule \notin Rules
    /\ MaxStates \in Nat \ {0}
    /\ Buckets \in Nat \ {0}
    /\ MaxRegisters \in Nat \ {0}
    /\ CountSize \in Nat /\ CountSize > MaxRegisters
    /\ LastLocation \in Nat \ {0}

VARIABLES
    stack,      \* the states up to _table_depth, for each its _table_stack (the first
                \* entry of each bucket), _register_count and _cfa_value
    free,       \* _free_list
    entries,    \* _entries
    initial,    \* the row of initial_state, kept for DW_CFA_restore
    program,    \* which program runs: the CIE's, then the FDE's
    pc,         \* the pc whose row is wanted
    location,
    step,       \* what the interpreter does next, or how it ended
    rm          \* remove_register: the register and the entry it removed last

state == <<stack, free, entries>>
vars == <<state, initial, program, pc, location, step, rm>>

Nil == MaxRegisters                 \* DWARF_CFA_STATE_INVALID_ENTRY_IDX
Indexes == 0 .. MaxRegisters - 1
Slots == 0 .. Buckets - 1
Bucket(r) == r % Buckets

Undefined == [type |-> "undefined"]
CfaRules == [type : {"undefined", "expression"}]
            \cup [type : {"register", "signed"}, reg : CfaRegisters, off : Offsets]

TypeOK ==
    /\ stack \in Seq([table : [Slots -> Indexes \cup {Nil}],
                       count : 0 .. CountSize - 1,
                       cfa : CfaRules])
    /\ Len(stack) \in 1 .. MaxStates
    /\ free \in Indexes \cup {Nil}
    /\ entries \in [Indexes -> [reg : Registers, rule : Rules \cup {NoRule},
                                next : Indexes \cup {Nil}]]
    /\ initial \in [Registers -> Rules \cup {NoRule}]
    /\ program \in {"cie", "fde"}
    /\ pc \in 1 .. LastLocation
    /\ location \in 0 .. LastLocation + 1
    /\ step \in {"start", "read", "remove", "ESUCCESS", "failed"}
    /\ rm \in [reg : Registers, entry : Indexes \cup {Nil}]

NotRemoving == [reg |-> 0, entry |-> Nil]
EmptyState == [table |-> [b \in Slots |-> Nil], count |-> 0, cfa |-> Undefined]
EmptyRow == [r \in Registers |-> NoRule]

\* The constructor leaves the register numbers of the entries as it finds them.
Init ==
    /\ stack = <<EmptyState>>
    /\ free = 0
    /\ \E garbage \in [Indexes -> Registers] :
          entries = [e \in Indexes |-> [reg |-> garbage[e], rule |-> NoRule, next |-> e + 1]]
    /\ initial = EmptyRow
    /\ program = "cie"
    /\ pc \in 1 .. LastLocation
    /\ location = 0
    /\ step = "start"
    /\ rm = NotRemoving

----------------------------------------------------------------------------
(* The table.                                                              *)

Links == [x \in Indexes |-> entries[x].next]

\* What next leads to from e: the entries in every set that holds e and is closed under it.
Reach(next, e) ==
    {x \in Indexes :
        \A S \in SUBSET Indexes :
            (e \in S \cup {Nil} /\ \A y \in S : next[y] \in S \cup {Nil}) => x \in S}

\* The entries of the list that begins at e.
Chain(e) == Reach(Links, e)

depth == Len(stack)
current == stack[depth]

\* The entries of a state, and the one with the rule of a register.
EntriesOf(s) == UNION {Chain(s.table[b]) : b \in Slots}
EntriesFor(s, r) == {e \in Chain(s.table[Bucket(r)]) : entries[e].reg = r}

\* get_register_rule.
Rule(s, r) ==
    LET found == EntriesFor(s, r)
    IN IF found = {} THEN NoRule ELSE entries[CHOOSE e \in found : TRUE].rule

Row(s) == [r \in Registers |-> Rule(s, r)]

\* An entry for r, or a free one at the end of r's bucket; ENOMEM without one.
set_register(r, rule) ==
    LET b == Bucket(r)
        chain == Chain(current.table[b])
        same == EntriesFor(current, r)
        parent == CHOOSE x \in chain : entries[x].next = Nil
        new == [reg |-> r, rule |-> rule, next |-> Nil]
    IN
    \/ /\ same # {}
       /\ entries' = [entries EXCEPT ![CHOOSE x \in same : TRUE].rule = rule]
       /\ step' = "read"
       /\ UNCHANGED <<stack, free>>
    \/ /\ same = {} /\ free # Nil
       /\ stack' = [stack EXCEPT ![depth].count = (@ + 1) % CountSize,
                                 ![depth].table[b] = IF chain = {} THEN free ELSE @]
       /\ entries' = IF chain = {} THEN [entries EXCEPT ![free] = new]
                     ELSE [entries EXCEPT ![free] = new, ![parent].next = free]
       /\ free' = entries[free].next
       /\ step' = "read"
    \/ /\ same = {} /\ free = Nil
       /\ step' = "failed"
       /\ UNCHANGED state

\* Fault: the entry before the removed one still leads to it.
FaultyRemove(r, prev, from) ==
    LET found == {e \in Chain(from) : entries[e].reg = r}
        e == CHOOSE x \in found : found \subseteq Chain(x)
        before == IF e = from THEN prev ELSE CHOOSE x \in Chain(from) : entries[x].next = e
        next == entries[e].next
    IN
    \/ /\ found # {}
       /\ stack' = [stack EXCEPT
                      ![depth].count = (@ - 1) % CountSize,
                      ![depth].table[Bucket(r)] = IF before = Nil THEN next ELSE @]
       /\ entries' = [entries EXCEPT ![e].next = free]
       /\ free' = e
       /\ step' = "remove"
       /\ rm' = [reg |-> r, entry |-> e]
    \/ /\ found = {}
       /\ step' = "read"
       /\ rm' = NotRemoving
       /\ UNCHANGED state

\* The loop of remove_register goes on from an entry to the next one with a rule for
\* r, which joins the free list.
removeFrom(r, prev, from) ==
    LET found == {e \in Chain(from) : entries[e].reg = r}
        e == CHOOSE x \in found : found \subseteq Chain(x)
        before == IF e = from THEN prev ELSE CHOOSE x \in Chain(from) : entries[x].next = e
        next == entries[e].next
    IN
    \/ /\ found # {}
       /\ stack' = [stack EXCEPT
                      ![depth].count = (@ - 1) % CountSize,
                      ![depth].table[Bucket(r)] = IF before = Nil THEN next ELSE @]
       /\ entries' = IF before = Nil THEN [entries EXCEPT ![e].next = free]
                     ELSE [entries EXCEPT ![before].next = next, ![e].next = free]
       /\ free' = e
       /\ step' = "remove"
       /\ rm' = [reg |-> r, entry |-> e]
    \/ /\ found = {}
       /\ step' = "read"
       /\ rm' = NotRemoving
       /\ UNCHANGED state

remove_register(r) == removeFrom(r, Nil, current.table[Bucket(r)])

\* After a removal the loop goes on along what is now the removed entry's next one:
\* the free list.
removeRound ==
    /\ step = "remove"
    /\ removeFrom(rm.reg, rm.entry, entries[rm.entry].next)
    /\ UNCHANGED <<initial, program, pc, location>>

\* Fault: the buckets of the new state are not cleared.
FaultyPush ==
    /\ depth < MaxStates
    /\ stack' = Append(stack, [EmptyState EXCEPT !.table = current.table])
    /\ UNCHANGED <<free, entries>>

\* The new state is empty: nothing of the saved one is copied.
push_state ==
    /\ depth < MaxStates
    /\ stack' = Append(stack, EmptyState)
    /\ UNCHANGED <<free, entries>>

\* Fault: the state that is never saved is popped too.
FaultyPop ==
    /\ stack' = SubSeq(stack, 1, depth - 1)
    /\ UNCHANGED <<free, entries>>

\* What the popped state held stays out of the free list.
pop_state ==
    /\ depth > 1
    /\ stack' = SubSeq(stack, 1, depth - 1)
    /\ UNCHANGED <<free, entries>>

----------------------------------------------------------------------------
(* The iterator: its position is a bucket and an entry.                    *)

Filled(b) == {c \in Slots : c >= b /\ current.table[c] # Nil}
FirstOf(C) == CHOOSE c \in C : \A b \in C : c <= b

\* Fault: the next bucket is looked for when the iteration has only begun, too.
FaultyNext(at) ==
    LET after == IF at.entry = Nil THEN Nil ELSE entries[at.entry].next
        from == at.bucket + 1
    IN IF after # Nil THEN [at EXCEPT !.entry = after]
       ELSE IF Filled(from) = {} THEN [bucket |-> Buckets, entry |-> Nil]
       ELSE [bucket |-> FirstOf(Filled(from)), entry |-> current.table[FirstOf(Filled(from))]]

\* dwarf_cfa_state_iterator::next: the next entry of the chain, or the first of the
\* next chain there is.
IteratorNext(at) ==
    LET after == IF at.entry = Nil THEN Nil ELSE entries[at.entry].next
        from == IF at.entry = Nil THEN at.bucket ELSE at.bucket + 1
    IN IF after # Nil THEN [at EXCEPT !.entry = after]
       ELSE IF Filled(from) = {} THEN [bucket |-> Buckets, entry |-> Nil]
       ELSE [bucket |-> FirstOf(Filled(from)), entry |-> current.table[FirstOf(Filled(from))]]

\* What it returns, one after the other; Nil when it has come to the end.
Iterated ==
    LET at[k \in 0 .. MaxRegisters + 1] ==
            IF k = 0 THEN [bucket |-> 0, entry |-> Nil] ELSE IteratorNext(at[k - 1])
    IN [k \in 1 .. MaxRegisters + 1 |-> at[k].entry]

\* The rules the iterator finds, set one by one in initial_state.
SavedRow ==
    [r \in Registers |->
        LET found == {k \in DOMAIN Iterated : /\ Iterated[k] \in Indexes
                                                /\ entries[Iterated[k]].reg = r}
        IN IF found = {} THEN NoRule
           ELSE entries[Iterated[CHOOSE k \in found : \A l \in found : l <= k]].rule]

----------------------------------------------------------------------------
(* eval_program, for the CIE's initial instructions and then for the FDE's. *)

FunctionStart == 1

evalProgram ==
    /\ step = "start"
    /\ initial' = SavedRow
    /\ location' = FunctionStart
    /\ step' = "read"
    /\ UNCHANGED <<state, program, pc, rm>>

\* The next opcode is read while the location has not passed the wanted pc.
MayRead == step = "read" /\ location <= pc

\* The location has passed the pc, or there is no opcode left.
programEnds ==
    /\ step = "read"
    /\ step' = IF program = "cie" THEN "start" ELSE "ESUCCESS"
    /\ program' = "fde"
    /\ UNCHANGED <<state, initial, pc, location, rm>>

\* An operand that cannot be read, an opcode or a register number that is not
\* supported: EINVAL or ENOTSUP.
invalidOpcode ==
    /\ MayRead
    /\ step' = "failed"
    /\ UNCHANGED <<state, initial, program, pc, location, rm>>

advance_loc(delta) ==
    /\ MayRead
    /\ location + delta <= LastLocation + 1
    /\ location' = location + delta
    /\ UNCHANGED <<state, initial, program, pc, step, rm>>

set_loc(l) ==
    /\ MayRead
    /\ location' = l
    /\ UNCHANGED <<state, initial, program, pc, step, rm>>

DefineCfa(c) ==
    /\ stack' = [stack EXCEPT ![depth].cfa = c]
    /\ UNCHANGED <<free, entries, initial, program, pc, location, step, rm>>

\* def_cfa, def_cfa_sf and def_cfa_expression.
def_cfa(c) == MayRead /\ c # Undefined /\ DefineCfa(c)

RegisterBased(c) == c.type \in {"register", "signed"}

\* The offset stays as it is, signed or not.
def_cfa_register(r) ==
    /\ MayRead /\ RegisterBased(current.cfa)
    /\ DefineCfa([current.cfa EXCEPT !.reg = r])

\* def_cfa_offset and def_cfa_offset_sf: the new offset decides on the sign.
def_cfa_offset(type, off) ==
    /\ MayRead /\ RegisterBased(current.cfa)
    /\ DefineCfa([current.cfa EXCEPT !.type = type, !.off = off])

\* same_value, offset, val_offset, register, expression, val_expression.
setRule(r, rule) ==
    /\ MayRead
    /\ set_register(r, rule)
    /\ UNCHANGED <<initial, program, pc, location, rm>>

undefined(r) ==
    /\ MayRead
    /\ remove_register(r)
    /\ UNCHANGED <<initial, program, pc, location>>

\* The rule is the one the CIE's program ended with.
restore(r) ==
    /\ MayRead /\ initial[r] # NoRule
    /\ set_register(r, initial[r])
    /\ UNCHANGED <<initial, program, pc, location, rm>>

\* Without one the rule is removed: by restore_extended that of register 0, the
\* operand which that opcode does not have.
restoreNone(r, extended) ==
    /\ MayRead /\ initial[r] = NoRule
    /\ remove_register(IF extended THEN 0 ELSE r)
    /\ UNCHANGED <<initial, program, pc, location>>

remember_state ==
    /\ MayRead
    /\ \/ push_state /\ step' = step
       \/ depth = MaxStates /\ step' = "failed" /\ UNCHANGED state
    /\ UNCHANGED <<initial, program, pc, location, rm>>

restore_state ==
    /\ MayRead
    /\ \/ pop_state /\ step' = step
       \/ depth = 1 /\ step' = "failed" /\ UNCHANGED state
    /\ UNCHANGED <<initial, program, pc, location, rm>>

----------------------------------------------------------------------------
Opcode ==
    \/ invalidOpcode
    \/ \E delta \in 1 .. LastLocation : advance_loc(delta)
    \/ \E l \in 1 .. LastLocation + 1 : set_loc(l)
    \/ \E c \in CfaRules : def_cfa(c)
    \/ \E r \in CfaRegisters : def_cfa_register(r)
    \/ \E type \in {"register", "signed"}, off \in Offsets : def_cfa_offset(type, off)
    \/ \E r \in Registers, rule \in Rules : setRule(r, rule)
    \/ \E r \in Registers : undefined(r)
    \/ \E r \in Registers : restore(r)
    \/ \E r \in Registers, extended \in BOOLEAN : restoreNone(r, extended)
    \/ remember_state
    \/ restore_state

Next == evalProgram \/ programEnds \/ Opcode \/ removeRound

Spec == Init /\ [][Next]_vars

----------------------------------------------------------------------------
(* Properties.                                                             *)

\* The entries that saved states share are never mixed up: a chain holds entries of
\* its own bucket, one for a register, and no other chain's or the free list's.
EntriesAreShared ==
    LET chain == [x \in (1 .. depth) \X Slots |-> Chain(stack[x[1]].table[x[2]])] IN
    \A x \in DOMAIN chain : \A e \in chain[x] :
        /\ Bucket(entries[e].reg) = x[2]
        /\ e \notin Chain(free)
        /\ \A y \in DOMAIN chain \ {x} : e \notin chain[y]
        /\ \A f \in chain[x] : entries[f].reg = entries[e].reg => f = e

\* An iteration, by which a program saves its initial state and apply_state applies
\* the rules, returns every rule of the current row once and ends.
IterationIsComplete ==
    LET n == Cardinality(EntriesOf(current)) IN
    /\ {Iterated[k] : k \in 1 .. n} = EntriesOf(current)
    /\ Iterated[n + 1] = Nil

\* The rows of the states.
TableRows == [d \in 1 .. depth |-> [rule |-> Row(stack[d]), cfa |-> stack[d].cfa]]
Rows == INSTANCE DwarfRows WITH rows <- TableRows

NoRowChanges == UNCHANGED <<TableRows, initial>>
Fails == step' = "failed" /\ NoRowChanges

\* What each step does to the rows. A restore is one opcode or the other: with an initial
\* rule they do the same, without one restoreNone says which it is.
StepMeans ==
    /\ evalProgram => Rows!BeginProgram
    /\ programEnds \/ invalidOpcode \/ removeRound => NoRowChanges
    /\ \A delta \in 1 .. LastLocation : advance_loc(delta) => NoRowChanges
    /\ \A l \in 1 .. LastLocation + 1 : set_loc(l) => NoRowChanges
    /\ \A c \in CfaRules : def_cfa(c) => Rows!DefineCfa(c)
    /\ \A r \in CfaRegisters :
          def_cfa_register(r) => Rows!DefineCfa([current.cfa EXCEPT !.reg = r])
    /\ \A type \in {"register", "signed"}, off \in Offsets :
          def_cfa_offset(type, off) =>
              Rows!DefineCfa([type |-> type, reg |-> current.cfa.reg, off |-> off])
    /\ \A r \in Registers :
          /\ \A rule \in Rules : setRule(r, rule) => Rows!DefineRule(r, rule) \/ Fails
          /\ undefined(r) => Rows!Undefine(r)
          /\ restore(r) => (Rows!Restore(r) /\ Rows!RestoreExtended(r)) \/ Fails
          /\ restoreNone(r, FALSE) => Rows!Restore(r)
          /\ restoreNone(r, TRUE) => Rows!RestoreExtended(r)
    /\ remember_state => Rows!RememberState \/ (depth = MaxStates /\ Fails)
    /\ restore_state => Rows!RestoreState \/ (depth = 1 /\ Fails)

\* Each opcode changes the current row in the one place it names, or fails, and nothing
\* else does: whatever the table takes from its free list and puts back, the rules of the
\* other registers and of the saved rows stay, restore_state goes back to the row that
\* was saved, and restore to the rule that the program began with.
RowsAreKept == Rows!Init /\ [][StepMeans]_vars

\* DwarfCFAStateEvaluation.cpp:57: "Evaluate a DWARF CFA program, as defined in the DWARF
\* 4 Specification, Section 6.4.2": DW_CFA_remember_state saves the rules, and they go on
\* to apply. The code does not have it.
RememberKeepsTheRow == [][remember_state => Rows!KeepState \/ Fails]_vars

\* DwarfCFAStateEvaluation.cpp:423: "Either restore the value specified in the initial
\* state, or remove the register if the initial state has no associated value". The code
\* does not have it for DW_CFA_restore_extended.
RestoreRemovesItsOwnRule ==
    [][\A r \in Registers : restoreNone(r, TRUE) => Rows!Restore(r)]_vars

\* get_register_count: "Return the number of register rules set for the current
\* register state."
CountsTheRules == current.count = Cardinality({r \in Registers : Row(current)[r] # NoRule})

----------------------------------------------------------------------------
(* The inductive invariant.                                                *)

\* No entry follows two others, or another one and a list's beginning.
Heads == {free} \cup {stack[d].table[b] : d \in 1 .. depth, b \in Slots}
OneParent == \A e, f \in Indexes : entries[e].next = entries[f].next /\ entries[e].next # Nil => e = f
HeadsHaveNone == \A e \in Indexes : entries[e].next # Nil => entries[e].next \notin Heads

\* Each entry belongs to the free list (0), to the state at some level, or, with a state
\* that was popped, to nothing any more (-1); to which one, its successors do as well.
LevelsOf == [Indexes -> -1 .. depth]
SuccessorsKeep(level) ==
    \A e \in Indexes : entries[e].next # Nil =>
        LET f == entries[e].next IN
        /\ level[f] = level[e]
        /\ level[e] > 0 => Bucket(entries[f].reg) = Bucket(entries[e].reg)
HeadsBelong(level) ==
    /\ free # Nil => level[free] = 0
    /\ \A d \in 1 .. depth, b \in Slots :
          LET e == stack[d].table[b] IN
          e # Nil => level[e] = d /\ Bucket(entries[e].reg) = b
OnePerRegister(level) ==
    \A e, f \in Indexes :
        level[e] > 0 /\ level[f] = level[e] /\ entries[f].reg = entries[e].reg => e = f
Belongs(level) == SuccessorsKeep(level) /\ HeadsBelong(level) /\ OnePerRegister(level)

\* An entry that was removed begins the free list.
RemovedIsFree == step = "remove" => rm.entry = free /\ free # Nil

IndInv ==
    /\ TypeOK
    /\ OneParent /\ HeadsHaveNone
    /\ \E level \in LevelsOf : Belongs(level)
    /\ RemovedIsFree
=============================================================================
