-------------------------- MODULE MCSymbolication --------------------------
(***************************************************************************)
(* Two images, A with a symbol table and B without, in a process of either *)
(* Objective-C runtime. The addresses of the class_rw_t share the slots of *)
(* a cache of two.                                                         *)
(***************************************************************************)
EXTENDS Symbolication

Entry(value, kind, thumb, name) == [value |-> value, kind |-> kind, thumb |-> thumb, name |-> <<name>>]

\* Image A is loaded 10 after its preferred address.
SymbolTable(bit) ==
    <<Entry(120, "section", bit = 1, "a"), Entry(143, "undefined", FALSE, "u"),
      Entry(100, "section", FALSE, "f"), Entry(124, "stab", FALSE, "s"), Entry(96, "section", FALSE, "g")>>

List(home, imps) == [home |-> home, imps |-> imps]
Methods2(home, imps, meta) == [home |-> home, imps |-> imps, meta |-> meta]

Bare(header, slide, symtab) ==
    [header |-> header, size |-> 60, slide |-> slide, symtab |-> symtab,
     global |-> [first |-> 1, count |-> IF symtab = << >> THEN 0 ELSE 2],
     local |-> [first |-> 3, count |-> IF symtab = << >> THEN 0 ELSE 3],
     modules |-> << >>, mapped |-> 0, classlist |-> << >>, catlist |-> << >>]

Class(class, metaclass) == [class |-> class, metaclass |-> metaclass]

\* Class Y realized or not, image B with all sections or no category list, Thumb code or
\* not, the metadata of B's class readable or not; image A with its category or without.
ObjC2(realized, mapped, bit, readable, category) ==
    LET a == [Bare(100, 10, SymbolTable(bit)) EXCEPT
                !.mapped = 4, !.classlist = <<Class(4, 8), Class(12, 20)>>,
                !.catlist = IF category
                            THEN <<[class |-> 16, lists |-> <<Methods2("A", <<140 + bit>>, FALSE),
                                                              Methods2("A", << >>, TRUE)>>]>>
                            ELSE << >>]
        b == [Bare(200, 0, << >>) EXCEPT !.mapped = mapped, !.classlist = <<Class(16, 24)>>]
        rws == {4, 8, 12, 20, 24} \cup (IF readable THEN {16} ELSE {})
    IN [images |-> [A |-> a, B |-> b],
        pcs |-> [A |-> {112, 135, 152}, B |-> {205, 222, 236}],
        rw |-> [r \in rws |-> [realized |-> realized \/ r \notin {12, 20}, ro |-> 1000 + r]],
        ro |-> (1004 :> [name |-> "X", list |-> List("A", <<130 + bit, 128 + bit>>)])
            @@ (1008 :> [name |-> "X", list |-> List("A", <<134 + bit>>)])
            @@ (1012 :> [name |-> "Y", list |-> List("A", <<150 + bit>>)])
            @@ (1020 :> [name |-> "Y", list |-> List("A", << >>)])
            @@ (1016 :> [name |-> "Z", list |-> List("B", <<220 + bit>>)])
            @@ (1024 :> [name |-> "Z", list |-> List("B", <<230 + bit, 240 + bit>>)])]

ObjC1 ==
    LET a == [Bare(100, 10, SymbolTable(0)) EXCEPT
                !.modules = <<[imps |-> <<150, 132>>, meta |-> <<134>>]>>]
    IN [images |-> [A |-> a, B |-> Bare(200, 0, << >>)],
        pcs |-> [A |-> {112, 135, 152}, B |-> {205}],
        rw |-> << >>, ro |-> << >>]

MCImages == {"A", "B"}
MCProcesses ==
    {ObjC1} \cup
    {ObjC2(realized, mapped, IF realized = category THEN 1 ELSE 0, readable, category) :
        realized \in BOOLEAN, mapped \in {2, 4}, readable \in BOOLEAN, category \in BOOLEAN}
MCStrategies == {{"symtab"}, {"objc"}, {"symtab", "objc"}}
=============================================================================
