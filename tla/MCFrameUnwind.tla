--------------------------- MODULE MCFrameUnwind ---------------------------
(* Instances of FrameUnwind for TLC. *)
EXTENDS FrameUnwind

Shape(info, framed, saved, room, rule) ==
    [info |-> info, framed |-> framed, saved |-> saved, room |-> room, rule |-> rule]

\* Functions with a frame pointer, one of them with an unused word among the saved
\* registers, and functions without, one of which uses the frame pointer for something
\* else.
Framed == { Shape("frame", TRUE, <<>>, 1, "none"),
            Shape("frame", TRUE, <<5, 0, 1>>, 0, "none") }
Frameless == { Shape("immediate", FALSE, <<5, 1>>, 1, "none"),
               Shape("immediate", FALSE, <<6>>, 0, "none"),
               Shape("indirect", FALSE, <<1>>, 2, "none") }
\* The first one keeps register 1 in register 5, which it pushes.
ByDwarf == { Shape("dwarf", FALSE, <<5>>, 1, "register"),
             Shape("dwarf", TRUE, <<1, 5>>, 0, "expression"),
             Shape("dwarf", FALSE, <<>>, 1, "same_value"),
             Shape("dwarf", TRUE, <<5>>, 0, "val_offset") }
Unknown == { Shape("none", TRUE, <<1>>, 0, "none"),
             Shape("none", FALSE, <<5>>, 1, "none"),
             Shape("outside", TRUE, <<>>, 1, "none") }

Plain == Shape("frame", TRUE, <<1>>, 0, "none")
Shapes == Framed \cup Frameless \cup ByDwarf \cup Unknown

\* Every list of registers that an encoding can hold, each in a program of its own.
RegisterLists ==
    UNION {{l \in [1 .. n -> 1 .. RegisterMax] : IsInjective(l)} : n \in 1 .. RegisterMax}

MCPrograms ==
    {<<Plain, s, t>> : s \in Shapes, t \in Shapes}
    \cup {<<Shape("immediate", FALSE, l, 0, "none")>> : l \in RegisterLists}

MCLayouts ==
    { [unwind_info |-> TRUE, frame_section |-> TRUE, split |-> 3, kinds |-> <<"regular", "regular">>, common |-> 0],
      [unwind_info |-> TRUE, frame_section |-> TRUE, split |-> 1, kinds |-> <<"regular", "compressed">>, common |-> 1],
      [unwind_info |-> TRUE, frame_section |-> FALSE, split |-> 2, kinds |-> <<"compressed", "regular">>, common |-> 0],
      [unwind_info |-> FALSE, frame_section |-> TRUE, split |-> 1, kinds |-> <<"regular", "regular">>, common |-> 0] }
=============================================================================
