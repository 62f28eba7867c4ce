----------------------------- MODULE MCSections ------------------------------
(***************************************************************************)
(* Instances of Sections for TLC.                                          *)
(***************************************************************************)
EXTENDS Sections

Sec(name, segment, addr, size, prot, kind) ==
  [name |-> name, segment |-> segment, addr |-> addr, size |-> size, prot |-> prot, kind |-> kind]
Seg(name, addr, size, prot) == [name |-> name, addr |-> addr, size |-> size, prot |-> prot]

CodeSegment == Seg(TextSegment, 1, 4, RX)
DataSegment == Seg(2, 5, 2, {"r", "w"})
GuardSegment == Seg(3, 9, 4, {})

\* The usual image; one with two sections of one name, in two segments, and an
\* entry that is not loaded; one without a standard section, whose executable
\* sections are not in the order of their names, with an empty name, a name
\* that cannot be read and a segment without protection; one whose code has an
\* empty standard section; one without executable sections.
Usual == [sections |-> << Sec(Outside, 0, 0, 0, {}, "null"), Sec(Text, 1, 1, 2, {"x"}, "alloc"),
                          Sec(2, 2, 5, 2, {"w"}, "alloc") >>,
          segments |-> <<CodeSegment, DataSegment>>]
Twice == [sections |-> << Sec(2, 1, 3, 1, {"r"}, "other"), Sec(2, 1, 1, 1, {"r", "x"}, "alloc"),
                          Sec(2, 2, 5, 1, {"w"}, "alloc") >>,
          segments |-> <<CodeSegment, DataSegment>>]
Unnamed == [sections |-> << Sec(3, 1, 1, 2, {"r", "x"}, "alloc"), Sec(0, 1, 3, 1, {"r", "x"}, "alloc"),
                            Sec(Outside, 2, 5, 1, {"w"}, "alloc"), Sec(2, 3, 9, 1, {"r"}, "alloc") >>,
            segments |-> <<GuardSegment, CodeSegment, DataSegment>>]
EmptyText == [sections |-> << Sec(Text, 1, 1, 0, {"x"}, "alloc"), Sec(2, 1, 2, 1, RX, "alloc") >>,
              segments |-> <<DataSegment, CodeSegment>>]
Stripped == [sections |-> <<>>, segments |-> <<DataSegment, CodeSegment>>]

SmallImages == {Usual, Twice, Unnamed, EmptyText, Stripped}
SmallFiles ==
  {FileOf(Twice.sections)}
  \cup {[state |-> x, sections |-> <<>>] : x \in {"absent", "invalid", "huge"}}
=============================================================================
