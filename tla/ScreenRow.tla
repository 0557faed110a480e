------------------------------- MODULE ScreenRow -------------------------------
(***************************************************************************)
(* The cells of one row of Terminal_screen_model's grid.  A glyph is one    *)
(* or two cells wide; the second cell of a wide one is a continuation and   *)
(* holds nothing.  Every operation that cuts a row somewhere may cut a wide *)
(* glyph in half, and the code indexes the row by the width the first half  *)
(* states: a half left behind is read, and cleared, past the row's end.     *)
(*                                                                          *)
(* A cell is its kind and its glyph.  Style, hyperlink, protection and the  *)
(* images over the cells are left out, but for what decides whether a cell  *)
(* counts as occupied: an erased cell is occupied iff the current style is  *)
(* not the default one, and is then no different from a written space.      *)
(***************************************************************************)
EXTENDS Integers

CONSTANT Glyphs         \* what a cell may show; the space is one of them

Space == " "

ASSUME GlyphsAssumption == Space \in Glyphs

Blank       == [kind |-> "blank", glyph |-> Space]      \* Cell{}: not occupied
Rest        == [kind |-> "rest",  glyph |-> Space]      \* wide_continuation
Narrow(g)   == [kind |-> "narrow", glyph |-> g]         \* one cell, natural width 1
Squeezed(g) == [kind |-> "squeezed", glyph |-> g]       \* one cell, natural width 2
Lead(g)     == [kind |-> "lead", glyph |-> g]           \* two cells

Cell == {Blank, Rest} \cup
        UNION {{Narrow(g), Squeezed(g), Lead(g)} : g \in Glyphs}
Cells(n) == [0..n - 1 -> Cell]

\* The first cell of the span of glyph g shown w cells wide, of natural width nat.
Base(g, w, nat) ==
    IF w = 2 THEN Lead(g) ELSE IF nat = 2 THEN Squeezed(g) ELSE Narrow(g)

EmptyCells(n, fill) == [c \in 0..n - 1 |-> fill]

(***************************************************************************)
(* A row is whole when no half of a wide glyph is without the other.       *)
(***************************************************************************)
Whole(r) ==
    \A c \in DOMAIN r :
      /\ r[c].kind = "lead" => c + 1 \in DOMAIN r /\ r[c + 1].kind = "rest"
      /\ r[c].kind = "rest" => c - 1 \in DOMAIN r /\ r[c - 1].kind = "lead"
-------------------------------------------------------------------------------
BaseColumn(r, c) ==
    IF r[c].kind = "rest" /\ c - 1 \in DOMAIN r /\ r[c - 1].kind = "lead"
    THEN c - 1 ELSE c

\* The columns of the span that column c is part of.
Span(r, c) ==
    LET b == BaseColumn(r, c) IN IF r[b].kind = "lead" THEN {b, b + 1} ELSE {b}

\* The columns of every span that reaches into first..last.
Touched(r, first, last) == UNION {Span(r, c) : c \in first..last}

\* clear_cell_at_content, erase_cell_at and erase_row_range's loop: a span is
\* cleared as a whole.
ClearSpans(r, first, last, fill) ==
    [c \in DOMAIN r |-> IF c \in Touched(r, first, last) THEN fill ELSE r[c]]

InstallSpan(r, c, cell) ==
    LET w       == IF cell.kind = "lead" THEN 2 ELSE 1
        cleared == ClearSpans(r, c, c + w - 1, Blank)
    IN  [x \in DOMAIN r |-> IF x = c THEN cell
                            ELSE IF x = c + 1 /\ w = 2 THEN Rest ELSE cleared[x]]

\* Clears the first half of a span that crosses into column b; RepairSpans
\* clears what is left of it.
ClearSplit(r, b) ==
    IF b - 1 \in DOMAIN r /\ b \in DOMAIN r /\ r[b - 1].kind = "lead"
    THEN [r EXCEPT ![b - 1] = Blank] ELSE r

\* A lead the repair keeps: it has room, and is not itself the second cell of
\* the span before it.  (Three in a row are never left by a caller.)
Keeps(r, c) ==
    /\ c \in DOMAIN r /\ c + 1 \in DOMAIN r /\ r[c].kind = "lead"
    /\ ~(c - 1 \in DOMAIN r /\ r[c - 1].kind = "lead")

RepairSpans(r) ==
    [c \in DOMAIN r |->
       CASE r[c].kind = "rest" -> IF Keeps(r, c - 1) THEN Rest ELSE Blank
         [] r[c].kind = "lead" -> IF Keeps(r, c) THEN r[c] ELSE Blank
         [] OTHER              -> IF Keeps(r, c - 1) THEN Blank ELSE r[c]]

RepairedNothing(r, left, end) == r          \* mutant: the cut halves stay

Repaired(r, left, end) == RepairSpans(ClearSplit(ClearSplit(r, left), end))
-------------------------------------------------------------------------------
(***************************************************************************)
(* Moving cells.  Columns c..end - 1 are the part of the row that moves.   *)
(***************************************************************************)
\* clear_wide_continuation_boundary
ClearRest(r, c, fill) ==
    IF c \in DOMAIN r /\ r[c].kind = "rest" THEN ClearSpans(r, c, c, fill) ELSE r

MovedRight(r, c, n, end, fill) ==
    [x \in DOMAIN r |->
       IF x \in c..c + n - 1 THEN fill
       ELSE IF x \in c + n..end - 1 THEN r[x - n] ELSE r[x]]

MovedLeft(r, c, n, end, fill) ==
    [x \in DOMAIN r |->
       IF x \in c..end - n - 1 THEN r[x + n]
       ELSE IF x \in end - n..end - 1 THEN fill ELSE r[x]]

InsertInRow(r, c, n, end, fill) ==
    Repaired(MovedRight(ClearRest(ClearRest(r, c, fill), end - n, fill), c, n, end, fill),
             c, end)

DeleteInRow(r, c, n, end, fill) ==
    LET erased == ClearSpans(r, c, c + n - 1, fill)
    IN  Repaired(MovedLeft(ClearRest(ClearRest(erased, c + n, fill), end, fill),
                           c, n, end, fill),
                 c, end)

SegmentToEnd(r, src, left, right) ==        \* mutant: the right margin is not regarded
    RepairSpans([c \in DOMAIN r |-> IF c >= left THEN src[c] ELSE r[c]])

\* replace_row_segment: columns left..right of src, or an erased segment.
Segment(r, src, left, right) ==
    Repaired([c \in DOMAIN r |-> IF c \in left..right THEN src[c] ELSE r[c]],
             left, right + 1)

\* shift_columns clears a span cut at column b whole, with unstyled cells.
ClearCut(r, b) ==
    IF b - 1 \in DOMAIN r /\ b \in DOMAIN r THEN ClearRest(r, b, Blank) ELSE r

ShiftInRow(r, c, n, end, insert) ==
    LET cut == ClearCut(ClearCut(r, c), IF insert THEN end - n ELSE c + n)
    IN  Repaired(IF insert THEN MovedRight(cut, c, n, end, Blank)
                 ELSE MovedLeft(ClearCut(cut, end), c, n, end, Blank),
                 c, end)

\* copy_rectangular_area: n columns of src from column from on, put at column at.
CopyInRow(r, src, from, at, n) ==
    LET cleared == ClearSpans(r, at, at + n - 1, Blank)
    IN  Repaired([c \in DOMAIN r |->
                    IF c \in at..at + n - 1 THEN src[c - at + from] ELSE cleared[c]],
                 at, at + n)

FillInRow(r, first, last, cell) ==
    [c \in DOMAIN r |->
       IF c \in first..last THEN cell ELSE ClearSpans(r, first, last, Blank)[c]]

\* resize_rows: cut or padded to n columns.
Resized(r, n) ==
    RepairSpans([c \in 0..n - 1 |-> IF c \in DOMAIN r THEN r[c] ELSE Blank])
================================================================================
