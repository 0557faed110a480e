------------------------------ MODULE ScreenResize ------------------------------
(***************************************************************************)
(* Terminal_screen_model::apply_grid_resize, which the host asks for and    *)
(* which a program may ask for with CSI 8 t.  The primary screen is         *)
(* reflowed: the rows a soft wrap joins are one line of text, laid out anew *)
(* at the new width, the cursor and the saved cursor with it.  The          *)
(* alternate screen is cut or padded.  Rows that no longer fit above the    *)
(* cursor enter the history, which is never reflowed; rows below it are     *)
(* lost.                                                                    *)
(***************************************************************************)
EXTENDS ScreenGrid, FiniteSetsExt
LOCAL INSTANCE SequencesExt

CONSTANT Resizes        \* the sizes asked for

Least(a, b) == IF a <= b THEN a ELSE b

(***************************************************************************)
(* The lines of the primary screen, as reflow_primary_rows reads them.     *)
(***************************************************************************)
Joined(s, r) == r < LastRow /\ s.rows[r].wrap > 0
FirstRows(s) == SelectSeq([i \in 1..size.rows |-> i - 1],
                         LAMBDA r : r = 0 \/ ~Joined(s, r - 1))
LastOf(s, first) == Min({r \in first..LastRow : ~Joined(s, r)})

\* The columns of row r that belong to the text, and those the cursors add.
Extent(row) ==
    Max({row.wrap, 0} \cup {c + 1 : c \in {x \in DOMAIN row.cells :
                                             row.cells[x].kind # "blank"}})
CountText(s, r) == Extent(s.rows[r])        \* mutant: the cursor's place is no text

Count(s, r) ==
    Max({Extent(s.rows[r])}
        \cup (IF r = s.row /\ ~Joined(s, r) THEN {s.col + 1} ELSE {})
        \cup (IF s.saved.valid /\ r = s.saved.row /\ ~Joined(s, r) THEN {s.saved.col + 1}
              ELSE {}))

Natural(cell) == IF cell.kind \in {"lead", "squeezed"} THEN 2 ELSE 1

\* The glyphs in columns 0..n - 1, a wide one once.
Glyphed(cells, n) ==
    LET cols == SelectSeq([c \in 1..n |-> c - 1], LAMBDA c : cells[c].kind # "rest")
    IN  [i \in DOMAIN cols |-> cells[cols[i]]]

\* The place of column c in the text of its row: a squeezed glyph takes two.
Slots(cells, c) == c + Cardinality({x \in 0..c - 1 : cells[x].kind = "squeezed"})

LineCells(s, first, last) ==
    FlattenSeq([i \in 1..last - first + 1 |->
                  Glyphed(s.rows[first + i - 1].cells, Count(s, first + i - 1))])

\* The place in its line's text of a cursor, one further on if a wrap is pending.
Offset(s, first, row, col, pending) ==
    LET boundary == Least(Count(s, row), col + (IF pending THEN 1 ELSE 0))
    IN  MapThenSumSet(LAMBDA r : Slots(s.rows[r].cells, Count(s, r)), first..row - 1)
          + Slots(s.rows[row].cells, boundary)
-------------------------------------------------------------------------------
(***************************************************************************)
(* Laying out a line: where its text is after its first i glyphs.          *)
(***************************************************************************)
Width(cell, columns) == Least(Natural(cell), columns)

After(text, columns) ==
    LET at[i \in 0..Len(text)] ==
          IF i = 0 THEN [row |-> 0, col |-> 0, slot |-> 0]
          ELSE LET p == at[i - 1]
                   w == Width(text[i], columns)
                   slot == p.slot + Natural(text[i])
               IN  IF p.col + w > columns THEN [row |-> p.row + 1, col |-> w, slot |-> slot]
                   ELSE [row |-> p.row, col |-> p.col + w, slot |-> slot]
    IN  at

Start(text, columns, i) ==
    LET p == After(text, columns)[i]
    IN  [p EXCEPT !.col = @ - Width(text[i], columns), !.slot = @ - Natural(text[i])]

ShownNarrow(cell, columns) ==               \* mutant: the natural width is forgotten
    Base(cell.glyph, Width(cell, columns), Width(cell, columns))

Shown(cell, columns) == Base(cell.glyph, Width(cell, columns), Natural(cell))

\* The cells of row k of the layout.
LaidCells(text, columns, k) ==
    LET here == {i \in DOMAIN text : After(text, columns)[i].row = k}
        col(i) == Start(text, columns, i).col
    IN  [c \in 0..columns - 1 |->
           IF \E i \in here : col(i) = c
           THEN LET cell == text[CHOOSE i \in here : col(i) = c]
                IN  IF cell.kind = "blank" THEN Blank ELSE Shown(cell, columns)
           ELSE IF \E i \in here : col(i) + 1 = c /\ Width(text[i], columns) = 2 THEN Rest
           ELSE Blank]

\* Where the layout breaks row k.
LaidWidth(text, columns, k) ==
    Max({After(text, columns)[i].col :
           i \in {x \in DOMAIN text : After(text, columns)[x].row = k}})

\* Where the place offset of the text comes to be.  After a pending wrap the
\* cursor stays behind the glyph it was printed with.
Placed(text, columns, offset, pending) ==
    LET at    == After(text, columns)
        edge(p) == [row |-> p.row, col |-> Least(p.col, columns - 1),
                    pending |-> p.col = columns]
        ends  == {i \in DOMAIN text : at[i].slot = offset}
        holds == {i \in DOMAIN text :
                    offset \in Start(text, columns, i).slot..at[i].slot - 1}
    IN  IF pending /\ ends # {} THEN edge(at[CHOOSE i \in ends : TRUE])
        ELSE IF holds # {}
        THEN LET i == CHOOSE i \in holds : TRUE
                 p == Start(text, columns, i)
             IN  [row |-> p.row, pending |-> FALSE,
                  col |-> p.col + Least(offset - p.slot, Width(text[i], columns) - 1)]
        ELSE edge(at[Len(text)])
-------------------------------------------------------------------------------
(***************************************************************************)
(* reflow_primary_rows.  A line of one row that fits as it is keeps its    *)
(* identity; the rows of any other are new.                                *)
(***************************************************************************)
LaidOut(s, columns, firsts, text) ==
    LET height  == [i \in DOMAIN firsts |-> After(text[i], columns)[Len(text[i])].row + 1]
        above   == [i \in DOMAIN firsts |-> MapThenSumSet(LAMBDA j : height[j], 1..i - 1)]
        total   == above[Len(firsts)] + height[Len(firsts)]
        lineOf(r) == CHOOSE i \in DOMAIN firsts : r \in firsts[i]..LastOf(s, firsts[i])
        keeps(i) == /\ firsts[i] = LastOf(s, firsts[i])
                    /\ \A x \in DOMAIN text[i] : text[i][x].kind # "squeezed"
                    /\ After(text[i], columns)[Len(text[i])].slot <= columns
        id(r)   == s.lines + r
        rowOf(i, k) ==
            [cells |-> LaidCells(text[i], columns, k),
             wrap  |-> IF k < height[i] - 1 THEN LaidWidth(text[i], columns, k) ELSE 0,
             line  |-> IF keeps(i) THEN s.rows[firsts[i]].line ELSE id(above[i] + k),
             next  |-> IF k < height[i] - 1 THEN id(above[i] + k + 1) ELSE NoLine]
        place(row, col, pending) ==
            LET i == lineOf(row)
                p == Placed(text[i], columns, Offset(s, firsts[i], row, col, pending), pending)
            IN  [p EXCEPT !.row = @ + above[i]]
        cursor  == place(s.row, s.col, s.pending)
        saved   == place(s.saved.row, s.saved.col, s.saved.pending)
    IN  [s EXCEPT
           !.rows = [r \in 0..total - 1 |->
                       LET i == CHOOSE i \in DOMAIN firsts :
                                  r \in above[i]..above[i] + height[i] - 1
                       IN  rowOf(i, r - above[i])],
           !.row = cursor.row, !.col = cursor.col, !.pending = cursor.pending,
           !.saved = IF @.valid
                     THEN [@ EXCEPT !.row = saved.row, !.col = saved.col,
                                    !.pending = saved.pending]
                     ELSE @,
           !.lines = @ + total]

Reflowed(s, columns) ==
    LET firsts == FirstRows(s)
    IN  LaidOut(s, columns, firsts,
                [i \in DOMAIN firsts |-> LineCells(s, firsts[i], LastOf(s, firsts[i]))])

Unwrapped(s) == [s EXCEPT !.pending = FALSE, !.saved.pending = FALSE]

\* resize_buffer_state and resize_rows: the rows t laid out at the new width come
\* to the new height.
Fitted(t, new, primary) ==
    LET height  == Cardinality(DOMAIN t.rows)
        prefix  == Max({0, t.row - new.rows + 1})
        saved   == t.saved.row - prefix
        blank(r) == [cells |-> EmptyCells(new.columns, Blank), wrap |-> 0,
                     line |-> t.lines + r, next |-> NoLine]
        sized(row) == IF Cardinality(DOMAIN row.cells) = new.columns THEN row
                      ELSE [row EXCEPT !.cells = Resized(@, new.columns)]
    IN  [t EXCEPT
           !.rows = [r \in 0..new.rows - 1 |->
                       IF r + prefix < height THEN sized(t.rows[r + prefix]) ELSE blank(r)],
           !.lines = @ + new.rows,
           !.history = IF primary
                       THEN Archived(@, [i \in 1..prefix |-> t.rows[i - 1]]) ELSE @,
           !.row = Bounded(@ - prefix, 0, new.rows - 1),
           !.col = Bounded(@, 0, new.columns - 1),
           !.saved = IF @.valid
                     THEN [@ EXCEPT !.row = Bounded(saved, 0, new.rows - 1),
                                    !.col = Bounded(@, 0, new.columns - 1),
                                    !.pending = @ /\ saved \in 0..new.rows - 1,
                                    !.origin = FALSE]
                     ELSE [@ EXCEPT !.row = saved],
           !.top = 0, !.bottom = new.rows - 1, !.left = 0, !.right = new.columns - 1,
           !.origin = FALSE]

ResizedScreen(s, new, primary) ==
    Fitted(IF new.columns = size.columns THEN s
           ELSE IF primary THEN Reflowed(s, new.columns)
           ELSE Unwrapped(s), new, primary)

Resize == \E new \in Resizes :                              \* apply_grid_resize
    /\ new # size /\ calls < MaxCalls
    /\ calls' = calls + 1
    /\ size' = new
    /\ screen' = [b \in Buffers |-> ResizedScreen(screen[b], new, b = "primary")]
    /\ UNCHANGED <<active, autowrap, marginMode, styled, alternateMode, saved1049>>

ResizeNext == Control \/ Resize
ResizeSpec == Init /\ [][ResizeNext]_vars
-------------------------------------------------------------------------------
(***************************************************************************)
(* What a reader of the screen and its history sees: glyphs, and a line    *)
(* break after every row that is not soft-wrapped.                         *)
(***************************************************************************)
LineBreak == [glyph |-> Space, natural |-> 0]
Gap       == [glyph |-> Space, natural |-> 1]       \* written or not
Here      == [glyph |-> Space, natural |-> 3]       \* a cursor

Seen(cells, n) ==
    LET glyphs == Glyphed(cells, n)
    IN  [i \in DOMAIN glyphs |-> [glyph |-> glyphs[i].glyph, natural |-> Natural(glyphs[i])]]

RowText(row) ==
    Seen(row.cells, Extent(row)) \o (IF row.wrap > 0 THEN <<>> ELSE <<LineBreak>>)

\* The text of the history and of the first n rows.
TextAbove(s, n) ==
    FlattenSeq([i \in DOMAIN s.history |-> RowText(s.history[i])]) \o
    FlattenSeq([i \in 1..n |-> RowText(s.rows[i - 1])])

\* Without the gaps at the end of a line and the line breaks at the end of all.
Visible(text) ==
    LET seen(i)  == text[i] \notin {Gap, LineBreak}
        last     == Max({0} \cup {i \in DOMAIN text : seen(i)})
        kept(i)  == text[i] = Gap =>
                      \E j \in i + 1..last : seen(j) /\ \A k \in i + 1..j - 1 : text[k] = Gap
        places   == SelectSeq([i \in 1..last |-> i], kept)
    IN  [i \in DOMAIN places |-> text[places[i]]]

Text(s) == Visible(TextAbove(s, Cardinality(DOMAIN s.rows)))

\* The gap behind a row's text counts only where no other row goes on.
TextBeforeCursor(s) ==
    LET row    == s.rows[s.row]
        joined == s.row + 1 \in DOMAIN s.rows /\ row.wrap > 0
        end    == s.col + (IF s.pending THEN 1 ELSE 0)
        upTo   == IF joined THEN Least(end, Extent(row)) ELSE end
        whole  == upTo - (IF upTo > 0 /\ row.cells[upTo - 1].kind = "lead" THEN 1 ELSE 0)
    IN  Visible(TextAbove(s, s.row) \o Seen(row.cells, whole) \o <<Here>>)

Recorded ==
    Len(screen'["primary"].history) < ScrollbackLimit

\* Reflow neither drops, doubles nor reorders text, and the text before the cursor
\* stays before it.  With room in the history, what is lost by a resize is the end of
\* the text, in the rows below the cursor that the smaller grid has no place for; and
\* what a program prints next goes where it would have gone, a cursor between the
\* halves of a wide glyph excepted only in that it stays before the glyph
\* (reflow_primary_rows, cursor_offset, map_position, resize_buffer_state,
\* terminal_screen_model.cpp:4378-4826).
ResizeKeepsText ==
    [][Resize /\ Recorded =>
         /\ IsPrefix(Text(screen'["primary"]), Text(screen["primary"]))
         /\ TextBeforeCursor(screen'["primary"]) = TextBeforeCursor(screen["primary"])]_vars
================================================================================
