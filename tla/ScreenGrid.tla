------------------------------- MODULE ScreenGrid -------------------------------
(***************************************************************************)
(* Terminal_screen_model: the primary and the alternate grid, the cursor,   *)
(* the margins and the scrollback, and every control function a program     *)
(* may send.  Each action is the handler of one control function, from its  *)
(* guard to the repair of the row it changed.                               *)
(*                                                                          *)
(* A screen of this module is a screen_buffer_state_t.  The code keeps the  *)
(* active buffer's cursor, margins and modes in members of their own and    *)
(* copies them in and out when the buffers are exchanged; here they stay    *)
(* where they are.  ScreenResize adds the resize.                           *)
(*                                                                          *)
(* Left out: images, selective erase and character protection, attribute    *)
(* changes, programmed tab stops, the recovery of repaints into history,    *)
(* and what a backend that owns its screens (ConPTY) does differently.      *)
(***************************************************************************)
EXTENDS ScreenRow, Sequences

CONSTANTS
    Sizes,              \* the sizes of the grid to start from
    Printed(_),         \* what a program can leave in a grid of that size: cells,
                        \* soft wraps, cursor and horizontal margins
    Corners,            \* of the rectangles, counted from one
    TabWidth,           \* the columns from one tab stop to the next (8 in the code)
    ScrollbackLimit,    \* m_config.scrollback_limit
    MaxCalls            \* the control functions of one behaviour

(***************************************************************************)
(* What a program has printed fits in the grid: its rows are whole, the     *)
(* last one continues nowhere, and the margins are two columns apart or     *)
(* those of the grid.                                                       *)
(***************************************************************************)
PrintedFits(sz, p) ==
    LET rows == 0..sz.rows - 1
        last == sz.columns - 1
    IN  /\ \A r \in rows : p.cells[r] \in Cells(sz.columns) /\ Whole(p.cells[r])
        /\ \A r \in rows : p.wraps[r] \in Nat
        /\ p.wraps[sz.rows - 1] = 0
        /\ p.row \in rows /\ p.col \in 0..last /\ p.pending \in BOOLEAN
        /\ p.left \in 0..last /\ p.right \in 0..last
        /\ \/ p.left < p.right
           \/ p.left = 0 /\ p.right = last

ASSUME SizesAssumption ==
    Sizes \subseteq [rows : Nat \ {0}, columns : Nat \ {0}]
ASSUME PrintedAssumption ==
    \A sz \in Sizes : \A p \in Printed(sz) : PrintedFits(sz, p)
ASSUME CornersAssumption == Corners \subseteq Nat \X Nat

Buffers == {"primary", "alternate"}
NoLine  == 0            \* of a row that continues in no row

VARIABLES
    size,               \* m_config.grid_size
    screen,             \* the two screen_buffer_state_t
    active,             \* m_active_buffer_id
    autowrap,           \* m_modes.autowrap
    marginMode,         \* m_horizontal_margin_mode
    styled,             \* the current style is not the default one
    alternateMode,      \* m_active_alternate_mode
    saved1049,          \* m_dec_1049_saved_primary_cursor
    calls

vars == <<size, screen, active, autowrap, marginMode, styled, alternateMode,
          saved1049, calls>>
modes == <<size, active, autowrap, marginMode, styled, alternateMode, saved1049>>

Rows    == 0..size.rows - 1
Columns == 0..size.columns - 1
LastRow    == size.rows - 1
LastColumn == size.columns - 1

Bounded(x, low, high) == IF x < low THEN low ELSE IF x > high THEN high ELSE x

(***************************************************************************)
(* A row: its cells, soft_wrap_columns, its retained_line_id, and the id of *)
(* the row its text went on to when it was soft-wrapped, which the code     *)
(* does not keep: it takes the row below for it.                            *)
(***************************************************************************)
RowOf(n) == [cells : Cells(n), wrap : Nat, line : Nat, next : Nat]
Saved == [valid : BOOLEAN, row : Int, col : Nat, pending : BOOLEAN, origin : BOOLEAN,
          styled : BOOLEAN]
NotSaved == [valid |-> FALSE, row |-> 0, col |-> 0, pending |-> FALSE, origin |-> FALSE,
             styled |-> FALSE]

EmptyRow(line) ==
    [cells |-> EmptyCells(size.columns, Blank), wrap |-> 0, line |-> line, next |-> NoLine]

EmptyScreen(line) ==                                        \* make_empty_buffer_state
    [rows    |-> [r \in Rows |-> EmptyRow(line + r)],
     row     |-> 0, col |-> 0, pending |-> FALSE,
     top     |-> 0, bottom |-> LastRow, left |-> 0, right |-> LastColumn,
     origin  |-> FALSE, saved |-> NotSaved,
     lines   |-> line + size.rows,
     history |-> <<>>]

\* A screen on which p was printed.
PrintedScreen(p) ==
    LET empty == EmptyScreen(1)
    IN  [empty EXCEPT
           !.rows = [r \in Rows |->
              [@[r] EXCEPT !.cells = p.cells[r], !.wrap = p.wraps[r],
                 !.next = IF p.wraps[r] > 0 THEN empty.rows[r + 1].line ELSE NoLine]],
           !.row = p.row, !.col = p.col, !.pending = p.pending,
           !.left = p.left, !.right = p.right]

Init ==
    /\ size \in Sizes
    /\ \E p \in Printed(size) :
         /\ screen = [b \in Buffers |->
                        IF b = "primary" THEN PrintedScreen(p) ELSE EmptyScreen(1)]
         /\ marginMode = (<<p.left, p.right>> # <<0, LastColumn>>)
    /\ active = "primary" /\ autowrap = TRUE /\ styled = FALSE
    /\ alternateMode = 0 /\ saved1049 = FALSE /\ calls = 0
-------------------------------------------------------------------------------
(***************************************************************************)
(* Margins and cursor.                                                     *)
(***************************************************************************)
Fill == IF styled THEN Narrow(Space) ELSE Blank             \* erased_cell

ActiveLeft(s)  == IF marginMode THEN s.left ELSE 0
ActiveRight(s) == IF marginMode THEN s.right ELSE LastColumn
FullWidth(s)   == ActiveLeft(s) = 0 /\ ActiveRight(s) = LastColumn

CursorLeft(s)  == IF s.col >= ActiveLeft(s) THEN ActiveLeft(s) ELSE 0
CursorRight(s) == IF s.col <= ActiveRight(s) THEN ActiveRight(s) ELSE LastColumn

InColumns(s) == s.col \in ActiveLeft(s)..ActiveRight(s)
InRegion(s)  == s.row \in s.top..s.bottom /\ InColumns(s)

SetCursorPosition(s, row, col) ==
    [s EXCEPT !.row = Bounded(row, 0, LastRow), !.col = Bounded(col, 0, LastColumn),
              !.pending = FALSE]

\* row and col count from zero, as the parameters less one do.
SetCursorAddress(s, row, col) ==
    SetCursorPosition(s,
        IF s.origin THEN Bounded(s.top + row, s.top, s.bottom) ELSE row,
        IF s.origin /\ marginMode THEN Bounded(s.left + col, s.left, s.right) ELSE col)

MoveCursorRelative(s, down, across) ==
    SetCursorPosition(s,
        IF down # 0 /\ s.row \in s.top..s.bottom
        THEN Bounded(s.row + down, s.top, s.bottom) ELSE s.row + down,
        IF across # 0 /\ s.origin /\ marginMode /\ s.col \in s.left..s.right
        THEN Bounded(s.col + across, s.left, s.right) ELSE s.col + across)

CarriageReturn(s) == [s EXCEPT !.col = CursorLeft(s), !.pending = FALSE]

AfterCell(s, row, col, width) ==                            \* set_cursor_after_cell
    LET right == CursorRight(s)
        full  == width >= right + 1 - col
    IN  [s EXCEPT !.row = row, !.col = IF full THEN right ELSE col + width,
                  !.pending = full /\ autowrap]
-------------------------------------------------------------------------------
(***************************************************************************)
(* Scrolling.                                                              *)
(***************************************************************************)
BreaksNothing(s, row) == s      \* mutant: the row above keeps its wrap

BreakSoftWrapBefore(s, row) ==
    IF row > 0 THEN [s EXCEPT !.rows[row - 1].wrap = 0] ELSE s

ErasedRow(line) ==              \* replace_row_with_erased_retained_line
    [cells |-> EmptyCells(size.columns, Fill), wrap |-> 0, line |-> line, next |-> NoLine]

\* append_scrollback_row for each of the rows, then the row limit.
Archived(history, rows) ==
    LET all  == history \o rows
        over == Len(all) - ScrollbackLimit
    IN  IF over > 0 THEN SubSeq(all, over + 1, Len(all)) ELSE all

\* replace_row_segment, or a whole row erased, for the region's rows: row r
\* takes what is in row r + shift.
MovedSegments(s, top, bottom, shift) ==
    [r \in Rows |->
       IF r \notin top..bottom THEN s.rows[r]
       ELSE LET src == IF r + shift \in top..bottom THEN s.rows[r + shift].cells
                       ELSE EmptyCells(size.columns, Fill)
            IN  [s.rows[r] EXCEPT
                   !.cells = Segment(@, src, ActiveLeft(s), ActiveRight(s)),
                   !.wrap = 0]]

MovedRows(s, top, bottom, shift) ==
    [r \in Rows |->
       IF r \notin top..bottom THEN s.rows[r]
       ELSE IF r + shift \in top..bottom THEN s.rows[r + shift]
       ELSE ErasedRow(s.lines + r - top)]

\* n rows of the region are lost (down: n < 0) and as many erased rows appear.
Shifted(s, top, bottom, shift) ==
    IF FullWidth(s)
    THEN [s EXCEPT !.rows = MovedRows(s, top, bottom, shift),
                   !.lines = @ + bottom - top + 1]
    ELSE [s EXCEPT !.rows = MovedSegments(s, top, bottom, shift)]

ScrollUpRegion(s, top, bottom, archive, count) ==
    LET n       == Bounded(count, 1, bottom - top + 1)
        broken  == BreakSoftWrapBefore(s, top)
        leaving == [i \in 1..n |-> broken.rows[top + i - 1]]
        moved   == Shifted(broken, top, bottom, n)
    IN  IF FullWidth(s)
        THEN IF archive THEN [moved EXCEPT !.history = Archived(@, leaving)] ELSE moved
        ELSE BreakSoftWrapBefore(moved, bottom + 1)

ScrollDownRegion(s, top, bottom, count) ==
    LET n == Bounded(count, 1, bottom - top + 1)
    IN  BreakSoftWrapBefore(Shifted(BreakSoftWrapBefore(s, top), top, bottom, -n),
                            bottom + 1)

ScrollActiveRegionUp(s) ==
    ScrollUpRegion(s, s.top, s.bottom,
                   active = "primary" /\ s.top = 0 /\ FullWidth(s), 1)

AdvanceRow(s) ==
    LET t == [s EXCEPT !.pending = FALSE]
    IN  IF t.row = t.bottom /\ InColumns(t) THEN ScrollActiveRegionUp(t)
        ELSE IF t.row < LastRow THEN [t EXCEPT !.row = @ + 1] ELSE t

LineFed(s) == AdvanceRow([s EXCEPT !.rows[s.row].wrap = 0])

\* The row the text goes on to: a new one when the region scrolls, none when
\* the cursor is below the region in the last row and stays there.
NextLine(s) ==
    IF s.row = s.bottom /\ InColumns(s)
    THEN IF FullWidth(s) THEN s.lines + s.bottom - s.top ELSE NoLine
    ELSE IF s.row < LastRow THEN s.rows[s.row + 1].line ELSE NoLine

WrapLine(s) ==
    LET hard == CursorLeft(s) # 0 \/ (InColumns(s) /\ ~FullWidth(s))
        columns == IF hard THEN 0 ELSE IF s.pending THEN CursorRight(s) + 1 ELSE s.col
    IN  CarriageReturn(AdvanceRow(
          [s EXCEPT !.rows[s.row].wrap = columns, !.rows[s.row].next = NextLine(s)]))
-------------------------------------------------------------------------------
(***************************************************************************)
(* Printing.  Text is printed a glyph at a time; a glyph of natural width 2 *)
(* is shown in one cell where two do not fit between the margins.          *)
(***************************************************************************)
Installed(s, row, col, g, width, natural) ==                \* install_cell_span
    [s EXCEPT !.rows[row].cells = InstallSpan(@, col, Base(g, width, natural))]

PutAt(s, col, g, width, natural) ==
    AfterCell(Installed(s, s.row, col, g, width, natural), s.row, col, width)

PutHere(s, g, width, natural) == PutAt(s, s.col, g, width, natural)

\* put_spacing_scalar, and put_single_width_text for one character.
PutFrom(s, g, width, natural) ==
    IF width <= CursorRight(s) + 1 - s.col THEN PutHere(s, g, width, natural)
    ELSE IF autowrap THEN PutHere(WrapLine(s), g, width, natural)
    ELSE s

Put(s, g, natural) ==
    PutFrom(IF autowrap /\ s.pending THEN WrapLine(s) ELSE s, g,
            IF natural > ActiveRight(s) - ActiveLeft(s) + 1 THEN 1 ELSE natural, natural)

\* append_zero_width_scalar: mark joins the glyph before the cursor, and what
\* they make together is natural cells wide.
Combined(s, mark, natural) ==
    LET cells  == s.rows[s.row].cells
        here   == \/ s.pending
                  \/ ~autowrap /\ s.col = CursorRight(s) /\ cells[s.col].kind # "blank"
        col    == BaseColumn(cells, IF here THEN s.col ELSE s.col - 1)
        width  == IF natural > size.columns THEN 1 ELSE natural
        room   == CursorRight(s) + 1 - col
        shown  == IF width > room THEN 1 ELSE width
        g      == IF cells[col].glyph = Space THEN mark ELSE cells[col].glyph
        gone   == WrapLine([s EXCEPT
                              !.rows[s.row].cells = ClearSpans(@, col, col, Blank),
                              !.col = col, !.pending = FALSE])
    IN  IF \/ ~here /\ s.col = CursorLeft(s)
           \/ col < CursorLeft(s)
           \/ cells[col].kind = "blank"
        THEN s
        ELSE IF width > room /\ autowrap
        THEN PutHere(gone, g, width, natural)
        ELSE PutAt(s, col, g, shown, natural)
-------------------------------------------------------------------------------
(***************************************************************************)
(* Erasing and editing within rows.                                        *)
(***************************************************************************)
EraseRowRange(s, row, first, last) ==
    LET to == Bounded(last, 0, LastColumn)
    IN  [s EXCEPT !.rows[row].cells = ClearSpans(@, first, to, Fill),
                  !.rows[row].wrap = IF to = LastColumn THEN 0 ELSE @]

\* The rows in the set are erased from end to end.
ErasedRows(s, erased) ==
    [s EXCEPT !.rows = [r \in Rows |->
       IF r \in erased
       THEN [s.rows[r] EXCEPT !.cells = EmptyCells(size.columns, Fill), !.wrap = 0]
       ELSE s.rows[r]]]

EraseInLineOf(s, mode) ==
    CASE mode = 0 -> EraseRowRange(s, s.row, s.col, LastColumn)
      [] mode = 1 -> EraseRowRange(s, s.row, 0, s.col)
      [] mode = 2 -> EraseRowRange(s, s.row, 0, LastColumn)

EraseInDisplayOf(s, mode) ==
    LET t == [s EXCEPT !.pending = FALSE]
    IN  CASE mode = 0 -> ErasedRows(EraseRowRange(t, t.row, t.col, LastColumn),
                                    t.row + 1..LastRow)
          [] mode = 1 -> ErasedRows(EraseRowRange(t, t.row, 0, t.col), 0..t.row - 1)
          [] mode = 2 -> ErasedRows(t, Rows)
          [] mode = 3 -> t

EraseCharactersOf(s, count) ==
    EraseRowRange([s EXCEPT !.pending = FALSE], s.row, s.col,
                  s.col + Bounded(count, 1, size.columns - s.col) - 1)

\* The count of cells or columns from the cursor to the right margin.
EditCount(s, count) == Bounded(count, 1, CursorRight(s) + 1 - s.col)

InsertCellsAt(s, count) ==
    IF InColumns(s)
    THEN [s EXCEPT !.rows[s.row].cells =
                     InsertInRow(@, s.col, EditCount(s, count), CursorRight(s) + 1, Fill),
                   !.pending = FALSE]
    ELSE [s EXCEPT !.pending = FALSE]

DeleteCellsAt(s, count) ==
    IF InColumns(s)
    THEN [s EXCEPT !.rows[s.row].cells =
                     DeleteInRow(@, s.col, EditCount(s, count), CursorRight(s) + 1, Fill),
                   !.pending = FALSE]
    ELSE s

ShiftColumns(s, first, count, insert) ==
    IF s.row \in s.top..s.bottom /\ first \in ActiveLeft(s)..ActiveRight(s)
    THEN LET end == ActiveRight(s) + 1
             n   == Bounded(count, 1, end - first)
             t   == [s EXCEPT !.pending = FALSE,
                       !.rows = [r \in Rows |->
                          IF r \in s.top..s.bottom
                          THEN [s.rows[r] EXCEPT
                                  !.cells = ShiftInRow(@, first, n, end, insert), !.wrap = 0]
                          ELSE s.rows[r]]]
         IN  BreakSoftWrapBefore(BreakSoftWrapBefore(t, s.top), s.bottom + 1)
    ELSE s
-------------------------------------------------------------------------------
(***************************************************************************)
(* Inserting and deleting rows, and indexing.                              *)
(***************************************************************************)
InsertLinesAt(s, count) ==
    IF InRegion(s)
    THEN LET t == BreakSoftWrapBefore(SetCursorPosition(s, s.row, ActiveLeft(s)), s.row)
             n == Bounded(count, 1, s.bottom - s.row + 1)
         IN  BreakSoftWrapBefore(Shifted(t, s.row, s.bottom, -n), s.bottom + 1)
    ELSE s

DeleteLinesAt(s, count) ==
    IF InRegion(s)
    THEN LET t == BreakSoftWrapBefore(SetCursorPosition(s, s.row, ActiveLeft(s)), s.row)
             n == Bounded(count, 1, s.bottom - s.row + 1)
         IN  Shifted(BreakSoftWrapBefore(t, s.bottom + 1), s.row, s.bottom, n)
    ELSE s

ReverseIndexed(s) ==
    LET t == [s EXCEPT !.pending = FALSE]
    IN  IF s.row = s.top /\ InColumns(s) THEN ScrollDownRegion(t, s.top, s.bottom, 1)
        ELSE IF s.row > 0 THEN [t EXCEPT !.row = @ - 1] ELSE t

BackIndexed(s) ==
    IF s.col = ActiveLeft(s) /\ s.col > 0 /\ s.row \in s.top..s.bottom
    THEN ShiftColumns(s, ActiveLeft(s), 1, TRUE)
    ELSE MoveCursorRelative(s, 0, -1)

ForwardIndexed(s) ==
    IF s.col = ActiveRight(s) /\ s.col < LastColumn /\ s.row \in s.top..s.bottom
    THEN ShiftColumns(s, ActiveLeft(s), 1, FALSE)
    ELSE MoveCursorRelative(s, 0, 1)
-------------------------------------------------------------------------------
(***************************************************************************)
(* Rectangles, within the margins in origin mode.                          *)
(***************************************************************************)
AreaRows(s) == IF s.origin THEN s.bottom - s.top + 1 ELSE size.rows
AreaColumns(s) ==
    IF s.origin /\ marginMode THEN s.right - s.left + 1 ELSE size.columns
RowOrigin(s)    == IF s.origin THEN s.top ELSE 0
ColumnOrigin(s) == IF s.origin /\ marginMode THEN s.left ELSE 0

\* rectangular_area; the parameters count from one.
Area(s, top, left, bottom, right) ==
    [top    |-> Bounded(top, 1, AreaRows(s)) - 1 + RowOrigin(s),
     left   |-> Bounded(left, 1, AreaColumns(s)) - 1 + ColumnOrigin(s),
     bottom |-> Bounded(bottom, 1, AreaRows(s)) - 1 + RowOrigin(s),
     right  |-> Bounded(right, 1, AreaColumns(s)) - 1 + ColumnOrigin(s)]

CopyArea(s, a, top, left) ==
    LET toRow == Bounded(top, 1, AreaRows(s)) - 1 + RowOrigin(s)
        toCol == Bounded(left, 1, AreaColumns(s)) - 1 + ColumnOrigin(s)
        rows  == Bounded(a.bottom - a.top + 1, 0, RowOrigin(s) + AreaRows(s) - toRow)
        cols  == Bounded(a.right - a.left + 1, 0, ColumnOrigin(s) + AreaColumns(s) - toCol)
    IN  [s EXCEPT !.rows = [r \in Rows |->
           IF r \in toRow..toRow + rows - 1
           THEN [s.rows[r] EXCEPT
                   !.cells = CopyInRow(@, s.rows[a.top + r - toRow].cells, a.left, toCol, cols),
                   !.wrap = IF toCol + cols = size.columns THEN 0 ELSE @]
           ELSE s.rows[r]]]

FillArea(s, a, cell) ==
    [s EXCEPT !.rows = [r \in Rows |->
       IF r \in a.top..a.bottom
       THEN [s.rows[r] EXCEPT !.cells = FillInRow(@, a.left, a.right, cell),
                              !.wrap = IF a.right = LastColumn THEN 0 ELSE @]
       ELSE s.rows[r]]]

EraseArea(s, a) ==
    [s EXCEPT !.rows = [r \in Rows |->
       IF r \in a.top..a.bottom
       THEN [s.rows[r] EXCEPT
               !.cells = ClearSpans(@, a.left, a.right, Blank),
               !.wrap = IF a.right = LastColumn /\ s.rows[r].cells[LastColumn] # Blank
                        THEN 0 ELSE @]
       ELSE s.rows[r]]]
-------------------------------------------------------------------------------
(***************************************************************************)
(* The control functions.                                                  *)
(***************************************************************************)
S == screen[active]

Become(s) ==
    /\ calls < MaxCalls
    /\ calls' = calls + 1
    /\ screen' = [screen EXCEPT ![active] = s]

Do(s) == Become(s) /\ UNCHANGED modes

Parameters(n) == 1..n               \* a count or a position; more is cut down to n

PrintGlyph     == \E g \in Glyphs, natural \in 1..2 : Do(Put(S, g, natural))
Combine        == \E g \in Glyphs, natural \in 1..2 : Do(Combined(S, g, natural))
Return         == Do(CarriageReturn(S))
LineFeed       == Do(LineFed(S))
NextLineSent   == Do(CarriageReturn(LineFed(S)))            \* ESC E
Backspace      == Do([S EXCEPT !.col = IF @ > CursorLeft(S) THEN @ - 1 ELSE @,
                               !.pending = FALSE])
\* To any of the stops to come, the ones before it having been cleared.
HorizontalTab  == \E col \in S.col..CursorRight(S) :
                    /\ col = CursorRight(S) \/ (col > S.col /\ col % TabWidth = 0)
                    /\ Do([S EXCEPT !.col = col, !.pending = FALSE])
CursorTo       == \E row \in Rows, col \in Columns : Do(SetCursorAddress(S, row, col))
CursorBy       == \E d \in {-1, 1} :
                    \/ Do(MoveCursorRelative(S, d, 0))
                    \/ Do(MoveCursorRelative(S, 0, d))
ColumnTo       == \E col \in Columns :                      \* CSI G
                    Do(SetCursorPosition(S, S.row,
                         IF S.origin /\ marginMode THEN Bounded(S.left + col, S.left, S.right)
                         ELSE col))
EraseInLine    == \E mode \in 0..2 : Do(EraseInLineOf(S, mode))
EraseInDisplay == \E mode \in 0..2 : Do(EraseInDisplayOf(S, mode))
\* Mode 3 clears the history, whichever screen is active.
EraseHistory   ==
    LET s == [screen EXCEPT ![active].pending = FALSE]
    IN  /\ calls < MaxCalls /\ calls' = calls + 1
        /\ screen' = [s EXCEPT !["primary"].history = <<>>]
        /\ UNCHANGED modes
EraseCharacters == \E n \in Parameters(size.columns) : Do(EraseCharactersOf(S, n))
InsertCells    == \E n \in Parameters(size.columns) : Do(InsertCellsAt(S, n))
DeleteCells    == \E n \in Parameters(size.columns) : Do(DeleteCellsAt(S, n))
InsertColumns  == \E n \in Parameters(size.columns) : Do(ShiftColumns(S, S.col, n, TRUE))
DeleteColumns  == \E n \in Parameters(size.columns) : Do(ShiftColumns(S, S.col, n, FALSE))
InsertLines    == \E n \in Parameters(size.rows) : Do(InsertLinesAt(S, n))
DeleteLines    == \E n \in Parameters(size.rows) : Do(DeleteLinesAt(S, n))
ScrollUp       == \E n \in Parameters(size.rows) :
                    Do(ScrollUpRegion(BreakSoftWrapBefore(S, S.bottom + 1), S.top, S.bottom,
                                      active = "primary" /\ S.top = 0, n))
ScrollDown     == \E n \in Parameters(size.rows) :
                    Do(ScrollDownRegion(S, S.top, S.bottom, n))
ReverseIndex   == Do(ReverseIndexed(S))
BackIndex      == Do(BackIndexed(S))
ForwardIndex   == Do(ForwardIndexed(S))

Rectangles == {a \in Corners \X Corners : a[1][1] <= a[2][1] /\ a[1][2] <= a[2][2]}
InArea(a) == Area(S, a[1][1], a[1][2], a[2][1], a[2][2])

CopyRectangle  == \E a \in Rectangles, to \in Corners : Do(CopyArea(S, InArea(a), to[1], to[2]))
FillRectangle  == \E a \in Rectangles, g \in Glyphs : Do(FillArea(S, InArea(a), Narrow(g)))
EraseRectangle == \E a \in Rectangles : Do(EraseArea(S, InArea(a)))
-------------------------------------------------------------------------------
(***************************************************************************)
(* Modes, the saved cursor and the alternate screen.                       *)
(***************************************************************************)
SetStyle == \E on \in BOOLEAN :
    /\ Become(S) /\ styled' = on
    /\ UNCHANGED <<size, active, autowrap, marginMode, alternateMode, saved1049>>

SetAutowrapMode == \E on \in BOOLEAN :
    /\ Become([S EXCEPT !.pending = @ /\ on])
    /\ autowrap' = on
    /\ UNCHANGED <<size, active, marginMode, styled, alternateMode, saved1049>>

SetOriginMode == \E on \in BOOLEAN :
    Do(SetCursorAddress([S EXCEPT !.origin = on], 0, 0))

SetScrollRegion == \E top, bottom \in Rows :
    /\ top < bottom
    /\ Do(SetCursorAddress([S EXCEPT !.top = top, !.bottom = bottom], 0, 0))

SetHorizontalMargins == \E left, right \in Columns :
    /\ marginMode /\ left < right
    /\ Do(SetCursorAddress([S EXCEPT !.left = left, !.right = right], 0, 0))

\* Turned off, both buffers forget their margins.
SetHorizontalMarginMode == \E on \in BOOLEAN :
    /\ on # marginMode /\ calls < MaxCalls
    /\ calls' = calls + 1
    /\ marginMode' = on
    /\ screen' = [b \in Buffers |->
         LET s == [screen[b] EXCEPT !.left = IF on THEN @ ELSE 0,
                                    !.right = IF on THEN @ ELSE LastColumn]
         IN  IF b = active THEN [s EXCEPT !.pending = FALSE] ELSE s]
    /\ UNCHANGED <<size, active, autowrap, styled, alternateMode, saved1049>>

CursorSaved(s) ==
    [s EXCEPT !.saved = [valid |-> TRUE, row |-> s.row, col |-> s.col,
                         pending |-> s.pending, origin |-> s.origin, styled |-> styled]]

CursorRestored(s) ==
    IF s.saved.valid
    THEN [s EXCEPT !.row = Bounded(s.saved.row, 0, LastRow),
                   !.col = Bounded(s.saved.col, 0, LastColumn),
                   !.pending = s.saved.pending, !.origin = s.saved.origin]
    ELSE s

StyleRestored(s) == IF s.saved.valid THEN s.saved.styled ELSE styled

SaveCursor == Do(CursorSaved(S))

RestoreCursor ==
    /\ Become(CursorRestored(S)) /\ styled' = StyleRestored(S)
    /\ UNCHANGED <<size, active, autowrap, marginMode, alternateMode, saved1049>>

EmptyAlternate == EmptyScreen(screen["alternate"].lines)
Clears(mode) == mode # 47

\* enter_alternate_screen, with what mode 1049 does before it.
EnterAlternate == \E mode \in {47, 1047, 1049} :
    LET saves == mode = 1049 /\ active = "primary"
    IN  /\ calls < MaxCalls /\ calls' = calls + 1
        /\ screen' = [screen EXCEPT
             !["primary"] = IF saves THEN CursorSaved(@) ELSE @,
             !["alternate"] = IF Clears(mode) THEN EmptyAlternate ELSE @]
        /\ active' = "alternate" /\ alternateMode' = mode
        /\ saved1049' = (saved1049 \/ saves)
        /\ UNCHANGED <<size, autowrap, marginMode, styled>>

\* leave_alternate_screen, with what mode 1049 does after it.
LeaveAlternate == \E mode \in {47, 1047, 1049} :
    LET leaves   == active = "alternate"
        restores == mode = 1049 /\ leaves /\ alternateMode = 1049 /\ saved1049
    IN  /\ calls < MaxCalls /\ calls' = calls + 1
        /\ screen' = [screen EXCEPT
             !["primary"] = IF restores THEN CursorRestored(@) ELSE @,
             !["alternate"] = IF leaves /\ Clears(mode) THEN EmptyAlternate ELSE @]
        /\ active' = "primary" /\ alternateMode' = 0
        /\ saved1049' = (saved1049 /\ ~leaves /\ mode # 1049)
        /\ styled' = IF restores THEN StyleRestored(screen["primary"]) ELSE styled
        /\ UNCHANGED <<size, autowrap, marginMode>>
-------------------------------------------------------------------------------
Moving  == \/ Return \/ LineFeed \/ NextLineSent \/ Backspace \/ HorizontalTab
           \/ CursorTo \/ CursorBy \/ ColumnTo \/ SaveCursor \/ RestoreCursor
Erasing == \/ EraseInLine \/ EraseInDisplay \/ EraseHistory \/ EraseCharacters
           \/ FillRectangle \/ EraseRectangle \/ CopyRectangle
\* What takes place within the margins.
Shifting == \/ InsertCells \/ DeleteCells \/ InsertColumns \/ DeleteColumns
            \/ InsertLines \/ DeleteLines \/ ScrollUp \/ ScrollDown
            \/ ReverseIndex \/ BackIndex \/ ForwardIndex
Setting == \/ SetStyle \/ SetAutowrapMode \/ SetOriginMode \/ SetScrollRegion
           \/ SetHorizontalMargins \/ SetHorizontalMarginMode
           \/ EnterAlternate \/ LeaveAlternate

\* The control functions, as the host sends them.
Control == PrintGlyph \/ Combine \/ Moving \/ Erasing \/ Shifting \/ Setting

Next == Control
Spec == Init /\ [][Next]_vars
-------------------------------------------------------------------------------
(***************************************************************************)
(* The type of the state, which is where nothing outside a row or a grid   *)
(* is ever indexed: the cursor and the margins are within the grid.        *)
(***************************************************************************)
ScreenOK(s) ==
    /\ DOMAIN s.rows = Rows
    /\ \A r \in Rows : s.rows[r] \in RowOf(size.columns)
    /\ s.row \in Rows /\ s.col \in Columns
    /\ s.pending \in BOOLEAN /\ s.origin \in BOOLEAN
    /\ s.top \in Rows /\ s.bottom \in Rows /\ s.top <= s.bottom
    /\ s.left \in Columns /\ s.right \in Columns /\ s.left <= s.right
    /\ s.saved \in Saved
    /\ s.lines \in Nat

TypeOK ==
    /\ size.rows \in Nat \ {0} /\ size.columns \in Nat \ {0}
    /\ DOMAIN screen = Buffers
    /\ \A b \in Buffers : ScreenOK(screen[b])
    /\ active \in Buffers /\ autowrap \in BOOLEAN /\ marginMode \in BOOLEAN
    /\ styled \in BOOLEAN /\ alternateMode \in {0, 47, 1047, 1049}
    /\ saved1049 \in BOOLEAN /\ calls \in Nat

\* No control function, and no sequence of them, leaves half of a wide glyph in
\* a row of either screen: cell_base_column_in_row, clear_cell_span_content and
\* the repairs around the moves (terminal_screen_model.cpp:6095-6150, 9384-9449).
WholeSpans ==
    \A b \in Buffers : \A r \in Rows : Whole(screen[b].rows[r].cells)

\* A soft wrap leads where the text went: the row below a soft-wrapped row is
\* the one its text was continued in ("this many cells continue into the next
\* row", terminal_screen_model.h:835).
WrapsLead ==
    \A b \in Buffers : \A r \in 0..LastRow - 1 :
      LET row == screen[b].rows[r]
      IN  row.wrap > 0 => row.next = screen[b].rows[r + 1].line

\* No control function makes a soft wrap lead astray, whatever rows it inserts,
\* deletes, moves or overwrites (break_soft_wrap_before and its callers,
\* terminal_screen_model.cpp:6818-6908, 7675-7853).
WrapsStay == [][size' = size /\ WrapsLead => WrapsLead']_vars

\* What moves within the margins leaves the cells outside them alone, all but
\* the half of a wide glyph whose other half was inside: shift_columns,
\* replace_row_segment, insert_cells and delete_cells
\* (terminal_screen_model.cpp:6741-6816, 7609-7853).
MarginsHold ==
    [][marginMode /\ Shifting => \A r \in Rows, c \in Columns :
         LET before == S.rows[r].cells
             after  == screen'[active].rows[r].cells
             inside == r \in S.top..S.bottom \cup {S.row} /\ c \in ActiveLeft(S)..ActiveRight(S)
         IN  \/ inside \/ after[c] = before[c]
             \/ /\ after[c] \in {Blank, Fill}
                /\ \E x \in Span(before, c) : x \in ActiveLeft(S)..ActiveRight(S)]_vars

================================================================================
