----------------------------- MODULE MCScreenResize -----------------------------
EXTENDS ScreenResize

Size(r, c) == [rows |-> r, columns |-> c]
MCSizes == {Size(3, 3)}
MCResizes == {Size(1, 3), Size(4, 3), Size(3, 1), Size(3, 2), Size(2, 4)}
MCCorners == {<<1, 2>>, <<2, 3>>}

a == Narrow("a")
b == Blank
W == Lead("a")

Of(r0, r1, r2) == [r \in 0..2 |-> [c \in 0..2 |-> (CASE r = 0 -> r0 [] r = 1 -> r1 [] r = 2 -> r2)[c + 1]]]
Wraps(w0, w1) == [r \in 0..2 |-> CASE r = 0 -> w0 [] r = 1 -> w1 [] r = 2 -> 0]

MCPrinted(sz) == {
    \* one line over three rows, a wide glyph pushed to the next row
    [cells |-> Of(<<a, a, b>>, <<W, Rest, a>>, <<W, Rest, b>>),
     wraps |-> Wraps(2, 3), row |-> 2, col |-> 2, pending |-> FALSE, left |-> 0, right |-> 2],
    \* one line over two rows, up to the margin
    [cells |-> Of(<<a, W, Rest>>, <<a, W, Rest>>, <<b, b, b>>),
     wraps |-> Wraps(3, 0), row |-> 1, col |-> 2, pending |-> TRUE, left |-> 0, right |-> 2],
    \* wide glyphs across the left margin
    [cells |-> Of(<<W, Rest, a>>, <<a, a, b>>, <<W, Rest, b>>),
     wraps |-> Wraps(0, 0), row |-> 1, col |-> 1, pending |-> FALSE, left |-> 1, right |-> 2]}
================================================================================
