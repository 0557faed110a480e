SPECIFICATION ResizeSpec
CONSTANTS
    Glyphs = {"a", " "}
    Sizes <- MCSizes
    Resizes <- MCResizes
    Printed <- MCPrinted
    Corners <- MCCorners
    TabWidth = 2
    ScrollbackLimit = 4
    MaxCalls = 3
CHECK_DEADLOCK FALSE
INVARIANTS
    WholeSpans
PROPERTIES
    WrapsStay
    MarginsHold
    ResizeKeepsText
