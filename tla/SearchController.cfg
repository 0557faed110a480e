SPECIFICATION FairSpec
CONSTANTS
    Text = {a, b}
    Query = {a}
    a = a
    b = b
    First = a
    NoQuery = NoQuery
    None = None
    Hits <- MCHits
    Rows = 2
    RetainedLimit = 1
    MaxChanges = 3
INVARIANTS
    ResultIsCurrent
    SelectionSurvives
PROPERTIES
    SearchEnds
CHECK_DEADLOCK FALSE
