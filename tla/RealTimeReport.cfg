\* Reports with room for the largest fixed unit and two lists behind it, and
\* counts up to three.
CONSTANTS
    MaxReport = 40
    MaxCount = 3
SPECIFICATION Spec
INVARIANTS
    ReportTypeOK
    PartsAreAdjacent
    AnsweredIsParsed
    OverflowIsExplained
\* The walk ends.
CHECK_DEADLOCK FALSE
