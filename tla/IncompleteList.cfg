\* Small reports: is an incomplete list the last thing that is parsed?
CONSTANTS
    MaxReport = 24
    MaxCount = 2
SPECIFICATION Spec
PROPERTIES
    IncompleteIsLast
CHECK_DEADLOCK FALSE
