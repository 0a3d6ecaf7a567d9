\* Two connections reporting for the same vehicle.
CONSTANTS
    c1 = c1
    c2 = c2
    v1 = v1
    Conns = {c1, c2}
    Callers = {c1, c2}
    Vins = {v1}
    MaxRequests = 4
    MaxSessions = 4
    Delay = 0
SPECIFICATION Spec
PROPERTIES
    AutoRegisterOnlyMissing
CHECK_DEADLOCK FALSE
