\* Two connections and two vehicles, which may share one: what becomes of the
\* sessions of a connection that dies.
CONSTANTS
    c1 = c1
    c2 = c2
    v1 = v1
    v2 = v2
    Conns = {c1, c2}
    Callers = {c1, c2}
    Vins = {v1, v2}
    MaxRequests = 4
    MaxSessions = 4
    Delay = 0
SPECIFICATION FairSpec
PROPERTIES
    DeadSessionIsDropped
CHECK_DEADLOCK FALSE
