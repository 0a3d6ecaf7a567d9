\* Two vehicles over two connections, each with several requests, so that a
\* vehicle can change its connection and come back.
CONSTANTS
    c1 = c1
    c2 = c2
    v1 = v1
    v2 = v2
    Conns = {c1, c2}
    Callers = {c1, c2}
    Vins = {v1, v2}
    MaxRequests = 5
    MaxSessions = 5
    Delay = 0
SPECIFICATION FairSpec
INVARIANTS
    TypeOK
    LatestWins
    CloseMatchesRemoval
    WelcomedIsRegistered
    WelcomedIsProven
PROPERTIES
    RemovedIsDisconnected
\* When the requests are used up and every connection is gone, nothing is left.
CHECK_DEADLOCK FALSE
