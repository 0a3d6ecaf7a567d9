\* Two vehicles, a caller beside the sweeper, and time enough for a
\* session to expire, or to be refreshed in time; the proofs leave the clock open.
CONSTANTS
    sw = sw
    a = a
    v1 = v1
    v2 = v2
    c1 = c1
    c2 = c2
    Callers = {sw, a}
    Sweeper = sw
    Vins = {v1, v2}
    Conns = {c1, c2}
    MaxSessions = 3
    Delay = 1
    Timeout = 1
    MaxClock = 2
SPECIFICATION Spec
SYMMETRY SweepSymmetry
INVARIANTS
    TypeOK
    LatestWins
    CloseMatchesRemoval
    SweepLeavesNoExpired
PROPERTY
    ImplementsTable
