\* The same instance, asked whether a sweep removes only what it judged.
CONSTANTS
    sw = sw
    a = a
    v1 = v1
    v2 = v2
    c1 = c1
    c2 = c2
    Callers = {sw, a}
    Sweeper = sw
    Vins = {v1, v2}
    Conns = {c1, c2}
    MaxSessions = 3
    Delay = 1
    Timeout = 1
    MaxClock = 2
SPECIFICATION Spec
PROPERTIES
    SweepClosesOnlyExpired
