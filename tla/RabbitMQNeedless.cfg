\* One caller and two connections: is a working connection ever replaced?
CONSTANTS
    p1 = p1
    Producers = {p1}
    MaxConns = 2
SPECIFICATION Spec
PROPERTIES
    NoNeedlessReconnect
