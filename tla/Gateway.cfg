\* Two event loops, three workers, a channel of two: items overtake each
\* other, the channel fills, and a signal meets the server, its loops and
\* the workers in every position.
CONSTANTS
    w1 = w1
    w2 = w2
    w3 = w3
    l1 = l1
    l2 = l2
    Workers = {w1, w2, w3}
    Loops = {l1, l2}
    Capacity = 2
    MaxItems = 4
SPECIFICATION GatewayFairSpec
INVARIANTS
    GatewayTypeOK
    AtMostOnce
    BoundedOvertaking
    StopQuiesces
    ServerStopsFirst
    ProducerClosesLast
PROPERTIES
    ImplementsRelay
    GatewayExits
    AcceptedIsSettled
\* The process ends.
CHECK_DEADLOCK FALSE
