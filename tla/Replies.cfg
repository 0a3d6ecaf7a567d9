\* Bytes of three bits, VINs of two of them: data units of lengths on both
\* sides of every limit in the parsers.
CONSTANTS
    Width = 3
    Hash = 1
    Dollar = 2
    HeaderSize = 9
    MaxPacket = 63
    VinSize = 2
    Space = 3
    Request = 7
    Accounts <- MCAccounts
    Clock <- MCClock
    Commands = {1, 2, 3, 5, 6}
    VinFields <- MCVinFields
    Bodies <- MCBodies
    MaxReplies = 2
SPECIFICATION RepliesSpec
INVARIANTS
    RepliesTypeOK
    RepliesScan
    RepliesMatch
    TimeIsEchoed
CHECK_DEADLOCK FALSE
