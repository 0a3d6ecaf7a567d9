\* A header of a start mark and a length.  Two of the three byte values are
\* start characters; as lengths they announce packets of five to ten bytes,
\* and others that are too large.  Every stream of up to eleven bytes, cut
\* into pieces in every way.
CONSTANTS
    Width = 2
    Hash = 1
    Dollar = 2
    HeaderSize = 4
    MaxPacket = 10
    Letters = {0, 1, 2}
    MaxStream = 11
    MaxChunk = 2
SPECIFICATION FairSpec
INVARIANTS
    TypeOK
    BufferIsBounded
    DeliveredIsReceived
    SegmentationIndependence
    LostPacketsAreShadowed
PROPERTIES
    ScanEnds
\* The stream ends.
CHECK_DEADLOCK FALSE
