--------------------------- MODULE PacketScanner ---------------------------
(***************************************************************************)
(* Cutting the byte stream of a connection into packets: the buffer and    *)
(* the loop of OnTraffic (internal/server/tcp_server.go) around SplitFunc  *)
(* (internal/protocol/gbt32960/decoder.go).                                *)
(*                                                                         *)
(* A step of the loop is one call of SplitFunc and what OnTraffic does     *)
(* with its answer.  OnTraffic is the only caller and never passes atEOF.  *)
(***************************************************************************)
EXTENDS PacketFormat

CONSTANTS Letters,   \* bound of the model: the byte values received
          MaxStream, \* bound of the model: bytes ever received
          MaxChunk   \* bound of the model: bytes received at once

ASSUME LettersAssumption == Letters \subseteq Byte

VARIABLES stream,    \* history: every byte received
          buffer,    \* ctx.buffer
          scanning,  \* OnTraffic's loop is running
          delivered  \* packets handed to HandleMessage, and where they began

vars == <<stream, buffer, scanning, delivered>>

Consumed == Len(stream) - Len(buffer)

Init == stream = <<>> /\ buffer = <<>> /\ scanning = FALSE /\ delivered = <<>>

-----------------------------------------------------------------------------
(* OnTraffic.                                                              *)

Advance(k) == /\ scanning
              /\ buffer' = SubSeq(buffer, k + 1, Len(buffer))
              /\ UNCHANGED <<stream, scanning>>

\* Mutant of Receive: the bytes read last time are still in the event loop's
\* own buffer, and are read again.
ReceivePeeked ==
    /\ ~scanning
    /\ \E chunk \in BoundedSeq(Letters, MaxChunk) \ {<<>>} :
           /\ Len(stream) + Len(chunk) <= MaxStream
           /\ stream' = stream \o chunk
           /\ buffer' = buffer \o stream'
    /\ scanning' = TRUE
    /\ UNCHANGED delivered

\* Next(-1) returned some bytes: they go behind what was left.
Receive ==
    /\ ~scanning
    /\ \E chunk \in BoundedSeq(Letters, MaxChunk) \ {<<>>} :
           /\ Len(stream) + Len(chunk) <= MaxStream
           /\ stream' = stream \o chunk
           /\ buffer' = buffer \o chunk
    /\ scanning' = TRUE
    /\ UNCHANGED delivered

\* Mutant of DropGarbage: the last byte goes too.
DropAll == /\ Starts(buffer) = {}
           /\ Len(buffer) > 1
           /\ Advance(Len(buffer))
           /\ UNCHANGED delivered

\* No start mark: all but the last byte, which may be half of one.
DropGarbage == /\ Starts(buffer) = {}
               /\ Len(buffer) > 1
               /\ Advance(Len(buffer) - 1)
               /\ UNCHANGED delivered

SkipToStart == /\ ~IsStart(buffer, 1)
               /\ \E first \in Starts(buffer) :
                      /\ \A other \in Starts(buffer) : first <= other
                      /\ Advance(first - 1)
               /\ UNCHANGED delivered

\* Mutant of SkipStart: a packet with a bad checksum is skipped as a whole.
SkipPacket == /\ HasHeader(buffer)
              /\ \/ TooLarge(buffer) /\ Advance(2)
                 \/ /\ Complete(buffer) /\ ~VerifyChecksum(Packet(buffer))
                    /\ Advance(TotalLen(buffer))
              /\ UNCHANGED delivered

\* What looked like a header was none: try again behind its start mark.
SkipStart == /\ HasHeader(buffer)
             /\ \/ TooLarge(buffer)
                \/ Complete(buffer) /\ ~VerifyChecksum(Packet(buffer))
             /\ Advance(2)
             /\ UNCHANGED delivered

\* Mutant of Deliver: the checksum is not looked at.
DeliverUnverified == /\ Complete(buffer)
                     /\ Advance(TotalLen(buffer))
                     /\ delivered' = Append(delivered,
                                            [at |-> Consumed + 1, packet |-> Packet(buffer)])

Deliver == /\ Complete(buffer)
           /\ VerifyChecksum(Packet(buffer))
           /\ Advance(TotalLen(buffer))
           /\ delivered' = Append(delivered,
                                  [at |-> Consumed + 1, packet |-> Packet(buffer)])

\* advance <= 0 and no token: OnTraffic returns.  (On an empty buffer the
\* advance is -1.)
NeedMore == \/ Starts(buffer) = {} /\ Len(buffer) <= 1
            \/ IsStart(buffer, 1) /\ Len(buffer) < HeaderSize
            \/ HasHeader(buffer) /\ ~TooLarge(buffer) /\ Len(buffer) < TotalLen(buffer)

\* Mutant of Return: OnTraffic goes on until nothing is left.
ReturnWhenEmpty == /\ scanning
                   /\ buffer = <<>>
                   /\ scanning' = FALSE
                   /\ UNCHANGED <<stream, buffer, delivered>>

Return == /\ scanning
          /\ NeedMore
          /\ scanning' = FALSE
          /\ UNCHANGED <<stream, buffer, delivered>>

Scan == DropGarbage \/ SkipToStart \/ SkipStart \/ Deliver \/ Return

Next == Receive \/ Scan

Spec == Init /\ [][Next]_vars

(* OnTraffic's loop runs until it breaks.  No peer has to send.            *)
FairSpec == Spec /\ WF_vars(Scan)

-----------------------------------------------------------------------------
(* Correctness.                                                            *)

TypeOK == /\ stream \in Seq(Byte)
          /\ buffer \in Seq(Byte)
          /\ scanning \in BOOLEAN
          /\ delivered \in Seq([at : Nat \ {0}, packet : Seq(Byte)])
          /\ Len(buffer) <= Len(stream)

(* Between two callbacks a connection keeps less than one packet of the    *)
(* largest size, whatever it has been sent (the limit at decoder.go:87).   *)
BufferIsBounded == ~scanning => Len(buffer) < MaxPacket

From(i) == SubSeq(stream, i, Len(stream))

(* Every packet handed on is a piece of the stream with a start mark and a *)
(* matching checksum, and no byte belongs to two packets.                  *)
DeliveredIsReceived ==
    /\ \A k \in DOMAIN delivered :
           LET d == delivered[k]
           IN  /\ Complete(From(d.at)) /\ d.packet = Packet(From(d.at))
               /\ VerifyChecksum(d.packet)
               /\ d.at + Len(d.packet) - 1 <= Consumed
    /\ \A k \in 2 .. Len(delivered) :
           delivered[k - 1].at + Len(delivered[k - 1].packet) <= delivered[k].at

(* How TCP cuts the stream into pieces does not matter: after every        *)
(* callback the packets handed on are those of the stream in one piece.    *)
SegmentationIndependence == ~scanning => delivered = PacketsOf(stream)

(* A packet that arrived whole and was not handed on is excused: it lies   *)
(* in one that was, it waits behind a header that announces more, or its   *)
(* start mark ran on from an equal byte before it (decoder.go:104-108      *)
(* steps over both bytes of a false start).                                *)
LostPacketsAreShadowed ==
    ~scanning =>
        \A i \in {j \in Starts(stream) : /\ Complete(From(j))
                                         /\ VerifyChecksum(Packet(From(j)))} :
            \/ \E k \in DOMAIN delivered :
                   i \in delivered[k].at .. delivered[k].at + Len(delivered[k].packet) - 1
            \/ i > Consumed + 1 /\ HasHeader(buffer)
            \/ IsStart(stream, i - 1)

(* OnTraffic comes to an end on everything it is sent, or the event loop   *)
(* would be lost to all its connections: the loop's two ways to go on      *)
(* (tcp_server.go:109 and :115) always use up some of the buffer.          *)
ScanEnds == scanning ~> ~scanning
=============================================================================
