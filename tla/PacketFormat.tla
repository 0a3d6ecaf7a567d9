---------------------------- MODULE PacketFormat ----------------------------
(***************************************************************************)
(* The frame of a packet: what SplitFunc (internal/protocol/gbt32960/      *)
(* decoder.go) and VerifyChecksum (packet.go) look at in a sequence of     *)
(* bytes.  The sizes are constants; of a packet's header only the start    *)
(* mark and the length count here.                                         *)
(***************************************************************************)
EXTENDS Integers, Sequences, FiniteSets, SequencesExt

CONSTANTS Width,      \* bits of a byte (8)
          Hash,       \* '#'
          Dollar,     \* '$'
          HeaderSize, \* HeaderFixedSize (24), its last two bytes the data length
          MaxPacket   \* maxPacketSize (65535)

\* Two to the power of k.
Power2[k \in 0 .. Width] == IF k = 0 THEN 1 ELSE 2 * Power2[k - 1]

Byte == 0 .. Power2[Width] - 1

ASSUME ByteAssumption == /\ Width \in Nat
                         /\ Hash \in Byte /\ Dollar \in Byte /\ Hash # Dollar
ASSUME HeaderAssumption == HeaderSize \in Nat /\ HeaderSize >= 4
ASSUME MaxPacketAssumption == MaxPacket \in Nat /\ HeaderSize < MaxPacket

\* "##" or "$$" at position i.
IsStart(data, i) == /\ i \in 1 .. Len(data) - 1
                    /\ data[i] \in {Hash, Dollar}
                    /\ data[i + 1] = data[i]

Starts(data) == {i \in 1 .. Len(data) - 1 : IsStart(data, i)}

\* The length field, most significant byte first.
DataLen(data) == data[HeaderSize - 1] * Power2[Width] + data[HeaderSize]

TotalLen(data) == HeaderSize + DataLen(data) + 1

\* Mutant of TooLarge: no limit.
NeverTooLarge(data) == FALSE

TooLarge(data) == TotalLen(data) > MaxPacket

\* The last byte is the exclusive or of all after the start mark, bit by bit.
Bit(byte, k) == (byte \div Power2[k]) % 2

VerifyChecksum(packet) ==
    \A k \in 0 .. Width - 1 :
        Bit(Last(packet), k) =
            Cardinality({i \in 3 .. Len(packet) - 1 : Bit(packet[i], k) = 1}) % 2

\* A header at the head of the data, and the packet it announces.
HasHeader(data) == IsStart(data, 1) /\ Len(data) >= HeaderSize
Complete(data) == HasHeader(data) /\ ~TooLarge(data) /\ Len(data) >= TotalLen(data)
Packet(data) == SubSeq(data, 1, TotalLen(data))

-----------------------------------------------------------------------------
(* The packets a scanner finds in a stream that comes in one piece, and    *)
(* where each of them begins: the reference for what it finds in pieces.   *)

\* From position i on, given what is found from later positions on.
Search(stream, found, i) ==
    LET later == {j \in i .. Len(stream) : IsStart(stream, j)}
        j == Min(later)
        rest == SubSeq(stream, j, Len(stream))
    IN  IF later = {} \/ ~HasHeader(rest) THEN <<>>
        ELSE IF TooLarge(rest) THEN found[j + 2]
        ELSE IF ~Complete(rest) THEN <<>>
        ELSE IF ~VerifyChecksum(Packet(rest)) THEN found[j + 2]
        ELSE <<[at |-> j, packet |-> Packet(rest)]>> \o found[j + TotalLen(rest)]

\* From every position on.
PacketsFrom(stream) ==
    LET found[i \in 1 .. Len(stream) + 1] == Search(stream, found, i)
    IN  found

PacketsOf(stream) == PacketsFrom(stream)[1]
=============================================================================
