------------------------------ MODULE Replies ------------------------------
(***************************************************************************)
(* What the gateway writes on a connection: the handler's replies          *)
(* (internal/usecase/gbt32960/handler.go) to the packets parseRawPacket    *)
(* makes of the scanner's bytes (internal/server/tcp_server.go), built in  *)
(* response_builder.go and put into bytes by EncodePacket                  *)
(* (packet_encoder.go).                                                    *)
(*                                                                         *)
(* Every byte is there, but a byte may be narrow and a VIN short.  Whether *)
(* the information units of a report are in order is a choice here, made   *)
(* in RealTimeReport.                                                      *)
(***************************************************************************)
EXTENDS PacketFormat

CONSTANTS VinSize,    \* bytes of a VIN (17)
          Space,      \* ' '
          Request,    \* the response flag of a request (0xFE)
          Accounts,   \* the platforms' user names and passwords
          Clock,      \* the gateway's own time, in six bytes
          Commands,   \* bound of the model: the commands received
          VinFields,  \* bound of the model: the VIN fields received
          Bodies,     \* bound of the model: the data units received
          MaxReplies  \* bound of the model: replies written

ASSUME VinAssumption == VinSize \in Nat /\ HeaderSize = VinSize + 7
ASSUME ClockAssumption == Clock \in Seq(Byte) /\ Len(Clock) = 6
ASSUME InputAssumption == /\ Commands \subseteq Byte
                          /\ VinFields \subseteq Seq(Byte)
                          /\ Bodies \subseteq Seq(Byte)
                          /\ MaxReplies \in Nat

CmdVehicleLogin == 1
CmdRealTime == 2
CmdLogout == 3
CmdPlatformLogin == 5

Success == 1
Fail == 2

ASSUME FlagAssumption == Request \in Byte \ {0, Success, Fail}

\* The longest data unit of a reply fits the length field and the limit.
ASSUME ReplyAssumption == /\ 9 < Power2[Width] * Power2[Width]
                          /\ HeaderSize + 9 + 1 <= MaxPacket

VARIABLES authed, \* connContext.isPlatformAuthed
          out,    \* every byte written on the connection
          asked   \* history: what was answered

repliesVars == <<authed, out, asked>>

RepliesInit == authed = FALSE /\ out = <<>> /\ asked = <<>>

-----------------------------------------------------------------------------
(* Bytes and packets.                                                      *)

\* The exclusive or of all bytes.
CalculateChecksum(data) ==
    CHOOSE byte \in Byte :
        \A k \in 0 .. Width - 1 :
            Bit(byte, k) = Cardinality({i \in DOMAIN data : Bit(data[i], k) = 1}) % 2

Frame(start, content) == <<start, start>> \o content \o <<CalculateChecksum(content)>>

\* PutUint16(uint16(n)), in bytes of Width bits.
Uint16(n) == <<(n \div Power2[Width]) % Power2[Width], n % Power2[Width]>>

\* strings.TrimRight, and trimNulls with zero alone.
TrimRight(bytes, cutset) ==
    SubSeq(bytes, 1, Max({0} \cup {i \in DOMAIN bytes : bytes[i] \notin cutset}))

\* Mutant of VinField: the VIN ends up at the end of its field.
VinFieldRight(vin) ==
    [i \in 1 .. VinSize |-> IF i > VinSize - Len(vin) THEN vin[i - VinSize + Len(vin)] ELSE 0]

\* copy into the VIN's field: cut off, or filled up with zeros.
VinField(vin) == [i \in 1 .. VinSize |-> IF i <= Len(vin) THEN vin[i] ELSE 0]

Content(pkt) ==
    <<pkt.command, IF pkt.response = 0 THEN Request ELSE pkt.response>>
        \o VinField(pkt.vin) \o <<pkt.encryption>> \o Uint16(Len(pkt.data)) \o pkt.data

\* Mutant of EncodePacket: the checksum begins behind the command.
EncodePacketShort(pkt) ==
    <<Hash, Hash>> \o Content(pkt) \o <<CalculateChecksum(Tail(Content(pkt)))>>

\* The start mark is that of 2016, whatever the peer speaks.
EncodePacket(pkt) == Frame(Hash, Content(pkt))

\* The scanner's packets are never too short for the header.
parseRawPacket(bytes) ==
    [command    |-> bytes[3],
     response   |-> bytes[4],
     vin        |-> TrimRight(SubSeq(bytes, 5, VinSize + 4), {0, Space}),
     encryption |-> bytes[VinSize + 5],
     data       |-> SubSeq(bytes, HeaderSize + 1, Len(bytes) - 1)]

\* The packets that reach the handler: what peers of either version send and
\* the scanner hands on.
Packets ==
    LET sent == {Frame(start, <<command, flag>> \o vin \o <<1>> \o Uint16(Len(data)) \o data) :
                     start \in {Hash, Dollar}, command \in Commands,
                     flag \in {Success, Request}, vin \in VinFields, data \in Bodies}
    IN  {parseRawPacket(bytes) :
             bytes \in {b \in sent : Complete(b) /\ VerifyChecksum(b)}}

-----------------------------------------------------------------------------
(* The replies.                                                            *)

\* Mutant of RequestTime: the time is not cut out of the data unit.
RequestTimeWhole(pkt) == pkt.data

\* The first six bytes, as far as they are there.
RequestTime(pkt) == SubSeq(pkt.data, 1, Min({6, Len(pkt.data)}))

EchoTime(pkt) == IF Len(pkt.data) >= 6 THEN RequestTime(pkt) ELSE Clock

BuildGeneralResponse(pkt) == EchoTime(pkt)

\* Time, a serial number that is always zero, and the result; a logout's too.
BuildVehicleLoginResponse(pkt, result) == EchoTime(pkt) \o <<0, 0, result>>

Answer(pkt, flag, data) ==
    /\ Len(asked) < MaxReplies
    /\ out' = out \o EncodePacket([command |-> pkt.command, response |-> flag,
                                   vin |-> pkt.vin, encryption |-> 1, data |-> data])
    /\ asked' = Append(asked, [command |-> pkt.command, vin |-> pkt.vin,
                               time |-> RequestTime(pkt)])

\* ParsePlatformLogin: time, serial number, user name, password; and the
\* last byte may be missing.
IsPlatformLogin(pkt) == pkt.command = CmdPlatformLogin /\ Len(pkt.data) >= 40

Credentials(pkt) == <<TrimRight(SubSeq(pkt.data, 9, 20), {0}),
                      TrimRight(SubSeq(pkt.data, 21, 40), {0})>>

PlatformLoginAccepted(pkt) ==
    /\ IsPlatformLogin(pkt)
    /\ Credentials(pkt) \in Accounts
    /\ Answer(pkt, Success, BuildGeneralResponse(pkt))
    /\ authed' = TRUE

PlatformLoginRejected(pkt) ==
    /\ IsPlatformLogin(pkt)
    /\ Credentials(pkt) \notin Accounts
    /\ Answer(pkt, Fail, BuildGeneralResponse(pkt))
    /\ UNCHANGED authed

\* However short the data unit is: it is not looked at.
VehicleLoginRefused(pkt) ==
    /\ pkt.command = CmdVehicleLogin
    /\ ~authed
    /\ Answer(pkt, Fail, BuildVehicleLoginResponse(pkt, Fail))
    /\ UNCHANGED authed

\* ParseLogin panics on less than thirty bytes, before the reply.
VehicleLogin(pkt) ==
    /\ pkt.command = CmdVehicleLogin
    /\ authed
    /\ Len(pkt.data) >= 30
    /\ Answer(pkt, Success, BuildVehicleLoginResponse(pkt, Success))
    /\ UNCHANGED authed

\* Mutant of Logout: ParseLogout's check is dropped, as ParseLogin's was.
LogoutUnchecked(pkt) ==
    /\ pkt.command = CmdLogout
    /\ Answer(pkt, Success, BuildVehicleLoginResponse(pkt, Success))
    /\ UNCHANGED authed

Logout(pkt) ==
    /\ pkt.command = CmdLogout
    /\ Len(pkt.data) >= 8
    /\ Answer(pkt, Success, BuildVehicleLoginResponse(pkt, Success))
    /\ UNCHANGED authed

RealTime(pkt) ==
    /\ pkt.command = CmdRealTime
    /\ Len(pkt.data) >= 6
    /\ pkt.response = Request
    /\ Answer(pkt, Success, BuildGeneralResponse(pkt))
    /\ UNCHANGED authed

\* An error, a panic, a report that asks for no reply or cannot be parsed,
\* any other command.
Unanswered(pkt) ==
    /\ \/ pkt.command = CmdPlatformLogin /\ ~IsPlatformLogin(pkt)
       \/ pkt.command = CmdVehicleLogin /\ authed /\ Len(pkt.data) < 30
       \/ pkt.command = CmdLogout /\ Len(pkt.data) < 8
       \/ pkt.command = CmdRealTime
       \/ pkt.command \notin {CmdPlatformLogin, CmdVehicleLogin, CmdLogout, CmdRealTime}
    /\ UNCHANGED repliesVars

HandleMessage(pkt) == \/ PlatformLoginAccepted(pkt)
                      \/ PlatformLoginRejected(pkt)
                      \/ VehicleLoginRefused(pkt)
                      \/ VehicleLogin(pkt)
                      \/ Logout(pkt)
                      \/ RealTime(pkt)
                      \/ Unanswered(pkt)

RepliesNext == \E pkt \in Packets : HandleMessage(pkt)

RepliesSpec == RepliesInit /\ [][RepliesNext]_repliesVars

-----------------------------------------------------------------------------
(* Correctness.                                                            *)

RepliesTypeOK == /\ authed \in BOOLEAN
                 /\ out \in Seq(Byte)
                 /\ asked \in Seq([command : Byte, vin : Seq(Byte), time : Seq(Byte)])
                 /\ Len(asked) <= MaxReplies
                 /\ Len(out) <= Len(asked) * (HeaderSize + 9 + 1)

Found == PacketsOf(out)

(* The peer, scanning as the gateway does, finds one packet for every      *)
(* request that was answered, back to back and nothing besides, whatever   *)
(* start marks the echoed bytes contain: length, checksum and field sizes  *)
(* of packet_encoder.go agree with decoder.go and packet.go.               *)
RepliesScan ==
    /\ Len(Found) = Len(asked)
    /\ \A k \in DOMAIN Found :
           Found[k].at + Len(Found[k].packet) =
               IF k = Len(Found) THEN Len(out) + 1 ELSE Found[k + 1].at
    /\ out # <<>> => Found[1].at = 1

Reply(k) == parseRawPacket(Found[k].packet)

(* Read back, each reply names the command and the vehicle of its request, *)
(* is marked as a reply, and where it carries a result that is its flag's: *)
(* what parseRawPacket trims off a VIN EncodePacket pads again.            *)
RepliesMatch ==
    \A k \in DOMAIN asked :
        /\ Reply(k).command = asked[k].command
        /\ Reply(k).vin = asked[k].vin
        /\ Reply(k).response # Request
        /\ Len(Reply(k).data) = 9 => Last(Reply(k).data) = Reply(k).response

(* A reply carries the time of its request.  The builders' own clock       *)
(* (response_builder.go:17) is for nothing but the refusal of a vehicle    *)
(* login that is too short to have a time.                                 *)
TimeIsEchoed ==
    \A k \in DOMAIN asked :
        \/ SubSeq(Reply(k).data, 1, 6) = asked[k].time
        \/ /\ asked[k].command = CmdVehicleLogin
           /\ Reply(k).response = Fail
           /\ Len(asked[k].time) < 6
=============================================================================
