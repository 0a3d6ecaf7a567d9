------------------------ MODULE RealTimeReportProofs ------------------------
(* The walk over a real-time report, proved for reports and counts of any  *)
(* size.                                                                   *)
EXTENDS RealTimeReport, TLAPS

\* A parser is inside the report; once it is short of cells it is also short
\* of the next pack's head, and the handler's sum is beyond the report.
ListControl ==
    pc = "packs" =>
        /\ kind \in DOMAIN Lists
        /\ left < total
        /\ read <= left
        /\ read = size \/ (left < size /\ left - read < 2 /\ read < size)

\* A unit that is longer for the handler than for its parser does not fit.
CheckControl ==
    pc = "check" =>
        /\ part.at = total - left
        /\ part.read <= left
        /\ \/ part.kind = "CUSTOM" /\ part.size = left
           \/ part.size = part.read
           \/ /\ left < part.size
              /\ \/ part.missing
                 \/ part.kind = "ALARM_2025" /\ part.read = left

Control == /\ pc = "start" => left = total /\ part = NoPart
           /\ pc = "end" => part.kind = "UNKNOWN"
           /\ answer # "none" => pc = "done"

IInv == /\ ReportTypeOK /\ ListControl /\ CheckControl /\ Control
        /\ PartsAreAdjacent /\ AnsweredIsParsed /\ OverflowIsExplained

-----------------------------------------------------------------------------
(* Facts about the units' sizes.                                           *)

\* Heads and counted entries have a size.
LEMMA CountedSizes ==
    ASSUME NEW k \in DOMAIN Counted
    PROVE  Counted[k].head \in Nat /\ Counted[k].width \in Nat
BY DEF Counted

\* No list has a head that fits where a cell does not.
LEMMA ListSizes ==
    ASSUME NEW k \in DOMAIN Lists
    PROVE  Lists[k].head \in Nat /\ Lists[k].head > 2 /\ Lists[k].width \in {1, 2}
BY DEF Lists

\* The fixed sizes are sizes.
LEMMA FixedSizes ==
    ASSUME NEW k \in DOMAIN Fixed
    PROVE  Fixed[k] \in Nat
BY DEF Fixed

\* The handler's numbers are the parsers', in another file.
LEMMA SkipsAreSizes ==
    /\ \A k \in DOMAIN Fixed : Skipped(k, 0) = Fixed[k]
    /\ \A k \in DOMAIN Counted, c \in Nat :
           Skipped(k, c) = Counted[k].head + Counted[k].width * c
    /\ \A k \in DOMAIN Lists, c \in Nat :
           Skipped(k, c) = Lists[k].head + Lists[k].width * c
<1>1. ASSUME NEW k \in DOMAIN Fixed
      PROVE  Skipped(k, 0) = Fixed[k]
  BY DEF Skipped, Skip, Fixed
<1>2. ASSUME NEW k \in DOMAIN Counted, NEW c \in Nat
      PROVE  Skipped(k, c) = Counted[k].head + Counted[k].width * c
  BY DEF Skipped, Skip, Counted
<1>3. ASSUME NEW k \in DOMAIN Lists, NEW c \in Nat
      PROVE  Skipped(k, c) = Lists[k].head + Lists[k].width * c
  BY DEF Skipped, Skip, Lists
<1> QED BY <1>1, <1>2, <1>3

\* The cells that are there: all, or as many as fit, with less than one more
\* left over.
LEMMA CellsThere ==
    ASSUME NEW w \in {1, 2}, NEW c \in Nat, NEW behind \in Nat, NEW there,
           there = IF w * c <= behind THEN c ELSE behind \div w
    PROVE  /\ there \in Nat /\ w * there <= behind
           /\ there = c \/ (behind < w * c /\ behind - w * there < 2 /\ w * there < w * c)
<1>1. CASE w = 1
  BY <1>1
<1>2. CASE w = 2
  BY <1>2
<1> QED BY <1>1, <1>2

-----------------------------------------------------------------------------
(* The ends of a unit.                                                     *)

\* What a parser that returns a unit must have seen to.
Sound(k, end, skip, missing) ==
    \/ k = "CUSTOM" /\ skip = left'
    \/ skip = end
    \/ /\ left' < skip
       /\ missing \/ (k = "ALARM_2025" /\ end = left')

\* A unit that was parsed soundly may be checked against the report.
LEMMA ParsedKeeps ==
    ASSUME IInv, pc \in {"next", "packs"},
           NEW k \in Kinds, NEW end \in Nat, NEW skip \in Nat, NEW missing \in BOOLEAN,
           NEW rest \in Nat, left' = rest, rest < total, end <= rest,
           Sound(k, end, skip, missing),
           Parsed(k, end, skip, missing)
    PROVE  IInv'
<1>1. answer = "none" /\ answer' = "none" /\ pc' = "check"
  BY DEF IInv, Control, Parsed, ReportTypeOK
<1>2. ReportTypeOK'
  <2>1. total \in Nat /\ left' \in 0 .. total
    BY BoundsAssumption DEF IInv, ReportTypeOK, Parsed
  <2>2. part'.at \in Nat /\ part'.at + part'.read <= total
    <3>1. part'.at = total - rest /\ part'.read = end
      BY DEF Parsed
    <3>2. total - rest \in Nat /\ (total - rest) + end <= total
      BY <2>1
    <3> QED BY <3>1, <3>2
  <2>3. part' \in [kind : Kinds, at : Nat, read : Nat, size : Nat, missing : BOOLEAN]
    BY <2>2 DEF Parsed
  <2>4. kind' = "NONE" /\ packs' = 0 /\ read' = 0 /\ size' = 0
        /\ UNCHANGED <<version, total>>
    BY DEF Parsed
  <2> QED BY <1>1, <2>1, <2>2, <2>3, <2>4, BoundsAssumption DEF IInv, ReportTypeOK, Counts
<1>3. CheckControl'
  BY DEF CheckControl, Parsed, Sound
<1> QED BY <1>1, <1>2, <1>3
     DEF IInv, ListControl, Control, PartsAreAdjacent, AnsweredIsParsed, OverflowIsExplained

\* A type byte leaves what is behind it.
LEMMA RoomIsLeft ==
    ASSUME IInv, NEW k, TypeByte(k)
    PROVE  left' = room /\ room \in Nat /\ room < total /\ pc = "next"
BY BoundsAssumption DEF IInv, ReportTypeOK, TypeByte, room

\* An error ends the walk.
LEMMA RefuseKeeps ==
    ASSUME IInv, NEW k, Refuse(k)
    PROVE  IInv'
<1>1. left' \in 0 .. total /\ UNCHANGED <<version, total, unitVars, part>>
  BY RoomIsLeft, BoundsAssumption DEF Refuse, Return, IInv, ReportTypeOK
<1>2. pc' = "done" /\ answer' = "error"
  BY DEF Refuse, Return
<1> QED BY <1>1, <1>2
     DEF IInv, ReportTypeOK, unitVars, ListControl, CheckControl, Control, PartsAreAdjacent,
         AnsweredIsParsed, OverflowIsExplained

-----------------------------------------------------------------------------
(* The invariant.                                                          *)

\* Before the walk nothing has been read.
LEMMA InitIsSound == Init => IInv
<1> SUFFICES ASSUME Init PROVE IInv
  OBVIOUS
<1>1. ReportTypeOK
  BY BoundsAssumption DEF Init, ReportTypeOK, NoPart, Kinds, Counts
<1> QED BY <1>1
     DEF Init, IInv, ListControl, CheckControl, Control, PartsAreAdjacent,
         AnsweredIsParsed, OverflowIsExplained

\* The collection time is the part in front of the first unit.
LEMMA StartKeeps ==
    ASSUME IInv, Start
    PROVE  IInv'
<1>1. total \in Nat /\ left = total /\ answer = "none" /\ part.at + part.read <= total
  BY BoundsAssumption DEF IInv, ReportTypeOK, Control, Start
<1>2. CASE left' = left /\ Return("error")
  BY <1>1, <1>2
     DEF Return, IInv, ReportTypeOK, unitVars, ListControl, CheckControl, Control,
         PartsAreAdjacent, AnsweredIsParsed, OverflowIsExplained
<1>3. CASE /\ total >= TimeSize /\ left' = total - TimeSize /\ pc' = "next"
           /\ UNCHANGED <<version, total, unitVars, part, answer>>
  <2>1. left' \in 0 .. total'
    BY <1>1, <1>3 DEF TimeSize
  <2>2. ReportTypeOK'
    BY <1>3, <2>1 DEF IInv, ReportTypeOK, unitVars
  <2>3. PartsAreAdjacent'
    BY <1>3 DEF IInv, Control, Start, PartsAreAdjacent
  <2> QED BY <1>1, <1>3, <2>2, <2>3
       DEF IInv, ListControl, CheckControl, Control, AnsweredIsParsed, OverflowIsExplained
<1> QED BY <1>2, <1>3 DEF Start

\* Parsers and handler agree on units of one size.
LEMMA FixedKeeps ==
    ASSUME IInv, NEW k \in DOMAIN Fixed, FixedUnit(k)
    PROVE  IInv'
<1>1. CASE Refuse(k)
  BY <1>1, RefuseKeeps
<1>2. CASE room >= Fixed[k] /\ TypeByte(k) /\ Parsed(k, Fixed[k], Fixed[k], FALSE)
  BY <1>2, RoomIsLeft, FixedSizes, ParsedKeeps DEF Kinds, Sound
<1> QED BY <1>1, <1>2, SkipsAreSizes DEF FixedUnit

\* The parser of a counted unit refuses what is not there altogether.
LEMMA CountedKeeps ==
    ASSUME IInv, NEW k \in DOMAIN Counted, CountedUnit(k)
    PROVE  IInv'
<1>1. CASE Refuse(k)
  BY <1>1, RefuseKeeps
<1>2. CASE ~Refuse(k)
  <2>1. PICK end \in Nat : room >= end /\ TypeByte(k) /\ Parsed(k, end, end, FALSE)
    <3>1. PICK c \in Counts :
              LET end == Counted[k].head + Counted[k].width * c
              IN  room >= end /\ TypeByte(k) /\ Parsed(k, end, Skipped(k, c), FALSE)
      BY <1>2 DEF CountedUnit
    <3>2. /\ Counted[k].head + Counted[k].width * c \in Nat
          /\ Skipped(k, c) = Counted[k].head + Counted[k].width * c
      BY CountedSizes, SkipsAreSizes, BoundsAssumption DEF Counts
    <3> QED BY <3>1, <3>2
  <2> QED BY <2>1, RoomIsLeft, ParsedKeeps DEF Kinds, Sound
<1> QED BY <1>1, <1>2

\* The handler counts one byte more than the parser read, where the report
\* ends without a fifth list.
LEMMA AlarmKeeps ==
    ASSUME IInv, AlarmUnit
    PROVE  IInv'
<1>1. SUFFICES ASSUME ~Refuse("ALARM_2025") PROVE IInv'
  BY RefuseKeeps
<1>2. ASSUME NEW end \in Nat, room >= end, TypeByte("ALARM_2025"),
             Parsed("ALARM_2025", end, end, FALSE)
      PROVE  IInv'
  BY <1>2, RoomIsLeft, ParsedKeeps DEF Kinds, Sound
<1>3. ASSUME NEW end \in Nat, room = end, TypeByte("ALARM_2025"),
             Parsed("ALARM_2025", end, end + 1, FALSE)
      PROVE  IInv'
  <2>1. left' = end /\ end < total /\ pc = "next"
    BY <1>3, RoomIsLeft
  <2>2. end + 1 \in Nat /\ end <= end /\ "ALARM_2025" \in Kinds /\ FALSE \in BOOLEAN
    BY DEF Kinds
  <2>3. Sound("ALARM_2025", end, end + 1, FALSE)
    BY <1>3, <2>1 DEF Sound
  <2> QED BY <1>3, <2>1, <2>2, <2>3, ParsedKeeps
<1>4. PICK faults, general \in Counts :
          LET end == 9 + 4 * faults
              end5 == end + 1 + 2 * general
          IN  \/ /\ room = end
                 /\ TypeByte("ALARM_2025") /\ Parsed("ALARM_2025", end, end + 1, FALSE)
              \/ room >= end5 /\ TypeByte("ALARM_2025") /\ Parsed("ALARM_2025", end5, end5, FALSE)
  BY <1>1, Zenon DEF AlarmUnit
<1>5. 9 + 4 * faults \in Nat /\ 9 + 4 * faults + 1 + 2 * general \in Nat
  BY BoundsAssumption DEF Counts
<1> DEFINE end == 9 + 4 * faults
           end5 == end + 1 + 2 * general
<1>6. \/ /\ room = end
         /\ TypeByte("ALARM_2025") /\ Parsed("ALARM_2025", end, end + 1, FALSE)
      \/ room >= end5 /\ TypeByte("ALARM_2025") /\ Parsed("ALARM_2025", end5, end5, FALSE)
  BY <1>4
<1>7. end \in Nat /\ end5 \in Nat
  BY <1>5
<1> HIDE DEF end, end5
<1> QED BY <1>2, <1>3, <1>6, <1>7, Zenon

\* Where probes are missing, the parser has taken the rest of the report.
LEMMA SuperCapKeeps ==
    ASSUME IInv, SuperCapUnit
    PROVE  IInv'
<1>1. SUFFICES ASSUME ~Refuse("SUPER_CAP") PROVE IInv'
  BY RefuseKeeps
<1>2. ASSUME NEW all \in Nat, room >= all, TypeByte("SUPER_CAP"),
             Parsed("SUPER_CAP", all, all, FALSE)
      PROVE  IInv'
  BY <1>2, RoomIsLeft, ParsedKeeps DEF Kinds, Sound
<1>3. ASSUME NEW all \in Nat, room < all, TypeByte("SUPER_CAP"),
             Parsed("SUPER_CAP", room, all, TRUE)
      PROVE  IInv'
  <2>1. left' = room /\ room \in Nat /\ room < total /\ pc = "next"
    BY <1>3, RoomIsLeft
  <2>2. room <= room /\ "SUPER_CAP" \in Kinds /\ TRUE \in BOOLEAN
    BY <2>1 DEF Kinds
  <2>3. Sound("SUPER_CAP", room, all, TRUE)
    BY <1>3, <2>1 DEF Sound
  <2> QED BY <1>3, <2>1, <2>2, <2>3, ParsedKeeps
<1>4. PICK cells, probes \in Counts :
          LET all == 9 + 2 * cells + probes
          IN  \/ /\ room < all
                 /\ TypeByte("SUPER_CAP") /\ Parsed("SUPER_CAP", room, all, TRUE)
              \/ /\ room >= all
                 /\ TypeByte("SUPER_CAP") /\ Parsed("SUPER_CAP", all, all, FALSE)
  BY <1>1, Zenon DEF SuperCapUnit
<1> DEFINE all == 9 + 2 * cells + probes
<1>5. all \in Nat
  BY BoundsAssumption DEF Counts
<1> HIDE DEF all
<1>6. \/ /\ room < all
         /\ TypeByte("SUPER_CAP") /\ Parsed("SUPER_CAP", room, all, TRUE)
      \/ /\ room >= all
         /\ TypeByte("SUPER_CAP") /\ Parsed("SUPER_CAP", all, all, FALSE)
  BY <1>4 DEF all
<1> QED BY <1>2, <1>3, <1>5, <1>6

\* A custom unit takes the rest of the report.
LEMMA CustomKeeps ==
    ASSUME IInv, CustomUnit
    PROVE  IInv'
<1>1. left' = room /\ room \in Nat /\ room < total /\ pc = "next"
  BY RoomIsLeft DEF CustomUnit
<1>2. 0 <= room /\ "CUSTOM" \in Kinds /\ 0 \in Nat /\ FALSE \in BOOLEAN
  BY <1>1 DEF Kinds
<1>3. Parsed("CUSTOM", 0, room, FALSE) /\ Sound("CUSTOM", 0, room, FALSE)
  BY <1>1 DEF CustomUnit, Sound
<1> QED BY <1>1, <1>2, <1>3, ParsedKeeps

\* An unknown unit ends the walk where it is.
LEMMA UnknownKeeps ==
    ASSUME IInv, UnknownUnit
    PROVE  IInv'
<1>1. left' = room /\ room \in Nat /\ room < total /\ pc = "next"
  BY RoomIsLeft DEF UnknownUnit
<1>2. pc' = "end" /\ UNCHANGED <<version, total, unitVars, answer>>
  BY DEF UnknownUnit
<1>3. part' = [kind |-> "UNKNOWN", at |-> total - room, read |-> 0, size |-> 0,
               missing |-> FALSE]
  BY <1>1 DEF UnknownUnit
<1>4. total - room \in Nat /\ (total - room) + 0 <= total /\ room \in 0 .. total
  BY <1>1, BoundsAssumption DEF IInv, ReportTypeOK
<1>5. ReportTypeOK'
  BY <1>1, <1>2, <1>3, <1>4 DEF IInv, ReportTypeOK, Kinds, unitVars
<1> QED BY <1>1, <1>2, <1>3, <1>5
     DEF IInv, ListControl, CheckControl, Control, PartsAreAdjacent, AnsweredIsParsed,
         OverflowIsExplained, unitVars

-----------------------------------------------------------------------------
(* Lists.                                                                  *)

\* A list begins with the number of its packs.
LEMMA ListKeeps ==
    ASSUME IInv, NEW k \in DOMAIN Lists, ListUnit(k)
    PROVE  IInv'
<1>1. CASE Refuse(k)
  BY <1>1, RefuseKeeps
<1>2. CASE ~Refuse(k)
  <2>1. /\ room >= 1 /\ TypeByte(k) /\ packs' \in Counts /\ kind' = k
        /\ read' = 1 /\ size' = 1 /\ pc' = "packs"
        /\ UNCHANGED <<version, total, part, answer>>
    BY <1>2 DEF ListUnit
  <2>2. left' = room /\ room \in Nat /\ room < total /\ pc = "next"
    BY <2>1, RoomIsLeft
  <2>3. left' \in 0 .. total' /\ read' <= left' /\ answer = "none"
    BY <2>1, <2>2, BoundsAssumption DEF IInv, ReportTypeOK, Control
  <2>4. ReportTypeOK'
    BY <2>1, <2>3 DEF IInv, ReportTypeOK
  <2> QED BY <2>1, <2>2, <2>3, <2>4
       DEF IInv, ListControl, CheckControl, Control, PartsAreAdjacent, AnsweredIsParsed,
           OverflowIsExplained
<1> QED BY <1>1, <1>2

\* A pack whose cells are all there keeps the sums equal, and any other one
\* is the last that has a head.
LEMMA ReadPackKeeps ==
    ASSUME IInv, ReadPack
    PROVE  IInv'
<1> DEFINE head == Lists[kind].head
           width == Lists[kind].width
           behind == left - (read + head)
<1>1. kind \in DOMAIN Lists /\ left \in Nat /\ read \in Nat /\ size \in Nat
      /\ packs \in Nat /\ packs <= MaxCount /\ packs > 0
  BY BoundsAssumption DEF IInv, ReportTypeOK, ListControl, ReadPack, Counts
<1>2. head \in Nat /\ head > 2 /\ width \in {1, 2}
  BY <1>1, ListSizes
<1>3. behind \in Nat
  BY <1>1, <1>2 DEF ReadPack, HeadFits
<1>4. read = size
  BY <1>1, <1>2 DEF IInv, ListControl, ReadPack, HeadFits
<1>5. PICK c \in Counts :
          LET there == IF width * c <= behind THEN c ELSE behind \div width
          IN  read' = read + head + width * there /\ size' = size + head + width * c
  <2>1. PICK c \in Counts :
            LET there == IF width * c <= behind THEN c ELSE behind \div width
            IN  read' = read + head + width * there /\ size' = size + Skipped(kind, c)
    BY DEF ReadPack
  <2>2. size' = size + head + width * c
    <3>1. Skipped(kind, c) = head + width * c /\ head \in Nat /\ width * c \in Nat
      BY <1>1, <1>2, SkipsAreSizes, BoundsAssumption DEF Counts
    <3> HIDE DEF head, width
    <3> QED BY <1>1, <2>1, <3>1
  <2> QED BY <2>1, <2>2
<1> DEFINE there == IF width * c <= behind THEN c ELSE behind \div width
<1>6. /\ there \in Nat /\ width * there <= behind
      /\ there = c \/ (behind < width * c /\ behind - width * there < 2
                       /\ width * there < width * c)
  <2>1. c \in Nat
    BY BoundsAssumption DEF Counts
  <2> QED BY <1>2, <1>3, <2>1, CellsThere
<1>7. /\ read' \in Nat /\ size' \in Nat /\ read' <= left
      /\ read' = size' \/ (left < size' /\ left - read' < 2 /\ read' < size')
  <2> DEFINE got == width * there
             want == width * c
  <2>1. got \in Nat /\ want \in Nat
    BY <1>2, <1>6, BoundsAssumption DEF Counts
  <2>2. got <= behind /\ (got = want \/ (behind < want /\ behind - got < 2 /\ got < want))
    BY <1>6
  <2>3. read' = read + head + got /\ size' = size + head + want
    BY <1>5
  <2> HIDE DEF got, want, there
  <2> QED BY <1>1, <1>2, <1>4, <2>1, <2>2, <2>3
<1>8. packs' \in Counts /\ UNCHANGED <<version, total, left, pc, kind, part, answer>>
  BY <1>1, BoundsAssumption DEF ReadPack, Counts
<1>9. ReportTypeOK'
  BY <1>7, <1>8 DEF IInv, ReportTypeOK
<1> QED BY <1>7, <1>8, <1>9
     DEF IInv, ListControl, CheckControl, Control, PartsAreAdjacent, AnsweredIsParsed,
         OverflowIsExplained

\* A list that has been read is a unit that was parsed soundly.
LEMMA EndListKeeps ==
    ASSUME IInv, EndList
    PROVE  IInv'
<1>1. /\ pc = "packs" /\ kind \in Kinds /\ left \in Nat /\ left' = left /\ left < total
      /\ read \in Nat /\ size \in Nat /\ read <= left
      /\ read = size \/ (left < size /\ read < size)
  BY BoundsAssumption DEF IInv, ReportTypeOK, ListControl, EndList, Kinds
<1> DEFINE missing == packs > 0 \/ read < size
<1>2. missing \in BOOLEAN /\ Parsed(kind, read, size, missing)
  BY DEF EndList
<1>3. Sound(kind, read, size, missing)
  BY <1>1 DEF Sound
<1> HIDE DEF missing
<1> QED BY <1>1, <1>2, <1>3, ParsedKeeps

-----------------------------------------------------------------------------
(* The walk.                                                               *)

\* The handler skips exactly what the parser read, or finds a reason not to.
LEMMA CheckKeeps ==
    ASSUME IInv, Check
    PROVE  IInv'
<1>1. /\ part.at = total - left /\ part.read <= left /\ left <= total /\ answer = "none"
      /\ left \in Nat /\ total \in Nat /\ part.read \in Nat /\ part.size \in Nat
  BY BoundsAssumption DEF IInv, ReportTypeOK, CheckControl, Control, Check
<1>2. \/ part.kind = "CUSTOM" /\ part.size = left
      \/ part.size = part.read
      \/ /\ left < part.size
         /\ part.missing \/ (part.kind = "ALARM_2025" /\ part.read = left)
  BY DEF IInv, CheckControl, Check
<1>3. CASE left < part.size /\ Return("overflow") /\ UNCHANGED left
  <2>1. /\ pc' = "done" /\ answer' = "overflow"
        /\ UNCHANGED <<version, total, left, kind, packs, read, size, part>>
    BY <1>3 DEF Return, unitVars
  <2>2. OverflowIsExplained'
    BY <1>1, <1>2, <1>3, <2>1 DEF OverflowIsExplained
  <2>3. ReportTypeOK'
    BY <2>1 DEF IInv, ReportTypeOK
  <2> QED BY <2>1, <2>2, <2>3
       DEF IInv, ListControl, CheckControl, Control, PartsAreAdjacent, AnsweredIsParsed
<1>4. CASE /\ left >= part.size /\ left' = left - part.size /\ pc' = "next"
           /\ UNCHANGED <<version, total, unitVars, part, answer>>
  <2>1. left' \in 0 .. total' /\ UNCHANGED <<version, total, kind, packs, read, size, part, answer>>
    BY <1>1, <1>4 DEF unitVars
  <2>2. PartsAreAdjacent'
    BY <1>1, <1>2, <1>4 DEF PartsAreAdjacent
  <2>3. ReportTypeOK'
    BY <1>4, <2>1 DEF IInv, ReportTypeOK
  <2> QED BY <1>1, <1>4, <2>1, <2>2, <2>3
       DEF IInv, ListControl, CheckControl, Control, AnsweredIsParsed, OverflowIsExplained
<1> QED BY <1>3, <1>4 DEF Check

\* The walk ends at the end of the report or at an unknown unit.
LEMMA EndParseKeeps ==
    ASSUME IInv, EndParse
    PROVE  IInv'
<1>1. /\ pc' = "done" /\ answer' = "success"
      /\ UNCHANGED <<version, total, left, kind, packs, read, size, part>>
  BY DEF EndParse, Return, unitVars
<1>2. AnsweredIsParsed'
  <2>1. total \in Nat /\ part.at \in Nat /\ part.read \in Nat
    BY BoundsAssumption DEF IInv, ReportTypeOK
  <2>2. CASE pc = "end"
    BY <1>1, <2>2 DEF IInv, Control, AnsweredIsParsed
  <2>3. CASE pc = "next" /\ left = 0
    BY <1>1, <2>1, <2>3 DEF IInv, PartsAreAdjacent, AnsweredIsParsed, TimeSize
  <2> QED BY <2>2, <2>3 DEF EndParse
<1>3. ReportTypeOK'
  BY <1>1 DEF IInv, ReportTypeOK
<1> QED BY <1>1, <1>2, <1>3
     DEF IInv, ListControl, CheckControl, Control, PartsAreAdjacent, OverflowIsExplained

\* The strengthened invariant is inductive.
THEOREM Inductive == Spec => []IInv
<1>1. IInv /\ [Next]_vars => IInv'
  <2> SUFFICES ASSUME IInv, [Next]_vars PROVE IInv'
    OBVIOUS
  <2>1. CASE Start
    BY <2>1, StartKeeps
  <2>2. CASE Unit
    BY <2>2, FixedKeeps, CountedKeeps, ListKeeps, AlarmKeeps, SuperCapKeeps, CustomKeeps,
       UnknownKeeps DEF Unit
  <2>3. CASE ReadPack
    BY <2>3, ReadPackKeeps
  <2>4. CASE EndList
    BY <2>4, EndListKeeps
  <2>5. CASE Check
    BY <2>5, CheckKeeps
  <2>6. CASE EndParse
    BY <2>6, EndParseKeeps
  <2>7. CASE UNCHANGED vars
    BY <2>7
       DEF vars, unitVars, IInv, ReportTypeOK, ListControl, CheckControl, Control,
           PartsAreAdjacent, AnsweredIsParsed, OverflowIsExplained
  <2> QED BY <2>1, <2>2, <2>3, <2>4, <2>5, <2>6, <2>7 DEF Next
<1> QED BY <1>1, InitIsSound, PTL DEF Spec

\* No parser reads behind a report, whatever its counts announce
\* (model_*.go), and the walk stays inside it (handler.go:244-505).
THEOREM TypeCorrect == Spec => []ReportTypeOK
BY Inductive, PTL DEF IInv

\* The handler's sums (handler.go:272-474) are the parsers' offsets whenever
\* the walk goes on: each unit begins where the parser of the last one ended.
THEOREM UnitsAreAdjacent == Spec => []PartsAreAdjacent
BY Inductive, PTL DEF IInv

\* A report is answered with success (handler.go:507-523) only when all of it
\* was parsed, or a custom or an unknown unit ended the walk.
THEOREM SuccessIsParsed == Spec => []AnsweredIsParsed
BY Inductive, PTL DEF IInv

\* The check behind the dispatch (handler.go:501) fails only on a unit that
\* announces more than is there, or on an alarm without its fifth list.
THEOREM OverflowHasReason == Spec => []OverflowIsExplained
BY Inductive, PTL DEF IInv
=============================================================================
