--------------------------- MODULE RealTimeReport ---------------------------
(***************************************************************************)
(* The walk over the information units of one real-time report             *)
(* (handleRealTime in internal/usecase/gbt32960/handler.go and the parsers *)
(* in internal/protocol/gbt32960/model_*.go).                              *)
(*                                                                         *)
(* Only lengths count: the byte that names a unit's type and the counts    *)
(* inside it are read once each and may be anything, the rest is payload.  *)
(* How far a parser reads and how many bytes the handler then skips are    *)
(* computed by different code, and kept apart here (read and size).        *)
(***************************************************************************)
EXTENDS Integers

CONSTANTS MaxReport, \* bound of the model: length of the data unit
          MaxCount   \* bound of the model: a count inside a unit

ASSUME BoundsAssumption == MaxReport \in Nat /\ MaxCount \in Nat

VARIABLES version, \* 2016 or 2025, from the start mark
          total,   \* len(data)
          left,    \* len(rest)
          pc,      \* where the walk is
          kind,    \* the list being parsed
          packs,   \* packs of it the parser has yet to read
          read,    \* how far the parser has read into the unit's body
          size,    \* what the packs read so far add to processedBytes
          part,    \* the last unit that was parsed, or NoPart
          answer   \* how the handler returned

unitVars == <<kind, packs, read, size>>
vars == <<version, total, left, pc, unitVars, part, answer>>

Counts == 0 .. MaxCount
TimeSize == 6

\* What the parsers read: of units of one size, of units with one count of
\* equal entries, and of one pack of the units that are lists of packs, each
\* with a head and a count of cells or probes.
Fixed == [VEHICLE |-> 20, ENGINE |-> 5, LOCATION |-> 9, EXTREME |-> 14,
          SUPER_CAP_EXTREME |-> 18]
\* (The four lists of an alarm of 2016 are of one size and add up.)
Counted == [MOTOR |-> [head |-> 1, width |-> 12],
            FUEL_CELL |-> [head |-> 8, width |-> 1],
            ALARM_2016 |-> [head |-> 9, width |-> 4]]
Lists == [BATTERY_VOLTAGE |-> [head |-> 7, width |-> 2],
          BATTERY_TEMP |-> [head |-> 3, width |-> 1],
          STORAGE_VOLTAGE |-> [head |-> 10, width |-> 2],
          STORAGE_TEMP |-> [head |-> 3, width |-> 1],
          FUEL_CELL_STACK |-> [head |-> 10, width |-> 1]]

\* What the handler adds to processedBytes for such a unit or pack.
Skip == [VEHICLE |-> [base |-> 20, each |-> 0],
         MOTOR |-> [base |-> 1, each |-> 12],
         FUEL_CELL |-> [base |-> 8, each |-> 1],
         ENGINE |-> [base |-> 5, each |-> 0],
         LOCATION |-> [base |-> 9, each |-> 0],
         EXTREME |-> [base |-> 14, each |-> 0],
         ALARM_2016 |-> [base |-> 5 + 4 * 1, each |-> 4],
         BATTERY_VOLTAGE |-> [base |-> 7, each |-> 2],
         BATTERY_TEMP |-> [base |-> 3, each |-> 1],
         STORAGE_VOLTAGE |-> [base |-> 10, each |-> 2],
         STORAGE_TEMP |-> [base |-> 3, each |-> 1],
         FUEL_CELL_STACK |-> [base |-> 10, each |-> 1],
         SUPER_CAP_EXTREME |-> [base |-> 18, each |-> 0]]

\* Mutant of Skipped: every entry is taken for one byte.
SkippedNarrow(k, c) == Skip[k].base + c

Skipped(k, c) == Skip[k].base + Skip[k].each * c

OnlyIn2016 == {"EXTREME", "ALARM_2016", "STORAGE_VOLTAGE", "STORAGE_TEMP"}
OnlyIn2025 == {"ALARM_2025", "BATTERY_VOLTAGE", "BATTERY_TEMP", "CUSTOM"}
Supported(k) == /\ k \in OnlyIn2016 => version = 2016
                /\ k \in OnlyIn2025 => version = 2025

NoPart == [kind |-> "NONE", at |-> 0, read |-> 0, size |-> 0, missing |-> FALSE]

Init == /\ version \in {2016, 2025}
        /\ total \in 0 .. MaxReport
        /\ left = total
        /\ pc = "start"
        /\ kind = "NONE" /\ packs = 0 /\ read = 0 /\ size = 0
        /\ part = NoPart
        /\ answer = "none"

-----------------------------------------------------------------------------
\* The handler returns.
Return(how) == /\ pc' = "done"
               /\ answer' = how
               /\ UNCHANGED <<version, total, unitVars, part>>

\* The collection time comes first.
Start == /\ pc = "start"
         /\ \/ /\ total < TimeSize
               /\ Return("error")
               /\ UNCHANGED left
            \/ /\ total >= TimeSize
               /\ left' = total - TimeSize
               /\ pc' = "next"
               /\ UNCHANGED <<version, total, unitVars, part, answer>>

\* The next unit's type byte; "room" bytes of the report are behind it.
TypeByte(k) == /\ pc = "next" /\ left > 0
               /\ Supported(k)
               /\ left' = left - 1

room == left - 1

Refuse(k) == TypeByte(k) /\ Return("error")

\* A parser has returned a unit without error, and it has been dispatched.
Parsed(k, end, skip, missing) ==
    /\ part' = [kind |-> k, at |-> total - left', read |-> end, size |-> skip,
                missing |-> missing]
    /\ pc' = "check"
    /\ kind' = "NONE" /\ packs' = 0 /\ read' = 0 /\ size' = 0
    /\ UNCHANGED <<version, total, answer>>

FixedUnit(k) == \/ room < Fixed[k] /\ Refuse(k)
                \/ room >= Fixed[k] /\ TypeByte(k) /\ Parsed(k, Fixed[k], Skipped(k, 0), FALSE)

CountedUnit(k) ==
    LET f == Counted[k]
    IN  \/ room < f.head /\ Refuse(k)
        \/ /\ room >= f.head
           /\ \E c \in Counts :
                  LET end == f.head + f.width * c
                  IN  \/ room < end /\ Refuse(k)
                      \/ room >= end /\ TypeByte(k) /\ Parsed(k, end, Skipped(k, c), FALSE)

\* Mutant of AlarmUnit: the handler takes a general code for four bytes.
AlarmUnitWide ==
    \/ room < 9 /\ Refuse("ALARM_2025")
    \/ /\ room >= 9
       /\ \E faults, general \in Counts :
              LET end == 9 + 4 * faults + 1 + 2 * general
              IN  /\ room >= end
                  /\ TypeByte("ALARM_2025")
                  /\ Parsed("ALARM_2025", end, end + 2 * general, FALSE)

\* Level and mask, four counted lists of codes as in 2016, and a fifth one,
\* which the parser takes for optional and the handler does not.  (On fewer
\* than five bytes either parser panics, which HandleMessage turns into an
\* error.)
AlarmUnit ==
    \/ room < 9 /\ Refuse("ALARM_2025")
    \/ /\ room >= 9
       /\ \E faults, general \in Counts :
              LET end == 9 + 4 * faults
                  end5 == end + 1 + 2 * general
              IN  \/ room # end /\ room < end5 /\ Refuse("ALARM_2025")
                  \/ /\ room = end
                     /\ TypeByte("ALARM_2025") /\ Parsed("ALARM_2025", end, end + 1, FALSE)
                  \/ /\ room >= end5
                     /\ TypeByte("ALARM_2025") /\ Parsed("ALARM_2025", end5, end5, FALSE)

\* Cells must be there, since the count of probes is behind them; of the
\* probes the parser takes what is there.
SuperCapUnit ==
    \/ room < 9 /\ Refuse("SUPER_CAP")
    \/ /\ room >= 9
       /\ \E cells, probes \in Counts :
              LET end == 9 + 2 * cells
                  all == end + probes
              IN  \/ room < end /\ Refuse("SUPER_CAP")
                  \/ /\ room >= end /\ room < all
                     /\ TypeByte("SUPER_CAP") /\ Parsed("SUPER_CAP", room, all, TRUE)
                  \/ /\ room >= all
                     /\ TypeByte("SUPER_CAP") /\ Parsed("SUPER_CAP", all, all, FALSE)

\* 0x09 in 2025: the rest of the report is passed over.
CustomUnit == TypeByte("CUSTOM") /\ Parsed("CUSTOM", 0, room, FALSE)

\* Any other type ends the walk without an error.
UnknownUnit ==
    /\ TypeByte("UNKNOWN")
    /\ part' = [kind |-> "UNKNOWN", at |-> total - left', read |-> 0, size |-> 0,
                missing |-> FALSE]
    /\ pc' = "end"
    /\ UNCHANGED <<version, total, unitVars, answer>>

-----------------------------------------------------------------------------
(* Lists of packs, whose parsers stop at a pack without a full head and    *)
(* take what is there of the last pack's cells.                            *)

ListUnit(k) ==
    \/ room < 1 /\ Refuse(k)
    \/ /\ room >= 1
       /\ TypeByte(k)
       /\ \E count \in Counts : packs' = count
       /\ kind' = k
       /\ read' = 1
       /\ size' = 1
       /\ pc' = "packs"
       /\ UNCHANGED <<version, total, part, answer>>

HeadFits == read + Lists[kind].head <= left

\* Mutant of ReadPack: the cells that are not there are read all the same.
ReadPackUnbounded ==
    /\ pc = "packs" /\ packs > 0 /\ HeadFits
    /\ \E c \in Counts :
           LET f == Lists[kind]
           IN  /\ read' = read + f.head + f.width * c
               /\ size' = size + Skipped(kind, c)
    /\ packs' = packs - 1
    /\ UNCHANGED <<version, total, left, pc, kind, part, answer>>

ReadPack ==
    /\ pc = "packs" /\ packs > 0 /\ HeadFits
    /\ \E c \in Counts :
           LET f == Lists[kind]
               behind == left - (read + f.head)
               there == IF f.width * c <= behind THEN c ELSE behind \div f.width
           IN  /\ read' = read + f.head + f.width * there
               /\ size' = size + Skipped(kind, c)
    /\ packs' = packs - 1
    /\ UNCHANGED <<version, total, left, pc, kind, part, answer>>

EndList == /\ pc = "packs"
           /\ packs = 0 \/ ~HeadFits
           /\ UNCHANGED left
           /\ Parsed(kind, read, size, packs > 0 \/ read < size)

-----------------------------------------------------------------------------
\* Mutant of Check: a unit that is too long takes what is left.
CheckClamped == /\ pc = "check"
                /\ left' = IF left < part.size THEN 0 ELSE left - part.size
                /\ pc' = "next"
                /\ UNCHANGED <<version, total, unitVars, part, answer>>

\* Only now does the handler compare the unit with the report.
Check == /\ pc = "check"
         /\ \/ left < part.size /\ Return("overflow") /\ UNCHANGED left
            \/ /\ left >= part.size
               /\ left' = left - part.size
               /\ pc' = "next"
               /\ UNCHANGED <<version, total, unitVars, part, answer>>

\* The loop is over; a reply goes out if the packet asked for one.
EndParse == /\ pc = "end" \/ (pc = "next" /\ left = 0)
            /\ Return("success")
            /\ UNCHANGED left

-----------------------------------------------------------------------------
Unit == \/ \E k \in DOMAIN Fixed : FixedUnit(k)
        \/ \E k \in DOMAIN Counted : CountedUnit(k)
        \/ \E k \in DOMAIN Lists : ListUnit(k)
        \/ AlarmUnit
        \/ SuperCapUnit
        \/ CustomUnit
        \/ UnknownUnit

Next == Start \/ Unit \/ ReadPack \/ EndList \/ Check \/ EndParse

Spec == Init /\ [][Next]_vars

-----------------------------------------------------------------------------
(* Correctness.                                                            *)

Kinds == DOMAIN Fixed \cup DOMAIN Counted \cup DOMAIN Lists
         \cup {"NONE", "ALARM_2025", "SUPER_CAP", "CUSTOM", "UNKNOWN"}

(* No parser reads behind the report, and the walk stays inside it.        *)
ReportTypeOK ==
    /\ version \in {2016, 2025}
    /\ total \in 0 .. MaxReport
    /\ left \in 0 .. total
    /\ pc \in {"start", "next", "packs", "check", "end", "done"}
    /\ kind \in DOMAIN Lists \cup {"NONE"}
    /\ packs \in Counts
    /\ read \in Nat /\ (pc = "packs" => read <= left)
    /\ size \in Nat
    /\ part \in [kind : Kinds, at : Nat, read : Nat, size : Nat, missing : BOOLEAN]
    /\ part.at + part.read <= total
    /\ answer \in {"none", "success", "error", "overflow"}

(* Parser and handler agree on a unit's length: whatever the counts, the   *)
(* next type byte is the first byte that no parser has read, so that none  *)
(* is read twice or passed over (the sums at handler.go:272-474 against    *)
(* the offsets in the parsers).                                            *)
PartsAreAdjacent ==
    pc = "next" =>
        \/ part = NoPart /\ left = total - TimeSize
        \/ part.kind = "CUSTOM" /\ left = 0
        \/ total - left = part.at + part.read

(* A report that is answered with success has been parsed to its last      *)
(* byte, unless a custom or an unknown unit ended the walk.                *)
AnsweredIsParsed ==
    answer = "success" =>
        \/ total = TimeSize
        \/ part.kind \in {"CUSTOM", "UNKNOWN"}
        \/ part.at + part.read = total

(* The check at handler.go:501, which comes after the dispatch, refuses    *)
(* only reports whose last unit announces more than is there; and alarms   *)
(* of 2025 that end the report without a fifth list, which the parser      *)
(* accepts (model_alarm.go:98).                                            *)
OverflowIsExplained ==
    answer = "overflow" =>
        \/ part.missing
        \/ part.kind = "ALARM_2025" /\ part.at + part.read = total

(* "Stop parsing if incomplete" (comment at model_storage.go:150): behind  *)
(* a list of battery voltages that lacks a pack, the walk dispatches       *)
(* nothing more, since what follows is no unit but the pack's remains.     *)
IncompleteIsLast ==
    [][part.kind = "BATTERY_VOLTAGE" /\ part.missing
       => part' = part \/ part'.kind \in {"UNKNOWN", "CUSTOM"}]_vars
=============================================================================
