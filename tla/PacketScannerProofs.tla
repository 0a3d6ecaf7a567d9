------------------------ MODULE PacketScannerProofs ------------------------
(* The packet scanner, proved for bytes of any width, any start characters *)
(* and any limit above the size of a header.                               *)
EXTENDS PacketScanner, SequenceTheorems, WellFoundedInduction, TLAPS

\* The buffer holds the last bytes of the stream.
BufferIsTail == \A i \in 1 .. Len(buffer) : buffer[i] = stream[Consumed + i]

Records == [at : Nat \ {0}, packet : Seq(Byte)]

IInv == TypeOK /\ BufferIsTail /\ DeliveredIsReceived /\ BufferIsBounded

-----------------------------------------------------------------------------
(* Induction over numbers, with sets for predicates.                       *)

\* A set of numbers has a least one.
LEMMA LeastOf ==
    ASSUME NEW T \in SUBSET Nat, T # {}
    PROVE  \E n \in T : \A m \in T : n <= m
<1>1. IsWellFoundedOn(OpToRel(<, Nat), Nat)
  BY NatLessThanWellFounded, Zenon
<1>2. PICK n \in T : \A m \in T : <<m, n>> \notin OpToRel(<, Nat)
  BY <1>1, WFMin
<1>3. ASSUME NEW m \in T PROVE n <= m
  <2>1. ASSUME m < n PROVE <<m, n>> \in OpToRel(<, Nat)
    BY <2>1 DEF OpToRel
  <2>2. ~(m < n)
    BY <1>2, <2>1
  <2>3. m \in Nat /\ n \in Nat
    OBVIOUS
  <2> QED BY <2>2, <2>3
<1> QED BY <1>3

\* A set with zero and the successors of its numbers holds every number.
LEMMA InductionOverNat ==
    ASSUME NEW S, 0 \in S, \A n \in Nat : n \in S => n + 1 \in S
    PROVE  Nat \subseteq S
<1> DEFINE T == {n \in Nat : n \notin S}
<1> SUFFICES ASSUME T # {} PROVE FALSE
  OBVIOUS
<1>1. T \in SUBSET Nat
  OBVIOUS
<1> HIDE DEF T
<1>2. PICK n \in T : \A m \in T : n <= m
  BY <1>1, LeastOf
<1>3. n \in Nat /\ n \notin S /\ n # 0
  BY <1>2 DEF T
<1>4. n - 1 \in Nat /\ n - 1 \notin T
  BY <1>1, <1>2, <1>3
<1>5. n - 1 \in S
  BY <1>4 DEF T
<1> QED BY <1>3, <1>4, <1>5

\* The equation by which Power2 is defined has a solution.
LEMMA Power2IsDefined ==
    Power2 = [k \in 0 .. Width |-> IF k = 0 THEN 1 ELSE 2 * Power2[k - 1]]
<1> DEFINE P(m, g) == g = [k \in 0 .. m |-> IF k = 0 THEN 1 ELSE 2 * g[k - 1]]
           S == {m \in Nat : \E g : P(m, g)}
<1>1. 0 \in S
  <2> DEFINE g == [k \in 0 .. 0 |-> 1]
  <2>1. P(0, g)
    OBVIOUS
  <2> QED BY <2>1
<1>2. ASSUME NEW m \in Nat, m \in S PROVE m + 1 \in S
  <2>1. PICK g : P(m, g)
    BY <1>2
  <2> DEFINE h == [k \in 0 .. m + 1 |-> IF k = m + 1 THEN 2 * g[m] ELSE g[k]]
  <2>2. P(m + 1, h)
    <3>1. ASSUME NEW k \in 0 .. m + 1
          PROVE  h[k] = IF k = 0 THEN 1 ELSE 2 * h[k - 1]
      BY <2>1
    <3> QED BY <3>1
  <2> HIDE DEF P, h
  <2> QED BY <2>2
<1>3. Nat \subseteq S
  <2> HIDE DEF S
  <2> QED BY <1>1, <1>2, InductionOverNat
<1>4. \E g : P(Width, g)
  BY <1>3, ByteAssumption
<1> QED BY <1>4 DEF Power2

\* Powers of two are numbers.
LEMMA Power2Facts ==
    /\ Power2[0] = 1
    /\ \A k \in 0 .. Width : Power2[k] \in Nat \ {0}
    /\ \A k \in Nat : k + 1 \in 0 .. Width => Power2[k + 1] = 2 * Power2[k]
<1>1. Width \in Nat
  BY ByteAssumption
<1>2. \A k \in 0 .. Width : Power2[k] = IF k = 0 THEN 1 ELSE 2 * Power2[k - 1]
  <2> DEFINE g == Power2
  <2>1. g = [k \in 0 .. Width |-> IF k = 0 THEN 1 ELSE 2 * g[k - 1]]
    BY Power2IsDefined
  <2> HIDE DEF g
  <2>2. \A k \in 0 .. Width : g[k] = IF k = 0 THEN 1 ELSE 2 * g[k - 1]
    BY <2>1
  <2> QED BY <2>2 DEF g
<1>3. Power2[0] = 1
  BY <1>1, <1>2
<1>4. \A k \in Nat : k + 1 \in 0 .. Width => Power2[k + 1] = 2 * Power2[k]
  BY <1>1, <1>2
<1> DEFINE S == {k \in Nat : k <= Width => Power2[k] \in Nat \ {0}}
<1>5. 0 \in S
  BY <1>3
<1>6. ASSUME NEW k \in Nat, k \in S PROVE k + 1 \in S
  <2> SUFFICES ASSUME k + 1 <= Width PROVE Power2[k + 1] \in Nat \ {0}
    OBVIOUS
  <2>1. Power2[k] \in Nat \ {0} /\ Power2[k + 1] = 2 * Power2[k]
    BY <1>1, <1>4, <1>6
  <2> QED BY <2>1
<1>7. Nat \subseteq S
  <2> HIDE DEF S
  <2> QED BY <1>5, <1>6, InductionOverNat
<1> QED BY <1>1, <1>3, <1>4, <1>7

-----------------------------------------------------------------------------
(* Facts about SplitFunc.                                                  *)

\* The announced length is a number, at least that of an empty packet.
LEMMA TotalIsNat ==
    ASSUME NEW data \in Seq(Byte), HasHeader(data)
    PROVE  TotalLen(data) \in Nat /\ TotalLen(data) > HeaderSize
<1>1. Len(data) \in Nat /\ HeaderSize - 1 \in 1 .. Len(data) /\ HeaderSize \in 1 .. Len(data)
  BY HeaderAssumption, LenProperties DEF HasHeader
<1>2. data[HeaderSize - 1] \in Byte /\ data[HeaderSize] \in Byte
  BY <1>1, ElementOfSeq
<1>3. Byte \subseteq Nat
  BY ByteAssumption, Power2Facts DEF Byte
<1>4. DataLen(data) \in Nat
  <2> DEFINE hi == data[HeaderSize - 1] lo == data[HeaderSize] base == Power2[Width]
  <2>1. hi \in Nat /\ lo \in Nat /\ base \in Nat
    <3>1. Width \in 0 .. Width
      BY ByteAssumption
    <3>2. base \in Nat
      BY <3>1, Power2Facts
    <3> QED BY <1>2, <1>3, <3>2
  <2>2. DataLen(data) = hi * base + lo
    BY DEF DataLen
  <2> HIDE DEF hi, lo, base
  <2>3. hi * base \in Nat
    BY <2>1
  <2> QED BY <2>1, <2>2, <2>3
<1> QED BY <1>4, HeaderAssumption DEF TotalLen

\* What SplitFunc says of some bytes it also says of more bytes.
LEMMA MoreBytes ==
    ASSUME NEW data \in Seq(Byte), NEW more \in Seq(Byte),
           Complete(data), Len(data) <= Len(more),
           \A i \in 1 .. Len(data) : more[i] = data[i]
    PROVE  Complete(more) /\ Packet(more) = Packet(data)
<1>1. Len(data) \in Nat /\ Len(more) \in Nat
  BY LenProperties
<1>2. HasHeader(data) /\ HeaderSize <= Len(data) /\ IsStart(data, 1)
  BY DEF Complete, HasHeader
<1>3. TotalLen(data) \in Nat /\ TotalLen(data) <= Len(data)
  BY <1>2, TotalIsNat DEF Complete
<1>4. IsStart(more, 1)
  <2>1. 1 \in 1 .. Len(data) - 1 /\ 1 \in 1 .. Len(data) /\ 2 \in 1 .. Len(data)
    BY <1>1, <1>2, HeaderAssumption DEF IsStart
  <2> QED BY <1>1, <1>2, <2>1 DEF IsStart
<1>5. TotalLen(more) = TotalLen(data)
  <2>1. HeaderSize - 1 \in 1 .. Len(data) /\ HeaderSize \in 1 .. Len(data)
    BY <1>1, <1>2, HeaderAssumption
  <2> QED BY <2>1 DEF TotalLen, DataLen
<1>6. Complete(more)
  BY <1>1, <1>2, <1>3, <1>4, <1>5, HeaderAssumption DEF Complete, HasHeader, TooLarge
<1>7. Packet(more) = Packet(data)
  <2> DEFINE t == TotalLen(data)
  <2>1. Packet(data) = SubSeq(data, 1, t) /\ Packet(more) = SubSeq(more, 1, t)
    BY <1>5 DEF Packet
  <2>2. \A i \in 1 .. t : data[i] \in Byte /\ more[i] = data[i]
    BY <1>1, <1>3, ElementOfSeq
  <2>3. t \in Nat
    BY <1>3
  <2> HIDE DEF t
  <2>4. /\ SubSeq(data, 1, t) \in Seq(Byte) /\ SubSeq(more, 1, t) \in Seq(Byte)
        /\ Len(SubSeq(data, 1, t)) = t /\ Len(SubSeq(more, 1, t)) = t
        /\ \A i \in 1 .. t : SubSeq(data, 1, t)[i] = data[i] /\ SubSeq(more, 1, t)[i] = more[i]
    BY <2>2, <2>3, SubSeqProperties
  <2>5. SubSeq(data, 1, t) = SubSeq(more, 1, t)
    BY <2>2, <2>3, <2>4, SeqEqual
  <2> QED BY <2>1, <2>5
<1> QED BY <1>6, <1>7

\* A packet cut from bytes consists of bytes.
LEMMA PacketIsBytes ==
    ASSUME NEW data \in Seq(Byte), Complete(data)
    PROVE  Packet(data) \in Seq(Byte) /\ Len(Packet(data)) = TotalLen(data)
<1>1. TotalLen(data) \in Nat /\ TotalLen(data) <= Len(data) /\ TotalLen(data) >= 1
  BY TotalIsNat, HeaderAssumption DEF Complete
<1>2. \A i \in 1 .. TotalLen(data) : data[i] \in Byte
  BY <1>1, LenProperties, ElementOfSeq
<1> QED BY <1>1, <1>2, SubSeqProperties DEF Packet

\* The rest of the stream from some position on.
LEMMA FromFacts ==
    ASSUME NEW s \in Seq(Byte), NEW i \in Nat \ {0}, i <= Len(s) + 1
    PROVE  /\ SubSeq(s, i, Len(s)) \in Seq(Byte)
           /\ Len(SubSeq(s, i, Len(s))) = Len(s) - i + 1
           /\ \A j \in 1 .. Len(s) - i + 1 : SubSeq(s, i, Len(s))[j] = s[i + j - 1]
<1>1. Len(s) \in Nat /\ \A j \in i .. Len(s) : s[j] \in Byte
  BY LenProperties, ElementOfSeq
<1> QED BY <1>1, SubSeqProperties

-----------------------------------------------------------------------------
(* Facts about the reference: what a scanner finds in one piece.           *)

\* Min of a set with a least element.
LEMMA MinIsLeast ==
    ASSUME NEW T \in SUBSET Nat, NEW n \in T, \A m \in T : n <= m
    PROVE  Min(T) = n
<1>1. Min(T) \in T /\ \A m \in T : Min(T) <= m
  BY DEF Min
<1>2. Min(T) <= n /\ n <= Min(T)
  BY <1>1
<1>3. Min(T) \in Nat /\ n \in Nat
  BY <1>1
<1> QED BY <1>2, <1>3

\* The search at a start mark.
At(s, found, j) ==
    LET rest == SubSeq(s, j, Len(s))
    IN  IF ~HasHeader(rest) THEN <<>>
        ELSE IF TooLarge(rest) THEN found[j + 2]
        ELSE IF ~Complete(rest) THEN <<>>
        ELSE IF ~VerifyChecksum(Packet(rest)) THEN found[j + 2]
        ELSE <<[at |-> j, packet |-> Packet(rest)]>> \o found[j + TotalLen(rest)]

\* The search stops at the next start mark.
LEMMA SearchFinds ==
    ASSUME NEW s \in Seq(Byte), NEW found, NEW i \in 1 .. Len(s) + 1,
           NEW j \in i .. Len(s), IsStart(s, j),
           \A k \in i .. j - 1 : ~IsStart(s, k)
    PROVE  Search(s, found, i) = At(s, found, j)
<1> DEFINE later == {k \in i .. Len(s) : IsStart(s, k)}
<1>1. Len(s) \in Nat
  BY LenProperties
<1>2. later \in SUBSET Nat /\ j \in later
  BY <1>1
<1>3. \A m \in later : j <= m
  BY <1>1
<1>4. Min(later) = j
  <2> HIDE DEF later
  <2> QED BY <1>2, <1>3, MinIsLeast
<1> QED BY <1>2, <1>4 DEF Search, At

\* Without a start mark it finds nothing.
LEMMA SearchFindsNothing ==
    ASSUME NEW s, NEW found, NEW i, \A k \in i .. Len(s) : ~IsStart(s, k)
    PROVE  Search(s, found, i) = <<>>
  BY DEF Search

\* There is a next start mark, or none.
LEMMA NextStart ==
    ASSUME NEW s \in Seq(Byte), NEW i \in 1 .. Len(s) + 1
    PROVE  \/ \A k \in i .. Len(s) : ~IsStart(s, k)
           \/ \E j \in i .. Len(s) : IsStart(s, j) /\ \A k \in i .. j - 1 : ~IsStart(s, k)
<1> DEFINE later == {k \in i .. Len(s) : IsStart(s, k)}
<1>1. Len(s) \in Nat /\ later \in SUBSET Nat
  BY LenProperties
<1>2. CASE later = {}
  BY <1>2
<1>3. CASE later # {}
  <2>1. PICK j \in later : \A m \in later : j <= m
    <3> HIDE DEF later
    <3> QED BY <1>1, <1>3, LeastOf
  <2>2. j \in i .. Len(s) /\ IsStart(s, j)
    OBVIOUS
  <2>3. ASSUME NEW k \in i .. j - 1 PROVE ~IsStart(s, k)
    <3> SUFFICES ASSUME IsStart(s, k) PROVE FALSE
      OBVIOUS
    <3>1. k \in later
      BY <1>1, <2>2
    <3> QED BY <1>1, <2>1, <2>2, <3>1
  <2> QED BY <2>2, <2>3
<1> QED BY <1>2, <1>3

\* What lies behind a start mark.
LEMMA StartFacts ==
    ASSUME NEW s \in Seq(Byte), NEW j, IsStart(s, j)
    PROVE  /\ j \in Nat \ {0} /\ j \in 1 .. Len(s) /\ j + 2 \in 1 .. Len(s) + 1
           /\ SubSeq(s, j, Len(s)) \in Seq(Byte)
           /\ Len(SubSeq(s, j, Len(s))) = Len(s) - j + 1
           /\ \A k \in 1 .. Len(s) - j + 1 : SubSeq(s, j, Len(s))[k] = s[j + k - 1]
           /\ Complete(SubSeq(s, j, Len(s))) =>
                  /\ TotalLen(SubSeq(s, j, Len(s))) \in Nat \ {0}
                  /\ j + TotalLen(SubSeq(s, j, Len(s))) \in j + 1 .. Len(s) + 1
<1> DEFINE rest == SubSeq(s, j, Len(s))
<1>1. Len(s) \in Nat /\ j \in 1 .. Len(s) - 1
  BY LenProperties DEF IsStart
<1>2. j \in Nat \ {0} /\ j <= Len(s) + 1
  BY <1>1
<1>3. /\ rest \in Seq(Byte)
      /\ Len(rest) = Len(s) - j + 1
      /\ \A k \in 1 .. Len(s) - j + 1 : rest[k] = s[j + k - 1]
  BY <1>2, FromFacts
<1> HIDE DEF rest
<1>4. ASSUME Complete(rest)
      PROVE  TotalLen(rest) \in Nat \ {0} /\ j + TotalLen(rest) \in j + 1 .. Len(s) + 1
  <2>1. TotalLen(rest) \in Nat /\ TotalLen(rest) > HeaderSize /\ TotalLen(rest) <= Len(rest)
    BY <1>3, <1>4, TotalIsNat DEF Complete
  <2> QED BY <1>1, <1>3, <2>1, HeaderAssumption
<1> QED BY <1>1, <1>3, <1>4 DEF rest

\* The search asks only for what is found from later positions on.
LEMMA SearchLooksAhead ==
    ASSUME NEW s \in Seq(Byte), NEW i \in 1 .. Len(s) + 1, NEW f, NEW g,
           \A k \in i + 1 .. Len(s) + 1 : f[k] = g[k]
    PROVE  Search(s, f, i) = Search(s, g, i)
<1>1. Len(s) \in Nat
  BY LenProperties
<1>2. CASE \A k \in i .. Len(s) : ~IsStart(s, k)
  BY <1>2, SearchFindsNothing
<1>3. ASSUME NEW j \in i .. Len(s), IsStart(s, j), \A k \in i .. j - 1 : ~IsStart(s, k)
      PROVE  Search(s, f, i) = Search(s, g, i)
  <2> DEFINE rest == SubSeq(s, j, Len(s))
  <2>1. Search(s, f, i) = At(s, f, j) /\ Search(s, g, i) = At(s, g, j)
    BY <1>3, SearchFinds
  <2>2. j + 2 \in 1 .. Len(s) + 1 /\ Complete(rest) => j + TotalLen(rest) \in j + 1 .. Len(s) + 1
    BY <1>3, StartFacts
  <2>3. j + 2 \in 1 .. Len(s) + 1
    BY <1>3, StartFacts
  <2> HIDE DEF rest
  <2>4. f[j + 2] = g[j + 2]
    BY <1>1, <2>3
  <2>5. Complete(rest) => f[j + TotalLen(rest)] = g[j + TotalLen(rest)]
    <3> SUFFICES ASSUME Complete(rest) PROVE f[j + TotalLen(rest)] = g[j + TotalLen(rest)]
      OBVIOUS
    <3>1. j + TotalLen(rest) \in i + 1 .. Len(s) + 1
      BY <1>1, <2>2, <2>3
    <3> QED BY <3>1
  <2>6. At(s, f, j) = At(s, g, j)
    BY <2>4, <2>5 DEF At, rest
  <2> QED BY <2>1, <2>6
<1> QED BY <1>2, <1>3, NextStart

\* So the equation by which PacketsFrom is defined has a solution.
LEMMA PacketsFromIsDefined ==
    ASSUME NEW s \in Seq(Byte)
    PROVE  PacketsFrom(s) = [i \in 1 .. Len(s) + 1 |-> Search(s, PacketsFrom(s), i)]
<1> DEFINE n == Len(s) + 1
           P(m, g) == g = [i \in n - m .. n |-> Search(s, g, i)]
           S == {m \in Nat : m < n => \E g : P(m, g)}
<1>1. n \in Nat /\ n >= 1
  BY LenProperties
<1>2. ASSUME NEW m \in Nat, m < n, NEW g, \A i \in n - m + 1 .. n : g[i] = Search(s, g, i)
      PROVE  \E h : P(m, h)
  <2> DEFINE h == [i \in n - m .. n |-> IF i = n - m THEN Search(s, g, i) ELSE g[i]]
  <2>1. \A i \in n - m + 1 .. n : h[i] = g[i]
    BY <1>1
  <2>2. ASSUME NEW i \in n - m .. n PROVE h[i] = Search(s, h, i)
    <3>1. i \in 1 .. n
      BY <1>1, <1>2
    <3>2. \A k \in i + 1 .. n : h[k] = g[k]
      BY <1>1, <2>1
    <3>3. Search(s, h, i) = Search(s, g, i)
      <4> HIDE DEF h
      <4> QED BY <3>1, <3>2, SearchLooksAhead
    <3>4. h[i] = Search(s, g, i)
      <4>1. CASE i = n - m
        BY <4>1
      <4>2. CASE i # n - m
        <5>1. i \in n - m + 1 .. n
          BY <1>1, <4>2
        <5> QED BY <1>2, <2>1, <5>1
      <4> QED BY <4>1, <4>2
    <3> QED BY <3>3, <3>4
  <2>3. P(m, h)
    BY <2>2
  <2> HIDE DEF h, P
  <2> QED BY <2>3
<1>3. 0 \in S
  <2>1. \E g : P(0, g)
    <3> DEFINE g == <<>>
    <3>1. 0 \in Nat /\ 0 < n /\ \A i \in n - 0 + 1 .. n : g[i] = Search(s, g, i)
      BY <1>1
    <3> HIDE DEF P, n, g
    <3> QED BY <1>2, <3>1
  <2> HIDE DEF P, n
  <2> QED BY <1>1, <2>1
<1>4. ASSUME NEW m \in Nat, m \in S PROVE m + 1 \in S
  <2> SUFFICES ASSUME m + 1 < n PROVE \E h : P(m + 1, h)
    OBVIOUS
  <2>1. m < n
    BY <1>1
  <2>2. PICK g : P(m, g)
    <3> HIDE DEF P, n
    <3> QED BY <1>4, <2>1
  <2>3. \A i \in n - m .. n : g[i] = Search(s, g, i)
    BY <2>2
  <2>4. n - (m + 1) + 1 = n - m
    BY <1>1
  <2>5. m + 1 \in Nat /\ \A i \in n - (m + 1) + 1 .. n : g[i] = Search(s, g, i)
    BY <2>3, <2>4
  <2> HIDE DEF P, n
  <2> QED BY <1>2, <2>5
<1>5. Nat \subseteq S
  <2> HIDE DEF S
  <2> QED BY <1>3, <1>4, InductionOverNat
<1>6. Len(s) \in Nat /\ Len(s) < n /\ n - Len(s) = 1
  BY LenProperties
<1>7. \E g : P(Len(s), g)
  <2> HIDE DEF P, n
  <2> QED BY <1>5, <1>6
<1>8. \E g : g = [i \in 1 .. Len(s) + 1 |-> Search(s, g, i)]
  BY <1>6, <1>7
<1> QED BY <1>8 DEF PacketsFrom

\* From each position on, the search goes on from later ones.
LEMMA PacketsFromUnfolds ==
    ASSUME NEW s \in Seq(Byte), NEW i \in 1 .. Len(s) + 1
    PROVE  PacketsFrom(s)[i] = Search(s, PacketsFrom(s), i)
<1> DEFINE g == PacketsFrom(s)
<1>1. g = [k \in 1 .. Len(s) + 1 |-> Search(s, g, k)]
  BY PacketsFromIsDefined
<1> HIDE DEF g
<1>2. g[i] = Search(s, g, i)
  BY <1>1
<1> QED BY <1>2 DEF g

\* At a start mark.
LEMMA FoundAtStart ==
    ASSUME NEW s \in Seq(Byte), NEW i, IsStart(s, i)
    PROVE  PacketsFrom(s)[i] = At(s, PacketsFrom(s), i)
<1>1. Len(s) \in Nat /\ i \in 1 .. Len(s) - 1
  BY LenProperties DEF IsStart
<1>2. i \in 1 .. Len(s) + 1 /\ i \in i .. Len(s) /\ \A k \in i .. i - 1 : ~IsStart(s, k)
  BY <1>1
<1>3. Search(s, PacketsFrom(s), i) = At(s, PacketsFrom(s), i)
  BY <1>2, SearchFinds
<1> QED BY <1>2, <1>3, PacketsFromUnfolds

\* Where there is no start mark the search goes on.
LEMMA NothingIsSkipped ==
    ASSUME NEW s \in Seq(Byte), NEW i \in 1 .. Len(s) + 1, NEW j \in i .. Len(s) + 1,
           \A k \in i .. j - 1 : ~IsStart(s, k)
    PROVE  PacketsFrom(s)[i] = PacketsFrom(s)[j]
<1>1. Len(s) \in Nat /\ j \in 1 .. Len(s) + 1
  BY LenProperties
<1>2. CASE \A k \in j .. Len(s) : ~IsStart(s, k)
  <2>1. \A k \in i .. Len(s) : ~IsStart(s, k)
    <3> SUFFICES ASSUME NEW k \in i .. Len(s) PROVE ~IsStart(s, k)
      OBVIOUS
    <3>1. k \in i .. j - 1 \/ k \in j .. Len(s)
      BY <1>1
    <3> QED BY <1>2, <3>1
  <2> QED BY <1>1, <1>2, <2>1, SearchFindsNothing, PacketsFromUnfolds
<1>3. ASSUME NEW first \in j .. Len(s), IsStart(s, first), \A k \in j .. first - 1 : ~IsStart(s, k)
      PROVE  PacketsFrom(s)[i] = PacketsFrom(s)[j]
  <2>1. first \in i .. Len(s) /\ \A k \in i .. first - 1 : ~IsStart(s, k)
    <3>1. ASSUME NEW k \in i .. first - 1 PROVE ~IsStart(s, k)
      <4>1. k \in i .. j - 1 \/ k \in j .. first - 1
        BY <1>1
      <4> QED BY <1>3, <4>1
    <3> QED BY <1>1, <3>1
  <2>2. Search(s, PacketsFrom(s), i) = At(s, PacketsFrom(s), first)
    BY <1>3, <2>1, SearchFinds
  <2>3. Search(s, PacketsFrom(s), j) = At(s, PacketsFrom(s), first)
    BY <1>1, <1>3, SearchFinds
  <2> QED BY <1>1, <2>2, <2>3, PacketsFromUnfolds
<1> QED BY <1>1, <1>2, <1>3, NextStart

\* Packets are found with their positions, from every position on.
LEMMA PacketsFromType ==
    ASSUME NEW s \in Seq(Byte)
    PROVE  \A i \in 1 .. Len(s) + 1 : PacketsFrom(s)[i] \in Seq(Records)
<1> DEFINE n == Len(s) + 1
           F == PacketsFrom(s)
           S == {m \in Nat : \A i \in 1 .. n : n - i < m => F[i] \in Seq(Records)}
<1>1. n \in Nat /\ n >= 1 /\ Len(s) \in Nat
  BY LenProperties
<1>2. ASSUME NEW i \in 1 .. n, \A k \in i + 1 .. n : F[k] \in Seq(Records)
      PROVE  F[i] \in Seq(Records)
  <2>1. F[i] = Search(s, F, i)
    BY PacketsFromUnfolds
  <2>2. CASE \A k \in i .. Len(s) : ~IsStart(s, k)
    BY <2>1, <2>2, SearchFindsNothing, EmptySeq
  <2>3. ASSUME NEW j \in i .. Len(s), IsStart(s, j), \A k \in i .. j - 1 : ~IsStart(s, k)
        PROVE  F[i] \in Seq(Records)
    <3> DEFINE rest == SubSeq(s, j, Len(s))
               new == [at |-> j, packet |-> Packet(rest)]
    <3>1. F[i] = At(s, F, j)
      BY <2>1, <2>3, SearchFinds
    <3>2. /\ j \in Nat \ {0} /\ j + 2 \in 1 .. Len(s) + 1 /\ rest \in Seq(Byte)
          /\ Complete(rest) => j + TotalLen(rest) \in j + 1 .. Len(s) + 1
      BY <2>3, StartFacts
    <3>3. F[j + 2] \in Seq(Records)
      <4>1. j + 2 \in i + 1 .. n
        BY <1>1, <3>2
      <4> QED BY <1>2, <4>1
    <3>4. ASSUME Complete(rest)
          PROVE  <<new>> \o F[j + TotalLen(rest)] \in Seq(Records)
      <4>1. j + TotalLen(rest) \in i + 1 .. n
        BY <1>1, <3>2, <3>4
      <4>2. F[j + TotalLen(rest)] \in Seq(Records)
        BY <1>2, <4>1
      <4>3. new \in Records
        BY <3>2, <3>4, PacketIsBytes DEF Records
      <4> HIDE DEF new, F
      <4>4. <<new>> \in Seq(Records)
        BY <4>3
      <4> QED BY <4>2, <4>4, ConcatProperties
    <3>5. At(s, F, j) \in Seq(Records)
      <4> HIDE DEF F
      <4> QED BY <3>3, <3>4, EmptySeq DEF At
    <3> QED BY <3>1, <3>5
  <2> QED BY <2>2, <2>3, NextStart
<1> HIDE DEF F
<1>3. 0 \in S
  BY <1>1
<1>4. ASSUME NEW m \in Nat, m \in S PROVE m + 1 \in S
  <2> SUFFICES ASSUME NEW i \in 1 .. n, n - i < m + 1 PROVE F[i] \in Seq(Records)
    OBVIOUS
  <2>1. ASSUME NEW k \in i + 1 .. n PROVE F[k] \in Seq(Records)
    <3>1. k \in 1 .. n /\ n - k < m
      BY <1>1
    <3> QED BY <1>4, <3>1
  <2> QED BY <1>2, <2>1
<1>5. Nat \subseteq S
  <2> HIDE DEF S
  <2> QED BY <1>3, <1>4, InductionOverNat
<1>6. n \in S /\ \A i \in 1 .. n : n - i < n
  BY <1>1, <1>5
<1> QED BY <1>6 DEF F

-----------------------------------------------------------------------------
(* The steps of OnTraffic.                                                 *)

\* Before the first byte.
LEMMA InitIInv == Init => IInv
<1> SUFFICES ASSUME Init PROVE IInv
  OBVIOUS
<1>1. stream = <<>> /\ buffer = <<>> /\ delivered = <<>> /\ scanning = FALSE
  BY DEF Init
<1>2. Len(stream) = 0 /\ Len(buffer) = 0 /\ Len(delivered) = 0 /\ DOMAIN delivered = {}
  BY <1>1, EmptySeq
<1>3. TypeOK
  <2>1. stream \in Seq(Byte) /\ buffer \in Seq(Byte)
    BY <1>1, EmptySeq
  <2>2. delivered \in Seq(Records)
    BY <1>1, EmptySeq
  <2>3. scanning \in BOOLEAN
    BY <1>1
  <2>4. Len(buffer) <= Len(stream)
    BY <1>2
  <2> QED BY <2>1, <2>2, <2>3, <2>4 DEF TypeOK, Records
<1>4. BufferIsTail /\ BufferIsBounded
  BY <1>2, HeaderAssumption, MaxPacketAssumption DEF BufferIsTail, BufferIsBounded
<1>5. DeliveredIsReceived
  BY <1>2 DEF DeliveredIsReceived
<1> QED BY <1>3, <1>4, <1>5 DEF IInv

\* A delivered packet ends within the part of the stream already consumed.
LEMMA DeliveredFacts ==
    ASSUME TypeOK, DeliveredIsReceived, NEW k \in DOMAIN delivered
    PROVE  /\ delivered[k].at \in Nat \ {0} /\ delivered[k].at <= Len(stream)
           /\ delivered[k].packet \in Seq(Byte)
           /\ From(delivered[k].at) \in Seq(Byte)
<1> DEFINE d == delivered[k]
<1>1. d.at \in Nat \ {0} /\ d.packet \in Seq(Byte)
  <2>1. delivered \in Seq(Records)
    BY DEF TypeOK, Records
  <2>2. k \in 1 .. Len(delivered)
    BY <2>1, LenProperties
  <2>3. delivered[k] \in Records
    BY <2>1, <2>2, ElementOfSeq
  <2> QED BY <2>3 DEF Records
<1>2. Complete(From(d.at)) /\ d.packet = Packet(From(d.at)) /\ d.at + Len(d.packet) - 1 <= Consumed
  BY DEF DeliveredIsReceived
<1>3. Len(stream) \in Nat /\ Len(buffer) \in Nat
  BY LenProperties DEF TypeOK
<1>4. From(d.at) \in Seq(Byte)
  <2>1. \A j \in d.at .. Len(stream) : stream[j] \in Byte
    BY <1>1, <1>3, ElementOfSeq DEF TypeOK
  <2> QED BY <1>1, <1>3, <2>1, SubSeqProperties DEF From
<1>5. Len(d.packet) \in Nat /\ Len(d.packet) >= 1
  <2>1. Len(d.packet) = TotalLen(From(d.at))
    BY <1>2, <1>4, PacketIsBytes
  <2> QED BY <1>2, <1>4, <2>1, TotalIsNat, HeaderAssumption DEF Complete
<1> QED BY <1>1, <1>2, <1>3, <1>4, <1>5 DEF Consumed

\* What has been handed on stays justified while the stream grows.
LEMMA GrowthKeepsDelivered ==
    ASSUME TypeOK, TypeOK', DeliveredIsReceived, delivered' = delivered,
           Consumed <= Consumed', Len(stream) <= Len(stream'),
           \A i \in 1 .. Len(stream) : stream'[i] = stream[i]
    PROVE  DeliveredIsReceived'
<1>1. /\ Len(stream) \in Nat /\ Len(stream') \in Nat
      /\ Len(buffer) \in Nat /\ Len(buffer') \in Nat
      /\ stream \in Seq(Byte) /\ stream' \in Seq(Byte)
  BY LenProperties DEF TypeOK
<1>2. ASSUME NEW k \in DOMAIN delivered
      PROVE  LET d == delivered[k]
             IN  /\ Complete(From(d.at)') /\ d.packet = Packet(From(d.at)')
                 /\ VerifyChecksum(d.packet)
                 /\ d.at + Len(d.packet) - 1 <= Consumed'
  <2> DEFINE d == delivered[k]
             old == SubSeq(stream, d.at, Len(stream))
             new == SubSeq(stream', d.at, Len(stream'))
  <2>1. d.at \in Nat \ {0} /\ d.at <= Len(stream) /\ d.packet \in Seq(Byte)
    BY DeliveredFacts
  <2>2. Complete(old) /\ d.packet = Packet(old) /\ VerifyChecksum(d.packet)
        /\ d.at + Len(d.packet) - 1 <= Consumed
    BY DEF DeliveredIsReceived, From
  <2>3. From(d.at)' = new
    BY DEF From
  <2>4. Len(d.packet) \in Nat /\ Consumed \in Int /\ Consumed' \in Int
    BY <1>1, <2>1, LenProperties DEF Consumed
  <2> HIDE DEF d
  <2>5. /\ old \in Seq(Byte) /\ Len(old) = Len(stream) - d.at + 1
        /\ \A j \in 1 .. Len(stream) - d.at + 1 : old[j] = stream[d.at + j - 1]
    <3>1. d.at <= Len(stream) + 1
      BY <1>1, <2>1
    <3> QED BY <1>1, <2>1, <3>1, FromFacts
  <2>6. /\ new \in Seq(Byte) /\ Len(new) = Len(stream') - d.at + 1
        /\ \A j \in 1 .. Len(stream') - d.at + 1 : new[j] = stream'[d.at + j - 1]
    <3>1. d.at <= Len(stream') + 1
      BY <1>1, <2>1
    <3> QED BY <1>1, <2>1, <3>1, FromFacts
  <2> HIDE DEF old, new
  <2>7. Len(old) <= Len(new) /\ \A j \in 1 .. Len(old) : new[j] = old[j]
    <3>1. Len(old) <= Len(new)
      BY <1>1, <2>1, <2>5, <2>6
    <3>2. ASSUME NEW j \in 1 .. Len(old) PROVE new[j] = old[j]
      <4> DEFINE i == d.at + j - 1
      <4>1. i \in 1 .. Len(stream)
        <5>1. \A at \in Nat \ {0}, len \in Nat :
                  at <= len => \A m \in 1 .. len - at + 1 : at + m - 1 \in 1 .. len
          OBVIOUS
        <5>2. j \in 1 .. Len(stream) - d.at + 1
          BY <2>5
        <5> QED BY <1>1, <2>1, <5>1, <5>2
      <4>2. j \in 1 .. Len(stream) - d.at + 1 /\ j \in 1 .. Len(stream') - d.at + 1
        BY <1>1, <2>1, <2>5
      <4>3. old[j] = stream[i] /\ new[j] = stream'[i]
        BY <2>5, <2>6, <4>2
      <4> HIDE DEF i
      <4> QED BY <4>1, <4>3
    <3> QED BY <3>1, <3>2
  <2>8. Complete(new) /\ Packet(new) = Packet(old)
    BY <2>2, <2>5, <2>6, <2>7, MoreBytes
  <2>9. d.at + Len(d.packet) - 1 <= Consumed'
    BY <2>1, <2>2, <2>4
  <2> QED BY <2>2, <2>3, <2>8, <2>9 DEF d
<1> QED BY <1>2 DEF DeliveredIsReceived

\* Advancing the buffer by part of it.
LEMMA AdvanceFacts ==
    ASSUME TypeOK, BufferIsTail, NEW k \in 0 .. Len(buffer), Advance(k)
    PROVE  /\ buffer' \in Seq(Byte) /\ Len(buffer') = Len(buffer) - k
           /\ Consumed' = Consumed + k
           /\ UNCHANGED <<stream, scanning>> /\ scanning'
           /\ BufferIsTail' /\ BufferIsBounded'
<1>1. Len(stream) \in Nat /\ Len(buffer) \in Nat
  BY LenProperties DEF TypeOK
<1>2. buffer' = SubSeq(buffer, k + 1, Len(buffer)) /\ UNCHANGED <<stream, scanning>> /\ scanning
  BY DEF Advance
<1>3. \A j \in k + 1 .. Len(buffer) : buffer[j] \in Byte
  BY <1>1, ElementOfSeq DEF TypeOK
<1>4. /\ buffer' \in Seq(Byte) /\ Len(buffer') = Len(buffer) - k
      /\ \A j \in 1 .. Len(buffer) - k : buffer'[j] = buffer[k + j]
  BY <1>1, <1>2, <1>3, SubSeqProperties
<1>5. Consumed' = Consumed + k
  <2>1. Len(stream') = Len(stream) /\ Len(buffer') = Len(buffer) - k
    BY <1>2, <1>4
  <2> QED BY <1>1, <2>1 DEF Consumed
<1>6. BufferIsTail'
  <2> SUFFICES ASSUME NEW j \in 1 .. Len(buffer')
               PROVE  buffer'[j] = stream'[Consumed' + j]
    BY DEF BufferIsTail
  <2>1. k + j \in 1 .. Len(buffer) /\ buffer'[j] = buffer[k + j]
    BY <1>1, <1>4
  <2>2. buffer[k + j] = stream[Consumed + (k + j)]
    BY <2>1 DEF BufferIsTail
  <2>3. Consumed' + j = Consumed + (k + j)
    BY <1>1, <1>5 DEF Consumed
  <2> QED BY <1>2, <2>1, <2>2, <2>3
<1> QED BY <1>2, <1>4, <1>5, <1>6 DEF BufferIsBounded

\* New bytes go to the end of both the stream and the buffer.
LEMMA ReceiveKeepsIInv == IInv /\ Receive => IInv'
<1> SUFFICES ASSUME IInv, Receive PROVE IInv'
  OBVIOUS
<1>1. TypeOK /\ BufferIsTail /\ DeliveredIsReceived
  BY DEF IInv
<1>2. PICK chunk \in BoundedSeq(Letters, MaxChunk) : stream' = stream \o chunk /\ buffer' = buffer \o chunk
  BY DEF Receive
<1>3. scanning' = TRUE /\ delivered' = delivered
  BY DEF Receive
<1>4. chunk \in Seq(Byte)
  <2>1. PICK m \in 0 .. MaxChunk : chunk \in [1 .. m -> Letters]
    BY DEF BoundedSeq, SeqOf
  <2>2. m \in Nat /\ chunk \in [1 .. m -> Byte]
    BY <2>1, LettersAssumption
  <2> QED BY <2>2, IsASeq
<1>5. stream \in Seq(Byte) /\ buffer \in Seq(Byte) /\ Len(stream) \in Nat /\ Len(buffer) \in Nat
      /\ Len(chunk) \in Nat
  BY <1>1, <1>4, LenProperties DEF TypeOK
<1>6. /\ stream' \in Seq(Byte) /\ Len(stream') = Len(stream) + Len(chunk)
      /\ \A i \in 1 .. Len(stream) + Len(chunk) :
             stream'[i] = IF i <= Len(stream) THEN stream[i] ELSE chunk[i - Len(stream)]
  BY <1>2, <1>4, <1>5, ConcatProperties
<1>7. /\ buffer' \in Seq(Byte) /\ Len(buffer') = Len(buffer) + Len(chunk)
      /\ \A i \in 1 .. Len(buffer) + Len(chunk) :
             buffer'[i] = IF i <= Len(buffer) THEN buffer[i] ELSE chunk[i - Len(buffer)]
  BY <1>2, <1>4, <1>5, ConcatProperties
<1>8. TypeOK'
  BY <1>1, <1>3, <1>5, <1>6, <1>7 DEF TypeOK
<1>9. Consumed' = Consumed
  BY <1>5, <1>6, <1>7 DEF Consumed
<1>10. BufferIsTail'
  <2> SUFFICES ASSUME NEW j \in 1 .. Len(buffer')
               PROVE  buffer'[j] = stream'[Consumed + j]
    BY <1>9 DEF BufferIsTail
  <2>1. Consumed \in Nat /\ Consumed + Len(buffer) = Len(stream)
    BY <1>1, <1>5 DEF Consumed, TypeOK
  <2>2. CASE j <= Len(buffer)
    <3>1. buffer[j] = stream[Consumed + j]
      BY <1>1, <1>5, <2>2 DEF BufferIsTail
    <3> QED BY <1>5, <1>6, <1>7, <2>1, <2>2, <3>1
  <2>3. CASE j > Len(buffer)
    <3>1. buffer'[j] = chunk[j - Len(buffer)]
      BY <1>5, <1>7, <2>3
    <3> DEFINE i == Consumed + j
    <3>2. i \in 1 .. Len(stream) + Len(chunk) /\ i > Len(stream) /\ i \in Nat
      BY <1>5, <1>7, <2>1, <2>3
    <3> HIDE DEF i
    <3>3. stream'[i] = chunk[i - Len(stream)]
      BY <1>5, <1>6, <3>2
    <3>4. i - Len(stream) = j - Len(buffer)
      BY <1>5, <2>1 DEF i
    <3>5. buffer'[j] = stream'[i]
      BY <3>1, <3>3, <3>4
    <3> QED BY <3>5 DEF i
  <2> QED BY <1>5, <1>7, <2>2, <2>3
<1>11. DeliveredIsReceived'
  <2>1. \A i \in 1 .. Len(stream) : stream'[i] = stream[i]
    BY <1>5, <1>6
  <2>2. Consumed <= Consumed' /\ Len(stream) <= Len(stream')
    BY <1>5, <1>6, <1>9 DEF Consumed
  <2> QED BY <1>1, <1>3, <1>8, <2>1, <2>2, GrowthKeepsDelivered
<1>12. BufferIsBounded'
  BY <1>3 DEF BufferIsBounded
<1> QED BY <1>8, <1>10, <1>11, <1>12 DEF IInv

\* The steps that pass over bytes without handing them on.
LEMMA SkipKeepsIInv ==
    ASSUME IInv, NEW k \in 0 .. Len(buffer), Advance(k), UNCHANGED delivered
    PROVE  IInv'
<1>1. TypeOK /\ BufferIsTail /\ DeliveredIsReceived
  BY DEF IInv
<1>2. /\ buffer' \in Seq(Byte) /\ Len(buffer') = Len(buffer) - k
      /\ Consumed' = Consumed + k
      /\ UNCHANGED <<stream, scanning>>
      /\ BufferIsTail' /\ BufferIsBounded'
  BY <1>1, AdvanceFacts
<1>3. Len(stream) \in Nat /\ Len(buffer) \in Nat
  BY <1>1, LenProperties DEF TypeOK
<1>4. TypeOK'
  BY <1>1, <1>2, <1>3 DEF TypeOK
<1>5. Consumed <= Consumed'
  BY <1>2, <1>3 DEF Consumed
<1>6. DeliveredIsReceived'
  BY <1>1, <1>2, <1>3, <1>4, <1>5, GrowthKeepsDelivered
<1> QED BY <1>2, <1>4, <1>6 DEF IInv

\* Each of them passes over bytes that are there.
LEMMA SkipsAreShort ==
    ASSUME TypeOK, DropGarbage \/ SkipToStart \/ SkipStart
    PROVE  \E k \in 0 .. Len(buffer) : Advance(k) /\ UNCHANGED delivered
<1>1. Len(buffer) \in Nat
  BY LenProperties DEF TypeOK
<1>2. CASE DropGarbage
  BY <1>1, <1>2 DEF DropGarbage
<1>3. CASE SkipToStart
  <2>1. PICK first \in Starts(buffer) : Advance(first - 1)
    BY <1>3 DEF SkipToStart
  <2>2. first - 1 \in 0 .. Len(buffer)
    BY <1>1 DEF Starts
  <2> QED BY <1>3, <2>1, <2>2 DEF SkipToStart
<1>4. CASE SkipStart
  <2>1. 2 \in 0 .. Len(buffer)
    BY <1>1, <1>4, HeaderAssumption DEF SkipStart, HasHeader
  <2> QED BY <1>4, <2>1 DEF SkipStart
<1> QED BY <1>2, <1>3, <1>4

\* A packet is handed on as it lies at the head of the buffer.
LEMMA DeliverKeepsIInv == IInv /\ Deliver => IInv'
<1> SUFFICES ASSUME IInv, Deliver PROVE IInv'
  OBVIOUS
<1>1. TypeOK /\ BufferIsTail /\ DeliveredIsReceived
  BY DEF IInv
<1> DEFINE t == TotalLen(buffer)
           new == [at |-> Consumed + 1, packet |-> Packet(buffer)]
<1>2. Complete(buffer) /\ VerifyChecksum(Packet(buffer)) /\ Advance(t)
      /\ delivered' = Append(delivered, new)
  BY DEF Deliver
<1>3. Len(stream) \in Nat /\ Len(buffer) \in Nat /\ Consumed \in Nat
  BY <1>1, LenProperties DEF TypeOK, Consumed
<1>4. t \in 0 .. Len(buffer) /\ t >= 1
  BY <1>1, <1>2, <1>3, TotalIsNat, HeaderAssumption DEF Complete, TypeOK
<1>5. Packet(buffer) \in Seq(Byte) /\ Len(Packet(buffer)) = t
  BY <1>1, <1>2, PacketIsBytes DEF TypeOK
<1>6. /\ buffer' \in Seq(Byte) /\ Len(buffer') = Len(buffer) - t
      /\ Consumed' = Consumed + t
      /\ UNCHANGED <<stream, scanning>>
      /\ BufferIsTail' /\ BufferIsBounded'
  BY <1>1, <1>2, <1>4, AdvanceFacts
<1>7. new \in Records /\ delivered \in Seq(Records)
  BY <1>1, <1>3, <1>5 DEF TypeOK, Records
<1>8. /\ delivered' \in Seq(Records) /\ Len(delivered') = Len(delivered) + 1
      /\ \A k \in 1 .. Len(delivered) : delivered'[k] = delivered[k]
      /\ delivered'[Len(delivered) + 1] = new
      /\ Len(delivered) \in Nat
  BY <1>2, <1>7, AppendProperties, LenProperties
<1>9. /\ DOMAIN delivered = 1 .. Len(delivered)
      /\ DOMAIN delivered' = 1 .. Len(delivered) + 1
  BY <1>7, <1>8, LenProperties
<1>10. TypeOK'
  BY <1>1, <1>3, <1>4, <1>6, <1>8 DEF TypeOK, Records
<1>11. Complete(From(Consumed + 1)) /\ Packet(From(Consumed + 1)) = Packet(buffer)
  <2>1. /\ From(Consumed + 1) \in Seq(Byte)
        /\ Len(From(Consumed + 1)) = Len(stream) - (Consumed + 1) + 1
        /\ \A j \in 1 .. Len(stream) - (Consumed + 1) + 1 :
               From(Consumed + 1)[j] = stream[(Consumed + 1) + j - 1]
    <3>1. Consumed + 1 \in Nat \ {0} /\ Consumed + 1 <= Len(stream) + 1
      BY <1>3 DEF Consumed
    <3> QED BY <1>1, <3>1, FromFacts DEF From, TypeOK
  <2>2. Len(From(Consumed + 1)) = Len(buffer)
        /\ \A j \in 1 .. Len(buffer) : From(Consumed + 1)[j] = buffer[j]
    <3>1. Len(stream) - (Consumed + 1) + 1 = Len(buffer)
      BY <1>3 DEF Consumed
    <3>2. \A j \in 1 .. Len(buffer) : (Consumed + 1) + j - 1 = Consumed + j
      BY <1>3
    <3> QED BY <1>1, <2>1, <3>1, <3>2 DEF BufferIsTail
  <2> QED BY <1>1, <1>2, <1>3, <2>1, <2>2, MoreBytes DEF TypeOK
<1>12. \A i : From(i)' = From(i)
  BY <1>6 DEF From
<1>13. DeliveredIsReceived'
  <2>1. \A k \in 1 .. Len(delivered) :
            /\ Complete(From(delivered[k].at))
            /\ delivered[k].packet = Packet(From(delivered[k].at))
            /\ VerifyChecksum(delivered[k].packet)
            /\ delivered[k].at + Len(delivered[k].packet) - 1 <= Consumed
    BY <1>1, <1>9 DEF DeliveredIsReceived
  <2>2. \A k \in 1 .. Len(delivered) :
            delivered[k].at \in Nat /\ Len(delivered[k].packet) \in Nat
    BY <1>1, <1>9, DeliveredFacts, LenProperties
  <2>3. \A k \in 1 .. Len(delivered) :
            delivered[k].at + Len(delivered[k].packet) - 1 <= Consumed'
    BY <1>3, <1>4, <1>6, <2>1, <2>2
  <2>4. new.at = Consumed + 1 /\ new.packet = Packet(buffer)
        /\ new.at + Len(new.packet) - 1 <= Consumed'
    BY <1>3, <1>4, <1>5, <1>6
  <2> HIDE DEF new, t
  <2>5. ASSUME NEW k \in DOMAIN delivered'
        PROVE  /\ Complete(From(delivered'[k].at)) /\ delivered'[k].packet = Packet(From(delivered'[k].at))
               /\ VerifyChecksum(delivered'[k].packet)
               /\ delivered'[k].at + Len(delivered'[k].packet) - 1 <= Consumed'
    <3>1. CASE k \in 1 .. Len(delivered)
      BY <1>8, <2>1, <2>3, <3>1
    <3>2. CASE k = Len(delivered) + 1
      BY <1>2, <1>8, <1>11, <2>4, <3>2
    <3> QED BY <1>8, <1>9, <3>1, <3>2
  <2>6. ASSUME NEW k \in 2 .. Len(delivered')
        PROVE  delivered'[k - 1].at + Len(delivered'[k - 1].packet) <= delivered'[k].at
    <3>1. CASE k \in 2 .. Len(delivered)
      <4>1. k \in 1 .. Len(delivered) /\ k - 1 \in 1 .. Len(delivered)
        BY <1>8, <3>1
      <4> QED BY <1>1, <1>8, <3>1, <4>1 DEF DeliveredIsReceived
    <3>2. CASE k = Len(delivered) + 1
      <4>1. k - 1 \in 1 .. Len(delivered) /\ k - 1 = Len(delivered)
        BY <1>8, <3>2
      <4>2. delivered[k - 1].at + Len(delivered[k - 1].packet) <= Consumed + 1
        <5> DEFINE begin == delivered[k - 1].at
                   size == Len(delivered[k - 1].packet)
        <5>1. begin \in Nat /\ size \in Nat /\ begin + size - 1 <= Consumed
          BY <2>1, <2>2, <4>1
        <5> HIDE DEF begin, size
        <5>2. begin + size <= Consumed + 1
          BY <1>3, <5>1
        <5> QED BY <5>2 DEF begin, size
      <4>3. delivered'[k - 1] = delivered[k - 1] /\ delivered'[k].at = Consumed + 1
        BY <1>8, <2>4, <3>2, <4>1
      <4> QED BY <4>2, <4>3
    <3> QED BY <1>8, <3>1, <3>2
  <2> QED BY <1>12, <2>5, <2>6 DEF DeliveredIsReceived
<1> QED BY <1>6, <1>10, <1>13 DEF IInv

\* OnTraffic returns only with less than a packet in the buffer.
LEMMA ReturnKeepsIInv == IInv /\ Return => IInv'
<1> SUFFICES ASSUME IInv, Return PROVE IInv'
  OBVIOUS
<1>1. TypeOK /\ BufferIsTail /\ DeliveredIsReceived
  BY DEF IInv
<1>2. NeedMore /\ scanning' = FALSE /\ UNCHANGED <<stream, buffer, delivered>>
  BY DEF Return
<1>3. Len(buffer) \in Nat
  BY <1>1, LenProperties DEF TypeOK
<1>4. Len(buffer) < MaxPacket
  <2>1. CASE Len(buffer) <= 1 \/ Len(buffer) < HeaderSize
    BY <1>3, <2>1, HeaderAssumption, MaxPacketAssumption
  <2>2. CASE HasHeader(buffer) /\ ~TooLarge(buffer) /\ Len(buffer) < TotalLen(buffer)
    BY <1>1, <1>3, <2>2, TotalIsNat, MaxPacketAssumption DEF TooLarge, TypeOK
  <2> QED BY <1>2, <2>1, <2>2 DEF NeedMore
<1>5. TypeOK' /\ BufferIsTail' /\ DeliveredIsReceived'
  BY <1>1, <1>2 DEF TypeOK, BufferIsTail, DeliveredIsReceived, Consumed, From
<1> QED BY <1>2, <1>4, <1>5 DEF IInv, BufferIsBounded

-----------------------------------------------------------------------------
\* Every step of OnTraffic.
LEMMA NextKeepsIInv == IInv /\ [Next]_vars => IInv'
<1> SUFFICES ASSUME IInv, [Next]_vars PROVE IInv'
  OBVIOUS
<1>1. CASE Receive
  BY <1>1, ReceiveKeepsIInv
<1>2. CASE DropGarbage \/ SkipToStart \/ SkipStart
  <2>1. PICK k \in 0 .. Len(buffer) : Advance(k) /\ UNCHANGED delivered
    BY <1>2, SkipsAreShort DEF IInv
  <2> QED BY <2>1, SkipKeepsIInv
<1>3. CASE Deliver
  BY <1>3, DeliverKeepsIInv
<1>4. CASE Return
  BY <1>4, ReturnKeepsIInv
<1>5. CASE UNCHANGED vars
  BY <1>5 DEF vars, IInv, TypeOK, BufferIsTail, DeliveredIsReceived, BufferIsBounded, Consumed, From
<1> QED BY <1>1, <1>2, <1>3, <1>4, <1>5 DEF Next, Scan

(* The inductive invariant holds of every behaviour of the scanner.        *)
THEOREM InvariantHolds == Spec => []IInv
  BY InitIInv, NextKeepsIInv, PTL DEF Spec

(* The buffer and the packets are bytes, and no byte is kept twice.        *)
THEOREM TypeCorrect == Spec => []TypeOK
<1>1. IInv => TypeOK
  BY DEF IInv
<1> QED BY <1>1, InvariantHolds, PTL

(* Whatever a peer sends, its connection keeps less than one packet of the *)
(* largest size between callbacks (decoder.go:87).                         *)
THEOREM MemoryIsBounded == Spec => []BufferIsBounded
<1>1. IInv => BufferIsBounded
  BY DEF IInv
<1> QED BY <1>1, InvariantHolds, PTL

(* Packets handed on are disjoint pieces of the stream, in its order, each *)
(* with a start mark and a matching checksum (decoder.go:104).             *)
THEOREM PacketsAreReceived == Spec => []DeliveredIsReceived
<1>1. IInv => DeliveredIsReceived
  BY DEF IInv
<1> QED BY <1>1, InvariantHolds, PTL

\* A step by which OnTraffic's loop goes on uses up some of the buffer.
LEMMA StepUsesUp ==
    ASSUME TypeOK, Next, scanning, scanning'
    PROVE  Len(buffer') < Len(buffer)
<1>1. buffer \in Seq(Byte) /\ Len(buffer) \in Nat
  BY LenProperties DEF TypeOK
<1>2. ASSUME NEW k \in 1 .. Len(buffer), Advance(k)
      PROVE  Len(buffer') < Len(buffer)
  <2>1. buffer' = SubSeq(buffer, k + 1, Len(buffer))
    BY <1>2 DEF Advance
  <2>2. \A j \in k + 1 .. Len(buffer) : buffer[j] \in Byte
    BY <1>1, ElementOfSeq
  <2>3. Len(buffer') = Len(buffer) - k
    BY <1>1, <2>1, <2>2, SubSeqProperties
  <2> QED BY <1>1, <2>3
<1>3. CASE DropGarbage
  <2>1. Len(buffer) - 1 \in 1 .. Len(buffer) /\ Advance(Len(buffer) - 1)
    BY <1>1, <1>3 DEF DropGarbage
  <2> QED BY <1>2, <2>1
<1>4. CASE SkipToStart
  <2>1. PICK first \in Starts(buffer) : ~IsStart(buffer, 1) /\ Advance(first - 1)
    BY <1>4 DEF SkipToStart
  <2>2. first - 1 \in 1 .. Len(buffer)
    BY <1>1, <2>1 DEF Starts
  <2> QED BY <1>2, <2>1, <2>2
<1>5. CASE SkipStart
  <2>1. 2 \in 1 .. Len(buffer) /\ Advance(2)
    BY <1>1, <1>5, HeaderAssumption DEF SkipStart, HasHeader
  <2> QED BY <1>2, <2>1
<1>6. CASE Deliver
  <2>1. Complete(buffer) /\ Advance(TotalLen(buffer))
    BY <1>6 DEF Deliver
  <2>2. TotalLen(buffer) \in 1 .. Len(buffer)
    BY <1>1, <2>1, TotalIsNat, HeaderAssumption DEF Complete
  <2> QED BY <1>2, <2>1, <2>2
<1> QED BY <1>3, <1>4, <1>5, <1>6 DEF Next, Receive, Scan, Return

(* While OnTraffic's loop runs, each turn that does not end it leaves less *)
(* in the buffer (tcp_server.go:109 and :115), so it turns no more often   *)
(* than there are bytes, on any stream.                                    *)
THEOREM ScanShortens ==
    Spec => [][scanning /\ scanning' => Len(buffer') < Len(buffer)]_vars
<1>1. TypeOK /\ [Next]_vars => [scanning /\ scanning' => Len(buffer') < Len(buffer)]_vars
  BY StepUsesUp
<1> QED BY <1>1, TypeCorrect, PTL DEF Spec

-----------------------------------------------------------------------------
(* What becomes of start marks the scanner has passed.                     *)

Inside(packets, i) == \E k \in DOMAIN packets :
                          i \in packets[k].at .. packets[k].at + Len(packets[k].packet) - 1

\* No further bytes will make a packet of it.
Hopeless(data) == /\ HasHeader(data)
                  /\ \/ TooLarge(data)
                     \/ Complete(data) /\ ~VerifyChecksum(Packet(data))

\* Each start mark passed has a reason; and the byte before an empty buffer,
\* which may be half of one, belongs to a packet.
Passed == /\ \A i \in 1 .. Consumed :
                 IsStart(stream, i) =>
                     Inside(delivered, i) \/ IsStart(stream, i - 1) \/ Hopeless(From(i))
          /\ Len(buffer) = 0 /\ Consumed > 0 => Inside(delivered, Consumed)

Waits == ~scanning => NeedMore

\* The sizes of buffer and stream.
LEMMA Sizes ==
    ASSUME TypeOK
    PROVE  /\ stream \in Seq(Byte) /\ buffer \in Seq(Byte)
           /\ Len(stream) \in Nat /\ Len(buffer) \in Nat
           /\ Consumed \in Nat /\ Consumed + Len(buffer) = Len(stream)
<1>1. Len(stream) \in Nat /\ Len(buffer) \in Nat /\ Len(buffer) <= Len(stream)
  BY LenProperties DEF TypeOK
<1> QED BY <1>1 DEF TypeOK, Consumed

\* What is hopeless stays hopeless.
LEMMA MoreHopeless ==
    ASSUME NEW data \in Seq(Byte), NEW more \in Seq(Byte),
           Hopeless(data), Len(data) <= Len(more),
           \A i \in 1 .. Len(data) : more[i] = data[i]
    PROVE  Hopeless(more)
<1>1. Len(data) \in Nat /\ Len(more) \in Nat
  BY LenProperties
<1>2. CASE TooLarge(data)
  <2>1. HasHeader(data) /\ HeaderSize <= Len(data) /\ IsStart(data, 1)
    BY DEF Hopeless, HasHeader
  <2>2. 1 \in 1 .. Len(data) - 1 /\ 1 \in 1 .. Len(data) /\ 2 \in 1 .. Len(data)
    BY <1>1, <2>1, HeaderAssumption
  <2>3. IsStart(more, 1)
    BY <1>1, <2>1, <2>2 DEF IsStart
  <2>4. HeaderSize - 1 \in 1 .. Len(data) /\ HeaderSize \in 1 .. Len(data)
    BY <1>1, <2>1, HeaderAssumption
  <2>5. TotalLen(more) = TotalLen(data)
    BY <2>4 DEF TotalLen, DataLen
  <2> QED BY <1>1, <1>2, <2>1, <2>3, <2>5, HeaderAssumption DEF Hopeless, HasHeader, TooLarge
<1>3. CASE Complete(data) /\ ~VerifyChecksum(Packet(data))
  <2>1. Complete(more) /\ Packet(more) = Packet(data)
    BY <1>3, MoreBytes
  <2> QED BY <1>3, <2>1 DEF Hopeless, Complete
<1> QED BY <1>2, <1>3 DEF Hopeless

\* A stream that grows grows at its end, seen from any position.
LEMMA MoreFrom ==
    ASSUME NEW s \in Seq(Byte), NEW t \in Seq(Byte), Len(s) <= Len(t),
           \A i \in 1 .. Len(s) : t[i] = s[i],
           NEW i \in 1 .. Len(s)
    PROVE  /\ IsStart(s, i) => IsStart(t, i)
           /\ Hopeless(SubSeq(s, i, Len(s))) => Hopeless(SubSeq(t, i, Len(t)))
<1> DEFINE old == SubSeq(s, i, Len(s))
           new == SubSeq(t, i, Len(t))
<1>1. Len(s) \in Nat /\ Len(t) \in Nat /\ i \in Nat \ {0} /\ i <= Len(s) + 1 /\ i <= Len(t) + 1
  BY LenProperties
<1>2. /\ old \in Seq(Byte) /\ Len(old) = Len(s) - i + 1
      /\ \A j \in 1 .. Len(s) - i + 1 : old[j] = s[i + j - 1]
  BY <1>1, FromFacts
<1>3. /\ new \in Seq(Byte) /\ Len(new) = Len(t) - i + 1
      /\ \A j \in 1 .. Len(t) - i + 1 : new[j] = t[i + j - 1]
  BY <1>1, FromFacts
<1> HIDE DEF old, new
<1>4. Len(old) <= Len(new) /\ \A j \in 1 .. Len(old) : new[j] = old[j]
  <2>1. Len(old) <= Len(new)
    BY <1>1, <1>2, <1>3
  <2>2. ASSUME NEW j \in 1 .. Len(old) PROVE new[j] = old[j]
    <3>1. j \in 1 .. Len(s) - i + 1 /\ j \in 1 .. Len(t) - i + 1 /\ i + j - 1 \in 1 .. Len(s)
      BY <1>1, <1>2
    <3> QED BY <1>2, <1>3, <3>1
  <2> QED BY <2>1, <2>2
<1>5. Hopeless(old) => Hopeless(new)
  BY <1>2, <1>3, <1>4, MoreHopeless
<1>6. IsStart(s, i) => IsStart(t, i)
  BY <1>1 DEF IsStart
<1> QED BY <1>5, <1>6 DEF old, new

\* A start mark in the buffer is one in the stream, and the other way round.
LEMMA BufferStart ==
    ASSUME TypeOK, BufferIsTail, NEW i \in Nat, i > Consumed
    PROVE  /\ i - Consumed \in Nat \ {0}
           /\ IsStart(stream, i) <=> IsStart(buffer, i - Consumed)
<1> DEFINE j == i - Consumed
<1>1. /\ Len(stream) \in Nat /\ Len(buffer) \in Nat
      /\ Consumed \in Nat /\ Consumed + Len(buffer) = Len(stream)
  BY Sizes
<1>2. j \in Nat \ {0} /\ i = Consumed + j /\ i + 1 = Consumed + (j + 1)
  BY <1>1
<1>3. i \in 1 .. Len(stream) - 1 <=> j \in 1 .. Len(buffer) - 1
  BY <1>1
<1> HIDE DEF j
<1>4. ASSUME j \in 1 .. Len(buffer) - 1
      PROVE  stream[i] = buffer[j] /\ stream[i + 1] = buffer[j + 1]
  <2>1. j \in 1 .. Len(buffer) /\ j + 1 \in 1 .. Len(buffer)
    BY <1>1, <1>4
  <2> QED BY <1>2, <2>1 DEF BufferIsTail
<1>5. IsStart(stream, i) <=> IsStart(buffer, j)
  BY <1>3, <1>4 DEF IsStart
<1> QED BY <1>2, <1>5 DEF j

\* The buffer is the stream from the first byte not yet consumed.
LEMMA FromIsBuffer ==
    ASSUME TypeOK, BufferIsTail
    PROVE  From(Consumed + 1) = buffer
<1>1. /\ stream \in Seq(Byte) /\ buffer \in Seq(Byte)
      /\ Len(stream) \in Nat /\ Len(buffer) \in Nat
      /\ Consumed \in Nat /\ Consumed + Len(buffer) = Len(stream)
  BY Sizes
<1>2. Consumed + 1 \in Nat \ {0} /\ Consumed + 1 <= Len(stream) + 1
  BY <1>1
<1>3. /\ From(Consumed + 1) \in Seq(Byte)
      /\ Len(From(Consumed + 1)) = Len(stream) - (Consumed + 1) + 1
      /\ \A j \in 1 .. Len(stream) - (Consumed + 1) + 1 :
             From(Consumed + 1)[j] = stream[(Consumed + 1) + j - 1]
  BY <1>1, <1>2, FromFacts DEF From
<1>4. Len(stream) - (Consumed + 1) + 1 = Len(buffer)
  BY <1>1
<1>5. ASSUME NEW j \in 1 .. Len(buffer) PROVE From(Consumed + 1)[j] = buffer[j]
  <2>1. (Consumed + 1) + j - 1 = Consumed + j
    BY <1>1
  <2> QED BY <1>3, <1>4, <2>1 DEF BufferIsTail
<1> QED BY <1>1, <1>3, <1>4, <1>5, SeqEqual

\* Nothing has been passed yet.
LEMMA InitPassed == Init => Passed /\ Waits
<1> SUFFICES ASSUME Init PROVE Passed /\ Waits
  OBVIOUS
<1>1. stream = <<>> /\ buffer = <<>>
  BY DEF Init
<1>2. Len(stream) = 0 /\ Len(buffer) = 0 /\ Consumed = 0
  BY <1>1, EmptySeq DEF Consumed
<1>3. Starts(buffer) = {}
  BY <1>2 DEF Starts
<1> QED BY <1>2, <1>3 DEF Passed, Waits, NeedMore

\* What it takes to pass some bytes.
LEMMA AdvanceKeepsPassed ==
    ASSUME IInv, Passed, NEW k \in 0 .. Len(buffer), Advance(k),
           \A i : Inside(delivered, i) => Inside(delivered', i),
           \A i \in Consumed + 1 .. Consumed + k : IsStart(stream, i) =>
               Inside(delivered', i) \/ IsStart(stream, i - 1) \/ Hopeless(From(i)),
           k = Len(buffer) /\ k > 0 => Inside(delivered', Consumed + k)
    PROVE  Passed'
<1>1. TypeOK /\ BufferIsTail
  BY DEF IInv
<1>2. /\ Len(stream) \in Nat /\ Len(buffer) \in Nat
      /\ Consumed \in Nat /\ Consumed + Len(buffer) = Len(stream)
  BY <1>1, Sizes
<1>3. /\ Len(buffer') = Len(buffer) - k
      /\ Consumed' = Consumed + k
      /\ stream' = stream
  BY <1>1, AdvanceFacts
<1>4. \A i : From(i)' = From(i)
  BY <1>3 DEF From
<1>5. ASSUME NEW i \in 1 .. Consumed + k, IsStart(stream, i)
      PROVE  Inside(delivered', i) \/ IsStart(stream, i - 1) \/ Hopeless(From(i))
  <2>1. CASE i <= Consumed
    <3>1. i \in 1 .. Consumed
      BY <1>2, <2>1
    <3> QED BY <1>5, <3>1 DEF Passed
  <2>2. CASE i > Consumed
    <3>1. i \in Consumed + 1 .. Consumed + k
      BY <1>2, <2>2
    <3> QED BY <1>5, <3>1
  <2> QED BY <1>2, <2>1, <2>2
<1>6. Len(buffer)' = 0 /\ Consumed' > 0 => Inside(delivered', Consumed')
  <2> SUFFICES ASSUME Len(buffer)' = 0, Consumed' > 0 PROVE Inside(delivered', Consumed')
    OBVIOUS
  <2>1. k = Len(buffer)
    BY <1>2, <1>3
  <2>2. Inside(delivered', Consumed + k)
    <3>1. CASE k > 0
      BY <2>1, <3>1
    <3>2. CASE k = 0
      <4>1. Len(buffer) = 0 /\ Consumed > 0 /\ Consumed + k = Consumed
        BY <1>2, <1>3, <2>1, <3>2
      <4>2. Inside(delivered, Consumed)
        BY <4>1 DEF Passed
      <4> QED BY <4>1, <4>2
    <3> QED BY <1>2, <3>1, <3>2
  <2> QED BY <1>3, <2>2
<1> QED BY <1>3, <1>4, <1>5, <1>6 DEF Passed

\* More bytes excuse no start mark and take no excuse away.
LEMMA ReceiveKeepsPassed == IInv /\ IInv' /\ Passed /\ Receive => Passed'
<1> SUFFICES ASSUME IInv, IInv', Passed, Receive PROVE Passed'
  OBVIOUS
<1>1. PICK chunk \in BoundedSeq(Letters, MaxChunk) : stream' = stream \o chunk /\ buffer' = buffer \o chunk
  BY DEF Receive
<1>2. delivered' = delivered
  BY DEF Receive
<1>3. chunk \in Seq(Byte)
  <2>1. PICK m \in 0 .. MaxChunk : chunk \in [1 .. m -> Letters]
    BY DEF BoundedSeq, SeqOf
  <2>2. m \in Nat /\ chunk \in [1 .. m -> Byte]
    BY <2>1, LettersAssumption
  <2> QED BY <2>2, IsASeq
<1>4. /\ stream \in Seq(Byte) /\ buffer \in Seq(Byte)
      /\ Len(stream) \in Nat /\ Len(buffer) \in Nat /\ Len(chunk) \in Nat
      /\ Consumed \in Nat /\ Consumed + Len(buffer) = Len(stream)
  BY <1>3, LenProperties, Sizes DEF IInv
<1>5. /\ stream' \in Seq(Byte) /\ Len(stream') = Len(stream) + Len(chunk)
      /\ \A i \in 1 .. Len(stream) : stream'[i] = stream[i]
  BY <1>1, <1>3, <1>4, ConcatProperties
<1>6. Len(buffer') = Len(buffer) + Len(chunk)
  BY <1>1, <1>3, <1>4, ConcatProperties
<1>7. Consumed' = Consumed
  BY <1>4, <1>5, <1>6 DEF Consumed
<1>8. Len(buffer) = 0 /\ Consumed > 0 => Inside(delivered, Consumed)
  BY DEF Passed
<1>9. ASSUME NEW i \in 1 .. Consumed, IsStart(stream', i)
      PROVE  Inside(delivered, i) \/ IsStart(stream', i - 1) \/ Hopeless(From(i)')
  <2>1. i \in 1 .. Len(stream) /\ Len(stream) <= Len(stream')
    BY <1>4, <1>5
  <2>2. CASE i = Len(stream)
    <3>1. Len(buffer) = 0 /\ Consumed > 0 /\ i = Consumed
      BY <1>4, <2>2
    <3> QED BY <1>8, <3>1
  <2>3. CASE i # Len(stream)
    <3>1. IsStart(stream, i)
      <4>1. i \in 1 .. Len(stream) - 1 /\ i + 1 \in 1 .. Len(stream)
        BY <1>4, <2>1, <2>3
      <4>2. stream'[i] = stream[i] /\ stream'[i + 1] = stream[i + 1]
        BY <1>5, <2>1, <4>1
      <4> QED BY <1>9, <4>1, <4>2 DEF IsStart
    <3>2. Inside(delivered, i) \/ IsStart(stream, i - 1) \/ Hopeless(From(i))
      BY <3>1 DEF Passed
    <3>3. IsStart(stream, i - 1) => IsStart(stream', i - 1)
      <4>1. CASE i - 1 \in 1 .. Len(stream)
        BY <1>4, <1>5, <2>1, <4>1, MoreFrom
      <4>2. CASE i - 1 \notin 1 .. Len(stream)
        BY <1>4, <4>2 DEF IsStart
      <4> QED BY <4>1, <4>2
    <3>4. Hopeless(From(i)) => Hopeless(From(i)')
      BY <1>4, <1>5, <2>1, MoreFrom DEF From
    <3> QED BY <3>2, <3>3, <3>4
  <2> QED BY <2>2, <2>3
<1>10. Len(buffer)' = 0 /\ Consumed > 0 => Inside(delivered, Consumed)
  BY <1>4, <1>6, <1>8
<1> QED BY <1>2, <1>7, <1>9, <1>10 DEF Passed

\* The steps over garbage and false starts.
LEMMA SkipsKeepPassed ==
    ASSUME IInv, Passed, DropGarbage \/ SkipToStart \/ SkipStart
    PROVE  Passed'
<1>1. /\ TypeOK /\ BufferIsTail
      /\ Len(buffer) \in Nat /\ Consumed \in Nat
  BY Sizes DEF IInv
<1>2. delivered' = delivered
  BY DEF DropGarbage, SkipToStart, SkipStart
<1>3. ASSUME NEW k \in 0 .. Len(buffer), NEW i \in Consumed + 1 .. Consumed + k, IsStart(stream, i)
      PROVE  i - Consumed \in 1 .. k /\ IsStart(buffer, i - Consumed)
  <2>1. i \in Nat /\ i > Consumed /\ i - Consumed \in 1 .. k
    BY <1>1
  <2> QED BY <1>1, <1>3, <2>1, BufferStart
<1>4. CASE DropGarbage
  <2> DEFINE k == Len(buffer) - 1
  <2>1. k \in 0 .. Len(buffer) /\ Advance(k) /\ k # Len(buffer)
    BY <1>1, <1>4 DEF DropGarbage
  <2>2. \A j \in 1 .. k : ~IsStart(buffer, j)
    BY <1>4 DEF DropGarbage, Starts
  <2> HIDE DEF k
  <2>3. \A i \in Consumed + 1 .. Consumed + k : ~IsStart(stream, i)
    BY <1>3, <2>1, <2>2
  <2> QED BY <1>2, <2>1, <2>3, AdvanceKeepsPassed
<1>5. CASE SkipToStart
  <2>1. PICK first \in Starts(buffer) :
            Advance(first - 1) /\ \A other \in Starts(buffer) : first <= other
    BY <1>5 DEF SkipToStart
  <2> DEFINE k == first - 1
  <2>2. /\ k \in 0 .. Len(buffer) /\ k # Len(buffer) /\ Advance(k)
        /\ first \in 1 .. Len(buffer) - 1
    BY <1>1, <2>1 DEF Starts
  <2>3. \A j \in 1 .. k : ~IsStart(buffer, j)
    <3> SUFFICES ASSUME NEW j \in 1 .. k, IsStart(buffer, j) PROVE FALSE
      OBVIOUS
    <3>1. j \in Starts(buffer)
      BY <1>1, <2>2 DEF Starts
    <3>2. first <= j
      BY <2>1, <3>1
    <3> QED BY <1>1, <2>2, <3>2
  <2> HIDE DEF k
  <2>4. \A i \in Consumed + 1 .. Consumed + k : ~IsStart(stream, i)
    BY <1>3, <2>2, <2>3
  <2> QED BY <1>2, <2>2, <2>4, AdvanceKeepsPassed
<1>6. CASE SkipStart
  <2>1. HasHeader(buffer) /\ IsStart(buffer, 1) /\ Len(buffer) >= HeaderSize
    BY <1>6 DEF SkipStart, HasHeader
  <2>2. 2 \in 0 .. Len(buffer) /\ 2 # Len(buffer)
    BY <1>1, <2>1, HeaderAssumption
  <2>3. Advance(2)
    BY <1>6 DEF SkipStart
  <2>4. Hopeless(From(Consumed + 1))
    <3>1. Hopeless(buffer)
      BY <1>6 DEF SkipStart, Hopeless
    <3> QED BY <1>1, <3>1, FromIsBuffer
  <2>5. IsStart(stream, Consumed + 1)
    <3>1. Consumed + 1 \in Nat /\ Consumed + 1 > Consumed /\ (Consumed + 1) - Consumed = 1
      BY <1>1
    <3> QED BY <1>1, <2>1, <3>1, BufferStart
  <2>6. ASSUME NEW i \in Consumed + 1 .. Consumed + 2
        PROVE  IsStart(stream, i - 1) \/ Hopeless(From(i))
    <3>1. i = Consumed + 1 \/ i - 1 = Consumed + 1
      BY <1>1
    <3> QED BY <2>4, <2>5, <3>1
  <2> QED BY <1>2, <2>2, <2>3, <2>6, AdvanceKeepsPassed
<1> QED BY <1>4, <1>5, <1>6

\* What is handed on is inside a packet.
LEMMA DeliverKeepsPassed == IInv /\ Passed /\ Deliver => Passed'
<1> SUFFICES ASSUME IInv, Passed, Deliver PROVE Passed'
  OBVIOUS
<1>1. /\ TypeOK /\ buffer \in Seq(Byte)
      /\ Len(buffer) \in Nat /\ Consumed \in Nat
  BY Sizes DEF IInv
<1> DEFINE t == TotalLen(buffer)
           new == [at |-> Consumed + 1, packet |-> Packet(buffer)]
<1>2. Complete(buffer) /\ Advance(t) /\ delivered' = Append(delivered, new)
  BY DEF Deliver
<1>3. t \in 1 .. Len(buffer) /\ t \in 0 .. Len(buffer) /\ t \in Nat
  BY <1>1, <1>2, TotalIsNat, HeaderAssumption DEF Complete
<1>4. Packet(buffer) \in Seq(Byte) /\ Len(Packet(buffer)) = t
  BY <1>1, <1>2, PacketIsBytes
<1>5. new \in Records /\ delivered \in Seq(Records)
  BY <1>1, <1>4 DEF TypeOK, Records
<1>6. new.at = Consumed + 1 /\ Len(new.packet) = t
  BY <1>4
<1> HIDE DEF t, new
<1>7. /\ Len(delivered) \in Nat
      /\ DOMAIN delivered = 1 .. Len(delivered)
      /\ DOMAIN delivered' = 1 .. Len(delivered) + 1
      /\ \A k \in 1 .. Len(delivered) : delivered'[k] = delivered[k]
      /\ delivered'[Len(delivered) + 1] = new
  <2>1. delivered' \in Seq(Records) /\ Len(delivered') = Len(delivered) + 1
    BY <1>2, <1>5, AppendProperties
  <2> QED BY <1>2, <1>5, <2>1, AppendProperties, LenProperties
<1>8. \A i : Inside(delivered, i) => Inside(delivered', i)
  BY <1>7 DEF Inside
<1>9. ASSUME NEW i \in Consumed + 1 .. Consumed + t
      PROVE  Inside(delivered', i)
  <2>1. i \in new.at .. new.at + Len(new.packet) - 1
    BY <1>1, <1>3, <1>6
  <2>2. Len(delivered) + 1 \in DOMAIN delivered'
    BY <1>7
  <2> QED BY <1>7, <2>1, <2>2 DEF Inside
<1>10. Consumed + t \in Consumed + 1 .. Consumed + t
  BY <1>1, <1>3
<1> QED BY <1>2, <1>3, <1>8, <1>9, <1>10, AdvanceKeepsPassed

\* Every step of OnTraffic, and OnTraffic's return.
LEMMA NextKeepsPassed ==
    IInv /\ IInv' /\ Passed /\ Waits /\ [Next]_vars => (Passed /\ Waits)'
<1> SUFFICES ASSUME IInv, IInv', Passed, Waits, [Next]_vars PROVE (Passed /\ Waits)'
  OBVIOUS
<1>1. CASE Receive
  BY <1>1, ReceiveKeepsPassed DEF Receive, Waits
<1>2. CASE DropGarbage \/ SkipToStart \/ SkipStart
  <2>1. scanning'
    BY <1>2 DEF DropGarbage, SkipToStart, SkipStart, Advance
  <2> QED BY <1>2, <2>1, SkipsKeepPassed DEF Waits
<1>3. CASE Deliver
  BY <1>3, DeliverKeepsPassed DEF Deliver, Advance, Waits
<1>4. CASE Return
  <2>1. NeedMore /\ UNCHANGED <<stream, buffer, delivered>>
    BY <1>4 DEF Return
  <2> QED BY <2>1 DEF Passed, Waits, NeedMore, Consumed, From
<1>5. CASE UNCHANGED vars
  BY <1>5 DEF vars, Passed, Waits, NeedMore, Consumed, From
<1> QED BY <1>1, <1>2, <1>3, <1>4, <1>5 DEF Next, Scan

\* Between callbacks a packet in the buffer waits behind a header.
LEMMA LossIsExcused == IInv /\ Passed /\ Waits => LostPacketsAreShadowed
<1> SUFFICES ASSUME IInv, Passed, Waits, ~scanning,
                    NEW i \in Starts(stream),
                    Complete(From(i)), VerifyChecksum(Packet(From(i)))
             PROVE  \/ Inside(delivered, i)
                    \/ i > Consumed + 1 /\ HasHeader(buffer)
                    \/ IsStart(stream, i - 1)
  BY DEF LostPacketsAreShadowed, Inside
<1>1. /\ TypeOK /\ BufferIsTail /\ stream \in Seq(Byte)
      /\ Len(stream) \in Nat /\ Len(buffer) \in Nat /\ Consumed \in Nat
      /\ Consumed + Len(buffer) = Len(stream)
  BY Sizes DEF IInv
<1>2. IsStart(stream, i) /\ i \in Nat \ {0} /\ i <= Len(stream)
  BY <1>1 DEF Starts
<1>3. ASSUME i > Consumed
      PROVE  IsStart(buffer, i - Consumed) /\ i - Consumed \in Starts(buffer)
  <2>1. IsStart(buffer, i - Consumed)
    BY <1>1, <1>2, <1>3, BufferStart
  <2> QED BY <2>1 DEF Starts, IsStart
<1>4. CASE i <= Consumed
  <2>1. i \in 1 .. Consumed
    BY <1>1, <1>2, <1>4
  <2>2. ~Hopeless(From(i))
    BY DEF Hopeless, Complete
  <2> QED BY <1>2, <2>1, <2>2 DEF Passed
<1>5. CASE i = Consumed + 1
  <2>1. Complete(buffer)
    BY <1>1, <1>5, FromIsBuffer
  <2>2. TotalLen(buffer) \in Nat /\ TotalLen(buffer) <= Len(buffer) /\ HeaderSize <= Len(buffer)
    BY <1>1, <2>1, TotalIsNat DEF Complete, HasHeader, TypeOK
  <2>3. Starts(buffer) # {}
    BY <1>1, <1>3, <1>5
  <2>4. ~NeedMore
    BY <1>1, <2>2, <2>3, HeaderAssumption DEF NeedMore
  <2> QED BY <2>4 DEF Waits
<1>6. CASE i > Consumed + 1
  <2>1. Starts(buffer) # {}
    BY <1>1, <1>2, <1>3, <1>6
  <2>2. Len(From(i)) = Len(stream) - i + 1
    <3>1. i <= Len(stream) + 1
      BY <1>1, <1>2
    <3> QED BY <1>1, <1>2, <3>1, FromFacts DEF From
  <2>3. HeaderSize <= Len(From(i))
    BY DEF Complete, HasHeader
  <2>4. HeaderSize <= Len(buffer)
    BY <1>1, <1>2, <1>6, <2>2, <2>3, HeaderAssumption
  <2>5. HasHeader(buffer)
    BY <1>1, <2>1, <2>4, HeaderAssumption DEF Waits, NeedMore
  <2> QED BY <1>6, <2>5
<1> QED BY <1>1, <1>2, <1>4, <1>5, <1>6

(* No packet is lost without a reason: between callbacks each one that     *)
(* arrived whole was handed on, lies in another one, waits behind a header *)
(* that announces more, or began on the second byte of a false start mark  *)
(* (decoder.go:104-108), for every stream however it is cut.               *)
THEOREM LossesAreShadowed == Spec => []LostPacketsAreShadowed
<1>1. Spec => [](Passed /\ Waits)
  BY InitPassed, InvariantHolds, NextKeepsPassed, PTL DEF Spec
<1> QED BY <1>1, InvariantHolds, LossIsExcused, PTL

-----------------------------------------------------------------------------
(* What is handed on is what a scanner finds in one piece.                 *)

Extends(t, s) == Len(s) <= Len(t) /\ \A i \in 1 .. Len(s) : t[i] = s[i]

\* However the stream goes on, its packets are those handed on and those
\* found behind the bytes consumed.
Ahead == \A t \in Seq(Byte) :
             Extends(t, stream) => PacketsOf(t) = delivered \o PacketsFrom(t)[Consumed + 1]

\* Before the first byte everything lies ahead.
LEMMA InitAhead == Init => Ahead
<1> SUFFICES ASSUME Init, NEW t \in Seq(Byte)
             PROVE  PacketsOf(t) = delivered \o PacketsFrom(t)[Consumed + 1]
  BY DEF Ahead
<1>1. delivered = <<>> /\ Consumed + 1 = 1
  BY EmptySeq DEF Init, Consumed
<1>2. PacketsFrom(t)[1] \in Seq(Records)
  <2>1. 1 \in 1 .. Len(t) + 1
    BY LenProperties
  <2> QED BY <2>1, PacketsFromType
<1>3. <<>> \o PacketsFrom(t)[1] = PacketsFrom(t)[1]
  BY <1>2, ConcatEmptySeq
<1> QED BY <1>1, <1>3 DEF PacketsOf

\* Whatever extends a longer stream extends the shorter one.
LEMMA ReceiveKeepsAhead == IInv /\ Ahead /\ Receive => Ahead'
<1> SUFFICES ASSUME IInv, Ahead, Receive PROVE Ahead'
  OBVIOUS
<1>1. PICK chunk \in BoundedSeq(Letters, MaxChunk) : stream' = stream \o chunk /\ buffer' = buffer \o chunk
  BY DEF Receive
<1>2. delivered' = delivered
  BY DEF Receive
<1>3. chunk \in Seq(Byte)
  <2>1. PICK m \in 0 .. MaxChunk : chunk \in [1 .. m -> Letters]
    BY DEF BoundedSeq, SeqOf
  <2>2. m \in Nat /\ chunk \in [1 .. m -> Byte]
    BY <2>1, LettersAssumption
  <2> QED BY <2>2, IsASeq
<1>4. /\ stream \in Seq(Byte) /\ buffer \in Seq(Byte)
      /\ Len(stream) \in Nat /\ Len(buffer) \in Nat /\ Len(chunk) \in Nat
  BY <1>3, LenProperties, Sizes DEF IInv
<1>5. /\ Len(stream') = Len(stream) + Len(chunk)
      /\ \A i \in 1 .. Len(stream) : stream'[i] = stream[i]
  BY <1>1, <1>3, <1>4, ConcatProperties
<1>6. Consumed' = Consumed
  <2>1. Len(buffer') = Len(buffer) + Len(chunk)
    BY <1>1, <1>3, <1>4, ConcatProperties
  <2> QED BY <1>4, <1>5, <2>1 DEF Consumed
<1>7. ASSUME NEW t \in Seq(Byte), Extends(t, stream') PROVE Extends(t, stream)
  <2>1. Len(t) \in Nat /\ Len(stream') <= Len(t)
    BY <1>7, LenProperties DEF Extends
  <2>2. \A i \in 1 .. Len(stream) : i \in 1 .. Len(stream') /\ t[i] = stream'[i]
    BY <1>4, <1>5, <1>7 DEF Extends
  <2> QED BY <1>4, <1>5, <2>1, <2>2 DEF Extends
<1> QED BY <1>2, <1>6, <1>7 DEF Ahead

\* A stream that goes on, seen from the first byte not yet consumed.
LEMMA AheadFacts ==
    ASSUME TypeOK, BufferIsTail, NEW t \in Seq(Byte), Extends(t, stream)
    PROVE  LET rest == SubSeq(t, Consumed + 1, Len(t))
           IN  /\ rest \in Seq(Byte) /\ Len(buffer) <= Len(rest)
               /\ \A j \in 1 .. Len(buffer) : rest[j] = buffer[j]
               /\ \A j \in 1 .. Len(buffer) - 1 :
                      IsStart(t, Consumed + j) <=> IsStart(buffer, j)
<1> DEFINE rest == SubSeq(t, Consumed + 1, Len(t))
<1>1. /\ stream \in Seq(Byte) /\ buffer \in Seq(Byte)
      /\ Len(stream) \in Nat /\ Len(buffer) \in Nat /\ Len(t) \in Nat
      /\ Consumed \in Nat /\ Consumed + Len(buffer) = Len(stream) /\ Len(stream) <= Len(t)
  BY Sizes, LenProperties DEF Extends
<1>2. /\ rest \in Seq(Byte) /\ Len(rest) = Len(t) - (Consumed + 1) + 1
      /\ \A j \in 1 .. Len(t) - (Consumed + 1) + 1 : rest[j] = t[(Consumed + 1) + j - 1]
  <2>1. Consumed + 1 \in Nat \ {0} /\ Consumed + 1 <= Len(t) + 1
    BY <1>1
  <2> QED BY <2>1, FromFacts
<1> HIDE DEF rest
<1>3. ASSUME NEW j \in 1 .. Len(buffer) PROVE t[Consumed + j] = buffer[j]
  <2>1. Consumed + j \in 1 .. Len(stream)
    BY <1>1
  <2> QED BY <2>1 DEF Extends, BufferIsTail
<1>4. ASSUME NEW j \in 1 .. Len(buffer) PROVE rest[j] = buffer[j]
  <2>1. j \in 1 .. Len(t) - (Consumed + 1) + 1 /\ (Consumed + 1) + j - 1 = Consumed + j
    BY <1>1
  <2> QED BY <1>2, <1>3, <2>1
<1>5. ASSUME NEW j \in 1 .. Len(buffer) - 1
      PROVE  IsStart(t, Consumed + j) <=> IsStart(buffer, j)
  <2>1. j \in 1 .. Len(buffer) /\ j + 1 \in 1 .. Len(buffer) /\ Consumed + j \in 1 .. Len(t) - 1
        /\ (Consumed + j) + 1 = Consumed + (j + 1)
    BY <1>1
  <2>2. t[Consumed + j] = buffer[j] /\ t[(Consumed + j) + 1] = buffer[j + 1]
    BY <1>3, <2>1
  <2> QED BY <2>1, <2>2 DEF IsStart
<1>6. Len(buffer) <= Len(rest)
  BY <1>1, <1>2
<1> QED BY <1>2, <1>4, <1>5, <1>6 DEF rest

\* What it takes to go ahead without handing anything on.
LEMMA AdvanceKeepsAhead ==
    ASSUME IInv, Ahead, NEW k \in 0 .. Len(buffer), Advance(k), UNCHANGED delivered,
           \A t \in Seq(Byte) : Extends(t, stream) =>
               PacketsFrom(t)[Consumed + 1] = PacketsFrom(t)[Consumed + k + 1]
    PROVE  Ahead'
<1>1. Consumed' = Consumed + k /\ stream' = stream
  BY AdvanceFacts DEF IInv
<1> QED BY <1>1 DEF Ahead

\* The steps over garbage and false starts.
LEMMA SkipsKeepAhead ==
    ASSUME IInv, Ahead, DropGarbage \/ SkipToStart \/ SkipStart
    PROVE  Ahead'
<1>1. /\ TypeOK /\ BufferIsTail /\ buffer \in Seq(Byte)
      /\ Len(buffer) \in Nat /\ Consumed \in Nat
      /\ Len(stream) \in Nat /\ Consumed + Len(buffer) = Len(stream)
  BY Sizes DEF IInv
<1>2. delivered' = delivered
  BY DEF DropGarbage, SkipToStart, SkipStart
<1>3. ASSUME NEW k \in 0 .. Len(buffer), k # 0 => k <= Len(buffer) - 1,
             \A j \in 1 .. k : ~IsStart(buffer, j),
             NEW t \in Seq(Byte), Extends(t, stream)
      PROVE  PacketsFrom(t)[Consumed + 1] = PacketsFrom(t)[Consumed + k + 1]
  <2>1. Len(t) \in Nat /\ Len(stream) <= Len(t)
    BY <1>3, LenProperties DEF Extends
  <2>2. Consumed + 1 \in 1 .. Len(t) + 1 /\ Consumed + k + 1 \in Consumed + 1 .. Len(t) + 1
    BY <1>1, <2>1
  <2>3. ASSUME NEW i \in Consumed + 1 .. (Consumed + k + 1) - 1 PROVE ~IsStart(t, i)
    <3> DEFINE j == i - Consumed
    <3>1. j \in 1 .. k /\ j \in 1 .. Len(buffer) - 1 /\ i = Consumed + j
      BY <1>1, <1>3
    <3> HIDE DEF j
    <3>2. ~IsStart(buffer, j)
      BY <1>3, <3>1
    <3> QED BY <1>1, <1>3, <3>1, <3>2, AheadFacts
  <2> QED BY <2>2, <2>3, NothingIsSkipped
<1>4. CASE DropGarbage
  <2> DEFINE k == Len(buffer) - 1
  <2>1. k \in 0 .. Len(buffer) /\ k <= Len(buffer) - 1 /\ Advance(k)
    BY <1>1, <1>4 DEF DropGarbage
  <2>2. \A j \in 1 .. k : ~IsStart(buffer, j)
    BY <1>4 DEF DropGarbage, Starts
  <2> HIDE DEF k
  <2> QED BY <1>2, <1>3, <2>1, <2>2, AdvanceKeepsAhead
<1>5. CASE SkipToStart
  <2>1. PICK first \in Starts(buffer) :
            Advance(first - 1) /\ \A other \in Starts(buffer) : first <= other
    BY <1>5 DEF SkipToStart
  <2> DEFINE k == first - 1
  <2>2. /\ k \in 0 .. Len(buffer) /\ k <= Len(buffer) - 1 /\ Advance(k)
        /\ first \in 1 .. Len(buffer) - 1
    BY <1>1, <2>1 DEF Starts
  <2>3. \A j \in 1 .. k : ~IsStart(buffer, j)
    <3> SUFFICES ASSUME NEW j \in 1 .. k, IsStart(buffer, j) PROVE FALSE
      OBVIOUS
    <3>1. j \in Starts(buffer)
      BY <1>1, <2>2 DEF Starts
    <3>2. first <= j
      BY <2>1, <3>1
    <3> QED BY <1>1, <2>2, <3>2
  <2> HIDE DEF k
  <2> QED BY <1>2, <1>3, <2>2, <2>3, AdvanceKeepsAhead
<1>6. CASE SkipStart
  <2>1. HasHeader(buffer) /\ IsStart(buffer, 1) /\ Len(buffer) >= HeaderSize
    BY <1>6 DEF SkipStart, HasHeader
  <2>2. 2 \in 0 .. Len(buffer) /\ 1 \in 1 .. Len(buffer) - 1 /\ Advance(2)
    BY <1>1, <1>6, <2>1, HeaderAssumption DEF SkipStart
  <2>3. ASSUME NEW t \in Seq(Byte), Extends(t, stream)
        PROVE  PacketsFrom(t)[Consumed + 1] = PacketsFrom(t)[Consumed + 2 + 1]
    <3> DEFINE rest == SubSeq(t, Consumed + 1, Len(t))
    <3>1. /\ rest \in Seq(Byte) /\ Len(buffer) <= Len(rest)
          /\ \A j \in 1 .. Len(buffer) : rest[j] = buffer[j]
          /\ IsStart(t, Consumed + 1)
      BY <1>1, <2>1, <2>2, <2>3, AheadFacts
    <3>2. Hopeless(buffer)
      BY <1>6 DEF SkipStart, Hopeless
    <3>3. Hopeless(rest)
      <4> HIDE DEF rest
      <4> QED BY <1>1, <3>1, <3>2, MoreHopeless
    <3>4. PacketsFrom(t)[Consumed + 1] = At(t, PacketsFrom(t), Consumed + 1)
      BY <3>1, FoundAtStart
    <3>5. At(t, PacketsFrom(t), Consumed + 1) = PacketsFrom(t)[(Consumed + 1) + 2]
      BY <3>3 DEF At, Hopeless
    <3>6. (Consumed + 1) + 2 = Consumed + 2 + 1
      BY <1>1
    <3> QED BY <3>4, <3>5, <3>6
  <2> QED BY <1>2, <2>2, <2>3, AdvanceKeepsAhead
<1> QED BY <1>4, <1>5, <1>6

\* The packet handed on is the next one ahead.
LEMMA DeliverKeepsAhead == IInv /\ Ahead /\ Deliver => Ahead'
<1> SUFFICES ASSUME IInv, Ahead, Deliver PROVE Ahead'
  OBVIOUS
<1>1. /\ TypeOK /\ BufferIsTail /\ buffer \in Seq(Byte)
      /\ Len(buffer) \in Nat /\ Consumed \in Nat
      /\ Len(stream) \in Nat /\ Consumed + Len(buffer) = Len(stream)
  BY Sizes DEF IInv
<1> DEFINE size == TotalLen(buffer)
           new == [at |-> Consumed + 1, packet |-> Packet(buffer)]
<1>2. /\ Complete(buffer) /\ VerifyChecksum(Packet(buffer)) /\ Advance(size)
      /\ delivered' = Append(delivered, new)
  BY DEF Deliver
<1>3. size \in 1 .. Len(buffer) /\ size \in 0 .. Len(buffer) /\ size \in Nat
  BY <1>1, <1>2, TotalIsNat, HeaderAssumption DEF Complete
<1>4. new \in Records /\ delivered \in Seq(Records)
  BY <1>1, <1>2, PacketIsBytes DEF TypeOK, Records
<1>5. Consumed' = Consumed + size /\ stream' = stream
  BY <1>1, <1>2, <1>3, AdvanceFacts
<1>6. 1 \in 1 .. Len(buffer) - 1 /\ IsStart(buffer, 1)
  BY <1>1, <1>2, HeaderAssumption DEF Complete, HasHeader
<1>7. ASSUME NEW t \in Seq(Byte), Extends(t, stream)
      PROVE  PacketsOf(t) = delivered' \o PacketsFrom(t)[Consumed' + 1]
  <2> DEFINE rest == SubSeq(t, Consumed + 1, Len(t))
             tail == PacketsFrom(t)[(Consumed + 1) + size]
  <2>1. /\ rest \in Seq(Byte) /\ Len(buffer) <= Len(rest)
        /\ \A j \in 1 .. Len(buffer) : rest[j] = buffer[j]
        /\ IsStart(t, Consumed + 1)
    BY <1>1, <1>6, <1>7, AheadFacts
  <2>2. Complete(rest) /\ Packet(rest) = Packet(buffer) /\ TotalLen(rest) = size
    <3> HIDE DEF rest, size
    <3>1. Complete(rest) /\ Packet(rest) = Packet(buffer)
      BY <1>1, <1>2, <2>1, MoreBytes
    <3>2. TotalLen(rest) = TotalLen(buffer)
      BY <1>1, <1>2, <2>1, <3>1, PacketIsBytes
    <3> QED BY <3>1, <3>2 DEF size
  <2>3. PacketsFrom(t)[Consumed + 1] = <<new>> \o tail
    <3>1. PacketsFrom(t)[Consumed + 1] = At(t, PacketsFrom(t), Consumed + 1)
      BY <2>1, FoundAtStart
    <3>2. At(t, PacketsFrom(t), Consumed + 1) = <<new>> \o tail
      BY <1>2, <2>2 DEF At, Complete
    <3> QED BY <3>1, <3>2
  <2>4. tail \in Seq(Records)
    <3>1. Len(t) \in Nat /\ Len(stream) <= Len(t)
      BY <1>7, LenProperties DEF Extends
    <3>2. (Consumed + 1) + size \in 1 .. Len(t) + 1
      BY <1>1, <1>3, <3>1
    <3> QED BY <3>2, PacketsFromType
  <2>5. PacketsOf(t) = delivered \o (<<new>> \o tail)
    BY <1>7, <2>3 DEF Ahead
  <2> HIDE DEF tail, new, size
  <2>6. delivered \o (<<new>> \o tail) = Append(delivered, new) \o tail
    <3>1. <<new>> \in Seq(Records)
      BY <1>4
    <3>2. delivered \o (<<new>> \o tail) = (delivered \o <<new>>) \o tail
      BY <1>4, <2>4, <3>1, ConcatAssociative
    <3>3. delivered \o <<new>> = Append(delivered, new)
      BY <1>4, AppendIsConcat
    <3> QED BY <3>2, <3>3
  <2>7. (Consumed + 1) + size = Consumed' + 1
    BY <1>1, <1>3, <1>5
  <2> QED BY <1>2, <2>5, <2>6, <2>7 DEF tail
<1> QED BY <1>5, <1>7 DEF Ahead

\* Every step of OnTraffic.
LEMMA NextKeepsAhead == IInv /\ Ahead /\ [Next]_vars => Ahead'
<1> SUFFICES ASSUME IInv, Ahead, [Next]_vars PROVE Ahead'
  OBVIOUS
<1>1. CASE Return \/ UNCHANGED vars
  BY <1>1 DEF Return, vars, Ahead, Consumed
<1> QED BY <1>1, ReceiveKeepsAhead, SkipsKeepAhead, DeliverKeepsAhead DEF Next, Scan

\* While OnTraffic waits for more, nothing lies ahead.
LEMMA NothingAhead ==
    ASSUME IInv, NeedMore
    PROVE  PacketsFrom(stream)[Consumed + 1] = <<>>
<1>1. /\ TypeOK /\ BufferIsTail /\ stream \in Seq(Byte) /\ buffer \in Seq(Byte)
      /\ Len(buffer) \in Nat /\ Consumed \in Nat
      /\ Len(stream) \in Nat /\ Consumed + Len(buffer) = Len(stream)
  BY Sizes DEF IInv
<1>2. CASE Starts(buffer) = {} /\ Len(buffer) <= 1
  <2>1. \A k \in Consumed + 1 .. Len(stream) : ~IsStart(stream, k)
    BY <1>1, <1>2 DEF IsStart
  <2>2. Consumed + 1 \in 1 .. Len(stream) + 1
    BY <1>1
  <2> QED BY <1>1, <2>1, <2>2, SearchFindsNothing, PacketsFromUnfolds
<1>3. ASSUME IsStart(buffer, 1), ~HasHeader(buffer) \/ (~TooLarge(buffer) /\ ~Complete(buffer))
      PROVE  PacketsFrom(stream)[Consumed + 1] = <<>>
  <2>1. IsStart(stream, Consumed + 1)
    <3>1. Consumed + 1 \in Nat /\ Consumed + 1 > Consumed /\ (Consumed + 1) - Consumed = 1
      BY <1>1
    <3> QED BY <1>1, <1>3, <3>1, BufferStart
  <2>2. SubSeq(stream, Consumed + 1, Len(stream)) = buffer
    BY <1>1, FromIsBuffer DEF From
  <2>3. At(stream, PacketsFrom(stream), Consumed + 1) = <<>>
    BY <1>3, <2>2 DEF At
  <2> QED BY <1>1, <2>1, <2>3, FoundAtStart
<1>4. CASE IsStart(buffer, 1) /\ Len(buffer) < HeaderSize
  <2>1. ~HasHeader(buffer)
    BY <1>1, <1>4, HeaderAssumption DEF HasHeader
  <2> QED BY <1>3, <1>4, <2>1
<1>5. CASE HasHeader(buffer) /\ ~TooLarge(buffer) /\ Len(buffer) < TotalLen(buffer)
  <2>1. TotalLen(buffer) \in Nat
    BY <1>1, <1>5, TotalIsNat
  <2>2. ~Complete(buffer) /\ IsStart(buffer, 1)
    BY <1>1, <1>5, <2>1 DEF Complete, HasHeader
  <2> QED BY <1>3, <1>5, <2>2
<1> QED BY <1>2, <1>4, <1>5 DEF NeedMore

(* How TCP cuts the stream into pieces does not matter: after every        *)
(* callback the packets handed on (tcp_server.go:115) are those a scanner  *)
(* finds in the stream in one piece, for every stream, every way to cut    *)
(* it, and every limit.                                                    *)
THEOREM SegmentationDoesNotMatter == Spec => []SegmentationIndependence
<1>1. Spec => []Ahead
  BY InitAhead, InvariantHolds, NextKeepsAhead, PTL DEF Spec
<1>2. Spec => []Waits
  BY InitPassed, InvariantHolds, NextKeepsPassed, PTL DEF Spec
<1>3. IInv /\ Ahead /\ Waits => SegmentationIndependence
  <2> SUFFICES ASSUME IInv, Ahead, Waits, ~scanning PROVE delivered = PacketsOf(stream)
    BY DEF SegmentationIndependence
  <2>1. Extends(stream, stream) /\ stream \in Seq(Byte) /\ delivered \in Seq(Records)
    BY LenProperties DEF Extends, IInv, TypeOK, Records
  <2>2. PacketsOf(stream) = delivered \o <<>>
    BY <2>1, NothingAhead DEF Ahead, Waits
  <2> QED BY <2>1, <2>2, ConcatEmptySeq
<1> QED BY <1>1, <1>2, <1>3, InvariantHolds, PTL
=============================================================================
