--------------------------- MODULE RepliesProofs ---------------------------
(* The replies, proved for bytes of any width, VINs of any length, any     *)
(* accounts and clock and every data unit a peer may send; and replies and *)
(* scanner together.                                                       *)
EXTENDS Replies, PacketScannerProofs, FiniteSetTheorems

-----------------------------------------------------------------------------
(* Arithmetic, and the checksum.                                           *)

\* Division with remainder.
LEMMA Division ==
    ASSUME NEW n \in Nat, NEW d \in Nat \ {0}
    PROVE  n \div d \in Nat /\ n % d \in 0 .. d - 1 /\ n = d * (n \div d) + (n % d)
<1>1. n \div d \in Nat /\ n % d \in 0 .. d - 1
  OBVIOUS
<1>2. n = d * (n \div d) + (n % d)
  OBVIOUS
<1> QED BY <1>1, <1>2

\* Its quotient is the only one.
LEMMA Quotient ==
    ASSUME NEW d \in Nat \ {0}, NEW q \in Nat, NEW r \in 0 .. d - 1
    PROVE  (d * q + r) \div d = q
  OBVIOUS

\* A number and its half.
LEMMA Half ==
    ASSUME NEW d \in Nat \ {0}, NEW v \in Nat, NEW b \in {0, 1}
    PROVE  (2 * v + b) \div (2 * d) = v \div d /\ (2 * v + b) % 2 = b
<1> DEFINE q == v \div d
           r == v % d
           e == 2 * d
           x == 2 * r + b
<1>1. q \in Nat /\ r \in 0 .. d - 1 /\ v = d * q + r
  BY Division
<1> HIDE DEF q, r
<1>2. e \in Nat \ {0} /\ x \in 0 .. e - 1
  BY <1>1
<1>3. 2 * v + b = e * q + x
  <2>1. 2 * (d * q) = (2 * d) * q
    BY <1>1
  <2>2. d * q \in Nat
    BY <1>1
  <2> DEFINE y == d * q
  <2>3. 2 * (y + r) + b = 2 * y + (2 * r + b)
    <3>1. y \in Nat
      BY <2>2
    <3> HIDE DEF y
    <3> QED BY <1>1, <3>1
  <2> QED BY <1>1, <2>1, <2>3
<1> HIDE DEF e, x
<1>4. (e * q + x) \div e = q
  BY <1>1, <1>2, Quotient
<1>5. (2 * v + b) % 2 = b
  OBVIOUS
<1> QED BY <1>3, <1>4, <1>5 DEF e, q

\* Every choice of bits is that of a byte.
LEMMA ByteOfBits ==
    ASSUME NEW B \in [0 .. Width - 1 -> {0, 1}]
    PROVE  \E byte \in Byte : \A k \in 0 .. Width - 1 : Bit(byte, k) = B[k]
<1> DEFINE Made(w) == \A C \in [0 .. w - 1 -> {0, 1}] :
                          \E v \in 0 .. Power2[w] - 1 : \A k \in 0 .. w - 1 : Bit(v, k) = C[k]
           S == {w \in Nat : w <= Width => Made(w)}
<1>1. Width \in Nat
  BY ByteAssumption
<1>2. 0 \in S
  <2>1. Power2[0] = 1
    BY Power2Facts
  <2>2. 0 \in 0 .. Power2[0] - 1 /\ 0 .. 0 - 1 = {}
    BY <2>1
  <2>3. Made(0)
    BY <2>2
  <2> QED BY <2>3
<1>3. ASSUME NEW w \in Nat, w \in S PROVE w + 1 \in S
  <2> SUFFICES ASSUME w + 1 <= Width, NEW C \in [0 .. (w + 1) - 1 -> {0, 1}]
               PROVE  \E v \in 0 .. Power2[w + 1] - 1 : \A k \in 0 .. (w + 1) - 1 : Bit(v, k) = C[k]
    OBVIOUS
  <2> DEFINE D == [k \in 0 .. w - 1 |-> C[k + 1]]
  <2>1. D \in [0 .. w - 1 -> {0, 1}]
    OBVIOUS
  <2>2. w <= Width /\ Made(w)
    BY <1>1, <1>3
  <2>3. PICK v \in 0 .. Power2[w] - 1 : \A k \in 0 .. w - 1 : Bit(v, k) = D[k]
    <3> HIDE DEF D
    <3> QED BY <2>1, <2>2
  <2>4. Power2[w] \in Nat \ {0} /\ Power2[w + 1] = 2 * Power2[w] /\ w + 1 \in 0 .. Width /\ w \in 0 .. Width
    BY <1>1, <2>2, Power2Facts
  <2> DEFINE b == C[0]
             u == 2 * v + b
  <2>5. b \in {0, 1} /\ v \in Nat
    BY <2>4
  <2>6. u \in 0 .. Power2[w + 1] - 1
    BY <2>4, <2>5
  <2>7. ASSUME NEW k \in 0 .. (w + 1) - 1 PROVE Bit(u, k) = C[k]
    <3>1. CASE k = 0
      <4>1. Power2[k] = 1
        BY <3>1, Power2Facts
      <4>2. u \div 1 = u /\ u % 2 = b
        BY <2>5
      <4> QED BY <3>1, <4>1, <4>2 DEF Bit
    <3>2. CASE k # 0
      <4> DEFINE i == k - 1
      <4>1. i \in Nat /\ i \in 0 .. w - 1 /\ i + 1 = k /\ i \in 0 .. Width /\ i + 1 \in 0 .. Width
        BY <1>1, <2>4, <3>2
      <4>2. Power2[i] \in Nat \ {0} /\ Power2[k] = 2 * Power2[i]
        BY <4>1, Power2Facts
      <4>3. u \div Power2[k] = v \div Power2[i]
        <5> HIDE DEF b, i
        <5> QED BY <2>5, <4>2, Half
      <4>4. Bit(u, k) = Bit(v, i)
        BY <4>3 DEF Bit
      <4>5. Bit(v, i) = C[i + 1]
        BY <2>3, <4>1
      <4> QED BY <4>1, <4>4, <4>5
    <3> QED BY <3>1, <3>2
  <2> HIDE DEF u
  <2> QED BY <2>6, <2>7
<1>4. Nat \subseteq S
  <2> HIDE DEF S
  <2> QED BY <1>2, <1>3, InductionOverNat
<1>5. Made(Width)
  BY <1>1, <1>4
<1> QED BY <1>5 DEF Byte

\* How many bytes have a bit set.
Ones(data, k) == {i \in DOMAIN data : Bit(data[i], k) = 1}

\* The checksum is a byte, and the exclusive or of the others.
LEMMA ChecksumFacts ==
    ASSUME NEW data \in Seq(Byte)
    PROVE  /\ CalculateChecksum(data) \in Byte
           /\ \A k \in 0 .. Width - 1 :
                  Bit(CalculateChecksum(data), k) = Cardinality(Ones(data, k)) % 2
<1> DEFINE B == [k \in 0 .. Width - 1 |-> Cardinality(Ones(data, k)) % 2]
<1>1. ASSUME NEW k PROVE Cardinality(Ones(data, k)) \in Nat
  <2>1. Len(data) \in Nat /\ DOMAIN data = 1 .. Len(data)
    BY LenProperties
  <2>2. IsFiniteSet(1 .. Len(data))
    BY <2>1, FS_Interval
  <2>3. Ones(data, k) \in SUBSET (1 .. Len(data))
    BY <2>1 DEF Ones
  <2> QED BY <2>2, <2>3, FS_Subset, FS_CardinalityType
<1>2. B \in [0 .. Width - 1 -> {0, 1}]
  BY <1>1
<1>3. \E byte \in Byte : \A k \in 0 .. Width - 1 : Bit(byte, k) = B[k]
  <2> HIDE DEF B
  <2> QED BY <1>2, ByteOfBits
<1>4. \E byte \in Byte : \A k \in 0 .. Width - 1 : Bit(byte, k) = Cardinality(Ones(data, k)) % 2
  BY <1>3
<1>5. CalculateChecksum(data) =
          CHOOSE byte \in Byte :
              \A k \in 0 .. Width - 1 : Bit(byte, k) = Cardinality(Ones(data, k)) % 2
  BY DEF CalculateChecksum, Ones
<1> QED BY <1>4, <1>5

\* Bytes with a start mark, some content and the right checksum.
IsFrame(f, start, content) ==
    /\ f \in Seq(Byte)
    /\ Len(f) = Len(content) + 3
    /\ f[1] = start /\ f[2] = start
    /\ \A i \in 1 .. Len(content) : f[i + 2] = content[i]
    /\ VerifyChecksum(f)

\* The checksum of a frame is right.
LEMMA FrameFacts ==
    ASSUME NEW start \in Byte, NEW content \in Seq(Byte)
    PROVE  IsFrame(Frame(start, content), start, content)
<1> DEFINE f == Frame(start, content)
           sum == CalculateChecksum(content)
           n == Len(content)
<1>1. n \in Nat /\ DOMAIN content = 1 .. n
  BY LenProperties
<1>2. /\ sum \in Byte
      /\ \A k \in 0 .. Width - 1 : Bit(sum, k) = Cardinality(Ones(content, k)) % 2
  BY ChecksumFacts
<1>3. f = <<start, start>> \o content \o <<sum>>
  BY DEF Frame
<1> HIDE DEF sum, f
<1>4. <<start, start>> \in Seq(Byte) /\ <<sum>> \in Seq(Byte) /\ Len(<<start, start>>) = 2 /\ Len(<<sum>>) = 1
  BY <1>2
<1> DEFINE front == <<start, start>> \o content
<1>5. front \in Seq(Byte) /\ Len(front) = n + 2 /\ front[1] = start /\ front[2] = start
  BY <1>1, <1>4, ConcatProperties
<1>6. \A i \in 1 .. n : front[i + 2] = content[i]
  <2> SUFFICES ASSUME NEW i \in 1 .. n PROVE front[i + 2] = content[i]
    OBVIOUS
  <2>1. i + 2 \in 1 .. 2 + n /\ i + 2 > 2 /\ (i + 2) - 2 = i
    BY <1>1
  <2> QED BY <1>1, <1>4, <2>1, ConcatProperties
<1> HIDE DEF front
<1>7. f = front \o <<sum>>
  BY <1>3 DEF front
<1>8. f \in Seq(Byte) /\ Len(f) = n + 3 /\ \A i \in 1 .. n + 2 : f[i] = front[i]
  BY <1>1, <1>4, <1>5, <1>7, ConcatProperties
<1>9. f[n + 3] = sum
  <2>1. n + 3 \in 1 .. (n + 2) + 1 /\ n + 3 > n + 2 /\ (n + 3) - (n + 2) = 1
    BY <1>1
  <2>2. f[n + 3] = <<sum>>[1]
    BY <1>4, <1>5, <1>7, <2>1, ConcatProperties
  <2> QED BY <2>2
<1>10. f[1] = start /\ f[2] = start /\ \A i \in 1 .. n : f[i + 2] = content[i]
  BY <1>1, <1>5, <1>6, <1>8
<1>11. ASSUME NEW k \in 0 .. Width - 1
       PROVE  Bit(Last(f), k) = Cardinality({i \in 3 .. Len(f) - 1 : Bit(f[i], k) = 1}) % 2
  <2> DEFINE T == {i \in 3 .. Len(f) - 1 : Bit(f[i], k) = 1}
             move == [i \in Ones(content, k) |-> i + 2]
  <2>1. T = {i \in 3 .. n + 2 : Bit(f[i], k) = 1}
    BY <1>1, <1>8
  <2>2. Ones(content, k) = {i \in 1 .. n : Bit(content[i], k) = 1}
    BY <1>1 DEF Ones
  <2>3. \A i \in 1 .. n : i + 2 \in 3 .. n + 2 /\ f[i + 2] = content[i]
    BY <1>1, <1>10
  <2>4. \A i \in 3 .. n + 2 : i - 2 \in 1 .. n /\ f[i] = content[i - 2] /\ (i - 2) + 2 = i
    <3> SUFFICES ASSUME NEW i \in 3 .. n + 2
                 PROVE  i - 2 \in 1 .. n /\ f[i] = content[i - 2] /\ (i - 2) + 2 = i
      OBVIOUS
    <3>1. i - 2 \in 1 .. n /\ (i - 2) + 2 = i
      BY <1>1
    <3> QED BY <2>3, <3>1
  <2> HIDE DEF T
  <2>5. move \in Bijection(Ones(content, k), T)
    <3>1. move \in [Ones(content, k) -> T]
      BY <2>1, <2>2, <2>3
    <3>2. \A i, j \in Ones(content, k) : move[i] = move[j] => i = j
      BY <2>2, <1>1
    <3>3. \A t \in T : \E i \in Ones(content, k) : move[i] = t
      <4> SUFFICES ASSUME NEW t \in T PROVE \E i \in Ones(content, k) : move[i] = t
        OBVIOUS
      <4>1. t \in 3 .. n + 2 /\ Bit(f[t], k) = 1
        BY <2>1
      <4>2. t - 2 \in Ones(content, k) /\ (t - 2) + 2 = t
        BY <2>2, <2>4, <4>1
      <4> QED BY <4>2
    <3> HIDE DEF move
    <3> QED BY <3>1, <3>2, <3>3 DEF Bijection, Injection, Surjection, IsInjective
  <2>6. IsFiniteSet(Ones(content, k))
    <3>1. IsFiniteSet(1 .. n)
      BY <1>1, FS_Interval
    <3> QED BY <2>2, <3>1, FS_Subset
  <2>7. Cardinality(T) = Cardinality(Ones(content, k))
    <3>1. ExistsBijection(Ones(content, k), T)
      BY <2>5 DEF ExistsBijection
    <3> QED BY <2>6, <3>1, FS_Bijection
  <2>8. Last(f) = sum
    BY <1>8, <1>9 DEF Last
  <2> QED BY <1>2, <2>7, <2>8 DEF T
<1>12. VerifyChecksum(f)
  BY <1>11 DEF VerifyChecksum
<1>13. IsFrame(f, start, content)
  BY <1>8, <1>10, <1>12 DEF IsFrame
<1> QED BY <1>13 DEF f

\* The length field, most significant byte first.
LEMMA Uint16Facts ==
    ASSUME NEW n \in Nat
    PROVE  /\ Uint16(n) \in Seq(Byte) /\ Len(Uint16(n)) = 2
           /\ n < Power2[Width] * Power2[Width] =>
                  Uint16(n)[1] * Power2[Width] + Uint16(n)[2] = n
<1> DEFINE b == Power2[Width]
           q == n \div b
           r == n % b
<1>1. b \in Nat \ {0}
  BY ByteAssumption, Power2Facts
<1>2. Uint16(n) = <<q % b, r>> /\ Byte = 0 .. b - 1
  BY DEF Uint16, Byte
<1>3. q \in Nat /\ r \in 0 .. b - 1 /\ n = b * q + r
  <2> HIDE DEF b
  <2> QED BY <1>1, Division
<1>4. q % b \in 0 .. b - 1
  <2> HIDE DEF b, q
  <2> QED BY <1>1, <1>3, Division
<1>5. ASSUME n < b * b PROVE q < b
  <2> HIDE DEF b, q, r
  <2>1. SUFFICES ASSUME q >= b PROVE FALSE
    BY <1>1, <1>3
  <2>2. PICK d \in Nat : q = b + d
    <3>1. q - b \in Nat /\ q = b + (q - b)
      BY <1>1, <1>3, <2>1
    <3> QED BY <3>1
  <2>3. b * q = b * b + b * d
    BY <1>1, <2>2
  <2>4. b * b \in Nat /\ b * d \in Nat
    BY <1>1, <2>2
  <2> QED BY <1>3, <1>5, <2>3, <2>4
<1>6. ASSUME q < b PROVE q % b = q
  <2> HIDE DEF b, q, r
  <2> QED BY <1>1, <1>3, <1>6
<1>7. ASSUME n < b * b PROVE (q % b) * b + r = n
  <2>1. q % b = q
    BY <1>5, <1>6, <1>7
  <2> HIDE DEF b, q, r
  <2> QED BY <1>1, <1>3, <2>1
<1> HIDE DEF b, q, r
<1> QED BY <1>2, <1>3, <1>4, <1>7 DEF b

-----------------------------------------------------------------------------
(* Trimming.                                                               *)

\* Max of a set with a greatest element.
LEMMA MaxIsGreatest ==
    ASSUME NEW T \in SUBSET Nat, NEW n \in T, \A m \in T : m <= n
    PROVE  Max(T) = n
<1>1. Max(T) \in T /\ \A m \in T : Max(T) >= m
  BY DEF Max
<1>2. Max(T) \in Nat /\ n \in Nat
  BY <1>1
<1>3. Max(T) <= n /\ Max(T) >= n
  BY <1>1
<1> QED BY <1>2, <1>3

\* What is left ends before the bytes to be trimmed.
LEMMA TrimRightIs ==
    ASSUME NEW s \in Seq(Byte), NEW c, NEW n \in 0 .. Len(s),
           n > 0 => s[n] \notin c, \A i \in n + 1 .. Len(s) : s[i] \in c
    PROVE  TrimRight(s, c) = SubSeq(s, 1, n)
<1> DEFINE T == {0} \cup {i \in DOMAIN s : s[i] \notin c}
<1>1. Len(s) \in Nat /\ DOMAIN s = 1 .. Len(s)
  BY LenProperties
<1>2. T \in SUBSET Nat /\ n \in T /\ \A m \in T : m <= n
  <2>1. ASSUME NEW m \in T PROVE m <= n
    <3> SUFFICES ASSUME m \in 1 .. Len(s), s[m] \notin c, m > n PROVE FALSE
      BY <1>1
    <3>1. m \in n + 1 .. Len(s)
      BY <1>1
    <3> QED BY <3>1
  <2>2. n = 0 \/ n \in 1 .. Len(s)
    BY <1>1
  <2> QED BY <1>1, <2>1, <2>2
<1>3. Max(T) = n
  <2> HIDE DEF T
  <2> QED BY <1>2, MaxIsGreatest
<1> QED BY <1>3 DEF TrimRight

\* There is such an end.
LEMMA TrimRightFacts ==
    ASSUME NEW s \in Seq(Byte), NEW c
    PROVE  /\ TrimRight(s, c) \in Seq(Byte)
           /\ Len(TrimRight(s, c)) <= Len(s)
           /\ Len(TrimRight(s, c)) > 0 => TrimRight(s, c)[Len(TrimRight(s, c))] \notin c
<1> DEFINE T == {m \in Nat : m <= Len(s) /\ \A i \in m + 1 .. Len(s) : s[i] \in c}
<1>1. Len(s) \in Nat
  BY LenProperties
<1>2. Len(s) \in T
  BY <1>1
<1>3. PICK n \in T : \A m \in T : n <= m
  <2>1. T \in SUBSET Nat /\ T # {}
    BY <1>2
  <2> HIDE DEF T
  <2> QED BY <2>1, LeastOf
<1>4. n \in 0 .. Len(s) /\ \A i \in n + 1 .. Len(s) : s[i] \in c
  BY <1>1
<1>5. ASSUME n > 0 PROVE s[n] \notin c
  <2> SUFFICES ASSUME s[n] \in c PROVE FALSE
    OBVIOUS
  <2>1. \A i \in (n - 1) + 1 .. Len(s) : s[i] \in c
    <3> SUFFICES ASSUME NEW i \in (n - 1) + 1 .. Len(s) PROVE s[i] \in c
      OBVIOUS
    <3>1. i = n \/ i \in n + 1 .. Len(s)
      BY <1>1, <1>4
    <3> QED BY <1>4, <3>1
  <2>2. n - 1 \in T
    BY <1>1, <1>4, <1>5, <2>1
  <2> HIDE DEF T
  <2>3. n <= n - 1
    BY <1>3, <2>2
  <2> QED BY <1>4, <2>3
<1> HIDE DEF T
<1>6. TrimRight(s, c) = SubSeq(s, 1, n)
  BY <1>4, <1>5, TrimRightIs
<1>7. /\ SubSeq(s, 1, n) \in Seq(Byte) /\ Len(SubSeq(s, 1, n)) = n
      /\ \A i \in 1 .. n : SubSeq(s, 1, n)[i] = s[i]
  <2>1. \A i \in 1 .. n : s[i] \in Byte
    BY <1>1, <1>4, ElementOfSeq
  <2> QED BY <1>4, <2>1, SubSeqProperties
<1> QED BY <1>1, <1>4, <1>5, <1>6, <1>7

\* The VINs parseRawPacket can make.
Vins == {vin \in Seq(Byte) : /\ Len(vin) <= VinSize
                             /\ Len(vin) > 0 => vin[Len(vin)] \notin {0, Space}}

\* The flags, and zero, are bytes.
LEMMA SmallBytes == Byte \subseteq Nat /\ 0 \in Byte /\ Success \in Byte /\ Fail \in Byte /\ Request \in Byte
<1>1. Power2[Width] \in Nat
  BY ByteAssumption, Power2Facts
<1>2. Request \in 3 .. Power2[Width] - 1
  BY <1>1, FlagAssumption DEF Byte, Success, Fail
<1> QED BY <1>1, <1>2 DEF Byte, Success, Fail

\* A VIN that is filled up with zeros and trimmed again is the same.
LEMMA VinSurvives ==
    ASSUME NEW vin \in Vins
    PROVE  /\ VinField(vin) \in Seq(Byte) /\ Len(VinField(vin)) = VinSize
           /\ TrimRight(VinField(vin), {0, Space}) = vin
<1> DEFINE v == VinField(vin)
           n == Len(vin)
<1>1. n \in Nat /\ n <= VinSize /\ VinSize \in Nat /\ vin \in Seq(Byte)
  BY VinAssumption, LenProperties DEF Vins
<1>2. \A i \in 1 .. n : vin[i] \in Byte
  BY <1>1, ElementOfSeq
<1>3. v = [i \in 1 .. VinSize |-> IF i <= n THEN vin[i] ELSE 0]
  BY DEF VinField
<1>4. \A i \in 1 .. VinSize : v[i] \in Byte /\ v[i] = IF i <= n THEN vin[i] ELSE 0
  BY <1>1, <1>2, <1>3, SmallBytes
<1>5. v \in [1 .. VinSize -> Byte]
  BY <1>3, <1>4
<1> HIDE DEF v
<1>6. v \in Seq(Byte) /\ Len(v) = VinSize
  <2>1. v \in Seq(Byte)
    BY <1>1, <1>5, IsASeq
  <2>2. DOMAIN v = 1 .. VinSize /\ DOMAIN v = 1 .. Len(v) /\ Len(v) \in Nat
    BY <1>5, <2>1, LenProperties
  <2> QED BY <1>1, <2>1, <2>2
<1>7. n > 0 => v[n] \notin {0, Space}
  BY <1>1, <1>4 DEF Vins
<1>8. \A i \in n + 1 .. Len(v) : v[i] \in {0, Space}
  BY <1>1, <1>4, <1>6
<1>9. TrimRight(v, {0, Space}) = SubSeq(v, 1, n)
  <2> DEFINE c == {0, Space}
  <2>1. n \in 0 .. Len(v) /\ (n > 0 => v[n] \notin c) /\ \A i \in n + 1 .. Len(v) : v[i] \in c
    BY <1>1, <1>6, <1>7, <1>8
  <2> HIDE DEF n, c
  <2>2. TrimRight(v, c) = SubSeq(v, 1, n)
    BY <1>6, <2>1, TrimRightIs
  <2> QED BY <2>2 DEF c
<1>10. /\ SubSeq(v, 1, n) \in Seq(Byte) /\ Len(SubSeq(v, 1, n)) = n
       /\ \A i \in 1 .. n : SubSeq(v, 1, n)[i] = v[i]
  <2>1. \A i \in 1 .. n : v[i] \in Byte
    BY <1>1, <1>4
  <2> QED BY <1>1, <2>1, SubSeqProperties
<1>11. \A i \in 1 .. n : v[i] = vin[i]
  BY <1>1, <1>4
<1>12. SubSeq(v, 1, n) = vin
  BY <1>1, <1>10, <1>11, SeqEqual
<1> QED BY <1>6, <1>9, <1>12 DEF v

-----------------------------------------------------------------------------
(* Packets and their bytes.                                                *)

\* What stands between the start mark and the checksum.
Row(command, flag, vin, encryption, data) ==
    <<command, flag>> \o vin \o <<encryption>> \o Uint16(Len(data)) \o data

\* It is made of bytes.
LEMMA RowIsBytes ==
    ASSUME NEW command \in Byte, NEW flag \in Byte, NEW vin \in Seq(Byte),
           NEW encryption \in Byte, NEW data \in Seq(Byte)
    PROVE  Row(command, flag, vin, encryption, data) \in Seq(Byte)
<1>1. Len(data) \in Nat
  BY LenProperties
<1>2. Uint16(Len(data)) \in Seq(Byte)
  BY <1>1, Uint16Facts
<1>3. <<command, flag>> \in Seq(Byte) /\ <<encryption>> \in Seq(Byte)
  OBVIOUS
<1> QED BY <1>2, <1>3, ConcatProperties DEF Row

\* Two pieces put together.
IsJoined(r, s, t) ==
    /\ r \in Seq(Byte) /\ Len(r) = Len(s) + Len(t)
    /\ \A i \in 1 .. Len(s) : r[i] = s[i]
    /\ \A i \in 1 .. Len(t) : r[i + Len(s)] = t[i]

\* That is what concatenation does.
LEMMA Joined ==
    ASSUME NEW s \in Seq(Byte), NEW t \in Seq(Byte)
    PROVE  IsJoined(s \o t, s, t)
<1>1. /\ s \o t \in Seq(Byte) /\ Len(s \o t) = Len(s) + Len(t)
      /\ \A i \in 1 .. Len(s) + Len(t) :
             (s \o t)[i] = IF i <= Len(s) THEN s[i] ELSE t[i - Len(s)]
  BY ConcatProperties
<1>2. \A i \in 1 .. Len(t) : /\ i + Len(s) \in 1 .. Len(s) + Len(t)
                             /\ ~(i + Len(s) <= Len(s)) /\ (i + Len(s)) - Len(s) = i
  BY LenProperties
<1> QED BY <1>1, <1>2, LenProperties DEF IsJoined

\* Where its parts are.
IsRow(row, command, flag, vin, encryption, data) ==
    /\ Len(row) = VinSize + 5 + Len(data)
    /\ row[1] = command /\ row[2] = flag
    /\ \A i \in 1 .. VinSize : row[i + 2] = vin[i]
    /\ row[VinSize + 3] = encryption
    /\ row[VinSize + 4] = Uint16(Len(data))[1]
    /\ row[VinSize + 5] = Uint16(Len(data))[2]
    /\ \A i \in 1 .. Len(data) : row[i + (VinSize + 5)] = data[i]

\* They are there.
LEMMA RowFacts ==
    ASSUME NEW command \in Byte, NEW flag \in Byte, NEW vin \in Seq(Byte), Len(vin) = VinSize,
           NEW encryption \in Byte, NEW data \in Seq(Byte),
           NEW row, row = Row(command, flag, vin, encryption, data)
    PROVE  IsRow(row, command, flag, vin, encryption, data)
<1> DEFINE len == Len(data)
           size == Uint16(Len(data))
           head == <<command, flag>>
           mode == <<encryption>>
<1>1. VinSize \in Nat /\ len \in Nat
  BY VinAssumption, LenProperties
<1>2. size \in Seq(Byte) /\ Len(size) = 2
  BY <1>1, Uint16Facts
<1>3. row = head \o vin \o mode \o size \o data
  BY DEF Row
<1>4. /\ head \in Seq(Byte) /\ Len(head) = 2 /\ head[1] = command /\ head[2] = flag
      /\ mode \in Seq(Byte) /\ Len(mode) = 1 /\ mode[1] = encryption
  OBVIOUS
<1> HIDE DEF size, head, mode, len
<1>5. PICK r2 : r2 = head \o vin
  OBVIOUS
<1>6. PICK r3 : r3 = r2 \o mode
  OBVIOUS
<1>7. PICK r4 : r4 = r3 \o size
  OBVIOUS
<1>8. row = r4 \o data
  BY <1>3, <1>5, <1>6, <1>7
<1>9. /\ r2 \in Seq(Byte) /\ Len(r2) = 2 + VinSize
      /\ \A i \in 1 .. 2 : r2[i] = head[i]
      /\ \A i \in 1 .. VinSize : r2[i + 2] = vin[i]
  <2>1. IsJoined(r2, head, vin)
    BY <1>4, <1>5, Joined
  <2> QED BY <1>4, <2>1 DEF IsJoined
<1>10. /\ r3 \in Seq(Byte) /\ Len(r3) = VinSize + 3
       /\ \A i \in 1 .. VinSize + 2 : r3[i] = r2[i]
       /\ r3[VinSize + 3] = encryption
  <2>1. IsJoined(r3, r2, mode)
    BY <1>4, <1>6, <1>9, Joined
  <2>2. Len(r2) = VinSize + 2
    BY <1>1, <1>9
  <2>3. 1 + (VinSize + 2) = VinSize + 3 /\ 1 \in 1 .. 1
    BY <1>1
  <2> QED BY <1>1, <1>4, <2>1, <2>2, <2>3 DEF IsJoined
<1>11. /\ r4 \in Seq(Byte) /\ Len(r4) = VinSize + 5
       /\ \A i \in 1 .. VinSize + 3 : r4[i] = r3[i]
       /\ r4[VinSize + 4] = size[1] /\ r4[VinSize + 5] = size[2]
  <2>1. IsJoined(r4, r3, size)
    BY <1>2, <1>7, <1>10, Joined
  <2>2. Len(r3) = VinSize + 3
    BY <1>10
  <2>3. /\ 1 + (VinSize + 3) = VinSize + 4 /\ 1 \in 1 .. 2
        /\ 2 + (VinSize + 3) = VinSize + 5 /\ 2 \in 1 .. 2
    BY <1>1
  <2> QED BY <1>1, <1>2, <2>1, <2>2, <2>3 DEF IsJoined
<1>12. /\ Len(row) = (VinSize + 5) + len
       /\ \A i \in 1 .. VinSize + 5 : row[i] = r4[i]
       /\ \A i \in 1 .. len : row[i + (VinSize + 5)] = data[i]
  <2>1. IsJoined(row, r4, data)
    BY <1>8, <1>11, Joined
  <2> QED BY <1>11, <2>1 DEF len, IsJoined
<1>13. row[1] = command /\ row[2] = flag
  <2>1. ASSUME NEW i \in 1 .. 2 PROVE row[i] = head[i]
    <3>1. i \in 1 .. VinSize + 2 /\ i \in 1 .. VinSize + 3 /\ i \in 1 .. VinSize + 5
      BY <1>1
    <3>2. row[i] = r4[i] /\ r4[i] = r3[i] /\ r3[i] = r2[i]
      BY <1>10, <1>11, <1>12, <3>1
    <3> QED BY <1>9, <3>2
  <2> QED BY <1>4, <2>1
<1>14. ASSUME NEW i \in 1 .. VinSize PROVE row[i + 2] = vin[i]
  <2>1. i + 2 \in 1 .. VinSize + 2 /\ i + 2 \in 1 .. VinSize + 3 /\ i + 2 \in 1 .. VinSize + 5
    BY <1>1
  <2>2. row[i + 2] = r4[i + 2] /\ r4[i + 2] = r3[i + 2] /\ r3[i + 2] = r2[i + 2]
    BY <1>10, <1>11, <1>12, <2>1
  <2> QED BY <1>9, <2>2
<1>15. row[VinSize + 3] = encryption /\ row[VinSize + 4] = size[1] /\ row[VinSize + 5] = size[2]
  <2>1. /\ VinSize + 3 \in 1 .. VinSize + 3 /\ VinSize + 3 \in 1 .. VinSize + 5
        /\ VinSize + 4 \in 1 .. VinSize + 5 /\ VinSize + 5 \in 1 .. VinSize + 5
    BY <1>1
  <2> QED BY <1>10, <1>11, <1>12, <2>1
<1>16. Len(row) = VinSize + 5 + Len(data) /\ \A i \in 1 .. Len(data) : row[i + (VinSize + 5)] = data[i]
  BY <1>12 DEF len
<1> QED BY <1>13, <1>14, <1>15, <1>16 DEF size, IsRow

\* The packets that reach the handler.
LEMMA PacketFacts ==
    ASSUME NEW pkt \in Packets
    PROVE  pkt.command \in Byte /\ pkt.vin \in Vins /\ pkt.data \in Seq(Byte)
<1>1. PICK start \in {Hash, Dollar}, command \in Commands, flag \in {Success, Request},
           vin \in VinFields, data \in Bodies :
           LET bytes == Frame(start, Row(command, flag, vin, 1, data))
           IN  Complete(bytes) /\ pkt = parseRawPacket(bytes)
  <2> DEFINE sent == {Frame(start, Row(command, flag, vin, 1, data)) :
                          start \in {Hash, Dollar}, command \in Commands,
                          flag \in {Success, Request}, vin \in VinFields, data \in Bodies}
  <2>1. Packets = {parseRawPacket(bytes) : bytes \in {b \in sent : Complete(b) /\ VerifyChecksum(b)}}
    BY DEF Packets, Row
  <2>2. PICK bytes \in sent : Complete(bytes) /\ pkt = parseRawPacket(bytes)
    <3> HIDE DEF sent
    <3> QED BY <2>1
  <2>3. \E start \in {Hash, Dollar}, command \in Commands, flag \in {Success, Request},
           vin \in VinFields, data \in Bodies :
              bytes = Frame(start, Row(command, flag, vin, 1, data))
    OBVIOUS
  <2> QED BY <2>2, <2>3
<1> DEFINE row == Row(command, flag, vin, 1, data)
           bytes == Frame(start, row)
<1>2. Complete(bytes) /\ pkt = parseRawPacket(bytes)
  BY <1>1
<1>3. row \in Seq(Byte)
  <2>1. /\ command \in Byte /\ flag \in Byte /\ vin \in Seq(Byte) /\ data \in Seq(Byte)
        /\ 1 \in Byte
    BY <1>1, InputAssumption, SmallBytes DEF Success
  <2> QED BY <2>1, RowIsBytes
<1> HIDE DEF row
<1>4. bytes \in Seq(Byte)
  BY <1>3, ByteAssumption, FrameFacts DEF IsFrame
<1> HIDE DEF bytes
<1>5. Len(bytes) \in Nat /\ Len(bytes) > HeaderSize
  <2>1. TotalLen(bytes) \in Nat /\ TotalLen(bytes) > HeaderSize /\ TotalLen(bytes) <= Len(bytes)
    BY <1>2, <1>4, TotalIsNat DEF Complete
  <2> QED BY <1>4, <2>1, HeaderAssumption, LenProperties
<1>6. \A i \in 1 .. Len(bytes) : bytes[i] \in Byte
  BY <1>4, ElementOfSeq
<1>7. VinSize \in Nat /\ HeaderSize = VinSize + 7
  BY VinAssumption
<1>8. pkt.command = bytes[3] /\ bytes[3] \in Byte
  BY <1>2, <1>5, <1>6, <1>7 DEF parseRawPacket
<1>9. /\ pkt.vin = TrimRight(SubSeq(bytes, 5, VinSize + 4), {0, Space})
      /\ pkt.data = SubSeq(bytes, HeaderSize + 1, Len(bytes) - 1)
  BY <1>2 DEF parseRawPacket
<1>10. SubSeq(bytes, 5, VinSize + 4) \in Seq(Byte) /\ Len(SubSeq(bytes, 5, VinSize + 4)) = VinSize
  <2>1. \A i \in 5 .. VinSize + 4 : bytes[i] \in Byte
    BY <1>5, <1>6, <1>7
  <2> QED BY <1>7, <2>1, SubSeqProperties
<1>11. pkt.vin \in Vins
  BY <1>9, <1>10, TrimRightFacts DEF Vins
<1>12. pkt.data \in Seq(Byte)
  <2>1. \A i \in HeaderSize + 1 .. Len(bytes) - 1 : bytes[i] \in Byte
    BY <1>5, <1>6, <1>7
  <2>2. HeaderSize + 1 \in Int /\ Len(bytes) - 1 \in Int
    BY <1>5, <1>7
  <2> QED BY <1>5, <1>7, <1>9, <2>1, <2>2, SubSeqProperties
<1> QED BY <1>8, <1>11, <1>12

\* A reply that is encoded: a command, a flag, a VIN and at most nine bytes.
Replied(command, flag, vin, data) ==
    EncodePacket([command |-> command, response |-> flag, vin |-> vin,
                  encryption |-> 1, data |-> data])

\* The peer takes it for one packet and reads from it what was put in.
LEMMA ReplyFacts ==
    ASSUME NEW command \in Byte, NEW flag \in {Success, Fail}, NEW vin \in Vins,
           NEW data \in Seq(Byte), Len(data) <= 9,
           NEW f, f = Replied(command, flag, vin, data)
    PROVE  /\ f \in Seq(Byte) /\ Len(f) = HeaderSize + Len(data) + 1
           /\ Complete(f) /\ Packet(f) = f /\ VerifyChecksum(f)
           /\ parseRawPacket(f) = [command |-> command, response |-> flag, vin |-> vin,
                                   encryption |-> 1, data |-> data]
<1> DEFINE field == VinField(vin)
           row == Row(command, flag, field, 1, data)
           n == Len(data)
<1>1. n \in Nat /\ VinSize \in Nat /\ HeaderSize = VinSize + 7 /\ HeaderSize >= 4
  BY VinAssumption, HeaderAssumption, LenProperties
<1>2. flag \in Byte /\ flag # 0 /\ 1 \in Byte /\ Hash \in Byte
  BY SmallBytes, ByteAssumption DEF Success, Fail
<1>3. field \in Seq(Byte) /\ Len(field) = VinSize /\ TrimRight(field, {0, Space}) = vin
  BY VinSurvives
<1>4. f = Frame(Hash, row)
  BY <1>2 DEF Replied, EncodePacket, Content, Row
<1> HIDE DEF field
<1>5. row \in Seq(Byte)
  BY <1>2, <1>3, RowIsBytes
<1>6. /\ Len(row) = VinSize + 5 + n
      /\ row[1] = command /\ row[2] = flag
      /\ \A i \in 1 .. VinSize : row[i + 2] = field[i]
      /\ row[VinSize + 3] = 1
      /\ row[VinSize + 4] = Uint16(n)[1]
      /\ row[VinSize + 5] = Uint16(n)[2]
      /\ \A i \in 1 .. n : row[i + (VinSize + 5)] = data[i]
  <2> DEFINE r == row
  <2>1. r = Row(command, flag, field, 1, data)
    OBVIOUS
  <2> HIDE DEF r
  <2>2. IsRow(r, command, flag, field, 1, data)
    BY <1>2, <1>3, <2>1, RowFacts
  <2> QED BY <2>2 DEF r, IsRow
<1> HIDE DEF row
<1>7. /\ f \in Seq(Byte) /\ Len(f) = Len(row) + 3
      /\ f[1] = Hash /\ f[2] = Hash
      /\ \A i \in 1 .. Len(row) : f[i + 2] = row[i]
      /\ VerifyChecksum(f)
  <2>1. IsFrame(f, Hash, row)
    BY <1>2, <1>4, <1>5, FrameFacts
  <2> QED BY <2>1 DEF IsFrame
<1>8. Len(f) = HeaderSize + n + 1
  BY <1>1, <1>6, <1>7
<1>9. ASSUME NEW i \in 1 .. VinSize + 5 + n PROVE f[i + 2] = row[i]
  BY <1>6, <1>7
<1>10. TotalLen(f) = Len(f)
  <2>1. f[HeaderSize - 1] = Uint16(n)[1] /\ f[HeaderSize] = Uint16(n)[2]
    <3>1. /\ VinSize + 4 \in 1 .. VinSize + 5 + n /\ (VinSize + 4) + 2 = HeaderSize - 1
          /\ VinSize + 5 \in 1 .. VinSize + 5 + n /\ (VinSize + 5) + 2 = HeaderSize
      BY <1>1
    <3>2. f[(VinSize + 4) + 2] = row[VinSize + 4] /\ f[(VinSize + 5) + 2] = row[VinSize + 5]
      BY <1>9, <3>1
    <3> QED BY <1>6, <3>1, <3>2
  <2>2. n < Power2[Width] * Power2[Width]
    <3> DEFINE square == Power2[Width] * Power2[Width]
    <3>1. square \in Nat /\ 9 < square
      <4> DEFINE b == Power2[Width]
      <4>1. b \in Nat
        BY ByteAssumption, Power2Facts
      <4>2. b * b \in Nat
        <5> HIDE DEF b
        <5> QED BY <4>1
      <4> QED BY <4>2, ReplyAssumption
    <3> HIDE DEF square
    <3>2. n < square
      BY <1>1, <3>1
    <3> QED BY <3>2 DEF square
  <2>3. DataLen(f) = n
    BY <1>1, <2>1, <2>2, Uint16Facts DEF DataLen
  <2> QED BY <1>8, <2>3 DEF TotalLen
<1>11. Complete(f)
  <2>1. Len(f) <= MaxPacket
    BY <1>1, <1>8, ReplyAssumption, MaxPacketAssumption
  <2>2. IsStart(f, 1)
    BY <1>1, <1>7, <1>8 DEF IsStart
  <2> QED BY <1>1, <1>8, <1>10, <2>1, <2>2, MaxPacketAssumption DEF Complete, HasHeader, TooLarge
<1>12. Packet(f) = f
  <2>1. SubSeq(f, 1, Len(f)) = f
    BY <1>7, SubSeqFull
  <2> QED BY <1>10, <2>1 DEF Packet
<1>13. f[3] = command /\ f[4] = flag
  <2>1. 1 \in 1 .. VinSize + 5 + n /\ 2 \in 1 .. VinSize + 5 + n
    BY <1>1
  <2>2. f[1 + 2] = row[1] /\ f[2 + 2] = row[2]
    BY <1>9, <2>1
  <2> QED BY <1>6, <2>2
<1>14. SubSeq(f, 5, VinSize + 4) = field
  <2>1. \A i \in 5 .. VinSize + 4 : f[i] \in Byte
    BY <1>1, <1>7, <1>8, ElementOfSeq
  <2> DEFINE cut == SubSeq(f, 5, VinSize + 4)
  <2>2. /\ cut \in Seq(Byte) /\ Len(cut) = VinSize
        /\ \A i \in 1 .. VinSize : cut[i] = f[5 + i - 1]
    BY <1>1, <2>1, SubSeqProperties
  <2> HIDE DEF cut
  <2>3. \A i \in 1 .. VinSize : cut[i] = field[i]
    <3> SUFFICES ASSUME NEW i \in 1 .. VinSize PROVE cut[i] = field[i]
      OBVIOUS
    <3>1. i + 2 \in 1 .. VinSize + 5 + n /\ 5 + i - 1 = (i + 2) + 2
      BY <1>1
    <3>2. f[(i + 2) + 2] = row[i + 2]
      BY <1>9, <3>1
    <3> QED BY <1>6, <2>2, <3>1, <3>2
  <2>4. cut = field
    BY <1>3, <2>2, <2>3, SeqEqual
  <2> QED BY <2>4 DEF cut
<1>15. f[VinSize + 5] = 1
  <2>1. VinSize + 3 \in 1 .. VinSize + 5 + n /\ (VinSize + 3) + 2 = VinSize + 5
    BY <1>1
  <2>2. f[(VinSize + 3) + 2] = row[VinSize + 3]
    BY <1>9, <2>1
  <2> QED BY <1>6, <2>1, <2>2
<1>16. SubSeq(f, HeaderSize + 1, Len(f) - 1) = data
  <2> DEFINE cut == SubSeq(f, HeaderSize + 1, Len(f) - 1)
             first == HeaderSize + 1
             last == Len(f) - 1
  <2>1. /\ first \in Int /\ last \in Int /\ last - first + 1 = n
        /\ (first <= last <=> n > 0) /\ last = HeaderSize + n
    BY <1>1, <1>8
  <2>2. \A i \in first .. last : f[i] \in Byte
    BY <1>1, <1>7, <1>8, ElementOfSeq
  <2>3. cut = SubSeq(f, first, last)
    OBVIOUS
  <2> HIDE DEF cut, last
  <2>4. /\ cut \in Seq(Byte) /\ Len(cut) = IF first <= last THEN last - first + 1 ELSE 0
        /\ \A i \in 1 .. last - first + 1 : cut[i] = f[first + i - 1]
    <3> HIDE DEF first
    <3> QED BY <2>1, <2>2, <2>3, SubSeqProperties
  <2>5. Len(cut) = n
    BY <1>1, <2>1, <2>4
  <2>6. \A i \in 1 .. n : cut[i] = data[i]
    <3> SUFFICES ASSUME NEW i \in 1 .. n PROVE cut[i] = data[i]
      OBVIOUS
    <3>1. /\ i + (VinSize + 5) \in 1 .. VinSize + 5 + n
          /\ first + i - 1 = (i + (VinSize + 5)) + 2
          /\ i \in 1 .. last - first + 1
      BY <1>1, <2>1
    <3>2. f[(i + (VinSize + 5)) + 2] = row[i + (VinSize + 5)]
      BY <1>9, <3>1
    <3>3. row[i + (VinSize + 5)] = data[i]
      BY <1>6
    <3>4. cut[i] = f[first + i - 1]
      BY <2>4, <3>1
    <3> QED BY <3>1, <3>2, <3>3, <3>4
  <2>7. cut = data
    BY <2>4, <2>5, <2>6, SeqEqual
  <2> QED BY <2>7 DEF cut, last
<1>17. parseRawPacket(f) = [command |-> command, response |-> flag, vin |-> vin,
                            encryption |-> 1, data |-> data]
  BY <1>3, <1>13, <1>14, <1>15, <1>16 DEF parseRawPacket
<1> QED BY <1>7, <1>8, <1>11, <1>12, <1>17

-----------------------------------------------------------------------------
(* Replies, one behind the other.                                          *)

\* However the bytes go on, these packets come first and end where they end.
Settled(s, P) == \A t \in Seq(Byte) :
                     Extends(t, s) => PacketsOf(t) = P \o PacketsFrom(t)[Len(s) + 1]

\* If they do not go on, these are all.
LEMMA SettledIsFound ==
    ASSUME NEW s \in Seq(Byte), NEW P \in Seq(Records), Settled(s, P)
    PROVE  PacketsOf(s) = P
<1>1. Len(s) \in Nat /\ Extends(s, s)
  BY LenProperties DEF Extends
<1>2. PacketsOf(s) = P \o PacketsFrom(s)[Len(s) + 1]
  BY <1>1 DEF Settled
<1>3. PacketsFrom(s)[Len(s) + 1] = <<>>
  <2> DEFINE i == Len(s) + 1
  <2>1. i \in 1 .. Len(s) + 1 /\ \A k \in i .. Len(s) : ~IsStart(s, k)
    BY <1>1
  <2> HIDE DEF i
  <2>2. PacketsFrom(s)[i] = <<>>
    BY <2>1, PacketsFromUnfolds, SearchFindsNothing
  <2> QED BY <2>2 DEF i
<1> QED BY <1>2, <1>3, ConcatEmptySeq

\* Before the first byte nothing is settled.
LEMMA NothingIsSettled == Settled(<<>>, <<>>)
<1> SUFFICES ASSUME NEW t \in Seq(Byte) PROVE PacketsOf(t) = <<>> \o PacketsFrom(t)[0 + 1]
  BY EmptySeq DEF Settled
<1>1. 1 \in 1 .. Len(t) + 1 /\ 0 + 1 = 1
  BY LenProperties
<1>2. PacketsFrom(t)[1] \in Seq(Records)
  BY <1>1, PacketsFromType
<1> QED BY <1>1, <1>2, ConcatEmptySeq DEF PacketsOf

\* A frame that is appended is found, and nothing else.
LEMMA FrameIsFound ==
    ASSUME NEW s \in Seq(Byte), NEW P \in Seq(Records), Settled(s, P),
           NEW f \in Seq(Byte), Complete(f), Packet(f) = f, VerifyChecksum(f)
    PROVE  Settled(s \o f, Append(P, [at |-> Len(s) + 1, packet |-> f]))
<1> DEFINE i == Len(s) + 1
           new == [at |-> i, packet |-> f]
           u == s \o f
<1>1. Len(s) \in Nat /\ Len(f) \in Nat /\ i \in Nat \ {0}
  BY LenProperties
<1>2. HasHeader(f) /\ ~TooLarge(f) /\ Len(f) >= HeaderSize
  BY DEF Complete, HasHeader
<1>3. u \in Seq(Byte) /\ Len(u) = Len(s) + Len(f) /\ \A k \in 1 .. Len(s) : u[k] = s[k]
  <2>1. IsJoined(u, s, f)
    BY Joined
  <2> QED BY <2>1 DEF IsJoined
<1>4. \A k \in 1 .. Len(f) : u[k + Len(s)] = f[k]
  <2>1. IsJoined(u, s, f)
    BY Joined
  <2> QED BY <2>1 DEF IsJoined
<1> HIDE DEF u
<1> SUFFICES ASSUME NEW t \in Seq(Byte), Extends(t, u)
             PROVE  PacketsOf(t) = Append(P, new) \o PacketsFrom(t)[Len(u) + 1]
  BY DEF Settled, u
<1> DEFINE rest == SubSeq(t, i, Len(t))
<1>5. Len(t) \in Nat /\ Len(u) <= Len(t) /\ \A k \in 1 .. Len(u) : t[k] = u[k]
  BY LenProperties DEF Extends
<1>6. PacketsOf(t) = P \o PacketsFrom(t)[i]
  <2>1. Extends(t, s)
    BY <1>1, <1>3, <1>5 DEF Extends
  <2> QED BY <2>1 DEF Settled
<1>7. /\ rest \in Seq(Byte) /\ Len(rest) = Len(t) - i + 1
      /\ \A j \in 1 .. Len(t) - i + 1 : rest[j] = t[i + j - 1]
  <2>1. i <= Len(t) + 1
    BY <1>1, <1>3, <1>5
  <2> HIDE DEF i
  <2> QED BY <1>1, <2>1, FromFacts
<1>8. Len(f) <= Len(rest) /\ \A j \in 1 .. Len(f) : rest[j] = f[j]
  <2>1. Len(f) <= Len(rest)
    BY <1>1, <1>3, <1>5, <1>7
  <2>2. ASSUME NEW j \in 1 .. Len(f) PROVE rest[j] = f[j]
    <3>1. j \in 1 .. Len(t) - i + 1 /\ i + j - 1 = j + Len(s) /\ j + Len(s) \in 1 .. Len(u)
      BY <1>1, <1>3, <1>5
    <3> QED BY <1>4, <1>5, <1>7, <3>1
  <2> QED BY <2>1, <2>2
<1>9. Complete(rest) /\ Packet(rest) = f
  <2> HIDE DEF rest
  <2> QED BY <1>7, <1>8, MoreBytes
<1>10. TotalLen(rest) = Len(f)
  <2> HIDE DEF rest
  <2> QED BY <1>7, <1>9, PacketIsBytes
<1>11. IsStart(t, i)
  <2>1. Len(f) >= 4 /\ 1 \in 1 .. Len(f) /\ 2 \in 1 .. Len(f)
    BY <1>1, <1>2, HeaderAssumption
  <2>2. t[i] = f[1] /\ t[i + 1] = f[2]
    <3>1. 1 + Len(s) = i /\ 2 + Len(s) = i + 1 /\ i \in 1 .. Len(u) /\ i + 1 \in 1 .. Len(u)
      BY <1>1, <1>3, <2>1
    <3> QED BY <1>4, <1>5, <2>1, <3>1
  <2>3. i \in 1 .. Len(t) - 1
    BY <1>1, <1>3, <1>5, <2>1
  <2> QED BY <1>2, <2>2, <2>3 DEF HasHeader, IsStart
<1>12. PacketsFrom(t)[i] = <<new>> \o PacketsFrom(t)[i + Len(f)]
  <2>1. PacketsFrom(t)[i] = At(t, PacketsFrom(t), i)
    <3> HIDE DEF i
    <3> QED BY <1>11, FoundAtStart
  <2>2. HasHeader(rest) /\ ~TooLarge(rest)
    <3> HIDE DEF rest
    <3> QED BY <1>9 DEF Complete
  <2> HIDE DEF rest
  <2>3. At(t, PacketsFrom(t), i) = <<[at |-> i, packet |-> f]>> \o PacketsFrom(t)[i + Len(f)]
    BY <1>9, <1>10, <2>2 DEF At, rest
  <2> QED BY <2>1, <2>3
<1>13. i + Len(f) = Len(u) + 1 /\ i + Len(f) \in 1 .. Len(t) + 1
  BY <1>1, <1>3, <1>5
<1>14. PacketsOf(t) = P \o (<<new>> \o PacketsFrom(t)[Len(u) + 1])
  BY <1>6, <1>12, <1>13
<1>15. new \in Records
  BY <1>1 DEF Records
<1>16. PacketsFrom(t)[Len(u) + 1] \in Seq(Records)
  BY <1>13, PacketsFromType
<1> HIDE DEF new
<1>17. Append(P, new) = P \o <<new>>
  BY <1>15, AppendIsConcat
<1>18. <<new>> \in Seq(Records)
  BY <1>15
<1>19. \A Q \in Seq(Records) : P \o (<<new>> \o Q) = Append(P, new) \o Q
  BY <1>17, <1>18, ConcatAssociative
<1> QED BY <1>14, <1>16, <1>19

-----------------------------------------------------------------------------
(* The times.                                                              *)

\* The time of a request, six bytes or all there are.
LEMMA RequestTimeFacts ==
    ASSUME NEW pkt \in Packets
    PROVE  /\ RequestTime(pkt) \in Seq(Byte)
           /\ Len(pkt.data) >= 6 => Len(RequestTime(pkt)) = 6
           /\ Len(pkt.data) < 6 => Len(RequestTime(pkt)) < 6
<1> DEFINE data == pkt.data
           m == IF Len(data) >= 6 THEN 6 ELSE Len(data)
           T == {6, Len(data)}
<1>1. data \in Seq(Byte) /\ Len(data) \in Nat /\ m \in Nat /\ m <= Len(data)
  BY PacketFacts, LenProperties
<1>2. T \in SUBSET Nat /\ m \in T /\ \A x \in T : m <= x
  BY <1>1
<1>3. Min(T) = m
  <2> HIDE DEF T, m
  <2> QED BY <1>2, MinIsLeast
<1>4. RequestTime(pkt) = SubSeq(data, 1, m)
  BY <1>3 DEF RequestTime
<1> HIDE DEF data
<1>5. \A i \in 1 .. m : data[i] \in Byte
  BY <1>1, ElementOfSeq
<1>6. SubSeq(data, 1, m) \in Seq(Byte) /\ Len(SubSeq(data, 1, m)) = m
  <2> HIDE DEF m
  <2> QED BY <1>1, <1>5, SubSeqProperties
<1>7. (Len(data) >= 6 => m = 6) /\ (Len(data) < 6 => m < 6)
  BY <1>1
<1> QED BY <1>4, <1>6, <1>7 DEF data

\* The time of a reply, six bytes, and the request's if it has one.
LEMMA EchoTimeFacts ==
    ASSUME NEW pkt \in Packets
    PROVE  /\ EchoTime(pkt) \in Seq(Byte) /\ Len(EchoTime(pkt)) = 6
           /\ Len(pkt.data) >= 6 => EchoTime(pkt) = RequestTime(pkt)
           /\ SubSeq(EchoTime(pkt), 1, 6) = EchoTime(pkt)
<1>1. EchoTime(pkt) \in Seq(Byte) /\ Len(EchoTime(pkt)) = 6
  BY RequestTimeFacts, ClockAssumption DEF EchoTime
<1>2. SubSeq(EchoTime(pkt), 1, 6) = EchoTime(pkt)
  <2> DEFINE e == EchoTime(pkt)
  <2>1. e \in Seq(Byte) /\ Len(e) = 6
    BY <1>1
  <2> HIDE DEF e
  <2>2. SubSeq(e, 1, Len(e)) = e
    BY <2>1, SubSeqFull
  <2> QED BY <2>1, <2>2 DEF e
<1> QED BY <1>1, <1>2 DEF EchoTime

\* What a reply may carry: a time, and then perhaps its flag as the result.
FitsRequest(data, flag, pkt) ==
    /\ data \in Seq(Byte) /\ Len(data) <= 9
    /\ Len(data) = 9 => Last(data) = flag
    /\ \/ SubSeq(data, 1, 6) = RequestTime(pkt)
       \/ pkt.command = CmdVehicleLogin /\ flag = Fail /\ Len(RequestTime(pkt)) < 6

\* The builder of plain replies.
LEMMA GeneralResponseFits ==
    ASSUME NEW pkt \in Packets, NEW flag, Len(pkt.data) >= 6
    PROVE  FitsRequest(BuildGeneralResponse(pkt), flag, pkt)
<1> DEFINE e == EchoTime(pkt)
<1>1. e \in Seq(Byte) /\ Len(e) = 6 /\ SubSeq(e, 1, 6) = RequestTime(pkt)
  BY EchoTimeFacts
<1> HIDE DEF e
<1>2. FitsRequest(e, flag, pkt)
  BY <1>1 DEF FitsRequest
<1> QED BY <1>2 DEF e, BuildGeneralResponse

\* The builder of replies with a result.
LEMMA LoginResponseFits ==
    ASSUME NEW pkt \in Packets, NEW flag \in {Success, Fail},
           \/ Len(pkt.data) >= 6
           \/ pkt.command = CmdVehicleLogin /\ flag = Fail
    PROVE  FitsRequest(BuildVehicleLoginResponse(pkt, flag), flag, pkt)
<1> DEFINE time == EchoTime(pkt)
           tail == <<0, 0, flag>>
           data == BuildVehicleLoginResponse(pkt, flag)
<1>1. time \in Seq(Byte) /\ Len(time) = 6 /\ SubSeq(time, 1, 6) = time
  BY EchoTimeFacts
<1>2. tail \in Seq(Byte) /\ Len(tail) = 3 /\ tail[3] = flag
  BY SmallBytes
<1>3. data = time \o tail
  BY DEF BuildVehicleLoginResponse
<1> HIDE DEF data, time, tail
<1>4. IsJoined(data, time, tail)
  BY <1>1, <1>2, <1>3, Joined
<1>5. data \in Seq(Byte) /\ Len(data) = 9 /\ \A i \in 1 .. 6 : data[i] = time[i]
  BY <1>1, <1>2, <1>4 DEF IsJoined
<1>6. data[9] = flag
  <2>1. \A i \in 1 .. 3 : data[i + 6] = tail[i]
    BY <1>1, <1>2, <1>4 DEF IsJoined
  <2> QED BY <1>2, <2>1
<1>7. Last(data) = flag
  BY <1>5, <1>6 DEF Last
<1>8. SubSeq(data, 1, 6) = time
  <2> DEFINE cut == SubSeq(data, 1, 6)
  <2>1. \A i \in 1 .. 6 : data[i] \in Byte
    <3> SUFFICES ASSUME NEW i \in 1 .. 6 PROVE data[i] \in Byte
      OBVIOUS
    <3>1. i \in 1 .. Len(data)
      BY <1>5
    <3> QED BY <1>5, <3>1, ElementOfSeq
  <2>2. /\ cut \in Seq(Byte) /\ Len(cut) = 6
        /\ \A i \in 1 .. 6 : cut[i] = data[i]
    BY <2>1, SubSeqProperties
  <2> HIDE DEF cut
  <2>3. cut = time
    BY <1>1, <1>5, <2>2, SeqEqual
  <2> QED BY <2>3 DEF cut
<1>9. CASE Len(pkt.data) >= 6
  <2>1. time = RequestTime(pkt)
    BY <1>9, EchoTimeFacts DEF time
  <2> QED BY <1>5, <1>7, <1>8, <2>1 DEF data, FitsRequest
<1>10. CASE ~(Len(pkt.data) >= 6)
  <2>1. Len(pkt.data) \in Nat
    BY PacketFacts, LenProperties
  <2>2. Len(RequestTime(pkt)) < 6
    BY <1>10, <2>1, RequestTimeFacts
  <2> QED BY <1>5, <1>7, <1>10, <2>2 DEF data, FitsRequest
<1> QED BY <1>9, <1>10

-----------------------------------------------------------------------------
(* The invariant.                                                          *)

RInv == /\ RepliesTypeOK
        /\ Settled(out, Found)
        /\ out # <<>> => Found # <<>>
        /\ RepliesScan
        /\ RepliesMatch
        /\ TimeIsEchoed

\* Before the first reply.
LEMMA InitRInv == RepliesInit => RInv
<1> SUFFICES ASSUME RepliesInit PROVE RInv
  OBVIOUS
<1>1. out = <<>> /\ asked = <<>> /\ authed = FALSE
  BY DEF RepliesInit
<1>2. PacketsOf(<<>>) = <<>>
  BY NothingIsSettled, SettledIsFound, EmptySeq
<1>3. Found = <<>>
  BY <1>1, <1>2 DEF Found
<1>4. RepliesTypeOK
  <2>1. Len(out) = 0 /\ Len(asked) = 0
    BY <1>1
  <2>2. Len(out) <= Len(asked) * (HeaderSize + 9 + 1)
    BY <2>1, HeaderAssumption
  <2>3. Len(asked) <= MaxReplies
    BY <2>1, InputAssumption
  <2>4. out \in Seq(Byte) /\ asked \in Seq([command : Byte, vin : Seq(Byte), time : Seq(Byte)])
    BY <1>1, EmptySeq
  <2> QED BY <1>1, <2>2, <2>3, <2>4 DEF RepliesTypeOK
<1>5. RepliesScan
  BY <1>1, <1>3 DEF RepliesScan
<1>6. RepliesMatch /\ TimeIsEchoed
  BY <1>1 DEF RepliesMatch, TimeIsEchoed
<1> QED BY <1>1, <1>3, <1>4, <1>5, <1>6, NothingIsSettled DEF RInv

\* A reply that fits its request.
LEMMA AnswerKeepsRInv ==
    ASSUME RInv, NEW pkt \in Packets, NEW flag \in {Success, Fail}, NEW data,
           FitsRequest(data, flag, pkt), Answer(pkt, flag, data), authed' \in BOOLEAN
    PROVE  RInv'
<1> DEFINE f == Replied(pkt.command, flag, pkt.vin, data)
           ask == [command |-> pkt.command, vin |-> pkt.vin, time |-> RequestTime(pkt)]
           new == [at |-> Len(out) + 1, packet |-> f]
           n == Len(asked)
           P == Found
           Q == Append(P, new)
<1>1. /\ out \in Seq(Byte) /\ Len(out) \in Nat
      /\ asked \in Seq([command : Byte, vin : Seq(Byte), time : Seq(Byte)])
      /\ n \in Nat /\ P \in Seq(Records) /\ Len(P) = n
  <2>1. out \in Seq(Byte) /\ asked \in Seq([command : Byte, vin : Seq(Byte), time : Seq(Byte)])
    BY DEF RInv, RepliesTypeOK
  <2>2. Len(out) \in Nat /\ n \in Nat /\ 1 \in 1 .. Len(out) + 1
    BY <2>1, LenProperties
  <2>3. P \in Seq(Records)
    BY <2>1, <2>2, PacketsFromType DEF Found, PacketsOf
  <2>4. Len(P) = n
    BY DEF RInv, RepliesScan
  <2> QED BY <2>1, <2>2, <2>3, <2>4
<1>2. /\ pkt.command \in Byte /\ pkt.vin \in Vins /\ pkt.data \in Seq(Byte)
      /\ data \in Seq(Byte) /\ Len(data) \in Nat /\ Len(data) <= 9
      /\ RequestTime(pkt) \in Seq(Byte)
  BY PacketFacts, RequestTimeFacts, LenProperties DEF FitsRequest
<1>3. /\ n < MaxReplies
      /\ out' = out \o f
      /\ asked' = Append(asked, ask)
  BY DEF Answer, Replied
<1> HIDE DEF f
<1>4. /\ f \in Seq(Byte) /\ Len(f) = HeaderSize + Len(data) + 1
      /\ Complete(f) /\ Packet(f) = f /\ VerifyChecksum(f)
      /\ parseRawPacket(f) = [command |-> pkt.command, response |-> flag, vin |-> pkt.vin,
                              encryption |-> 1, data |-> data]
  BY <1>2, ReplyFacts DEF f
<1>5. HeaderSize \in Nat /\ HeaderSize >= 4 /\ Len(f) \in Nat /\ Len(f) >= 1
  BY <1>2, <1>4, HeaderAssumption
<1>6. IsJoined(out', out, f)
  BY <1>1, <1>3, <1>4, Joined
<1>7. out' \in Seq(Byte) /\ Len(out') = Len(out) + Len(f) /\ out' # <<>>
  <2>1. out' \in Seq(Byte) /\ Len(out') = Len(out) + Len(f)
    BY <1>6 DEF IsJoined
  <2> QED BY <1>1, <1>5, <2>1
<1>8. ask \in [command : Byte, vin : Seq(Byte), time : Seq(Byte)]
  BY <1>2 DEF Vins
<1>9. new \in Records
  BY <1>1, <1>4 DEF Records
<1> HIDE DEF P
<1>10. Settled(out', Q)
  <2>1. Settled(out, P)
    BY DEF RInv, P
  <2>2. Settled(out \o f, Append(P, [at |-> Len(out) + 1, packet |-> f]))
    BY <1>1, <1>4, <2>1, FrameIsFound
  <2> QED BY <1>3, <2>2
<1>11. new.at = Len(out) + 1 /\ new.packet = f
  OBVIOUS
<1>12. ask.command = pkt.command /\ ask.vin = pkt.vin /\ ask.time = RequestTime(pkt)
  OBVIOUS
<1> HIDE DEF new, ask, n
<1>13. /\ Q \in Seq(Records) /\ Len(Q) = n + 1 /\ DOMAIN Q = 1 .. n + 1
       /\ \A k \in 1 .. n : Q[k] = P[k]
       /\ Q[n + 1] = new
  BY <1>1, <1>9, AppendProperties, LenProperties
<1>14. /\ asked' \in Seq([command : Byte, vin : Seq(Byte), time : Seq(Byte)])
       /\ Len(asked') = n + 1 /\ DOMAIN asked' = 1 .. n + 1
       /\ \A k \in 1 .. n : asked'[k] = asked[k]
       /\ asked'[n + 1] = ask
  BY <1>1, <1>3, <1>8, AppendProperties, LenProperties DEF n
<1> HIDE DEF Q
<1>15. Found' = Q
  <2>1. PacketsOf(out') = Q
    BY <1>7, <1>10, <1>13, SettledIsFound
  <2> QED BY <2>1 DEF Found
<1>16. n + 1 >= 1 /\ \A k \in 1 .. n + 1 : k \in 1 .. n \/ k = n + 1
  BY <1>1
<1>17. RepliesTypeOK'
  <2> DEFINE most == HeaderSize + 9 + 1
  <2>1. Len(out) <= n * most
    BY DEF RInv, RepliesTypeOK, n
  <2>2. most \in Nat /\ Len(f) <= most
    BY <1>2, <1>4, <1>5
  <2> HIDE DEF most
  <2>3. n * most \in Nat /\ (n + 1) * most = n * most + most
    BY <1>1, <2>2
  <2>4. Len(out') <= (n + 1) * most
    BY <1>1, <1>5, <1>7, <2>1, <2>2, <2>3
  <2>5. n + 1 <= MaxReplies
    BY <1>1, <1>3, InputAssumption
  <2> QED BY <1>7, <1>14, <2>4, <2>5 DEF RepliesTypeOK, most
<1>18. RepliesScan'
  <2>1. ASSUME NEW k \in 1 .. n + 1
        PROVE  Q[k].at + Len(Q[k].packet) = IF k = n + 1 THEN Len(out') + 1 ELSE Q[k + 1].at
    <3>1. CASE k = n + 1
      BY <1>1, <1>5, <1>7, <1>11, <1>13, <3>1
    <3>2. CASE k \in 1 .. n
      <4> HIDE DEF P
      <4>1. P[k].at + Len(P[k].packet) = IF k = n THEN Len(out) + 1 ELSE P[k + 1].at
        <5>1. k \in DOMAIN P
          BY <1>1, <3>2, LenProperties
        <5> QED BY <1>1, <5>1 DEF RInv, RepliesScan, P
      <4>2. CASE k = n
        <5>1. Q[k + 1] = new /\ Q[k] = P[k] /\ k # n + 1
          BY <1>1, <1>13, <3>2, <4>2
        <5> QED BY <1>11, <4>1, <4>2, <5>1
      <4>3. CASE k # n
        <5>1. k + 1 \in 1 .. n
          BY <1>1, <3>2, <4>3
        <5>2. Q[k + 1] = P[k + 1] /\ Q[k] = P[k] /\ k # n + 1
          BY <1>1, <1>13, <3>2, <5>1
        <5> QED BY <4>1, <4>3, <5>2
      <4> QED BY <4>2, <4>3
    <3> QED BY <1>16, <3>1, <3>2
  <2>2. Q[1].at = 1
    <3>1. CASE out = <<>>
      <4>1. P = <<>>
        BY <3>1, NothingIsSettled, SettledIsFound, EmptySeq DEF P, Found
      <4>2. n = 0 /\ Len(out) = 0
        BY <1>1, <3>1, <4>1
      <4> QED BY <1>11, <1>13, <4>2
    <3>2. CASE out # <<>>
      <4>1. P # <<>> /\ P[1].at = 1
        BY <3>2 DEF RInv, RepliesScan, P
      <4>2. 1 \in 1 .. n
        BY <1>1, <4>1, EmptySeq
      <4> QED BY <1>13, <4>1, <4>2
    <3> QED BY <3>1, <3>2
  <2> QED BY <1>13, <1>14, <1>15, <2>1, <2>2 DEF RepliesScan
<1>19. \A k \in 1 .. n : Reply(k)' = Reply(k) /\ asked'[k] = asked[k]
  BY <1>13, <1>14, <1>15 DEF Reply, P
<1>20. ASSUME NEW k \in Nat, k = n + 1
       PROVE  /\ Reply(k)' = [command |-> pkt.command, response |-> flag, vin |-> pkt.vin,
                               encryption |-> 1, data |-> data]
              /\ asked'[k] = ask
  BY <1>4, <1>11, <1>13, <1>14, <1>15, <1>20 DEF Reply
<1>21. \A k \in 1 .. n : k \in DOMAIN asked
  BY <1>1, LenProperties DEF n
<1>22. RepliesMatch'
  <2> SUFFICES ASSUME NEW k \in 1 .. n + 1
               PROVE  /\ (Reply(k)').command = asked'[k].command
                      /\ (Reply(k)').vin = asked'[k].vin
                      /\ (Reply(k)').response # Request
                      /\ Len((Reply(k)').data) = 9 => Last((Reply(k)').data) = (Reply(k)').response
    BY <1>14 DEF RepliesMatch
  <2>1. CASE k = n + 1
    <3>1. k \in Nat
      BY <1>1
    <3>2. Len(data) = 9 => Last(data) = flag
      BY DEF FitsRequest
    <3> QED BY <1>12, <1>20, <2>1, <3>1, <3>2, FlagAssumption
  <2>2. CASE k \in 1 .. n
    <3>1. /\ Reply(k).command = asked[k].command
          /\ Reply(k).vin = asked[k].vin
          /\ Reply(k).response # Request
          /\ Len(Reply(k).data) = 9 => Last(Reply(k).data) = Reply(k).response
      BY <1>21, <2>2 DEF RInv, RepliesMatch
    <3> QED BY <1>19, <2>2, <3>1
  <2> QED BY <1>16, <2>1, <2>2
<1>23. TimeIsEchoed'
  <2> SUFFICES ASSUME NEW k \in 1 .. n + 1
               PROVE  \/ SubSeq((Reply(k)').data, 1, 6) = asked'[k].time
                      \/ /\ asked'[k].command = CmdVehicleLogin
                         /\ (Reply(k)').response = Fail
                         /\ Len(asked'[k].time) < 6
    BY <1>14 DEF TimeIsEchoed
  <2>1. CASE k = n + 1
    <3>1. k \in Nat
      BY <1>1
    <3>2. \/ SubSeq(data, 1, 6) = RequestTime(pkt)
          \/ pkt.command = CmdVehicleLogin /\ flag = Fail /\ Len(RequestTime(pkt)) < 6
      BY DEF FitsRequest
    <3> QED BY <1>12, <1>20, <2>1, <3>1, <3>2
  <2>2. CASE k \in 1 .. n
    <3>1. \/ SubSeq(Reply(k).data, 1, 6) = asked[k].time
          \/ /\ asked[k].command = CmdVehicleLogin
             /\ Reply(k).response = Fail
             /\ Len(asked[k].time) < 6
      BY <1>21, <2>2 DEF RInv, TimeIsEchoed
    <3> QED BY <1>19, <2>2, <3>1
  <2> QED BY <1>16, <2>1, <2>2
<1>24. Found' # <<>>
  BY <1>1, <1>13, <1>15
<1>25. Settled(out, Found)'
  BY <1>10, <1>15 DEF Settled
<1> QED BY <1>17, <1>18, <1>22, <1>23, <1>24, <1>25 DEF RInv

\* Every step of the handler.
LEMMA NextKeepsRInv == RInv /\ [RepliesNext]_repliesVars => RInv'
<1> SUFFICES ASSUME RInv, [RepliesNext]_repliesVars PROVE RInv'
  OBVIOUS
<1>1. ASSUME NEW pkt \in Packets, PlatformLoginAccepted(pkt) PROVE RInv'
  <2>1. Len(pkt.data) >= 6
    <3>1. Len(pkt.data) \in Nat
      BY PacketFacts, LenProperties
    <3> QED BY <1>1, <3>1 DEF PlatformLoginAccepted, IsPlatformLogin
  <2>2. FitsRequest(BuildGeneralResponse(pkt), Success, pkt)
    BY <2>1, GeneralResponseFits
  <2> QED BY <1>1, <2>2, AnswerKeepsRInv DEF PlatformLoginAccepted
<1>2. ASSUME NEW pkt \in Packets, PlatformLoginRejected(pkt) PROVE RInv'
  <2>1. Len(pkt.data) >= 6
    <3>1. Len(pkt.data) \in Nat
      BY PacketFacts, LenProperties
    <3> QED BY <1>2, <3>1 DEF PlatformLoginRejected, IsPlatformLogin
  <2>2. FitsRequest(BuildGeneralResponse(pkt), Fail, pkt)
    BY <2>1, GeneralResponseFits
  <2>3. authed' \in BOOLEAN
    BY <1>2 DEF PlatformLoginRejected, RInv, RepliesTypeOK
  <2> QED BY <1>2, <2>2, <2>3, AnswerKeepsRInv DEF PlatformLoginRejected
<1>3. ASSUME NEW pkt \in Packets, VehicleLoginRefused(pkt) PROVE RInv'
  <2>1. FitsRequest(BuildVehicleLoginResponse(pkt, Fail), Fail, pkt)
    BY <1>3, LoginResponseFits DEF VehicleLoginRefused
  <2>2. authed' \in BOOLEAN
    BY <1>3 DEF VehicleLoginRefused, RInv, RepliesTypeOK
  <2> QED BY <1>3, <2>1, <2>2, AnswerKeepsRInv DEF VehicleLoginRefused
<1>4. ASSUME NEW pkt \in Packets, VehicleLogin(pkt) PROVE RInv'
  <2>1. Len(pkt.data) >= 6
    <3>1. Len(pkt.data) \in Nat
      BY PacketFacts, LenProperties
    <3> QED BY <1>4, <3>1 DEF VehicleLogin
  <2>2. FitsRequest(BuildVehicleLoginResponse(pkt, Success), Success, pkt)
    BY <2>1, LoginResponseFits
  <2>3. authed' \in BOOLEAN
    BY <1>4 DEF VehicleLogin, RInv, RepliesTypeOK
  <2> QED BY <1>4, <2>2, <2>3, AnswerKeepsRInv DEF VehicleLogin
<1>5. ASSUME NEW pkt \in Packets, Logout(pkt) PROVE RInv'
  <2>1. Len(pkt.data) >= 6
    <3>1. Len(pkt.data) \in Nat
      BY PacketFacts, LenProperties
    <3> QED BY <1>5, <3>1 DEF Logout
  <2>2. FitsRequest(BuildVehicleLoginResponse(pkt, Success), Success, pkt)
    BY <2>1, LoginResponseFits
  <2>3. authed' \in BOOLEAN
    BY <1>5 DEF Logout, RInv, RepliesTypeOK
  <2> QED BY <1>5, <2>2, <2>3, AnswerKeepsRInv DEF Logout
<1>6. ASSUME NEW pkt \in Packets, RealTime(pkt) PROVE RInv'
  <2>1. FitsRequest(BuildGeneralResponse(pkt), Success, pkt)
    BY <1>6, GeneralResponseFits DEF RealTime
  <2>2. authed' \in BOOLEAN
    BY <1>6 DEF RealTime, RInv, RepliesTypeOK
  <2> QED BY <1>6, <2>1, <2>2, AnswerKeepsRInv DEF RealTime
<1>7. ASSUME UNCHANGED repliesVars PROVE RInv'
  BY <1>7 DEF repliesVars, RInv, RepliesTypeOK, Settled, Found, RepliesScan, RepliesMatch,
              TimeIsEchoed, Reply
<1>8. ASSUME NEW pkt \in Packets, Unanswered(pkt) PROVE RInv'
  BY <1>7, <1>8 DEF Unanswered
<1> QED
  BY <1>1, <1>2, <1>3, <1>4, <1>5, <1>6, <1>7, <1>8 DEF RepliesNext, HandleMessage

\* The invariant holds.
LEMMA RepliesInvariant == RepliesSpec => []RInv
  BY InitRInv, NextKeepsRInv, PTL DEF RepliesSpec

\* What is written is bytes, and no more of them than the answers need.
THEOREM RepliesTypeCorrect == RepliesSpec => []RepliesTypeOK
<1>1. RInv => RepliesTypeOK
  BY DEF RInv
<1> QED BY <1>1, RepliesInvariant, PTL

\* Whatever start marks the echoed bytes contain, the peer that scans the
\* replies as SplitFunc (decoder.go) does finds one packet for each of them,
\* back to back and nothing besides (packet_encoder.go).
THEOREM RepliesAreFound == RepliesSpec => []RepliesScan
<1>1. RInv => RepliesScan
  BY DEF RInv
<1> QED BY <1>1, RepliesInvariant, PTL

\* Read back by parseRawPacket (tcp_server.go), each reply names the command
\* and the vehicle of its request and carries its flag as its result.
THEOREM RepliesAreMatched == RepliesSpec => []RepliesMatch
<1>1. RInv => RepliesMatch
  BY DEF RInv
<1> QED BY <1>1, RepliesInvariant, PTL

\* The builders' own clock (response_builder.go:17) stands in for the time of
\* nothing but a vehicle login that is refused and too short to have a time.
THEOREM TimesAreEchoed == RepliesSpec => []TimeIsEchoed
<1>1. RInv => TimeIsEchoed
  BY DEF RInv
<1> QED BY <1>1, RepliesInvariant, PTL

-----------------------------------------------------------------------------
(* Replies and scanner together.                                           *)

\* When all that was written has arrived and been scanned, in whatever
\* segments, the peer has one packet for every answer, and the right one.
ReadBack ==
    ~scanning /\ stream = out =>
        /\ Len(delivered) = Len(asked)
        /\ \A k \in DOMAIN asked :
               LET reply == parseRawPacket(delivered[k].packet)
               IN  reply.command = asked[k].command /\ reply.vin = asked[k].vin

\* A peer that runs the gateway's own OnTraffic (tcp_server.go:115) on what
\* the gateway writes reads every reply.
THEOREM RepliesAreReadBack == RepliesSpec /\ Spec => []ReadBack
<1>1. RepliesScan /\ RepliesMatch /\ SegmentationIndependence => ReadBack
  BY DEF RepliesScan, RepliesMatch, SegmentationIndependence, ReadBack, Reply, Found
<1> QED BY <1>1, RepliesAreFound, RepliesAreMatched, SegmentationDoesNotMatter, PTL
=============================================================================
