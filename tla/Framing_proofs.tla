---------------------------- MODULE Framing_proofs ----------------------------
(***************************************************************************)
(* Frames arrive, for all messages, rings and queues.                      *)
(*                                                                         *)
(* First what the terminal makes of a message: its bits and its packet,    *)
(* the checksum (SentPacketsValidate) and the line with the zeros put in.  *)
(* Then the interrupt: types, the ring, and each bit of a frame (InFrame,  *)
(* FrameStep).  Last the numbers of the frames that the packets are, which *)
(* no operation brings out of order (NumberInv).                           *)
(***************************************************************************)
EXTENDS Framing, SequenceTheorems, TLAPS

\* The folds of the model, each with the operator it folds.
Stepping == INSTANCE Folding WITH op <- Step
Inserting == INSTANCE Folding WITH op <- InsertZero
Checking == INSTANCE Folding WITH op <- LookUpByte

\* The folds of the model are those of the instances.
LEMMA FoldsAgree ==
    ASSUME NEW base, NEW seq
    PROVE  /\ FoldLeft(Step, base, seq) = Stepping!Folded(base, seq)
           /\ FoldLeft(InsertZero, base, seq) = Inserting!Folded(base, seq)
           /\ FoldLeft(LookUpByte, base, seq) = Checking!Folded(base, seq)
<1>1. FoldLeft(Step, base, seq) = Stepping!Folded(base, seq)
  BY DEF FoldLeft, MapThenFoldSet, Max, Stepping!Folded, Stepping!FoldLeft,
         Stepping!MapThenFoldSet, Stepping!Max
<1>2. FoldLeft(InsertZero, base, seq) = Inserting!Folded(base, seq)
  BY DEF FoldLeft, MapThenFoldSet, Max, Inserting!Folded, Inserting!FoldLeft,
         Inserting!MapThenFoldSet, Inserting!Max
<1>3. FoldLeft(LookUpByte, base, seq) = Checking!Folded(base, seq)
  BY DEF FoldLeft, MapThenFoldSet, Max, Checking!Folded, Checking!FoldLeft,
         Checking!MapThenFoldSet, Checking!Max
<1> QED
  BY <1>1, <1>2, <1>3

LEMMA FunctionIsSeq ==
    ASSUME NEW S, NEW n \in Nat, NEW f \in [1..n -> S]
    PROVE  f \in Seq(S) /\ Len(f) = n
OBVIOUS

\* Sequences of bits, and one after another.
Words(n) == [1..n -> Bit]
IsJoined(h, f, n, g, k) ==
    /\ h \in Words(n + k)
    /\ \A i \in 1..n : h[i] = f[i]
    /\ \A i \in 1..k : h[n + i] = g[i]

LEMMA Joined ==
    ASSUME NEW n \in Nat, NEW k \in Nat, NEW f \in Words(n), NEW g \in Words(k)
    PROVE  IsJoined(f \o g, f, n, g, k)
<1>1. f \in Seq(Bit) /\ Len(f) = n /\ g \in Seq(Bit) /\ Len(g) = k
  BY FunctionIsSeq DEF Words
<1>2. /\ f \o g \in Seq(Bit) /\ Len(f \o g) = n + k
      /\ \A i \in 1..(n + k) : (f \o g)[i] = IF i <= n THEN f[i] ELSE g[i - n]
  BY <1>1, ConcatProperties
<1> DEFINE h == f \o g
<1> HIDE DEF h
<1>3. h \in [1..(n + k) -> Bit]
  <2>1. h \in Seq(Bit) /\ Len(h) = n + k
    BY <1>2 DEF h
  <2> QED
    BY <2>1, LenProperties
<1>4. ASSUME NEW i \in 1..n PROVE h[i] = f[i]
  BY <1>2 DEF h
<1>5. ASSUME NEW i \in 1..k PROVE h[n + i] = g[i]
  <2>1. n + i \in 1..(n + k) /\ ~(n + i <= n) /\ (n + i) - n = i
    OBVIOUS
  <2> QED
    BY <1>2, <2>1 DEF h
<1> QED
  BY <1>3, <1>4, <1>5 DEF h, IsJoined, Words

--------------------------------------------------------------------------------
(***************************************************************************)
(* Octets and their bits.                                                  *)
(***************************************************************************)
Octets == 0..255

\* What a message is with its checksum, as bits.
Size(m) == Len(m) + 2
Total(m) == 8 * Size(m)
Data(m) == CalculateCRC(Bits(m))

\* The octet of eight bits, the lowest first.
Octet(b, c, d, e, f, g, h, i) ==
    b + 2 * c + 4 * d + 8 * e + 16 * f + 32 * g + 64 * h + 128 * i

\* The bits of an octet made of bits.
HasBits(octet, b, c, d, e, f, g, h, i) ==
    /\ octet \in Octets
    /\ octet % 2 = b /\ (octet \div 2) % 2 = c
    /\ (octet \div 4) % 2 = d /\ (octet \div 8) % 2 = e
    /\ (octet \div 16) % 2 = f /\ (octet \div 32) % 2 = g
    /\ (octet \div 64) % 2 = h /\ (octet \div 128) % 2 = i

LEMMA BitsOfOctet ==
    \A b, c, d, e, f, g, h, i \in Bit :
        HasBits(Octet(b, c, d, e, f, g, h, i), b, c, d, e, f, g, h, i)
BY DEF Octet, Octets, Bit, HasBits

\* A message with its checksum, as the interrupt puts it into the ring.
Packet(m) ==
    [j \in 1..Size(m) |->
        LET at == 8 * (j - 1) IN
        Octet(Data(m)[at + 1], Data(m)[at + 2], Data(m)[at + 3], Data(m)[at + 4],
              Data(m)[at + 5], Data(m)[at + 6], Data(m)[at + 7], Data(m)[at + 8])]

\* The bits of an octet make it.
LEMMA OctetOfBits ==
    ASSUME NEW octet \in Octets
    PROVE  octet = Octet(octet % 2, (octet \div 2) % 2, (octet \div 4) % 2,
                         (octet \div 8) % 2, (octet \div 16) % 2, (octet \div 32) % 2,
                         (octet \div 64) % 2, (octet \div 128) % 2)
BY DEF Octet, Octets

LEMMA ByteBitsAre ==
    ASSUME NEW octet \in Octets
    PROVE  /\ ByteBits(octet) \in [1..8 -> Bit]
           /\ ByteBits(octet)[1] = octet % 2
           /\ ByteBits(octet)[2] = (octet \div 2) % 2
           /\ ByteBits(octet)[3] = (octet \div 4) % 2
           /\ ByteBits(octet)[4] = (octet \div 8) % 2
           /\ ByteBits(octet)[5] = (octet \div 16) % 2
           /\ ByteBits(octet)[6] = (octet \div 32) % 2
           /\ ByteBits(octet)[7] = (octet \div 64) % 2
           /\ ByteBits(octet)[8] = (octet \div 128) % 2
BY DEF ByteBits, Weight, Bit, Octets

--------------------------------------------------------------------------------
(***************************************************************************)
(* The register of the checksum.                                           *)
(***************************************************************************)
Registers == [0..15 -> Bit]

LEMMA StepType ==
    ASSUME NEW crc \in Registers, NEW data \in Bit PROVE Step(crc, data) \in Registers
<1>1. (data + crc[15]) % 2 \in Bit
  BY DEF Registers, Bit
<1>2. ASSUME NEW i \in 0..15, i # 0 PROVE crc[i - 1] \in Bit
  BY <1>2 DEF Registers
<1>3. \A x, y \in Bit : (x + y) % 2 \in Bit
  BY DEF Bit
<1> QED
  BY <1>1, <1>2, <1>3 DEF Step, Registers

\* The register after a sequence of bits.
Register(crc, seq) == FoldLeft(Step, crc, seq)

LEMMA RegisterType ==
    ASSUME NEW crc \in Registers, NEW n \in Nat, NEW seq \in [1..n -> Bit]
    PROVE  Register(crc, seq) \in Registers
<1>1. Stepping!Folded(crc, seq) \in Registers
  BY StepType, Stepping!FoldKeeps
<1> QED
  BY <1>1, FoldsAgree DEF Register

LEMMA PresetType == Preset \in Registers
BY DEF Preset, Registers, Bit

LEMMA BitsType ==
    ASSUME NEW m \in Messages
    PROVE  /\ Bits(m) \in [1..(8 * Len(m)) -> Bit] /\ Len(m) \in Nat
           /\ \A j \in 1..Len(m), i \in 1..8 :
                 Bits(m)[8 * (j - 1) + i] = ByteBits(m[j])[i]
<1>1. m \in Seq(Octets) /\ Len(m) \in Nat
  BY MessagesAssumption DEF Octets
<1>2. ASSUME NEW i \in 1..(8 * Len(m))
      PROVE  (((i - 1) \div 8) + 1) \in 1..Len(m) /\ ((i - 1) % 8) + 1 \in 1..8
  BY <1>1
<1>3. ASSUME NEW i \in 1..(8 * Len(m))
      PROVE  ByteBits(m[((i - 1) \div 8) + 1])[((i - 1) % 8) + 1] \in Bit
  <2>1. m[((i - 1) \div 8) + 1] \in Octets
    BY <1>1, <1>2
  <2> QED
    BY <1>2, <2>1, ByteBitsAre
<1>4. ASSUME NEW j \in 1..Len(m), NEW i \in 1..8
      PROVE  Bits(m)[8 * (j - 1) + i] = ByteBits(m[j])[i]
  <2> DEFINE at == 8 * (j - 1) + i
  <2>1. at \in 1..(8 * Len(m)) /\ ((at - 1) \div 8) + 1 = j /\ ((at - 1) % 8) + 1 = i
    BY <1>1
  <2>2. at = 8 * (j - 1) + i
    OBVIOUS
  <2> HIDE DEF at
  <2> QED
    BY <2>1, <2>2 DEF Bits
<1> QED
  BY <1>1, <1>3, <1>4 DEF Bits

\* The bits that are sent: those of the message, and the register inverted, its
\* highest bit first.
LEMMA DataBits ==
    ASSUME NEW m \in Messages
    PROVE  /\ Size(m) \in Nat /\ Size(m) >= 2 /\ Size(m) < MaxPacket
           /\ Data(m) \in [1..Total(m) -> Bit]
           /\ \A i \in 1..(8 * Len(m)) : Data(m)[i] = Bits(m)[i]
           /\ \A t \in 1..16 : Data(m)[8 * Len(m) + t] = 1 - Register(Preset, Bits(m))[16 - t]
<1> DEFINE crc == Register(Preset, Bits(m))
           check == [t \in 1..16 |-> 1 - crc[16 - t]]
<1>1. Bits(m) \in [1..(8 * Len(m)) -> Bit] /\ Len(m) \in Nat
  BY BitsType
<1>2. crc \in Registers
  BY <1>1, PresetType, RegisterType
<1>3. check \in [1..16 -> Bit]
  BY <1>2 DEF Registers, Bit
<1>4. Data(m) = Bits(m) \o check
  BY DEF Data, CalculateCRC, Register
<1>5. \A t \in 1..16 : check[t] = 1 - crc[16 - t]
  OBVIOUS
<1>6. Size(m) \in Nat /\ Size(m) >= 2 /\ Size(m) < MaxPacket /\ Total(m) = 8 * Len(m) + 16
  BY <1>1, MessagesAssumption DEF Size, Total
<1> HIDE DEF crc, check
<1>7. /\ Data(m) \in [1..Total(m) -> Bit]
      /\ \A i \in 1..(8 * Len(m)) : Data(m)[i] = Bits(m)[i]
      /\ \A t \in 1..16 : Data(m)[8 * Len(m) + t] = check[t]
  <2> DEFINE n == 8 * Len(m)
             k == 16
  <2>1. /\ n \in Nat /\ k \in Nat /\ Total(m) = n + k
        /\ Bits(m) \in Words(n) /\ check \in Words(k)
    BY <1>1, <1>3, <1>6 DEF Words
  <2> HIDE DEF n, k
  <2>2. IsJoined(Bits(m) \o check, Bits(m), n, check, k)
    BY <2>1, Joined
  <2> QED
    BY <1>4, <2>1, <2>2 DEF n, k, IsJoined, Words
<1> QED
  BY <1>5, <1>6, <1>7 DEF crc

\* The octets of a packet have the bits that are sent, and begin with the message.
LEMMA PacketOctets ==
    ASSUME NEW m \in Messages
    PROVE  /\ Packet(m) \in [1..Size(m) -> Octets]
           /\ \A j \in 1..Size(m), i \in 1..8 :
                 Data(m)[8 * (j - 1) + i] = ByteBits(Packet(m)[j])[i]
           /\ \A j \in 1..Len(m) : Packet(m)[j] = m[j]
<1>1. /\ Size(m) \in Nat /\ Size(m) = Len(m) + 2 /\ Len(m) \in Nat
      /\ Data(m) \in [1..(8 * Size(m)) -> Bit]
  BY DataBits, BitsType DEF Size, Total
<1>2. ASSUME NEW j \in 1..Size(m)
      PROVE  /\ Packet(m)[j] \in Octets
             /\ \A i \in 1..8 : Data(m)[8 * (j - 1) + i] = ByteBits(Packet(m)[j])[i]
             /\ j <= Len(m) => Packet(m)[j] = m[j]
  <2> DEFINE at == 8 * (j - 1)
             bit == [i \in 1..8 |-> Data(m)[at + i]]
             octet == Octet(bit[1], bit[2], bit[3], bit[4], bit[5], bit[6], bit[7], bit[8])
  <2>1. Packet(m)[j] = octet
    BY DEF Packet
  <2>2. \A i \in 1..8 : at + i \in 1..(8 * Size(m))
    BY <1>1
  <2>3. \A i \in 1..8 : bit[i] = Data(m)[at + i] /\ bit[i] \in Bit
    BY <1>1, <2>2
  <2> HIDE DEF bit
  <2>4. HasBits(octet, bit[1], bit[2], bit[3], bit[4], bit[5], bit[6], bit[7], bit[8])
    <3>1. /\ bit[1] \in Bit /\ bit[2] \in Bit /\ bit[3] \in Bit /\ bit[4] \in Bit
          /\ bit[5] \in Bit /\ bit[6] \in Bit /\ bit[7] \in Bit /\ bit[8] \in Bit
      BY <2>3
    <3>2. octet = Octet(bit[1], bit[2], bit[3], bit[4], bit[5], bit[6], bit[7], bit[8])
      OBVIOUS
    <3> HIDE DEF octet
    <3> QED
      BY <3>1, <3>2, BitsOfOctet
  <2>5. ASSUME j <= Len(m) PROVE octet = m[j]
    <3>1. j \in 1..Len(m)
      BY <1>1, <2>5
    <3>2. m[j] \in Octets
      <4>1. m \in Seq(Octets)
        BY MessagesAssumption DEF Octets
      <4> QED
        BY <3>1, <4>1, ElementOfSeq
    <3>3. \A i \in 1..8 : bit[i] = ByteBits(m[j])[i]
      <4>1. \A i \in 1..8 : at + i \in 1..(8 * Len(m))
        BY <1>1, <3>1
      <4> QED
        BY <2>3, <3>1, <4>1, DataBits, BitsType
    <3>4. octet = Octet(m[j] % 2, (m[j] \div 2) % 2, (m[j] \div 4) % 2,
                        (m[j] \div 8) % 2, (m[j] \div 16) % 2, (m[j] \div 32) % 2,
                        (m[j] \div 64) % 2, (m[j] \div 128) % 2)
      BY <3>2, <3>3, ByteBitsAre
    <3> QED
      BY <3>2, <3>4, OctetOfBits
  <2>6. \A i \in 1..8 : bit[i] = ByteBits(octet)[i]
    <3> HIDE DEF octet
    <3>1. \A i \in 1..8 : i = 1 \/ i = 2 \/ i = 3 \/ i = 4 \/ i = 5 \/ i = 6 \/ i = 7 \/ i = 8
      OBVIOUS
    <3> QED
      BY <2>4, <3>1, ByteBitsAre DEF HasBits
  <2> QED
    BY <2>1, <2>3, <2>4, <2>5, <2>6 DEF HasBits
<1>3. DOMAIN Packet(m) = 1..Size(m)
  BY DEF Packet
<1>4. Packet(m) = [j \in 1..Size(m) |-> Packet(m)[j]]
  BY DEF Packet
<1> QED
  BY <1>1, <1>2, <1>4


\* Bits added.
Xor(x, y) == (x + y) % 2

\* Two registers added bit by bit, and a register moved up by some bits.
Added(crc, other) == [i \in 0..15 |-> Xor(crc[i], other[i])]
Moved(crc, t) == [i \in 0..15 |-> IF i >= t THEN crc[i - t] ELSE 0]
Zeros == [i \in 0..15 |-> 0]

LEMMA BitSums ==
    /\ \A x, y \in Bit : Xor(x, y) \in Bit
    /\ \A x, y, z, w \in Bit : Xor(Xor(x, y), Xor(z, w)) = Xor(Xor(x, z), Xor(y, w))
    /\ \A x \in Bit : Xor(x, x) = 0 /\ Xor(x, 0) = x /\ Xor(0, x) = x
BY DEF Bit, Xor

LEMMA RegisterBits ==
    ASSUME NEW crc \in Registers
    PROVE  /\ \A i \in 0..15 : crc[i] \in Bit
           /\ \A i \in 0..15 : i # 0 => crc[i - 1] \in Bit
           /\ crc[15] \in Bit
           /\ crc = [i \in 0..15 |-> crc[i]]
BY DEF Registers

LEMMA SumType ==
    ASSUME NEW crc \in Registers, NEW other \in Registers PROVE Added(crc, other) \in Registers
BY BitSums, RegisterBits DEF Registers, Added

\* A step of a sum is the sum of the steps.
LEMMA StepIs ==
    ASSUME NEW crc \in Registers, NEW data \in Bit
    PROVE  /\ Step(crc, data) = [i \in 0..15 |-> Step(crc, data)[i]]
           /\ Step(crc, data)[0] = Xor(data, crc[15])
           /\ \A i \in {5, 12} : Step(crc, data)[i] = Xor(crc[i - 1], Xor(data, crc[15]))
           /\ \A i \in (1..15) \ {5, 12} : Step(crc, data)[i] = crc[i - 1]
BY DEF Step, Xor

LEMMA StepOfSum ==
    ASSUME NEW crc \in Registers, NEW other \in Registers, NEW data \in Bit, NEW more \in Bit
    PROVE  Step(Added(crc, other), Xor(data, more)) = Added(Step(crc, data), Step(other, more))
<1> DEFINE sum == Added(crc, other)
           both == Xor(data, more)
           after == Step(crc, data)
           next == Step(other, more)
<1>1. sum \in Registers /\ both \in Bit /\ crc[15] \in Bit /\ other[15] \in Bit
  BY SumType, BitSums, RegisterBits
<1>2. \A i \in 0..15 : sum[i] = Xor(crc[i], other[i])
  BY DEF Added
<1>3. Xor(both, sum[15]) = Xor(Xor(data, crc[15]), Xor(more, other[15]))
  BY <1>1, <1>2, BitSums
<1> HIDE DEF sum, after, next
<1>4. ASSUME NEW i \in 0..15
      PROVE  Step(sum, both)[i] = Xor(after[i], next[i])
  <2>1. CASE i = 0
    BY <1>1, <1>3, <2>1, StepIs DEF after, next
  <2>2. CASE i \in {5, 12}
    <3>1. /\ crc[i - 1] \in Bit /\ other[i - 1] \in Bit
          /\ sum[i - 1] = Xor(crc[i - 1], other[i - 1])
          /\ Xor(data, crc[15]) \in Bit /\ Xor(more, other[15]) \in Bit
      <4>1. i - 1 \in 0..15 /\ i # 0
        BY <2>2
      <4> QED
        BY <1>1, <1>2, <4>1, RegisterBits, BitSums
    <3>2. Step(sum, both)[i] = Xor(sum[i - 1], Xor(both, sum[15]))
      BY <1>1, <2>2, StepIs
    <3>3. /\ after[i] = Xor(crc[i - 1], Xor(data, crc[15]))
          /\ next[i] = Xor(other[i - 1], Xor(more, other[15]))
      BY <2>2, StepIs DEF after, next
    <3>4. Xor(Xor(crc[i - 1], other[i - 1]), Xor(Xor(data, crc[15]), Xor(more, other[15])))
            = Xor(Xor(crc[i - 1], Xor(data, crc[15])), Xor(other[i - 1], Xor(more, other[15])))
      <4> DEFINE c == crc[i - 1]
                 o == other[i - 1]
                 d == Xor(data, crc[15])
                 e == Xor(more, other[15])
      <4>1. c \in Bit /\ o \in Bit /\ d \in Bit /\ e \in Bit
        BY <3>1
      <4> HIDE DEF c, o, d, e
      <4>2. Xor(Xor(c, o), Xor(d, e)) = Xor(Xor(c, d), Xor(o, e))
        BY <4>1, BitSums
      <4> QED
        BY <4>2 DEF c, o, d, e
    <3> QED
      BY <1>3, <3>1, <3>2, <3>3, <3>4
  <2>3. CASE i \in (1..15) \ {5, 12}
    <3>1. sum[i - 1] = Xor(crc[i - 1], other[i - 1])
      BY <1>2, <2>3
    <3> QED
      BY <1>1, <2>3, <3>1, StepIs DEF after, next
  <2> QED
    BY <2>1, <2>2, <2>3
<1>5. Step(sum, both) = [i \in 0..15 |-> Step(sum, both)[i]]
  BY <1>1, StepIs
<1> QED
  BY <1>4, <1>5 DEF Added, sum, after, next

\* The data bit that equals the highest bit only moves the register.
LEMMA StepMoves ==
    ASSUME NEW crc \in Registers, NEW t \in 0..15
    PROVE  /\ Moved(crc, t) \in Registers
           /\ Moved(crc, t)[15] = crc[15 - t]
           /\ Step(Moved(crc, t), crc[15 - t]) = Moved(crc, t + 1)
<1>1. \A i \in 0..15 : i >= t => crc[i - t] \in Bit
  BY DEF Registers
<1>2. Moved(crc, t) \in Registers
  BY <1>1 DEF Moved, Registers, Bit
<1>3. Moved(crc, t)[15] = crc[15 - t]
  BY DEF Moved
<1>4. crc[15 - t] \in Bit /\ Xor(crc[15 - t], Moved(crc, t)[15]) = 0
  BY <1>1, <1>3, BitSums
<1>5. \A i \in 0..15 : i # 0 => Moved(crc, t)[i - 1] \in Bit
  BY <1>2, RegisterBits
<1>6. \A i \in 0..15 : i # 0 => Moved(crc, t)[i - 1] = Moved(crc, t + 1)[i]
  BY DEF Moved
<1>7. Step(Moved(crc, t), crc[15 - t]) = [i \in 0..15 |-> IF i = 0 THEN 0 ELSE Moved(crc, t)[i - 1]]
  BY <1>4, <1>5, BitSums DEF Step, Xor
<1>8. Moved(crc, t + 1) = [i \in 0..15 |-> Moved(crc, t + 1)[i]] /\ Moved(crc, t + 1)[0] = 0
  BY DEF Moved
<1> QED
  BY <1>2, <1>3, <1>6, <1>7, <1>8

\* What is left of a register after all of its bits.
LEMMA MovedAll ==
    ASSUME NEW crc \in Registers
    PROVE  Moved(crc, 0) = crc /\ Moved(crc, 16) = Zeros
BY DEF Moved, Registers, Zeros

\* A register that has ones in some places.
OnesAt(places) == [i \in 0..15 |-> IF i \in places THEN 1 ELSE 0]
\* What sixteen ones make of a register of zeros, step by step.
Trace ==
    <<{}, {0, 5, 12}, {0, 1, 5, 6, 12, 13}, {0, 1, 2, 5, 6, 7, 12, 13, 14},
      {0, 1, 2, 3, 5, 6, 7, 8, 12, 13, 14, 15}, {1, 2, 3, 4, 6, 7, 8, 9, 13, 14, 15},
      {2, 3, 4, 5, 7, 8, 9, 10, 14, 15}, {3, 4, 5, 6, 8, 9, 10, 11, 15},
      {4, 5, 6, 7, 9, 10, 11, 12}, {0, 6, 7, 8, 10, 11, 13}, {0, 1, 5, 7, 8, 9, 11, 14},
      {0, 1, 2, 5, 6, 8, 9, 10, 15}, {1, 2, 3, 6, 7, 9, 10, 11},
      {0, 2, 3, 4, 5, 7, 8, 10, 11}, {0, 1, 3, 4, 6, 8, 9, 11}, {0, 1, 2, 4, 7, 9, 10},
      {0, 1, 2, 3, 8, 10, 11, 12}>>

LEMMA OnesType ==
    ASSUME NEW places PROVE OnesAt(places) \in Registers
BY DEF OnesAt, Registers, Bit

\* A step of such a register with a one.
LEMMA StepOfOnes ==
    ASSUME NEW places, NEW next,
           0 \in next <=> 15 \notin places,
           \A i \in 1..15 : i \in next <=>
               IF i \in {5, 12} /\ 15 \notin places THEN i - 1 \notin places ELSE i - 1 \in places
    PROVE  Step(OnesAt(places), 1) = OnesAt(next)
<1>1. \A i \in 0..15 : i # 0 => i \in 1..15 /\ i - 1 \in 0..15
  OBVIOUS
<1>2. (1 + OnesAt(places)[15]) % 2 = IF 15 \in places THEN 0 ELSE 1
  BY DEF OnesAt
<1>3. ASSUME NEW i \in 0..15
      PROVE  Step(OnesAt(places), 1)[i] = OnesAt(next)[i]
  <2>1. CASE i = 0
    BY <1>2, <2>1 DEF Step, OnesAt
  <2>2. CASE i # 0
    <3>1. OnesAt(places)[i - 1] = IF i - 1 \in places THEN 1 ELSE 0
      BY <1>1, <2>2 DEF OnesAt
    <3>2. Step(OnesAt(places), 1)[i] = IF i \in {5, 12} THEN (OnesAt(places)[i - 1] + (IF 15 \in places THEN 0 ELSE 1)) % 2 ELSE OnesAt(places)[i - 1]
      BY <1>2, <2>2 DEF Step
    <3>3. OnesAt(next)[i] = IF i \in next THEN 1 ELSE 0
      BY DEF OnesAt
    <3> HIDE DEF OnesAt
    <3> QED
      BY <1>1, <2>2, <3>1, <3>2, <3>3
  <2> QED
    BY <2>1, <2>2
<1>4. /\ Step(OnesAt(places), 1) = [i \in 0..15 |-> Step(OnesAt(places), 1)[i]]
      /\ OnesAt(next) = [i \in 0..15 |-> OnesAt(next)[i]]
  BY DEF Step, OnesAt
<1> QED
  BY <1>3, <1>4

LEMMA TraceSteps ==
    ASSUME NEW t \in 0..15 PROVE Step(OnesAt(Trace[t + 1]), 1) = OnesAt(Trace[t + 2])
<1>1. /\ 0 \in Trace[t + 2] <=> 15 \notin Trace[t + 1]
      /\ \A i \in 1..15 : i \in Trace[t + 2] <=>
            IF i \in {5, 12} /\ 15 \notin Trace[t + 1]
            THEN i - 1 \notin Trace[t + 1] ELSE i - 1 \in Trace[t + 1]
  <2>1. t = 0 \/ t = 1 \/ t = 2 \/ t = 3 \/ t = 4 \/ t = 5 \/ t = 6 \/ t = 7 \/ t = 8
        \/ t = 9 \/ t = 10 \/ t = 11 \/ t = 12 \/ t = 13 \/ t = 14 \/ t = 15
    OBVIOUS
  <2> QED
    BY <2>1 DEF Trace
<1> QED
  BY <1>1, StepOfOnes, Zenon

\* The table is right: its entry is added for the four bits that leave the register.
LEMMA LookUpSteps ==
    ASSUME NEW crc \in Registers, NEW data \in [1..4 -> Bit]
    PROVE  LookUp(crc, data)
              = Step(Step(Step(Step(crc, data[1]), data[2]), data[3]), data[4])
<1> DEFINE nibble == [i \in 0..3 |-> crc[12 + i]]
           high == [i \in 0..15 |-> IF i >= 12 THEN nibble[i - 12] ELSE 0]
           low == [i \in 0..15 |-> IF i >= 12 THEN 0 ELSE crc[i]]
           entry == CRCLookup[nibble][data]
<1>1. \A i \in 0..15 : crc[i] \in Bit
  BY RegisterBits
<1>2. nibble \in [0..3 -> Bit]
  BY <1>1
<1>3. entry = Step(Step(Step(Step(high, data[1]), data[2]), data[3]), data[4])
  <2>1. entry = FoldLeft(Step, high, data)
    BY <1>2 DEF CRCLookup
  <2> HIDE DEF entry, high
  <2>2. PICK acc : Stepping!IsRun(high, data, 4, acc)
    <3>1. 4 \in Nat /\ DOMAIN data = 1..4
      OBVIOUS
    <3> QED
      BY <3>1, Stepping!FoldSteps, Zenon
  <2>3. /\ acc[0] = high /\ acc[1] = Step(acc[0], data[1]) /\ acc[2] = Step(acc[1], data[2])
        /\ acc[3] = Step(acc[2], data[3]) /\ acc[4] = Step(acc[3], data[4])
    <3>1. \A k \in 0..3 : acc[k + 1] = Step(acc[k], data[k + 1])
      BY <2>2 DEF Stepping!IsRun
    <3> QED
      BY <2>2, <3>1 DEF Stepping!IsRun
  <2>4. entry = acc[4]
    BY <2>1, <2>2, FoldsAgree DEF Stepping!IsRun
  <2> QED
    BY <2>3, <2>4
<1>4. high \in Registers /\ low \in Registers
  BY <1>1 DEF Registers, Bit
<1>5. crc = Added(low, high)
  <2>1. ASSUME NEW i \in 0..15 PROVE crc[i] = Xor(low[i], high[i])
    BY <1>1, BitSums DEF Bit
  <2> QED
    BY <2>1, RegisterBits DEF Added
<1>6. low[15] = 0 /\ low[14] = 0 /\ low[13] = 0 /\ low[12] = 0
  OBVIOUS
<1>7. LookUp(crc, data) = Added(Moved(low, 4), entry)
  <2>1. ASSUME NEW i \in 0..15
        PROVE  (IF i >= 4 THEN crc[i - 4] ELSE 0) = Moved(low, 4)[i]
    BY DEF Moved
  <2> HIDE DEF low, entry
  <2> QED
    BY <2>1 DEF LookUp, Added, Xor, entry
<1> HIDE DEF low, high, entry
<1>8. ASSUME NEW a \in Registers, NEW b \in Registers, NEW bit \in Bit
      PROVE  /\ Step(Added(a, b), bit) = Added(Step(a, 0), Step(b, bit))
             /\ Step(b, bit) \in Registers
  <2>1. 0 \in Bit /\ Xor(0, bit) = bit
    BY BitSums DEF Bit
  <2> QED
    BY <2>1, StepOfSum, StepType
<1>9. /\ low = Moved(low, 0)
      /\ \A t \in 0..3 : /\ Moved(low, t) \in Registers
                         /\ Step(Moved(low, t), 0) = Moved(low, t + 1)
  <2>1. \A t \in 0..3 : t \in 0..15 /\ low[15 - t] = 0
    <3>1. \A t \in 0..3 : t = 0 \/ t = 1 \/ t = 2 \/ t = 3
      OBVIOUS
    <3> QED
      BY <1>6, <3>1
  <2> QED
    BY <1>4, <2>1, StepMoves, MovedAll
<1> DEFINE one == Step(high, data[1])
           two == Step(one, data[2])
           three == Step(two, data[3])
<1>10. data[1] \in Bit /\ data[2] \in Bit /\ data[3] \in Bit /\ data[4] \in Bit
  OBVIOUS
<1>11. Step(crc, data[1]) = Added(Moved(low, 1), one) /\ one \in Registers
  BY <1>4, <1>5, <1>8, <1>9, <1>10
<1> HIDE DEF one
<1>12. Step(Added(Moved(low, 1), one), data[2]) = Added(Moved(low, 2), two) /\ two \in Registers
  BY <1>8, <1>9, <1>10, <1>11
<1> HIDE DEF two
<1>13. Step(Added(Moved(low, 2), two), data[3]) = Added(Moved(low, 3), three) /\ three \in Registers
  BY <1>8, <1>9, <1>10, <1>12
<1> HIDE DEF three
<1>14. Step(Added(Moved(low, 3), three), data[4]) = Added(Moved(low, 4), Step(three, data[4]))
  BY <1>8, <1>9, <1>10, <1>13
<1> QED
  BY <1>3, <1>7, <1>11, <1>12, <1>13, <1>14 DEF one, two, three

LEMMA LookUpByteSteps ==
    ASSUME NEW crc \in Registers, NEW octet \in Octets, NEW bit, bit = ByteBits(octet)
    PROVE  LookUpByte(crc, octet)
              = Step(Step(Step(Step(Step(Step(Step(Step(crc, bit[1]), bit[2]), bit[3]), bit[4]),
                     bit[5]), bit[6]), bit[7]), bit[8])
<1> DEFINE low == SubSeq(bit, 1, 4)
           high == SubSeq(bit, 5, 8)
           half == Step(Step(Step(Step(crc, bit[1]), bit[2]), bit[3]), bit[4])
<1>1. bit \in [1..8 -> Bit]
  BY ByteBitsAre
<1>2. /\ low \in [1..4 -> Bit] /\ high \in [1..4 -> Bit]
      /\ \A i \in 1..4 : low[i] = bit[i] /\ high[i] = bit[i + 4]
  <2>1. \A i \in 1..8 : bit[i] \in Bit
    BY <1>1
  <2>2. low \in Seq(Bit) /\ Len(low) = 4 /\ \A i \in 1..4 : low[i] = bit[i]
    <3>1. \A i \in 1..4 : bit[i] \in Bit
      BY <2>1
    <3>2. /\ low \in Seq(Bit) /\ Len(low) = IF 1 <= 4 THEN 4 - 1 + 1 ELSE 0
          /\ \A i \in 1..(4 - 1 + 1) : low[i] = bit[1 + i - 1]
      BY <3>1, SubSeqProperties, 1 \in Int, 4 \in Int
    <3> HIDE DEF low
    <3> QED
      BY <3>2
  <2>3. high \in Seq(Bit) /\ Len(high) = 4 /\ \A i \in 1..4 : high[i] = bit[i + 4]
    <3>1. \A i \in 5..8 : bit[i] \in Bit
      BY <2>1
    <3>2. /\ high \in Seq(Bit) /\ Len(high) = IF 5 <= 8 THEN 8 - 5 + 1 ELSE 0
          /\ \A i \in 1..(8 - 5 + 1) : high[i] = bit[5 + i - 1]
      BY <3>1, SubSeqProperties, 5 \in Int, 8 \in Int
    <3> HIDE DEF high
    <3>3. \A i \in 1..4 : 5 + i - 1 = i + 4 /\ i \in 1..(8 - 5 + 1)
      OBVIOUS
    <3> QED
      BY <3>2, <3>3
  <2> HIDE DEF low, high
  <2> QED
    BY <2>2, <2>3, LenProperties
<1>3. LookUpByte(crc, octet) = LookUp(LookUp(crc, low), high)
  BY DEF LookUpByte
<1> HIDE DEF low, high
<1>4. half \in Registers
  <2>1. bit[1] \in Bit /\ bit[2] \in Bit /\ bit[3] \in Bit /\ bit[4] \in Bit
    BY <1>1
  <2> QED
    BY <2>1, StepType
<1>5. LookUp(crc, low) = half
  BY <1>2, LookUpSteps
<1> HIDE DEF half
<1>6. LookUp(half, high) = Step(Step(Step(Step(half, bit[5]), bit[6]), bit[7]), bit[8])
  BY <1>2, <1>4, LookUpSteps
<1> QED
  BY <1>3, <1>5, <1>6 DEF half

\* The check by table is the division of the bits that were sent.
LEMMA CheckIsRegister ==
    ASSUME NEW m \in Messages
    PROVE  FoldLeft(LookUpByte, Preset, Packet(m)) = Register(Preset, Data(m))
<1> DEFINE n == Size(m)
<1>1. n \in Nat /\ Data(m) \in [1..(8 * n) -> Bit] /\ Packet(m) \in [1..n -> Octets]
  BY DataBits, PacketOctets DEF Total
<1> HIDE DEF n
<1>2. PICK run : Stepping!IsRun(Preset, Data(m), 8 * n, run)
  <2>1. 8 * n \in Nat /\ DOMAIN Data(m) = 1..(8 * n)
    BY <1>1
  <2> QED
    BY <2>1, Stepping!FoldSteps, Zenon
<1>3. PICK acc : Checking!IsRun(Preset, Packet(m), n, acc)
  <2>1. n \in Nat /\ DOMAIN Packet(m) = 1..n
    BY <1>1
  <2> QED
    BY <2>1, Checking!FoldSteps, Zenon
<1> DEFINE T == {j \in Nat : j <= n => acc[j] = run[8 * j] /\ acc[j] \in Registers}
<1>4. 0 \in T
  BY <1>2, <1>3, PresetType DEF Stepping!IsRun, Checking!IsRun
<1>5. ASSUME NEW j \in Nat, j \in T PROVE j + 1 \in T
  <2> SUFFICES ASSUME j + 1 <= n PROVE acc[j + 1] = run[8 * (j + 1)] /\ acc[j + 1] \in Registers
    OBVIOUS
  <2> DEFINE at == 8 * j
             bit == ByteBits(Packet(m)[j + 1])
  <2>1. acc[j] = run[at] /\ acc[j] \in Registers
    BY <1>1, <1>5
  <2>2. Packet(m)[j + 1] \in Octets /\ \A i \in 1..8 : Data(m)[at + i] = bit[i]
    <3>1. j + 1 \in 1..Size(m) /\ 8 * ((j + 1) - 1) = at
      BY <1>1 DEF n
    <3> QED
      BY <3>1, PacketOctets
  <2>3. acc[j + 1] = LookUpByte(acc[j], Packet(m)[j + 1])
    <3>1. j \in 0..(n - 1)
      BY <1>1
    <3> QED
      BY <1>3, <3>1 DEF Checking!IsRun
  <2>4. \A i \in 1..8 : run[at + i] = Step(run[at + (i - 1)], bit[i])
    <3>1. \A i \in 1..8 : at + (i - 1) \in 0..(8 * n - 1) /\ (at + (i - 1)) + 1 = at + i
      BY <1>1
    <3> QED
      BY <1>2, <2>2, <3>1 DEF Stepping!IsRun
  <2>5. bit \in [1..8 -> Bit]
    BY <2>2, ByteBitsAre
  <2>6. 8 * (j + 1) = at + 8 /\ at + 0 = at
    OBVIOUS
  <2> HIDE DEF at
  <2>7. /\ run[at + 1] = Step(run[at], bit[1]) /\ run[at + 2] = Step(run[at + 1], bit[2])
        /\ run[at + 3] = Step(run[at + 2], bit[3]) /\ run[at + 4] = Step(run[at + 3], bit[4])
        /\ run[at + 5] = Step(run[at + 4], bit[5]) /\ run[at + 6] = Step(run[at + 5], bit[6])
        /\ run[at + 7] = Step(run[at + 6], bit[7]) /\ run[at + 8] = Step(run[at + 7], bit[8])
    BY <2>4, <2>6
  <2>8. acc[j + 1] = run[at + 8]
    BY <2>1, <2>2, <2>3, <2>7, LookUpByteSteps
  <2>9. run[at + 8] \in Registers
    <3>1. /\ bit[1] \in Bit /\ bit[2] \in Bit /\ bit[3] \in Bit /\ bit[4] \in Bit
          /\ bit[5] \in Bit /\ bit[6] \in Bit /\ bit[7] \in Bit /\ bit[8] \in Bit
      BY <2>5
    <3>2. run[at + 1] \in Registers /\ run[at + 2] \in Registers
      BY <2>1, <2>7, <3>1, StepType
    <3>3. run[at + 3] \in Registers /\ run[at + 4] \in Registers
      BY <2>7, <3>1, <3>2, StepType
    <3>4. run[at + 5] \in Registers /\ run[at + 6] \in Registers
      BY <2>7, <3>1, <3>3, StepType
    <3> QED
      BY <2>7, <3>1, <3>4, StepType
  <2> QED
    BY <2>6, <2>8, <2>9
<1> HIDE DEF T
<1>6. n \in T
  <2>1. \A j \in Nat : j \in T
    BY <1>4, <1>5, Stepping!NatInduct
  <2> QED
    BY <1>1, <2>1
<1>7. acc[n] = run[8 * n]
  BY <1>1, <1>6 DEF T
<1> QED
  BY <1>2, <1>3, <1>7, FoldsAgree DEF Stepping!IsRun, Checking!IsRun, Register

\* Whatever the message, the packet that is made of it passes the check.
THEOREM SentPacketsValidate ==
    ASSUME NEW m \in Messages PROVE ValidatePacket(Packet(m))
<1> DEFINE n == 8 * Len(m)
           crc == Register(Preset, Bits(m))
<1>1. /\ n \in Nat /\ Data(m) \in [1..(n + 16) -> Bit] /\ Bits(m) \in [1..n -> Bit]
      /\ \A i \in 1..n : Data(m)[i] = Bits(m)[i]
      /\ \A t \in 1..16 : Data(m)[n + t] = 1 - crc[16 - t]
  <2>1. n \in Nat /\ Total(m) = n + 16 /\ Bits(m) \in [1..n -> Bit]
    BY BitsType DEF Total, Size
  <2>2. Data(m) \in [1..(n + 16) -> Bit]
    BY <2>1, DataBits
  <2> QED
    BY <2>1, <2>2, DataBits
<1>2. crc \in Registers
  BY <1>1, PresetType, RegisterType
<1> HIDE DEF n
<1>3. PICK run : Stepping!IsRun(Preset, Data(m), n + 16, run)
  <2>1. n + 16 \in Nat /\ DOMAIN Data(m) = 1..(n + 16)
    BY <1>1
  <2> QED
    BY <2>1, Stepping!FoldSteps, Zenon
<1>4. PICK acc : Stepping!IsRun(Preset, Bits(m), n, acc)
  <2>1. n \in Nat /\ DOMAIN Bits(m) = 1..n
    BY <1>1
  <2> QED
    BY <2>1, Stepping!FoldSteps, Zenon
<1>5. run[n] = crc
  <2> DEFINE T == {k \in Nat : k <= n => run[k] = acc[k]}
  <2>1. 0 \in T
    BY <1>3, <1>4 DEF Stepping!IsRun
  <2>2. ASSUME NEW k \in Nat, k \in T PROVE k + 1 \in T
    <3> SUFFICES ASSUME k + 1 <= n PROVE run[k + 1] = acc[k + 1]
      OBVIOUS
    <3>1. k \in 0..(n - 1) /\ k \in 0..((n + 16) - 1) /\ k + 1 \in 1..n /\ run[k] = acc[k]
      BY <1>1, <2>2
    <3>2. Data(m)[k + 1] = Bits(m)[k + 1]
      BY <1>1, <3>1
    <3>3. run[k + 1] = Step(run[k], Data(m)[k + 1])
      BY <1>3, <3>1 DEF Stepping!IsRun
    <3>4. acc[k + 1] = Step(acc[k], Bits(m)[k + 1])
      BY <1>4, <3>1 DEF Stepping!IsRun
    <3> QED
      BY <3>1, <3>2, <3>3, <3>4
  <2> HIDE DEF T
  <2>3. n \in T
    BY <1>1, <2>1, <2>2, Stepping!NatInduct
  <2>4. run[n] = acc[n]
    BY <1>1, <2>3 DEF T
  <2> QED
    BY <1>4, <2>4, FoldsAgree DEF Stepping!IsRun, Register
<1> HIDE DEF crc
<1> DEFINE U == {t \in Nat : t <= 16 => run[n + t] = Added(Moved(crc, t), OnesAt(Trace[t + 1]))}
<1>6. 0 \in U
  <2>1. \A i \in 0..15 : Xor(crc[i], OnesAt({})[i]) = crc[i]
    BY <1>2, BitSums, RegisterBits DEF OnesAt
  <2>2. Added(crc, OnesAt({})) = crc
    BY <1>2, <2>1, RegisterBits DEF Added
  <2>3. Trace[0 + 1] = {} /\ n + 0 = n
    BY <1>1 DEF Trace
  <2> QED
    BY <1>2, <1>5, <2>2, <2>3, MovedAll
<1>7. ASSUME NEW t \in Nat, t \in U PROVE t + 1 \in U
  <2> SUFFICES ASSUME t + 1 <= 16
               PROVE  run[n + (t + 1)] = Added(Moved(crc, t + 1), OnesAt(Trace[(t + 1) + 1]))
    OBVIOUS
  <2>1. t \in 0..15 /\ run[n + t] = Added(Moved(crc, t), OnesAt(Trace[t + 1]))
    BY <1>7
  <2>2. Data(m)[n + (t + 1)] = Xor(crc[15 - t], 1) /\ crc[15 - t] \in Bit
    <3>1. t + 1 \in 1..16 /\ 16 - (t + 1) = 15 - t
      BY <2>1
    <3>2. Data(m)[n + (t + 1)] = 1 - crc[15 - t]
      BY <1>1, <3>1
    <3>3. crc[15 - t] \in Bit
      BY <1>2, <2>1 DEF Registers
    <3>4. \A x \in Bit : 1 - x = Xor(x, 1)
      BY DEF Bit, Xor
    <3> QED
      BY <3>2, <3>3, <3>4
  <2>3. run[n + (t + 1)] = Step(run[n + t], Data(m)[n + (t + 1)])
    <3>1. n + t \in 0..((n + 16) - 1) /\ (n + t) + 1 = n + (t + 1)
      BY <1>1, <2>1
    <3> QED
      BY <1>3, <3>1 DEF Stepping!IsRun
  <2>4. /\ Moved(crc, t) \in Registers /\ Step(Moved(crc, t), crc[15 - t]) = Moved(crc, t + 1)
    BY <1>2, <2>1, StepMoves
  <2>5. Step(OnesAt(Trace[t + 1]), 1) = OnesAt(Trace[t + 2]) /\ OnesAt(Trace[t + 1]) \in Registers
    BY <2>1, TraceSteps, OnesType
  <2>6. 1 \in Bit /\ (t + 1) + 1 = t + 2
    BY DEF Bit
  <2>7. Step(Added(Moved(crc, t), OnesAt(Trace[t + 1])), Xor(crc[15 - t], 1))
            = Added(Step(Moved(crc, t), crc[15 - t]), Step(OnesAt(Trace[t + 1]), 1))
    BY <2>2, <2>4, <2>5, <2>6, StepOfSum
  <2> QED
    BY <2>1, <2>2, <2>3, <2>4, <2>5, <2>6, <2>7
<1> HIDE DEF U
<1>8. run[n + 16] = Added(Moved(crc, 16), OnesAt(Trace[17]))
  <2>1. \A t \in Nat : t \in U
    BY <1>6, <1>7, Stepping!NatInduct
  <2>2. 16 \in U
    BY <2>1
  <2> QED
    BY <2>2 DEF U
<1>9. Added(Moved(crc, 16), OnesAt(Trace[17]))
        = [i \in 0..15 |-> IF i \in {0, 1, 2, 3, 8, 10, 11, 12} THEN 1 ELSE 0]
  <2>1. Moved(crc, 16) = Zeros
    BY <1>2, MovedAll
  <2>2. OnesAt(Trace[17]) = [i \in 0..15 |-> IF i \in {0, 1, 2, 3, 8, 10, 11, 12} THEN 1 ELSE 0]
    BY DEF OnesAt, Trace
  <2> DEFINE ones == OnesAt(Trace[17])
  <2>3. ones \in Registers
    BY OnesType
  <2> HIDE DEF ones
  <2>4. \A i \in 0..15 : Xor(Zeros[i], ones[i]) = ones[i]
    BY <2>3, BitSums, RegisterBits DEF Zeros
  <2>5. Added(Zeros, ones) = ones
    BY <2>3, <2>4, RegisterBits DEF Added
  <2> QED
    BY <2>1, <2>2, <2>5 DEF ones
<1>10. Register(Preset, Data(m)) = run[n + 16]
  BY <1>3, FoldsAgree DEF Stepping!IsRun, Register
<1> QED
  BY <1>8, <1>9, <1>10, CheckIsRegister DEF ValidatePacket


--------------------------------------------------------------------------------
(***************************************************************************)
(* The line: where each bit of a packet is among the bits that are sent.   *)
(***************************************************************************)
\* The bits done so far, and the ones in a row at their end.
Partly == [bits : Seq(Bit), ones : 0..4]
Nothing == [bits |-> <<>>, ones |-> 0]

\* How zeros come into the bits of a packet, bit by bit.
Stuffing(m) == CHOOSE run : Inserting!IsRun(Nothing, Data(m), Total(m), run)
Ones(m, k) == Stuffing(m)[k].ones
Body(m, k) == Stuffing(m)[k].bits
\* How much of the line is done before bit k + 1 of the packet, with what comes before.
Place(m, k) == 16 + Len(Body(m, k))
End(m) == Place(m, Total(m))

\* All that is sent for a message, and what is left of it after some bits.
Line(m) == Idle \o FrameBits[m]
Left(m, p) == SubSeq(Line(m), p + 1, End(m) + 8)

LEMMA InsertZeroIs ==
    ASSUME NEW done \in Partly, NEW bit \in Bit, NEW next, next = InsertZero(done, bit)
    PROVE  /\ next \in Partly
           /\ \A i \in 1..Len(done.bits) : next.bits[i] = done.bits[i]
           /\ next.bits[Len(done.bits) + 1] = bit
           /\ bit = 1 /\ done.ones = 4 =>
                 /\ next.ones = 0 /\ Len(next.bits) = Len(done.bits) + 2
                 /\ next.bits[Len(done.bits) + 2] = 0
           /\ ~(bit = 1 /\ done.ones = 4) =>
                 /\ next.ones = IF bit = 1 THEN done.ones + 1 ELSE 0
                 /\ Len(next.bits) = Len(done.bits) + 1
<1> DEFINE s == done.bits
           two == <<bit, 0>>
<1>1. s \in Seq(Bit) /\ Len(s) \in Nat /\ done.ones \in 0..4
  BY DEF Partly
<1>2. two \in Seq(Bit) /\ Len(two) = 2 /\ two[1] = bit /\ two[2] = 0
  BY DEF Bit
<1> HIDE DEF s, two
<1>3. CASE bit = 1 /\ done.ones = 4
  <2>1. next = [bits |-> s \o two, ones |-> 0]
    BY <1>3 DEF InsertZero, s, two
  <2>2. /\ s \o two \in Seq(Bit) /\ Len(s \o two) = Len(s) + 2
        /\ \A i \in 1..(Len(s) + 2) : (s \o two)[i] = IF i <= Len(s) THEN s[i] ELSE two[i - Len(s)]
    <3>1. /\ s \o two \in Seq(Bit) /\ Len(s \o two) = Len(s) + Len(two)
          /\ \A i \in 1..(Len(s) + Len(two)) :
                (s \o two)[i] = IF i <= Len(s) THEN s[i] ELSE two[i - Len(s)]
      BY <1>1, <1>2, ConcatProperties
    <3> QED
      BY <1>2, <3>1
  <2>3. /\ Len(s) + 1 \in 1..(Len(s) + 2) /\ ~(Len(s) + 1 <= Len(s)) /\ (Len(s) + 1) - Len(s) = 1
        /\ Len(s) + 2 \in 1..(Len(s) + 2) /\ ~(Len(s) + 2 <= Len(s)) /\ (Len(s) + 2) - Len(s) = 2
    BY <1>1
  <2> DEFINE t == s \o two
  <2> HIDE DEF t
  <2>4. t[Len(s) + 1] = bit /\ t[Len(s) + 2] = 0
    BY <1>2, <2>2, <2>3 DEF t
  <2>5. \A i \in 1..Len(s) : t[i] = s[i]
    BY <1>1, <2>2 DEF t
  <2>6. next.bits = t /\ next.ones = 0
    BY <2>1 DEF t
  <2>7. next \in Partly
    <3>1. t \in Seq(Bit) /\ 0 \in 0..4
      BY <2>2 DEF t
    <3> QED
      BY <2>1, <3>1 DEF Partly, t
  <2>8. Len(t) = Len(s) + 2
    BY <2>2 DEF t
  <2> QED
    BY <1>3, <2>4, <2>5, <2>6, <2>7, <2>8 DEF s
<1>4. CASE ~(bit = 1 /\ done.ones = 4)
  <2> DEFINE ones == IF bit = 1 THEN done.ones + 1 ELSE 0
  <2>1. ones \in 0..4 /\ ones # 5
    BY <1>1, <1>4 DEF Bit
  <2>2. next = [bits |-> Append(s, bit), ones |-> ones]
    BY <2>1 DEF InsertZero, s
  <2>3. /\ Append(s, bit) \in Seq(Bit) /\ Len(Append(s, bit)) = Len(s) + 1
        /\ \A i \in 1..Len(s) : Append(s, bit)[i] = s[i]
        /\ Append(s, bit)[Len(s) + 1] = bit
    BY <1>1, AppendProperties
  <2> DEFINE t == Append(s, bit)
  <2> HIDE DEF t, ones
  <2>4. next.bits = t /\ next.ones = ones
    BY <2>2 DEF t
  <2>5. next \in Partly
    BY <2>1, <2>2, <2>3 DEF Partly
  <2> QED
    BY <1>4, <2>3, <2>4, <2>5 DEF s, t, ones
<1> QED
  BY <1>3, <1>4

LEMMA TotalIs ==
    ASSUME NEW m \in Messages
    PROVE  /\ Size(m) \in Nat /\ Total(m) = 8 * Size(m) /\ Total(m) \in Nat /\ Total(m) >= 16
           /\ DOMAIN Data(m) = 1..Total(m)
           /\ \A k \in 1..Total(m) : Data(m)[k] \in Bit
           /\ \A k \in 0..(Total(m) - 1) : Data(m)[k + 1] \in Bit
<1>1. Size(m) \in Nat /\ Size(m) >= 2
  BY DataBits
<1>2. Total(m) = 8 * Size(m)
  BY DEF Total
<1>3. Data(m) \in [1..Total(m) -> Bit]
  BY DataBits
<1> DEFINE n == Total(m)
<1>4. n \in Nat /\ n >= 16
  BY <1>1, <1>2
<1> HIDE DEF n
<1>5. DOMAIN Data(m) = 1..n /\ \A k \in 1..n : Data(m)[k] \in Bit
  BY <1>3 DEF n
<1>6. \A k \in 0..(n - 1) : k + 1 \in 1..n
  BY <1>4
<1> QED
  BY <1>1, <1>2, <1>4, <1>5, <1>6 DEF n

LEMMA StuffingRuns ==
    ASSUME NEW m \in Messages
    PROVE  Inserting!IsRun(Nothing, Data(m), Total(m), Stuffing(m))
<1>1. Total(m) \in Nat /\ DOMAIN Data(m) = 1..Total(m)
  BY TotalIs
<1>2. \E run : Inserting!IsRun(Nothing, Data(m), Total(m), run)
  BY <1>1, Inserting!FoldSteps, Zenon
<1> QED
  BY <1>2 DEF Stuffing

LEMMA StuffingSteps ==
    ASSUME NEW m \in Messages
    PROVE  /\ Stuffing(m)[0] = Nothing /\ Total(m) \in Nat /\ Total(m) >= 16
           /\ \A k \in 0..Total(m) : Stuffing(m)[k] \in Partly
           /\ \A k \in 0..(Total(m) - 1) :
                 /\ Stuffing(m)[k + 1] = InsertZero(Stuffing(m)[k], Data(m)[k + 1])
                 /\ Data(m)[k + 1] \in Bit
           /\ FoldLeft(InsertZero, Nothing, Data(m)) = Stuffing(m)[Total(m)]
<1>1. Inserting!IsRun(Nothing, Data(m), Total(m), Stuffing(m))
  BY StuffingRuns
<1>2. /\ Total(m) \in Nat /\ Total(m) >= 16
      /\ \A k \in 0..(Total(m) - 1) : Data(m)[k + 1] \in Bit
  BY TotalIs
<1>3. \A k \in 0..(Total(m) - 1) : Stuffing(m)[k + 1] = InsertZero(Stuffing(m)[k], Data(m)[k + 1])
  BY <1>1 DEF Inserting!IsRun
<1> DEFINE T == {k \in Nat : k <= Total(m) => Stuffing(m)[k] \in Partly}
<1>4. 0 \in T
  <2>1. Nothing \in Partly
    <3>1. <<>> \in Seq(Bit) /\ 0 \in 0..4
      OBVIOUS
    <3> QED
      BY <3>1 DEF Partly, Nothing
  <2>2. Stuffing(m)[0] = Nothing
    BY <1>1 DEF Inserting!IsRun
  <2> QED
    BY <2>1, <2>2
<1>5. ASSUME NEW k \in Nat, k \in T PROVE k + 1 \in T
  <2> SUFFICES ASSUME k + 1 <= Total(m) PROVE Stuffing(m)[k + 1] \in Partly
    OBVIOUS
  <2>1. k \in 0..(Total(m) - 1) /\ Stuffing(m)[k] \in Partly
    BY <1>2, <1>5
  <2> QED
    BY <1>2, <1>3, <2>1, InsertZeroIs
<1> HIDE DEF T
<1>6. \A k \in Nat : k \in T
  BY <1>4, <1>5, Inserting!NatInduct
<1>7. \A k \in 0..Total(m) : Stuffing(m)[k] \in Partly
  BY <1>2, <1>6 DEF T
<1> QED
  BY <1>1, <1>2, <1>3, <1>7, FoldsAgree DEF Inserting!IsRun

\* What is done stays at the beginning of what is sent.
LEMMA StuffingGrows ==
    ASSUME NEW m \in Messages, NEW k \in 0..Total(m)
    PROVE  /\ Len(Body(m, k)) <= Len(Body(m, Total(m)))
           /\ \A i \in 1..Len(Body(m, k)) : Body(m, Total(m))[i] = Body(m, k)[i]
<1> DEFINE n == Total(m)
           T == {j \in Nat : k + j <= n =>
                    /\ Len(Body(m, k)) <= Len(Body(m, k + j))
                    /\ \A i \in 1..Len(Body(m, k)) : Body(m, k + j)[i] = Body(m, k)[i]}
<1>1. n \in Nat /\ \A i \in 0..n : Len(Body(m, i)) \in Nat
  <2>1. n \in Nat /\ \A i \in 0..n : Stuffing(m)[i] \in Partly
    BY StuffingSteps
  <2>2. \A done \in Partly : Len(done.bits) \in Nat
    BY DEF Partly
  <2> QED
    BY <2>1, <2>2 DEF Body
<1>2. 0 \in T
  <2>1. k + 0 = k
    BY <1>1
  <2> QED
    BY <1>1, <2>1
<1>3. ASSUME NEW j \in Nat, j \in T PROVE j + 1 \in T
  <2> SUFFICES ASSUME k + (j + 1) <= n
               PROVE  /\ Len(Body(m, k)) <= Len(Body(m, k + (j + 1)))
                      /\ \A i \in 1..Len(Body(m, k)) : Body(m, k + (j + 1))[i] = Body(m, k)[i]
    OBVIOUS
  <2>1. k + j \in 0..(n - 1) /\ k + j \in 0..n /\ (k + j) + 1 = k + (j + 1) /\ (k + j) + 1 \in 0..n
    BY <1>1
  <2>2. /\ Len(Body(m, k)) <= Len(Body(m, k + j))
        /\ \A i \in 1..Len(Body(m, k)) : Body(m, k + j)[i] = Body(m, k)[i]
    BY <1>1, <1>3, <2>1
  <2> DEFINE at == k + j
  <2>3. /\ Stuffing(m)[at] \in Partly /\ Data(m)[at + 1] \in Bit
        /\ Stuffing(m)[at + 1] = InsertZero(Stuffing(m)[at], Data(m)[at + 1])
    BY <2>1, StuffingSteps
  <2>4. Len(Body(m, at)) \in Nat /\ Len(Body(m, at + 1)) \in Nat /\ Len(Body(m, k)) \in Nat
    BY <1>1, <2>1
  <2> HIDE DEF at
  <2>5. /\ \A i \in 1..Len(Body(m, at)) : Body(m, at + 1)[i] = Body(m, at)[i]
        /\ Len(Body(m, at + 1)) = Len(Body(m, at)) + 2 \/ Len(Body(m, at + 1)) = Len(Body(m, at)) + 1
    <3> DEFINE done == Stuffing(m)[at]
               next == Stuffing(m)[at + 1]
               bit == Data(m)[at + 1]
    <3>1. done \in Partly /\ bit \in Bit /\ next = InsertZero(done, bit)
      BY <2>3
    <3>2. done.bits = Body(m, at) /\ next.bits = Body(m, at + 1)
      BY DEF Body
    <3> HIDE DEF done, next, bit
    <3>3. /\ \A i \in 1..Len(done.bits) : next.bits[i] = done.bits[i]
          /\ Len(next.bits) = Len(done.bits) + 2 \/ Len(next.bits) = Len(done.bits) + 1
      BY <3>1, InsertZeroIs
    <3> QED
      BY <3>2, <3>3
  <2>6. at = k + j /\ at + 1 = k + (j + 1)
    BY <2>1 DEF at
  <2> QED
    BY <2>2, <2>4, <2>5, <2>6
<1> HIDE DEF T
<1>4. \A j \in Nat : j \in T
  BY <1>2, <1>3, Inserting!NatInduct
<1>5. n - k \in Nat /\ k + (n - k) = n
  BY <1>1
<1> QED
  BY <1>1, <1>4, <1>5 DEF T

LEMMA LineIs ==
    ASSUME NEW m \in Messages
    PROVE  /\ End(m) \in Nat /\ End(m) >= 16 /\ End(m) = 16 + Len(Body(m, Total(m)))
           /\ Line(m) \in [1..(End(m) + 8) -> Bit]
           /\ \A p \in 1..8 : Line(m)[p] = 1 /\ Line(m)[8 + p] = Flag[p]
           /\ \A i \in 1..Len(Body(m, Total(m))) : Line(m)[16 + i] = Body(m, Total(m))[i]
           /\ \A t \in 1..8 : Line(m)[End(m) + t] = Flag[t]
           /\ FrameBits[m] \in Seq(Bit) /\ Len(FrameBits[m]) = End(m)
           /\ \A i \in 1..End(m) : Line(m)[8 + i] = FrameBits[m][i]
<1> DEFINE body == Body(m, Total(m))
           n == Len(body)
           e == 8
           first == Flag \o body
           frame == first \o Flag
<1>1. body \in Seq(Bit) /\ n \in Nat
  <2>1. Total(m) \in 0..Total(m)
    BY TotalIs
  <2>2. Stuffing(m)[Total(m)] \in Partly
    BY <2>1, StuffingSteps
  <2> QED
    BY <2>2 DEF Partly, Body
<1>2. frame = FrameBits[m]
  BY StuffingSteps DEF FrameBits, ZeroBitAndFlagInsertion, Data, Body, Nothing
<1>3. body \in Words(n) /\ Flag \in Words(e) /\ Idle \in Words(e) /\ e \in Nat
  <2>1. body \in Words(n)
    BY <1>1, LenProperties DEF Words
  <2> QED
    BY <2>1 DEF Words, Flag, Idle, Bit
<1> HIDE DEF body, n, e
<1>4. IsJoined(first, Flag, e, body, n)
  BY <1>1, <1>3, Joined
<1>5. first \in Words(e + n) /\ e + n \in Nat
  BY <1>1, <1>3, <1>4 DEF IsJoined
<1> HIDE DEF first
<1>6. IsJoined(frame, first, e + n, Flag, e)
  BY <1>3, <1>5, Joined
<1>7. frame \in Words((e + n) + e) /\ (e + n) + e \in Nat
  BY <1>3, <1>5, <1>6 DEF IsJoined
<1> HIDE DEF frame
<1>8. IsJoined(Line(m), Idle, e, frame, (e + n) + e)
  BY <1>2, <1>3, <1>7, Joined DEF Line
<1>9. e = 8
  BY DEF e
<1>10. End(m) = 16 + n
  BY DEF End, Place, n, body
<1>11. \A p \in 1..8 : Line(m)[p] = 1
  <2>1. \A p \in 1..8 : Idle[p] = 1
    BY DEF Idle
  <2> QED
    BY <1>8, <1>9, <2>1 DEF IsJoined
<1>12. \A i \in 1..(16 + n) : Line(m)[8 + i] = frame[i]
  BY <1>1, <1>8, <1>9 DEF IsJoined
<1>13. \A p \in 1..8 : frame[p] = Flag[p]
  <2>1. \A p \in 1..8 : p \in 1..(e + n) /\ p \in 1..e
    BY <1>1, <1>9
  <2> QED
    BY <1>4, <1>6, <2>1 DEF IsJoined
<1>14. \A i \in 1..n : frame[8 + i] = body[i]
  <2>1. \A i \in 1..n : e + i \in 1..(e + n)
    BY <1>1, <1>9
  <2> QED
    BY <1>4, <1>6, <1>9, <2>1 DEF IsJoined
<1>15. \A t \in 1..8 : frame[8 + n + t] = Flag[t]
  BY <1>6, <1>9 DEF IsJoined
<1>16. \A i \in 1..n : Line(m)[16 + i] = body[i]
  <2>1. \A i \in 1..n : 8 + i \in 1..(16 + n) /\ 8 + (8 + i) = 16 + i
    BY <1>1
  <2> QED
    BY <1>12, <1>14, <2>1
<1>17. \A t \in 1..8 : Line(m)[(16 + n) + t] = Flag[t]
  <2>1. \A t \in 1..8 : 8 + n + t \in 1..(16 + n) /\ 8 + (8 + n + t) = (16 + n) + t
    BY <1>1
  <2> QED
    BY <1>12, <1>15, <2>1
<1>18. \A p \in 1..8 : Line(m)[8 + p] = Flag[p]
  <2>1. \A p \in 1..8 : p \in 1..(16 + n)
    BY <1>1
  <2> QED
    BY <1>12, <1>13, <2>1
<1>19. Line(m) \in [1..((16 + n) + 8) -> Bit]
  <2>1. Line(m) \in Words(e + ((e + n) + e))
    BY <1>8 DEF IsJoined
  <2>2. e + ((e + n) + e) = (16 + n) + 8
    BY <1>1, <1>9
  <2> QED
    BY <2>1, <2>2 DEF Words
<1>20. frame \in Seq(Bit) /\ Len(frame) = 16 + n
  <2>1. (e + n) + e = 16 + n /\ 16 + n \in Nat
    BY <1>1, <1>9
  <2>2. frame \in [1..(16 + n) -> Bit]
    BY <1>7, <2>1 DEF Words
  <2> QED
    BY <2>1, <2>2, FunctionIsSeq
<1>21. n = Len(Body(m, Total(m))) /\ body = Body(m, Total(m))
  BY DEF n, body
<1>22. /\ End(m) \in Nat /\ End(m) >= 16 /\ End(m) = 16 + Len(Body(m, Total(m)))
       /\ \A i \in 1..Len(Body(m, Total(m))) : Line(m)[16 + i] = Body(m, Total(m))[i]
  BY <1>1, <1>10, <1>16, <1>21
<1>23. /\ Line(m) \in [1..(End(m) + 8) -> Bit]
       /\ \A t \in 1..8 : Line(m)[End(m) + t] = Flag[t]
  BY <1>10, <1>17, <1>19
<1>24. /\ FrameBits[m] \in Seq(Bit) /\ Len(FrameBits[m]) = End(m)
       /\ \A i \in 1..End(m) : Line(m)[8 + i] = FrameBits[m][i]
  BY <1>2, <1>10, <1>12, <1>20
<1> QED
  BY <1>11, <1>18, <1>22, <1>23, <1>24

\* What is left, bit by bit.
LEMMA LeftIs ==
    ASSUME NEW m \in Messages, NEW p \in 0..(End(m) + 8)
    PROVE  /\ Left(m, p) \in Seq(Bit) /\ Len(Left(m, p)) = (End(m) + 8) - p
           /\ p < End(m) + 8 => /\ Left(m, p) # <<>> /\ Head(Left(m, p)) = Line(m)[p + 1]
                                /\ Tail(Left(m, p)) = Left(m, p + 1) /\ Line(m)[p + 1] \in Bit
           /\ p = End(m) + 8 => Left(m, p) = <<>>
           /\ \A i \in 1..((End(m) + 8) - p) : Left(m, p)[i] = Line(m)[p + i]
<1> DEFINE n == End(m) + 8
<1>1. n \in Nat /\ Line(m) \in [1..n -> Bit]
  <2>1. End(m) \in Nat
    BY LineIs
  <2>2. Line(m) \in [1..(End(m) + 8) -> Bit]
    BY LineIs
  <2> QED
    BY <2>1, <2>2
<1> HIDE DEF n
<1>2. Line(m) \in Seq(Bit) /\ Len(Line(m)) = n
  BY <1>1, FunctionIsSeq
<1>3. p \in 0..n
  BY DEF n
<1>4. Left(m, p) = SubSeq(Line(m), p + 1, n)
  BY DEF Left, n
<1>5. /\ Left(m, p) \in Seq(Bit) /\ Len(Left(m, p)) = n - p
      /\ \A i \in 1..(n - p) : Left(m, p)[i] = Line(m)[p + i]
  <2>1. p + 1 \in Int /\ n \in Int /\ \A i \in (p + 1)..n : Line(m)[i] \in Bit
    BY <1>1, <1>3
  <2>2. /\ SubSeq(Line(m), p + 1, n) \in Seq(Bit)
        /\ Len(SubSeq(Line(m), p + 1, n)) = IF p + 1 <= n THEN n - (p + 1) + 1 ELSE 0
        /\ \A i \in 1..(n - (p + 1) + 1) : SubSeq(Line(m), p + 1, n)[i] = Line(m)[(p + 1) + i - 1]
    BY <2>1, SubSeqProperties
  <2>3. n - (p + 1) + 1 = n - p /\ \A i \in 1..(n - p) : (p + 1) + i - 1 = p + i
    BY <1>1, <1>3
  <2> QED
    BY <1>1, <1>3, <1>4, <2>2, <2>3
<1>6. ASSUME p < n
      PROVE  /\ Left(m, p) # <<>> /\ Head(Left(m, p)) = Line(m)[p + 1]
             /\ Tail(Left(m, p)) = Left(m, p + 1) /\ Line(m)[p + 1] \in Bit
  <2>1. p + 1 \in 1..Len(Line(m)) /\ n \in (p + 1)..Len(Line(m))
    BY <1>1, <1>2, <1>3, <1>6
  <2>2. /\ Head(SubSeq(Line(m), p + 1, n)) = Line(m)[p + 1]
        /\ Tail(SubSeq(Line(m), p + 1, n)) = SubSeq(Line(m), (p + 1) + 1, n)
    BY <1>2, <2>1, HeadTailOfSubSeq
  <2>3. Left(m, p) # <<>>
    <3>1. Len(Left(m, p)) # 0
      BY <1>1, <1>3, <1>5, <1>6
    <3> QED
      BY <3>1
  <2>4. Line(m)[p + 1] \in Bit
    BY <1>1, <1>2, <2>1
  <2> QED
    BY <1>4, <2>2, <2>3, <2>4 DEF Left, n
<1>7. ASSUME p = n PROVE Left(m, p) = <<>>
  <2>1. Len(Left(m, p)) = 0 /\ Left(m, p) \in Seq(Bit)
    BY <1>1, <1>5, <1>7
  <2> QED
    BY <2>1
<1> QED
  BY <1>5, <1>6, <1>7 DEF n

LEMMA LeftWhole ==
    ASSUME NEW m \in Messages
    PROVE  /\ Left(m, 0) = Idle \o FrameBits[m]
           /\ Left(m, 8) = <<>> \o FrameBits[m]
<1> DEFINE n == End(m)
<1>1. /\ n \in Nat /\ Line(m) \in [1..(n + 8) -> Bit]
      /\ FrameBits[m] \in Seq(Bit) /\ Len(FrameBits[m]) = n
      /\ \A i \in 1..n : Line(m)[8 + i] = FrameBits[m][i]
  BY LineIs
<1>2. /\ 0 \in 0..(n + 8) /\ 8 \in 0..(n + 8) /\ (n + 8) - 0 = n + 8 /\ (n + 8) - 8 = n
  BY <1>1
<1>3. /\ Left(m, 0) \in Seq(Bit) /\ Len(Left(m, 0)) = n + 8
      /\ \A i \in 1..(n + 8) : Left(m, 0)[i] = Line(m)[0 + i]
  BY <1>2, LeftIs
<1>4. /\ Left(m, 8) \in Seq(Bit) /\ Len(Left(m, 8)) = n
      /\ \A i \in 1..n : Left(m, 8)[i] = Line(m)[8 + i]
  BY <1>2, LeftIs
<1> HIDE DEF n
<1>5. Left(m, 0) = Line(m)
  <2>1. Left(m, 0) \in [1..(n + 8) -> Bit]
    BY <1>3, LenProperties
  <2>2. \A i \in 1..(n + 8) : Left(m, 0)[i] = Line(m)[i]
    BY <1>3
  <2> QED
    BY <1>1, <2>1, <2>2
<1>6. Left(m, 8) = FrameBits[m]
  <2>1. Left(m, 8) \in [1..n -> Bit]
    BY <1>4, LenProperties
  <2>2. FrameBits[m] \in [1..n -> Bit]
    BY <1>1, LenProperties
  <2>3. \A i \in 1..n : Left(m, 8)[i] = FrameBits[m][i]
    BY <1>1, <1>4
  <2> DEFINE left == Left(m, 8)
             frame == FrameBits[m]
  <2>4. /\ left \in [1..n -> Bit] /\ frame \in [1..n -> Bit]
        /\ \A i \in 1..n : left[i] = frame[i]
    BY <2>1, <2>2, <2>3
  <2> HIDE DEF left, frame
  <2>5. left = [i \in 1..n |-> left[i]] /\ frame = [i \in 1..n |-> frame[i]]
    BY <2>4
  <2>6. left = frame
    BY <2>4, <2>5
  <2> QED
    BY <2>6 DEF left, frame
<1>7. <<>> \o FrameBits[m] = FrameBits[m]
  BY <1>1, ConcatEmptySeq
<1> QED
  BY <1>5, <1>6, <1>7 DEF Line

\* Each bit of a packet is at its place, with a zero after the fifth one in a row.
LEMMA PlaceIs ==
    ASSUME NEW m \in Messages, NEW k \in 0..Total(m)
    PROVE  /\ Place(m, k) \in 16..End(m) /\ Ones(m, k) \in 0..4
           /\ k = 0 => Place(m, k) = 16 /\ Ones(m, k) = 0
<1>1. Stuffing(m)[k] \in Partly /\ Stuffing(m)[0] = Nothing
  BY StuffingSteps
<1>2. \A done \in Partly : Len(done.bits) \in Nat /\ done.ones \in 0..4
  BY DEF Partly
<1>3. Len(Body(m, k)) \in Nat /\ Ones(m, k) \in 0..4
  BY <1>1, <1>2 DEF Body, Ones
<1>4. Place(m, k) \in 16..End(m)
  <2>1. /\ End(m) = 16 + Len(Body(m, Total(m))) /\ End(m) \in Nat
        /\ Len(Body(m, k)) <= Len(Body(m, Total(m)))
    BY LineIs, StuffingGrows
  <2>2. Total(m) \in 0..Total(m)
    BY TotalIs
  <2>3. Len(Body(m, Total(m))) \in Nat
    <3>1. Stuffing(m)[Total(m)] \in Partly
      BY <2>2, StuffingSteps
    <3> QED
      BY <1>2, <3>1 DEF Body
  <2> QED
    BY <1>3, <2>1, <2>3 DEF Place
<1>5. Len(Nothing.bits) = 0 /\ Nothing.ones = 0
  BY DEF Nothing
<1> QED
  BY <1>1, <1>3, <1>4, <1>5 DEF Place, Body, Ones

LEMMA PlaceSteps ==
    ASSUME NEW m \in Messages, NEW k \in 0..(Total(m) - 1)
    PROVE  /\ k \in 0..Total(m) /\ k + 1 \in 0..Total(m)
           /\ Place(m, k) < End(m) /\ Line(m)[Place(m, k) + 1] = Data(m)[k + 1]
           /\ Data(m)[k + 1] = 1 /\ Ones(m, k) = 4 =>
                 /\ Ones(m, k + 1) = 0 /\ Place(m, k + 1) = Place(m, k) + 2
                 /\ Line(m)[Place(m, k) + 2] = 0
           /\ ~(Data(m)[k + 1] = 1 /\ Ones(m, k) = 4) =>
                 /\ Ones(m, k + 1) = IF Data(m)[k + 1] = 1 THEN Ones(m, k) + 1 ELSE 0
                 /\ Place(m, k + 1) = Place(m, k) + 1
<1>1. k \in 0..Total(m) /\ k + 1 \in 0..Total(m)
  BY TotalIs
<1> DEFINE done == Stuffing(m)[k]
           next == Stuffing(m)[k + 1]
           bit == Data(m)[k + 1]
           n == Len(Body(m, k))
           all == Body(m, Total(m))
<1>2. done \in Partly /\ bit \in Bit /\ next = InsertZero(done, bit)
  BY <1>1, StuffingSteps
<1>3. done.bits = Body(m, k) /\ next.bits = Body(m, k + 1) /\ done.ones = Ones(m, k) /\ next.ones = Ones(m, k + 1)
  BY DEF Body, Ones
<1>4. n \in Nat
  <2>1. \A part \in Partly : Len(part.bits) \in Nat
    BY DEF Partly
  <2> QED
    BY <1>2, <1>3, <2>1
<1>5. /\ Place(m, k) = 16 + n /\ Place(m, k + 1) = 16 + Len(Body(m, k + 1))
      /\ Len(Body(m, k + 1)) <= Len(all)
      /\ \A i \in 1..Len(Body(m, k + 1)) : all[i] = Body(m, k + 1)[i]
  BY <1>1, StuffingGrows DEF Place
<1>6. /\ End(m) = 16 + Len(all)
      /\ \A i \in 1..Len(all) : Line(m)[16 + i] = all[i]
  BY LineIs
<1>7. End(m) \in Nat
  BY LineIs
<1>8. Len(all) \in Nat
  BY <1>1, PlaceIs, LineIs DEF Place
<1> HIDE DEF done, next, bit, all
<1>9. /\ next.bits[n + 1] = bit
      /\ bit = 1 /\ done.ones = 4 =>
            /\ next.ones = 0 /\ Len(next.bits) = n + 2
            /\ next.bits[n + 2] = 0
      /\ ~(bit = 1 /\ done.ones = 4) =>
            /\ next.ones = IF bit = 1 THEN done.ones + 1 ELSE 0
            /\ Len(next.bits) = n + 1
  BY <1>2, <1>3, InsertZeroIs
<1> HIDE DEF n
<1>10. Line(m)[Place(m, k) + 1] = bit /\ Place(m, k) < End(m)
  <2>1. n + 1 \in 1..Len(Body(m, k + 1)) /\ n + 1 \in 1..Len(all) /\ n + 1 <= Len(all)
    BY <1>3, <1>4, <1>5, <1>8, <1>9
  <2>2. Line(m)[16 + (n + 1)] = bit
    BY <1>3, <1>5, <1>6, <1>9, <2>1
  <2> QED
    BY <1>4, <1>5, <1>6, <1>8, <2>1, <2>2
<1>11. ASSUME bit = 1, done.ones = 4
       PROVE  /\ Ones(m, k + 1) = 0 /\ Place(m, k + 1) = Place(m, k) + 2
              /\ Line(m)[Place(m, k) + 2] = 0
  <2>1. n + 2 \in 1..Len(Body(m, k + 1)) /\ n + 2 \in 1..Len(all)
    BY <1>3, <1>4, <1>5, <1>8, <1>9, <1>11
  <2>2. Line(m)[16 + (n + 2)] = 0
    BY <1>3, <1>5, <1>6, <1>9, <1>11, <2>1
  <2> QED
    BY <1>3, <1>4, <1>5, <1>9, <1>11, <2>2
<1>12. ASSUME ~(bit = 1 /\ done.ones = 4)
       PROVE  /\ Ones(m, k + 1) = IF bit = 1 THEN Ones(m, k) + 1 ELSE 0
              /\ Place(m, k + 1) = Place(m, k) + 1
  BY <1>3, <1>4, <1>5, <1>9, <1>12
<1> QED
  BY <1>1, <1>3, <1>10, <1>11, <1>12 DEF bit


--------------------------------------------------------------------------------
(***************************************************************************)
(* The byte that is being put together, and the ring.                      *)
(***************************************************************************)
\* The first bits of an octet, with the 1 that marks how many there are.
Part(octet, r) == (octet % Weight[r + 1]) * Weight[9 - r] + Weight[8 - r]

\* RecvCurrentByte after k bits of a packet.
Begun(m, k) == IF k % 8 = 0 THEN 128 ELSE Part(Packet(m)[(k \div 8) + 1], k % 8)

\* The first bits of an octet.
HasParts(octet, b, c, d, e, f, g, h, i) ==
    /\ octet % 2 = b
    /\ octet % 4 = b + 2 * c
    /\ octet % 8 = b + 2 * c + 4 * d
    /\ octet % 16 = b + 2 * c + 4 * d + 8 * e
    /\ octet % 32 = b + 2 * c + 4 * d + 8 * e + 16 * f
    /\ octet % 64 = b + 2 * c + 4 * d + 8 * e + 16 * f + 32 * g
    /\ octet % 128 = b + 2 * c + 4 * d + 8 * e + 16 * f + 32 * g + 64 * h

LEMMA PartsOfOctet ==
    \A b, c, d, e, f, g, h, i \in Bit :
        HasParts(Octet(b, c, d, e, f, g, h, i), b, c, d, e, f, g, h, i)
BY DEF Octet, Bit, HasParts

\* A byte that is not complete, and the next one.
LEMMA Halves ==
    ASSUME NEW x \in Nat, NEW y, y = 2 * x PROVE y % 2 = 0 /\ y \div 2 = x
OBVIOUS

\* One bit more.
LEMMA PartSteps ==
    ASSUME NEW octet \in Octets
    PROVE  /\ Part(octet, 1) = 64 + 128 * ByteBits(octet)[1]
           /\ \A r \in 1..6 :
                 /\ Part(octet, r) % 2 = 0
                 /\ Part(octet, r + 1) = (Part(octet, r) \div 2) + 128 * ByteBits(octet)[r + 1]
           /\ Part(octet, 7) % 2 = 1
           /\ octet = (Part(octet, 7) \div 2) + 128 * ByteBits(octet)[8]
           /\ \A r \in 1..7 : Part(octet, r) \in 0..255
<1> DEFINE b == ByteBits(octet)[1]
           c == ByteBits(octet)[2]
           d == ByteBits(octet)[3]
           e == ByteBits(octet)[4]
           f == ByteBits(octet)[5]
           g == ByteBits(octet)[6]
           h == ByteBits(octet)[7]
           i == ByteBits(octet)[8]
<1>1. /\ b \in Bit /\ c \in Bit /\ d \in Bit /\ e \in Bit
      /\ f \in Bit /\ g \in Bit /\ h \in Bit /\ i \in Bit
  BY ByteBitsAre
<1>2. octet = Octet(b, c, d, e, f, g, h, i)
  BY ByteBitsAre, OctetOfBits
<1> HIDE DEF b, c, d, e, f, g, h, i
<1>3. HasParts(octet, b, c, d, e, f, g, h, i)
  BY <1>1, <1>2, PartsOfOctet
<1>4. /\ Part(octet, 1) = (octet % 2) * 128 + 64
      /\ Part(octet, 2) = (octet % 4) * 64 + 32
      /\ Part(octet, 3) = (octet % 8) * 32 + 16
      /\ Part(octet, 4) = (octet % 16) * 16 + 8
      /\ Part(octet, 5) = (octet % 32) * 8 + 4
      /\ Part(octet, 6) = (octet % 64) * 4 + 2
      /\ Part(octet, 7) = (octet % 128) * 2 + 1
  BY DEF Part, Weight
<1> DEFINE p == Part(octet, 1)
           q == Part(octet, 2)
           s == Part(octet, 3)
           t == Part(octet, 4)
           u == Part(octet, 5)
           v == Part(octet, 6)
           w == Part(octet, 7)
<1>5. /\ b \in 0..1 /\ c \in 0..1 /\ d \in 0..1 /\ e \in 0..1
      /\ f \in 0..1 /\ g \in 0..1 /\ h \in 0..1 /\ i \in 0..1
  BY <1>1 DEF Bit
<1>6. /\ p = 128 * b + 64
      /\ q = 64 * b + 128 * c + 32
      /\ s = 32 * b + 64 * c + 128 * d + 16
      /\ t = 16 * b + 32 * c + 64 * d + 128 * e + 8
      /\ u = 8 * b + 16 * c + 32 * d + 64 * e + 128 * f + 4
      /\ v = 4 * b + 8 * c + 16 * d + 32 * e + 64 * f + 128 * g + 2
      /\ w = 2 * b + 4 * c + 8 * d + 16 * e + 32 * f + 64 * g + 128 * h + 1
  BY <1>3, <1>4, <1>5 DEF HasParts
<1>7. octet = b + 2 * c + 4 * d + 8 * e + 16 * f + 32 * g + 64 * h + 128 * i
  BY <1>2 DEF Octet
<1> HIDE DEF p, q, s, t, u, v, w
<1>8. p % 2 = 0 /\ q = (p \div 2) + 128 * c /\ p \in 0..255
  <2> DEFINE x == 64 * b + 32
  <2>1. x \in Nat /\ p = 2 * x
    BY <1>5, <1>6
  <2> HIDE DEF x
  <2>2. p % 2 = 0 /\ p \div 2 = x
    BY <2>1, Halves
  <2> QED
    BY <1>5, <1>6, <2>2 DEF x
<1>9. q % 2 = 0 /\ s = (q \div 2) + 128 * d /\ q \in 0..255
  <2> DEFINE x == 32 * b + 64 * c + 16
  <2>1. x \in Nat /\ q = 2 * x
    BY <1>5, <1>6
  <2> HIDE DEF x
  <2>2. q % 2 = 0 /\ q \div 2 = x
    BY <2>1, Halves
  <2> QED
    BY <1>5, <1>6, <2>2 DEF x
<1>10. s % 2 = 0 /\ t = (s \div 2) + 128 * e /\ s \in 0..255
  <2> DEFINE x == 16 * b + 32 * c + 64 * d + 8
  <2>1. x \in Nat /\ s = 2 * x
    BY <1>5, <1>6
  <2> HIDE DEF x
  <2>2. s % 2 = 0 /\ s \div 2 = x
    BY <2>1, Halves
  <2> QED
    BY <1>5, <1>6, <2>2 DEF x
<1>11. t % 2 = 0 /\ u = (t \div 2) + 128 * f /\ t \in 0..255
  <2> DEFINE x == 8 * b + 16 * c + 32 * d + 64 * e + 4
  <2>1. x \in Nat /\ t = 2 * x
    BY <1>5, <1>6
  <2> HIDE DEF x
  <2>2. t % 2 = 0 /\ t \div 2 = x
    BY <2>1, Halves
  <2> QED
    BY <1>5, <1>6, <2>2 DEF x
<1>12. u % 2 = 0 /\ v = (u \div 2) + 128 * g /\ u \in 0..255
  <2> DEFINE x == 4 * b + 8 * c + 16 * d + 32 * e + 64 * f + 2
  <2>1. x \in Nat /\ u = 2 * x
    BY <1>5, <1>6
  <2> HIDE DEF x
  <2>2. u % 2 = 0 /\ u \div 2 = x
    BY <2>1, Halves
  <2> QED
    BY <1>5, <1>6, <2>2 DEF x
<1>13. v % 2 = 0 /\ w = (v \div 2) + 128 * h /\ v \in 0..255
  <2> DEFINE x == 2 * b + 4 * c + 8 * d + 16 * e + 32 * f + 64 * g + 1
  <2>1. x \in Nat /\ v = 2 * x
    BY <1>5, <1>6
  <2> HIDE DEF x
  <2>2. v % 2 = 0 /\ v \div 2 = x
    BY <2>1, Halves
  <2> QED
    BY <1>5, <1>6, <2>2 DEF x
<1>14. w % 2 = 1 /\ octet = (w \div 2) + 128 * i /\ w \in 0..255
  <2> DEFINE x == b + 2 * c + 4 * d + 8 * e + 16 * f + 32 * g + 64 * h
  <2>1. x \in Nat /\ w = 2 * x + 1
    BY <1>5, <1>6
  <2> HIDE DEF x
  <2>2. w % 2 = 1 /\ w \div 2 = x
    BY <2>1
  <2> QED
    BY <1>5, <1>6, <1>7, <2>2 DEF x
<1>15. \A r \in 1..7 : Part(octet, r) \in 0..255
  <2>1. \A r \in 1..7 : r = 1 \/ r = 2 \/ r = 3 \/ r = 4 \/ r = 5 \/ r = 6 \/ r = 7
    OBVIOUS
  <2> QED
    BY <1>8, <1>9, <1>10, <1>11, <1>12, <1>13, <1>14, <2>1 DEF p, q, s, t, u, v, w
<1>16. \A r \in 1..6 :
          /\ Part(octet, r) % 2 = 0
          /\ Part(octet, r + 1) = (Part(octet, r) \div 2) + 128 * ByteBits(octet)[r + 1]
  <2>1. \A r \in 1..6 : r = 1 \/ r = 2 \/ r = 3 \/ r = 4 \/ r = 5 \/ r = 6
    OBVIOUS
  <2> QED
    BY <1>8, <1>9, <1>10, <1>11, <1>12, <1>13, <2>1
    DEF p, q, s, t, u, v, w, c, d, e, f, g, h
<1> QED
  BY <1>5, <1>6, <1>14, <1>15, <1>16 DEF p, w, b, i

LEMMA BegunSteps ==
    ASSUME NEW m \in Messages, NEW k \in 0..(Total(m) - 1),
           NEW byte, byte = (Begun(m, k) \div 2) + 128 * Data(m)[k + 1]
    PROVE  /\ k % 8 # 7 => /\ Begun(m, k) % 2 = 0 /\ Begun(m, k + 1) = byte
                           /\ (k + 1) \div 8 = k \div 8
           /\ k % 8 = 7 => /\ Begun(m, k) % 2 = 1 /\ Begun(m, k + 1) = 128
                           /\ byte = Packet(m)[(k \div 8) + 1]
                           /\ (k + 1) \div 8 = (k \div 8) + 1
           /\ (k \div 8) + 1 \in 1..Size(m)
<1> DEFINE j == k \div 8
           r == k % 8
           octet == Packet(m)[j + 1]
<1>1. k \in Nat /\ Size(m) \in Nat /\ k < 8 * Size(m)
  BY TotalIs
<1>2. j \in Nat /\ r \in 0..7 /\ k = 8 * j + r /\ j + 1 \in 1..Size(m)
  BY <1>1
<1>3. octet \in Octets
  BY <1>2, PacketOctets
<1>4. Data(m)[k + 1] = ByteBits(octet)[r + 1]
  <2>1. r + 1 \in 1..8 /\ 8 * ((j + 1) - 1) + (r + 1) = k + 1
    BY <1>2
  <2> HIDE DEF j, r
  <2>2. Data(m)[8 * ((j + 1) - 1) + (r + 1)] = ByteBits(Packet(m)[j + 1])[r + 1]
    BY <1>2, <2>1, PacketOctets
  <2> QED
    BY <2>1, <2>2
<1>5. Begun(m, k) = IF r = 0 THEN 128 ELSE Part(octet, r)
  BY DEF Begun
<1>6. r # 7 => (k + 1) % 8 = r + 1 /\ (k + 1) \div 8 = j
  BY <1>1
<1>7. r = 7 => (k + 1) % 8 = 0 /\ (k + 1) \div 8 = j + 1
  BY <1>1
<1>8. r # 7 => Begun(m, k + 1) = Part(octet, r + 1)
  BY <1>2, <1>6 DEF Begun
<1>9. r = 7 => Begun(m, k + 1) = 128
  BY <1>7 DEF Begun
<1> HIDE DEF j, r, octet
<1>10. byte = (Begun(m, k) \div 2) + 128 * ByteBits(octet)[r + 1]
  BY <1>4
<1>11. CASE r = 0
  BY <1>3, <1>5, <1>6, <1>8, <1>10, <1>11, <1>2, PartSteps DEF j, r
<1>12. CASE r \in 1..6
  BY <1>3, <1>5, <1>6, <1>8, <1>10, <1>12, <1>2, PartSteps DEF j, r
<1>13. CASE r = 7
  BY <1>3, <1>5, <1>7, <1>9, <1>10, <1>13, <1>2, PartSteps DEF j, r, octet
<1> QED
  BY <1>2, <1>11, <1>12, <1>13

--------------------------------------------------------------------------------
\* How far an index is ahead of another.
Gap(at, index) == Wrap(at - index + IndexLimit)
Indices == 0..(IndexLimit - 1)

LEMMA Limits ==
    /\ RingSize \in Nat /\ RingSize > 0 /\ IndexLimit \in Nat /\ IndexLimit > RingSize
    /\ INVALID_PACKET = IndexLimit - 1 /\ MaxPacket <= RingSize /\ MaxPacket \in Nat
    /\ IndexLimit = RingSize * (IndexLimit \div RingSize) /\ IndexLimit \div RingSize \in Nat
    /\ QueueSize \in Nat /\ QueueSize > 0
<1>1. /\ RingSize \in Nat /\ RingSize > 0 /\ IndexLimit \in Nat /\ IndexLimit > RingSize
      /\ IndexLimit % RingSize = 0
  BY RingAssumption
<1>2. IndexLimit = RingSize * (IndexLimit \div RingSize) /\ IndexLimit \div RingSize \in Nat
  BY <1>1
<1> QED
  BY <1>1, <1>2, RingAssumption DEF INVALID_PACKET

LEMMA WrapIs ==
    /\ \A n \in Indices : Wrap(n) = n /\ Wrap(n + IndexLimit) = n
    /\ \A n \in Nat : n < IndexLimit => Wrap(n) = n
    /\ \A n \in Nat : n >= IndexLimit /\ n < 2 * IndexLimit => Wrap(n) = n - IndexLimit
    /\ \A n \in Nat : Wrap(n) \in Indices
BY Limits DEF Wrap, Indices

LEMMA GapIs ==
    ASSUME NEW at \in Indices, NEW index \in Indices
    PROVE  /\ Gap(at, index) = IF at >= index THEN at - index ELSE at - index + IndexLimit
           /\ Gap(at, index) \in Indices
<1>1. at \in Nat /\ index \in Nat /\ at < IndexLimit /\ index < IndexLimit /\ IndexLimit \in Nat
  BY Limits DEF Indices
<1>2. CASE at >= index
  <2>1. at - index + IndexLimit \in Nat /\ at - index + IndexLimit >= IndexLimit
        /\ at - index + IndexLimit < 2 * IndexLimit
    BY <1>1, <1>2
  <2>2. Gap(at, index) = (at - index + IndexLimit) - IndexLimit
    BY <2>1, WrapIs DEF Gap
  <2> QED
    BY <1>1, <1>2, <2>2 DEF Indices
<1>3. CASE ~(at >= index)
  <2>1. at - index + IndexLimit \in Nat /\ at - index + IndexLimit < IndexLimit
    BY <1>1, <1>3
  <2>2. Gap(at, index) = at - index + IndexLimit
    BY <2>1, WrapIs DEF Gap
  <2> QED
    BY <1>1, <1>3, <2>1, <2>2 DEF Indices
<1> QED
  BY <1>2, <1>3

LEMMA NextIs ==
    ASSUME NEW at \in Indices
    PROVE  /\ Wrap(at + 1) \in Indices
           /\ Wrap(at + 1) = IF at + 1 = IndexLimit THEN 0 ELSE at + 1
<1>1. at \in Nat /\ at < IndexLimit /\ IndexLimit \in Nat /\ IndexLimit > 1
  BY Limits DEF Indices
<1>2. at + 1 \in Nat /\ at + 1 < 2 * IndexLimit
  BY <1>1
<1>3. CASE at + 1 = IndexLimit
  BY <1>1, <1>2, <1>3, WrapIs
<1>4. CASE at + 1 # IndexLimit
  BY <1>1, <1>2, <1>4, WrapIs
<1> QED
  BY <1>3, <1>4

\* A byte that is written takes the ring one step further from every packet.
LEMMA GapGrows ==
    ASSUME NEW at \in Indices, NEW index \in Indices, Gap(at, index) < RingSize
    PROVE  Gap(Wrap(at + 1), index) = Gap(at, index) + 1
<1> DEFINE next == Wrap(at + 1)
<1>1. next \in Indices /\ next = IF at + 1 = IndexLimit THEN 0 ELSE at + 1
  BY NextIs
<1> HIDE DEF next
<1>2. /\ Gap(next, index) = IF next >= index THEN next - index ELSE next - index + IndexLimit
      /\ Gap(at, index) = IF at >= index THEN at - index ELSE at - index + IndexLimit
  BY <1>1, GapIs
<1>3. /\ at \in Nat /\ index \in Nat /\ at < IndexLimit /\ index < IndexLimit
      /\ IndexLimit \in Nat /\ IndexLimit > RingSize /\ RingSize \in Nat
  BY Limits DEF Indices
<1>4. Gap(next, index) = Gap(at, index) + 1
  BY <1>1, <1>2, <1>3
<1> QED
  BY <1>4 DEF next

LEMMA GapNothing ==
    ASSUME NEW at \in Indices PROVE Gap(at, at) = 0
BY GapIs, Limits DEF Indices

\* The places of a packet in the ring.
LEMMA GapInside ==
    ASSUME NEW at \in Indices, NEW start \in Indices, NEW finish \in Indices,
           Gap(at, finish) <= Gap(at, start)
    PROVE  /\ Gap(finish, start) = Gap(at, start) - Gap(at, finish)
           /\ \A i \in 1..Gap(finish, start) :
                 /\ Wrap(start + i - 1) \in Indices
                 /\ Gap(at, Wrap(start + i - 1)) = Gap(at, start) - (i - 1)
<1>1. /\ at \in Nat /\ start \in Nat /\ finish \in Nat /\ IndexLimit \in Nat
      /\ at < IndexLimit /\ start < IndexLimit /\ finish < IndexLimit
  BY Limits DEF Indices
<1>2. /\ Gap(at, start) = IF at >= start THEN at - start ELSE at - start + IndexLimit
      /\ Gap(at, finish) = IF at >= finish THEN at - finish ELSE at - finish + IndexLimit
      /\ Gap(finish, start) = IF finish >= start THEN finish - start ELSE finish - start + IndexLimit
  BY GapIs
<1>3. Gap(finish, start) = Gap(at, start) - Gap(at, finish)
  BY <1>1, <1>2
<1>4. ASSUME NEW i \in 1..Gap(finish, start)
      PROVE  /\ Wrap(start + i - 1) \in Indices
             /\ Gap(at, Wrap(start + i - 1)) = Gap(at, start) - (i - 1)
  <2> DEFINE n == start + i - 1
             x == Wrap(n)
  <2>1. n \in Nat /\ n < 2 * IndexLimit /\ i - 1 < Gap(at, start) /\ i - 1 \in Nat /\ n = start + (i - 1)
    BY <1>1, <1>2, <1>3
  <2> HIDE DEF n
  <2>2. x \in Indices /\ (n < IndexLimit => x = n) /\ (n >= IndexLimit => x = n - IndexLimit)
    BY <2>1, WrapIs
  <2> HIDE DEF x
  <2>3. Gap(at, x) = IF at >= x THEN at - x ELSE at - x + IndexLimit
    BY <2>2, GapIs
  <2>4. Gap(at, x) = Gap(at, start) - (i - 1)
    BY <1>1, <1>2, <2>1, <2>2, <2>3
  <2> QED
    BY <2>2, <2>4 DEF n, x
<1> QED
  BY <1>3, <1>4

LEMMA NoMultiple ==
    ASSUME NEW size \in Nat, NEW count \in Int, size * count > 0, size * count < size
    PROVE  FALSE
<1>1. CASE count <= 0
  <2>1. size * count <= 0
    BY <1>1
  <2> QED
    BY <2>1
<1>2. CASE count >= 1
  <2>1. size * count >= size
    BY <1>2
  <2> QED
    BY <2>1
<1> QED
  BY <1>1, <1>2

\* The byte that is written next is not one of a packet that is near enough.
LEMMA OtherPlace ==
    ASSUME NEW at \in Indices, NEW index \in Indices,
           Gap(at, index) > 0, Gap(at, index) < RingSize
    PROVE  index % RingSize # at % RingSize
<1> SUFFICES ASSUME index % RingSize = at % RingSize PROVE FALSE
  OBVIOUS
<1> DEFINE a == at \div RingSize
           b == index \div RingSize
           q == IndexLimit \div RingSize
<1>1. /\ at \in Nat /\ index \in Nat /\ RingSize \in Nat /\ RingSize > 0 /\ IndexLimit \in Nat
      /\ at < IndexLimit /\ index < IndexLimit /\ IndexLimit = RingSize * q /\ q \in Nat
  BY Limits DEF Indices
<1>2. /\ at = RingSize * a + (at % RingSize) /\ a \in Int
      /\ index = RingSize * b + (index % RingSize) /\ b \in Int
      /\ at % RingSize \in Nat
  BY <1>1
<1> HIDE DEF a, b, q
<1>3. at - index = RingSize * (a - b) /\ a - b \in Int
  BY <1>1, <1>2
<1>4. Gap(at, index) = IF at >= index THEN at - index ELSE at - index + IndexLimit
  BY GapIs
<1>5. CASE at >= index
  BY <1>1, <1>3, <1>4, <1>5, NoMultiple
<1>6. CASE ~(at >= index)
  <2>1. at - index + IndexLimit = RingSize * ((a - b) + q) /\ (a - b) + q \in Int
    BY <1>1, <1>3
  <2> QED
    BY <1>1, <1>4, <1>6, <2>1, NoMultiple
<1> QED
  BY <1>5, <1>6

\* Neither is any byte of a packet whose beginning is near enough.
LEMMA PacketUntouched ==
    ASSUME NEW at \in Indices, NEW start \in Indices, NEW finish \in Indices,
           Gap(at, finish) <= Gap(at, start), Gap(at, start) < RingSize,
           NEW i \in 1..Gap(finish, start)
    PROVE  /\ Wrap(start + i - 1) % RingSize # at % RingSize
           /\ Wrap(start + i - 1) % RingSize \in 0..(RingSize - 1)
<1> DEFINE x == Wrap(start + i - 1)
<1>1. x \in Indices /\ Gap(at, x) = Gap(at, start) - (i - 1)
  BY GapInside
<1>2. Gap(finish, start) = Gap(at, start) - Gap(at, finish)
  BY GapInside
<1>3. Gap(at, start) \in Nat /\ Gap(at, finish) \in Nat
  BY GapIs DEF Indices
<1> HIDE DEF x
<1>4. Gap(at, x) > 0 /\ Gap(at, x) < RingSize
  BY <1>1, <1>2, <1>3, Limits
<1>5. x % RingSize # at % RingSize
  BY <1>1, <1>4, OtherPlace
<1>6. x % RingSize \in 0..(RingSize - 1)
  BY <1>1, Limits DEF Indices
<1> QED
  BY <1>5, <1>6 DEF x


--------------------------------------------------------------------------------
(***************************************************************************)
(* Types.                                                                  *)
(***************************************************************************)
Pairs == (0..INVALID_PACKET) \X (0..INVALID_PACKET)

TypeInv ==
    /\ TypeOK
    /\ bits # <<>> => Len(sent) \in DOMAIN sent

LEMMA StoredByte ==
    ASSUME NEW byte \in 0..255, NEW bit \in Bit
    PROVE  byte \div 2 + 128 * bit \in 0..255
BY DEF Bit

\* What the interrupt does with a bit it stores.
LEMMA StoreBitType ==
    ASSUME TypeOK, NEW bit \in Bit, StoreBit(bit)
    PROVE  /\ RecvCurrentByte' \in 0..255 /\ RingBufIndex' \in Indices
           /\ RecvRingBuff' \in [0..(RingSize - 1) -> 0..255]
<1>1. /\ RecvCurrentByte \in 0..255 /\ RingBufIndex \in Indices
      /\ RecvRingBuff \in [0..(RingSize - 1) -> 0..255]
  BY DEF TypeOK, Indices
<1>2. RecvCurrentByte \div 2 + 128 * bit \in 0..255
  BY <1>1, StoredByte
<1>3. Wrap(RingBufIndex + 1) \in Indices
  BY <1>1, NextIs
<1>4. 128 \in 0..255
  OBVIOUS
<1>5. CASE RecvCurrentByte % 2 = 1
  <2>1. /\ RecvRingBuff' = [RecvRingBuff EXCEPT ![RingBufIndex % RingSize]
                               = RecvCurrentByte \div 2 + 128 * bit]
        /\ RingBufIndex' = Wrap(RingBufIndex + 1) /\ RecvCurrentByte' = 128
    BY <1>5 DEF StoreBit
  <2> QED
    BY <1>1, <1>2, <1>3, <1>4, <2>1
<1>6. CASE ~(RecvCurrentByte % 2 = 1)
  BY <1>1, <1>2, <1>6 DEF StoreBit
<1> QED
  BY <1>5, <1>6

LEMMA QueueType ==
    ASSUME TypeOK, NEW pair \in Pairs, Len(RecvEventQueue) < QueueSize
    PROVE  /\ Append(RecvEventQueue, pair) \in Seq(Pairs)
           /\ Len(Append(RecvEventQueue, pair)) <= QueueSize
<1>1. RecvEventQueue \in Seq(Pairs) /\ QueueSize \in Nat
  BY Limits DEF TypeOK, Pairs
<1>2. /\ Append(RecvEventQueue, pair) \in Seq(Pairs)
      /\ Len(Append(RecvEventQueue, pair)) = Len(RecvEventQueue) + 1
  BY <1>1, AppendProperties
<1>3. Len(RecvEventQueue) \in Nat
  BY <1>1, LenProperties
<1> QED
  BY <1>1, <1>2, <1>3

LEMMA FoundFlagType ==
    ASSUME TypeOK, FoundFlag
    PROVE  /\ RecvCurrentByte' \in 0..255 /\ RingBufIndex' \in Indices /\ StartPacket' \in Indices
           /\ RecvRingBuff' \in [0..(RingSize - 1) -> 0..255]
           /\ RecvEventQueue' \in Seq(Pairs) /\ Len(RecvEventQueue') <= QueueSize
<1>1. /\ RingBufIndex \in Indices /\ StartPacket \in Indices
      /\ RecvRingBuff \in [0..(RingSize - 1) -> 0..255]
      /\ RecvEventQueue \in Seq(Pairs) /\ Len(RecvEventQueue) <= QueueSize
  BY DEF TypeOK, Indices, Pairs
<1>2. RingBufIndex' = RingBufIndex /\ StartPacket' = RingBufIndex /\ RecvRingBuff' = RecvRingBuff
      /\ RecvCurrentByte' = 128
  BY DEF FoundFlag
<1>3. <<StartPacket, RingBufIndex>> \in Pairs
  BY <1>1 DEF Pairs, Indices, INVALID_PACKET
<1>4. /\ RecvEventQueue' \in Seq(Pairs) /\ Len(RecvEventQueue') <= QueueSize
  <2>1. CASE RecvEventQueue' = Append(RecvEventQueue, <<StartPacket, RingBufIndex>>) /\ Len(RecvEventQueue) < QueueSize
    BY <1>3, <2>1, QueueType
  <2>2. CASE RecvEventQueue' = RecvEventQueue
    BY <1>1, <2>2
  <2> QED
    BY <2>1, <2>2 DEF FoundFlag, QueuePacket
<1> QED
  BY <1>1, <1>2, <1>4

\* One bit, as the interrupt sees it.
LEMMA CallbackType ==
    ASSUME TypeOK, NEW bit \in Bit, RecvCallback(bit)
    PROVE  /\ RunCount' \in Nat
           /\ RecvCurrentByte' \in 0..255 /\ RingBufIndex' \in Indices /\ StartPacket' \in Indices
           /\ RecvRingBuff' \in [0..(RingSize - 1) -> 0..255]
           /\ RecvEventQueue' \in Seq(Pairs) /\ Len(RecvEventQueue') <= QueueSize
<1>1. /\ RecvCurrentByte \in 0..255 /\ RingBufIndex \in Indices /\ StartPacket \in Indices
      /\ RecvRingBuff \in [0..(RingSize - 1) -> 0..255] /\ RunCount \in Nat
      /\ RecvEventQueue \in Seq(Pairs) /\ Len(RecvEventQueue) <= QueueSize
  BY DEF TypeOK, Indices, Pairs
<1>2. RunCount' \in Nat
  BY <1>1 DEF RecvCallback
<1>3. CASE StoreBit(bit) /\ UNCHANGED <<StartPacket, RecvEventQueue>>
  BY <1>1, <1>2, <1>3, StoreBitType
<1>4. CASE FoundFlag
  BY <1>2, <1>4, FoundFlagType
<1>5. CASE /\ StartPacket' = INVALID_PACKET
           /\ UNCHANGED <<RecvCurrentByte, RingBufIndex, RecvRingBuff, RecvEventQueue>>
  <2>1. INVALID_PACKET \in Indices
    BY Limits DEF Indices
  <2> QED
    BY <1>1, <1>2, <1>5, <2>1
<1>6. CASE UNCHANGED <<RecvCurrentByte, RingBufIndex, StartPacket, RecvRingBuff, RecvEventQueue>>
  BY <1>1, <1>2, <1>6
<1> QED
  BY <1>3, <1>4, <1>5, <1>6 DEF RecvCallback, EndOfRun

\* A packet as it is read from the ring.
LEMMA PacketDataType ==
    ASSUME TypeOK, NEW packet \in Pairs
    PROVE  /\ PacketData(packet) \in Seq(0..255) /\ Gap(packet[2], packet[1]) \in Nat
           /\ Len(PacketData(packet)) = Gap(packet[2], packet[1])
           /\ Message(packet) \in Seq(0..255)
<1>1. packet[1] \in Indices /\ packet[2] \in Indices
  BY DEF Pairs, Indices, INVALID_PACKET
<1> DEFINE n == Gap(packet[2], packet[1])
           data == PacketData(packet)
<1>2. n \in Nat
  BY <1>1, GapIs DEF Indices
<1>3. ASSUME NEW i \in 1..n
      PROVE  RecvRingBuff[Wrap(packet[1] + i - 1) % RingSize] \in 0..255
  <2>1. packet[1] + i - 1 \in Nat
    BY <1>1, <1>2 DEF Indices
  <2>2. Wrap(packet[1] + i - 1) \in Nat
    BY <2>1, WrapIs DEF Indices
  <2>3. Wrap(packet[1] + i - 1) % RingSize \in 0..(RingSize - 1)
    BY <2>2, Limits
  <2> QED
    BY <2>3 DEF TypeOK
<1>4. data = [i \in 1..n |-> RecvRingBuff[Wrap(packet[1] + i - 1) % RingSize]]
  BY DEF PacketData, Gap
<1> HIDE DEF n, data
<1>5. data \in [1..n -> 0..255]
  BY <1>3, <1>4
<1>6. data \in Seq(0..255) /\ Len(data) = n
  BY <1>2, <1>5, FunctionIsSeq
<1>7. SubSeq(data, 1, n - 2) \in Seq(0..255)
  <2>1. \A i \in 1..(n - 2) : data[i] \in 0..255
    BY <1>2, <1>5
  <2>2. 1 \in Int /\ n - 2 \in Int
    BY <1>2
  <2> QED
    BY <2>1, <2>2, SubSeqProperties
<1>8. Message(packet) = SubSeq(data, 1, n - 2)
  BY <1>6 DEF Message, data
<1> QED
  BY <1>2, <1>6, <1>7, <1>8 DEF n, data

LEMMA TypeInit == Init => TypeInv
<1> SUFFICES ASSUME Init PROVE TypeInv
  OBVIOUS
<1>1. RingBufIndex \in 0..(IndexLimit - 1) /\ INVALID_PACKET \in 0..(IndexLimit - 1)
  BY Limits, RingAssumption DEF Init
<1>2. 0 \in 0..MaxErrors /\ 0 <= MaxFrames /\ 0 <= QueueSize
  BY BoundsAssumption, Limits
<1>3. RecvRingBuff \in [0..(RingSize - 1) -> 0..255]
  BY DEF Init
<1>4. <<>> \in Seq(Bit) /\ <<>> \in Seq(Messages) /\ <<>> \in Seq(Pairs) /\ <<>> \in Seq(Seq(0..255)) /\ Len(<<>>) = 0
  OBVIOUS
<1> QED
  BY <1>1, <1>2, <1>3, <1>4 DEF Init, TypeInv, TypeOK, Pairs

LEMMA TypeNext == TypeInv /\ [Next]_vars => TypeInv'
<1> SUFFICES ASSUME TypeInv, [Next]_vars PROVE TypeInv'
  OBVIOUS
<1>1. TypeOK /\ (bits # <<>> => Len(sent) \in DOMAIN sent)
  BY DEF TypeInv
<1>2. /\ sent \in Seq(Messages) /\ Len(sent) \in Nat /\ DOMAIN sent = 1..Len(sent)
      /\ lost \subseteq DOMAIN sent
  BY <1>1, LenProperties DEF TypeOK
<1>3. ASSUME NEW m \in Messages, NEW idle \in BOOLEAN, SendFrame(m, idle) PROVE TypeInv'
  <2>1. /\ sent' = Append(sent, m) /\ lost' = lost /\ Len(sent) < MaxFrames
        /\ bits' = (IF idle THEN Idle ELSE <<>>) \o FrameBits[m]
        /\ UNCHANGED <<errors, interruptVars, RecvEventQueue, processed>>
    BY <1>3 DEF SendFrame
  <2>2. sent' \in Seq(Messages) /\ Len(sent') = Len(sent) + 1
    BY <1>2, <2>1, AppendProperties
  <2>3. DOMAIN sent' = 1..(Len(sent) + 1)
    BY <2>2, LenProperties
  <2>4. bits' \in Seq(Bit)
    <3>1. 0 \in 0..(End(m) + 8) /\ 8 \in 0..(End(m) + 8)
      <4>1. End(m) \in Nat
        BY LineIs
      <4> QED
        BY <4>1
    <3> QED
      BY <2>1, <3>1, LeftIs, LeftWhole
  <2>5. Len(sent') <= MaxFrames /\ lost' \subseteq DOMAIN sent' /\ Len(sent') \in DOMAIN sent'
    BY <1>2, <2>1, <2>2, <2>3, BoundsAssumption
  <2> QED
    BY <1>1, <2>1, <2>2, <2>4, <2>5 DEF TypeInv, TypeOK, interruptVars
<1>4. CASE AbortFrame
  <2>1. bits' = Idle /\ lost' = lost \cup {Len(sent)} /\ bits # <<>>
        /\ UNCHANGED <<sent, errors, interruptVars, RecvEventQueue, processed>>
    BY <1>4 DEF AbortFrame, Flag
  <2>2. Idle \in Seq(Bit)
    BY DEF Idle, Bit
  <2> QED
    BY <1>1, <1>2, <2>1, <2>2 DEF TypeInv, TypeOK, interruptVars
<1>5. ASSUME NEW wrong \in BOOLEAN, ReceiveBit(wrong) PROVE TypeInv'
  <2> DEFINE bit == IF wrong THEN 1 - Head(bits) ELSE Head(bits)
  <2>1. /\ bits # <<>> /\ (wrong => errors < MaxErrors)
        /\ errors' = IF wrong THEN errors + 1 ELSE errors
        /\ bits' = Tail(bits) /\ RecvCallback(bit)
        /\ UNCHANGED <<sent, processed>>
        /\ lost' = lost \cup {Len(sent)} \/ lost' = lost
    BY <1>5 DEF ReceiveBit
  <2>2. bits \in Seq(Bit)
    BY <1>1 DEF TypeOK
  <2>3. Head(bits) \in Bit /\ bits' \in Seq(Bit)
    BY <2>1, <2>2, HeadTailProperties
  <2>4. bit \in Bit
    BY <2>3 DEF Bit
  <2> HIDE DEF bit
  <2>5. /\ RunCount' \in Nat
        /\ RecvCurrentByte' \in 0..255 /\ RingBufIndex' \in Indices /\ StartPacket' \in Indices
        /\ RecvRingBuff' \in [0..(RingSize - 1) -> 0..255]
        /\ RecvEventQueue' \in Seq(Pairs) /\ Len(RecvEventQueue') <= QueueSize
    BY <1>1, <2>1, <2>4, CallbackType
  <2>6. errors' \in 0..MaxErrors
    BY <1>1, <2>1, BoundsAssumption DEF TypeOK
  <2>7. lost' \subseteq DOMAIN sent' /\ Len(sent') \in DOMAIN sent'
    BY <1>1, <1>2, <2>1
  <2> QED
    BY <1>1, <2>1, <2>3, <2>5, <2>6, <2>7 DEF TypeInv, TypeOK, Indices, Pairs
<1>6. CASE ReadPacket
  <2> DEFINE packet == Head(RecvEventQueue)
  <2>1. /\ RecvEventQueue # <<>> /\ RecvEventQueue' = Tail(RecvEventQueue)
        /\ processed' = processed \/ processed' = Append(processed, Message(packet))
        /\ UNCHANGED <<lineVars, interruptVars>>
    BY <1>6 DEF ReadPacket
  <2>2. RecvEventQueue \in Seq(Pairs) /\ Len(RecvEventQueue) <= QueueSize
    BY <1>1 DEF TypeOK, Pairs
  <2>3. /\ packet \in Pairs /\ RecvEventQueue' \in Seq(Pairs)
        /\ Len(RecvEventQueue') = Len(RecvEventQueue) - 1 /\ Len(RecvEventQueue) \in Nat
    BY <2>1, <2>2, HeadTailProperties, LenProperties
  <2>4. Message(packet) \in Seq(0..255)
    BY <1>1, <2>3, PacketDataType
  <2>5. processed' \in Seq(Seq(0..255))
    <3> DEFINE Texts == Seq(0..255)
    <3>1. processed \in Seq(Texts) /\ Message(packet) \in Texts
      BY <1>1, <2>4 DEF TypeOK
    <3> HIDE DEF Texts
    <3>2. Append(processed, Message(packet)) \in Seq(Texts)
      BY <3>1, AppendProperties
    <3> QED
      BY <2>1, <3>1, <3>2 DEF Texts
  <2>6. Len(RecvEventQueue') <= QueueSize
    BY <2>2, <2>3, Limits
  <2> QED
    BY <1>1, <2>1, <2>3, <2>5, <2>6 DEF TypeInv, TypeOK, Pairs, lineVars, interruptVars
<1>7. CASE UNCHANGED vars
  BY <1>1, <1>7 DEF TypeInv, TypeOK, vars, lineVars, interruptVars
<1> QED
  BY <1>3, <1>4, <1>5, <1>6, <1>7 DEF Next

\* Whatever comes over the line, even with wrong bits, the interrupt and MessageTask keep
\* to their buffers: bytes are bytes, indices stay in their range, and the queue does not
\* overflow (LowLevel.cpp 179-205, 253-337).
THEOREM FramingTypeCorrect == Spec => []TypeOK
<1>1. TypeInv => TypeOK
  BY DEF TypeInv
<1> QED
  BY <1>1, TypeInit, TypeNext, PTL DEF Spec


--------------------------------------------------------------------------------
(***************************************************************************)
(* The ring: the packets that wait, and the one that is coming, are near   *)
(* enough to RingBufIndex, the oldest farthest.                            *)
(***************************************************************************)
Behind(index) == Gap(RingBufIndex, index)
Begins(i) == RecvEventQueue[i][1]
Ends(i) == RecvEventQueue[i][2]

RingInv ==
    /\ \A i \in DOMAIN RecvEventQueue :
          /\ Begins(i) # INVALID_PACKET
          /\ Behind(Ends(i)) <= Behind(Begins(i)) /\ Behind(Begins(i)) <= RingSize
    /\ \A i, j \in DOMAIN RecvEventQueue : i < j => Behind(Begins(j)) <= Behind(Begins(i))
    /\ StartPacket # INVALID_PACKET =>
          /\ Behind(StartPacket) <= RingSize
          /\ \A i \in DOMAIN RecvEventQueue : Behind(StartPacket) <= Behind(Begins(i))

LEMMA QueueIs ==
    ASSUME TypeOK
    PROVE  /\ RecvEventQueue \in Seq(Pairs) /\ Len(RecvEventQueue) \in Nat
           /\ DOMAIN RecvEventQueue = 1..Len(RecvEventQueue)
           /\ RingBufIndex \in Indices /\ StartPacket \in Indices
           /\ \A i \in DOMAIN RecvEventQueue :
                 RecvEventQueue[i] \in Pairs /\ Begins(i) \in Indices /\ Ends(i) \in Indices
<1>1. RecvEventQueue \in Seq(Pairs) /\ RingBufIndex \in Indices /\ StartPacket \in Indices
  BY DEF TypeOK, Pairs, Indices
<1>2. Len(RecvEventQueue) \in Nat /\ DOMAIN RecvEventQueue = 1..Len(RecvEventQueue)
  BY <1>1, LenProperties
<1>3. \A i \in DOMAIN RecvEventQueue : RecvEventQueue[i] \in Pairs
  BY <1>1, <1>2, ElementOfSeq
<1>4. \A pair \in Pairs : pair[1] \in Indices /\ pair[2] \in Indices
  BY DEF Pairs, Indices, INVALID_PACKET
<1> QED
  BY <1>1, <1>2, <1>3, <1>4 DEF Begins, Ends

\* Room for the oldest is room for all.
LEMMA RoomForAll ==
    ASSUME TypeOK, RingInv, RingHasRoom
    PROVE  /\ \A i \in DOMAIN RecvEventQueue : Behind(Begins(i)) < RingSize
           /\ StartPacket # INVALID_PACKET => Behind(StartPacket) < RingSize
<1>1. \A index \in Indices : Behind(index) \in Nat
  BY QueueIs, GapIs DEF Behind, Indices
<1>2. RingSize \in Nat
  BY Limits
<1>3. CASE RecvEventQueue = <<>>
  <2>1. DOMAIN RecvEventQueue = {}
    BY <1>3
  <2>2. Oldest = StartPacket
    BY <1>3 DEF Oldest
  <2> QED
    BY <2>1, <2>2 DEF RingHasRoom, Behind, Gap
<1>4. CASE RecvEventQueue # <<>>
  <2>1. Oldest = Begins(1) /\ 1 \in DOMAIN RecvEventQueue
    <3>1. Head(RecvEventQueue) = RecvEventQueue[1]
      BY DEF Head
    <3>2. Len(RecvEventQueue) >= 1
      BY <1>4, QueueIs
    <3> QED
      BY <1>4, <3>1, <3>2, QueueIs DEF Oldest, Begins
  <2>2. Behind(Begins(1)) < RingSize
    BY <2>1 DEF RingHasRoom, RingInv, Behind, Gap
  <2>3. \A i \in DOMAIN RecvEventQueue : i = 1 \/ 1 < i
    BY QueueIs
  <2>4. \A i \in DOMAIN RecvEventQueue : Behind(Begins(i)) <= Behind(Begins(1))
    BY <1>1, <2>1, <2>3, QueueIs DEF RingInv
  <2>5. \A i \in DOMAIN RecvEventQueue : Behind(Begins(i)) \in Nat
    BY <1>1, QueueIs
  <2>6. StartPacket # INVALID_PACKET => Behind(StartPacket) <= Behind(Begins(1))
    BY <2>1 DEF RingInv
  <2>7. Behind(StartPacket) \in Nat
    BY <1>1, QueueIs
  <2> QED
    BY <1>2, <2>1, <2>2, <2>4, <2>5, <2>6, <2>7
<1> QED
  BY <1>3, <1>4

\* What a bit that is stored changes.
LEMMA StoreBitIs ==
    ASSUME TypeOK, NEW bit \in Bit, StoreBit(bit),
           NEW byte, byte = (RecvCurrentByte \div 2) + 128 * bit
    PROVE  /\ RecvCurrentByte % 2 = 0 => /\ RecvCurrentByte' = byte
                                         /\ RecvRingBuff' = RecvRingBuff
                                         /\ RingBufIndex' = RingBufIndex
           /\ RecvCurrentByte % 2 = 1 =>
                 /\ RingHasRoom /\ RingBufIndex' = Wrap(RingBufIndex + 1) /\ RecvCurrentByte' = 128
                 /\ RecvRingBuff' = [RecvRingBuff EXCEPT ![RingBufIndex % RingSize] = byte]
           /\ RecvCurrentByte % 2 = 0 \/ RecvCurrentByte % 2 = 1
<1>1. RecvCurrentByte % 2 = 0 \/ RecvCurrentByte % 2 = 1
  BY DEF TypeOK
<1> QED
  BY <1>1 DEF StoreBit

\* The places of the packets in the ring when a bit is stored.
LEMMA StoreBitRing ==
    ASSUME TypeOK, RingInv, NEW bit \in Bit, StoreBit(bit),
           UNCHANGED <<StartPacket, RecvEventQueue>>
    PROVE  RingInv'
<1> DEFINE byte == (RecvCurrentByte \div 2) + 128 * bit
<1>1. CASE RecvCurrentByte % 2 = 0
  BY <1>1, StoreBitIs DEF RingInv, Behind, Begins, Ends
<1>2. CASE RecvCurrentByte % 2 = 1
  <2>1. RingHasRoom /\ RingBufIndex' = Wrap(RingBufIndex + 1)
    BY <1>2, StoreBitIs
  <2>2. /\ \A i \in DOMAIN RecvEventQueue : Behind(Begins(i)) < RingSize
        /\ StartPacket # INVALID_PACKET => Behind(StartPacket) < RingSize
    BY <2>1, RoomForAll
  <2>3. ASSUME NEW index \in Indices, Behind(index) < RingSize
        PROVE  Gap(RingBufIndex', index) = Behind(index) + 1 /\ Behind(index) \in Nat
    BY <2>1, <2>3, QueueIs, GapGrows, GapIs DEF Behind, Indices
  <2>4. \A i \in DOMAIN RecvEventQueue :
            /\ Begins(i) \in Indices /\ Ends(i) \in Indices /\ Begins(i) # INVALID_PACKET
            /\ Behind(Begins(i)) \in Nat /\ Behind(Ends(i)) \in Nat
            /\ Behind(Ends(i)) <= Behind(Begins(i)) /\ Behind(Ends(i)) < RingSize
    <3>1. \A i \in DOMAIN RecvEventQueue :
              /\ Begins(i) \in Indices /\ Ends(i) \in Indices /\ Begins(i) # INVALID_PACKET
              /\ Behind(Ends(i)) <= Behind(Begins(i))
      BY QueueIs DEF RingInv
    <3>2. \A i \in DOMAIN RecvEventQueue : Behind(Begins(i)) \in Nat /\ Behind(Ends(i)) \in Nat
      BY <3>1, QueueIs, GapIs DEF Behind, Indices
    <3> QED
      BY <2>2, <3>1, <3>2, Limits
  <2>5. \A i \in DOMAIN RecvEventQueue :
            /\ Gap(RingBufIndex', Begins(i)) = Behind(Begins(i)) + 1
            /\ Gap(RingBufIndex', Ends(i)) = Behind(Ends(i)) + 1
    BY <2>2, <2>3, <2>4
  <2>6. /\ \A i \in DOMAIN RecvEventQueue' : Begins(i)' = Begins(i) /\ Ends(i)' = Ends(i)
        /\ DOMAIN RecvEventQueue' = DOMAIN RecvEventQueue /\ StartPacket' = StartPacket
    BY DEF Begins, Ends
  <2>7. \A i \in DOMAIN RecvEventQueue' :
            /\ Begins(i)' # INVALID_PACKET
            /\ Behind(Ends(i))' <= Behind(Begins(i))' /\ Behind(Begins(i))' <= RingSize
    BY <2>2, <2>4, <2>5, <2>6, Limits DEF Behind
  <2>8. \A i, j \in DOMAIN RecvEventQueue' : i < j => Behind(Begins(j))' <= Behind(Begins(i))'
    BY <2>4, <2>5, <2>6 DEF RingInv, Behind
  <2>9. ASSUME StartPacket' # INVALID_PACKET
        PROVE  /\ Behind(StartPacket)' <= RingSize
               /\ \A i \in DOMAIN RecvEventQueue' : Behind(StartPacket)' <= Behind(Begins(i))'
    <3>1. Gap(RingBufIndex', StartPacket) = Behind(StartPacket) + 1 /\ Behind(StartPacket) \in Nat
      BY <2>2, <2>3, <2>6, <2>9, QueueIs
    <3>2. Behind(StartPacket) < RingSize
      BY <2>2, <2>6, <2>9
    <3>3. \A i \in DOMAIN RecvEventQueue : Behind(StartPacket) <= Behind(Begins(i))
      BY <2>6, <2>9 DEF RingInv
    <3> QED
      BY <2>4, <2>5, <2>6, <3>1, <3>2, <3>3, Limits DEF Behind
  <2> QED
    BY <2>7, <2>8, <2>9 DEF RingInv
<1> QED
  BY <1>1, <1>2, StoreBitIs

\* A flag closes a packet and opens the next one.
LEMMA FoundFlagRing ==
    ASSUME TypeOK, RingInv, FoundFlag PROVE RingInv'
<1>1. StartPacket' = RingBufIndex /\ RingBufIndex' = RingBufIndex
  BY DEF FoundFlag
<1>2. Behind(RingBufIndex) = 0
  BY QueueIs, GapNothing DEF Behind
<1>3. \A index \in Indices : Behind(index) \in Nat
  BY QueueIs, GapIs DEF Behind, Indices
<1>4. \A i \in DOMAIN RecvEventQueue : Behind(Begins(i)) \in Nat
  BY <1>3, QueueIs
<1>5. PICK n \in Nat : n = Len(RecvEventQueue) /\ DOMAIN RecvEventQueue = 1..n
                       /\ RecvEventQueue \in Seq(Pairs)
  BY QueueIs
<1>6. CASE UNCHANGED RecvEventQueue
  <2>1. /\ \A i \in DOMAIN RecvEventQueue' : /\ Begins(i)' = Begins(i) /\ Ends(i)' = Ends(i)
                                            /\ Behind(Begins(i))' = Behind(Begins(i))
                                            /\ Behind(Ends(i))' = Behind(Ends(i))
        /\ DOMAIN RecvEventQueue' = DOMAIN RecvEventQueue
        /\ Behind(StartPacket)' = 0
    BY <1>1, <1>2, <1>6 DEF Begins, Ends, Behind
  <2> QED
    BY <1>4, <2>1, Limits DEF RingInv
<1>7. CASE /\ RecvEventQueue' = Append(RecvEventQueue, <<StartPacket, RingBufIndex>>)
           /\ StartPacket # INVALID_PACKET
  <2>1. <<StartPacket, RingBufIndex>> \in Pairs
    BY QueueIs DEF Pairs, Indices, INVALID_PACKET
  <2>2. /\ RecvEventQueue' \in Seq(Pairs) /\ Len(RecvEventQueue') = n + 1
        /\ \A i \in 1..n : RecvEventQueue'[i] = RecvEventQueue[i]
        /\ RecvEventQueue'[n + 1] = <<StartPacket, RingBufIndex>>
    BY <1>5, <1>7, <2>1, AppendProperties
  <2>3. DOMAIN RecvEventQueue' = 1..(n + 1)
    BY <2>2, LenProperties
  <2>4. \A i \in 1..n : /\ Begins(i)' = Begins(i) /\ Ends(i)' = Ends(i)
                        /\ Behind(Begins(i))' = Behind(Begins(i))
                        /\ Behind(Ends(i))' = Behind(Ends(i))
    BY <1>1, <2>2 DEF Begins, Ends, Behind
  <2>5. Begins(n + 1)' = StartPacket /\ Ends(n + 1)' = RingBufIndex
    BY <2>2 DEF Begins, Ends
  <2>6. Behind(Begins(n + 1))' = Behind(StartPacket) /\ Behind(Ends(n + 1))' = 0
    BY <1>1, <1>2, <2>5 DEF Behind
  <2>7. Behind(StartPacket) \in Nat /\ Behind(StartPacket) <= RingSize
        /\ \A i \in 1..n : Behind(StartPacket) <= Behind(Begins(i))
    BY <1>3, <1>5, <1>7, QueueIs DEF RingInv
  <2>8. Behind(StartPacket)' = 0
    BY <1>1, <1>2 DEF Behind
  <2>9. ASSUME NEW i \in 1..(n + 1)
        PROVE  /\ Begins(i)' # INVALID_PACKET
               /\ Behind(Ends(i))' <= Behind(Begins(i))' /\ Behind(Begins(i))' <= RingSize
               /\ Behind(Begins(i))' \in Nat
    <3>1. CASE i = n + 1
      BY <1>7, <2>5, <2>6, <2>7, <3>1
    <3>2. CASE i \in 1..n
      BY <1>4, <1>5, <2>4, <3>2 DEF RingInv
    <3> QED
      BY <1>5, <3>1, <3>2
  <2>10. ASSUME NEW i \in 1..(n + 1), NEW j \in 1..(n + 1), i < j
         PROVE  Behind(Begins(j))' <= Behind(Begins(i))'
    <3>1. i \in 1..n /\ (j = n + 1 \/ j \in 1..n)
      BY <1>5, <2>10
    <3>2. CASE j = n + 1
      BY <2>4, <2>6, <2>7, <3>1, <3>2
    <3>3. CASE j \in 1..n
      <4>1. Behind(Begins(j)) <= Behind(Begins(i))
        BY <1>5, <2>10, <3>1, <3>3 DEF RingInv
      <4> QED
        BY <2>4, <3>1, <3>3, <4>1
    <3> QED
      BY <3>1, <3>2, <3>3
  <2> QED
    BY <2>3, <2>8, <2>9, <2>10, Limits DEF RingInv
<1> QED
  BY <1>6, <1>7 DEF FoundFlag, QueuePacket

LEMMA CallbackRing ==
    ASSUME TypeOK, RingInv, NEW bit \in Bit, RecvCallback(bit) PROVE RingInv'
<1>1. CASE StoreBit(bit) /\ UNCHANGED <<StartPacket, RecvEventQueue>>
  BY <1>1, StoreBitRing
<1>2. CASE FoundFlag
  BY <1>2, FoundFlagRing
<1>3. CASE /\ StartPacket' = INVALID_PACKET
           /\ UNCHANGED <<RecvCurrentByte, RingBufIndex, RecvRingBuff, RecvEventQueue>>
  BY <1>3 DEF RingInv, Behind, Begins, Ends
<1>4. CASE UNCHANGED <<RecvCurrentByte, RingBufIndex, StartPacket, RecvRingBuff, RecvEventQueue>>
  BY <1>4 DEF RingInv, Behind, Begins, Ends
<1> QED
  BY <1>1, <1>2, <1>3, <1>4 DEF RecvCallback, EndOfRun

LEMMA ReadRing ==
    ASSUME TypeOK, RingInv, ReadPacket PROVE RingInv'
<1> DEFINE n == Len(RecvEventQueue)
<1>1. /\ RecvEventQueue # <<>> /\ RecvEventQueue' = Tail(RecvEventQueue)
      /\ StartPacket' = StartPacket /\ RingBufIndex' = RingBufIndex
  BY DEF ReadPacket, interruptVars
<1>2. RecvEventQueue \in Seq(Pairs) /\ n \in Nat /\ DOMAIN RecvEventQueue = 1..n
  BY QueueIs
<1>3. /\ RecvEventQueue' \in Seq(Pairs) /\ Len(RecvEventQueue') = n - 1
      /\ \A i \in 1..(n - 1) : RecvEventQueue'[i] = RecvEventQueue[i + 1]
  BY <1>1, <1>2, HeadTailProperties
<1>4. DOMAIN RecvEventQueue' = 1..(n - 1)
  BY <1>3, LenProperties
<1> HIDE DEF n
<1>5. \A i \in DOMAIN RecvEventQueue' :
          /\ i + 1 \in DOMAIN RecvEventQueue
          /\ Begins(i)' = Begins(i + 1) /\ Ends(i)' = Ends(i + 1)
          /\ Behind(Begins(i))' = Behind(Begins(i + 1)) /\ Behind(Ends(i))' = Behind(Ends(i + 1))
  BY <1>1, <1>2, <1>3, <1>4 DEF Begins, Ends, Behind
<1>6. \A i, j \in DOMAIN RecvEventQueue' : i < j => i + 1 < j + 1
  BY <1>4
<1>7. Behind(StartPacket)' = Behind(StartPacket)
  BY <1>1 DEF Behind
<1> QED
  BY <1>1, <1>5, <1>6, <1>7 DEF RingInv

\* What is written into the ring leaves the packets that wait as they are.
LEMMA WaitingStays ==
    ASSUME TypeOK, RingInv, NEW bit \in Bit, RecvCallback(bit),
           NEW i \in DOMAIN RecvEventQueue, NEW packet, packet = RecvEventQueue[i]
    PROVE  PacketData(packet)' = PacketData(packet)
<1> DEFINE start == packet[1]
           finish == packet[2]
           byte == (RecvCurrentByte \div 2) + 128 * bit
<1>1. /\ packet \in Pairs /\ start \in Indices /\ finish \in Indices /\ RingBufIndex \in Indices
      /\ start = Begins(i) /\ finish = Ends(i)
  BY QueueIs DEF Begins, Ends
<1>2. Behind(finish) <= Behind(start)
  BY <1>1 DEF RingInv
<1>3. RecvRingBuff \in [0..(RingSize - 1) -> 0..255]
  BY DEF TypeOK
<1>4. CASE RecvRingBuff' = RecvRingBuff
  BY <1>4 DEF PacketData
<1>5. CASE StoreBit(bit) /\ RecvCurrentByte % 2 = 1
  <2>1. RingHasRoom /\ RecvRingBuff' = [RecvRingBuff EXCEPT ![RingBufIndex % RingSize] = byte]
    BY <1>5, StoreBitIs
  <2>2. Gap(RingBufIndex, start) < RingSize
    BY <1>1, <2>1, RoomForAll DEF Behind
  <2> HIDE DEF start, finish
  <2>3. ASSUME NEW k \in 1..Gap(finish, start)
        PROVE  RecvRingBuff'[Wrap(start + k - 1) % RingSize] = RecvRingBuff[Wrap(start + k - 1) % RingSize]
    <3>1. /\ Wrap(start + k - 1) % RingSize # RingBufIndex % RingSize
          /\ Wrap(start + k - 1) % RingSize \in 0..(RingSize - 1)
      BY <1>1, <1>2, <2>2, PacketUntouched DEF Behind
    <3> QED
      BY <1>3, <2>1, <3>1
  <2> QED
    BY <2>3 DEF PacketData, Gap, start, finish
<1>6. RecvRingBuff' = RecvRingBuff \/ (StoreBit(bit) /\ RecvCurrentByte % 2 = 1)
  <2>1. CASE StoreBit(bit)
    BY <2>1, StoreBitIs
  <2>2. CASE EndOfRun
    BY <2>2 DEF EndOfRun, FoundFlag
  <2> QED
    BY <2>1, <2>2 DEF RecvCallback
<1> QED
  BY <1>4, <1>5, <1>6


--------------------------------------------------------------------------------
(***************************************************************************)
(* The line and the interrupt, step by step through a frame.               *)
(***************************************************************************)
Current == sent[Len(sent)]

\* The interrupt follows the frame that is being sent: no bit of it was wrong.
Follows == errors = 0 \/ Len(sent) \notin lost

\* The frame has j bytes in the ring, unless it need not arrive.
InRing(m, j) ==
    IF StartPacket = INVALID_PACKET THEN Len(sent) \in lost
    ELSE /\ RingBufIndex = Wrap(StartPacket + j)
         /\ \A i \in 1..j : RecvRingBuff[Wrap(StartPacket + i - 1) % RingSize] = Packet(m)[i]
Taken(m, k) == RecvCurrentByte = Begun(m, k) /\ InRing(m, k \div 8)

\* After a flag and before the next.
Between ==
    /\ RunCount = 0
    /\ StartPacket = INVALID_PACKET \/ (StartPacket = RingBufIndex /\ RecvCurrentByte = 128)

\* Where in a frame the line can be: in the idle ones before it, in its first flag, in its
\* bits, before a zero that was put in, in its last flag, or in the ones that give it up.
Coming(m, p) ==
    /\ bits = Left(m, p)
    /\ errors = 0 => IF p < 8 THEN RunCount >= p ELSE RunCount >= 8 \/ Between
Opening(m, q) ==
    /\ bits = Left(m, 8 + q) /\ RunCount = q - 1
    /\ errors = 0 => \/ StartPacket = INVALID_PACKET
                     \/ StartPacket = RingBufIndex /\ RecvCurrentByte % Weight[9 - q] = Weight[8 - q]
InData(m, k) == bits = Left(m, Place(m, k)) /\ RunCount = Ones(m, k) /\ Taken(m, k)
ZeroDue(m, k) ==
    /\ bits = Left(m, Place(m, k) - 1) /\ RunCount = 5 /\ Ones(m, k) = 0 /\ Taken(m, k)
    /\ Line(m)[Place(m, k)] = 0 /\ Place(m, k) > 16
Closing(m, t) ==
    /\ bits = Left(m, End(m) + t) /\ RunCount = t - 1 /\ InRing(m, Size(m))
    /\ RecvCurrentByte % Weight[9 - t] = Weight[8 - t]
GivenUp ==
    /\ bits \in Seq({1}) /\ RunCount + Len(bits) >= 8 /\ Len(sent) \in lost

InFrame(m) ==
    \/ \E p \in 0..8 : Coming(m, p)
    \/ \E q \in 1..7 : Opening(m, q)
    \/ \E k \in 0..Total(m) : InData(m, k)
    \/ \E k \in 0..Total(m) : ZeroDue(m, k)
    \/ \E t \in 1..7 : Closing(m, t)
    \/ GivenUp

LineInv ==
    /\ bits # <<>> /\ Follows => InFrame(Current)
    /\ bits = <<>> /\ errors = 0 => RunCount >= 8 \/ Between

\* The right bit comes, and the frame is lost if it must be.
Right ==
    /\ TypeOK /\ RingInv
    /\ bits' = Tail(bits) /\ RecvCallback(Head(bits)) /\ UNCHANGED <<sent, errors>>
    /\ lost \subseteq lost'
    /\ StartPacket' = INVALID_PACKET /\ RunCount = 6 => Len(sent) \in lost'
    /\ RunCount = 6 /\ Len(bits) = 1 /\ Len(RecvEventQueue) = QueueSize => Len(sent) \in lost'

\* What comes into the queue with it: nothing, or something else if a bit was wrong
\* before, or the whole packet when the frame ends.
Closed == <<StartPacket, RingBufIndex>>
Queued(m) ==
    \/ RecvEventQueue' = RecvEventQueue /\ (bits' = <<>> => Len(sent) \in lost')
    \/ RecvEventQueue' = Append(RecvEventQueue, Closed) /\ StartPacket # INVALID_PACKET
       /\ errors # 0 /\ bits' # <<>>
    \/ RecvEventQueue' = Append(RecvEventQueue, Closed) /\ StartPacket # INVALID_PACKET
       /\ bits' = <<>> /\ PacketData(Closed) = Packet(m)

\* An index some bytes further on.
LEMMA WrapAdds ==
    ASSUME NEW start \in Indices, NEW j \in Nat, j < IndexLimit,
           NEW at, at = Wrap(start + j)
    PROVE  /\ at \in Indices /\ Gap(at, start) = j
           /\ Wrap(at + 1) = Wrap(start + (j + 1))
<1> DEFINE n == start + j
<1>1. /\ start \in Nat /\ start < IndexLimit /\ IndexLimit \in Nat /\ IndexLimit > 1
      /\ n \in Nat /\ n < 2 * IndexLimit /\ n = start + j
  BY Limits DEF Indices
<1> HIDE DEF n
<1>2. at \in Indices /\ (n < IndexLimit => at = n) /\ (n >= IndexLimit => at = n - IndexLimit)
  BY <1>1, WrapIs
<1>3. Gap(at, start) = IF at >= start THEN at - start ELSE at - start + IndexLimit
  BY <1>2, GapIs
<1>4. Gap(at, start) = j
  BY <1>1, <1>2, <1>3
<1>5. Wrap(at + 1) = Wrap(n + 1)
  <2>1. Wrap(at + 1) = IF at + 1 = IndexLimit THEN 0 ELSE at + 1
    BY <1>2, NextIs
  <2>2. CASE n + 1 < IndexLimit
    <3>1. Wrap(n + 1) = n + 1
      BY <1>1, <2>2, WrapIs
    <3> QED
      BY <1>1, <1>2, <2>1, <2>2, <3>1
  <2>3. CASE n + 1 >= IndexLimit /\ n + 1 < 2 * IndexLimit
    <3>1. Wrap(n + 1) = (n + 1) - IndexLimit
      BY <1>1, <2>3, WrapIs
    <3> QED
      BY <1>1, <1>2, <2>1, <2>3, <3>1
  <2>4. n + 1 < 2 * IndexLimit
    BY <1>1
  <2> QED
    BY <1>1, <2>2, <2>3, <2>4
<1>6. n + 1 = start + (j + 1)
  BY <1>1
<1> QED
  BY <1>2, <1>4, <1>5, <1>6

LEMMA FlagIs ==
    /\ Flag[1] = 0 /\ Flag[8] = 0 /\ \A q \in 2..7 : Flag[q] = 1
BY DEF Flag

LEMMA WeightHalves ==
    ASSUME NEW byte \in 0..255, NEW q \in 1..6, byte % Weight[9 - q] = Weight[8 - q]
    PROVE  /\ byte % 2 = 0
           /\ ((byte \div 2) + 128 * 1) % Weight[9 - (q + 1)] = Weight[8 - (q + 1)]
<1>1. q = 1 \/ q = 2 \/ q = 3 \/ q = 4 \/ q = 5 \/ q = 6
  OBVIOUS
<1>2. CASE q = 1
  BY <1>2 DEF Weight
<1>3. CASE q = 2
  BY <1>3 DEF Weight
<1>4. CASE q = 3
  BY <1>4 DEF Weight
<1>5. CASE q = 4
  BY <1>5 DEF Weight
<1>6. CASE q = 5
  BY <1>6 DEF Weight
<1>7. CASE q = 6
  BY <1>7 DEF Weight
<1> QED
  BY <1>1, <1>2, <1>3, <1>4, <1>5, <1>6, <1>7

LEMMA FirstOfFlag ==
    ASSUME TypeOK, RecvCurrentByte = 128, StoreBit(0)
    PROVE  /\ RecvCurrentByte' % Weight[9 - 1] = Weight[8 - 1]
           /\ RecvRingBuff' = RecvRingBuff /\ RingBufIndex' = RingBufIndex
<1>1. 0 \in Bit /\ 128 % 2 = 0 /\ (128 \div 2) + 128 * 0 = 64 /\ 64 % Weight[9 - 1] = Weight[8 - 1]
  BY DEF Bit, Weight
<1> QED
  BY <1>1, StoreBitIs

\* A bit of the packet is put into the byte, and the byte into the ring.
LEMMA TakenStep ==
    ASSUME NEW m \in Messages, NEW k \in 0..(Total(m) - 1), TypeOK, RingInv,
           Taken(m, k), StoreBit(Data(m)[k + 1]), UNCHANGED <<StartPacket, sent>>,
           lost \subseteq lost'
    PROVE  Taken(m, k + 1)'
<1> DEFINE bit == Data(m)[k + 1]
           byte == (RecvCurrentByte \div 2) + 128 * bit
           j == k \div 8
<1>1. bit \in Bit
  BY TotalIs
<1>2. RecvCurrentByte = Begun(m, k) /\ InRing(m, j)
  BY DEF Taken
<1>3. byte = (Begun(m, k) \div 2) + 128 * Data(m)[k + 1]
  BY <1>2
<1>4. /\ k % 8 # 7 => /\ Begun(m, k) % 2 = 0 /\ Begun(m, k + 1) = byte
                      /\ (k + 1) \div 8 = j
      /\ k % 8 = 7 => /\ Begun(m, k) % 2 = 1 /\ Begun(m, k + 1) = 128
                      /\ byte = Packet(m)[j + 1]
                      /\ (k + 1) \div 8 = j + 1
      /\ j + 1 \in 1..Size(m)
  BY <1>3, BegunSteps
<1>5. CASE k % 8 # 7
  <2>1. RecvCurrentByte' = byte /\ RecvRingBuff' = RecvRingBuff /\ RingBufIndex' = RingBufIndex
    BY <1>1, <1>2, <1>4, <1>5, StoreBitIs
  <2>2. InRing(m, j)'
    BY <1>2, <2>1 DEF InRing
  <2> QED
    BY <1>4, <1>5, <2>1, <2>2 DEF Taken
<1>6. CASE k % 8 = 7
  <2>1. /\ RingHasRoom /\ RingBufIndex' = Wrap(RingBufIndex + 1) /\ RecvCurrentByte' = 128
        /\ RecvRingBuff' = [RecvRingBuff EXCEPT ![RingBufIndex % RingSize] = byte]
    BY <1>1, <1>2, <1>4, <1>6, StoreBitIs
  <2>2. InRing(m, j + 1)'
    <3>1. CASE StartPacket = INVALID_PACKET
      BY <1>2, <3>1 DEF InRing
    <3>2. CASE StartPacket # INVALID_PACKET
      <4>1. /\ RingBufIndex = Wrap(StartPacket + j)
            /\ \A i \in 1..j : RecvRingBuff[Wrap(StartPacket + i - 1) % RingSize] = Packet(m)[i]
        BY <1>2, <3>2 DEF InRing
      <4>2. /\ StartPacket \in Indices /\ RingBufIndex \in Indices
            /\ RecvRingBuff \in [0..(RingSize - 1) -> 0..255]
        BY QueueIs DEF TypeOK
      <4>3. j \in Nat /\ j + 1 <= Size(m) /\ Size(m) < IndexLimit /\ Size(m) \in Nat /\ j < IndexLimit
            /\ Size(m) < RingSize
        <5>1. k \in Nat /\ Size(m) \in Nat
          BY TotalIs
        <5>2. j \in Nat
          BY <5>1
        <5> HIDE DEF j
        <5>3. j + 1 <= Size(m)
          BY <1>4, <5>1, <5>2
        <5>4. Size(m) < RingSize /\ RingSize < IndexLimit
          <6>1. Size(m) < MaxPacket
            BY DataBits
          <6> QED
            BY <5>1, <6>1, Limits
        <5> QED
          BY <5>1, <5>2, <5>3, <5>4, Limits
      <4>4. Gap(RingBufIndex, StartPacket) = j /\ Wrap(RingBufIndex + 1) = Wrap(StartPacket + (j + 1))
        BY <4>1, <4>2, <4>3, WrapAdds
      <4>5. Gap(RingBufIndex, RingBufIndex) <= Gap(RingBufIndex, StartPacket)
        BY <4>2, <4>3, <4>4, GapNothing
      <4>6. Gap(RingBufIndex, StartPacket) < RingSize
        BY <4>3, <4>4, Limits
      <4>7. ASSUME NEW i \in 1..j
            PROVE  RecvRingBuff'[Wrap(StartPacket + i - 1) % RingSize] = Packet(m)[i]
        <5>1. /\ Wrap(StartPacket + i - 1) % RingSize # RingBufIndex % RingSize
              /\ Wrap(StartPacket + i - 1) % RingSize \in 0..(RingSize - 1)
          BY <4>2, <4>4, <4>5, <4>6, PacketUntouched
        <5> QED
          BY <2>1, <4>1, <4>2, <5>1
      <4>8. RecvRingBuff'[RingBufIndex % RingSize] = Packet(m)[j + 1]
        <5>1. RingBufIndex % RingSize \in 0..(RingSize - 1)
          BY <4>2, Limits DEF Indices
        <5> QED
          BY <1>4, <1>6, <2>1, <4>2, <5>1
      <4>9. StartPacket + (j + 1) - 1 = StartPacket + j
        BY <4>2, <4>3 DEF Indices
      <4>10. ASSUME NEW i \in 1..(j + 1)
             PROVE  RecvRingBuff'[Wrap(StartPacket + i - 1) % RingSize] = Packet(m)[i]
        <5>1. CASE i = j + 1
          BY <4>1, <4>8, <4>9, <5>1
        <5>2. CASE i \in 1..j
          BY <4>7, <5>2
        <5> QED
          BY <4>3, <5>1, <5>2
      <4> QED
        BY <2>1, <3>2, <4>4, <4>10 DEF InRing
    <3> QED
      BY <3>1, <3>2
  <2> QED
    BY <1>4, <1>6, <2>1, <2>2 DEF Taken
<1> QED
  BY <1>5, <1>6

LEMMA EndIs ==
    ASSUME NEW m \in Messages PROVE End(m) \in Nat /\ End(m) >= 16
BY LineIs

\* The bit that comes.
LEMMA NextBit ==
    ASSUME Right, NEW m \in Messages, NEW p \in Nat, p < End(m) + 8, bits = Left(m, p)
    PROVE  /\ bits' = Left(m, p + 1) /\ RecvCallback(Line(m)[p + 1]) /\ Line(m)[p + 1] \in Bit
           /\ p + 1 < End(m) + 8 => bits' # <<>>
           /\ p + 1 = End(m) + 8 => bits' = <<>> /\ Len(bits) = 1
<1>1. End(m) \in Nat
  BY LineIs
<1>2. p \in 0..(End(m) + 8) /\ p + 1 \in 0..(End(m) + 8)
  BY <1>1
<1>3. /\ Len(Left(m, p)) = (End(m) + 8) - p /\ Head(Left(m, p)) = Line(m)[p + 1]
      /\ Tail(Left(m, p)) = Left(m, p + 1) /\ Line(m)[p + 1] \in Bit
  BY <1>2, LeftIs
<1>4. /\ p + 1 < End(m) + 8 => Left(m, p + 1) # <<>>
      /\ p + 1 = End(m) + 8 => Left(m, p + 1) = <<>>
  BY <1>2, LeftIs
<1>5. p + 1 = End(m) + 8 => (End(m) + 8) - p = 1
  BY <1>1
<1> QED
  BY <1>3, <1>4, <1>5 DEF Right

LEMMA OneComes ==
    ASSUME RecvCallback(1)
    PROVE  /\ RunCount' = RunCount + 1 /\ StoreBit(1) /\ UNCHANGED <<StartPacket, RecvEventQueue>>
BY DEF RecvCallback

LEMMA ZeroComes ==
    ASSUME RecvCallback(0), TypeOK
    PROVE  /\ RunCount' = 0
           /\ RunCount < 5 => StoreBit(0) /\ UNCHANGED <<StartPacket, RecvEventQueue>>
           /\ RunCount >= 5 => EndOfRun
BY DEF RecvCallback, TypeOK

LEMMA ComingStep ==
    ASSUME Right, NEW m \in Messages, NEW p \in 0..8, Coming(m, p)
    PROVE  bits' # <<>> /\ InFrame(m)' /\ Queued(m)
<1>1. p \in Nat /\ p + 1 < End(m) + 8 /\ bits = Left(m, p) /\ p < End(m) + 8
  BY EndIs DEF Coming
<1>2. bits' = Left(m, p + 1) /\ RecvCallback(Line(m)[p + 1]) /\ bits' # <<>>
  BY <1>1, NextBit
<1>3. RunCount \in Nat /\ TypeOK /\ errors' = errors
  BY DEF Right, TypeOK
<1>4. CASE p < 8
  <2>1. p + 1 \in 1..8 /\ p + 1 \in 0..8
    BY <1>1, <1>4
  <2>2. RecvCallback(1)
    BY <1>2, <2>1, LineIs
  <2>3. RunCount' = RunCount + 1 /\ RecvEventQueue' = RecvEventQueue
    BY <2>2, OneComes
  <2>4. errors' = 0 => RunCount' >= p + 1
    BY <1>1, <1>3, <1>4, <2>3 DEF Coming
  <2>5. Coming(m, p + 1)'
    BY <1>1, <1>2, <1>4, <2>1, <2>4 DEF Coming
  <2> QED
    BY <1>2, <2>1, <2>3, <2>5 DEF InFrame, Queued
<1>5. CASE p = 8
  <2>1. RecvCallback(0) /\ bits' = Left(m, 8 + 1)
    <3>1. Line(m)[8 + 1] = Flag[1] /\ 1 \in 1..8
      BY LineIs
    <3> QED
      BY <1>2, <1>5, <3>1, FlagIs
  <2>2. RunCount' = 0
    BY <2>1, ZeroComes DEF Right
  <2>3. CASE RunCount < 5
    <3>1. StoreBit(0) /\ StartPacket' = StartPacket /\ RecvEventQueue' = RecvEventQueue
      BY <2>1, <2>3, ZeroComes DEF Right
    <3>2. ASSUME errors = 0, StartPacket # INVALID_PACKET
          PROVE  StartPacket' = RingBufIndex' /\ RecvCurrentByte' % Weight[9 - 1] = Weight[8 - 1]
      <4>1. StartPacket = RingBufIndex /\ RecvCurrentByte = 128
        BY <1>3, <1>5, <2>3, <3>2 DEF Coming, Between
      <4> QED
        BY <1>3, <3>1, <4>1, FirstOfFlag
    <3>3. Opening(m, 1)'
      BY <1>3, <2>1, <2>2, <3>1, <3>2 DEF Opening
    <3> QED
      BY <1>2, <3>1, <3>3 DEF InFrame, Queued
  <2>4. CASE RunCount >= 5
    <3>1. EndOfRun
      BY <2>1, <2>4, ZeroComes DEF Right
    <3>2. CASE errors = 0
      <4>1. RunCount > 6 /\ RunCount >= 8
        BY <1>3, <1>5, <2>4, <3>2 DEF Coming, Between
      <4>2. StartPacket' = INVALID_PACKET /\ RecvEventQueue' = RecvEventQueue
        BY <1>3, <3>1, <4>1 DEF EndOfRun
      <4>3. Opening(m, 1)'
        BY <2>1, <2>2, <4>2 DEF Opening
      <4> QED
        BY <1>2, <4>2, <4>3 DEF InFrame, Queued
    <3>3. CASE errors # 0
      <4>1. Opening(m, 1)'
        BY <1>3, <2>1, <2>2, <3>3 DEF Opening
      <4>2. Queued(m)
        BY <1>2, <3>1, <3>3 DEF EndOfRun, FoundFlag, QueuePacket, Queued, Closed
      <4> QED
        BY <1>2, <4>1, <4>2 DEF InFrame
    <3> QED
      BY <3>2, <3>3
  <2> QED
    BY <1>3, <2>3, <2>4
<1> QED
  BY <1>4, <1>5

LEMMA OpeningStep ==
    ASSUME Right, NEW m \in Messages, NEW q \in 1..7, Opening(m, q)
    PROVE  bits' # <<>> /\ InFrame(m)' /\ Queued(m)
<1>1. 8 + q \in Nat /\ (8 + q) + 1 < End(m) + 8 /\ bits = Left(m, 8 + q) /\ 8 + q < End(m) + 8
  BY EndIs DEF Opening
<1>2. bits' = Left(m, (8 + q) + 1) /\ RecvCallback(Line(m)[(8 + q) + 1]) /\ bits' # <<>>
  BY <1>1, NextBit
<1>3. /\ RunCount = q - 1 /\ TypeOK /\ errors' = errors /\ RecvCurrentByte \in 0..255
      /\ (8 + q) + 1 = 8 + (q + 1) /\ q + 1 \in 1..8
  BY DEF Right, TypeOK, Opening
<1>4. Line(m)[(8 + q) + 1] = Flag[q + 1]
  <2>1. Line(m)[8 + (q + 1)] = Flag[q + 1]
    BY <1>3, LineIs
  <2> QED
    BY <1>3, <2>1
<1>5. CASE q < 7
  <2>1. RecvCallback(1)
    BY <1>2, <1>4, <1>5, FlagIs
  <2>2. /\ RunCount' = RunCount + 1 /\ StoreBit(1)
        /\ StartPacket' = StartPacket /\ RecvEventQueue' = RecvEventQueue
    BY <2>1, OneComes
  <2>3. ASSUME errors = 0, StartPacket # INVALID_PACKET
        PROVE  /\ StartPacket' = RingBufIndex'
               /\ RecvCurrentByte' % Weight[9 - (q + 1)] = Weight[8 - (q + 1)]
    <3>1. StartPacket = RingBufIndex /\ RecvCurrentByte % Weight[9 - q] = Weight[8 - q]
      BY <2>3 DEF Opening
    <3>2. /\ RecvCurrentByte % 2 = 0 /\ q \in 1..6 /\ 1 \in Bit
          /\ ((RecvCurrentByte \div 2) + 128 * 1) % Weight[9 - (q + 1)] = Weight[8 - (q + 1)]
      <4>1. q \in 1..6 /\ 1 \in Bit
        BY <1>5 DEF Bit
      <4> QED
        BY <1>3, <3>1, <4>1, WeightHalves
    <3> QED
      BY <1>3, <2>2, <3>1, <3>2, StoreBitIs
  <2>4. Opening(m, q + 1)'
    BY <1>2, <1>3, <2>2, <2>3 DEF Opening
  <2>5. q + 1 \in 1..7
    BY <1>5
  <2> QED
    BY <1>2, <2>2, <2>4, <2>5 DEF InFrame, Queued
<1>6. CASE q = 7
  <2>1. RecvCallback(0) /\ bits' = Left(m, 16) /\ RunCount = 6
    BY <1>2, <1>3, <1>4, <1>6, FlagIs
  <2>2. RunCount' = 0 /\ FoundFlag
    BY <2>1, ZeroComes DEF EndOfRun, Right
  <2>3. /\ QueuePacket /\ StartPacket' = RingBufIndex /\ RecvCurrentByte' = 128
        /\ RingBufIndex' = RingBufIndex
    BY <2>2 DEF FoundFlag
  <2>4. 0 \in 0..Total(m) /\ Place(m, 0) = 16 /\ Ones(m, 0) = 0
    BY TotalIs, PlaceIs
  <2>5. StartPacket' = INVALID_PACKET => Len(sent) \in lost' /\ sent' = sent
    BY <2>1 DEF Right
  <2>6. InData(m, 0)'
    <3>1. Begun(m, 0) = 128 /\ 0 \div 8 = 0
      BY DEF Begun
    <3>2. RingBufIndex = Wrap(RingBufIndex + 0)
      <4>1. RingBufIndex \in Indices /\ RingBufIndex + 0 = RingBufIndex
        BY <1>3, QueueIs DEF Indices
      <4> QED
        BY <4>1, WrapIs
    <3>3. sent' = sent /\ 1..0 = {}
      BY DEF Right
    <3> QED
      BY <2>1, <2>2, <2>3, <2>4, <2>5, <3>1, <3>2, <3>3 DEF InData, Taken, InRing
  <2>7. Queued(m)
    <3>1. CASE errors = 0
      <4>1. StartPacket = INVALID_PACKET \/ StartPacket = RingBufIndex
        BY <3>1 DEF Opening
      <4> QED
        BY <1>2, <2>3, <4>1 DEF QueuePacket, Queued
    <3>2. CASE errors # 0
      BY <1>2, <2>3, <3>2 DEF QueuePacket, Queued, Closed
    <3> QED
      BY <3>1, <3>2
  <2> QED
    BY <1>2, <2>4, <2>6, <2>7 DEF InFrame
<1> QED
  BY <1>5, <1>6

LEMMA InDataStep ==
    ASSUME Right, NEW m \in Messages, NEW k \in 0..Total(m), InData(m, k)
    PROVE  bits' # <<>> /\ InFrame(m)' /\ Queued(m)
<1>1. /\ bits = Left(m, Place(m, k)) /\ RunCount = Ones(m, k) /\ Taken(m, k)
      /\ TypeOK /\ RingInv /\ sent' = sent /\ lost \subseteq lost'
  BY DEF InData, Right
<1>2. /\ Place(m, k) \in 16..End(m) /\ Ones(m, k) \in 0..4 /\ End(m) \in Nat
      /\ Total(m) \in Nat
  BY PlaceIs, EndIs, TotalIs
<1>3. CASE k < Total(m)
  <2> DEFINE bit == Data(m)[k + 1]
             p == Place(m, k)
  <2>1. k \in 0..(Total(m) - 1)
    BY <1>2, <1>3
  <2>2. /\ k + 1 \in 0..Total(m) /\ p < End(m) /\ Line(m)[p + 1] = bit
        /\ bit = 1 /\ Ones(m, k) = 4 =>
              /\ Ones(m, k + 1) = 0 /\ Place(m, k + 1) = p + 2 /\ Line(m)[p + 2] = 0
        /\ ~(bit = 1 /\ Ones(m, k) = 4) =>
              /\ Ones(m, k + 1) = IF bit = 1 THEN Ones(m, k) + 1 ELSE 0
              /\ Place(m, k + 1) = p + 1
    BY <2>1, PlaceSteps
  <2>3. p \in Nat /\ p < End(m) + 8 /\ p + 1 < End(m) + 8
    BY <1>2, <2>2
  <2>4. bits' = Left(m, p + 1) /\ RecvCallback(bit) /\ bit \in Bit /\ bits' # <<>>
    BY <1>1, <2>2, <2>3, NextBit
  <2>5. /\ StoreBit(bit) /\ StartPacket' = StartPacket /\ RecvEventQueue' = RecvEventQueue
        /\ RunCount' = IF bit = 1 THEN RunCount + 1 ELSE 0
    <3>1. CASE bit = 1
      BY <2>4, <3>1, OneComes
    <3>2. CASE bit = 0
      BY <1>1, <1>2, <2>4, <3>2, ZeroComes
    <3> QED
      BY <2>4, <3>1, <3>2 DEF Bit
  <2>6. Taken(m, k + 1)'
    BY <1>1, <2>1, <2>5, TakenStep
  <2> HIDE DEF bit, p
  <2>7. CASE bit = 1 /\ Ones(m, k) = 4
    <3>1. /\ RunCount' = 5 /\ Ones(m, k + 1) = 0 /\ Place(m, k + 1) = p + 2
          /\ Place(m, k + 1) - 1 = p + 1 /\ Place(m, k + 1) > 16 /\ Line(m)[Place(m, k + 1)] = 0
      <4>1. p >= 16
        BY <1>2 DEF p
      <4> QED
        BY <1>1, <2>2, <2>3, <2>5, <2>7, <4>1
    <3>2. ZeroDue(m, k + 1)'
      BY <2>4, <2>6, <3>1 DEF ZeroDue
    <3> QED
      BY <2>2, <2>4, <2>5, <3>2 DEF InFrame, Queued
  <2>8. CASE ~(bit = 1 /\ Ones(m, k) = 4)
    <3>1. InData(m, k + 1)'
      BY <1>1, <2>2, <2>4, <2>5, <2>6, <2>8 DEF InData
    <3> QED
      BY <2>2, <2>4, <2>5, <3>1 DEF InFrame, Queued
  <2> QED
    BY <2>7, <2>8
<1>4. CASE k = Total(m)
  <2>1. bits = Left(m, End(m)) /\ End(m) < End(m) + 8 /\ End(m) + 1 < End(m) + 8
    BY <1>1, <1>2, <1>4 DEF End
  <2>2. /\ bits' = Left(m, End(m) + 1) /\ RecvCallback(Line(m)[End(m) + 1]) /\ bits' # <<>>
    BY <1>2, <2>1, NextBit
  <2>3. Line(m)[End(m) + 1] = 0
    <3>1. 1 \in 1..8
      OBVIOUS
    <3> QED
      BY <3>1, LineIs, FlagIs
  <2>4. RunCount' = 0 /\ StoreBit(0) /\ StartPacket' = StartPacket /\ RecvEventQueue' = RecvEventQueue
    BY <1>1, <1>2, <2>2, <2>3, ZeroComes
  <2>5. RecvCurrentByte = 128 /\ InRing(m, Size(m))
    <3>1. Total(m) % 8 = 0 /\ Total(m) \div 8 = Size(m)
      BY TotalIs
    <3> QED
      BY <1>1, <1>4, <3>1 DEF Taken, Begun
  <2>6. /\ RecvCurrentByte' % Weight[9 - 1] = Weight[8 - 1]
        /\ RecvRingBuff' = RecvRingBuff /\ RingBufIndex' = RingBufIndex
    BY <1>1, <2>4, <2>5, FirstOfFlag
  <2>7. InRing(m, Size(m))'
    BY <1>1, <2>4, <2>5, <2>6 DEF InRing
  <2>8. Closing(m, 1)'
    BY <2>2, <2>4, <2>6, <2>7 DEF Closing
  <2> QED
    BY <2>2, <2>4, <2>8 DEF InFrame, Queued
<1> QED
  BY <1>2, <1>3, <1>4

LEMMA ZeroDueStep ==
    ASSUME Right, NEW m \in Messages, NEW k \in 0..Total(m), ZeroDue(m, k)
    PROVE  bits' # <<>> /\ InFrame(m)' /\ Queued(m)
<1> DEFINE p == Place(m, k) - 1
<1>1. /\ bits = Left(m, p) /\ RunCount = 5 /\ Ones(m, k) = 0 /\ Taken(m, k)
      /\ Line(m)[Place(m, k)] = 0 /\ TypeOK /\ sent' = sent /\ lost \subseteq lost'
  BY DEF ZeroDue, Right
<1>2. /\ p \in Nat /\ p < End(m) + 8 /\ p + 1 = Place(m, k) /\ p + 1 < End(m) + 8
  BY PlaceIs, EndIs
<1>3. bits' = Left(m, Place(m, k)) /\ RecvCallback(0) /\ bits' # <<>>
  BY <1>1, <1>2, NextBit
<1>4. /\ RunCount' = 0
      /\ UNCHANGED <<RecvCurrentByte, RingBufIndex, StartPacket, RecvRingBuff, RecvEventQueue>>
  BY <1>1, <1>3, ZeroComes DEF EndOfRun
<1>5. Taken(m, k)'
  BY <1>1, <1>4 DEF Taken, InRing
<1>6. InData(m, k)'
  BY <1>1, <1>3, <1>4, <1>5 DEF InData
<1> QED
  BY <1>3, <1>4, <1>6 DEF InFrame, Queued

LEMMA ClosingStep ==
    ASSUME Right, NEW m \in Messages, NEW t \in 1..7, Closing(m, t)
    PROVE  /\ bits' # <<>> => InFrame(m)'
           /\ bits' = <<>> => Between'
           /\ Queued(m)
<1>1. /\ bits = Left(m, End(m) + t) /\ RunCount = t - 1 /\ InRing(m, Size(m))
      /\ RecvCurrentByte % Weight[9 - t] = Weight[8 - t] /\ RecvCurrentByte \in 0..255
      /\ TypeOK /\ sent' = sent /\ lost \subseteq lost'
  BY DEF Closing, Right, TypeOK
<1>2. /\ End(m) + t \in Nat /\ End(m) + t < End(m) + 8 /\ (End(m) + t) + 1 = End(m) + (t + 1)
      /\ t + 1 \in 1..8
  BY EndIs
<1>3. bits' = Left(m, End(m) + (t + 1)) /\ RecvCallback(Flag[t + 1])
  <2>1. Line(m)[End(m) + (t + 1)] = Flag[t + 1]
    BY <1>2, LineIs
  <2> QED
    BY <1>1, <1>2, <2>1, NextBit
<1>4. CASE t < 7
  <2>1. bits' # <<>>
    <3>1. (End(m) + t) + 1 < End(m) + 8
      BY <1>4, EndIs
    <3> QED
      BY <1>1, <1>2, <3>1, NextBit
  <2>2. RecvCallback(1) /\ t \in 1..6 /\ t + 1 \in 1..7 /\ 1 \in Bit
    BY <1>3, <1>4, FlagIs DEF Bit
  <2>3. /\ RunCount' = RunCount + 1 /\ StoreBit(1)
        /\ StartPacket' = StartPacket /\ RecvEventQueue' = RecvEventQueue
    BY <2>2, OneComes
  <2>4. /\ RecvCurrentByte % 2 = 0
        /\ ((RecvCurrentByte \div 2) + 128 * 1) % Weight[9 - (t + 1)] = Weight[8 - (t + 1)]
    BY <1>1, <2>2, WeightHalves
  <2>5. /\ RecvCurrentByte' % Weight[9 - (t + 1)] = Weight[8 - (t + 1)]
        /\ RecvRingBuff' = RecvRingBuff /\ RingBufIndex' = RingBufIndex
    BY <1>1, <2>2, <2>3, <2>4, StoreBitIs
  <2>6. InRing(m, Size(m))'
    BY <1>1, <2>3, <2>5 DEF InRing
  <2>7. RunCount' = (t + 1) - 1
    BY <1>1, <2>3
  <2>8. Closing(m, t + 1)'
    BY <1>3, <2>5, <2>6, <2>7 DEF Closing
  <2> QED
    BY <2>1, <2>2, <2>3, <2>8 DEF InFrame, Queued
<1>5. CASE t = 7
  <2>1. bits' = <<>> /\ Len(bits) = 1 /\ RunCount = 6
    <3>1. (End(m) + t) + 1 = End(m) + 8
      BY <1>5, EndIs
    <3> QED
      BY <1>1, <1>2, <1>5, <3>1, NextBit
  <2>2. RecvCallback(0)
    BY <1>3, <1>5, FlagIs
  <2>3. RunCount' = 0 /\ FoundFlag
    BY <1>1, <2>1, <2>2, ZeroComes DEF EndOfRun
  <2>4. /\ QueuePacket /\ StartPacket' = RingBufIndex /\ RecvCurrentByte' = 128
        /\ RingBufIndex' = RingBufIndex
    BY <2>3 DEF FoundFlag
  <2>5. Between'
    BY <2>3, <2>4 DEF Between
  <2>6. CASE StartPacket = INVALID_PACKET
    <3>1. Len(sent) \in lost'
      BY <1>1, <2>6 DEF InRing
    <3> QED
      BY <2>1, <2>4, <2>5, <2>6, <3>1 DEF QueuePacket, Queued
  <2>7. CASE StartPacket # INVALID_PACKET /\ ~(Len(RecvEventQueue) < QueueSize)
    <3>1. Len(RecvEventQueue) = QueueSize
      BY <1>1, <2>7, Limits, QueueIs DEF TypeOK
    <3>2. Len(sent) \in lost'
      BY <2>1, <3>1 DEF Right
    <3> QED
      BY <2>1, <2>4, <2>5, <2>7, <3>2 DEF QueuePacket, Queued
  <2>8. CASE StartPacket # INVALID_PACKET /\ Len(RecvEventQueue) < QueueSize
    <3>1. /\ RingBufIndex = Wrap(StartPacket + Size(m)) /\ StartPacket \in Indices
          /\ \A i \in 1..Size(m) :
                RecvRingBuff[Wrap(StartPacket + i - 1) % RingSize] = Packet(m)[i]
      BY <1>1, <2>8, QueueIs DEF InRing
    <3>2. Size(m) \in Nat /\ Size(m) >= 2 /\ Size(m) < IndexLimit
      <4>1. Size(m) \in Nat /\ Size(m) >= 2 /\ Size(m) < MaxPacket
        BY DataBits
      <4> QED
        BY <4>1, Limits
    <3>3. Gap(RingBufIndex, StartPacket) = Size(m)
      BY <3>1, <3>2, WrapAdds
    <3>4. StartPacket # RingBufIndex
      BY <3>1, <3>2, <3>3, GapNothing
    <3>5. RecvEventQueue' = Append(RecvEventQueue, Closed)
      BY <2>4, <2>8, <3>4 DEF QueuePacket, Closed
    <3>6. PacketData(Closed)
            = [i \in 1..Size(m) |-> RecvRingBuff[Wrap(StartPacket + i - 1) % RingSize]]
      BY <3>3 DEF PacketData, Closed, Gap
    <3>7. Packet(m) = [i \in 1..Size(m) |-> Packet(m)[i]]
      BY DEF Packet
    <3>8. PacketData(Closed) = Packet(m)
      <4> DEFINE packet == Packet(m)
      <4>1. /\ packet = [i \in 1..Size(m) |-> packet[i]]
            /\ \A i \in 1..Size(m) :
                  RecvRingBuff[Wrap(StartPacket + i - 1) % RingSize] = packet[i]
        BY <3>1, <3>7
      <4> HIDE DEF packet
      <4>2. PacketData(Closed) = packet
        BY <3>6, <4>1
      <4> QED
        BY <4>2 DEF packet
    <3> QED
      BY <2>1, <2>5, <2>8, <3>5, <3>8 DEF Queued
  <2> QED
    BY <2>6, <2>7, <2>8
<1> QED
  BY <1>4, <1>5

LEMMA GivenUpStep ==
    ASSUME Right, NEW m \in Messages, bits # <<>>, GivenUp
    PROVE  /\ bits' # <<>> => InFrame(m)'
           /\ bits' = <<>> => RunCount' >= 8
           /\ Queued(m)
<1>1. bits \in Seq({1}) /\ RunCount + Len(bits) >= 8 /\ Len(sent) \in lost /\ RunCount \in Nat
  BY DEF GivenUp, Right, TypeOK
<1>2. /\ Head(bits) = 1 /\ Tail(bits) \in Seq({1}) /\ Len(Tail(bits)) = Len(bits) - 1
      /\ Len(bits) \in Nat
  <2>1. Head(bits) \in {1} /\ Tail(bits) \in Seq({1}) /\ Len(Tail(bits)) = Len(bits) - 1
    BY <1>1, HeadTailProperties
  <2> QED
    BY <1>1, <2>1, LenProperties
<1>3. bits' = Tail(bits) /\ RecvCallback(1) /\ sent' = sent /\ lost \subseteq lost'
  BY <1>2 DEF Right
<1>4. RunCount' = RunCount + 1 /\ RecvEventQueue' = RecvEventQueue
  BY <1>3, OneComes
<1>5. RunCount' + Len(bits') >= 8 /\ Len(sent') \in lost' /\ Len(sent) \in lost'
  BY <1>1, <1>2, <1>3, <1>4
<1>6. GivenUp'
  BY <1>2, <1>3, <1>5 DEF GivenUp
<1>7. bits' = <<>> => RunCount' >= 8
  <2>1. bits' = <<>> => Len(bits') = 0
    OBVIOUS
  <2> QED
    BY <1>1, <1>4, <1>5, <2>1
<1> QED
  BY <1>4, <1>5, <1>6, <1>7 DEF InFrame, Queued

\* The frame goes on, or ends and waits in the queue.
LEMMA FrameStep ==
    ASSUME Right, bits # <<>>, NEW m \in Messages, InFrame(m)
    PROVE  /\ bits' # <<>> => InFrame(m)'
           /\ bits' = <<>> => RunCount' >= 8 \/ Between'
           /\ Queued(m)
<1>1. CASE \E p \in 0..8 : Coming(m, p)
  BY <1>1, ComingStep
<1>2. CASE \E q \in 1..7 : Opening(m, q)
  BY <1>2, OpeningStep
<1>3. CASE \E k \in 0..Total(m) : InData(m, k)
  BY <1>3, InDataStep
<1>4. CASE \E k \in 0..Total(m) : ZeroDue(m, k)
  BY <1>4, ZeroDueStep
<1>5. CASE \E t \in 1..7 : Closing(m, t)
  BY <1>5, ClosingStep
<1>6. CASE GivenUp
  BY <1>6, GivenUpStep
<1> QED
  BY <1>1, <1>2, <1>3, <1>4, <1>5, <1>6 DEF InFrame


--------------------------------------------------------------------------------
(***************************************************************************)
(* Which frame each packet is.  Packets that were processed and packets    *)
(* that wait have the numbers of their frames, or 0 if a wrong bit made    *)
(* them, and the numbers grow.                                             *)
(***************************************************************************)
\* The frames that have been sent to the end or given up.
Done == IF bits = <<>> THEN Len(sent) ELSE Len(sent) - 1

Growing(numbers) ==
    \A i, j \in DOMAIN numbers :
        i < j /\ numbers[i] # 0 /\ numbers[j] # 0 => numbers[i] < numbers[j]

Numbering(from, waiting, done, missing, wrong) ==
    /\ from \in Seq(0..done) /\ waiting \in Seq(0..done)
    /\ Growing(from) /\ Growing(waiting)
    /\ \A i \in DOMAIN from, j \in DOMAIN waiting :
            from[i] # 0 /\ waiting[j] # 0 => from[i] < waiting[j]
    /\ \A frame \in (1..done) \ missing :
            \/ \E i \in DOMAIN from : from[i] = frame
            \/ \E j \in DOMAIN waiting : waiting[j] = frame
    /\ wrong = 0 => (\A i \in DOMAIN from : from[i] # 0) /\ (\A j \in DOMAIN waiting : waiting[j] # 0)

Processed(from) ==
    /\ Len(from) = Len(processed)
    /\ \A i \in DOMAIN from : from[i] # 0 => processed[i] = sent[from[i]]
Waiting(waiting) ==
    /\ Len(waiting) = Len(RecvEventQueue)
    /\ \A j \in DOMAIN waiting :
            waiting[j] # 0 => PacketData(RecvEventQueue[j]) = Packet(sent[waiting[j]])

NumberInv ==
    \E from, waiting \in Seq(Nat) :
        Numbering(from, waiting, Done, lost, errors) /\ Processed(from) /\ Waiting(waiting)

Inv == TypeInv /\ RingInv /\ LineInv /\ NumberInv

LEMMA NumberingGrows ==
    ASSUME NEW from, NEW waiting, NEW done \in Nat, NEW missing, NEW wrong,
           Numbering(from, waiting, done, missing, wrong),
           NEW after \in Nat, NEW missed, NEW errs,
           after = done \/ (after = done + 1 /\ after \in missed),
           missing \subseteq missed, errs = 0 => wrong = 0
    PROVE  Numbering(from, waiting, after, missed, errs)
<1>1. from \in Seq(0..after) /\ waiting \in Seq(0..after)
  <2>1. 0..done \subseteq 0..after
    OBVIOUS
  <2>2. from \in Seq(0..done) /\ waiting \in Seq(0..done)
    BY DEF Numbering
  <2> QED
    BY <2>1, <2>2, SeqMonotonic
<1>2. \A frame \in (1..after) \ missed : frame \in (1..done) \ missing
  OBVIOUS
<1> QED
  BY <1>1, <1>2 DEF Numbering

\* A packet comes that is no frame, after a wrong bit.
LEMMA NumberingOther ==
    ASSUME NEW from, NEW waiting, NEW done \in Nat, NEW missing, NEW wrong,
           Numbering(from, waiting, done, missing, wrong), wrong # 0
    PROVE  Numbering(from, Append(waiting, 0), done, missing, wrong)
<1> DEFINE next == Append(waiting, 0)
<1>1. from \in Seq(0..done) /\ waiting \in Seq(0..done) /\ 0 \in 0..done
  BY DEF Numbering
<1>2. /\ next \in Seq(0..done) /\ Len(waiting) \in Nat /\ DOMAIN waiting = 1..Len(waiting)
      /\ DOMAIN next = 1..(Len(waiting) + 1)
      /\ \A j \in 1..Len(waiting) : next[j] = waiting[j]
      /\ next[Len(waiting) + 1] = 0
  BY <1>1, AppendProperties, LenProperties
<1> HIDE DEF next
<1>3. \A j \in DOMAIN next : next[j] # 0 => j \in DOMAIN waiting /\ next[j] = waiting[j]
  BY <1>2
<1>4. \A j \in DOMAIN waiting : j \in DOMAIN next /\ next[j] = waiting[j]
  BY <1>2
<1>5. Growing(next)
  BY <1>3 DEF Numbering, Growing
<1>6. Numbering(from, next, done, missing, wrong)
  BY <1>1, <1>2, <1>3, <1>4, <1>5 DEF Numbering
<1> QED
  BY <1>6 DEF next

\* The frame that has just ended comes.
LEMMA NumberingNext ==
    ASSUME NEW from, NEW waiting, NEW done \in Nat, NEW missing, NEW wrong,
           Numbering(from, waiting, done, missing, wrong)
    PROVE  Numbering(from, Append(waiting, done + 1), done + 1, missing, wrong)
<1> DEFINE next == Append(waiting, done + 1)
           n == Len(waiting)
<1>1. from \in Seq(0..done) /\ waiting \in Seq(0..done) /\ 0..done \subseteq 0..(done + 1)
      /\ done + 1 \in 0..(done + 1)
  BY DEF Numbering
<1>2. from \in Seq(0..(done + 1)) /\ waiting \in Seq(0..(done + 1))
  BY <1>1, SeqMonotonic
<1>3. /\ next \in Seq(0..(done + 1)) /\ n \in Nat /\ DOMAIN waiting = 1..n
      /\ DOMAIN next = 1..(n + 1)
      /\ \A j \in 1..n : next[j] = waiting[j]
      /\ next[n + 1] = done + 1
  BY <1>1, <1>2, AppendProperties, LenProperties
<1>4. /\ \A i \in DOMAIN from : from[i] \in 0..done
      /\ \A j \in 1..n : waiting[j] \in 0..done
  BY <1>1, <1>3, ElementOfSeq, LenProperties
<1> HIDE DEF next, n
<1>5. Growing(next)
  <2> SUFFICES ASSUME NEW i \in 1..(n + 1), NEW j \in 1..(n + 1), i < j, next[i] # 0, next[j] # 0
               PROVE  next[i] < next[j]
    BY <1>3 DEF Growing
  <2>1. i \in 1..n /\ next[i] = waiting[i] /\ waiting[i] \in 0..done
    BY <1>3, <1>4
  <2>2. CASE j = n + 1
    BY <1>3, <2>1, <2>2
  <2>3. CASE j \in 1..n
    <3>1. Growing(waiting) /\ next[j] = waiting[j]
      BY <1>3, <2>3 DEF Numbering
    <3> QED
      BY <1>3, <2>1, <2>3, <3>1 DEF Growing
  <2> QED
    BY <1>3, <2>2, <2>3
<1>6. ASSUME NEW i \in DOMAIN from, NEW j \in DOMAIN next, from[i] # 0, next[j] # 0
      PROVE  from[i] < next[j]
  <2>1. CASE j = n + 1
    BY <1>3, <1>4, <2>1
  <2>2. CASE j \in 1..n
    BY <1>3, <1>6, <2>2 DEF Numbering
  <2> QED
    BY <1>3, <2>1, <2>2
<1>7. ASSUME NEW frame \in (1..(done + 1)) \ missing
      PROVE  \/ \E i \in DOMAIN from : from[i] = frame
             \/ \E j \in DOMAIN next : next[j] = frame
  <2>1. CASE frame = done + 1
    BY <1>3, <2>1
  <2>2. CASE frame \in 1..done
    <3>1. \/ \E i \in DOMAIN from : from[i] = frame
          \/ \E j \in DOMAIN waiting : waiting[j] = frame
      BY <2>2 DEF Numbering
    <3>2. \A j \in DOMAIN waiting : j \in DOMAIN next /\ next[j] = waiting[j]
      BY <1>3
    <3> QED
      BY <3>1, <3>2
  <2> QED
    BY <2>1, <2>2
<1>8. wrong = 0 => \A j \in DOMAIN next : next[j] # 0
  <2>1. wrong = 0 => \A j \in DOMAIN waiting : waiting[j] # 0
    BY DEF Numbering
  <2> QED
    BY <1>3, <2>1
<1>9. Numbering(from, next, done + 1, missing, wrong)
  BY <1>2, <1>3, <1>5, <1>6, <1>7, <1>8 DEF Numbering
<1> QED
  BY <1>9 DEF next

\* The packet that waited longest is processed, or is not good.
LEMMA NumberingRead ==
    ASSUME NEW from, NEW waiting, NEW done \in Nat, NEW missing, NEW wrong,
           Numbering(from, waiting, done, missing, wrong), waiting # <<>>
    PROVE  /\ Numbering(Append(from, Head(waiting)), Tail(waiting), done, missing, wrong)
           /\ Head(waiting) = 0 => Numbering(from, Tail(waiting), done, missing, wrong)
<1> DEFINE rest == Tail(waiting)
           more == Append(from, Head(waiting))
           n == Len(from)
           k == Len(waiting)
<1>1. from \in Seq(0..done) /\ waiting \in Seq(0..done)
  BY DEF Numbering
<1>2. /\ Head(waiting) \in 0..done /\ rest \in Seq(0..done) /\ k \in Nat /\ k > 0
      /\ DOMAIN waiting = 1..k /\ DOMAIN rest = 1..(k - 1)
      /\ \A j \in 1..(k - 1) : rest[j] = waiting[j + 1]
      /\ Head(waiting) = waiting[1]
  <2>1. Head(waiting) \in 0..done /\ rest \in Seq(0..done) /\ Len(rest) = k - 1
        /\ \A j \in 1..Len(rest) : rest[j] = waiting[j + 1]
    BY <1>1, HeadTailProperties
  <2>2. k \in Nat /\ k > 0 /\ DOMAIN waiting = 1..k /\ DOMAIN rest = 1..Len(rest)
    BY <1>1, <2>1, LenProperties, EmptySeq
  <2>3. Head(waiting) = waiting[1]
    BY <1>1, <2>2
  <2> QED
    BY <2>1, <2>2, <2>3
<1>3. /\ more \in Seq(0..done) /\ n \in Nat /\ DOMAIN from = 1..n
      /\ DOMAIN more = 1..(n + 1)
      /\ \A i \in 1..n : more[i] = from[i]
      /\ more[n + 1] = waiting[1]
  BY <1>1, <1>2, AppendProperties, LenProperties
<1> HIDE DEF rest, more, n, k
<1>4. Growing(rest)
  <2>1. Growing(waiting)
    BY DEF Numbering
  <2>2. ASSUME NEW i \in 1..(k - 1), NEW j \in 1..(k - 1), i < j, rest[i] # 0, rest[j] # 0
        PROVE  rest[i] < rest[j]
    <3>1. i + 1 \in DOMAIN waiting /\ j + 1 \in DOMAIN waiting /\ i + 1 < j + 1
      BY <1>2, <2>2
    <3> QED
      BY <1>2, <2>1, <2>2, <3>1 DEF Growing
  <2> QED
    BY <1>2, <2>2 DEF Growing
<1>5. /\ \A j \in DOMAIN rest : j + 1 \in DOMAIN waiting /\ rest[j] = waiting[j + 1] /\ 1 < j + 1
      /\ 1 \in DOMAIN waiting
      /\ \A j \in DOMAIN waiting : j = 1 \/ (j - 1 \in DOMAIN rest /\ rest[j - 1] = waiting[j])
  BY <1>2
<1>6. /\ \A i \in DOMAIN from, j \in DOMAIN waiting :
             from[i] # 0 /\ waiting[j] # 0 => from[i] < waiting[j]
      /\ \A frame \in (1..done) \ missing :
             \/ \E i \in DOMAIN from : from[i] = frame
             \/ \E j \in DOMAIN waiting : waiting[j] = frame
      /\ wrong = 0 => (\A i \in DOMAIN from : from[i] # 0) /\ (\A j \in DOMAIN waiting : waiting[j] # 0)
      /\ Growing(from) /\ Growing(waiting)
  BY DEF Numbering
<1>7. Head(waiting) = 0 => Numbering(from, rest, done, missing, wrong)
  <2> SUFFICES ASSUME waiting[1] = 0 PROVE Numbering(from, rest, done, missing, wrong)
    BY <1>2
  <2>1. \A i \in DOMAIN from, j \in DOMAIN rest : from[i] # 0 /\ rest[j] # 0 => from[i] < rest[j]
    BY <1>5, <1>6
  <2>2. ASSUME NEW frame \in (1..done) \ missing
        PROVE  \/ \E i \in DOMAIN from : from[i] = frame
               \/ \E j \in DOMAIN rest : rest[j] = frame
    BY <1>5, <1>6
  <2>3. wrong = 0 => \A j \in DOMAIN rest : rest[j] # 0
    BY <1>5, <1>6
  <2>4. rest \in Seq(0..done) /\ from \in Seq(0..done)
    BY <1>1, <1>2
  <2> QED
    BY <1>4, <1>6, <2>1, <2>2, <2>3, <2>4 DEF Numbering
<1>8. Numbering(more, rest, done, missing, wrong)
  <2>1. Growing(more)
    <3> SUFFICES ASSUME NEW i \in 1..(n + 1), NEW j \in 1..(n + 1), i < j, more[i] # 0, more[j] # 0
                 PROVE  more[i] < more[j]
      BY <1>3 DEF Growing
    <3>1. i \in DOMAIN from /\ more[i] = from[i]
      BY <1>3
    <3>2. CASE j = n + 1
      BY <1>3, <1>5, <1>6, <3>1, <3>2
    <3>3. CASE j \in 1..n
      BY <1>3, <1>6, <3>1, <3>3 DEF Growing
    <3> QED
      BY <1>3, <3>2, <3>3
  <2>2. ASSUME NEW i \in DOMAIN more, NEW j \in DOMAIN rest, more[i] # 0, rest[j] # 0
        PROVE  more[i] < rest[j]
    <3>1. CASE i = n + 1
      BY <1>3, <1>5, <1>6, <2>2, <3>1 DEF Growing
    <3>2. CASE i \in 1..n
      BY <1>3, <1>5, <1>6, <2>2, <3>2
    <3> QED
      BY <1>3, <3>1, <3>2
  <2>3. ASSUME NEW frame \in (1..done) \ missing
        PROVE  \/ \E i \in DOMAIN more : more[i] = frame
               \/ \E j \in DOMAIN rest : rest[j] = frame
    <3>1. CASE \E i \in DOMAIN from : from[i] = frame
      <4>1. \A i \in DOMAIN from : i \in DOMAIN more /\ more[i] = from[i]
        BY <1>3
      <4> QED
        BY <3>1, <4>1
    <3>2. CASE \E j \in DOMAIN waiting : waiting[j] = frame
      <4>1. PICK j \in DOMAIN waiting : waiting[j] = frame
        BY <3>2
      <4>2. CASE j = 1
        <5>1. n + 1 \in DOMAIN more /\ more[n + 1] = frame
          BY <1>3, <4>1, <4>2
        <5> QED
          BY <5>1
      <4>3. CASE j # 1
        BY <1>5, <4>1, <4>3
      <4> QED
        BY <4>2, <4>3
    <3> QED
      BY <1>6, <3>1, <3>2
  <2>4. wrong = 0 => (\A i \in DOMAIN more : more[i] # 0) /\ (\A j \in DOMAIN rest : rest[j] # 0)
    BY <1>3, <1>5, <1>6
  <2> QED
    BY <1>2, <1>3, <1>4, <2>1, <2>2, <2>3, <2>4 DEF Numbering
<1> QED
  BY <1>7, <1>8 DEF rest, more


\* What is known of a state.
LEMMA InvIs ==
    ASSUME Inv
    PROVE  /\ TypeOK /\ RingInv /\ LineInv /\ (bits # <<>> => Len(sent) \in DOMAIN sent)
           /\ Len(sent) \in Nat /\ DOMAIN sent = 1..Len(sent) /\ lost \subseteq 1..Len(sent)
           /\ \A frame \in 1..Len(sent) : sent[frame] \in Messages
           /\ Done \in Nat /\ Done <= Len(sent)
           /\ bits = <<>> => Done = Len(sent)
           /\ bits # <<>> => Len(sent) = Done + 1 /\ Current \in Messages
           /\ errors \in Nat
<1>1. TypeOK /\ RingInv /\ LineInv /\ (bits # <<>> => Len(sent) \in DOMAIN sent)
  BY DEF Inv, TypeInv
<1>2. /\ Len(sent) \in Nat /\ DOMAIN sent = 1..Len(sent) /\ lost \subseteq 1..Len(sent)
      /\ \A frame \in 1..Len(sent) : sent[frame] \in Messages
      /\ errors \in Nat
  BY <1>1, LenProperties, ElementOfSeq DEF TypeOK
<1>3. bits = <<>> => Done = Len(sent)
  BY DEF Done
<1>4. bits # <<>> => Done = Len(sent) - 1 /\ Len(sent) \in 1..Len(sent) /\ Current \in Messages
  BY <1>1, <1>2 DEF Done, Current
<1>5. Done \in Nat /\ Done <= Len(sent) /\ (bits # <<>> => Len(sent) = Done + 1)
  BY <1>2, <1>3, <1>4
<1> QED
  BY <1>1, <1>2, <1>3, <1>4, <1>5

LEMMA NumberedIs ==
    ASSUME NEW from, NEW waiting, NEW done \in Nat, NEW missing, NEW wrong,
           Numbering(from, waiting, done, missing, wrong)
    PROVE  /\ from \in Seq(Nat) /\ waiting \in Seq(Nat)
           /\ \A i \in DOMAIN from : from[i] \in 0..done
           /\ \A j \in DOMAIN waiting : waiting[j] \in 0..done
           /\ Len(from) \in Nat /\ DOMAIN from = 1..Len(from)
           /\ Len(waiting) \in Nat /\ DOMAIN waiting = 1..Len(waiting)
<1>1. from \in Seq(0..done) /\ waiting \in Seq(0..done) /\ 0..done \subseteq Nat
  BY DEF Numbering
<1> QED
  BY <1>1, SeqMonotonic, ElementOfSeq, LenProperties

LEMMA InvInit == Init => Inv
<1> SUFFICES ASSUME Init PROVE Inv
  OBVIOUS
<1>1. TypeInv
  BY TypeInit
<1>2. RingInv
  BY DEF Init, RingInv
<1>3. LineInv
  BY DEF Init, LineInv, Between
<1>4. NumberInv
  <2>1. Done = 0 /\ lost = {} /\ processed = <<>> /\ RecvEventQueue = <<>>
    BY DEF Init, Done
  <2>2. <<>> \in Seq(Nat) /\ <<>> \in Seq(0..0) /\ DOMAIN <<>> = {} /\ 1..0 = {}
    OBVIOUS
  <2>3. Numbering(<<>>, <<>>, Done, lost, errors)
    BY <2>1, <2>2 DEF Numbering, Growing
  <2>4. Processed(<<>>) /\ Waiting(<<>>)
    BY <2>1, <2>2 DEF Processed, Waiting
  <2> QED
    BY <2>2, <2>3, <2>4 DEF NumberInv
<1> QED
  BY <1>1, <1>2, <1>3, <1>4 DEF Inv

\* Packets stay what they are when neither the ring nor the queue changes.
LEMMA NumbersKept ==
    ASSUME Inv, UNCHANGED <<RecvRingBuff, RecvEventQueue, processed>>,
           Len(sent) \in Nat, \A frame \in 1..Len(sent) : sent'[frame] = sent[frame],
           Done' = Done, lost \subseteq lost', errors' = errors
    PROVE  NumberInv'
<1>1. PICK from \in Seq(Nat), waiting \in Seq(Nat) :
          Numbering(from, waiting, Done, lost, errors) /\ Processed(from) /\ Waiting(waiting)
  BY DEF Inv, NumberInv
<1>2. Done \in Nat /\ Done <= Len(sent)
  BY InvIs
<1>3. Numbering(from, waiting, Done', lost', errors')
  BY <1>1, <1>2, NumberingGrows
<1>4. /\ \A i \in DOMAIN from : from[i] # 0 => from[i] \in 1..Len(sent)
      /\ \A j \in DOMAIN waiting : waiting[j] # 0 => waiting[j] \in 1..Len(sent)
  BY <1>1, <1>2, NumberedIs
<1>5. Processed(from)'
  BY <1>1, <1>4 DEF Processed
<1>6. Waiting(waiting)'
  <2>1. ASSUME NEW j \in DOMAIN waiting, waiting[j] # 0
        PROVE  (PacketData(RecvEventQueue[j]) = Packet(sent[waiting[j]]))'
    <3>1. PICK packet : packet = RecvEventQueue[j]
      OBVIOUS
    <3>2. PICK frame : frame = waiting[j]
      OBVIOUS
    <3>3. PICK m : m = sent[frame]
      OBVIOUS
    <3>4. PacketData(packet) = Packet(m)
      BY <1>1, <2>1, <3>1, <3>2, <3>3 DEF Waiting
    <3>5. PacketData(packet)' = PacketData(packet)
      BY DEF PacketData
    <3>6. RecvEventQueue'[j] = packet /\ sent'[frame] = m
      BY <1>4, <2>1, <3>1, <3>2, <3>3
    <3>7. (PacketData(RecvEventQueue[j]))' = PacketData(packet)'
      BY <3>6 DEF PacketData
    <3> QED
      BY <3>2, <3>4, <3>5, <3>6, <3>7
  <2>2. Len(waiting) = Len(RecvEventQueue')
    BY <1>1 DEF Waiting
  <2> QED
    BY <2>1, <2>2 DEF Waiting
<1> QED
  BY <1>1, <1>3, <1>5, <1>6 DEF NumberInv

LEMMA RingKept ==
    ASSUME RingInv, UNCHANGED <<RingBufIndex, StartPacket, RecvEventQueue>> PROVE RingInv'
BY DEF RingInv, Behind, Begins, Ends, Gap

LEMMA SendStep ==
    ASSUME Inv, TypeInv', NEW m \in Messages, NEW idle \in BOOLEAN, SendFrame(m, idle)
    PROVE  Inv'
<1>1. /\ bits = <<>> /\ sent' = Append(sent, m)
      /\ bits' = (IF idle THEN Idle ELSE <<>>) \o FrameBits[m]
      /\ UNCHANGED <<lost, errors, RecvEventQueue, processed>>
      /\ UNCHANGED <<RunCount, RecvCurrentByte, RingBufIndex, StartPacket, RecvRingBuff>>
  BY DEF SendFrame, interruptVars
<1>2. /\ Len(sent) \in Nat /\ sent \in Seq(Messages) /\ Done = Len(sent) /\ LineInv
      /\ lost \subseteq 1..Len(sent) /\ RingInv /\ RunCount \in Nat
  BY <1>1, InvIs DEF TypeOK
<1>3. /\ Len(sent') = Len(sent) + 1 /\ sent'[Len(sent')] = m
      /\ \A frame \in 1..Len(sent) : sent'[frame] = sent[frame]
  BY <1>1, <1>2, AppendProperties
<1>4. PICK p \in {0, 8} : bits' = Left(m, p) /\ bits' # <<>> /\ p \in 0..8
  <2>1. End(m) \in Nat /\ End(m) >= 16
    BY LineIs
  <2>2. 0 \in 0..(End(m) + 8) /\ 8 \in 0..(End(m) + 8) /\ 0 < End(m) + 8 /\ 8 < End(m) + 8
    BY <2>1
  <2>3. Left(m, 0) # <<>> /\ Left(m, 8) # <<>>
    BY <2>2, LeftIs
  <2>4. bits' = Left(m, 0) \/ bits' = Left(m, 8)
    BY <1>1, LeftWhole
  <2>5. 0 \in 0..8 /\ 8 \in 0..8
    OBVIOUS
  <2> QED
    BY <2>3, <2>4, <2>5
<1>5. Coming(m, p)'
  <2>1. errors = 0 => RunCount >= 8 \/ Between
    BY <1>1, <1>2 DEF LineInv
  <2>2. errors' = 0 => IF p < 8 THEN RunCount' >= p ELSE RunCount' >= 8 \/ Between'
    BY <1>1, <1>2, <2>1 DEF Between
  <2> QED
    BY <1>4, <2>2 DEF Coming
<1>6. Current' = m
  BY <1>3 DEF Current
<1>7. LineInv'
  BY <1>4, <1>5, <1>6 DEF LineInv, InFrame
<1>8. RingInv'
  BY <1>1, <1>2, RingKept
<1>9. Done' = Done
  BY <1>2, <1>3, <1>4 DEF Done
<1>10. NumberInv'
  BY <1>1, <1>2, <1>3, <1>9, NumbersKept
<1> QED
  BY <1>7, <1>8, <1>10 DEF Inv

LEMMA IdleIs ==
    Idle \in Seq({1}) /\ Len(Idle) = 8 /\ Idle # <<>>
BY DEF Idle

LEMMA AbortStep ==
    ASSUME Inv, TypeInv', AbortFrame PROVE Inv'
<1>1. /\ bits # <<>> /\ bits' = Idle /\ lost' = lost \cup {Len(sent)} /\ bits' # <<>>
      /\ UNCHANGED <<sent, errors, RecvEventQueue, processed>>
      /\ UNCHANGED <<RunCount, RecvCurrentByte, RingBufIndex, StartPacket, RecvRingBuff>>
  BY IdleIs DEF AbortFrame, Flag, interruptVars
<1>2. RunCount \in Nat /\ RingInv /\ Len(sent) \in Nat
  BY InvIs DEF TypeOK
<1>3. GivenUp'
  <2>1. RunCount' + Len(bits') >= 8
    BY <1>1, <1>2, IdleIs
  <2>2. bits' \in Seq({1}) /\ Len(sent') \in lost'
    BY <1>1, IdleIs
  <2> QED
    BY <2>1, <2>2 DEF GivenUp
<1>4. LineInv'
  BY <1>1, <1>3 DEF LineInv, InFrame
<1>5. RingInv'
  BY <1>1, <1>2, RingKept
<1>6. Done' = Done
  BY <1>1 DEF Done
<1>7. NumberInv'
  BY <1>1, <1>2, <1>6, NumbersKept
<1> QED
  BY <1>4, <1>5, <1>7 DEF Inv


\* What a bit can do to the queue.
LEMMA QueueGrows ==
    ASSUME NEW bit \in Bit, RecvCallback(bit)
    PROVE  \/ RecvEventQueue' = RecvEventQueue
           \/ /\ RecvEventQueue' = Append(RecvEventQueue, Closed)
              /\ RecvRingBuff' = RecvRingBuff
BY DEF RecvCallback, EndOfRun, FoundFlag, QueuePacket, Closed

\* The packets that wait stay what they are, and one may come.
LEMMA WaitingKept ==
    ASSUME Inv, NEW bit \in Bit, RecvCallback(bit), sent' = sent,
           NEW waiting \in Seq(Nat), Waiting(waiting), NEW closed, NEW number \in Nat,
           number # 0 => PacketData(closed)' = Packet(sent[number])
    PROVE  /\ RecvEventQueue' = RecvEventQueue => Waiting(waiting)'
           /\ RecvEventQueue' = Append(RecvEventQueue, closed) =>
                 Waiting(Append(waiting, number))'
<1>1. /\ TypeOK /\ RingInv /\ RecvEventQueue \in Seq(Pairs) /\ Len(RecvEventQueue) \in Nat
      /\ DOMAIN RecvEventQueue = 1..Len(RecvEventQueue)
  BY InvIs, QueueIs
<1>2. /\ Len(waiting) = Len(RecvEventQueue) /\ DOMAIN waiting = DOMAIN RecvEventQueue
  BY <1>1, LenProperties DEF Waiting
<1>3. ASSUME NEW j \in DOMAIN waiting, waiting[j] # 0, RecvEventQueue'[j] = RecvEventQueue[j]
      PROVE  (PacketData(RecvEventQueue[j]) = Packet(sent[waiting[j]]))'
  <2>1. PICK packet : packet = RecvEventQueue[j]
    OBVIOUS
  <2>2. PICK m : m = sent[waiting[j]]
    OBVIOUS
  <2>3. PacketData(packet) = Packet(m)
    BY <1>3, <2>1, <2>2 DEF Waiting
  <2>4. PacketData(packet)' = PacketData(packet)
    BY <1>1, <1>2, <2>1, WaitingStays
  <2>5. RecvEventQueue'[j] = packet /\ sent'[waiting[j]] = m
    BY <1>3, <2>1, <2>2
  <2>6. (PacketData(RecvEventQueue[j]))' = PacketData(packet)'
    BY <2>5 DEF PacketData
  <2> QED
    BY <2>3, <2>4, <2>5, <2>6
<1>4. ASSUME RecvEventQueue' = RecvEventQueue PROVE Waiting(waiting)'
  <2>1. \A j \in DOMAIN waiting :
            waiting[j] # 0 => (PacketData(RecvEventQueue[j]) = Packet(sent[waiting[j]]))'
    BY <1>3, <1>4
  <2>2. Len(waiting) = Len(RecvEventQueue')
    BY <1>2, <1>4
  <2> QED
    BY <2>1, <2>2 DEF Waiting
<1>5. ASSUME RecvEventQueue' = Append(RecvEventQueue, closed)
      PROVE  Waiting(Append(waiting, number))'
  <2> DEFINE n == Len(waiting)
  <2>1. PICK next : next = Append(waiting, number)
    OBVIOUS
  <2>2. /\ Len(next) = n + 1 /\ DOMAIN next = 1..(n + 1) /\ n \in Nat
        /\ \A j \in 1..n : next[j] = waiting[j]
        /\ next[n + 1] = number
    BY <2>1, AppendProperties, LenProperties
  <2>3. /\ Len(RecvEventQueue') = n + 1
        /\ \A j \in 1..n : RecvEventQueue'[j] = RecvEventQueue[j]
        /\ RecvEventQueue'[n + 1] = closed
    BY <1>1, <1>2, <1>5
  <2>4. ASSUME NEW j \in 1..n, next[j] # 0
        PROVE  (PacketData(RecvEventQueue[j]) = Packet(sent[next[j]]))'
    <3>1. j \in DOMAIN waiting /\ next[j] = waiting[j]
      BY <2>2, LenProperties
    <3> QED
      BY <1>3, <2>3, <2>4, <3>1
  <2>5. ASSUME number # 0
        PROVE  (PacketData(RecvEventQueue[n + 1]) = Packet(sent[number]))'
    <3>1. PICK k : k = n + 1
      OBVIOUS
    <3>2. RecvEventQueue'[k] = closed
      BY <2>3, <3>1
    <3>3. (PacketData(RecvEventQueue[k]))' = PacketData(closed)'
      BY <3>2 DEF PacketData
    <3> QED
      BY <1>5, <2>5, <3>1, <3>3
  <2>6. \A j \in DOMAIN next :
            next[j] # 0 => (PacketData(RecvEventQueue[j]) = Packet(sent[next[j]]))'
    <3> SUFFICES ASSUME NEW j \in 1..(n + 1), next[j] # 0
                 PROVE  (PacketData(RecvEventQueue[j]) = Packet(sent[next[j]]))'
      BY <2>2
    <3>1. CASE j \in 1..n
      BY <2>4, <3>1
    <3>2. CASE j = n + 1
      BY <2>2, <2>5, <3>2
    <3> QED
      BY <2>2, <3>1, <3>2
  <2>7. Waiting(next)'
    BY <2>2, <2>3, <2>6 DEF Waiting
  <2> QED
    BY <2>1, <2>7
<1> QED
  BY <1>4, <1>5

\* The three ways the numbers go on with a bit.
LEMMA NumbersStep ==
    ASSUME Inv, bits # <<>>, NEW bit \in Bit, RecvCallback(bit), UNCHANGED <<sent, processed>>,
           bits' \in Seq(Bit), lost \subseteq lost', errors' \in Nat, errors' = 0 => errors = 0,
           \/ RecvEventQueue' = RecvEventQueue /\ (bits' = <<>> => Len(sent) \in lost')
           \/ /\ RecvEventQueue' = Append(RecvEventQueue, Closed) /\ errors' # 0
              /\ bits' = <<>> => Len(sent) \in lost'
           \/ /\ RecvEventQueue' = Append(RecvEventQueue, Closed) /\ bits' = <<>>
              /\ PacketData(Closed) = Packet(Current) /\ RecvRingBuff' = RecvRingBuff
    PROVE  NumberInv'
<1>1. PICK from \in Seq(Nat), waiting \in Seq(Nat) :
          Numbering(from, waiting, Done, lost, errors) /\ Processed(from) /\ Waiting(waiting)
  BY DEF Inv, NumberInv
<1>2. /\ Done \in Nat /\ Len(sent) = Done + 1 /\ errors \in Nat
      /\ Done' = IF bits' = <<>> THEN Done + 1 ELSE Done
  <2>1. Done \in Nat /\ Len(sent) = Done + 1 /\ errors \in Nat
    BY InvIs
  <2> QED
    BY <2>1 DEF Done
<1>3. PICK after : after = Done'
  OBVIOUS
<1>4. Processed(from)'
  BY <1>1 DEF Processed
<1>5. PICK closed : closed = Closed
  OBVIOUS
<1>6. CASE RecvEventQueue' = RecvEventQueue /\ (bits' = <<>> => Len(sent) \in lost')
  <2>0. Done' \in Nat /\ (Done' = Done \/ (Done' = Done + 1 /\ Done' \in lost'))
    BY <1>2, <1>6
  <2>1. Numbering(from, waiting, Done', lost', errors')
    BY <1>1, <1>2, <2>0, NumberingGrows
  <2>2. Waiting(waiting)'
    <3>1. 0 \in Nat
      OBVIOUS
    <3> QED
      BY <1>1, <1>6, <3>1, WaitingKept
  <2> QED
    BY <1>4, <2>1, <2>2 DEF NumberInv
<1>7. CASE /\ RecvEventQueue' = Append(RecvEventQueue, Closed) /\ errors' # 0
           /\ bits' = <<>> => Len(sent) \in lost'
  <2>0. Done' \in Nat /\ (Done' = Done \/ (Done' = Done + 1 /\ Done' \in lost'))
    BY <1>2, <1>7
  <2>1. Numbering(from, waiting, Done', lost', errors')
    BY <1>1, <1>2, <2>0, NumberingGrows
  <2>2. Done' \in Nat
    BY <1>2
  <2>3. Numbering(from, Append(waiting, 0), Done', lost', errors')
    BY <1>7, <2>1, <2>2, NumberingOther
  <2>4. Waiting(Append(waiting, 0))'
    <3>1. 0 \in Nat /\ RecvEventQueue' = Append(RecvEventQueue, closed)
      BY <1>5, <1>7
    <3> QED
      BY <1>1, <3>1, WaitingKept
  <2>5. Append(waiting, 0) \in Seq(Nat)
    BY AppendProperties
  <2> QED
    BY <1>4, <2>3, <2>4, <2>5 DEF NumberInv
<1>8. CASE /\ RecvEventQueue' = Append(RecvEventQueue, Closed) /\ bits' = <<>>
           /\ PacketData(Closed) = Packet(Current) /\ RecvRingBuff' = RecvRingBuff
  <2>1. Numbering(from, Append(waiting, Done + 1), Done + 1, lost, errors)
    BY <1>1, <1>2, NumberingNext
  <2>2. Done + 1 \in Nat /\ Done' = Done + 1
    BY <1>2, <1>8
  <2>3. Numbering(from, Append(waiting, Done + 1), Done', lost', errors')
    BY <2>1, <2>2, NumberingGrows
  <2>4. PICK number \in Nat : number = Done + 1
    BY <2>2
  <2>5. PacketData(closed)' = Packet(sent[number])
    <3>1. PacketData(closed) = Packet(sent[number])
      BY <1>2, <1>5, <1>8, <2>4 DEF Current
    <3>2. PacketData(closed)' = PacketData(closed)
      BY <1>8 DEF PacketData
    <3> QED
      BY <3>1, <3>2
  <2>6. Waiting(Append(waiting, number))'
    <3>1. RecvEventQueue' = Append(RecvEventQueue, closed)
      BY <1>5, <1>8
    <3> QED
      BY <1>1, <2>5, <3>1, WaitingKept
  <2>7. Append(waiting, number) \in Seq(Nat)
    BY AppendProperties
  <2> QED
    BY <1>4, <2>3, <2>4, <2>6, <2>7 DEF NumberInv
<1> QED
  BY <1>6, <1>7, <1>8

LEMMA BitStep ==
    ASSUME Inv, TypeInv', NEW wrong \in BOOLEAN, ReceiveBit(wrong) PROVE Inv'
<1> DEFINE bit == IF wrong THEN 1 - Head(bits) ELSE Head(bits)
<1>1. /\ bits # <<>> /\ errors' = (IF wrong THEN errors + 1 ELSE errors)
      /\ bits' = Tail(bits) /\ RecvCallback(bit) /\ UNCHANGED <<sent, processed>>
      /\ lost \subseteq lost' /\ (NeedNotArrive(wrong) => Len(sent) \in lost')
  BY DEF ReceiveBit
<1>2. /\ TypeOK /\ RingInv /\ LineInv /\ errors \in Nat /\ Current \in Messages
      /\ bits \in Seq(Bit)
  BY <1>1, InvIs DEF TypeOK
<1>3. Head(bits) \in Bit /\ bits' \in Seq(Bit)
  BY <1>1, <1>2, HeadTailProperties
<1>4. bit \in Bit /\ errors' \in Nat /\ (errors' = 0 => errors = 0)
  BY <1>1, <1>2, <1>3 DEF Bit
<1>5. RingInv'
  BY <1>1, <1>2, <1>4, CallbackRing
<1>6. PICK heard \in Bit : heard = bit /\ RecvCallback(heard)
  BY <1>1, <1>4
<1> HIDE DEF bit
<1>7. CASE errors' # 0 /\ Len(sent) \in lost' /\ ~(~wrong /\ Follows)
  <2>1. LineInv'
    <3>1. ~Follows'
      BY <1>1, <1>7 DEF Follows
    <3> QED
      BY <1>7, <3>1 DEF LineInv
  <2>2. NumberInv'
    <3>1. \/ RecvEventQueue' = RecvEventQueue
          \/ RecvEventQueue' = Append(RecvEventQueue, Closed)
      BY <1>6, QueueGrows
    <3> QED
      BY <1>1, <1>3, <1>4, <1>6, <1>7, <3>1, NumbersStep
  <2> QED
    BY <1>5, <2>1, <2>2 DEF Inv
<1>8. CASE ~wrong /\ Follows
  <2>1. Right
    <3>1. bit = Head(bits)
      BY <1>8 DEF bit
    <3>2. StartPacket' = INVALID_PACKET /\ RunCount = 6 => Len(sent) \in lost'
      BY <1>1 DEF NeedNotArrive
    <3>3. RunCount = 6 /\ Len(bits) = 1 /\ Len(RecvEventQueue) = QueueSize => Len(sent) \in lost'
      BY <1>1 DEF NeedNotArrive
    <3> QED
      BY <1>1, <1>2, <1>8, <3>1, <3>2, <3>3 DEF Right
  <2>2. PICK m \in Messages : m = Current /\ InFrame(m)
    BY <1>1, <1>2, <1>8 DEF LineInv
  <2>3. /\ bits' # <<>> => InFrame(m)'
        /\ bits' = <<>> => RunCount' >= 8 \/ Between'
        /\ Queued(m)
    BY <1>1, <2>1, <2>2, FrameStep
  <2>4. Current' = m
    BY <1>1, <2>2 DEF Current
  <2>5. LineInv'
    BY <2>3, <2>4 DEF LineInv
  <2>6. NumberInv'
    <3>1. errors' = errors
      BY <1>1, <1>8
    <3>2. CASE RecvEventQueue' = RecvEventQueue /\ (bits' = <<>> => Len(sent) \in lost')
      BY <1>1, <1>3, <1>4, <1>6, <3>2, NumbersStep
    <3>3. CASE RecvEventQueue' = Append(RecvEventQueue, Closed) /\ errors # 0 /\ bits' # <<>>
      BY <1>1, <1>3, <1>4, <1>6, <3>1, <3>3, NumbersStep
    <3>4. CASE /\ RecvEventQueue' = Append(RecvEventQueue, Closed) /\ bits' = <<>>
               /\ PacketData(Closed) = Packet(m)
      <4>1. RecvEventQueue' # RecvEventQueue
        <5>1. RecvEventQueue \in Seq(Pairs) /\ Len(RecvEventQueue) \in Nat
          BY <1>2, QueueIs
        <5>2. Len(Append(RecvEventQueue, Closed)) = Len(RecvEventQueue) + 1
          BY <5>1
        <5> QED
          BY <3>4, <5>1, <5>2
      <4>2. RecvRingBuff' = RecvRingBuff
        BY <1>6, <4>1, QueueGrows
      <4> QED
        BY <1>1, <1>3, <1>4, <1>6, <2>2, <3>4, <4>2, NumbersStep
    <3> QED
      BY <2>3, <3>2, <3>3, <3>4 DEF Queued
  <2> QED
    BY <1>5, <2>5, <2>6 DEF Inv
<1>9. ~(~wrong /\ Follows) => errors' # 0 /\ Len(sent) \in lost'
  <2>1. CASE wrong
    BY <1>1, <1>2, <2>1 DEF NeedNotArrive
  <2>2. CASE ~wrong /\ ~Follows
    BY <1>1, <2>2 DEF Follows
  <2> QED
    BY <2>1, <2>2
<1> QED
  BY <1>7, <1>8, <1>9


\* A packet that is what was sent passes the checks, and its message is taken from it.
LEMMA SentIsGood ==
    ASSUME TypeOK, NEW m \in Messages, NEW packet \in Pairs, PacketData(packet) = Packet(m)
    PROVE  Good(packet) /\ Message(packet) = m
<1>1. /\ Packet(m) \in [1..Size(m) -> Octets] /\ Size(m) \in Nat /\ Size(m) < MaxPacket
      /\ \A j \in 1..Len(m) : Packet(m)[j] = m[j]
  BY PacketOctets, DataBits
<1>2. m \in Seq(0..255) /\ Len(m) \in Nat /\ Size(m) = Len(m) + 2
  <2>1. m \in Seq(0..255)
    BY MessagesAssumption
  <2> QED
    BY <2>1, LenProperties DEF Size
<1>3. PICK data : data = PacketData(packet)
  OBVIOUS
<1>4. data \in Seq(Octets) /\ Len(data) = Size(m)
  BY <1>1, <1>3, FunctionIsSeq
<1>5. Good(packet)
  BY <1>1, <1>3, <1>4, SentPacketsValidate DEF Good
<1>6. SubSeq(data, 1, Len(m)) = m
  <2>1. /\ SubSeq(data, 1, Len(m)) \in Seq(Octets) /\ Len(SubSeq(data, 1, Len(m))) = Len(m)
        /\ \A i \in 1..Len(m) : SubSeq(data, 1, Len(m))[i] = data[i]
    BY <1>2, <1>4, SubSeqProperties
  <2>2. \A i \in 1..Len(m) : data[i] = m[i]
    BY <1>1, <1>3
  <2> HIDE <1>4
  <2>3. PICK head : head = SubSeq(data, 1, Len(m))
    OBVIOUS
  <2>4. /\ head \in Seq(Octets) /\ Len(head) = Len(m) /\ \A i \in 1..Len(m) : head[i] = m[i]
    BY <2>1, <2>2, <2>3
  <2>5. head = m
    BY <1>2, <2>4, SeqEqual
  <2> QED
    BY <2>3, <2>5
<1>7. Message(packet) = SubSeq(data, 1, Len(m))
  <2>1. Len(data) - 2 = Len(m)
    BY <1>2, <1>4
  <2> QED
    BY <1>3, <2>1 DEF Message
<1> QED
  BY <1>5, <1>6, <1>7

\* The line and the interrupt stand still.
LEMMA LineKept ==
    ASSUME LineInv, UNCHANGED <<bits, sent, lost, errors>>,
           UNCHANGED <<RunCount, RecvCurrentByte, RingBufIndex, StartPacket, RecvRingBuff>>
    PROVE  LineInv'
<1>1. Between' = Between /\ Follows' = Follows /\ Current' = Current /\ GivenUp' = GivenUp
  BY DEF Between, Follows, Current, GivenUp
<1>2. ASSUME NEW m, NEW j PROVE InRing(m, j)' = InRing(m, j)
  BY DEF InRing
<1>3. ASSUME NEW m, NEW p PROVE Coming(m, p) => Coming(m, p)'
  BY <1>1 DEF Coming
<1>4. ASSUME NEW m, NEW q PROVE Opening(m, q) => Opening(m, q)'
  BY DEF Opening
<1>5. ASSUME NEW m, NEW k PROVE InData(m, k) => InData(m, k)'
  BY <1>2 DEF InData, Taken
<1>6. ASSUME NEW m, NEW k PROVE ZeroDue(m, k) => ZeroDue(m, k)'
  BY <1>2 DEF ZeroDue, Taken
<1>7. ASSUME NEW m, NEW t PROVE Closing(m, t) => Closing(m, t)'
  BY <1>2 DEF Closing
<1>8. PICK m : m = Current
  OBVIOUS
<1>9. bits # <<>> /\ Follows => InFrame(m)
  BY <1>8 DEF LineInv
<1>10. InFrame(m) => InFrame(m)'
  BY <1>1, <1>3, <1>4, <1>5, <1>6, <1>7 DEF InFrame
<1> QED
  BY <1>1, <1>8, <1>9, <1>10 DEF LineInv

LEMMA StandStill ==
    ASSUME Inv, UNCHANGED vars PROVE Inv'
<1>1. /\ UNCHANGED <<bits, sent, lost, errors, RecvEventQueue, processed>>
      /\ UNCHANGED <<RunCount, RecvCurrentByte, RingBufIndex, StartPacket, RecvRingBuff>>
  BY DEF vars, lineVars, interruptVars
<1>2. TypeInv'
  BY TypeNext DEF Inv
<1>3. RingInv' /\ LineInv'
  BY <1>1, RingKept, LineKept DEF Inv
<1>4. NumberInv'
  <2>1. Done' = Done /\ Len(sent) \in Nat
    BY <1>1, InvIs DEF Done
  <2> QED
    BY <1>1, <2>1, NumbersKept
<1> QED
  BY <1>2, <1>3, <1>4 DEF Inv

\* MessageTask takes a packet, and its number goes with it.
LEMMA ReadStep ==
    ASSUME Inv, TypeInv', ReadPacket PROVE Inv'
<1>1. /\ RecvEventQueue # <<>> /\ RecvEventQueue' = Tail(RecvEventQueue)
      /\ processed' = IF Good(Head(RecvEventQueue))
                      THEN Append(processed, Message(Head(RecvEventQueue))) ELSE processed
      /\ UNCHANGED <<bits, sent, lost, errors>>
      /\ UNCHANGED <<RunCount, RecvCurrentByte, RingBufIndex, StartPacket, RecvRingBuff>>
  BY DEF ReadPacket, lineVars, interruptVars
<1>2. /\ TypeOK /\ RingInv /\ LineInv /\ Done \in Nat /\ Done <= Len(sent) /\ Len(sent) \in Nat
      /\ \A frame \in 1..Len(sent) : sent[frame] \in Messages
      /\ processed \in Seq(Seq(0..255)) /\ RecvEventQueue \in Seq(Pairs)
  BY InvIs, QueueIs DEF TypeOK
<1>3. RingInv' /\ LineInv'
  BY <1>1, <1>2, ReadRing, LineKept
<1>4. PICK from \in Seq(Nat), waiting \in Seq(Nat) :
          Numbering(from, waiting, Done, lost, errors) /\ Processed(from) /\ Waiting(waiting)
  BY DEF Inv, NumberInv
<1>5. PICK packet : packet = Head(RecvEventQueue)
  OBVIOUS
<1> DEFINE number == Head(waiting)
<1>6. /\ Len(waiting) = Len(RecvEventQueue) /\ waiting # <<>> /\ number = waiting[1]
      /\ number \in 0..Done /\ 1 \in DOMAIN waiting
      /\ RecvEventQueue[1] = packet /\ packet \in Pairs
      /\ Len(RecvEventQueue') = Len(Tail(waiting)) /\ Tail(waiting) \in Seq(Nat)
      /\ DOMAIN Tail(waiting) = 1..Len(Tail(waiting))
      /\ \A j \in DOMAIN Tail(waiting) :
            /\ Tail(waiting)[j] = waiting[j + 1] /\ j + 1 \in DOMAIN waiting
            /\ RecvEventQueue'[j] = RecvEventQueue[j + 1]
  <2>1. Len(waiting) = Len(RecvEventQueue) /\ Len(waiting) \in Nat /\ DOMAIN waiting = 1..Len(waiting)
    BY <1>4, LenProperties DEF Waiting
  <2>2. Len(RecvEventQueue) # 0
    BY <1>1, <1>2
  <2>3. Len(waiting) > 0 /\ waiting # <<>> /\ 1 \in DOMAIN waiting /\ number = waiting[1]
    BY <2>1, <2>2
  <2>4. number \in 0..Done
    BY <1>2, <1>4, <2>3, NumberedIs
  <2>5. /\ Tail(waiting) \in Seq(Nat) /\ Len(Tail(waiting)) = Len(waiting) - 1
        /\ \A j \in 1..Len(Tail(waiting)) : Tail(waiting)[j] = waiting[j + 1]
    BY <2>3, HeadTailProperties
  <2>6. /\ Head(RecvEventQueue) \in Pairs /\ Len(RecvEventQueue') = Len(RecvEventQueue) - 1
        /\ \A j \in 1..Len(RecvEventQueue') : RecvEventQueue'[j] = RecvEventQueue[j + 1]
    BY <1>1, <1>2, HeadTailProperties
  <2>7. Head(RecvEventQueue) = RecvEventQueue[1]
    BY <1>2, <2>2
  <2>8. DOMAIN Tail(waiting) = 1..Len(Tail(waiting))
    BY <2>5, LenProperties
  <2>9. \A j \in 1..Len(Tail(waiting)) : j + 1 \in DOMAIN waiting
    BY <2>1, <2>5
  <2> QED
    BY <1>5, <2>1, <2>3, <2>4, <2>5, <2>6, <2>7, <2>8, <2>9
<1> HIDE DEF number
<1>7. Waiting(Tail(waiting))'
  <2>1. ASSUME NEW j \in DOMAIN Tail(waiting), Tail(waiting)[j] # 0
        PROVE  (PacketData(RecvEventQueue[j]) = Packet(sent[Tail(waiting)[j]]))'
    <3>1. PICK next : next = RecvEventQueue[j + 1]
      OBVIOUS
    <3>2. PICK m : m = sent[waiting[j + 1]]
      OBVIOUS
    <3>3. PacketData(next) = Packet(m)
      BY <1>4, <1>6, <2>1, <3>1, <3>2 DEF Waiting
    <3>4. PacketData(next)' = PacketData(next)
      BY <1>1 DEF PacketData
    <3>5. RecvEventQueue'[j] = next /\ sent'[Tail(waiting)[j]] = m
      BY <1>1, <1>6, <3>1, <3>2
    <3>6. (PacketData(RecvEventQueue[j]))' = PacketData(next)'
      BY <3>5 DEF PacketData
    <3> QED
      BY <3>3, <3>4, <3>5, <3>6
  <2> QED
    BY <1>6, <2>1 DEF Waiting
<1>8. Done' = Done /\ lost' = lost /\ errors' = errors
  BY <1>1 DEF Done
<1>9. CASE Good(packet)
  <2>1. processed' = Append(processed, Message(packet))
    BY <1>1, <1>5, <1>9
  <2>2. Numbering(Append(from, number), Tail(waiting), Done', lost', errors')
    BY <1>2, <1>4, <1>6, <1>8, NumberingRead DEF number
  <2>3. number # 0 => Message(packet) = sent[number]
    <3> SUFFICES ASSUME number # 0 PROVE Message(packet) = sent[number]
      OBVIOUS
    <3>1. PacketData(packet) = Packet(sent[number])
      BY <1>4, <1>6 DEF Waiting
    <3>2. sent[number] \in Messages
      BY <1>2, <1>6
    <3> QED
      BY <1>2, <1>6, <3>1, <3>2, SentIsGood
  <2>4. /\ Append(from, number) \in Seq(Nat) /\ Len(from) = Len(processed) /\ Len(from) \in Nat
        /\ Len(Append(from, number)) = Len(from) + 1
        /\ DOMAIN Append(from, number) = 1..(Len(from) + 1)
        /\ \A i \in 1..Len(from) : Append(from, number)[i] = from[i]
        /\ Append(from, number)[Len(from) + 1] = number /\ DOMAIN from = 1..Len(from)
    <3>1. number \in Nat
      BY <1>2, <1>6
    <3> QED
      BY <1>4, <3>1, AppendProperties, LenProperties DEF Processed
  <2>5. /\ Len(processed') = Len(processed) + 1
        /\ \A i \in 1..Len(processed) : processed'[i] = processed[i]
        /\ processed'[Len(processed) + 1] = Message(packet)
    BY <1>2, <2>1
  <2>6. Processed(Append(from, number))'
    <3> SUFFICES ASSUME NEW i \in 1..(Len(from) + 1), Append(from, number)[i] # 0
                 PROVE  processed'[i] = sent[Append(from, number)[i]]
      BY <1>1, <2>4, <2>5 DEF Processed
    <3>1. CASE i = Len(from) + 1
      BY <2>3, <2>4, <2>5, <3>1
    <3>2. CASE i \in 1..Len(from)
      <4>1. processed[i] = sent[from[i]]
        BY <1>4, <2>4, <3>2 DEF Processed
      <4> QED
        BY <2>4, <2>5, <3>2, <4>1
    <3> QED
      BY <2>4, <3>1, <3>2
  <2>7. NumberInv'
    BY <1>6, <1>7, <2>2, <2>4, <2>6 DEF NumberInv
  <2> QED
    BY <1>3, <2>7 DEF Inv
<1>10. CASE ~Good(packet)
  <2>1. processed' = processed
    BY <1>1, <1>5, <1>10
  <2>2. number = 0
    <3> SUFFICES ASSUME number # 0 PROVE FALSE
      OBVIOUS
    <3>1. PacketData(packet) = Packet(sent[number])
      BY <1>4, <1>6 DEF Waiting
    <3>2. sent[number] \in Messages
      BY <1>2, <1>6
    <3> QED
      BY <1>2, <1>6, <1>10, <3>1, <3>2, SentIsGood
  <2>3. Numbering(from, Tail(waiting), Done', lost', errors')
    BY <1>2, <1>4, <1>6, <1>8, <2>2, NumberingRead DEF number
  <2>4. Processed(from)'
    BY <1>1, <1>4, <2>1 DEF Processed
  <2>5. NumberInv'
    BY <1>6, <1>7, <2>3, <2>4 DEF NumberInv
  <2> QED
    BY <1>3, <2>5 DEF Inv
<1> QED
  BY <1>9, <1>10

LEMMA InvNext == Inv /\ [Next]_vars => Inv'
<1> SUFFICES ASSUME Inv, [Next]_vars PROVE Inv'
  OBVIOUS
<1>1. TypeInv'
  BY TypeNext DEF Inv
<1>2. ASSUME NEW m \in Messages, NEW idle \in BOOLEAN, SendFrame(m, idle) PROVE Inv'
  BY <1>1, <1>2, SendStep
<1>3. CASE AbortFrame
  BY <1>1, <1>3, AbortStep
<1>4. ASSUME NEW wrong \in BOOLEAN, ReceiveBit(wrong) PROVE Inv'
  BY <1>1, <1>4, BitStep
<1>5. CASE ReadPacket
  BY <1>1, <1>5, ReadStep
<1>6. CASE UNCHANGED vars
  BY <1>6, StandStill
<1> QED
  BY <1>2, <1>3, <1>4, <1>5, <1>6 DEF Next

--------------------------------------------------------------------------------
\* When everything has been read, the numbers say where each packet is from.
LEMMA NumbersAreOrigins ==
    ASSUME Inv, AllRead
    PROVE  \E from \in [DOMAIN processed -> {0} \cup DOMAIN sent] :
              Origins(from) /\ (errors = 0 => from \in [DOMAIN processed -> DOMAIN sent])
<1>1. PICK from \in Seq(Nat), waiting \in Seq(Nat) :
          Numbering(from, waiting, Done, lost, errors) /\ Processed(from) /\ Waiting(waiting)
  BY DEF Inv, NumberInv
<1>2. bits = <<>> /\ RecvEventQueue = <<>> /\ Done = Len(sent) /\ Len(sent) \in Nat
      /\ DOMAIN sent = 1..Len(sent) /\ processed \in Seq(Seq(0..255))
  BY InvIs DEF AllRead, TypeOK
<1>3. /\ Len(waiting) = 0 /\ DOMAIN waiting = {}
  BY <1>1, <1>2, LenProperties DEF Waiting
<1>4. /\ DOMAIN from = DOMAIN processed /\ \A i \in DOMAIN from : from[i] \in 0..Len(sent)
      /\ from = [i \in DOMAIN from |-> from[i]]
  <2>1. Len(from) = Len(processed) /\ DOMAIN from = 1..Len(from)
        /\ \A i \in DOMAIN from : from[i] \in 0..Len(sent)
    BY <1>1, <1>2, NumberedIs DEF Processed
  <2>2. DOMAIN processed = 1..Len(processed)
    BY <1>2, LenProperties
  <2>3. from = [i \in DOMAIN from |-> from[i]]
    BY <1>1, LenProperties
  <2> QED
    BY <2>1, <2>2, <2>3
<1>5. \A i \in DOMAIN from : from[i] \in {0} \cup DOMAIN sent /\ (from[i] # 0 => from[i] \in DOMAIN sent)
  BY <1>2, <1>4
<1>6. from \in [DOMAIN processed -> {0} \cup DOMAIN sent]
  BY <1>4, <1>5
<1>7. errors = 0 => from \in [DOMAIN processed -> DOMAIN sent]
  <2>1. errors = 0 => \A i \in DOMAIN from : from[i] # 0
    BY <1>1 DEF Numbering
  <2> QED
    BY <1>4, <1>5, <2>1
<1>8. Origins(from)
  <2>1. \A i \in DOMAIN processed : from[i] # 0 => processed[i] = sent[from[i]]
    BY <1>1, <1>4 DEF Processed
  <2>2. \A i, j \in DOMAIN processed :
            i < j /\ from[i] # 0 /\ from[j] # 0 => from[i] < from[j]
    BY <1>1, <1>4 DEF Numbering, Growing
  <2>3. \A frame \in DOMAIN sent \ lost : \E i \in DOMAIN processed : from[i] = frame
    BY <1>1, <1>2, <1>3, <1>4 DEF Numbering
  <2> QED
    BY <2>1, <2>2, <2>3 DEF Origins
<1> QED
  BY <1>6, <1>7, <1>8

\* Whatever bits are wrong, what was sent and was not disturbed arrives once, in order and
\* unchanged, and what arrives beside it (0) came from a wrong bit: a wrong bit takes no
\* frame with it but its own (LowLevel.cpp 179-205, 294-337).
UndisturbedArrive ==
    AllRead => \E from \in [DOMAIN processed -> {0} \cup DOMAIN sent] : Origins(from)

THEOREM UndisturbedAlwaysArrive == Spec => []UndisturbedArrive
<1>1. Inv => UndisturbedArrive
  BY NumbersAreOrigins DEF UndisturbedArrive
<1> QED
  BY InvInit, InvNext, <1>1, PTL DEF Spec

\* As long as no bit has been wrong, what was sent arrives once, in order and unchanged, and
\* nothing else does, except for frames that were given up or met a full queue
\* (LowLevel.cpp 53-205, 245-337; crc.cpp 15-39).
THEOREM NothingElseArrives == Spec => [](errors = 0 => OnlyDisturbedAreLost)
<1>1. Inv => (errors = 0 => OnlyDisturbedAreLost)
  BY NumbersAreOrigins DEF OnlyDisturbedAreLost
<1> QED
  BY InvInit, InvNext, <1>1, PTL DEF Spec

=============================================================================
