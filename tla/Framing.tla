-------------------------------- MODULE Framing --------------------------------
(***************************************************************************)
(* Frames as bits on the line: the checksum and the zero bits that are put *)
(* into what is sent, and the interrupt that finds frames in what is       *)
(* received, bit by bit, and passes them to MessageTask through a ring     *)
(* buffer and a queue of pointers into it (LowLevel.cpp 53-205, 245-337,   *)
(* crc.cpp).                                                               *)
(*                                                                         *)
(* The terminal makes its frames as SDLC says, which is what the sending   *)
(* half of the program does too, so the bits it sends are computed by the  *)
(* program's own functions.  Between frames the line is idle, a frame may  *)
(* be aborted, and now and then a bit is wrong.                            *)
(***************************************************************************)
EXTENDS Integers, Sequences, SequencesExt

CONSTANTS
    Messages,     \* what the terminal may send, sequences of bytes
    RingSize,     \* RING_BUF_SIZE, a power of two
    QueueSize,    \* length of RecvEventQueue
    MaxPacket,    \* sizeof(PacketData)
    IndexLimit,   \* how many values RingBufIndex has, 2^32
    StartIndex,   \* how far RingBufIndex may have come when the run begins
    MaxFrames,    \* bound: frames that the terminal sends
    MaxErrors     \* bound: bits that are wrong

\* With its checksum a message fits into PacketData.
ASSUME MessagesAssumption ==
    \A m \in Messages : m \in Seq(0..255) /\ Len(m) + 2 < MaxPacket
ASSUME RingAssumption ==
    /\ RingSize \in Nat \ {0} /\ QueueSize \in Nat \ {0} /\ MaxPacket \in 1..RingSize
    /\ IndexLimit \in Nat /\ IndexLimit > RingSize /\ IndexLimit % RingSize = 0
    /\ StartIndex \subseteq 0..(IndexLimit - 1)
ASSUME BoundsAssumption == MaxFrames \in Nat /\ MaxErrors \in Nat

Bit == {0, 1}

\* ~0u
INVALID_PACKET == IndexLimit - 1

--------------------------------------------------------------------------------
(***************************************************************************)
(* Checksum.  A register of 16 bits, bit 15 first.                         *)
(***************************************************************************)
\* CBitStream reads and writes each byte from its lowest bit.
Weight == <<1, 2, 4, 8, 16, 32, 64, 128>>
ByteBits(byte) == [i \in 1..8 |-> (byte \div Weight[i]) % 2]
Bits(bytes) ==
    [i \in 1..(8 * Len(bytes)) |-> ByteBits(bytes[((i - 1) \div 8) + 1])[((i - 1) % 8) + 1]]

Preset == [i \in 0..15 |-> 1]

Step(crc, data) ==
    LET bit == (data + crc[15]) % 2 IN
    [i \in 0..15 |-> IF i = 0 THEN bit
                     ELSE IF i \in {5, 12} THEN (crc[i - 1] + bit) % 2 ELSE crc[i - 1]]

CalculateCRC(bits) ==
    LET crc == FoldLeft(Step, Preset, bits)
    IN  bits \o [i \in 1..16 |-> 1 - crc[16 - i]]

\* The table of crc.cpp: four steps from a register whose low bits are 0.
CRCLookup ==
    [nibble \in [0..3 -> Bit] |->
        [data \in [1..4 -> Bit] |->
            FoldLeft(Step, [i \in 0..15 |-> IF i >= 12 THEN nibble[i - 12] ELSE 0], data)]]

LookUp(crc, data) ==
    LET entry == CRCLookup[[i \in 0..3 |-> crc[12 + i]]][data]
    IN  [i \in 0..15 |-> ((IF i >= 4 THEN crc[i - 4] ELSE 0) + entry[i]) % 2]

LookUpByte(crc, byte) ==
    LookUp(LookUp(crc, SubSeq(ByteBits(byte), 1, 4)), SubSeq(ByteBits(byte), 5, 8))

\* 0x1D0F
ValidatePacket(bytes) ==
    FoldLeft(LookUpByte, Preset, bytes)
        = [i \in 0..15 |-> IF i \in {0, 1, 2, 3, 8, 10, 11, 12} THEN 1 ELSE 0]

--------------------------------------------------------------------------------
(***************************************************************************)
(* Zero bits and flags.                                                    *)
(***************************************************************************)
Flag == <<0, 1, 1, 1, 1, 1, 1, 0>>

\* A zero follows every sixth one, not every fifth.
InsertZeroLate(done, bit) ==
    LET ones == IF bit = 1 THEN done.ones + 1 ELSE 0 IN
    IF ones = 6 THEN [bits |-> done.bits \o <<bit, 0>>, ones |-> 0]
                ELSE [bits |-> Append(done.bits, bit), ones |-> ones]

InsertZero(done, bit) ==
    LET ones == IF bit = 1 THEN done.ones + 1 ELSE 0 IN
    IF ones = 5 THEN [bits |-> done.bits \o <<bit, 0>>, ones |-> 0]
                ELSE [bits |-> Append(done.bits, bit), ones |-> ones]

ZeroBitAndFlagInsertion(bits) ==
    Flag \o FoldLeft(InsertZero, [bits |-> <<>>, ones |-> 0], bits).bits \o Flag

\* What goes out for each message.
FrameBits == [m \in Messages |-> ZeroBitAndFlagInsertion(CalculateCRC(Bits(m)))]

--------------------------------------------------------------------------------
VARIABLES
    bits,              \* what the terminal has decided to send and not sent yet
    sent,              \* the messages it has begun to send
    lost,              \* which of them need not arrive (see below)
    errors,            \* how many bits were wrong
    RunCount,          \* ones received in a row
    RecvCurrentByte,   \* the bits of a byte, above a 1 that marks the end
    RingBufIndex,
    StartPacket,       \* where the frame began
    RecvRingBuff,
    RecvEventQueue,    \* pairs of indices
    processed          \* the packets with a good checksum that were processed

lineVars == <<bits, sent, lost, errors>>
interruptVars == <<RunCount, RecvCurrentByte, RingBufIndex, StartPacket, RecvRingBuff>>
vars == <<lineVars, interruptVars, RecvEventQueue, processed>>

Init ==
    /\ bits = <<>>
    /\ sent = <<>>
    /\ lost = {}
    /\ errors = 0
    /\ RunCount = 0
    /\ RecvCurrentByte = 0
    /\ RingBufIndex \in StartIndex
    /\ StartPacket = INVALID_PACKET
    /\ RecvRingBuff = [i \in 0..(RingSize - 1) |-> 0]
    /\ RecvEventQueue = <<>>
    /\ processed = <<>>

--------------------------------------------------------------------------------
(***************************************************************************)
(* The line.  The terminal sends whole frames, with or without a time      *)
(* without flags before, or gives one up with seven ones or more.          *)
(***************************************************************************)
Idle == <<1, 1, 1, 1, 1, 1, 1, 1>>

SendFrame(m, idle) ==
    /\ bits = <<>> /\ Len(sent) < MaxFrames
    /\ bits' = (IF idle THEN Idle ELSE <<>>) \o FrameBits[m]
    /\ sent' = Append(sent, m)
    /\ UNCHANGED <<lost, errors, interruptVars, RecvEventQueue, processed>>

\* Before the closing flag.
AbortFrame ==
    /\ Len(bits) > Len(Flag) /\ Len(sent) \notin lost
    /\ bits' = Idle
    /\ lost' = lost \cup {Len(sent)}
    /\ UNCHANGED <<sent, errors, interruptVars, RecvEventQueue, processed>>

--------------------------------------------------------------------------------
(***************************************************************************)
(* The interrupt, once for each bit.                                       *)
(***************************************************************************)
Wrap(index) == index % IndexLimit

\* MessageTask reads a packet before the ring comes round to it.
Oldest == IF RecvEventQueue # <<>> THEN Head(RecvEventQueue)[1] ELSE StartPacket
RingHasRoom ==
    Oldest # INVALID_PACKET => Wrap(RingBufIndex - Oldest + IndexLimit) < RingSize

\* The first bit is taken for the highest one.
StoreBitHighestFirst(bit) ==
    LET byte == RecvCurrentByte * 2 + bit IN
    IF RecvCurrentByte \div 128 % 2 = 1
    THEN /\ RingHasRoom
         /\ RecvRingBuff' = [RecvRingBuff EXCEPT ![RingBufIndex % RingSize] = byte]
         /\ RingBufIndex' = Wrap(RingBufIndex + 1)
         /\ RecvCurrentByte' = 1
    ELSE /\ RecvCurrentByte' = byte
         /\ UNCHANGED <<RecvRingBuff, RingBufIndex>>

StoreBit(bit) ==
    LET byte == RecvCurrentByte \div 2 + 128 * bit IN
    IF RecvCurrentByte % 2 = 1
    THEN /\ RingHasRoom
         /\ RecvRingBuff' = [RecvRingBuff EXCEPT ![RingBufIndex % RingSize] = byte]
         /\ RingBufIndex' = Wrap(RingBufIndex + 1)
         /\ RecvCurrentByte' = 128
    ELSE /\ RecvCurrentByte' = byte
         /\ UNCHANGED <<RecvRingBuff, RingBufIndex>>

\* A packet that the queue has no room for is dropped.
QueuePacket ==
    IF StartPacket \notin {INVALID_PACKET, RingBufIndex} /\ Len(RecvEventQueue) < QueueSize
    THEN RecvEventQueue' = Append(RecvEventQueue, <<StartPacket, RingBufIndex>>)
    ELSE UNCHANGED RecvEventQueue

FoundFlag ==
    /\ QueuePacket
    /\ StartPacket' = RingBufIndex
    /\ RecvCurrentByte' = 128
    /\ UNCHANGED <<RecvRingBuff, RingBufIndex>>

\* The first zero after five ones or more, which is not stored.
EndOfRun ==
    \/ /\ RunCount > 6
       /\ StartPacket' = INVALID_PACKET
       /\ UNCHANGED <<RecvCurrentByte, RingBufIndex, RecvRingBuff, RecvEventQueue>>
    \/ RunCount = 6 /\ FoundFlag
    \/ RunCount = 5
       /\ UNCHANGED <<RecvCurrentByte, RingBufIndex, StartPacket, RecvRingBuff,
                      RecvEventQueue>>

RecvCallback(bit) ==
    \/ /\ bit = 1
       /\ RunCount' = RunCount + 1
       /\ StoreBit(bit)
       /\ UNCHANGED <<StartPacket, RecvEventQueue>>
    \/ /\ bit = 0 /\ RunCount < 5
       /\ RunCount' = 0
       /\ StoreBit(bit)
       /\ UNCHANGED <<StartPacket, RecvEventQueue>>
    \/ /\ bit = 0 /\ RunCount >= 5
       /\ RunCount' = 0
       /\ EndOfRun

\* A frame need not arrive that has a wrong bit, that finds the queue full, or whose
\* first byte has the index that stands for no packet.
NeedNotArrive(wrong) ==
    \/ wrong
    \/ StartPacket' = INVALID_PACKET /\ RunCount = 6
    \/ RunCount = 6 /\ Len(bits) = 1 /\ Len(RecvEventQueue) = QueueSize

ReceiveBit(wrong) ==
    /\ bits # <<>>
    /\ wrong => errors < MaxErrors
    /\ errors' = IF wrong THEN errors + 1 ELSE errors
    /\ bits' = Tail(bits)
    /\ RecvCallback(IF wrong THEN 1 - Head(bits) ELSE Head(bits))
    /\ lost' = IF NeedNotArrive(wrong) THEN lost \cup {Len(sent)} ELSE lost
    /\ UNCHANGED <<sent, processed>>

--------------------------------------------------------------------------------
(***************************************************************************)
(* MessageTask takes a packet.                                             *)
(***************************************************************************)
PacketData(packet) ==
    [i \in 1..Wrap(packet[2] - packet[1] + IndexLimit) |->
        RecvRingBuff[Wrap(packet[1] + i - 1) % RingSize]]

\* It is short enough, and what it carries is what was sent.
Good(packet) ==
    Len(PacketData(packet)) < MaxPacket /\ ValidatePacket(PacketData(packet))

Message(packet) == SubSeq(PacketData(packet), 1, Len(PacketData(packet)) - 2)

ReadPacket ==
    /\ RecvEventQueue # <<>>
    /\ RecvEventQueue' = Tail(RecvEventQueue)
    /\ processed' = IF Good(Head(RecvEventQueue))
                    THEN Append(processed, Message(Head(RecvEventQueue))) ELSE processed
    /\ UNCHANGED <<lineVars, interruptVars>>

Next ==
    \/ \E m \in Messages, idle \in BOOLEAN : SendFrame(m, idle)
    \/ AbortFrame
    \/ \E wrong \in BOOLEAN : ReceiveBit(wrong)
    \/ ReadPacket

Spec == Init /\ [][Next]_vars

--------------------------------------------------------------------------------
(***************************************************************************)
(* Properties.                                                             *)
(***************************************************************************)
TypeOK ==
    /\ bits \in Seq(Bit)
    /\ sent \in Seq(Messages) /\ Len(sent) <= MaxFrames
    /\ lost \subseteq DOMAIN sent
    /\ errors \in 0..MaxErrors
    /\ RunCount \in Nat
    /\ RecvCurrentByte \in 0..255
    /\ RingBufIndex \in 0..(IndexLimit - 1)
    /\ StartPacket \in 0..(IndexLimit - 1)
    /\ RecvRingBuff \in [0..(RingSize - 1) -> 0..255]
    /\ RecvEventQueue \in Seq((0..INVALID_PACKET) \X (0..INVALID_PACKET))
    /\ Len(RecvEventQueue) <= QueueSize
    /\ processed \in Seq(Seq(0..255))

\* Each of what was processed is a frame that was sent, or 0 for something else; the
\* frames are in order, and all of those that need arrive are there.
Origins(from) ==
    /\ \A i \in DOMAIN processed : from[i] # 0 => processed[i] = sent[from[i]]
    /\ \A i, j \in DOMAIN processed :
            i < j /\ from[i] # 0 /\ from[j] # 0 => from[i] < from[j]
    /\ \A frame \in DOMAIN sent \ lost : \E i \in DOMAIN processed : from[i] = frame

AllRead == bits = <<>> /\ RecvEventQueue = <<>>

\* What was sent arrives once, in order and unchanged, except for the frames that were
\* given up, had a wrong bit or met a full queue: a wrong bit takes no other frame
\* with it, and nothing that was not sent passes for good
\* (LowLevel.cpp 179-205, 294-337; crc.cpp 29-39).
OnlyDisturbedAreLost ==
    AllRead => \E from \in [DOMAIN processed -> DOMAIN sent] : Origins(from)

=============================================================================
