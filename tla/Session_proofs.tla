---------------------------- MODULE Session_proofs ----------------------------
(***************************************************************************)
(* The counts of numbered frames, for every modulus, size of a screen and  *)
(* number of faults: of all the faults only an answer that comes too late  *)
(* puts them out.  From the counts, that each client gets its inputs once, *)
(* the order of the packets of a chain, for a client that never withdraws  *)
(* its prompts, and the types.                                             *)
(***************************************************************************)
EXTENDS Session, SequenceTheorems, FiniteSetTheorems, FunctionTheorems, TLAPS

--------------------------------------------------------------------------------
(***************************************************************************)
(* The invariant.                                                          *)
(***************************************************************************)
Counts == 0..(Modulus - 1)
Messages == [what : {"Response", "Input"}, fid : Int]

Types ==
    /\ State \in EState
    /\ SendCount \in Counts /\ RecieveCount \in Counts /\ VR \in Counts /\ VS \in Counts
    /\ WaitForSequence \in Int /\ ProcessedPacket \in Int
    /\ Sequence \in Nat /\ inputFid \in Nat
    /\ task \in {"generate", "sent", "receive"}
    /\ mode \in {"disconnected", "normal"}
    /\ outQ \in Seq(Messages)

\* The frame that is sent.
OutFrame ==
    task = "sent" =>
        /\ out.kind = "I" => /\ out.nr = RecieveCount
                             /\ out.ns \in Counts /\ SendCount = Inc(out.ns)
                             /\ out.message.fid \in Int
        /\ out.kind = "RR" => out.nr = RecieveCount
        /\ out.kind = "SNRM" => State = "ActPU" /\ SendCount = 0 /\ mode = "disconnected"
        /\ out.kind # "I" => bWaitForReply

\* An answer says what the terminal has taken, and if it has a message, that is one
\* which the host lacks.
NewAnswer(frame) ==
    Counted(frame) =>
        /\ mode = "normal"
        /\ frame.nr = VR
        /\ frame.kind = "I" =>
              RecieveCount = VS /\ outQ # <<>> /\ frame.message.fid \in Int

\* The line holds one answer at most, and MessageTask waits for it.
Answers ==
    \/ toHost = <<>>
    \/ /\ task = "receive" /\ bWaitForReply
       /\ toHost = <<Head(toHost)>>
       /\ NewAnswer(Head(toHost))

\* SNRM comes first.
SNRMFirst ==
    /\ State \in {"XID", "Nrm"} => mode = "disconnected" /\ SendCount = 0
    /\ mode = "disconnected" => RecieveCount = 0

\* How far the host is ahead of what the terminal has taken.  By one, while it awaits a
\* response, or where the frame it sends next is one that it awaits a response to.
InStep == SendCount = VR
AheadByOne ==
    /\ SendCount = Inc(VR)
    /\ State \notin {"XID", "Nrm", "ActPU"}
    /\ WaitForSequence # NoSequence \/ State \in {"DataReset", "SendScreen", "Respond2"}
AheadByTwo ==
    /\ SendCount = Inc(Inc(VR))
    /\ State = "SendScreen" \/ (State = "WaitForInput" /\ CurrentLine = 0)
    /\ WaitForSequence # NoSequence
Sent == mode = "normal" => InStep \/ AheadByOne \/ AheadByTwo

\* The host has read one message at most of those it has not acknowledged.
Read == mode = "normal" => RecieveCount = VS \/ (RecieveCount = Inc(VS) /\ outQ # <<>>)

SessionInv ==
    /\ Types
    /\ OutFrame
    /\ Answers
    /\ SNRMFirst
    /\ Sent
    /\ Read

--------------------------------------------------------------------------------
(***************************************************************************)
(* Counts modulo Modulus.                                                  *)
(***************************************************************************)
LEMMA CountsWrap ==
    ASSUME NEW n \in Counts
    PROVE  /\ Inc(n) \in Counts
           /\ Dec(Inc(n)) = n
           /\ Inc(n) # n /\ Inc(Inc(n)) # n
           /\ (n - n) % Modulus = 0
           /\ (Inc(n) - n) % Modulus = 1
           /\ (Inc(Inc(n)) - n) % Modulus = 2
<1>1. Modulus \in Nat /\ Modulus >= 4
  BY ModulusAssumption
<1>2. \A k \in 0..(Modulus - 1) :
        /\ k % Modulus = k
        /\ (k + Modulus) % Modulus = k
        /\ (k - Modulus) % Modulus = k
  BY <1>1
<1>3. Modulus % Modulus = 0
  BY <1>1
<1>4. \A k \in Counts : Inc(k) = IF k = Modulus - 1 THEN 0 ELSE k + 1
  BY <1>1, <1>2, <1>3 DEF Counts, Inc
<1>5. \A k \in Counts : Dec(k) = IF k = 0 THEN Modulus - 1 ELSE k - 1
  BY <1>1, <1>2 DEF Counts, Dec
<1>6. Inc(n) \in Counts
  BY <1>1, <1>4 DEF Counts
<1>7. Inc(Inc(n)) \in Counts
      /\ Inc(Inc(n)) = IF Inc(n) = Modulus - 1 THEN 0 ELSE Inc(n) + 1
  BY <1>1, <1>4, <1>6 DEF Counts
<1>8. Dec(Inc(n)) = n
  BY <1>1, <1>4, <1>5, <1>6 DEF Counts
<1>9. Inc(n) # n /\ Inc(Inc(n)) # n
  BY <1>1, <1>4, <1>7 DEF Counts
<1>10. (n - n) % Modulus = 0
  BY <1>1, <1>2 DEF Counts
<1>11. (Inc(n) - n) % Modulus = 1
  <2>1. CASE n = Modulus - 1
    <3>1. Inc(n) - n = 1 - Modulus
      BY <1>1, <1>4, <2>1
    <3>2. (1 - Modulus) % Modulus = 1
      BY <1>1, <1>2
    <3> QED
      BY <3>1, <3>2
  <2>2. CASE n # Modulus - 1
    <3>1. Inc(n) - n = 1
      BY <1>1, <1>4, <2>2 DEF Counts
    <3>2. 1 % Modulus = 1
      BY <1>1, <1>2
    <3> QED
      BY <3>1, <3>2
  <2> QED
    BY <2>1, <2>2
<1>12. (Inc(Inc(n)) - n) % Modulus = 2
  <2>1. CASE n >= Modulus - 2
    <3>1. Inc(Inc(n)) - n = 2 - Modulus
      BY <1>1, <1>4, <1>7, <2>1 DEF Counts
    <3>2. (2 - Modulus) % Modulus = 2
      BY <1>1, <1>2
    <3> QED
      BY <3>1, <3>2
  <2>2. CASE n < Modulus - 2
    <3>1. Inc(Inc(n)) - n = 2
      BY <1>1, <1>4, <1>7, <2>2 DEF Counts
    <3>2. 2 % Modulus = 2
      BY <1>1, <1>2
    <3> QED
      BY <3>1, <3>2
  <2> QED
    BY <1>1, <2>1, <2>2 DEF Counts
<1> QED
  BY <1>6, <1>8, <1>9, <1>10, <1>11, <1>12

LEMMA FidIsNat == ASSUME NEW n \in Nat PROVE NextFid(n) \in Nat
<1>1. FidModulus \in Nat /\ FidModulus > 0
  BY FidModulusAssumption
<1>2. \A k \in Nat : k % FidModulus \in 0..(FidModulus - 1)
  BY <1>1
<1> QED
  BY <1>1, <1>2 DEF NextFid

--------------------------------------------------------------------------------
(***************************************************************************)
(* GenerateNewPackets.  Each frame is built while nothing is on the line.  *)
(***************************************************************************)
LEMMA NothingOnLine ==
    ASSUME SessionInv, task # "receive" PROVE toHost = <<>>
BY DEF SessionInv, Answers

\* A frame without a count leaves the counts alone; the poll changes what it waits for.
LEMMA PollStep ==
    ASSUME SessionInv, Poll PROVE SessionInv'
<1>1. toHost = <<>> /\ toHost' = <<>>
  BY NothingOnLine DEF Poll, Emit
<1>2. Types'
  BY DEF SessionInv, Types, Poll, Emit, terminalVars
<1>3. OutFrame'
  BY DEF OutFrame, Poll, Emit, RRFrame
<1>4. Answers'
  BY <1>1 DEF Answers
<1>5. SNRMFirst'
  BY DEF SessionInv, SNRMFirst, Poll, Emit, terminalVars
<1>6. Sent'
  BY DEF SessionInv, Sent, InStep, AheadByOne, AheadByTwo, Inc, Poll, Emit, terminalVars
<1>7. Read'
  BY DEF SessionInv, Read, Inc, Poll, Emit, terminalVars
<1> QED
  BY <1>2, <1>3, <1>4, <1>5, <1>6, <1>7 DEF SessionInv

LEMMA UnnumberedStep ==
    ASSUME SessionInv, SendXID \/ SendSNRM PROVE SessionInv'
<1> USE DEF SendXID, SendSNRM, SendUnnumbered, Ready, Emit
<1>1. toHost = <<>> /\ toHost' = <<>>
  BY NothingOnLine
<1>0. mode = "disconnected" /\ SendCount = 0
  BY DEF SessionInv, SNRMFirst
<1>2. Types'
  BY DEF SessionInv, Types, EState, terminalVars
<1>3. OutFrame'
  BY <1>0 DEF OutFrame, XIDFrame, SNRMFrame, terminalVars
<1>4. Answers'
  BY <1>1 DEF Answers
<1>5. SNRMFirst'
  BY <1>0 DEF SessionInv, SNRMFirst, terminalVars
<1>6. Sent' /\ Read'
  BY <1>0 DEF Sent, Read, terminalVars
<1> QED
  BY <1>2, <1>3, <1>4, <1>5, <1>6 DEF SessionInv

LEMMA InputPollStep ==
    ASSUME SessionInv, NEW cancel \in BOOLEAN, PollForInput(cancel) PROVE SessionInv'
<1> USE DEF PollForInput, Ready, Emit
<1>1. toHost = <<>> /\ toHost' = <<>>
  BY NothingOnLine
<1>2. Types'
  BY DEF SessionInv, Types, EState, terminalVars
<1>3. OutFrame'
  BY DEF OutFrame, RRFrame
<1>4. Answers'
  BY <1>1 DEF Answers
<1>5. SNRMFirst'
  BY DEF SessionInv, SNRMFirst, terminalVars
<1>6. Sent'
  BY DEF SessionInv, Sent, InStep, AheadByOne, AheadByTwo, terminalVars
<1>7. Read'
  BY DEF SessionInv, Read, Inc, terminalVars
<1> QED
  BY <1>2, <1>3, <1>4, <1>5, <1>6, <1>7 DEF SessionInv

\* What a numbered frame does to the invariant: the host is one further ahead.  The
\* frame is awaited, or it is the response to an input.
LEMMA NumberedStep ==
    ASSUME SessionInv, task = "generate", WaitForSequence = NoSequence,
           NEW message, message.fid \in Int,
           out' = InfoFrame(message), task' = "sent", SendCount' = Inc(SendCount),
           UNCHANGED <<toHost, terminalVars, RecieveCount, ProcessedPacket>>,
           State' \in EState \ {"XID", "Nrm", "ActPU"}, WaitForSequence' \in Int,
           Sequence' \in Nat,
           InStep => WaitForSequence' # NoSequence
                        \/ State' \in {"DataReset", "SendScreen", "Respond2"},
           AheadByOne => /\ WaitForSequence' # NoSequence
                         /\ State' = "SendScreen"
                               \/ (State' = "WaitForInput" /\ CurrentLine' = 0)
    PROVE  SessionInv'
<1>1. toHost = <<>> /\ toHost' = <<>>
  BY NothingOnLine
<1>2. SendCount \in Counts /\ VR \in Counts /\ Inc(SendCount) \in Counts
  BY CountsWrap DEF SessionInv, Types
<1>3. Types'
  BY <1>2 DEF SessionInv, Types, terminalVars
<1>4. OutFrame'
  BY <1>2 DEF OutFrame, InfoFrame, Inc
<1>5. Answers'
  BY <1>1 DEF Answers
<1>6. SNRMFirst'
  BY DEF SessionInv, SNRMFirst, terminalVars
<1>7. Sent'
  <2>1. CASE mode # "normal"
    BY <2>1 DEF Sent, terminalVars
  <2>2. CASE mode = "normal" /\ InStep
    BY <2>2 DEF Sent, InStep, AheadByOne, Inc, terminalVars
  <2>3. CASE mode = "normal" /\ AheadByOne
    BY <2>3 DEF Sent, AheadByOne, AheadByTwo, Inc, terminalVars
  <2>4. ~AheadByTwo
    BY DEF AheadByTwo
  <2> QED
    BY <2>1, <2>2, <2>3, <2>4 DEF SessionInv, Sent
<1>8. Read'
  BY DEF SessionInv, Read, Inc, terminalVars
<1> QED
  BY <1>3, <1>4, <1>5, <1>6, <1>7, <1>8 DEF SessionInv

LEMMA ActivateStep ==
    ASSUME SessionInv, NEW state, NEW what, NEW fid \in Nat, NEW nextFid \in Nat, NEW next,
           Activate(state, what, fid, nextFid, next),
           next \in EState \ {"XID", "Nrm", "ActPU"},
           state \notin {"ActPU", "ActLU", "Bind"} => next = "SendScreen"
    PROVE  SessionInv'
<1> USE DEF Activate, Ready, SendRequest, Emit, Message
<1>1. fid # NoSequence
  BY DEF NoSequence
<1>2. AheadByOne => state \notin {"ActPU", "ActLU", "Bind"}
  BY DEF AheadByOne
<1> QED
  BY <1>1, <1>2, NumberedStep

LEMMA PacketStep ==
    ASSUME SessionInv, Ready("SendScreen"), NEW line, NEW num, NEW content,
           SendPacket(line, num, content)
    PROVE  SessionInv'
<1> USE DEF SendPacket, Ready, SendRequest, Emit, ScreenPacket
<1>1. Sequence \in Nat /\ Sequence # NoSequence /\ NextFid(Sequence) \in Nat
  BY FidIsNat DEF SessionInv, Types, NoSequence
<1>2. State' = "SendScreen" \/ (State' = "WaitForInput" /\ CurrentLine' = 0)
  BY DEF LineAfter
<1>3. WaitForSequence' = Sequence /\ Sequence' = NextFid(Sequence)
  OBVIOUS
<1> DEFINE message == ScreenPacket(Sequence, line, line + 1 >= num, content)
<1>4. /\ message.fid \in Int /\ out' = InfoFrame(message)
      /\ task = "generate" /\ task' = "sent" /\ WaitForSequence = NoSequence
      /\ SendCount' = Inc(SendCount)
      /\ UNCHANGED <<toHost, terminalVars, RecieveCount, ProcessedPacket>>
  BY <1>1
<1>5. State' \in EState \ {"XID", "Nrm", "ActPU"}
  BY <1>2 DEF EState
<1> HIDE DEF message, SendPacket, Ready, SendRequest, Emit, ScreenPacket
<1> QED
  BY <1>1, <1>2, <1>3, <1>4, <1>5, NumberedStep

LEMMA ResponseStep ==
    ASSUME SessionInv, SendResponse PROVE SessionInv'
<1> USE DEF SendResponse, Ready, Emit, Message
<1> DEFINE message == Message("Response", ProcessedPacket)
<1>1. /\ message.fid \in Int /\ out' = InfoFrame(message)
      /\ task = "generate" /\ task' = "sent" /\ WaitForSequence = NoSequence
      /\ SendCount' = Inc(SendCount)
      /\ UNCHANGED <<toHost, terminalVars, RecieveCount, ProcessedPacket>>
      /\ WaitForSequence' \in Int /\ Sequence' \in Nat
      /\ State' = "Respond2"
  BY DEF SessionInv, Types
<1>2. ~AheadByOne
  BY DEF AheadByOne
<1>3. State' \in EState \ {"XID", "Nrm", "ActPU"}
  BY <1>1 DEF EState
<1> HIDE DEF message
<1> QED
  BY <1>1, <1>2, <1>3, NumberedStep

LEMMA GenerateStep ==
    ASSUME SessionInv, GenerateNewPackets PROVE SessionInv'
<1>1. Sequence \in Nat /\ NextFid(Sequence) \in Nat
  BY FidIsNat DEF SessionInv, Types
<1>2. PUSequence \in Nat /\ LUSequence \in Nat
  BY DEF PUSequence, LUSequence
<1>3. CASE SendActPU
  BY <1>2, <1>3, ActivateStep DEF SendActPU, EState
<1>4. CASE SendActLU
  BY <1>2, <1>4, ActivateStep DEF SendActLU, EState
<1>5. CASE SendBind
  BY <1>5, ActivateStep DEF SendBind, EState
<1>6. CASE SendDataReset
  BY <1>1, <1>6, ActivateStep DEF SendDataReset, EState
<1>7. CASE SendRespond2
  BY <1>1, <1>7, ActivateStep DEF SendRespond2, EState
<1>8. CASE SendFirstPacket
  BY <1>8, PacketStep DEF SendFirstPacket
<1>9. CASE SendNextPacket
  BY <1>9, PacketStep DEF SendNextPacket
<1>10. ASSUME NEW cancel \in {FALSE, Cancels}, PollForInput(cancel) PROVE SessionInv'
  <2>1. cancel \in BOOLEAN
    BY DEF Cancels
  <2> QED
    BY <1>10, <2>1, InputPollStep
<1> QED
  BY <1>3, <1>4, <1>5, <1>6, <1>7, <1>8, <1>9, <1>10, PollStep, UnnumberedStep, ResponseStep
     DEF GenerateNewPackets

--------------------------------------------------------------------------------
(***************************************************************************)
(* The line and the terminal.                                              *)
(***************************************************************************)
\* Whatever becomes of a frame, its sender then receives.
LEMMA LostStep ==
    ASSUME SessionInv, LoseFrame PROVE SessionInv'
<1> USE DEF LoseFrame, ToReceive, hostVars, terminalVars
<1>1. toHost = <<>> /\ toHost' = <<>>
  BY NothingOnLine
<1>2. Types'
  BY DEF SessionInv, Types
<1>3. OutFrame' /\ Answers'
  BY <1>1 DEF OutFrame, Answers
<1>4. SNRMFirst' /\ Read'
  BY DEF SessionInv, SNRMFirst, Read, Inc
<1>5. Sent'
  BY DEF SessionInv, Sent, InStep, AheadByOne, AheadByTwo, Inc
<1> QED
  BY <1>2, <1>3, <1>4, <1>5 DEF SessionInv

LEMMA OneAnswer ==
    ASSUME NEW frame, toHost = <<>>, Answer(<<frame>>)
    PROVE  toHost' = <<Head(toHost')>> /\ Head(toHost') = frame
<1>1. <<>> \o <<frame>> = <<frame>>
  BY ConcatEmptySeq
<1> QED
  BY <1>1 DEF Answer

\* The messages that are not acknowledged by a receive count.
LEMMA AcknowledgedStep ==
    ASSUME SessionInv, mode = "normal", out.nr = RecieveCount
    PROVE  /\ NewVS = RecieveCount
           /\ Unacknowledged \in Seq(Messages)
<1>1. VS \in Counts /\ outQ \in Seq(Messages) /\ Len(outQ) \in Nat
  BY LenProperties DEF SessionInv, Types
<1>2. CASE RecieveCount = VS
  <2>1. Acknowledged = 0
    BY <1>1, <1>2, CountsWrap DEF Acknowledged
  <2>2. SubSeq(outQ, 0 + 1, Len(outQ)) = outQ
    BY <1>1, SubSeqFull
  <2> QED
    BY <1>1, <1>2, <2>1, <2>2 DEF NewVS, Unacknowledged
<1>3. CASE RecieveCount = Inc(VS) /\ outQ # <<>>
  <2>1. Acknowledged = 1
    BY <1>1, <1>3, CountsWrap DEF Acknowledged
  <2>2. Len(outQ) >= 1
    BY <1>1, <1>3, EmptySeq
  <2>3. Unacknowledged = SubSeq(outQ, 2, Len(outQ))
    BY <2>1, <2>2, <1>1 DEF Unacknowledged
  <2>4. Tail(outQ) = SubSeq(outQ, 2, Len(outQ)) /\ Tail(outQ) \in Seq(Messages)
    BY <1>1, <1>3, TailIsSubSeq, HeadTailProperties
  <2> QED
    BY <1>1, <2>1, <2>2, <2>3, <2>4 DEF NewVS
<1> QED
  BY <1>2, <1>3 DEF SessionInv, Read

LEMMA XIDReceived ==
    ASSUME SessionInv, ToReceive, TerminalGetsXID \/ TerminalIsDisconnected
    PROVE  SessionInv'
<1> USE DEF ToReceive, TerminalGetsXID, TerminalIsDisconnected, hostVars, terminalVars
<1>1. toHost = <<>>
  BY NothingOnLine
<1>2. Types'
  BY DEF SessionInv, Types
<1>3. OutFrame'
  BY DEF OutFrame
<1>4. Answers'
  <2>1. CASE out.kind = "I" /\ TerminalIsDisconnected
    <3>1. toHost' = <<>>
      BY <1>1, <2>1, ConcatEmptySeq, EmptySeq DEF Answer
    <3> QED
      BY <3>1 DEF Answers
  <2>2. CASE out.kind # "I"
    <3>1. toHost' = <<Head(toHost')>> /\ Head(toHost') = [kind |-> "U"]
      BY <1>1, <2>2, OneAnswer
    <3>2. bWaitForReply'
      BY <2>2 DEF SessionInv, OutFrame
    <3> QED
      BY <3>1, <3>2 DEF Answers, NewAnswer, Counted
  <2> QED
    BY <2>1, <2>2
<1>5. SNRMFirst' /\ Read'
  BY DEF SessionInv, SNRMFirst, Read, Inc
<1>6. Sent'
  BY DEF SessionInv, Sent, InStep, AheadByOne, AheadByTwo, Inc
<1> QED
  BY <1>2, <1>3, <1>4, <1>5, <1>6 DEF SessionInv

LEMMA SNRMReceived ==
    ASSUME SessionInv, ToReceive, TerminalGetsSNRM PROVE SessionInv'
<1> USE DEF ToReceive, TerminalGetsSNRM, hostVars
<1>1. toHost = <<>>
  BY NothingOnLine
<1>2. 0 \in Counts
  BY ModulusAssumption DEF Counts
<1>3. State = "ActPU" /\ SendCount = 0 /\ mode = "disconnected" /\ RecieveCount = 0
      /\ bWaitForReply
  BY DEF SessionInv, OutFrame, SNRMFirst
<1>4. Types'
  BY <1>2, EmptySeq DEF SessionInv, Types
<1>5. OutFrame'
  BY DEF OutFrame
<1>6. Answers'
  <2>1. toHost' = <<Head(toHost')>> /\ Head(toHost') = [kind |-> "U"]
    BY <1>1, OneAnswer
  <2> QED
    BY <1>3, <2>1 DEF Answers, NewAnswer, Counted
<1>7. SNRMFirst' /\ Sent' /\ Read'
  BY <1>3 DEF SNRMFirst, Sent, InStep, Read
<1> QED
  BY <1>4, <1>5, <1>6, <1>7 DEF SessionInv

\* The answer to a poll has a message if one is left that is not acknowledged.
LEMMA Polled ==
    ASSUME SessionInv, ToReceive, TerminalIsPolled PROVE SessionInv'
<1> USE DEF ToReceive, TerminalIsPolled, hostVars
<1>1. toHost = <<>> /\ out.nr = RecieveCount /\ bWaitForReply
  BY NothingOnLine DEF SessionInv, OutFrame
<1>2. VS' = RecieveCount /\ outQ' \in Seq(Messages)
  BY <1>1, AcknowledgedStep
<1>3. Types'
  BY <1>2 DEF SessionInv, Types
<1>4. OutFrame'
  BY DEF OutFrame
<1>5. Answers'
  <2>1. CASE outQ' = <<>>
    <3>1. toHost' = <<Head(toHost')>> /\ Head(toHost') = [kind |-> "RR", nr |-> VR]
      BY <1>1, <2>1, OneAnswer
    <3> QED
      BY <1>1, <3>1 DEF Answers, NewAnswer, Counted
  <2>2. CASE outQ' # <<>>
    <3>1. toHost' = <<Head(toHost')>>
          /\ Head(toHost') = [kind |-> "I", nr |-> VR, ns |-> VS', message |-> Head(outQ')]
      BY <1>1, <2>2, OneAnswer
    <3>2. Head(outQ') \in Messages
      BY <1>2, <2>2, HeadTailProperties
    <3>3. Head(outQ').fid \in Int
      BY <3>2 DEF Messages
    <3> QED
      BY <1>1, <1>2, <2>2, <3>1, <3>3 DEF Answers, NewAnswer, Counted
  <2> QED
    BY <2>1, <2>2
<1>6. SNRMFirst' /\ Read'
  BY <1>2 DEF SessionInv, SNRMFirst, Read
<1>7. Sent'
  BY DEF SessionInv, Sent, InStep, AheadByOne, AheadByTwo, Inc
<1> QED
  BY <1>3, <1>4, <1>5, <1>6, <1>7 DEF SessionInv

\* A numbered frame that the terminal takes brings it in step with the host.
LEMMA NumberedReceived ==
    ASSUME SessionInv, ToReceive, TerminalGetsInfo PROVE SessionInv'
<1> USE DEF ToReceive, TerminalGetsInfo, hostVars
<1>1. /\ toHost = <<>> /\ out.nr = RecieveCount
      /\ SendCount = Inc(out.ns) /\ out.message.fid \in Int
  BY NothingOnLine DEF SessionInv, OutFrame
<1>2. VS' = RecieveCount /\ Unacknowledged \in Seq(Messages)
  BY <1>1, AcknowledgedStep
<1>3. VR \in Counts /\ Inc(VR) \in Counts
  BY CountsWrap DEF SessionInv, Types
<1>4. VR' \in Counts /\ outQ' \in Seq(Messages)
  <2>1. Message("Response", out.message.fid) \in Messages
    BY <1>1 DEF Message, Messages
  <2>2. Append(Unacknowledged, Message("Response", out.message.fid)) \in Seq(Messages)
    BY <1>2, <2>1, AppendProperties
  <2> QED
    BY <1>2, <1>3, <2>2 DEF TerminalTakes
<1>5. Types'
  BY <1>2, <1>4 DEF SessionInv, Types
<1>6. OutFrame'
  BY DEF OutFrame
<1>7. Answers'
  <2>1. toHost' = <<>>
    BY <1>1, ConcatEmptySeq, EmptySeq DEF Answer
  <2> QED
    BY <2>1 DEF Answers
<1>8. SNRMFirst' /\ Read'
  BY <1>2 DEF SessionInv, SNRMFirst, Read
<1>9. Sent'
  <2>1. CASE out.ns = VR
    <3>1. VR' = SendCount
      BY <1>1, <2>1
    <3> QED
      BY <3>1 DEF Sent, InStep
  <2>2. CASE out.ns # VR
    BY <2>2 DEF SessionInv, Sent, InStep, AheadByOne, AheadByTwo, Inc
  <2> QED
    BY <2>1, <2>2
<1> QED
  BY <1>5, <1>6, <1>7, <1>8, <1>9 DEF SessionInv

LEMMA UserStep ==
    ASSUME SessionInv, UserTypes PROVE SessionInv'
<1> USE DEF UserTypes, hostVars, taskVars
<1>1. outQ \in Seq(Messages) /\ inputFid \in Nat
  BY DEF SessionInv, Types
<1>2. outQ' \in Seq(Messages) /\ outQ' # <<>>
  <2>1. Message("Input", inputFid) \in Messages
    BY <1>1 DEF Message, Messages
  <2> QED
    BY <1>1, <2>1, AppendProperties
<1>3. Types'
  BY <1>1, <1>2, FidIsNat DEF SessionInv, Types
<1>4. OutFrame'
  BY DEF SessionInv, OutFrame, Inc
<1>5. Answers'
  BY <1>2 DEF SessionInv, Answers, NewAnswer, Counted
<1>6. SNRMFirst' /\ Read'
  BY <1>2 DEF SessionInv, SNRMFirst, Read, Inc
<1>7. Sent'
  BY DEF SessionInv, Sent, InStep, AheadByOne, AheadByTwo, Inc
<1> QED
  BY <1>3, <1>4, <1>5, <1>6, <1>7 DEF SessionInv

\* The only answer is lost or damaged.
LEMMA AnswerLost ==
    ASSUME SessionInv, FaultyLine
    PROVE  /\ task = "receive" /\ bWaitForReply
           /\ \/ toHost' = <<>>
              \/ toHost' = <<Head(toHost')>> /\ Head(toHost') = [kind |-> "bad"]
<1> USE DEF FaultyLine
<1>1. /\ task = "receive" /\ bWaitForReply
      /\ toHost = <<Head(toHost)>>
  BY DEF SessionInv, Answers
<1>2. Front(toHost) = <<>>
  <2> DEFINE frame == Head(toHost)
  <2>1. Len(<<frame>>) = 1
    OBVIOUS
  <2>2. SubSeq(<<frame>>, 1, 0) = <<>>
    BY SubSeqEmpty
  <2>3. Len(toHost) = 1 /\ SubSeq(toHost, 1, 0) = <<>>
    BY <1>1, <2>1, <2>2
  <2> QED
    BY <2>3 DEF Front
<1>3. PICK rest \in {<<>>, <<[kind |-> "bad"]>>} : toHost' = Front(toHost) \o rest
  OBVIOUS
<1>4. <<>> \o rest = rest
  BY <1>3, ConcatEmptySeq, EmptySeq
<1>5. toHost' = rest
  BY <1>2, <1>3, <1>4
<1> HIDE DEF FaultyLine
<1>6. CASE rest = <<>>
  BY <1>1, <1>5, <1>6
<1>7. CASE rest = <<[kind |-> "bad"]>>
  <2>1. toHost' = <<Head(toHost')>> /\ Head(toHost') = [kind |-> "bad"]
    BY <1>5, <1>7
  <2> QED
    BY <1>1, <2>1
<1> QED
  BY <1>3, <1>6, <1>7

LEMMA FaultStep ==
    ASSUME SessionInv, FaultyLine PROVE SessionInv'
<1> USE DEF FaultyLine, hostVars, taskVars, terminalVars
<1>1. /\ task = "receive" /\ bWaitForReply
      /\ \/ toHost' = <<>>
         \/ toHost' = <<Head(toHost')>> /\ Head(toHost') = [kind |-> "bad"]
  BY AnswerLost
<1>2. Types'
  BY DEF SessionInv, Types
<1>3. OutFrame'
  BY DEF SessionInv, OutFrame, Inc
<1>4. Answers'
  BY <1>1 DEF Answers, NewAnswer, Counted
<1>5. SNRMFirst' /\ Read'
  BY DEF SessionInv, SNRMFirst, Read, Inc
<1>6. Sent'
  BY DEF SessionInv, Sent, InStep, AheadByOne, AheadByTwo, Inc
<1> QED
  BY <1>2, <1>3, <1>4, <1>5, <1>6 DEF SessionInv

--------------------------------------------------------------------------------
(***************************************************************************)
(* MessageTask receives.                                                   *)
(***************************************************************************)
\* It goes on without an answer only if none is there.
LEMMA GoOnStep ==
    ASSUME "late" \notin Faults, SessionInv, GoOn PROVE SessionInv'
<1> USE DEF GoOn, hostVars, terminalVars
<1>1. toHost = <<>> /\ toHost' = <<>>
  BY DEF SessionInv, Answers
<1>2. Types'
  BY DEF SessionInv, Types
<1>3. OutFrame' /\ Answers'
  BY <1>1 DEF OutFrame, Answers
<1>4. SNRMFirst' /\ Read'
  BY DEF SessionInv, SNRMFirst, Read, Inc
<1>5. Sent'
  BY DEF SessionInv, Sent, InStep, AheadByOne, AheadByTwo, Inc
<1> QED
  BY <1>2, <1>3, <1>4, <1>5 DEF SessionInv

\* The receive count of an answer shows that the host is ahead, if it is.
LEMMA AnswerShows ==
    ASSUME SessionInv, toHost # <<>>, NEW frame, frame = Head(toHost), Counted(frame)
    PROVE  /\ mode = "normal" /\ frame.nr = VR
           /\ OutOfStep(frame) <=> ~InStep
           /\ frame.kind = "I" => RecieveCount = VS /\ outQ # <<>> /\ frame.message.fid \in Int
<1>1. NewAnswer(frame)
  BY DEF SessionInv, Answers
<1>2. VR \in Counts
  BY DEF SessionInv, Types
<1> QED
  BY <1>1, <1>2 DEF NewAnswer, OutOfStep, InStep

\* What is left on the line when the answer has been taken: nothing.
LEMMA AnswerTaken ==
    ASSUME SessionInv, NEW frame, Receive(frame)
    PROVE  toHost' = <<>> /\ task = "receive" /\ task' = "receive"
BY DEF SessionInv, Answers, Receive

LEMMA RollBackStep ==
    ASSUME SessionInv, NEW frame, Receive(frame), RollBack(frame) PROVE SessionInv'
<1> USE DEF RollBack, Receive, terminalVars
<1>1. /\ toHost' = <<>> /\ task' = "receive" /\ toHost # <<>> /\ frame = Head(toHost)
      /\ Counted(frame)
  BY AnswerTaken DEF OutOfStep
<1>2. mode = "normal" /\ ~InStep /\ (AheadByOne \/ AheadByTwo)
  BY <1>1, AnswerShows DEF SessionInv, Sent
<1>3. VR \in Counts /\ Inc(VR) \in Counts /\ Dec(Inc(VR)) = VR
      /\ Dec(Inc(Inc(VR))) = Inc(VR)
  BY CountsWrap DEF SessionInv, Types
<1>4. State' = StateBefore /\ SendCount' = Dec(SendCount) /\ WaitForSequence' = NoSequence
  BY DEF CountBefore
<1>5. State' \in EState \ {"XID", "Nrm"}
  <2>1. State \in EState \ {"XID", "Nrm", "ActPU"}
    BY <1>2 DEF SessionInv, Types, AheadByOne, AheadByTwo
  <2> QED
    BY <1>4, <2>1 DEF StateBefore, Before, EState
<1>6. CASE AheadByOne
  <2>1. SendCount' = VR
    BY <1>3, <1>4, <1>6 DEF AheadByOne
  <2>2. Sent'
    BY <2>1 DEF Sent, InStep
  <2>3. Types'
    BY <1>3, <1>4, <1>5, <2>1 DEF SessionInv, Types, NoSequence
  <2> QED
    BY <1>1, <1>2, <1>5, <2>2, <2>3
       DEF SessionInv, OutFrame, Answers, SNRMFirst, Read, Inc
<1>7. CASE AheadByTwo
  <2>1. SendCount' = Inc(VR)
    BY <1>3, <1>4, <1>7 DEF AheadByTwo
  <2>2. State' \in {"DataReset", "SendScreen"}
    BY <1>4, <1>7 DEF AheadByTwo, StateBefore, Before
  <2>3. Sent'
    BY <2>1, <2>2 DEF Sent, AheadByOne, Inc
  <2>4. Types'
    BY <1>3, <1>4, <1>5, <2>1 DEF SessionInv, Types, NoSequence
  <2> QED
    BY <1>1, <1>2, <1>5, <2>3, <2>4
       DEF SessionInv, OutFrame, Answers, SNRMFirst, Read, Inc
<1> QED
  BY <1>2, <1>6, <1>7

LEMMA InStepStep ==
    ASSUME SessionInv, NEW frame, Receive(frame), ProcessInStep(frame) PROVE SessionInv'
<1> USE DEF ProcessInStep, Receive, terminalVars
<1>1. /\ toHost' = <<>> /\ task' = "receive" /\ toHost # <<>> /\ frame = Head(toHost)
      /\ Counted(frame) /\ ~OutOfStep(frame)
  BY AnswerTaken
<1>2. mode = "normal" /\ InStep
      /\ (frame.kind = "I"
            => RecieveCount = VS /\ outQ # <<>> /\ frame.message.fid \in Int)
  BY <1>1, AnswerShows
<1>3. VS \in Counts /\ Inc(VS) \in Counts
  BY CountsWrap DEF SessionInv, Types
<1>4. RecieveCount' = RecieveCount \/ (RecieveCount' = Inc(VS) /\ outQ # <<>>)
  BY <1>2 DEF CountReceived
<1>5. State' \in EState /\ (State' = State \/ State' = "Respond")
  BY DEF SessionInv, Types, EState
<1>6. Types'
  <2>1. WaitForSequence' \in Int /\ ProcessedPacket' \in Int
    BY <1>2 DEF SessionInv, Types, NoSequence
  <2> QED
    BY <1>1, <1>3, <1>4, <1>5, <2>1 DEF SessionInv, Types
<1>7. OutFrame' /\ Answers'
  BY <1>1 DEF OutFrame, Answers
<1>8. SNRMFirst'
  BY <1>2, <1>5 DEF SessionInv, SNRMFirst
<1>9. Sent'
  BY <1>2 DEF Sent, InStep
<1>10. Read'
  BY <1>4 DEF SessionInv, Read, Inc
<1> QED
  BY <1>6, <1>7, <1>8, <1>9, <1>10 DEF SessionInv

LEMMA OtherAnswerStep ==
    ASSUME SessionInv, NEW frame, Receive(frame), ProcessBad(frame) \/ ProcessIgnored(frame)
    PROVE  SessionInv'
<1> USE DEF ProcessBad, ProcessIgnored, Receive, terminalVars, hostVars
<1>1. toHost' = <<>> /\ task' = "receive"
  BY AnswerTaken
<1>2. /\ UNCHANGED <<State, CurrentLine, WaitForSequence, ProcessedPacket, SendCount,
                     RecieveCount, Sequence, mode, VR, VS, outQ, inputFid>>
  OBVIOUS
<1>3. Types'
  BY <1>1, <1>2 DEF SessionInv, Types
<1>4. OutFrame' /\ Answers'
  BY <1>1 DEF OutFrame, Answers
<1>5. SNRMFirst' /\ Read'
  BY <1>2 DEF SessionInv, SNRMFirst, Read, Inc
<1>6. Sent'
  BY <1>2 DEF SessionInv, Sent, InStep, AheadByOne, AheadByTwo, Inc
<1> QED
  BY <1>3, <1>4, <1>5, <1>6 DEF SessionInv

LEMMA SessionStep ==
    ASSUME "late" \notin Faults, SessionInv, [Next]_vars PROVE SessionInv'
<1>1. CASE GenerateNewPackets
  BY <1>1, GenerateStep
<1>2. CASE GoOn
  BY <1>2, GoOnStep
<1>3. CASE ProcessNext
  BY <1>3, RollBackStep, InStepStep, OtherAnswerStep DEF ProcessNext, ProcessPacket
<1>4. CASE TerminalReceives
  BY <1>4, XIDReceived, SNRMReceived, Polled, NumberedReceived DEF TerminalReceives
<1>5. CASE UserTypes
  BY <1>5, UserStep
<1>6. CASE LoseFrame
  BY <1>6, LostStep
<1>7. CASE FaultyLine
  BY <1>7, FaultStep
<1>8. CASE UNCHANGED vars
  <2> USE <1>8 DEF vars, hostVars, taskVars, clientVars, terminalVars
  <2>1. Types' /\ OutFrame' /\ Answers'
    BY DEF SessionInv, Types, OutFrame, Answers, NewAnswer, Counted, Inc
  <2>2. SNRMFirst' /\ Read' /\ Sent'
    BY DEF SessionInv, SNRMFirst, Read, Sent, InStep, AheadByOne, AheadByTwo, Inc
  <2> QED
    BY <2>1, <2>2 DEF SessionInv
<1> QED
  BY <1>1, <1>2, <1>3, <1>4, <1>5, <1>6, <1>7, <1>8 DEF Next, Host

LEMMA SessionStarts == Init => SessionInv
<1> SUFFICES ASSUME Init PROVE SessionInv
  OBVIOUS
<1> USE DEF Init
<1>1. 0 \in Counts
  BY ModulusAssumption DEF Counts
<1>2. Types
  BY <1>1, EmptySeq DEF Types, EState, NoSequence
<1>3. OutFrame /\ Answers /\ SNRMFirst /\ Sent /\ Read
  BY DEF OutFrame, Answers, SNRMFirst, Sent, Read
<1> QED
  BY <1>2, <1>3 DEF SessionInv

THEOREM SessionInvariant ==
    ASSUME "late" \notin Faults PROVE Spec => []SessionInv
<1>1. SessionInv /\ [Next]_vars => SessionInv'
  BY SessionStep
<1> QED
  BY <1>1, SessionStarts, PTL DEF Spec

\* At most the response to an input and the request after it are outstanding,
\* however often frames are lost and SendCount goes back (Network.cpp 171).
THEOREM AtMostTwoAhead ==
    ASSUME "late" \notin Faults PROVE Spec => []AtMostTwoOutstanding
<1>1. SessionInv => AtMostTwoOutstanding
  <2> SUFFICES ASSUME SessionInv, mode = "normal" PROVE Outstanding \in 0..2
    BY DEF AtMostTwoOutstanding
  <2>1. VR \in Counts
    BY DEF SessionInv, Types
  <2>2. SendCount = VR \/ SendCount = Inc(VR) \/ SendCount = Inc(Inc(VR))
    BY DEF SessionInv, Sent, InStep, AheadByOne, AheadByTwo
  <2>3. Outstanding \in {0, 1, 2}
    BY <2>1, <2>2, CountsWrap DEF Outstanding
  <2> QED
    BY <2>3
<1> QED
  BY <1>1, SessionInvariant, PTL

\* RecieveCount never runs ahead of what the terminal has sent, nor falls behind
\* what it was told (Network.cpp 188-192).
THEOREM NothingLostUnread ==
    ASSUME "late" \notin Faults PROVE Spec => []NothingAcknowledgedUnread
<1>1. SessionInv => NothingAcknowledgedUnread
  <2> SUFFICES ASSUME SessionInv, mode = "normal"
               PROVE  (RecieveCount - VS) % Modulus <= Len(outQ)
    BY DEF NothingAcknowledgedUnread
  <2>1. VS \in Counts /\ outQ \in Seq(Messages) /\ Len(outQ) \in Nat
    BY LenProperties DEF SessionInv, Types
  <2>2. CASE RecieveCount = VS
    <3>1. (RecieveCount - VS) % Modulus = 0
      BY <2>1, <2>2, CountsWrap
    <3> QED
      BY <2>1, <3>1
  <2>3. CASE RecieveCount = Inc(VS) /\ outQ # <<>>
    <3>1. (RecieveCount - VS) % Modulus = 1
      BY <2>1, <2>3, CountsWrap
    <3>2. Len(outQ) >= 1
      BY <2>1, <2>3, EmptySeq
    <3> QED
      BY <2>1, <3>1, <3>2
  <2> QED
    BY <2>2, <2>3 DEF SessionInv, Read
<1> QED
  BY <1>1, SessionInvariant, PTL

--------------------------------------------------------------------------------
(***************************************************************************)
(* Inputs, of any client: what the client is owed are the inputs that the  *)
(* terminal has in its queue and the host has not read.                    *)
(***************************************************************************)
\* The inputs that the host has not read.
UnreadInputs ==
    {i \in DOMAIN outQ : outQ[i].what = "Input" /\ ~(i = 1 /\ RecieveCount # VS)}

\* An answer that has a message has the first one of the queue.
AnswerIsFirst ==
    toHost # <<>> /\ Head(toHost).kind = "I" => Head(toHost).message = Head(outQ)

\* Outside normal mode the user cannot type, and the terminal has nothing to say.
QuietAtFirst == mode = "disconnected" => outQ = <<>> /\ ~unlocked

OwedInv ==
    /\ owed = Cardinality(UnreadInputs)
    /\ AnswerIsFirst
    /\ QuietAtFirst

inputVars == <<owed, mode, VS, RecieveCount, outQ, unlocked>>

\* A step of no concern to inputs, that sends no message from the terminal.
LEMMA OwedKept ==
    ASSUME OwedInv, UNCHANGED inputVars,
           toHost' = toHost \/ toHost' = <<>> \/ Head(toHost').kind # "I"
    PROVE  OwedInv'
<1> USE DEF inputVars
<1>1. UnreadInputs' = UnreadInputs
  BY DEF UnreadInputs
<1>2. AnswerIsFirst'
  BY DEF OwedInv, AnswerIsFirst
<1> QED
  BY <1>1, <1>2 DEF OwedInv, QuietAtFirst

LEMMA UnreadInputsAreFinite ==
    ASSUME SessionInv PROVE IsFiniteSet(UnreadInputs)
<1>1. Len(outQ) \in Nat /\ DOMAIN outQ = 1..Len(outQ)
  BY LenProperties DEF SessionInv, Types
<1>2. IsFiniteSet(1..Len(outQ))
  BY <1>1, FS_Interval
<1>3. UnreadInputs \subseteq 1..Len(outQ)
  BY <1>1 DEF UnreadInputs
<1> QED
  BY <1>2, <1>3, FS_Subset

\* The messages that the host has read and not acknowledged.
AlreadyRead == IF RecieveCount = VS THEN 0 ELSE 1

\* What is not acknowledged is the end of the queue, without the message that was read.
LEMMA AcknowledgedAre ==
    ASSUME SessionInv, mode = "normal", out.nr = RecieveCount
    PROVE  /\ Unacknowledged \in Seq(Messages) /\ Len(Unacknowledged) \in Nat
           /\ DOMAIN Unacknowledged = 1..Len(Unacknowledged)
           /\ outQ \in Seq(Messages) /\ Len(outQ) \in Nat /\ DOMAIN outQ = 1..Len(outQ)
           /\ Len(outQ) = Len(Unacknowledged) + AlreadyRead
           /\ \A i \in 1..Len(Unacknowledged) : Unacknowledged[i] = outQ[i + AlreadyRead]
<1> DEFINE left == Unacknowledged
           shift == AlreadyRead
<1> USE DEF AlreadyRead
<1>1. outQ \in Seq(Messages) /\ Len(outQ) \in Nat /\ DOMAIN outQ = 1..Len(outQ)
      /\ VS \in Counts
  BY LenProperties DEF SessionInv, Types
<1>2. left \in Seq(Messages)
  BY AcknowledgedStep
<1>3. Len(left) \in Nat /\ DOMAIN left = 1..Len(left)
  BY <1>2, LenProperties
<1>4. /\ Len(outQ) = Len(left) + shift
      /\ \A i \in 1..Len(left) : left[i] = outQ[i + shift]
  <2>1. CASE RecieveCount = VS
    <3>1. Acknowledged = 0
      BY <1>1, <2>1, CountsWrap DEF Acknowledged
    <3>2. SubSeq(outQ, 0 + 1, Len(outQ)) = outQ
      BY <1>1, SubSeqFull
    <3>3. left = outQ
      BY <1>1, <3>1, <3>2 DEF Unacknowledged
    <3> QED
      BY <1>1, <2>1, <3>3
  <2>2. CASE RecieveCount # VS
    <3>0. RecieveCount = Inc(VS) /\ outQ # <<>>
      BY <2>2 DEF SessionInv, Read
    <3>1. Acknowledged = 1
      BY <1>1, <3>0, CountsWrap DEF Acknowledged
    <3>2. Len(outQ) >= 1
      BY <1>1, <3>0, EmptySeq
    <3>3. left = Tail(outQ)
      BY <1>1, <3>0, <3>1, <3>2, TailIsSubSeq DEF Unacknowledged
    <3>4. Len(left) = Len(outQ) - 1 /\ \A i \in 1..Len(left) : left[i] = outQ[i + 1]
      BY <1>1, <3>0, <3>3, HeadTailProperties
    <3> QED
      BY <1>1, <2>2, <3>4
  <2> QED
    BY <2>1, <2>2
<1> QED
  BY <1>1, <1>2, <1>3, <1>4

\* Acknowledged messages are no unread inputs, and responses are no inputs.
LEMMA AcknowledgedInputs ==
    ASSUME SessionInv, mode = "normal", out.nr = RecieveCount, RecieveCount' = RecieveCount,
           VS' = NewVS,
           \/ outQ' = Unacknowledged
           \/ \E fid \in Int : outQ' = Append(Unacknowledged, Message("Response", fid))
    PROVE  /\ UnreadInputs' = {} <=> UnreadInputs = {}
           /\ (\A i, j \in UnreadInputs : i = j) => \A i, j \in UnreadInputs' : i = j
           /\ Cardinality(UnreadInputs') = Cardinality(UnreadInputs)
<1> DEFINE left == Unacknowledged
           shift == IF RecieveCount = VS THEN 0 ELSE 1
<1> HIDE DEF left, shift
<1>0. /\ left \in Seq(Messages) /\ Len(left) \in Nat /\ DOMAIN left = 1..Len(left)
      /\ outQ \in Seq(Messages) /\ Len(outQ) \in Nat /\ DOMAIN outQ = 1..Len(outQ)
      /\ Len(outQ) = Len(left) + shift
      /\ \A i \in 1..Len(left) : left[i] = outQ[i + shift]
  BY AcknowledgedAre, Zenon DEF left, shift, AlreadyRead
<1> USE DEF shift
<1>1. outQ \in Seq(Messages) /\ Len(outQ) \in Nat /\ DOMAIN outQ = 1..Len(outQ)
  BY <1>0
<1>2. VS' = RecieveCount /\ left \in Seq(Messages)
  BY <1>0, AcknowledgedStep
<1>3. Len(left) \in Nat /\ DOMAIN left = 1..Len(left)
  BY <1>0
<1>4. /\ Len(outQ) = Len(left) + shift
      /\ \A i \in 1..Len(left) : left[i] = outQ[i + shift]
  BY <1>0
<1>5. \A i : i \in UnreadInputs' <=> i \in 1..Len(left) /\ left[i].what = "Input"
  <2>1. UnreadInputs' = {i \in DOMAIN outQ' : outQ'[i].what = "Input"}
    BY <1>2 DEF UnreadInputs
  <2>2. CASE outQ' = left
    BY <1>3, <2>1, <2>2
  <2>3. ASSUME NEW fid \in Int, outQ' = Append(left, Message("Response", fid))
        PROVE  \A i : i \in UnreadInputs' <=> i \in 1..Len(left) /\ left[i].what = "Input"
    <3> DEFINE response == Message("Response", fid)
    <3>1. response \in Messages /\ response.what # "Input"
      BY DEF Message, Messages
    <3> HIDE DEF response
    <3>2. /\ outQ' \in Seq(Messages) /\ Len(outQ') = Len(left) + 1
          /\ \A i \in 1..Len(left) : outQ'[i] = left[i]
          /\ outQ'[Len(left) + 1] = response
      BY <1>2, <2>3, <3>1, AppendProperties DEF response, left
    <3>3. DOMAIN outQ' = 1..(Len(left) + 1)
      BY <3>2, LenProperties
    <3> QED
      BY <1>3, <2>1, <3>1, <3>2, <3>3
  <2> QED
    BY <2>2, <2>3 DEF left
<1>6. \A i : i \in UnreadInputs
               <=> i - shift \in 1..Len(left) /\ i \in Int /\ left[i - shift].what = "Input"
  <2> TAKE i
  <2>1. i \in UnreadInputs
          <=> i \in 1..Len(outQ) /\ outQ[i].what = "Input" /\ ~(i = 1 /\ shift = 1)
    BY <1>1 DEF UnreadInputs
  <2>2. ASSUME i \in Int, i - shift \in 1..Len(left)
        PROVE  left[i - shift] = outQ[i]
    <3>1. (i - shift) + shift = i
      BY <2>2
    <3> QED
      BY <1>4, <2>2, <3>1
  <2> QED
    BY <1>1, <1>3, <1>4, <2>1, <2>2
<1>7. UnreadInputs' = {} <=> UnreadInputs = {}
  <2>1. ASSUME NEW i \in UnreadInputs' PROVE i + shift \in UnreadInputs
    <3>1. (i + shift) - shift = i /\ i + shift \in Int
      BY <1>3, <1>5
    <3> QED
      BY <1>5, <1>6, <3>1
  <2>2. ASSUME NEW i \in UnreadInputs PROVE i - shift \in UnreadInputs'
    BY <1>5, <1>6
  <2> QED
    BY <2>1, <2>2
<1>8. ASSUME \A i, j \in UnreadInputs : i = j
      PROVE  \A i, j \in UnreadInputs' : i = j
  <2> TAKE i, j \in UnreadInputs'
  <2>1. (i + shift) - shift = i /\ (j + shift) - shift = j
        /\ i + shift \in Int /\ j + shift \in Int /\ i \in Int /\ j \in Int
    BY <1>3, <1>5
  <2>2. i + shift \in UnreadInputs /\ j + shift \in UnreadInputs
    BY <1>5, <1>6, <2>1
  <2> QED
    BY <1>8, <2>1, <2>2
<1>9. Cardinality(UnreadInputs') = Cardinality(UnreadInputs)
  <2> DEFINE f == [i \in UnreadInputs |-> i - shift]
  <2>1. shift \in 0..1 /\ UnreadInputs \subseteq 1..Len(outQ)
    BY <1>1 DEF UnreadInputs
  <2>2. IsFiniteSet(UnreadInputs)
    BY UnreadInputsAreFinite
  <2>3. f \in [UnreadInputs -> UnreadInputs']
    BY <1>5, <1>6
  <2>4. \A i, j \in UnreadInputs : f[i] = f[j] => i = j
    BY <1>1, <2>1
  <2>5. ASSUME NEW i \in UnreadInputs' PROVE \E j \in UnreadInputs : f[j] = i
    <3>1. i \in Int /\ (i + shift) - shift = i /\ i + shift \in Int
      BY <1>3, <1>5, <2>1
    <3>2. i + shift \in UnreadInputs
      BY <1>5, <1>6, <3>1
    <3> QED
      BY <3>1, <3>2
  <2> HIDE DEF f, shift
  <2>6. f \in Bijection(UnreadInputs, UnreadInputs')
    BY <2>3, <2>4, <2>5 DEF Bijection, Injection, Surjection, IsInjective
  <2>7. ExistsBijection(UnreadInputs, UnreadInputs')
    BY <2>6 DEF ExistsBijection
  <2> QED
    BY <2>2, <2>7, FS_Bijection
<1> QED
  BY <1>7, <1>8, <1>9

\* The host generates a frame.
LEMMA OwedGenerate ==
    ASSUME OwedInv, GenerateNewPackets PROVE OwedInv'
<1>1. UNCHANGED inputVars /\ toHost' = toHost
  BY DEF GenerateNewPackets, Poll, SendXID, SendSNRM, SendUnnumbered, SendActPU, SendActLU,
         SendBind, SendDataReset, SendRespond2, Activate, SendRequest, SendFirstPacket,
         SendNextPacket, SendPacket, PollForInput, SendResponse, Emit, inputVars, terminalVars
<1> QED
  BY <1>1, OwedKept

\* The line takes what was sent, the frame or the answer to it.
LEMMA OwedLine ==
    ASSUME SessionInv, OwedInv, LoseFrame \/ FaultyLine PROVE OwedInv'
<1>1. CASE LoseFrame
  <2>1. UNCHANGED inputVars /\ toHost' = toHost
    BY <1>1 DEF LoseFrame, ToReceive, hostVars, terminalVars, clientVars, inputVars
  <2> QED
    BY <2>1, OwedKept
<1>2. CASE FaultyLine
  <2>1. UNCHANGED inputVars
    BY <1>2 DEF FaultyLine, hostVars, terminalVars, clientVars, inputVars
  <2>2. toHost' = <<>> \/ Head(toHost') = [kind |-> "bad"]
    BY <1>2, AnswerLost
  <2> QED
    BY <2>1, <2>2, OwedKept
<1> QED
  BY <1>1, <1>2

\* What the terminal answers to frames that are not numbered, and to none in normal mode.
LEMMA OwedXID ==
    ASSUME SessionInv, OwedInv, ToReceive, TerminalGetsXID \/ TerminalIsDisconnected,
           UNCHANGED clientVars
    PROVE  OwedInv'
<1>1. UNCHANGED inputVars /\ toHost = <<>>
  BY NothingOnLine
     DEF ToReceive, TerminalGetsXID, TerminalIsDisconnected, hostVars, terminalVars,
         clientVars, inputVars
<1>2. toHost' = <<>> \/ Head(toHost') = [kind |-> "U"]
  <2>1. CASE Answer(<<>>)
    BY <1>1, <2>1, ConcatEmptySeq, EmptySeq DEF Answer
  <2>2. CASE Answer(<<[kind |-> "U"]>>)
    BY <1>1, <2>2, OneAnswer
  <2> QED
    BY <2>1, <2>2 DEF TerminalGetsXID, TerminalIsDisconnected
<1> QED
  BY <1>1, <1>2, OwedKept

\* SNRM empties the queue of the terminal, where nothing was.
LEMMA OwedSNRM ==
    ASSUME SessionInv, OwedInv, ToReceive, TerminalGetsSNRM, UNCHANGED clientVars
    PROVE  OwedInv'
<1> USE DEF ToReceive, TerminalGetsSNRM, clientVars
<1>1. toHost = <<>> /\ mode = "disconnected"
  BY NothingOnLine DEF SessionInv, OutFrame
<1>2. UnreadInputs = {} /\ UnreadInputs' = {}
  BY <1>1 DEF OwedInv, QuietAtFirst, UnreadInputs
<1>3. Head(toHost') = [kind |-> "U"]
  BY <1>1, OneAnswer
<1> QED
  BY <1>2, <1>3 DEF OwedInv, AnswerIsFirst, QuietAtFirst

\* A poll is answered with the first message that is not acknowledged.
LEMMA OwedPolled ==
    ASSUME SessionInv, OwedInv, ToReceive, TerminalIsPolled, UNCHANGED clientVars
    PROVE  OwedInv'
<1> USE DEF ToReceive, TerminalIsPolled, hostVars, clientVars
<1>1. toHost = <<>> /\ out.nr = RecieveCount
  BY NothingOnLine DEF SessionInv, OutFrame
<1>2. Cardinality(UnreadInputs') = Cardinality(UnreadInputs)
  BY <1>1, AcknowledgedInputs
<1>3. AnswerIsFirst'
  <2>1. CASE outQ' = <<>>
    <3>1. Head(toHost') = [kind |-> "RR", nr |-> VR]
      BY <1>1, <2>1, OneAnswer
    <3> QED
      BY <3>1 DEF AnswerIsFirst
  <2>2. CASE outQ' # <<>>
    <3>1. Head(toHost') = [kind |-> "I", nr |-> VR, ns |-> VS', message |-> Head(outQ')]
      BY <1>1, <2>2, OneAnswer
    <3> QED
      BY <3>1 DEF AnswerIsFirst
  <2> QED
    BY <2>1, <2>2
<1> QED
  BY <1>2, <1>3 DEF OwedInv, QuietAtFirst

\* A numbered frame adds a response, or nothing, to what is not acknowledged.
LEMMA OwedNumbered ==
    ASSUME SessionInv, OwedInv, ToReceive, TerminalGetsInfo, UNCHANGED clientVars
    PROVE  OwedInv'
<1> USE DEF ToReceive, TerminalGetsInfo, hostVars, clientVars
<1>1. /\ toHost = <<>> /\ out.nr = RecieveCount /\ out.message.fid \in Int
  BY NothingOnLine DEF SessionInv, OutFrame
<1>2. toHost' = <<>>
  BY <1>1, ConcatEmptySeq, EmptySeq DEF Answer
<1>3. \/ outQ' = Unacknowledged
      \/ \E fid \in Int : outQ' = Append(Unacknowledged, Message("Response", fid))
  BY <1>1 DEF TerminalTakes
<1>4. Cardinality(UnreadInputs') = Cardinality(UnreadInputs)
  BY <1>1, <1>3, AcknowledgedInputs
<1> QED
  BY <1>2, <1>4 DEF OwedInv, AnswerIsFirst, QuietAtFirst

\* The user's input joins the end of the queue: it is one more unread input.
LEMMA UserAddsInput ==
    ASSUME SessionInv, OwedInv, UserTypes
    PROVE  /\ mode = "normal"
           /\ UnreadInputs' = UnreadInputs \cup {Len(outQ) + 1}
           /\ Len(outQ) + 1 \notin UnreadInputs
           /\ AnswerIsFirst'
<1> USE DEF UserTypes, hostVars, taskVars
<1>1. mode = "normal"
  BY DEF OwedInv, QuietAtFirst, SessionInv, Types
<1>2. outQ \in Seq(Messages) /\ Len(outQ) \in Nat /\ DOMAIN outQ = 1..Len(outQ)
      /\ inputFid \in Nat
  BY LenProperties DEF SessionInv, Types
<1> DEFINE input == Message("Input", inputFid)
<1>3. input \in Messages /\ input.what = "Input"
  BY <1>2 DEF Message, Messages
<1>4. /\ outQ' \in Seq(Messages) /\ Len(outQ') = Len(outQ) + 1
      /\ \A i \in 1..Len(outQ) : outQ'[i] = outQ[i]
      /\ outQ'[Len(outQ) + 1] = input
  <2>1. outQ' = Append(outQ, input)
    OBVIOUS
  <2> HIDE DEF input
  <2> QED
    BY <1>2, <1>3, <2>1, AppendProperties
<1> HIDE DEF input
<1>5. DOMAIN outQ' = 1..(Len(outQ) + 1)
  BY <1>4, LenProperties
<1>6. UnreadInputs' = UnreadInputs \cup {Len(outQ) + 1}
  <2> DEFINE Unread(i) == outQ'[i].what = "Input" /\ ~(i = 1 /\ RecieveCount # VS)
  <2>1. RecieveCount # VS => Len(outQ) + 1 # 1
    BY <1>1, <1>2, EmptySeq DEF SessionInv, Read
  <2>2. UnreadInputs' = {i \in 1..(Len(outQ) + 1) : Unread(i)}
    BY <1>5 DEF UnreadInputs
  <2>3. \A i \in 1..Len(outQ) : Unread(i) <=> i \in UnreadInputs
    BY <1>1, <1>2, <1>4 DEF UnreadInputs
  <2>4. UnreadInputs \subseteq 1..Len(outQ)
    BY <1>2 DEF UnreadInputs
  <2>5. Unread(Len(outQ) + 1)
    BY <1>3, <1>4, <2>1
  <2> HIDE DEF Unread, UserTypes
  <2>6. \A i : i \in 1..(Len(outQ) + 1) <=> i \in 1..Len(outQ) \/ i = Len(outQ) + 1
    BY <1>2
  <2>7. \A i : i \in UnreadInputs' <=> i \in UnreadInputs \/ i = Len(outQ) + 1
    BY <2>2, <2>3, <2>4, <2>5, <2>6, Zenon
  <2> QED
    BY <2>7, Zenon
<1>7. Len(outQ) + 1 \notin UnreadInputs
  BY <1>2 DEF UnreadInputs
<1>8. AnswerIsFirst'
  <2> SUFFICES ASSUME toHost # <<>>, Head(toHost).kind = "I"
               PROVE  Head(toHost).message = Head(outQ')
    BY DEF AnswerIsFirst
  <2>1. outQ # <<>> /\ Head(toHost).message = Head(outQ)
    BY DEF SessionInv, Answers, NewAnswer, Counted, OwedInv, AnswerIsFirst
  <2>2. Head(outQ) = outQ[1] /\ 1 \in 1..Len(outQ)
    BY <1>2, <2>1, EmptySeq
  <2>3. Head(outQ') = outQ'[1]
    BY <1>2, <1>4
  <2> QED
    BY <1>4, <2>1, <2>2, <2>3
<1> QED
  BY <1>1, <1>6, <1>7, <1>8

LEMMA OwedUser ==
    ASSUME SessionInv, OwedInv, UserTypes PROVE OwedInv'
<1>1. /\ mode = "normal"
      /\ UnreadInputs' = UnreadInputs \cup {Len(outQ) + 1}
      /\ Len(outQ) + 1 \notin UnreadInputs
      /\ AnswerIsFirst'
  BY UserAddsInput
<1>2. Cardinality(UnreadInputs') = Cardinality(UnreadInputs) + 1
  BY <1>1, UnreadInputsAreFinite, FS_AddElement
<1> QED
  BY <1>1, <1>2 DEF OwedInv, QuietAtFirst, UserTypes

\* An answer that shows the host to be in step makes it read the first message.
LEMMA FirstIsRead ==
    ASSUME SessionInv, OwedInv, NEW frame, Receive(frame), ProcessInStep(frame),
           frame.kind = "I"
    PROVE  /\ frame.message = outQ[1]
           /\ \A i : i \in UnreadInputs' <=> i \in UnreadInputs /\ i # 1
           /\ 1 \in UnreadInputs <=> frame.message.what = "Input"
<1>1. toHost # <<>> /\ frame = Head(toHost) /\ Counted(frame) /\ ~OutOfStep(frame)
  BY DEF ProcessInStep, Receive
<1>2. RecieveCount = VS /\ outQ # <<>> /\ UNCHANGED <<VS, outQ>>
  BY <1>1, AnswerShows DEF Receive, terminalVars
<1>3. RecieveCount = VS /\ RecieveCount' = Inc(VS) /\ RecieveCount' # VS'
  BY <1>2, CountsWrap DEF SessionInv, Types, ProcessInStep, CountReceived
<1>4. outQ \in Seq(Messages) /\ Len(outQ) \in Nat /\ DOMAIN outQ = 1..Len(outQ)
  BY LenProperties DEF SessionInv, Types
<1>5. 1 \in DOMAIN outQ /\ frame.message = outQ[1]
  BY <1>1, <1>2, <1>4, EmptySeq DEF OwedInv, AnswerIsFirst
<1>6. \A i : i \in UnreadInputs' <=> i \in UnreadInputs /\ i # 1
  BY <1>2, <1>3 DEF UnreadInputs
<1>7. 1 \in UnreadInputs <=> frame.message.what = "Input"
  BY <1>3, <1>5 DEF UnreadInputs
<1> QED
  BY <1>5, <1>6, <1>7

LEMMA OwedInStep ==
    ASSUME SessionInv, OwedInv, NEW frame, Receive(frame), ProcessInStep(frame)
    PROVE  OwedInv'
<1>1. toHost' = <<>>
  BY AnswerTaken
<1>2. UNCHANGED <<mode, VS, outQ, unlocked>>
  BY DEF Receive, terminalVars
<1>3. CASE frame.kind # "I"
  <2>1. UNCHANGED inputVars
    BY <1>2, <1>3 DEF ProcessInStep, CountReceived, clientVars, inputVars
  <2> QED
    BY <1>1, <2>1, OwedKept
<1>4. CASE frame.kind = "I" /\ frame.message.what # "Input"
  <2>1. owed' = owed
    BY <1>4 DEF ProcessInStep, clientVars
  <2>2. UnreadInputs' = UnreadInputs
    BY <1>4, FirstIsRead
  <2> QED
    BY <1>1, <1>2, <2>1, <2>2 DEF OwedInv, AnswerIsFirst, QuietAtFirst
<1>5. CASE frame.kind = "I" /\ frame.message.what = "Input"
  <2>1. owed' = owed - 1
    BY <1>5 DEF ProcessInStep
  <2>2. 1 \in UnreadInputs /\ UnreadInputs' = UnreadInputs \ {1}
    BY <1>5, FirstIsRead
  <2>3. Cardinality(UnreadInputs') = Cardinality(UnreadInputs) - 1
    BY <2>2, UnreadInputsAreFinite, FS_RemoveElement
  <2> QED
    BY <1>1, <1>2, <2>1, <2>3 DEF OwedInv, AnswerIsFirst, QuietAtFirst
<1> QED
  BY <1>3, <1>4, <1>5

\* What the host does with an answer that is not in step.
LEMMA OwedOther ==
    ASSUME SessionInv, OwedInv, NEW frame, Receive(frame),
           ProcessBad(frame) \/ ProcessIgnored(frame) \/ RollBack(frame)
    PROVE  OwedInv'
<1>1. toHost' = <<>>
  BY AnswerTaken
<1>2. UNCHANGED inputVars
  BY DEF ProcessBad, ProcessIgnored, RollBack, Receive, terminalVars, hostVars, clientVars,
         inputVars
<1> QED
  BY <1>1, <1>2, OwedKept

LEMMA OwedStep ==
    ASSUME SessionInv, OwedInv, [Next]_vars PROVE OwedInv'
<1>1. CASE GenerateNewPackets
  BY <1>1, OwedGenerate
<1>2. CASE GoOn
  <2>1. UNCHANGED inputVars /\ toHost' = toHost
    BY <1>2 DEF GoOn, hostVars, clientVars, terminalVars, inputVars
  <2> QED
    BY <2>1, OwedKept
<1>3. CASE ProcessNext
  BY <1>3, OwedInStep, OwedOther DEF ProcessNext, ProcessPacket
<1>4. CASE TerminalReceives
  BY <1>4, OwedXID, OwedSNRM, OwedPolled, OwedNumbered DEF TerminalReceives
<1>5. CASE UserTypes
  BY <1>5, OwedUser
<1>6. CASE LoseFrame \/ FaultyLine
  BY <1>6, OwedLine
<1>7. CASE UNCHANGED vars
  <2>1. UNCHANGED inputVars /\ toHost' = toHost
    BY <1>7 DEF vars, hostVars, clientVars, terminalVars, inputVars
  <2> QED
    BY <2>1, OwedKept
<1> QED
  BY <1>1, <1>2, <1>3, <1>4, <1>5, <1>6, <1>7 DEF Next, Host

LEMMA OwedStarts == ASSUME Init PROVE OwedInv
<1>1. outQ = <<>> /\ owed = 0 /\ toHost = <<>> /\ ~unlocked
  BY Zenon DEF Init
<1>2. UnreadInputs = {}
  BY <1>1, EmptySeq DEF UnreadInputs
<1> QED
  BY <1>1, <1>2, FS_EmptySet DEF OwedInv, AnswerIsFirst, QuietAtFirst

\* The client is owed the inputs that the host has not read, whatever is lost.
THEOREM OwedInvariant ==
    ASSUME "late" \notin Faults PROVE Spec => []OwedInv
<1>1. SessionInv /\ OwedInv /\ [Next]_vars => OwedInv'
  BY OwedStep
<1>2. Init => OwedInv
  BY OwedStarts
<1> QED
  BY <1>1, <1>2, SessionInvariant, PTL DEF Spec

--------------------------------------------------------------------------------
(***************************************************************************)
(* A client that never withdraws its prompts: the packets of a chain come  *)
(* in order and inputs one at a time.                                      *)
(***************************************************************************)
Lines ==
    /\ CurrentLine \in Nat /\ Num3270Packets \in Nat /\ chain \in Nat
    /\ unlocked \in BOOLEAN
    /\ CurrentLine > 0 => CurrentLine < Num3270Packets /\ State = "SendScreen"
    /\ State = "WaitForInput" => Num3270Packets >= 1
    /\ mode = "disconnected" => chain = 0 /\ ~unlocked /\ outQ = <<>>

\* The user types only while the host waits for an input, and one input.
OneInput ==
    /\ unlocked \/ UnreadInputs # {} => State = "WaitForInput" /\ InStep
    /\ unlocked => UnreadInputs = {}
    /\ \A i, j \in UnreadInputs : i = j
    /\ owed = IF UnreadInputs = {} THEN 0 ELSE 1

\* The terminal expects the packet that the host sends next, or would send next if it
\* went back.
NextPacket ==
    mode = "normal" =>
        /\ InStep => chain = CurrentLine
        /\ AheadByOne => /\ chain = LineBefore
                         /\ State = "SendScreen" => WaitForSequence # NoSequence
        /\ AheadByTwo => chain = 0 /\ CurrentLine = 0 /\ State = "SendScreen"

\* A packet that is sent is the one before CurrentLine, and the last one if the host
\* then waits for an input.
OutPacket ==
    task = "sent" /\ out.kind = "I" =>
        IF out.message.what = "Screen"
        THEN /\ out.message.line = LineBefore
             /\ IF out.message.end
                THEN State = "WaitForInput" /\ CurrentLine = 0
                ELSE CurrentLine = out.message.line + 1 /\ State = "SendScreen"
        ELSE State # "WaitForInput" /\ CurrentLine = 0

TextInv == Lines /\ OneInput /\ NextPacket /\ OutPacket

lineVars == <<State, CurrentLine, Num3270Packets, chain, unlocked, mode, outQ,
              RecieveCount, VS, VR, SendCount, WaitForSequence, owed>>

LEMMA LinesKept ==
    ASSUME TextInv, UNCHANGED lineVars PROVE Lines' /\ OneInput' /\ NextPacket'
<1> USE DEF lineVars
<1>1. UnreadInputs' = UnreadInputs
  BY DEF UnreadInputs
<1>2. Lines' /\ OneInput'
  BY <1>1 DEF TextInv, Lines, OneInput, InStep
<1>3. NextPacket'
  BY DEF TextInv, NextPacket, InStep, AheadByOne, AheadByTwo, LineBefore, Inc
<1> QED
  BY <1>2, <1>3

\* A frame without a number.
LEMMA TextPoll ==
    ASSUME SessionInv, TextInv, client = "text",
           Poll \/ \E cancel \in {FALSE, Cancels} : PollForInput(cancel)
    PROVE  TextInv'
<1>1. UNCHANGED lineVars
  BY DEF Poll, PollForInput, Ready, Emit, Cancels, lineVars, terminalVars
<1>2. out' = RRFrame
  BY DEF Poll, PollForInput, Ready, Emit
<1>3. OutPacket'
  BY <1>2 DEF OutPacket, RRFrame
<1> QED
  BY <1>1, <1>3, LinesKept DEF TextInv

LEMMA TextUnnumbered ==
    ASSUME SessionInv, TextInv, SendXID \/ SendSNRM PROVE TextInv'
<1> USE DEF SendXID, SendSNRM, SendUnnumbered, Ready, Emit, terminalVars
<1>1. mode = "disconnected"
  BY DEF SessionInv, SNRMFirst
<1>2. UnreadInputs = {} /\ UnreadInputs' = {} /\ ~unlocked
  BY <1>1 DEF TextInv, Lines, UnreadInputs
<1>3. Lines' /\ OneInput' /\ NextPacket'
  BY <1>1, <1>2 DEF TextInv, Lines, OneInput, NextPacket
<1>4. OutPacket'
  BY <1>1 DEF OutPacket, XIDFrame, SNRMFrame
<1> QED
  BY <1>3, <1>4 DEF TextInv

\* What being one further ahead does to the three cases.
LEMMA OneFurther ==
    ASSUME SessionInv, SendCount' = Inc(SendCount), VR' = VR
    PROVE  /\ ~InStep' \/ ~(InStep \/ AheadByOne)
           /\ SendCount' = Inc(VR) => ~AheadByOne
           /\ SendCount' = Inc(Inc(VR)) => ~InStep
<1>1. VR \in Counts /\ Inc(VR) \in Counts
  BY CountsWrap DEF SessionInv, Types
<1> QED
  BY <1>1, CountsWrap DEF InStep, AheadByOne

\* A request or a response, but not a packet.
LEMMA TextRequest ==
    ASSUME SessionInv, TextInv, task = "generate", WaitForSequence = NoSequence,
           NEW message, message.what # "Screen",
           out' = InfoFrame(message), SendCount' = Inc(SendCount),
           UNCHANGED <<toHost, terminalVars, RecieveCount, CurrentLine, Num3270Packets, owed>>,
           State \notin {"SendScreen", "WaitForInput"}, State' # "WaitForInput",
           State' = "SendScreen" => WaitForSequence' # NoSequence,
           AheadByOne => State' = "SendScreen"
    PROVE  TextInv'
<1> USE DEF terminalVars
<1>1. CurrentLine = 0 /\ ~unlocked /\ UnreadInputs = {} /\ UnreadInputs' = {}
  BY DEF TextInv, Lines, OneInput, UnreadInputs
<1>2. Lines'
  BY <1>1 DEF TextInv, Lines
<1>3. OneInput'
  BY <1>1 DEF TextInv, OneInput
<1>4. OutPacket'
  BY <1>1 DEF OutPacket, InfoFrame
<1>5. NextPacket'
  <2>1. LineBefore = 0 /\ LineBefore' = 0
    BY <1>1 DEF LineBefore
  <2>2. mode = "normal" => (InStep \/ AheadByOne) /\ chain = 0
    BY <1>1, <2>1 DEF SessionInv, Sent, AheadByTwo, TextInv, NextPacket
  <2>3. mode = "normal" => ~InStep'
    BY <2>2, OneFurther
  <2>4. mode = "normal" /\ AheadByTwo' => AheadByOne
    <3>1. AheadByTwo' => SendCount' = Inc(Inc(VR))
      BY DEF AheadByTwo, Inc
    <3> QED
      BY <2>2, <3>1, OneFurther
  <2> QED
    BY <1>1, <2>1, <2>2, <2>3, <2>4 DEF NextPacket
<1> QED
  BY <1>2, <1>3, <1>4, <1>5 DEF TextInv

LEMMA TextActivate ==
    ASSUME SessionInv, TextInv, NEW state, NEW what, NEW fid \in Nat, NEW nextFid, NEW next,
           Activate(state, what, fid, nextFid, next), what # "Screen",
           state \notin {"SendScreen", "WaitForInput"}, next # "WaitForInput",
           state \notin {"ActPU", "ActLU", "Bind"} => next = "SendScreen"
    PROVE  TextInv'
<1>1. /\ out' = InfoFrame(Message(what, fid)) /\ Message(what, fid).what # "Screen"
      /\ WaitForSequence' = fid /\ fid # NoSequence
      /\ SendCount' = Inc(SendCount)
      /\ UNCHANGED <<toHost, terminalVars, RecieveCount, CurrentLine, Num3270Packets, owed>>
      /\ task = "generate" /\ WaitForSequence = NoSequence /\ State = state /\ State' = next
  BY DEF Activate, Ready, SendRequest, Emit, Message, NoSequence
<1>2. AheadByOne => State' = "SendScreen"
  BY <1>1 DEF AheadByOne
<1> QED
  BY <1>1, <1>2, TextRequest

LEMMA TextResponse ==
    ASSUME SessionInv, TextInv, SendResponse PROVE TextInv'
<1> DEFINE message == Message("Response", ProcessedPacket)
<1>1. /\ out' = InfoFrame(message) /\ message.what # "Screen"
      /\ SendCount' = Inc(SendCount)
      /\ UNCHANGED <<toHost, terminalVars, RecieveCount, CurrentLine, Num3270Packets, owed>>
      /\ task = "generate" /\ WaitForSequence = NoSequence
      /\ State = "Respond" /\ State' = "Respond2"
  BY DEF SendResponse, Ready, Emit, Message
<1>2. ~AheadByOne
  BY <1>1 DEF AheadByOne
<1> HIDE DEF message
<1> QED
  BY <1>1, <1>2, TextRequest

\* The next packet: the host is in step when it sends it.
LEMMA TextPacket ==
    ASSUME SessionInv, TextInv, Ready("SendScreen"), NEW num \in Nat, num >= 1,
           CurrentLine < num, NEW content, SendPacket(CurrentLine, num, content)
    PROVE  TextInv'
<1> USE DEF terminalVars
<1>1. /\ State = "SendScreen" /\ WaitForSequence = NoSequence /\ task = "generate"
      /\ SendCount' = Inc(SendCount) /\ WaitForSequence' = Sequence
      /\ UNCHANGED <<toHost, terminalVars, RecieveCount, owed>>
      /\ Num3270Packets' = num
      /\ out' = InfoFrame(ScreenPacket(Sequence, CurrentLine, CurrentLine + 1 >= num, content))
      /\ CurrentLine' = LineAfter(CurrentLine, num)
      /\ State' = IF CurrentLine + 1 >= num THEN "WaitForInput" ELSE "SendScreen"
  BY DEF Ready, SendPacket, SendRequest, Emit, ScreenPacket
<1>2. CurrentLine \in Nat /\ chain \in Nat /\ WaitForSequence' # NoSequence
      /\ ~unlocked /\ UnreadInputs = {} /\ UnreadInputs' = {}
  BY <1>1 DEF TextInv, Lines, OneInput, UnreadInputs, SessionInv, Types, NoSequence
<1>3. mode = "normal" => InStep /\ chain = CurrentLine
  BY <1>1 DEF SessionInv, Sent, AheadByTwo, TextInv, NextPacket
<1>4. /\ LineBefore' = CurrentLine /\ CurrentLine' \in Nat
      /\ CurrentLine' > 0 => CurrentLine' < num /\ State' = "SendScreen"
      /\ CurrentLine + 1 >= num => State' = "WaitForInput" /\ CurrentLine' = 0
      /\ ~(CurrentLine + 1 >= num) => State' = "SendScreen" /\ CurrentLine' = CurrentLine + 1
  <2>1. CASE CurrentLine + 1 >= num
    BY <1>1, <1>2, <2>1 DEF LineAfter, LineBefore
  <2>2. CASE ~(CurrentLine + 1 >= num)
    BY <1>1, <1>2, <2>2 DEF LineAfter, LineBefore
  <2> QED
    BY <2>1, <2>2
<1>5. Lines'
  BY <1>1, <1>2, <1>4 DEF TextInv, Lines
<1>6. OneInput'
  BY <1>1, <1>2 DEF TextInv, OneInput
<1>7. OutPacket'
  BY <1>1, <1>4 DEF OutPacket, InfoFrame, ScreenPacket
<1>8. NextPacket'
  <2>1. mode = "normal" => ~InStep' /\ ~AheadByTwo'
    <3>1. AheadByTwo' => SendCount' = Inc(Inc(VR))
      BY <1>1 DEF AheadByTwo, Inc
    <3> QED
      BY <1>1, <1>3, <3>1, OneFurther
  <2> QED
    BY <1>1, <1>2, <1>3, <1>4, <2>1 DEF NextPacket
<1> QED
  BY <1>5, <1>6, <1>7, <1>8 DEF TextInv

LEMMA TextGenerate ==
    ASSUME SessionInv, TextInv, client = "text", GenerateNewPackets PROVE TextInv'
<1>1. Sequence \in Nat /\ PUSequence \in Nat /\ LUSequence \in Nat
  BY DEF SessionInv, Types, PUSequence, LUSequence
<1>2. CASE SendActPU \/ SendActLU \/ SendBind
  BY <1>1, <1>2, TextActivate DEF SendActPU, SendActLU, SendBind
<1>3. CASE SendDataReset \/ SendRespond2
  BY <1>1, <1>3, TextActivate DEF SendDataReset, SendRespond2
<1>4. CASE SendFirstPacket
  <2>1. PICK num \in 1..MaxPackets : SendPacket(0, num, [screen |-> screen, raw |-> raw])
    BY <1>4 DEF SendFirstPacket
  <2>2. CurrentLine = 0 /\ Ready("SendScreen") /\ num \in Nat /\ num >= 1 /\ CurrentLine < num
    BY <1>4 DEF SendFirstPacket
  <2> QED
    BY <2>1, <2>2, TextPacket
<1>5. CASE SendNextPacket
  <2>1. /\ Ready("SendScreen") /\ SendPacket(CurrentLine, Num3270Packets, Packets)
        /\ Num3270Packets \in Nat /\ Num3270Packets >= 1 /\ CurrentLine < Num3270Packets
    BY <1>5 DEF SendNextPacket, TextInv, Lines
  <2> QED
    BY <2>1, TextPacket
<1> QED
  BY <1>2, <1>3, <1>4, <1>5, TextPoll, TextUnnumbered, TextResponse DEF GenerateNewPackets

LEMMA TextLost ==
    ASSUME TextInv, LoseFrame PROVE TextInv'
<1>1. UNCHANGED lineVars /\ task' = "receive"
  BY DEF LoseFrame, ToReceive, hostVars, terminalVars, clientVars, lineVars
<1>2. OutPacket'
  BY <1>1 DEF OutPacket
<1> QED
  BY <1>1, <1>2, LinesKept DEF TextInv

LEMMA TextXID ==
    ASSUME TextInv, ToReceive, TerminalGetsXID \/ TerminalIsDisconnected,
           UNCHANGED clientVars
    PROVE  TextInv'
<1>1. UNCHANGED lineVars /\ task' = "receive"
  BY DEF ToReceive, TerminalGetsXID, TerminalIsDisconnected, hostVars, terminalVars,
         clientVars, lineVars
<1>2. OutPacket'
  BY <1>1 DEF OutPacket
<1> QED
  BY <1>1, <1>2, LinesKept DEF TextInv

LEMMA TextSNRM ==
    ASSUME SessionInv, TextInv, ToReceive, TerminalGetsSNRM, UNCHANGED clientVars
    PROVE  TextInv'
<1> USE DEF ToReceive, TerminalGetsSNRM, hostVars, clientVars
<1>1. /\ task' = "receive"
      /\ State = "ActPU" /\ SendCount = 0 /\ mode = "disconnected"
  BY DEF SessionInv, OutFrame
<1>2. ~unlocked /\ UnreadInputs = {} /\ UnreadInputs' = {}
      /\ CurrentLine \in Nat /\ CurrentLine = 0 /\ chain = 0
  BY <1>1 DEF TextInv, Lines, OneInput, InStep, UnreadInputs
<1>3. Lines' /\ OneInput'
  BY <1>1, <1>2 DEF TextInv, Lines, OneInput
<1>4. NextPacket'
  <2>1. 0 \in Counts
    BY ModulusAssumption DEF Counts
  <2>2. Inc(0) # 0 /\ Inc(Inc(0)) # 0
    BY <2>1, CountsWrap
  <2>3. InStep' /\ ~AheadByOne' /\ ~AheadByTwo'
    BY <1>1, <2>2 DEF InStep, AheadByOne, AheadByTwo, Inc
  <2> QED
    BY <1>2, <2>3 DEF NextPacket
<1>5. OutPacket'
  BY <1>1 DEF OutPacket
<1> QED
  BY <1>3, <1>4, <1>5 DEF TextInv

LEMMA TextPolled ==
    ASSUME SessionInv, TextInv, ToReceive, TerminalIsPolled, UNCHANGED clientVars
    PROVE  TextInv'
<1> USE DEF ToReceive, TerminalIsPolled, hostVars, clientVars
<1>1. out.nr = RecieveCount /\ task' = "receive"
  BY DEF SessionInv, OutFrame
<1>2. /\ UnreadInputs' = {} <=> UnreadInputs = {}
      /\ (\A i, j \in UnreadInputs : i = j) => \A i, j \in UnreadInputs' : i = j
  BY <1>1, AcknowledgedInputs
<1>3. Lines' /\ OneInput'
  BY <1>2 DEF TextInv, Lines, OneInput, InStep
<1>4. NextPacket'
  BY DEF TextInv, NextPacket, InStep, AheadByOne, AheadByTwo, LineBefore, Inc
<1>5. OutPacket'
  BY <1>1 DEF OutPacket
<1> QED
  BY <1>3, <1>4, <1>5 DEF TextInv

\* A packet that the terminal takes is the one it expects.
LEMMA TakenIsNext ==
    ASSUME SessionInv, TextInv, task = "sent", mode = "normal", out.kind = "I", out.ns = VR
    PROVE  AheadByOne /\ chain = LineBefore
<1>1. SendCount = Inc(VR) /\ VR \in Counts /\ Inc(VR) \in Counts
  BY CountsWrap DEF SessionInv, OutFrame, Types
<1>2. AheadByOne
  BY <1>1, CountsWrap DEF SessionInv, Sent, InStep, AheadByTwo
<1> QED
  BY <1>2 DEF TextInv, NextPacket

LEMMA TextNumbered ==
    ASSUME SessionInv, TextInv, ToReceive, TerminalGetsInfo, UNCHANGED clientVars
    PROVE  TextInv'
<1> USE DEF ToReceive, TerminalGetsInfo, hostVars, clientVars
<1>1. /\ out.nr = RecieveCount /\ task = "sent" /\ task' = "receive"
      /\ out.message.fid \in Int /\ SendCount = Inc(out.ns)
  BY DEF SessionInv, OutFrame
<1>2. OutPacket'
  BY <1>1 DEF OutPacket
<1>3. ASSUME \/ outQ' = Unacknowledged
             \/ \E fid \in Int : outQ' = Append(Unacknowledged, Message("Response", fid))
      PROVE  /\ UnreadInputs' = {} <=> UnreadInputs = {}
             /\ (\A i, j \in UnreadInputs : i = j) => \A i, j \in UnreadInputs' : i = j
  BY <1>1, <1>3, AcknowledgedInputs
<1>4. CASE out.ns # VR
  <2>1. /\ outQ' = Unacknowledged /\ UNCHANGED <<VR, chain, display, unlocked>>
    BY <1>4
  <2>2. Lines' /\ OneInput'
    BY <1>3, <2>1 DEF TextInv, Lines, OneInput, InStep
  <2>3. NextPacket'
    BY <2>1 DEF TextInv, NextPacket, InStep, AheadByOne, AheadByTwo, LineBefore, Inc
  <2> QED
    BY <1>2, <2>2, <2>3 DEF TextInv
<1>5. CASE out.ns = VR
  <2>1. VR' = Inc(VR) /\ TerminalTakes(out.message) /\ InStep' /\ AheadByOne
        /\ chain = LineBefore
    BY <1>1, <1>5, TakenIsNext DEF InStep
  <2>2. VR \in Counts /\ Inc(VR) \in Counts /\ SendCount = Inc(VR)
    BY <1>1, <1>5, CountsWrap DEF SessionInv, Types
  <2>3. ~InStep /\ ~AheadByOne' /\ ~AheadByTwo'
    BY <2>1, <2>2, CountsWrap DEF InStep, AheadByOne, AheadByTwo, Inc
  <2>4. ~unlocked /\ UnreadInputs = {} /\ owed = 0
    BY <2>3 DEF TextInv, OneInput
  <2>5. UnreadInputs' = {}
    BY <1>1, <1>3, <2>1, <2>4 DEF TerminalTakes
  <2>6. CASE out.message.what = "Screen"
    <3>1. /\ chain' = IF out.message.end THEN 0 ELSE out.message.line + 1
          /\ unlocked' = (unlocked \/ out.message.end)
      BY <2>1, <2>6 DEF TerminalTakes
    <3>2. IF out.message.end THEN State = "WaitForInput" /\ CurrentLine = 0
                             ELSE CurrentLine = out.message.line + 1 /\ State = "SendScreen"
      BY <1>1, <2>6 DEF TextInv, OutPacket
    <3>3. chain' = CurrentLine /\ unlocked' \in BOOLEAN
      BY <3>1, <3>2
    <3>4. unlocked' => State = "WaitForInput"
      BY <2>4, <3>1, <3>2
    <3>5. Lines'
      BY <3>3 DEF TextInv, Lines
    <3>6. OneInput'
      BY <2>1, <2>4, <2>5, <3>4 DEF OneInput
    <3>7. NextPacket'
      BY <2>3, <3>3 DEF NextPacket
    <3> QED
      BY <1>2, <3>5, <3>6, <3>7 DEF TextInv
  <2>7. CASE out.message.what # "Screen"
    <3>1. UNCHANGED <<chain, unlocked>>
      BY <2>1, <2>7 DEF TerminalTakes
    <3>2. CurrentLine = 0 /\ State # "WaitForInput"
      BY <1>1, <2>7 DEF TextInv, OutPacket
    <3>3. chain = 0
      BY <2>1, <3>2 DEF LineBefore
    <3>4. Lines' /\ OneInput' /\ NextPacket'
      BY <2>3, <2>4, <2>5, <3>1, <3>2, <3>3 DEF TextInv, Lines, OneInput, NextPacket
    <3> QED
      BY <1>2, <3>4 DEF TextInv
  <2> QED
    BY <2>6, <2>7
<1> QED
  BY <1>4, <1>5

\* The user's input is the only one that is unread.
LEMMA TextUser ==
    ASSUME SessionInv, OwedInv, TextInv, UserTypes PROVE TextInv'
<1> USE DEF UserTypes, hostVars, taskVars
<1>1. State = "WaitForInput" /\ InStep /\ UnreadInputs = {} /\ owed = 0
  BY DEF TextInv, OneInput
<1>2. mode = "normal" /\ UnreadInputs' = {Len(outQ) + 1}
  BY <1>1, UserAddsInput
<1>3. Lines'
  BY <1>2 DEF TextInv, Lines
<1>4. OneInput'
  BY <1>1, <1>2 DEF TextInv, OneInput, InStep
<1>5. NextPacket'
  BY DEF TextInv, NextPacket, InStep, AheadByOne, AheadByTwo, LineBefore, Inc
<1>6. OutPacket'
  BY DEF TextInv, OutPacket, LineBefore
<1> QED
  BY <1>3, <1>4, <1>5, <1>6 DEF TextInv

LEMMA TextFault ==
    ASSUME SessionInv, TextInv, FaultyLine PROVE TextInv'
<1>1. task = "receive" /\ task' = task
  BY AnswerLost DEF FaultyLine, taskVars
<1>2. UNCHANGED lineVars
  BY DEF FaultyLine, hostVars, clientVars, terminalVars, lineVars
<1>3. OutPacket'
  BY <1>1 DEF OutPacket
<1> QED
  BY <1>2, <1>3, LinesKept DEF TextInv

LEMMA TextGoOn ==
    ASSUME TextInv, GoOn PROVE TextInv'
<1>1. UNCHANGED lineVars /\ task' = "generate"
  BY DEF GoOn, hostVars, clientVars, terminalVars, lineVars
<1>2. OutPacket'
  BY <1>1 DEF OutPacket
<1> QED
  BY <1>1, <1>2, LinesKept DEF TextInv

LEMMA TextOther ==
    ASSUME SessionInv, TextInv, NEW frame, Receive(frame),
           ProcessBad(frame) \/ ProcessIgnored(frame)
    PROVE  TextInv'
<1>1. toHost' = <<>> /\ task' = "receive"
  BY AnswerTaken
<1>2. UNCHANGED lineVars
  BY DEF ProcessBad, ProcessIgnored, Receive, terminalVars, hostVars, clientVars, lineVars
<1>3. OutPacket'
  BY <1>1 DEF OutPacket
<1> QED
  BY <1>2, <1>3, LinesKept DEF TextInv

\* The host goes back to the packet that the terminal expects.
LEMMA TextRollBack ==
    ASSUME SessionInv, TextInv, NEW frame, Receive(frame), RollBack(frame) PROVE TextInv'
<1> USE DEF terminalVars, clientVars
<1>1. /\ toHost' = <<>> /\ task' = "receive" /\ toHost # <<>> /\ frame = Head(toHost)
      /\ Counted(frame)
  BY AnswerTaken DEF OutOfStep, RollBack, Receive
<1>2. mode = "normal" /\ ~InStep /\ (AheadByOne \/ AheadByTwo)
  BY <1>1, AnswerShows DEF SessionInv, Sent, RollBack
<1>3. /\ WaitForSequence' = NoSequence /\ SendCount' = Dec(SendCount)
      /\ CurrentLine' = LineBefore /\ State' = StateBefore
      /\ UNCHANGED <<Num3270Packets, RecieveCount, owed, mode, VR, VS, outQ, chain, unlocked>>
  BY DEF RollBack, Receive, CountBefore
<1>4. /\ VR \in Counts /\ Inc(VR) \in Counts
      /\ Dec(Inc(VR)) = VR /\ Dec(Inc(Inc(VR))) = Inc(VR)
      /\ Inc(VR) # VR /\ Inc(Inc(VR)) # VR /\ Inc(Inc(VR)) # Inc(VR)
  BY CountsWrap DEF SessionInv, Types
<1>5. /\ ~unlocked /\ UnreadInputs = {} /\ UnreadInputs' = {} /\ owed = 0
  BY <1>2, <1>3 DEF TextInv, OneInput, UnreadInputs
<1>6. OneInput'
  BY <1>3, <1>5 DEF OneInput
<1>7. OutPacket'
  BY <1>1 DEF OutPacket
<1>8. State \in EState \ {"XID", "Nrm", "ActPU"}
  BY <1>2 DEF SessionInv, Types, AheadByOne, AheadByTwo
<1>9. State' # "WaitForInput"
  <2>1. CASE CurrentLine > 0
    BY <1>3, <2>1 DEF TextInv, Lines, StateBefore
  <2>2. CASE ~(CurrentLine > 0)
    BY <1>3, <1>8, <2>2 DEF StateBefore, Before, EState
  <2> QED
    BY <2>1, <2>2
<1>10. CurrentLine' \in Nat
       /\ (CurrentLine' > 0 => CurrentLine' < Num3270Packets /\ State' = "SendScreen")
  <2>1. CASE CurrentLine > 0
    BY <1>3, <2>1 DEF TextInv, Lines, LineBefore, StateBefore
  <2>2. CASE CurrentLine = 0 /\ State = "WaitForInput"
    BY <1>3, <2>2 DEF TextInv, Lines, LineBefore, StateBefore, Before
  <2>3. CASE CurrentLine = 0 /\ State # "WaitForInput"
    BY <1>3, <2>3 DEF LineBefore
  <2> QED
    BY <2>1, <2>2, <2>3 DEF TextInv, Lines
<1>11. Lines'
  BY <1>2, <1>3, <1>9, <1>10 DEF TextInv, Lines
<1>12. CASE AheadByOne
  <2>1. SendCount' = VR /\ chain = LineBefore
    BY <1>2, <1>3, <1>4, <1>12 DEF AheadByOne, TextInv, NextPacket
  <2>2. ~AheadByOne' /\ ~AheadByTwo'
    BY <1>3, <1>4, <2>1 DEF AheadByOne, AheadByTwo, Inc
  <2>3. NextPacket'
    BY <1>3, <2>1, <2>2 DEF NextPacket
  <2> QED
    BY <1>6, <1>7, <1>11, <2>3 DEF TextInv
<1>13. CASE AheadByTwo
  <2>1. SendCount' = Inc(VR) /\ chain = 0 /\ CurrentLine = 0 /\ State = "SendScreen"
    BY <1>2, <1>3, <1>4, <1>13 DEF AheadByTwo, TextInv, NextPacket
  <2>2. State' = "DataReset" /\ CurrentLine' = 0
    BY <1>3, <2>1 DEF StateBefore, Before, LineBefore
  <2>3. ~InStep' /\ ~AheadByTwo'
    BY <1>3, <1>4, <2>1 DEF InStep, AheadByTwo, Inc
  <2>4. NextPacket'
    BY <1>3, <2>1, <2>2, <2>3 DEF NextPacket, LineBefore
  <2> QED
    BY <1>6, <1>7, <1>11, <2>4 DEF TextInv
<1> QED
  BY <1>2, <1>12, <1>13

\* The host reads the first message: the input that was unread, or none was.
LEMMA TextInStep ==
    ASSUME SessionInv, OwedInv, TextInv, NEW frame, Receive(frame), ProcessInStep(frame)
    PROVE  TextInv'
<1> USE DEF terminalVars, clientVars
<1>1. /\ toHost' = <<>> /\ task' = "receive" /\ toHost # <<>> /\ frame = Head(toHost)
      /\ Counted(frame) /\ ~OutOfStep(frame)
  BY AnswerTaken DEF ProcessInStep, Receive
<1>2. mode = "normal" /\ InStep
      /\ (frame.kind = "I" => RecieveCount = VS /\ outQ # <<>>)
  BY <1>1, AnswerShows
<1>3. OutPacket'
  BY <1>1 DEF OutPacket
<1>4. UNCHANGED <<CurrentLine, Num3270Packets, SendCount, mode, VR, VS, outQ, chain, unlocked>>
  BY DEF ProcessInStep, Receive
<1>5. NextPacket'
  <2>1. VR \in Counts /\ Inc(VR) # VR /\ Inc(Inc(VR)) # VR
    BY CountsWrap DEF SessionInv, Types
  <2>2. InStep' /\ ~AheadByOne' /\ ~AheadByTwo'
    BY <1>2, <1>4, <2>1 DEF InStep, AheadByOne, AheadByTwo, Inc
  <2> QED
    BY <1>2, <1>4, <2>2 DEF TextInv, NextPacket
<1>6. CASE frame.kind # "I"
  <2>1. UNCHANGED <<State, RecieveCount, owed>>
    BY <1>6 DEF ProcessInStep, CountReceived
  <2>2. UnreadInputs' = UnreadInputs
    BY <1>4, <2>1 DEF UnreadInputs
  <2>3. Lines' /\ OneInput'
    BY <1>4, <2>1, <2>2 DEF TextInv, Lines, OneInput, InStep
  <2> QED
    BY <1>3, <1>5, <2>3 DEF TextInv
<1>7. CASE frame.kind = "I"
  <2>1. /\ \A i : i \in UnreadInputs' <=> i \in UnreadInputs /\ i # 1
        /\ 1 \in UnreadInputs <=> frame.message.what = "Input"
    BY <1>7, FirstIsRead
  <2>2. CASE frame.message.what = "Input"
    <3>1. 1 \in UnreadInputs
      BY <2>1, <2>2
    <3>2. UnreadInputs' = {} /\ owed = 1 /\ State = "WaitForInput" /\ ~unlocked
      BY <2>1, <3>1 DEF TextInv, OneInput
    <3>3. owed' = 0 /\ State' = "Respond"
      BY <1>7, <2>2, <3>2 DEF ProcessInStep
    <3>4. CurrentLine = 0
      BY <3>2 DEF TextInv, Lines
    <3>5. Lines' /\ OneInput'
      BY <1>2, <1>4, <3>2, <3>3, <3>4 DEF TextInv, Lines, OneInput
    <3> QED
      BY <1>3, <1>5, <3>5 DEF TextInv
  <2>3. CASE frame.message.what # "Input"
    <3>1. UNCHANGED <<State, owed>>
      BY <2>3 DEF ProcessInStep
    <3>2. UnreadInputs' = UnreadInputs
      BY <2>1, <2>3
    <3>3. Lines' /\ OneInput'
      BY <1>4, <3>1, <3>2 DEF TextInv, Lines, OneInput, InStep
    <3> QED
      BY <1>3, <1>5, <3>3 DEF TextInv
  <2> QED
    BY <2>2, <2>3
<1> QED
  BY <1>6, <1>7

LEMMA ClientStays == ASSUME [Next]_vars PROVE client' = client
<1>1. CASE GenerateNewPackets
  BY <1>1
     DEF GenerateNewPackets, Poll, SendXID, SendSNRM, SendUnnumbered, SendActPU, SendActLU,
         SendBind, SendDataReset, SendRespond2, Activate, SendRequest, SendFirstPacket,
         SendNextPacket, SendPacket, PollForInput, SendResponse, Emit
<1>2. CASE GoOn \/ ProcessNext
  BY <1>2
     DEF GoOn, ProcessNext, ProcessPacket, ProcessBad, ProcessIgnored, RollBack, ProcessInStep,
         clientVars
<1>3. CASE TerminalReceives \/ UserTypes \/ LoseFrame \/ FaultyLine
  BY <1>3 DEF TerminalReceives, UserTypes, LoseFrame, FaultyLine, clientVars
<1>4. CASE UNCHANGED vars
  BY <1>4 DEF vars, clientVars
<1> QED
  BY <1>1, <1>2, <1>3, <1>4 DEF Next, Host

LEMMA TextStep ==
    ASSUME SessionInv, OwedInv, client = "text", TextInv, [Next]_vars
    PROVE  TextInv'
<1>1. CASE GenerateNewPackets
  BY <1>1, TextGenerate
<1>2. CASE GoOn
  BY <1>2, TextGoOn
<1>3. CASE ProcessNext
  BY <1>3, TextRollBack, TextInStep, TextOther DEF ProcessNext, ProcessPacket
<1>4. CASE TerminalReceives
  BY <1>4, TextXID, TextSNRM, TextPolled, TextNumbered DEF TerminalReceives
<1>5. CASE UserTypes
  BY <1>5, TextUser
<1>6. CASE LoseFrame
  BY <1>6, TextLost
<1>7. CASE FaultyLine
  BY <1>7, TextFault
<1>8. CASE UNCHANGED vars
  <2> USE <1>8 DEF vars, hostVars, taskVars, clientVars, terminalVars
  <2>1. UNCHANGED lineVars
    BY DEF lineVars
  <2>2. OutPacket'
    BY DEF TextInv, OutPacket, LineBefore
  <2> QED
    BY <2>1, <2>2, LinesKept DEF TextInv
<1> QED
  BY <1>1, <1>2, <1>3, <1>4, <1>5, <1>6, <1>7, <1>8 DEF Next, Host

LEMMA TextStarts == ASSUME Init PROVE TextInv
<1> USE DEF Init
<1>1. UnreadInputs = {}
  BY EmptySeq DEF UnreadInputs
<1>2. Lines
  <2>1. ~unlocked /\ unlocked \in BOOLEAN
    BY Zenon
  <2>2. CurrentLine = 0 /\ Num3270Packets = 0 /\ chain = 0 /\ State = "XID" /\ outQ = <<>>
    BY Zenon
  <2> QED
    BY <2>1, <2>2 DEF Lines
<1>3. OneInput /\ NextPacket
  BY <1>1 DEF OneInput, NextPacket
<1>4. OutPacket
  BY DEF OutPacket
<1> QED
  BY <1>2, <1>3, <1>4 DEF TextInv

\* What the client is decides whether TextInv holds.
ClientInv == client \in Clients /\ (client = "text" => TextInv)

THEOREM ClientInvariant ==
    ASSUME "late" \notin Faults PROVE Spec => []ClientInv
<1>1. Init => ClientInv
  BY TextStarts DEF ClientInv, Init
<1>2. SessionInv /\ OwedInv /\ ClientInv /\ [Next]_vars => ClientInv'
  BY TextStep, ClientStays DEF ClientInv
<1> QED
  BY <1>1, <1>2, SessionInvariant, OwedInvariant, PTL DEF Spec

\* The terminal gets the packets of a chain in order, none twice and none missing,
\* whatever is lost (CurrentLine, Network.cpp 172-180), for screens of any size.
THEOREM ChainAlwaysInOrder ==
    ASSUME "late" \notin Faults PROVE Spec => ChainInOrder
<1> DEFINE InOrder ==
        client = "text" /\ TerminalReceives /\ VR' # VR /\ out.kind = "I"
          /\ out.message.what = "Screen"
        => out.message.line = chain
<1>1. SessionInv /\ ClientInv => InOrder
  <2> SUFFICES ASSUME SessionInv, TextInv, TerminalReceives, VR' # VR, out.kind = "I",
                      out.message.what = "Screen"
               PROVE  out.message.line = chain
    BY DEF ClientInv
  <2>1. task = "sent" /\ TerminalGetsInfo /\ mode = "normal" /\ out.ns = VR
    BY DEF TerminalReceives, ToReceive, TerminalGetsXID, TerminalGetsSNRM,
           TerminalIsDisconnected, TerminalIsPolled, TerminalGetsInfo, terminalVars
  <2>2. chain = LineBefore
    BY <2>1, TakenIsNext
  <2> QED
    BY <2>1, <2>2 DEF TextInv, OutPacket
<1>2. SessionInv /\ ClientInv => [InOrder]_vars
  BY <1>1
<1>3. [](SessionInv /\ ClientInv) => [][InOrder]_vars
  BY <1>2, PTL
<1> QED
  BY <1>3, SessionInvariant, ClientInvariant, PTL DEF ChainInOrder

\* A client gets each input once, though lost polls make the terminal repeat it; one that
\* does not withdraw prompts has at most one on its way.
THEOREM InputsOnce ==
    ASSUME "late" \notin Faults PROVE Spec => []InputOnce
<1>1. SessionInv /\ OwedInv /\ ClientInv => InputOnce
  <2> SUFFICES ASSUME SessionInv, OwedInv, ClientInv PROVE InputOnce
    OBVIOUS
  <2>1. owed \in Nat
    BY UnreadInputsAreFinite, FS_CardinalityType DEF OwedInv
  <2>2. client = "text" => owed <= 1
    BY DEF ClientInv, TextInv, OneInput
  <2> QED
    BY <2>1, <2>2 DEF InputOnce
<1> QED
  BY <1>1, SessionInvariant, OwedInvariant, ClientInvariant, PTL

--------------------------------------------------------------------------------
(***************************************************************************)
(* Types.  A host that goes back too far would leave the enumeration of    *)
(* states, and a packet of a screen whose size is not known would have no  *)
(* number: so this rests on the counts as well.                            *)
(***************************************************************************)
Sequences == Fid \cup {PUSequence, LUSequence}
Contents == Content \cup {Blank}

\* Once the host is within a chain, or waits for an input, it has serialised a screen.
Sizes ==
    /\ CurrentLine \in 0..(MaxPackets - 1)
    /\ Num3270Packets \in 0..MaxPackets
    /\ CurrentLine > 0 \/ State = "WaitForInput" => Num3270Packets >= 1

Numbers ==
    /\ WaitForSequence \in Sequences \cup {NoSequence}
    /\ ProcessedPacket \in Fid \cup {NoSequence}
    /\ Sequence \in Sequences
    /\ inputFid \in Fid

Shown ==
    /\ Packets \in Contents /\ display \in Contents
    /\ client \in Clients /\ screen \in {0, 1} /\ raw \in BOOLEAN
    /\ chain \in 0..(MaxPackets - 1) /\ unlocked \in BOOLEAN

\* A packet that does not end its chain leaves room for another one.
Sending ==
    /\ bSendReadyToRecieve \in BOOLEAN
    /\ bWaitForReply \in BOOLEAN
    /\ out.kind \in {"none", "XID", "SNRM", "RR", "I"}
    /\ out.kind = "I" /\ out.message.what = "Screen" =>
          /\ out.message.end \in BOOLEAN
          /\ out.message.end \/ out.message.line + 1 \in 0..(MaxPackets - 1)
          /\ out.message.content \in Contents

OnLine ==
    /\ faults \in 0..MaxFaults
    /\ toHost # <<>> => Head(toHost).kind \in {"U", "RR", "I", "bad"}

\* The user's inputs have sequence numbers of the normal flow.
InputNumbers == \A i \in DOMAIN outQ : outQ[i].what = "Input" => outQ[i].fid \in Fid

TypeInv == Sizes /\ Numbers /\ Shown /\ Sending /\ OnLine /\ InputNumbers

LEMMA TypesAreOK ==
    ASSUME SessionInv, OwedInv, TypeInv PROVE TypeOK
<1>1. owed \in Int
  BY UnreadInputsAreFinite, FS_CardinalityType DEF OwedInv
<1>2. \A i \in DOMAIN toHost : toHost[i].kind \in {"U", "RR", "I", "bad"}
  <2>1. CASE toHost = <<>>
    BY <2>1
  <2>2. CASE toHost # <<>>
    <3> DEFINE frame == Head(toHost)
    <3>1. toHost = <<frame>> /\ frame.kind \in {"U", "RR", "I", "bad"}
      BY <2>2 DEF SessionInv, Answers, TypeInv, OnLine
    <3> HIDE DEF frame
    <3> QED
      BY <3>1
  <2> QED
    BY <2>1, <2>2
<1>3. State \in EState /\ task \in {"generate", "sent", "receive"}
      /\ mode \in {"disconnected", "normal"}
      /\ SendCount \in Counts /\ RecieveCount \in Counts /\ VR \in Counts /\ VS \in Counts
  BY DEF SessionInv, Types
<1> QED
  BY <1>1, <1>2, <1>3
     DEF TypeOK, TypeInv, Sizes, Numbers, Shown, Sending, OnLine, Sequences, Contents, Counts

LEMMA FidsWrap ==
    /\ \A n \in Nat : NextFid(n) \in Fid
    /\ 0 \in Fid /\ 1 \in Fid
    /\ Sequences \subseteq Nat
    /\ PUSequence \in Sequences /\ LUSequence \in Sequences /\ Fid \subseteq Sequences
<1>1. FidModulus \in Nat /\ FidModulus >= 2
  BY FidModulusAssumption
<1>2. \A n \in Nat : (n + 1) % FidModulus \in 0..(FidModulus - 1)
  BY <1>1
<1> QED
  BY <1>1, <1>2 DEF NextFid, Fid, Sequences, PUSequence, LUSequence

\* A frame that is not a packet, while nothing is on the line.
LEMMA TypesEmit ==
    ASSUME TypeInv, NEW frame, NEW wait \in BOOLEAN, Emit(frame, wait),
           frame.kind \in {"XID", "SNRM", "RR", "I"},
           frame.kind = "I" => frame.message.what # "Screen",
           bSendReadyToRecieve' \in BOOLEAN
    PROVE  Sending' /\ OnLine' /\ InputNumbers'
<1> USE DEF Emit, terminalVars
<1>1. Sending'
  BY DEF Sending
<1>2. OnLine' /\ InputNumbers'
  BY DEF TypeInv, OnLine, InputNumbers
<1> QED
  BY <1>1, <1>2

LEMMA TypesPoll ==
    ASSUME TypeInv,
           Poll \/ SendXID \/ SendSNRM \/ \E cancel \in {FALSE, Cancels} : PollForInput(cancel)
    PROVE  TypeInv'
<1>1. Sending' /\ OnLine' /\ InputNumbers'
  <2>1. PICK frame \in {RRFrame, XIDFrame, SNRMFrame} : Emit(frame, TRUE)
    BY DEF Poll, SendXID, SendSNRM, SendUnnumbered, PollForInput
  <2>2. frame.kind \in {"XID", "SNRM", "RR"}
    BY <2>1 DEF RRFrame, XIDFrame, SNRMFrame
  <2>3. bSendReadyToRecieve' \in BOOLEAN
    BY DEF Poll, SendXID, SendSNRM, SendUnnumbered, PollForInput, TypeInv, Sending
  <2> QED
    BY <2>1, <2>2, <2>3, TypesEmit
<1>2. /\ UNCHANGED <<CurrentLine, Num3270Packets, WaitForSequence, ProcessedPacket, Sequence,
                     Packets, inputFid, display, client, chain, unlocked>>
      /\ State' = "WaitForInput" => State = "WaitForInput"
  BY DEF Poll, SendXID, SendSNRM, SendUnnumbered, PollForInput, Ready, Emit, terminalVars
<1>3. Sizes' /\ Numbers'
  BY <1>2 DEF TypeInv, Sizes, Numbers
<1>4. screen' \in {0, 1} /\ raw' \in BOOLEAN
  <2>1. \/ UNCHANGED <<screen, raw>>
        \/ /\ screen' \in {screen, 1 - screen}
           /\ \E cancel \in {FALSE, Cancels} : raw' = (raw \/ (cancel /\ Raw))
    BY DEF Poll, SendXID, SendSNRM, SendUnnumbered, PollForInput
  <2>2. screen \in {0, 1} /\ raw \in BOOLEAN
    BY DEF TypeInv, Shown
  <2>3. screen' \in {0, 1}
    BY <2>1, <2>2
  <2>4. raw' \in BOOLEAN
    BY <2>1, <2>2, Zenon
  <2> QED
    BY <2>3, <2>4
<1>5. Shown'
  BY <1>2, <1>4 DEF TypeInv, Shown
<1> QED
  BY <1>1, <1>3, <1>5 DEF TypeInv

LEMMA TypesActivate ==
    ASSUME TypeInv, NEW state, NEW what, NEW fid \in Sequences, NEW nextFid \in Sequences,
           NEW next, Activate(state, what, fid, nextFid, next), what # "Screen",
           next # "WaitForInput"
    PROVE  TypeInv'
<1>1. /\ UNCHANGED <<CurrentLine, Num3270Packets, ProcessedPacket, Packets, inputFid, display,
                     client, screen, raw, chain, unlocked>>
      /\ State' # "WaitForInput" /\ WaitForSequence' = fid /\ Sequence' = nextFid
      /\ bSendReadyToRecieve' = TRUE /\ Emit(InfoFrame(Message(what, fid)), FALSE)
  BY DEF Activate, Ready, SendRequest, Emit, Message, terminalVars
<1>2. Sending' /\ OnLine' /\ InputNumbers'
  BY <1>1, TypesEmit DEF InfoFrame, Message
<1>3. Sizes' /\ Numbers' /\ Shown'
  BY <1>1 DEF TypeInv, Sizes, Numbers, Shown
<1> QED
  BY <1>2, <1>3 DEF TypeInv

LEMMA TypesResponse ==
    ASSUME TypeInv, SendResponse PROVE TypeInv'
<1>1. /\ UNCHANGED <<CurrentLine, Num3270Packets, WaitForSequence, ProcessedPacket, Sequence,
                     Packets, inputFid, display, client, screen, raw, chain, unlocked>>
      /\ State' = "Respond2" /\ bSendReadyToRecieve' = bSendReadyToRecieve
      /\ Emit(InfoFrame(Message("Response", ProcessedPacket)), FALSE)
  BY DEF SendResponse, Ready, Emit, Message, terminalVars
<1>2. Sending' /\ OnLine' /\ InputNumbers'
  <2>1. bSendReadyToRecieve' \in BOOLEAN
    BY <1>1 DEF TypeInv, Sending
  <2> QED
    BY <1>1, <2>1, TypesEmit DEF InfoFrame, Message
<1>3. Sizes' /\ Numbers' /\ Shown'
  BY <1>1 DEF TypeInv, Sizes, Numbers, Shown
<1> QED
  BY <1>2, <1>3 DEF TypeInv

\* A packet of a screen that takes at most MaxPackets.
LEMMA TypesPacket ==
    ASSUME TypeInv, NEW line \in 0..(MaxPackets - 1), NEW num \in 1..MaxPackets,
           NEW content \in Contents, SendPacket(line, num, content),
           UNCHANGED screen, raw' \in BOOLEAN
    PROVE  TypeInv'
<1>1. MaxPackets \in Nat /\ MaxPackets >= 1
  BY MaxPacketsAssumption
<1> DEFINE message == ScreenPacket(Sequence, line, line + 1 >= num, content)
<1>2. /\ UNCHANGED <<ProcessedPacket, inputFid, display, client, screen, chain, unlocked>>
      /\ Num3270Packets' = num /\ Packets' = content /\ CurrentLine' = LineAfter(line, num)
      /\ WaitForSequence' = Sequence /\ Sequence' = NextFid(Sequence)
      /\ bSendReadyToRecieve' = TRUE /\ out' = InfoFrame(message) /\ bWaitForReply' = FALSE
      /\ UNCHANGED <<toHost, faults, outQ>>
  BY DEF SendPacket, SendRequest, Emit, ScreenPacket, terminalVars
<1>3. Sizes'
  <2>1. CurrentLine' \in 0..(MaxPackets - 1)
    BY <1>1, <1>2 DEF LineAfter
  <2> QED
    BY <1>1, <1>2, <2>1 DEF Sizes
<1>4. Numbers'
  BY <1>2, FidsWrap DEF TypeInv, Numbers
<1>5. Shown'
  BY <1>2 DEF TypeInv, Shown
<1>6. Sending'
  <2>1. message.end \/ message.line + 1 \in 0..(MaxPackets - 1)
    <3>1. message.line = line /\ message.end = (line + 1 >= num)
      BY DEF ScreenPacket
    <3>2. line + 1 >= num \/ line + 1 \in 0..(MaxPackets - 1)
      BY <1>1
    <3> QED
      BY <3>1, <3>2, Zenon
  <2>2. message.end \in BOOLEAN /\ message.content \in Contents
    BY DEF ScreenPacket
  <2>3. out'.kind = "I" /\ out'.message = message
    BY <1>2 DEF InfoFrame
  <2> HIDE DEF message
  <2> QED
    BY <1>2, <2>1, <2>2, <2>3 DEF Sending
<1>7. OnLine' /\ InputNumbers'
  BY <1>2 DEF TypeInv, OnLine, InputNumbers
<1> QED
  BY <1>3, <1>4, <1>5, <1>6, <1>7 DEF TypeInv

LEMMA TypesGenerate ==
    ASSUME TypeInv, GenerateNewPackets PROVE TypeInv'
<1>1. Sequence \in Sequences /\ NextFid(Sequence) \in Sequences
  BY FidsWrap DEF TypeInv, Numbers
<1>2. 0 \in Sequences /\ 1 \in Sequences /\ PUSequence \in Sequences /\ LUSequence \in Sequences
  BY FidsWrap
<1>3. CASE SendActPU \/ SendActLU \/ SendBind
  BY <1>2, <1>3, TypesActivate DEF SendActPU, SendActLU, SendBind
<1>4. CASE SendDataReset \/ SendRespond2
  BY <1>1, <1>4, TypesActivate DEF SendDataReset, SendRespond2
<1>5. CASE SendFirstPacket
  <2>1. PICK num \in 1..MaxPackets : SendPacket(0, num, [screen |-> screen, raw |-> raw])
    BY <1>5 DEF SendFirstPacket
  <2>2. [screen |-> screen, raw |-> raw] \in Contents
    BY DEF TypeInv, Shown, Contents, Content
  <2>3. 0 \in 0..(MaxPackets - 1)
    BY MaxPacketsAssumption
  <2>4. UNCHANGED screen /\ raw' \in BOOLEAN
    BY <1>5, Zenon DEF SendFirstPacket
  <2> QED
    BY <2>1, <2>2, <2>3, <2>4, TypesPacket
<1>6. CASE SendNextPacket
  <2>1. /\ SendPacket(CurrentLine, Num3270Packets, Packets)
        /\ UNCHANGED screen /\ raw' \in BOOLEAN
    BY <1>6 DEF SendNextPacket, TypeInv, Shown
  <2>2. /\ CurrentLine \in 0..(MaxPackets - 1) /\ Num3270Packets \in 1..MaxPackets
        /\ Packets \in Contents
    BY <1>6, MaxPacketsAssumption DEF SendNextPacket, TypeInv, Sizes, Shown
  <2> QED
    BY <2>1, <2>2, TypesPacket
<1> QED
  BY <1>3, <1>4, <1>5, <1>6, TypesPoll, TypesResponse DEF GenerateNewPackets

\* What the terminal keeps of its queue are messages that were there, and it adds responses.
LEMMA QueueNumbers ==
    ASSUME SessionInv, TypeInv, mode = "normal", out.nr = RecieveCount,
           \/ outQ' = Unacknowledged
           \/ \E fid \in Int : outQ' = Append(Unacknowledged, Message("Response", fid))
    PROVE  InputNumbers'
<1> DEFINE left == Unacknowledged
<1> HIDE DEF left
<1>1. /\ left \in Seq(Messages) /\ Len(left) \in Nat /\ DOMAIN left = 1..Len(left)
      /\ Len(outQ) \in Nat /\ DOMAIN outQ = 1..Len(outQ)
      /\ AlreadyRead \in 0..1 /\ Len(outQ) = Len(left) + AlreadyRead
      /\ \A i \in 1..Len(left) : left[i] = outQ[i + AlreadyRead]
  <2>1. AlreadyRead \in 0..1
    BY DEF AlreadyRead
  <2> QED
    BY <2>1, AcknowledgedAre, Zenon DEF left
<1>2. \A i \in 1..Len(left) : left[i].what = "Input" => left[i].fid \in Fid
  <2> TAKE i \in 1..Len(left)
  <2>1. i + AlreadyRead \in DOMAIN outQ
    BY <1>1
  <2> QED
    BY <1>1, <2>1 DEF TypeInv, InputNumbers
<1>3. CASE outQ' = left
  BY <1>1, <1>2, <1>3 DEF InputNumbers
<1>4. ASSUME NEW fid \in Int, outQ' = Append(left, Message("Response", fid))
      PROVE  InputNumbers'
  <2> DEFINE response == Message("Response", fid)
  <2>1. response \in Messages /\ response.what # "Input"
    BY DEF Message, Messages
  <2> HIDE DEF response
  <2>2. /\ outQ' \in Seq(Messages) /\ Len(outQ') = Len(left) + 1
        /\ \A i \in 1..Len(left) : outQ'[i] = left[i]
        /\ outQ'[Len(left) + 1] = response
    BY <1>1, <1>4, <2>1, AppendProperties DEF response
  <2>3. DOMAIN outQ' = 1..(Len(left) + 1)
    BY <2>2, LenProperties
  <2> QED
    BY <1>1, <1>2, <2>1, <2>2, <2>3 DEF InputNumbers
<1> QED
  BY <1>3, <1>4 DEF left

\* Any answer is of a kind that the terminal sends.
LEMMA AnswerKinds ==
    ASSUME SessionInv, task = "sent", NEW frame,
           Answer(<<>>) \/ (Answer(<<frame>>) /\ frame.kind \in {"U", "RR", "I"})
    PROVE  toHost' # <<>> => Head(toHost').kind \in {"U", "RR", "I", "bad"}
<1>1. toHost = <<>>
  BY NothingOnLine
<1>2. CASE Answer(<<>>)
  BY <1>1, <1>2, ConcatEmptySeq, EmptySeq DEF Answer
<1>3. CASE Answer(<<frame>>) /\ frame.kind \in {"U", "RR", "I"}
  BY <1>1, <1>3, OneAnswer
<1> QED
  BY <1>2, <1>3

\* What the terminal takes of a packet.
LEMMA TypesTaken ==
    ASSUME TypeInv, TerminalTakes(out.message), out.kind = "I"
    PROVE  display' \in Contents /\ chain' \in 0..(MaxPackets - 1) /\ unlocked' \in BOOLEAN
<1>1. CASE out.message.what = "Screen"
  <2>1. /\ chain' = IF out.message.end THEN 0 ELSE out.message.line + 1
        /\ display' = IF out.message.end THEN out.message.content ELSE display
        /\ unlocked' = (unlocked \/ out.message.end)
    BY <1>1, Zenon DEF TerminalTakes
  <2>2. /\ out.message.end \in BOOLEAN
        /\ out.message.end \/ out.message.line + 1 \in 0..(MaxPackets - 1)
        /\ out.message.content \in Contents
        /\ display \in Contents /\ unlocked \in BOOLEAN
    BY <1>1 DEF TypeInv, Sending, Shown
  <2>3. 0 \in 0..(MaxPackets - 1)
    BY MaxPacketsAssumption
  <2>4. chain' \in 0..(MaxPackets - 1) /\ display' \in Contents
    BY <2>1, <2>2, <2>3, Zenon
  <2>5. unlocked' \in BOOLEAN
    BY <2>1, <2>2, Zenon
  <2> QED
    BY <2>4, <2>5
<1>2. CASE out.message.what # "Screen"
  BY <1>2 DEF TerminalTakes, TypeInv, Shown
<1> QED
  BY <1>1, <1>2

LEMMA TypesTerminal ==
    ASSUME SessionInv, TypeInv, TerminalReceives PROVE TypeInv'
<1> USE DEF TerminalReceives, ToReceive
<1>1. task = "sent" /\ UNCHANGED <<hostVars, clientVars, bWaitForReply, inputFid, faults>>
  BY DEF TerminalGetsXID, TerminalGetsSNRM, TerminalIsDisconnected, TerminalIsPolled,
         TerminalGetsInfo, terminalVars
<1>2. Sizes' /\ Numbers' /\ Sending'
  BY <1>1 DEF hostVars, TypeInv, Sizes, Numbers, Sending, NoFrame
<1>3. Shown'
  <2>1. display' \in Contents /\ chain' \in 0..(MaxPackets - 1) /\ unlocked' \in BOOLEAN
    <3>1. \/ UNCHANGED <<display, chain, unlocked>>
          \/ out.kind = "I" /\ TerminalTakes(out.message)
      BY DEF TerminalGetsXID, TerminalGetsSNRM, TerminalIsDisconnected, TerminalIsPolled,
             TerminalGetsInfo, terminalVars
    <3> QED
      BY <3>1, TypesTaken DEF TypeInv, Shown
  <2> QED
    BY <1>1, <2>1 DEF hostVars, clientVars, TypeInv, Shown
<1>4. OnLine'
  <2>1. toHost' # <<>> => Head(toHost').kind \in {"U", "RR", "I", "bad"}
    <3> DEFINE ok(frame) == frame.kind \in {"U", "RR", "I"}
    <3>1. \/ Answer(<<>>)
          \/ Answer(<<[kind |-> "U"]>>)
          \/ Answer(<<[kind |-> "RR", nr |-> VR]>>)
          \/ Answer(<<[kind |-> "I", nr |-> VR, ns |-> VS', message |-> Head(outQ')]>>)
      BY Zenon
         DEF TerminalGetsXID, TerminalGetsSNRM, TerminalIsDisconnected, TerminalIsPolled,
             TerminalGetsInfo
    <3>2. /\ ok([kind |-> "U"]) /\ ok([kind |-> "RR", nr |-> VR])
          /\ ok([kind |-> "I", nr |-> VR, ns |-> VS', message |-> Head(outQ')])
      OBVIOUS
    <3> QED
      BY <1>1, <3>1, <3>2, AnswerKinds
  <2> QED
    BY <1>1, <2>1 DEF TypeInv, OnLine
<1>5. InputNumbers'
  <2>1. CASE outQ' = outQ
    BY <2>1 DEF TypeInv, InputNumbers
  <2>2. CASE outQ' = <<>>
    BY <2>2 DEF InputNumbers
  <2>3. CASE TerminalIsPolled
    <3>1. mode = "normal" /\ out.nr = RecieveCount /\ outQ' = Unacknowledged
      BY <2>3 DEF TerminalIsPolled, SessionInv, OutFrame
    <3> QED
      BY <3>1, QueueNumbers
  <2>4. CASE TerminalGetsInfo
    <3>1. mode = "normal" /\ out.nr = RecieveCount /\ out.message.fid \in Int
      BY <2>4 DEF TerminalGetsInfo, SessionInv, OutFrame
    <3>2. \/ outQ' = Unacknowledged
          \/ outQ' = Append(Unacknowledged, Message("Response", out.message.fid))
      BY <2>4 DEF TerminalGetsInfo, TerminalTakes
    <3> QED
      BY <3>1, <3>2, QueueNumbers
  <2> QED
    BY <2>1, <2>2, <2>3, <2>4
       DEF TerminalGetsXID, TerminalGetsSNRM, TerminalIsDisconnected, terminalVars
<1> QED
  BY <1>2, <1>3, <1>4, <1>5 DEF TypeInv

\* The line loses or damages what it carries, or is found empty.
LEMMA TypesLine ==
    ASSUME "late" \notin Faults, SessionInv, TypeInv, LoseFrame \/ FaultyLine \/ GoOn
    PROVE  TypeInv'
<1>1. UNCHANGED <<hostVars, clientVars, terminalVars>>
  BY DEF LoseFrame, FaultyLine, GoOn, ToReceive
<1>2. Sizes' /\ Numbers' /\ Shown' /\ InputNumbers'
  BY <1>1
     DEF hostVars, clientVars, terminalVars, TypeInv, Sizes, Numbers, Shown, InputNumbers
<1>3. Sending'
  <2>1. /\ bSendReadyToRecieve' = bSendReadyToRecieve
        /\ out' = out \/ out' = NoFrame
        /\ bWaitForReply' = bWaitForReply \/ bWaitForReply' = FALSE
    BY <1>1 DEF LoseFrame, FaultyLine, GoOn, ToReceive, hostVars, taskVars
  <2>2. bSendReadyToRecieve' \in BOOLEAN /\ bWaitForReply' \in BOOLEAN
    BY <2>1, Zenon DEF TypeInv, Sending
  <2>3. CASE out' = out
    BY <2>2, <2>3 DEF TypeInv, Sending
  <2>4. CASE out' = NoFrame
    BY <2>2, <2>4 DEF Sending, NoFrame
  <2> QED
    BY <2>1, <2>3, <2>4
<1>4. OnLine'
  <2>1. faults' \in 0..MaxFaults
    <3>1. faults' = faults \/ (faults < MaxFaults /\ faults' = faults + 1)
      BY DEF LoseFrame, FaultyLine, GoOn
    <3> QED
      BY <3>1, MaxFaultsAssumption DEF TypeInv, OnLine
  <2>2. toHost' = toHost \/ toHost' = <<>> \/ Head(toHost') = [kind |-> "bad"]
    BY AnswerLost DEF LoseFrame, GoOn
  <2> QED
    BY <2>1, <2>2 DEF TypeInv, OnLine
<1> QED
  BY <1>2, <1>3, <1>4 DEF TypeInv

LEMMA TypesUser ==
    ASSUME SessionInv, TypeInv, UserTypes PROVE TypeInv'
<1> USE DEF UserTypes
<1>1. UNCHANGED <<hostVars, taskVars, client, screen, raw, toHost, faults, chain, display>>
      /\ unlocked' = FALSE /\ inputFid' = NextFid(inputFid)
  OBVIOUS
<1>2. inputFid \in Fid /\ inputFid' \in Fid /\ inputFid \in Nat
  BY <1>1, FidsWrap DEF TypeInv, Numbers, SessionInv, Types
<1>3. Sizes' /\ Numbers' /\ Sending' /\ OnLine'
  BY <1>1, <1>2 DEF hostVars, taskVars, TypeInv, Sizes, Numbers, Sending, OnLine
<1>4. Shown'
  BY <1>1 DEF hostVars, TypeInv, Shown
<1>5. InputNumbers'
  <2>1. outQ \in Seq(Messages) /\ Len(outQ) \in Nat /\ DOMAIN outQ = 1..Len(outQ)
    BY LenProperties DEF SessionInv, Types
  <2> DEFINE input == Message("Input", inputFid)
  <2>2. input \in Messages /\ input.fid \in Fid
    BY <1>2 DEF Message, Messages
  <2>3. outQ' = Append(outQ, input)
    OBVIOUS
  <2> HIDE DEF input, UserTypes
  <2>4. /\ outQ' \in Seq(Messages) /\ Len(outQ') = Len(outQ) + 1
        /\ \A i \in 1..Len(outQ) : outQ'[i] = outQ[i]
        /\ outQ'[Len(outQ) + 1] = input
    BY <2>1, <2>2, <2>3, AppendProperties
  <2>5. DOMAIN outQ' = 1..(Len(outQ) + 1)
    BY <2>4, LenProperties
  <2> QED
    BY <2>1, <2>2, <2>4, <2>5 DEF TypeInv, InputNumbers
<1> QED
  BY <1>3, <1>4, <1>5 DEF TypeInv

\* Going back stays within the chain: the size of the screen is known.
LEMMA TypesRollBack ==
    ASSUME SessionInv, TypeInv, NEW frame, Receive(frame), RollBack(frame) PROVE TypeInv'
<1>1. /\ UNCHANGED <<Num3270Packets, bSendReadyToRecieve, ProcessedPacket, Packets,
                     Sequence, clientVars, out, faults, terminalVars>>
      /\ WaitForSequence' = NoSequence /\ CurrentLine' = LineBefore /\ State' = StateBefore
      /\ bWaitForReply' = FALSE /\ toHost' = <<>>
  BY AnswerTaken DEF RollBack, Receive
<1>2. Sizes'
  <2>1. CurrentLine \in 0..(MaxPackets - 1) /\ Num3270Packets \in 0..MaxPackets
        /\ (CurrentLine > 0 \/ State = "WaitForInput" => Num3270Packets >= 1)
        /\ MaxPackets \in Nat
    BY MaxPacketsAssumption DEF TypeInv, Sizes
  <2>2. CurrentLine' \in 0..(MaxPackets - 1)
    BY <1>1, <2>1 DEF LineBefore
  <2>3. CurrentLine' > 0 => CurrentLine > 0 \/ State = "WaitForInput"
    BY <1>1, <2>1 DEF LineBefore
  <2>4. State' = "WaitForInput" => CurrentLine > 0
    <3>1. State \in EState \ {"XID", "Nrm", "ActPU"}
      <4>1. toHost # <<>> /\ frame = Head(toHost) /\ Counted(frame) /\ OutOfStep(frame)
        BY DEF RollBack, Receive, OutOfStep
      <4>2. AheadByOne \/ AheadByTwo
        BY <4>1, AnswerShows DEF SessionInv, Sent
      <4> QED
        BY <4>2 DEF SessionInv, Types, AheadByOne, AheadByTwo
    <3> QED
      BY <1>1, <3>1 DEF StateBefore, Before, EState
  <2> QED
    BY <1>1, <2>1, <2>2, <2>3, <2>4 DEF Sizes
<1>3. Numbers' /\ Shown' /\ Sending' /\ OnLine' /\ InputNumbers'
  BY <1>1
     DEF clientVars, terminalVars, TypeInv, Numbers, Shown, Sending, OnLine, InputNumbers
<1> QED
  BY <1>2, <1>3 DEF TypeInv

LEMMA TypesInStep ==
    ASSUME SessionInv, OwedInv, TypeInv, NEW frame, Receive(frame), ProcessInStep(frame)
    PROVE  TypeInv'
<1>1. /\ UNCHANGED <<CurrentLine, Num3270Packets, bSendReadyToRecieve, Packets, Sequence,
                     client, out, faults, terminalVars>>
      /\ bWaitForReply' = FALSE /\ toHost' = <<>>
      /\ WaitForSequence' \in {WaitForSequence, NoSequence}
      /\ State' # "Respond" => State' = State
  BY AnswerTaken DEF ProcessInStep, Receive, clientVars
<1>2. Sizes' /\ Sending' /\ OnLine' /\ InputNumbers'
  BY <1>1 DEF terminalVars, TypeInv, Sizes, Sending, OnLine, InputNumbers
<1>3. Numbers'
  <2>1. ProcessedPacket' \in Fid \cup {NoSequence}
    <3>1. CASE frame.kind = "I" /\ frame.message.what = "Input"
      <4>1. ProcessedPacket' = frame.message.fid
        BY <3>1 DEF ProcessInStep
      <4>2. frame.message = outQ[1] /\ 1 \in UnreadInputs
        BY <3>1, FirstIsRead
      <4> QED
        BY <3>1, <4>1, <4>2 DEF UnreadInputs, TypeInv, InputNumbers
    <3>2. CASE ~(frame.kind = "I" /\ frame.message.what = "Input")
      BY <3>2 DEF ProcessInStep, TypeInv, Numbers
    <3> QED
      BY <3>1, <3>2
  <2> QED
    BY <1>1, <2>1 DEF terminalVars, TypeInv, Numbers
<1>4. Shown'
  <2>1. UNCHANGED <<screen, raw>> \/ (screen' = 1 - screen /\ raw' = Raw)
    BY DEF ProcessInStep, clientVars
  <2>2. screen' \in {0, 1}
    BY <2>1 DEF TypeInv, Shown
  <2>3. raw' \in BOOLEAN
    BY <2>1, Zenon DEF TypeInv, Shown, Raw
  <2> QED
    BY <1>1, <2>2, <2>3 DEF terminalVars, TypeInv, Shown
<1> QED
  BY <1>2, <1>3, <1>4 DEF TypeInv

LEMMA TypesOther ==
    ASSUME SessionInv, TypeInv, NEW frame, Receive(frame),
           ProcessBad(frame) \/ ProcessIgnored(frame)
    PROVE  TypeInv'
<1>1. /\ UNCHANGED <<State, CurrentLine, Num3270Packets, WaitForSequence, ProcessedPacket,
                     Packets, Sequence, clientVars, out, faults, terminalVars>>
      /\ bWaitForReply' = FALSE /\ toHost' = <<>>
      /\ bSendReadyToRecieve' \in {bSendReadyToRecieve, TRUE}
  BY AnswerTaken DEF ProcessBad, ProcessIgnored, Receive, hostVars
<1>2. Sending'
  <2>1. bSendReadyToRecieve' \in BOOLEAN
    BY <1>1, Zenon DEF TypeInv, Sending
  <2> QED
    BY <1>1, <2>1 DEF TypeInv, Sending
<1>3. Sizes' /\ Numbers' /\ Shown' /\ OnLine' /\ InputNumbers'
  BY <1>1
     DEF clientVars, terminalVars, TypeInv, Sizes, Numbers, Shown, OnLine, InputNumbers
<1> QED
  BY <1>2, <1>3 DEF TypeInv

LEMMA TypesStep ==
    ASSUME "late" \notin Faults, SessionInv, OwedInv, TypeInv, [Next]_vars PROVE TypeInv'
<1>1. CASE GenerateNewPackets
  BY <1>1, TypesGenerate
<1>2. CASE ProcessNext
  BY <1>2, TypesRollBack, TypesInStep, TypesOther DEF ProcessNext, ProcessPacket
<1>3. CASE TerminalReceives
  BY <1>3, TypesTerminal
<1>4. CASE UserTypes
  BY <1>4, TypesUser
<1>5. CASE LoseFrame \/ FaultyLine \/ GoOn
  BY <1>5, TypesLine
<1>6. CASE UNCHANGED vars
  <2> USE <1>6 DEF vars, hostVars, taskVars, clientVars, terminalVars
  <2>1. Sizes' /\ Numbers' /\ Shown'
    BY DEF TypeInv, Sizes, Numbers, Shown
  <2>2. Sending' /\ OnLine' /\ InputNumbers'
    BY DEF TypeInv, Sending, OnLine, InputNumbers
  <2> QED
    BY <2>1, <2>2 DEF TypeInv
<1> QED
  BY <1>1, <1>2, <1>3, <1>4, <1>5, <1>6 DEF Next, Host

LEMMA TypesStart == ASSUME Init PROVE TypeInv
<1>1. MaxPackets \in Nat /\ MaxPackets >= 1 /\ MaxFaults \in Nat
  BY MaxPacketsAssumption, MaxFaultsAssumption
<1>2. /\ CurrentLine = 0 /\ Num3270Packets = 0 /\ State = "XID"
      /\ WaitForSequence = NoSequence /\ ProcessedPacket = NoSequence
      /\ Sequence = 0 /\ inputFid = 0 /\ faults = 0 /\ chain = 0
      /\ Packets = Blank /\ display = Blank /\ screen = 0 /\ client \in Clients
      /\ out = NoFrame /\ toHost = <<>> /\ outQ = <<>>
  BY Zenon DEF Init
<1>3. bSendReadyToRecieve \in BOOLEAN /\ bWaitForReply \in BOOLEAN /\ unlocked \in BOOLEAN
      /\ raw \in BOOLEAN
  BY Zenon DEF Init, Raw
<1>4. Sizes /\ OnLine /\ InputNumbers
  BY <1>1, <1>2 DEF Sizes, OnLine, InputNumbers
<1>5. Numbers
  BY <1>2, FidsWrap DEF Numbers
<1>6. Shown
  BY <1>1, <1>2, <1>3 DEF Shown, Contents
<1>7. Sending
  BY <1>2, <1>3 DEF Sending, NoFrame
<1> QED
  BY <1>4, <1>5, <1>6, <1>7 DEF TypeInv

\* The state of the session stays what the code can have: the host goes back to no state
\* that is not there, and to no packet before the first (Network.cpp 171-185), whatever is
\* lost; sequence numbers wrap, and what is shown is a screen of the client.
THEOREM SessionTypesOK ==
    ASSUME "late" \notin Faults PROVE Spec => []TypeOK
<1>1. SessionInv /\ OwedInv /\ TypeInv /\ [Next]_vars => TypeInv'
  BY TypesStep
<1>2. Init => TypeInv
  BY TypesStart
<1>3. Spec => []TypeInv
  BY <1>1, <1>2, SessionInvariant, OwedInvariant, PTL DEF Spec
<1>4. SessionInv /\ OwedInv /\ TypeInv => TypeOK
  BY TypesAreOK
<1> QED
  BY <1>3, <1>4, SessionInvariant, OwedInvariant, PTL

=============================================================================
