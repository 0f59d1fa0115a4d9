-------------------------------- MODULE Session --------------------------------
(***************************************************************************)
(* NetworkState (Network.cpp, with the frames of PacketBuilder.h and what  *)
(* PacketParser.cpp reads from the answers): the SDLC primary and SNA host *)
(* that activates the terminal, sends it screens and polls it for input,   *)
(* over a line that loses and damages frames.                              *)
(*                                                                         *)
(* MessageTask (LowLevel.cpp 212-283) alternates GenerateNewPackets, which *)
(* builds one frame, and ProcessPacket, once for each frame received.      *)
(*                                                                         *)
(* The terminal is external.  It is an SDLC secondary: it takes numbered   *)
(* frames in order and drops the others, speaks only when polled, and      *)
(* repeats a frame until a receive count acknowledges it.  It responds to  *)
(* every request, since GenerateNewPackets waits for that (Network.cpp 11).*)
(***************************************************************************)
EXTENDS Integers, Sequences, SequencesExt

CONSTANTS
    MaxPackets,  \* packets that a screen takes, at most
    Modulus,     \* SDLC counts are kept modulo this: 8 in the code (& 7, 0xE0)
    FidModulus,  \* FID2 sequence numbers wrap at this: 2^16 in the code
    MaxFaults,   \* frames that the line loses or damages, at most
    Faults,      \* which kinds of fault the line has besides the common ones
    Clients      \* the programs that the user may choose

\* "snrm":     the request for normal response mode is lost
\* "response": the response to the user's input is lost
\* "late":     an answer comes after the wait for it is over
FaultKinds == {"snrm", "response", "late"}

ASSUME MaxPacketsAssumption == MaxPackets \in Nat \ {0}
ASSUME ModulusAssumption == Modulus \in Nat /\ Modulus >= 4
ASSUME FidModulusAssumption == FidModulus \in Nat /\ FidModulus >= 2
ASSUME MaxFaultsAssumption == MaxFaults \in Nat
ASSUME FaultsAssumption == Faults \subseteq FaultKinds
ASSUME ClientsAssumption == Clients \subseteq {"text", "SSH", "TN3270"}

EState == {"XID", "Nrm", "ActPU", "ActLU", "Bind", "DataReset", "SendScreen",
           "WaitForInput", "Respond", "Respond2"}

\* The state before, in the order of the enumeration (State - 1).
Before == [Nrm |-> "XID", ActPU |-> "Nrm", ActLU |-> "ActPU", Bind |-> "ActLU",
           DataReset |-> "Bind", SendScreen |-> "DataReset",
           WaitForInput |-> "SendScreen", Respond |-> "WaitForInput",
           Respond2 |-> "Respond"]

\* Sequence numbers: the two of the expedited requests, and the wrapping ones.
PUSequence == 16 * 349 + 8      \* 0x1568
LUSequence == PUSequence + 1    \* 0x1569
Fid == 0..(FidModulus - 1)
NoSequence == -1

VARIABLES
    \* class NetworkState
    State, CurrentLine, Num3270Packets, WaitForSequence, bSendReadyToRecieve,
    ProcessedPacket,
    Packets,         \* Screen::Packets: what was serialised last
    \* its SNAStream
    SendCount, RecieveCount, Sequence,
    \* MessageTask
    task,            \* "generate", "sent" or "receive"
    bWaitForReply,   \* it waits for a frame, else it takes what is there
    out,             \* the frame it sends
    \* the client, as far as the session sees it
    client,          \* which program it is
    screen,          \* the name of the screen it shows; it alternates
    raw,             \* its raw stream has not been sent yet (RawStream)
    owed,            \* inputs typed and not yet handed to the client
    \* the line
    toHost,          \* frames on their way from the terminal
    faults,          \* faults so far
    \* the terminal
    mode,            \* "disconnected" or "normal"
    VR,              \* the frame it expects
    VS,              \* the oldest frame it sent that is not acknowledged
    outQ,            \* the messages of its frames from VS on
    inputFid,        \* sequence number of its next input
    chain,           \* packets of a chain received so far
    display,         \* what it shows
    unlocked         \* the user can type

hostVars == <<State, CurrentLine, Num3270Packets, WaitForSequence,
              bSendReadyToRecieve, ProcessedPacket, Packets, SendCount,
              RecieveCount, Sequence>>
taskVars == <<task, bWaitForReply, out>>
clientVars == <<client, screen, raw, owed>>
terminalVars == <<mode, VR, VS, outQ, inputFid, chain, display, unlocked>>
vars == <<hostVars, taskVars, clientVars, toHost, faults, terminalVars>>

Inc(n) == (n + 1) % Modulus
Dec(n) == (n + Modulus - 1) % Modulus
NextFid(n) == (n + 1) % FidModulus

--------------------------------------------------------------------------------
(***************************************************************************)
(* Frames.  A numbered frame carries a message: a request, or a response   *)
(* to one.  Of a screen packet it says which one of the chain it is and    *)
(* whether it ends the chain.                                              *)
(***************************************************************************)
\* SSH and TN3270 withdraw a prompt when they have something new to show; games,
\* the front end and Wikipedia ("text") never do.  TN3270 sends raw 3270 data
\* streams.
Cancels == client # "text"
Raw == client = "TN3270"

Content == [screen : {0, 1}, raw : BOOLEAN]
Blank == [screen |-> -1, raw |-> FALSE]

Message(what, fid) == [what |-> what, fid |-> fid]
ScreenPacket(fid, line, end, content) ==
    [what |-> "Screen", fid |-> fid, line |-> line, end |-> end,
     content |-> content]

XIDFrame == [kind |-> "XID"]
SNRMFrame == [kind |-> "SNRM"]
RRFrame == [kind |-> "RR", nr |-> RecieveCount]
InfoFrame(message) ==
    [kind |-> "I", nr |-> RecieveCount, ns |-> SendCount, message |-> message]
NoFrame == [kind |-> "none"]

Init ==
    /\ State = "XID" /\ CurrentLine = 0 /\ Num3270Packets = 0
    /\ WaitForSequence = NoSequence /\ bSendReadyToRecieve = FALSE
    /\ ProcessedPacket = NoSequence /\ Packets = Blank
    /\ SendCount = 0 /\ RecieveCount = 0 /\ Sequence = 0
    /\ task = "generate" /\ bWaitForReply = FALSE /\ out = NoFrame
    /\ client \in Clients /\ screen = 0 /\ raw = Raw /\ owed = 0
    /\ toHost = <<>> /\ faults = 0
    /\ mode = "disconnected" /\ VR = 0 /\ VS = 0 /\ outQ = <<>>
    /\ inputFid = 0 /\ chain = 0 /\ display = Blank /\ unlocked = FALSE

--------------------------------------------------------------------------------
(***************************************************************************)
(* GenerateNewPackets.                                                     *)
(***************************************************************************)

Emit(frame, wait) ==
    /\ out' = frame
    /\ bWaitForReply' = wait
    /\ task' = "sent"
    /\ UNCHANGED <<client, owed, toHost, faults, terminalVars>>

\* Something was sent, or a response is outstanding: poll first.
Poll ==
    /\ task = "generate"
    /\ bSendReadyToRecieve \/ WaitForSequence # NoSequence
    /\ bSendReadyToRecieve' = FALSE
    /\ Emit(RRFrame, TRUE)
    /\ UNCHANGED <<State, CurrentLine, Num3270Packets, WaitForSequence,
                   ProcessedPacket, Packets, SendCount, RecieveCount, Sequence,
                   screen, raw>>

\* The switch over the states starts here.
Ready(state) ==
    /\ task = "generate"
    /\ ~bSendReadyToRecieve
    /\ WaitForSequence = NoSequence
    /\ State = state

\* XID and SNRM: the state advances whatever the answer.
SendUnnumbered(state, frame, next) ==
    /\ Ready(state)
    /\ State' = next
    /\ Emit(frame, TRUE)
    /\ UNCHANGED <<CurrentLine, Num3270Packets, WaitForSequence,
                   bSendReadyToRecieve, ProcessedPacket, Packets, SendCount,
                   RecieveCount, Sequence, screen, raw>>

SendXID == SendUnnumbered("XID", XIDFrame, "Nrm")
SendSNRM == SendUnnumbered("Nrm", SNRMFrame, "ActPU")

\* A request: its response is awaited, and polled for.
SendRequest(message) ==
    /\ WaitForSequence' = message.fid
    /\ bSendReadyToRecieve' = TRUE
    /\ SendCount' = Inc(SendCount)
    /\ Emit(InfoFrame(message), FALSE)
    /\ UNCHANGED <<ProcessedPacket, RecieveCount>>

\* The sequence number is set for the first three requests; an expedited
\* request does not advance it.
Activate(state, what, fid, nextFid, next) ==
    /\ Ready(state)
    /\ SendRequest(Message(what, fid))
    /\ Sequence' = nextFid
    /\ State' = next
    /\ UNCHANGED <<CurrentLine, Num3270Packets, Packets, screen, raw>>

SendActPU == Activate("ActPU", "ActPU", PUSequence, PUSequence, "ActLU")
SendActLU == Activate("ActLU", "ActLU", LUSequence, LUSequence, "Bind")
SendBind == Activate("Bind", "Bind", 0, 1, "DataReset")
SendDataReset ==
    Activate("DataReset", "DataReset", Sequence, NextFid(Sequence), "SendScreen")

LineAfterOffByOne(line, num) == IF line + 1 > num THEN 0 ELSE line + 1

\* CurrentLine once packet number line of num is built.
LineAfter(line, num) == IF line + 1 >= num THEN 0 ELSE line + 1

\* Packet number line of a screen that takes num packets.
SendPacket(line, num, content) ==
    /\ SendRequest(ScreenPacket(Sequence, line, line + 1 >= num, content))
    /\ Sequence' = NextFid(Sequence)
    /\ CurrentLine' = LineAfter(line, num)
    /\ State' = IF line + 1 >= num THEN "WaitForInput" ELSE "SendScreen"
    /\ Num3270Packets' = num
    /\ Packets' = content

\* CurrentLine 0 starts a chain: the screen is serialised.  A raw stream takes
\* its place once; after that RawStream is null (Screen.cpp 227-245).
SendFirstPacket ==
    /\ Ready("SendScreen")
    /\ CurrentLine = 0
    /\ \E num \in 1..MaxPackets :
          SendPacket(0, num, [screen |-> screen, raw |-> raw])
    /\ raw' = FALSE
    /\ UNCHANGED screen

SendNextPacket ==
    /\ Ready("SendScreen")
    /\ CurrentLine > 0
    /\ SendPacket(CurrentLine, Num3270Packets, Packets)
    /\ UNCHANGED <<screen, raw>>

\* A poll for the user's input.  ShouldCancelInput may find that the client has
\* withdrawn its prompt and wants its next screen shown (ScreenInput.tla has the
\* details): the poll is sent all the same.
PollForInput(cancel) ==
    /\ Ready("WaitForInput")
    /\ State' = IF cancel THEN "SendScreen" ELSE State
    /\ screen' = IF cancel THEN 1 - screen ELSE screen
    /\ raw' = (raw \/ (cancel /\ Raw))
    /\ Emit(RRFrame, TRUE)
    /\ UNCHANGED <<CurrentLine, Num3270Packets, WaitForSequence,
                   bSendReadyToRecieve, ProcessedPacket, Packets, SendCount,
                   RecieveCount, Sequence>>

\* The response to the user's input.  No poll follows it.
SendResponse ==
    /\ Ready("Respond")
    /\ SendCount' = Inc(SendCount)
    /\ State' = "Respond2"
    /\ Emit(InfoFrame(Message("Response", ProcessedPacket)), FALSE)
    /\ UNCHANGED <<CurrentLine, Num3270Packets, WaitForSequence,
                   bSendReadyToRecieve, ProcessedPacket, Packets, RecieveCount,
                   Sequence, screen, raw>>

SendRespond2 ==
    Activate("Respond2", "Respond2", Sequence, NextFid(Sequence), "SendScreen")

GenerateNewPackets ==
    \/ Poll \/ SendXID \/ SendSNRM \/ SendActPU \/ SendActLU \/ SendBind
    \/ SendDataReset \/ SendFirstPacket \/ SendNextPacket
    \/ \E cancel \in {FALSE, Cancels} : PollForInput(cancel)
    \/ SendResponse \/ SendRespond2

--------------------------------------------------------------------------------
(***************************************************************************)
(* The line to the terminal, and the terminal (external).                  *)
(***************************************************************************)

ToReceive ==
    /\ task = "sent"
    /\ task' = "receive"
    /\ out' = NoFrame
    /\ UNCHANGED <<bWaitForReply, hostVars>>

\* The frame does not reach the terminal, or reaches it damaged.
LoseFrame ==
    /\ faults < MaxFaults
    /\ out.kind = "SNRM" => "snrm" \in Faults
    /\ out.kind = "I" /\ out.message.what = "Response" => "response" \in Faults
    /\ faults' = faults + 1
    /\ ToReceive
    /\ UNCHANGED <<clientVars, toHost, terminalVars>>

Answer(frames) == toHost' = toHost \o frames

TerminalGetsXID ==
    /\ out.kind = "XID"
    /\ Answer(<<[kind |-> "U"]>>)
    /\ UNCHANGED terminalVars

TerminalGetsSNRM ==
    /\ out.kind = "SNRM"
    /\ mode' = "normal"
    /\ VR' = 0 /\ VS' = 0 /\ outQ' = <<>>
    /\ Answer(<<[kind |-> "U"]>>)
    /\ UNCHANGED <<inputFid, chain, display, unlocked>>

\* Outside normal mode it answers a poll with DM, and ignores the rest.
TerminalIsDisconnected ==
    /\ mode = "disconnected"
    /\ out.kind \in {"RR", "I"}
    /\ Answer(IF out.kind = "RR" THEN <<[kind |-> "U"]>> ELSE <<>>)
    /\ UNCHANGED terminalVars

\* The frames that the receive count of out acknowledges.
Acknowledged == (out.nr - VS) % Modulus
Unacknowledged ==
    IF Acknowledged <= Len(outQ)
    THEN SubSeq(outQ, Acknowledged + 1, Len(outQ)) ELSE outQ
NewVS == IF Acknowledged <= Len(outQ) THEN out.nr ELSE VS

TerminalIsPolled ==
    /\ mode = "normal"
    /\ out.kind = "RR"
    /\ VS' = NewVS
    /\ outQ' = Unacknowledged
    /\ Answer(IF outQ' = <<>> THEN <<[kind |-> "RR", nr |-> VR]>>
              ELSE <<[kind |-> "I", nr |-> VR, ns |-> VS', message |-> Head(outQ')]>>)
    /\ UNCHANGED <<mode, VR, inputFid, chain, display, unlocked>>

\* A request gets a response.  The last packet of a chain completes the screen.
TerminalTakes(message) ==
    /\ outQ' = IF message.what = "Response" THEN Unacknowledged
               ELSE Append(Unacknowledged, Message("Response", message.fid))
    /\ IF message.what = "Screen"
       THEN /\ chain' = IF message.end THEN 0 ELSE message.line + 1
            /\ display' = IF message.end THEN message.content ELSE display
            /\ unlocked' = (unlocked \/ message.end)
       ELSE UNCHANGED <<chain, display, unlocked>>

TerminalGetsInfo ==
    /\ mode = "normal"
    /\ out.kind = "I"
    /\ VS' = NewVS
    /\ IF out.ns = VR
       THEN VR' = Inc(VR) /\ TerminalTakes(out.message)
       ELSE /\ outQ' = Unacknowledged
            /\ UNCHANGED <<VR, chain, display, unlocked>>
    /\ Answer(<<>>)
    /\ UNCHANGED <<mode, inputFid>>

TerminalReceives ==
    /\ ToReceive
    /\ \/ TerminalGetsXID \/ TerminalGetsSNRM \/ TerminalIsDisconnected
       \/ TerminalIsPolled \/ TerminalGetsInfo
    /\ UNCHANGED <<clientVars, faults>>

\* The user ends an input.
UserTypes ==
    /\ unlocked
    /\ unlocked' = FALSE
    /\ outQ' = Append(outQ, Message("Input", inputFid))
    /\ inputFid' = NextFid(inputFid)
    /\ owed' = owed + 1
    /\ UNCHANGED <<hostVars, taskVars, client, screen, raw, toHost, faults,
                   mode, VR, VS, chain, display>>

\* The last frame from the terminal is lost, or damaged.
FaultyLine ==
    /\ faults < MaxFaults
    /\ toHost # <<>>
    /\ toHost[Len(toHost)].kind # "bad"
    /\ faults' = faults + 1
    /\ \E rest \in {<<>>, <<[kind |-> "bad"]>>} : toHost' = Front(toHost) \o rest
    /\ UNCHANGED <<hostVars, taskVars, clientVars, terminalVars>>

--------------------------------------------------------------------------------
(***************************************************************************)
(* MessageTask receives, and calls ProcessPacket.                          *)
(***************************************************************************)

\* No frame there, or none within the wait (1000 ticks) although one is on its
\* way: generate the next frame.
GoOn ==
    /\ task = "receive"
    /\ LET late == bWaitForReply /\ toHost # <<>> IN
       /\ late => "late" \in Faults /\ faults < MaxFaults
       /\ faults' = IF late THEN faults + 1 ELSE faults
    /\ task' = "generate"
    /\ bWaitForReply' = FALSE
    /\ UNCHANGED <<hostVars, out, clientVars, toHost, terminalVars>>

\* The next frame; more are taken only if they are there already.
Receive(frame) ==
    /\ task = "receive"
    /\ toHost # <<>>
    /\ frame = Head(toHost)
    /\ toHost' = Tail(toHost)
    /\ bWaitForReply' = FALSE
    /\ UNCHANGED <<task, out, faults, terminalVars>>

Counted(frame) == frame.kind \in {"RR", "I"}
OutOfStep(frame) == Counted(frame) /\ frame.nr # SendCount

\* A bad checksum: poll again.
ProcessBad(frame) ==
    /\ frame.kind = "bad"
    /\ bSendReadyToRecieve' = TRUE
    /\ UNCHANGED <<State, CurrentLine, Num3270Packets, WaitForSequence,
                   ProcessedPacket, Packets, SendCount, RecieveCount, Sequence,
                   clientVars>>

\* An unnumbered answer changes nothing; nor does an answer sent before the
\* frame that was sent last.
ProcessIgnored(frame) ==
    /\ frame.kind = "U" \/ (OutOfStep(frame) /\ bSendReadyToRecieve)
    /\ UNCHANGED <<hostVars, clientVars>>

CountKept == SendCount              \* SendCount does not go back
CountTwice == Dec(Dec(SendCount))   \* it goes back by two
LineKept == CurrentLine             \* CurrentLine does not go back
StateKept == State                  \* State does not go back

\* The terminal missed a frame: go back by one.  Respond stands for itself.
CountBefore == Dec(SendCount)
LineBefore ==
    CASE CurrentLine > 0 -> CurrentLine - 1
      [] CurrentLine = 0 /\ State = "WaitForInput" -> Num3270Packets - 1
      [] OTHER -> 0
StateBefore ==
    IF CurrentLine > 0 \/ State = "Respond" THEN State ELSE Before[State]

RollBack(frame) ==
    /\ OutOfStep(frame)
    /\ ~bSendReadyToRecieve
    /\ WaitForSequence' = NoSequence
    /\ SendCount' = CountBefore
    /\ CurrentLine' = LineBefore
    /\ State' = StateBefore
    /\ UNCHANGED <<Num3270Packets, bSendReadyToRecieve, ProcessedPacket,
                   Packets, RecieveCount, Sequence, clientVars>>

CountAll(frame) == Inc(RecieveCount)   \* every frame is counted
CountAwaited(frame) ==                 \* only the response that is awaited is
    IF frame.kind = "I" /\ frame.message.fid = WaitForSequence
    THEN Inc(RecieveCount) ELSE RecieveCount

\* A numbered frame counts, whatever its send count.
CountReceived(frame) ==
    IF frame.kind = "I" THEN Inc(RecieveCount) ELSE RecieveCount

\* In step.  A message with the sequence number that is awaited ends the wait; an
\* input goes to the client, which prints its next screen.
ProcessInStep(frame) ==
    /\ Counted(frame) /\ ~OutOfStep(frame)
    /\ RecieveCount' = CountReceived(frame)
    /\ WaitForSequence' =
          IF frame.kind = "I" /\ frame.message.fid = WaitForSequence
          THEN NoSequence ELSE WaitForSequence
    /\ IF frame.kind = "I" /\ frame.message.what = "Input"
       THEN /\ State' = "Respond"
            /\ ProcessedPacket' = frame.message.fid
            /\ screen' = 1 - screen /\ raw' = Raw /\ owed' = owed - 1
            /\ UNCHANGED client
       ELSE UNCHANGED <<State, ProcessedPacket, clientVars>>
    /\ UNCHANGED <<CurrentLine, Num3270Packets, bSendReadyToRecieve, Packets,
                   SendCount, Sequence>>

ProcessPacket(frame) ==
    /\ Receive(frame)
    /\ \/ ProcessBad(frame) \/ ProcessIgnored(frame) \/ RollBack(frame)
       \/ ProcessInStep(frame)

ProcessNext == task = "receive" /\ toHost # <<>> /\ ProcessPacket(Head(toHost))

Host == GenerateNewPackets \/ GoOn \/ ProcessNext
Next == Host \/ TerminalReceives \/ UserTypes \/ LoseFrame \/ FaultyLine

Spec == Init /\ [][Next]_vars

(***************************************************************************)
(* MessageTask never stops, and the terminal answers each poll.  The user  *)
(* owes nothing, and the line may make all its faults or none.             *)
(***************************************************************************)
FairSpec == Spec /\ WF_vars(Host \/ TerminalReceives)

--------------------------------------------------------------------------------
TypeOK ==
    /\ State \in EState
    /\ CurrentLine \in 0..(MaxPackets - 1)
    /\ Num3270Packets \in 0..MaxPackets
    /\ WaitForSequence \in Fid \cup {NoSequence, PUSequence, LUSequence}
    /\ bSendReadyToRecieve \in BOOLEAN
    /\ ProcessedPacket \in Fid \cup {NoSequence}
    /\ Packets \in Content \cup {Blank}
    /\ SendCount \in 0..(Modulus - 1)
    /\ RecieveCount \in 0..(Modulus - 1)
    /\ Sequence \in Fid \cup {PUSequence, LUSequence}
    /\ task \in {"generate", "sent", "receive"}
    /\ bWaitForReply \in BOOLEAN
    /\ out.kind \in {"none", "XID", "SNRM", "RR", "I"}
    /\ client \in Clients /\ screen \in {0, 1} /\ raw \in BOOLEAN /\ owed \in Int
    /\ \A i \in DOMAIN toHost : toHost[i].kind \in {"U", "RR", "I", "bad"}
    /\ faults \in 0..MaxFaults
    /\ mode \in {"disconnected", "normal"}
    /\ VR \in 0..(Modulus - 1) /\ VS \in 0..(Modulus - 1)
    /\ inputFid \in Fid
    /\ chain \in 0..(MaxPackets - 1)
    /\ display \in Content \cup {Blank}
    /\ unlocked \in BOOLEAN

(***************************************************************************)
(* Safety.                                                                 *)
(***************************************************************************)

\* Numbered frames that the terminal has not taken.
Outstanding == (SendCount - VR) % Modulus

\* At most the response to an input and the request after it are outstanding,
\* however often frames are lost and SendCount goes back (Network.cpp 171): the
\* host never goes back beyond what the terminal has taken.
AtMostTwoOutstanding == mode = "normal" => Outstanding \in 0..2

\* RecieveCount never runs ahead of what the terminal has sent, nor falls behind
\* what it was told: the terminal discards no message that the host lacks
\* (Network.cpp 188-192).
NothingAcknowledgedUnread ==
    mode = "normal" => (RecieveCount - VS) % Modulus <= Len(outQ)

\* The client gets each input once, though lost polls make the terminal repeat
\* it; a client that does not withdraw prompts has at most one on its way.
InputOnce == owed >= 0 /\ (client = "text" => owed <= 1)

\* The terminal gets the packets of a chain in order, none twice and none
\* missing, whatever is lost (CurrentLine, Network.cpp 172-180).  A client that
\* withdraws prompts can have an input come between the packets of a chain; then
\* a lost Respond2 takes CurrentLine back by one packet too many.
ChainInOrder ==
    [][client = "text" /\ TerminalReceives /\ VR' # VR /\ out.kind = "I"
          /\ out.message.what = "Screen"
        => out.message.line = chain]_vars

(***************************************************************************)
(* Liveness.                                                               *)
(***************************************************************************)

\* After a frame is lost the host sends again what the terminal lacks, and the
\* responses come: again and again it is back at waiting for input, or about to
\* respond to one, with nothing outstanding (Network.cpp 162, 169 "resending last
\* message").
BackInStep ==
    []<>(/\ State \in {"WaitForInput", "Respond"}
         /\ WaitForSequence = NoSequence
         /\ SendCount = VR)

\* A screen that the client prints reaches the terminal, if the client leaves
\* it there: withdrawing prompts for ever may keep any screen from being shown.
ScreenIsShown == []<>(Cancels \/ display.screen = screen)

\* Also of a client that withdraws prompts, once it has stopped doing so.
LastScreenIsShown ==
    (\E s \in {0, 1} : <>[](screen = s)) => []<>(display.screen = screen)

\* Inputs that the user ends are handed to the client, one after the other.
InputIsDelivered == []<>(owed = 0) \/ []<><<owed' < owed>>_owed

================================================================================
