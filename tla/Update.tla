--------------------------------- MODULE Update ---------------------------------
(***************************************************************************)
(* Uploads of firmware and of games over HTTP (main.cpp 120-362), next to  *)
(* the tasks that they stop first: writing the flash turns off the cache   *)
(* that the interrupt and SendTask would need.  An upload that succeeds    *)
(* restarts the device; one that fails leaves the handler ready for the    *)
(* next, with the tasks stopped.                                           *)
(*                                                                         *)
(* The body of a request is a sequence of units: what comes before the     *)
(* marker, the two halves of the marker (LGV_FIRM or LGV_DATA), the data,  *)
(* and what comes after.  recv may cut it anywhere.                        *)
(***************************************************************************)
EXTENDS LinkTasks, SequencesExt, FiniteSetsExt

CONSTANTS
    Data,       \* the units of the image
    GameSize,   \* units in the partition of games, TOTAL_GAME_FLASH_SIZE
    MaxRecv     \* units that one recv returns, sizeof(WifiBuffer) - 1

ASSUME DataAssumption == Data \in Seq(STRING) /\ Data # <<>>
ASSUME SizeAssumption ==
    /\ GameSize \in Nat \ {0} /\ MaxRecv \in Nat \ {0}
    /\ MaxRecv <= GameSize + 2   \* what follows the marker in its buffer fits

Marker == <<"mark", "er">>
Payload == Data \o <<"boundary">>
Body == <<"header">> \o Marker \o Payload

\* The image does not hold the marker: a handler that has missed the marker, because
\* recv cut it in two, would take this one for it.
ASSUME MarkerAssumption == \A i \in 1..(Len(Data) - 1) : <<Data[i], Data[i + 1]>> # Marker

VARIABLES
    http,                \* where the handler is
    bUploadingGame,
    rest,                \* what it has not received yet
    Length,              \* how much it still expects
    bWaitingForStart,    \* it has not seen the marker
    ErrorCode,           \* "ok", or what the flash said
    flash,               \* what was written since the partition was erased
    boots,               \* the partition is the one to boot
    response             \* what it told the client

uploadVars == <<http, bUploadingGame, rest, Length, bWaitingForStart, ErrorCode,
                flash, boots, response>>
vars == <<linkVars, uploadVars>>

Init ==
    /\ InitLink
    /\ http = "accept"
    /\ bUploadingGame = FALSE
    /\ rest = <<>>
    /\ Length = 0
    /\ bWaitingForStart = TRUE
    /\ ErrorCode = "ok"
    /\ flash = <<>>
    /\ boots = FALSE
    /\ response = "none"

--------------------------------------------------------------------------------
(***************************************************************************)
(* The handler.                                                            *)
(***************************************************************************)

\* The request; the first recv may have brought a part of the body, which is not
\* looked at.  A request without its length has length 0.
AcceptUpload(game, early, length) ==
    /\ http = "accept"
    /\ Quit
    /\ http' = "stopping1"
    /\ bUploadingGame' = game
    /\ rest' = SubSeq(Body, early + 1, Len(Body))
    /\ Length' = length
    /\ bWaitingForStart' = TRUE
    /\ ErrorCode' = "ok"
    /\ response' = "none"
    /\ UNCHANGED <<flash, boots>>

\* It does not wait for MessageTask.
WaitForNothing ==
    /\ http = "stopping1"
    /\ http' = "stopping2"
    /\ UNCHANGED <<linkVars, bUploadingGame, rest, Length, bWaitingForStart, ErrorCode,
                   flash, boots, response>>

\* It waits for both tasks, one after the other.
WaitForTask1 ==
    /\ http = "stopping1" /\ bDoneQuitTask1
    /\ http' = "stopping2"
    /\ UNCHANGED <<linkVars, bUploadingGame, rest, Length, bWaitingForStart, ErrorCode,
                   flash, boots, response>>

WaitForTask2 ==
    /\ http = "stopping2" /\ bDoneQuitTask2
    /\ http' = "receiving"
    /\ UNCHANGED <<linkVars, bUploadingGame, rest, Length, bWaitingForStart, ErrorCode,
                   flash, boots, response>>

\* Where the marker ends in a buffer, if it is there as a whole.
MarkerEnds(buffer) ==
    {i + 1 : i \in {k \in 1..(Len(buffer) - 1) : SubSeq(buffer, k, k + 1) = Marker}}

\* A game is cut off at the end of its partition.
Room(content) == IF bUploadingGame THEN GameSize - Len(content) ELSE MaxRecv
Written(content, data) == content \o SubSeq(data, 1, Min({Len(data), Room(content)}))

\* One buffer; it may be that the flash is not erased, or not written (~ok).
ProcessBuffer(buffer, ok) ==
    IF bWaitingForStart
    THEN IF MarkerEnds(buffer) = {}
         THEN UNCHANGED <<bWaitingForStart, ErrorCode, flash, boots>>
         ELSE LET data == SubSeq(buffer, Min(MarkerEnds(buffer)) + 1, Len(buffer)) IN
              /\ bWaitingForStart' = FALSE
              /\ ErrorCode' = IF ok THEN "ok" ELSE "failed"
              /\ flash' = IF ok THEN data ELSE <<>>
              /\ UNCHANGED boots
    ELSE /\ UNCHANGED <<bWaitingForStart, boots>>
         /\ IF ErrorCode = "ok"
            THEN /\ ErrorCode' = IF ok THEN "ok" ELSE "failed"
                 /\ flash' = IF ok THEN Written(flash, buffer) ELSE flash
            ELSE UNCHANGED <<ErrorCode, flash>>

\* recv returns n units of the body.
ReceiveBuffer(n, ok) ==
    /\ http = "receiving" /\ Length > 0
    /\ n <= Len(rest)
    /\ ProcessBuffer(SubSeq(rest, 1, n), ok)
    /\ rest' = SubSeq(rest, n + 1, Len(rest))
    /\ Length' = Length - n
    /\ UNCHANGED <<linkVars, http, bUploadingGame, response>>

\* What it says is ignored.
OtaEndIgnored == ErrorCode = "ok"

\* esp_ota_end looks at the image that was written, and fails if none was begun.
OtaEnd == ErrorCode = "ok" /\ ~bWaitingForStart /\ IsPrefix(Data, flash)

\* An upload that ended early is taken for a whole one.
LengthForgotten(error) == error = "ok" /\ ~bWaitingForStart

Success(error) == error = "ok" /\ Length = 0 /\ ~bWaitingForStart

\* All is received (or there was nothing to receive), or the client has gone.
\* Firmware that is complete is made the one to boot, whatever the length.
Conclude ==
    /\ http = "receiving"
    /\ LET error == IF bUploadingGame \/ OtaEnd THEN ErrorCode ELSE "failed" IN
       /\ ErrorCode' = error
       /\ boots' = (boots \/ (~bUploadingGame /\ error = "ok"))
       /\ response' = IF Success(error) THEN "successful" ELSE "failed"
       /\ http' = IF Success(error) THEN "updated" ELSE "accept"
    /\ UNCHANGED <<linkVars, bUploadingGame, rest, Length, bWaitingForStart, flash>>

AllReceived == Length <= 0 /\ Conclude
ClientGone == Length > 0 /\ Conclude

\* esp_restart: what was uploaded runs, or is played, and the next firmware goes to
\* another partition.
Restart ==
    /\ http = "updated"
    /\ RestartTasks
    /\ http' = "accept"
    /\ bUploadingGame' = FALSE
    /\ rest' = <<>>
    /\ Length' = 0
    /\ bWaitingForStart' = TRUE
    /\ ErrorCode' = "ok"
    /\ flash' = <<>>
    /\ boots' = FALSE
    /\ response' = "none"

Upload ==
    \/ WaitForTask1 \/ WaitForTask2
    \/ \E n \in 1..MaxRecv, ok \in BOOLEAN : ReceiveBuffer(n, ok)
    \/ AllReceived \/ ClientGone

Next ==
    \/ Link /\ UNCHANGED uploadVars
    \/ \E game \in BOOLEAN, early \in 0..1, length \in {0, Len(Body)} :
          AcceptUpload(game, early, length)
    \/ Upload
    \/ Restart

Spec == Init /\ [][Next]_vars

\* The handler goes on when it can; the client sends the body or goes away.
FairSpec == Spec /\ LinkFairness /\ WF_vars(Upload)

--------------------------------------------------------------------------------
(***************************************************************************)
(* Properties.                                                             *)
(***************************************************************************)
TypeOK ==
    /\ LinkTypeOK
    /\ http \in {"accept", "stopping1", "stopping2", "receiving", "updated"}
    /\ bUploadingGame \in BOOLEAN
    /\ IsSuffix(rest, Body)
    /\ Length \in 0..Len(Body)
    /\ bWaitingForStart \in BOOLEAN
    /\ ErrorCode \in {"ok", "failed"}
    /\ IsPrefix(flash, Payload)
    /\ boots \in BOOLEAN
    /\ response \in {"none", "successful", "failed"}

\* What the client is told is successful is whole: the image for firmware, and all of
\* what was sent that the partition holds for a game, however the buffers fell and
\* whatever was tried before (main.cpp 308-313).
SuccessIsWhole ==
    response = "successful" =>
        IF bUploadingGame
        THEN flash = SubSeq(Payload, 1, Min({GameSize, Len(Payload)}))
        ELSE flash = Payload

\* Firmware is made the one to boot only when its image is whole (main.cpp 295-306).
OnlyWholeImagesBoot == [][boots' /\ ~boots => IsPrefix(Data, flash)]_vars

\* The flash is not erased, written or switched before both tasks have stopped
\* (main.cpp 184-192).
FlashOnlyWhenStopped ==
    [][flash' # flash \/ (boots' /\ ~boots) => bDoneQuitTask1 /\ bDoneQuitTask2]_vars

\* An upload that comes while MessageTask waits for an answer, where it nearly always
\* is, or while SendTask sends a frame, stops both tasks and goes ahead.
UploadGoesAhead ==
    (http = "stopping1" /\ (message = "receive" \/ Sending)) ~> http = "receiving"

\* Each upload stops both tasks and goes ahead.
UploadIsReceived == http = "stopping1" ~> http = "receiving"

\* An upload that is reported as failed leaves alone what the device boots.
FailedUpdateKeepsBoot == response = "failed" => ~boots

=============================================================================
