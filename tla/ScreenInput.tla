------------------------------ MODULE ScreenInput ------------------------------
(***************************************************************************)
(* The hand-off of the screen and of the user's input between the client   *)
(* task (GameTask: a game, the front end, TN3270, SSH or Wikipedia) and    *)
(* MessageTask, which owns the line to the terminal (Screen.cpp 111-160,   *)
(* 217-222, 307-344).                                                      *)
(*                                                                         *)
(* Both tasks have the same priority and share core 0, so they interleave  *)
(* at any point.  There is no lock: the only synchronisation is the        *)
(* volatile flag bSuspended and the client's FreeRTOS notification count.  *)
(* A step of this module is the code between two accesses of a variable    *)
(* that the other task also uses.                                          *)
(*                                                                         *)
(* The line is reduced to what the hand-off sees: a screen that reaches    *)
(* the terminal, and polls whose answer may bring the user's input.        *)
(* Session.tla models the line itself.                                     *)
(***************************************************************************)
EXTENDS Integers

CONSTANTS
    N,         \* number of names for prompts; they are reused in turn
    Cancels    \* TRUE: the client waits with a timeout and may cancel
               \* (TN3270, SSH); FALSE: it waits forever (games, front end,
               \* Wikipedia, the [MORE] prompt)

ASSUME NAssumption == N \in Nat /\ N >= 2
ASSUME CancelsAssumption == Cancels \in BOOLEAN

Prompt == 1..N

\* No prompt, no screen, or no input.
None == 0

(***************************************************************************)
(* What the user can send: the screen it was typed at, and its length.     *)
(* Length 0 is ENTER on an empty line, or a key other than ENTER           *)
(* (Screen.cpp 318-340); all other lengths are alike.                      *)
(***************************************************************************)
Input == [at : Prompt, length : {0, 1}]
NoInput == [at |-> None, length |-> 0]

VARIABLES
    \* struct Screen
    bSuspended,       \* the client has handed the screen over
    bCancelInput,     \* the client has asked for its prompt to be withdrawn
    WaitingInput,     \* whose buffer an answer goes to
    LastInputLength,  \* -1 cancelled, else the length of the last answer
    content,          \* what the client last printed (Row, or RawStream)
    notify,           \* notification count of TaskHandle
    \* the client task
    client,           \* where it is
    prompt,           \* the prompt it is working on
    buffer,           \* the input that each prompt's buffer holds
    \* MessageTask
    host,             \* where it is
    State,            \* the part of NetworkState::State that matters here
    \* the terminal
    shown,            \* the screen on display
    unlocked,         \* the keyboard is unlocked
    typed             \* input waiting for a poll

screenVars == <<bSuspended, bCancelInput, WaitingInput, LastInputLength,
                content, notify>>
clientVars == <<client, prompt, buffer>>
hostVars == <<host, State>>
terminalVars == <<shown, unlocked, typed>>
vars == <<bSuspended, bCancelInput, WaitingInput, LastInputLength, content,
          notify, client, prompt, buffer, host, State, shown,
          unlocked, typed>>

ClientSteps == {"running", "testing", "arming", "waiting", "polling",
                "woken", "returning"}
HostSteps == {"generate", "sending", "cancelRelease", "cancelGive", "answer",
              "release", "give"}

TypeOK ==
    /\ bSuspended \in BOOLEAN
    /\ bCancelInput \in BOOLEAN
    /\ WaitingInput \in Prompt \cup {None}
    /\ LastInputLength \in {-1, 0, 1}
    /\ content \in Prompt \cup {None}
    /\ notify \in Nat
    /\ client \in ClientSteps
    /\ prompt \in Prompt
    /\ buffer \in [Prompt -> Input \cup {NoInput}]
    /\ host \in HostSteps
    /\ State \in {"SendScreen", "WaitForInput"}
    /\ shown \in Prompt \cup {None}
    /\ unlocked \in BOOLEAN
    /\ typed \in Input \cup {NoInput}

Init ==
    /\ bSuspended = FALSE
    /\ bCancelInput = FALSE
    /\ WaitingInput = None
    /\ LastInputLength = 0
    /\ content = None
    /\ notify = 0
    /\ client = "running"
    /\ prompt = N
    /\ buffer = [p \in Prompt |-> NoInput]
    /\ host = "generate"
    /\ State = "SendScreen"
    /\ shown = None
    /\ unlocked = FALSE
    /\ typed = NoInput

--------------------------------------------------------------------------------
(***************************************************************************)
(* The client task.                                                        *)
(***************************************************************************)

\* The client uses the input it got, prints its next screen (or sets the raw
\* stream) and calls ReadInput.
PrintPrompt ==
    /\ client = "running"
    /\ prompt' = IF prompt = N THEN 1 ELSE prompt + 1
    /\ content' = prompt'
    /\ buffer' = [buffer EXCEPT ![prompt'] = NoInput]
    /\ client' = "testing"
    /\ UNCHANGED <<bSuspended, bCancelInput, WaitingInput, LastInputLength,
                   notify, hostVars, terminalVars>>

\* The mutants of this module stand before the definitions they replace: each
\* is a slip of the code that some property below must notice.
ArmOnce ==   \* only the first call names its buffer
    /\ client = "testing"
    /\ ~bSuspended /\ ~bCancelInput
    /\ WaitingInput' = IF WaitingInput = None THEN prompt ELSE WaitingInput
    /\ client' = "arming"
    /\ UNCHANGED <<bSuspended, bCancelInput, LastInputLength, content, notify,
                   prompt, buffer, hostVars, terminalVars>>

\* ReadInput finds the screen free and no cancellation pending: it names its
\* buffer first...
Arm ==
    /\ client = "testing"
    /\ ~bSuspended /\ ~bCancelInput
    /\ WaitingInput' = prompt
    /\ client' = "arming"
    /\ UNCHANGED <<bSuspended, bCancelInput, LastInputLength, content, notify,
                   prompt, buffer, hostVars, terminalVars>>

SuspendForgotten ==   \* bSuspended is not set
    /\ client = "arming"
    /\ client' = "waiting"
    /\ UNCHANGED <<screenVars, prompt, buffer, hostVars, terminalVars>>

\* ... and then hands the screen over.
Suspend ==
    /\ client = "arming"
    /\ bSuspended' = TRUE
    /\ client' = "waiting"
    /\ UNCHANGED <<bCancelInput, WaitingInput, LastInputLength, content,
                   notify, prompt, buffer, hostVars, terminalVars>>

\* Called again after a timeout: the prompt is out already, or being withdrawn.
KeepArmed ==
    /\ client = "testing"
    /\ bSuspended \/ bCancelInput
    /\ client' = "waiting"
    /\ UNCHANGED <<screenVars, prompt, buffer, hostVars, terminalVars>>

TakeWithoutClearing ==   \* the notification count is left as it is
    /\ client = "waiting"
    /\ notify > 0
    /\ client' = "woken"
    /\ UNCHANGED <<screenVars, prompt, buffer, hostVars, terminalVars>>

\* ulTaskNotifyTake(pdTRUE, ...) returns at once if notified, and clears the count.
Take ==
    /\ client = "waiting"
    /\ notify > 0
    /\ notify' = 0
    /\ client' = "woken"
    /\ UNCHANGED <<bSuspended, bCancelInput, WaitingInput, LastInputLength,
                   content, prompt, buffer, hostVars, terminalVars>>

\* ReadInput returns -1: the client looks whether its peer sent something.
TimeOut ==
    /\ Cancels
    /\ client = "waiting"
    /\ notify = 0
    /\ client' = "polling"
    /\ UNCHANGED <<screenVars, prompt, buffer, hostVars, terminalVars>>

\* Nothing there (or already cancelled): it calls ReadInput again.
ReadAgain ==
    /\ client = "polling"
    /\ client' = "testing"
    /\ UNCHANGED <<screenVars, prompt, buffer, hostVars, terminalVars>>

\* The peer sent data: the prompt is to be withdrawn.
CancelInput ==
    /\ client = "polling"
    /\ bCancelInput' = TRUE
    /\ client' = "testing"
    /\ UNCHANGED <<bSuspended, WaitingInput, LastInputLength, content, notify,
                   prompt, buffer, hostVars, terminalVars>>

ClearCancelForgotten ==   \* bCancelInput stays set
    /\ client = "woken"
    /\ client' = "returning"
    /\ UNCHANGED <<screenVars, prompt, buffer, hostVars, terminalVars>>

\* ReadInput after the notification: the request for cancellation is dropped...
ClearCancel ==
    /\ client = "woken"
    /\ bCancelInput' = FALSE
    /\ client' = "returning"
    /\ UNCHANGED <<bSuspended, WaitingInput, LastInputLength, content, notify,
                   prompt, buffer, hostVars, terminalVars>>

\* ... and LastInputLength says whether the prompt was cancelled or answered.
\* The echo of the input is part of what the client prints.
Return ==
    /\ client = "returning"
    /\ client' = "running"
    /\ UNCHANGED <<screenVars, prompt, buffer, hostVars, terminalVars>>

--------------------------------------------------------------------------------
(***************************************************************************)
(* MessageTask.  It is at "generate" when it calls GenerateNewPackets.     *)
(***************************************************************************)

SerializeAtOnce ==   \* the screen is read without waiting for bSuspended
    /\ host = "generate"
    /\ State = "SendScreen"
    /\ host' = "sending"
    /\ UNCHANGED <<State, screenVars, clientVars, terminalVars>>

\* SerializeScreen3270 spins until the client has handed the screen over.
\* From here until all packets are sent, MessageTask reads the screen: Packets
\* point into RawStream when the client set one.
SerializeScreen3270 ==
    /\ host = "generate"
    /\ State = "SendScreen"
    /\ bSuspended
    /\ host' = "sending"
    /\ UNCHANGED <<State, screenVars, clientVars, terminalVars>>

\* The last packet of the screen is out; it unlocks the keyboard.
SendScreen ==
    /\ host = "sending"
    /\ shown' = content
    /\ unlocked' = TRUE
    /\ State' = "WaitForInput"
    /\ host' = "answer"
    /\ UNCHANGED <<typed, screenVars, clientVars>>

\* A poll for a response that is owed, or after a damaged frame.
PollForResponse ==
    /\ host = "generate"
    /\ host' = "answer"
    /\ UNCHANGED <<State, screenVars, clientVars, terminalVars>>

\* A poll for the user's input.  ShouldCancelInput finds nothing to cancel.
PollForInput ==
    /\ host = "generate"
    /\ State = "WaitForInput"
    /\ ~bCancelInput
    /\ host' = "answer"
    /\ UNCHANGED <<State, screenVars, clientVars, terminalVars>>

(***************************************************************************)
(* Releasing the client takes two steps, in this order: bSuspended is      *)
(* cleared, then the notification is given.                                *)
(***************************************************************************)
Release(step, next) ==
    /\ host = step
    /\ bSuspended' = FALSE
    /\ host' = next
    /\ UNCHANGED <<LastInputLength, notify, State, buffer, typed>>

Give(step, next) ==
    /\ host = step
    /\ notify' = notify + 1
    /\ host' = next
    /\ UNCHANGED <<LastInputLength, bSuspended, State, buffer, typed>>

\* A poll for the user's input is built, and ShouldCancelInput finds a request
\* to withdraw the prompt; the poll is sent after that.
FoundCancel ==
    /\ host = "generate"
    /\ State = "WaitForInput"
    /\ bCancelInput
    /\ LastInputLength' = -1
    /\ State' = "SendScreen"
    /\ host' = "cancelRelease"
    /\ UNCHANGED <<bSuspended, notify, buffer, typed>>

CancelGivesFirst ==   \* the client is woken before bSuspended is cleared
    \/ FoundCancel
    \/ Give("cancelRelease", "cancelGive")
    \/ Release("cancelGive", "answer")

ShouldCancelInput ==
    \/ FoundCancel
    \/ Release("cancelRelease", "cancelGive")
    \/ Give("cancelGive", "answer")

CancelPrompt ==
    /\ ShouldCancelInput
    /\ UNCHANGED <<bCancelInput, WaitingInput, content, client, prompt, shown,
                   unlocked>>

\* The answer to the poll brings no input (or none arrives).
NoAnswer ==
    /\ host = "answer"
    /\ host' = "generate"
    /\ UNCHANGED <<State, screenVars, clientVars, terminalVars>>

CountTerminator ==   \* the length counts the terminator too
    /\ typed' = NoInput
    /\ buffer' = [buffer EXCEPT ![WaitingInput] = typed]
    /\ LastInputLength' = typed.length + 1
    /\ State' = "SendScreen"
    /\ host' = "release"
    /\ UNCHANGED <<bSuspended, notify>>

\* The answer is a request with change of direction: Process3270Reply copies
\* the input it carries.  The State goes through Respond and Respond2, back to
\* SendScreen.
StoreInput ==
    /\ typed' = NoInput
    /\ buffer' = [buffer EXCEPT ![WaitingInput] = typed]
    /\ LastInputLength' = typed.length
    /\ State' = "SendScreen"
    /\ host' = "release"
    /\ UNCHANGED <<bSuspended, notify>>

CopyInput ==
    /\ host = "answer"
    /\ typed # NoInput
    /\ StoreInput

ReplyGivesFirst ==   \* the client is woken before bSuspended is cleared
    \/ CopyInput
    \/ Give("release", "give")
    \/ Release("give", "generate")

ReplyIgnoresEmptyInput ==   \* an empty input does not wake the client
    \/ CopyInput
    \/ LastInputLength > 0 /\ Release("release", "give")
    \/ LastInputLength = 0 /\ Release("release", "generate")
    \/ Give("give", "generate")

\* Process3270Reply: then it releases the screen and wakes the client.
Process3270Reply ==
    \/ CopyInput
    \/ Release("release", "give")
    \/ Give("give", "generate")

DeliverInput ==
    /\ Process3270Reply
    /\ UNCHANGED <<bCancelInput, WaitingInput, content, client, prompt, shown,
                   unlocked>>

--------------------------------------------------------------------------------
\* The user ends an input with ENTER or a function key; that locks the keyboard.
UserEnters(length) ==
    /\ unlocked
    /\ typed = NoInput
    /\ typed' = [at |-> shown, length |-> length]
    /\ unlocked' = FALSE
    /\ UNCHANGED <<shown, screenVars, clientVars, hostVars>>

ClientNext == \/ PrintPrompt \/ Arm \/ Suspend \/ KeepArmed \/ Take \/ TimeOut
              \/ ReadAgain \/ CancelInput \/ ClearCancel \/ Return
HostNext == \/ SerializeScreen3270 \/ SendScreen \/ PollForResponse
            \/ PollForInput \/ CancelPrompt \/ NoAnswer \/ DeliverInput
Next == ClientNext \/ HostNext \/ \E length \in {0, 1} : UserEnters(length)

Spec == Init /\ [][Next]_vars

(***************************************************************************)
(* FreeRTOS runs both tasks, so each goes on whenever it can.  A poll that *)
(* looks for cancellation or input comes again and again, and a terminal   *)
(* that is polled again and again gets its input through: the line does    *)
(* not damage every frame.  The user owes nothing.                         *)
(***************************************************************************)
Fairness ==
    /\ WF_vars(PrintPrompt) /\ WF_vars(Arm) /\ WF_vars(Suspend) /\ WF_vars(KeepArmed)
    /\ WF_vars(Take) /\ WF_vars(ClearCancel) /\ WF_vars(Return)
    /\ WF_vars(ReadAgain \/ CancelInput)
    /\ SF_vars(SerializeScreen3270) /\ WF_vars(SendScreen)
    /\ SF_vars(CancelPrompt) /\ SF_vars(DeliverInput)
    /\ WF_vars(HostNext)

FairSpec == Spec /\ Fairness

--------------------------------------------------------------------------------
(***************************************************************************)
(* Properties of every client.                                             *)
(***************************************************************************)

\* A client that waits and has not been notified will be: its prompt is still
\* out, or MessageTask is between releasing the screen and waking the client.
\* ReadInput and the two functions that end it (Screen.cpp 111-160, 307-344)
\* share no lock, so this is all that keeps a client from sleeping for ever.
NoLostWakeup ==
    client = "waiting" /\ notify = 0 =>
        bSuspended \/ host \in {"cancelGive", "give"}

\* A request to cancel a prompt completes, whatever the user does meanwhile.
CancelCompletes == bCancelInput ~> (client = "running" /\ ~bCancelInput)

(***************************************************************************)
(* Properties of a client that waits without a timeout.                    *)
(***************************************************************************)

\* A notification is never left over for a later prompt: it is there only
\* while the client waits for it (Screen.cpp 122, 159, 343).
NoStaleWakeup == notify > 0 => client = "waiting"

\* While MessageTask reads the screen or the raw stream, the client is inside
\* ReadInput and writes neither (Screen.cpp 219-222).
ScreenOwnership == host = "sending" => client = "waiting"

\* What ReadInput returns to a prompt was typed at that prompt's screen, and
\* the length returned is that input's (Screen.cpp 142).
AnswerIsForPrompt ==
    client = "returning" =>
        /\ buffer[prompt].at = prompt
        /\ buffer[prompt].length = LastInputLength

\* An input is stored only in the buffer of a client that is waiting for it:
\* never in one that its owner uses again (Screen.cpp 311, 339).
InputHasTaker ==
    [][host = "answer" /\ host' = "release" =>
         client = "waiting" /\ WaitingInput = prompt]_vars

\* Every prompt reaches the terminal.
PromptIsShown ==
    \A p \in Prompt : (prompt = p /\ client = "testing") ~> (shown = p)

\* Every input the user ends, an empty one too, is returned to the client.
InputIsReturned ==
    \A p \in Prompt :
        (typed.at = p) ~> (client = "running" /\ buffer[p].at = p)

\* The hand-off implements the abstract exchange of prompts and answers.
Answers == INSTANCE Prompting WITH
    Length <- {0, 1},
    NoAnswer <- NoInput,
    owner <- IF client \in {"arming", "waiting"} THEN "terminal" ELSE "client",
    current <- WaitingInput,
    answer <- IF typed # NoInput THEN typed
              ELSE IF WaitingInput = None THEN NoInput
              ELSE buffer[WaitingInput]

ImplementsPrompting == Answers!Spec

(***************************************************************************)
(* Properties that a client that times out and cancels would like, and     *)
(* that the code does not give it (see the findings).                      *)
(***************************************************************************)

\* ReadInput returned 0, "Successfully cancelled" (Screen.cpp 128): that prompt
\* takes no input any more.
CancelledPromptIsOver ==
    [][host = "answer" /\ host' = "release" =>
         ~(client = "running" /\ LastInputLength = -1)]_vars

\* ReadInput returned -1, "Give not happened yet (timeout)" (Screen.cpp 123):
\* when the client comes back it does not hand the screen over a second time
\* for a prompt that has been answered.
NotAskedAgainOnceAnswered ==
    [][client = "testing" /\ client' = "arming" => notify = 0]_vars

================================================================================
