--------------------------- MODULE ScreenInput_proofs ---------------------------
(***************************************************************************)
(* Proofs about the hand-off of ScreenInput.tla, for any number of prompts.*)
(***************************************************************************)
EXTENDS ScreenInput, TLAPS

--------------------------------------------------------------------------------
(***************************************************************************)
(* Type correctness.  A screen is displayed, and typed at, only once the   *)
(* client has printed one.                                                 *)
(***************************************************************************)

TypeInv ==
    /\ TypeOK
    /\ unlocked => shown \in Prompt
    /\ content = None => client = "running" /\ ~bSuspended /\ host # "sending"

LEMMA TypeInvStep == TypeInv /\ [Next]_vars => TypeInv'
<1> SUFFICES ASSUME TypeInv, [Next]_vars PROVE TypeInv'
  OBVIOUS
<1> USE NAssumption DEF TypeInv, TypeOK, Prompt, Input, NoInput, None,
        ClientSteps, HostSteps
<1>1. CASE PrintPrompt
  <2>1. prompt' \in Prompt
    BY <1>1 DEF PrintPrompt
  <2>2. QED BY <1>1, <2>1 DEF PrintPrompt, hostVars, terminalVars
<1>2. CASE Arm
  BY <1>2 DEF Arm, hostVars, terminalVars
<1>3. CASE Suspend
  BY <1>3 DEF Suspend, hostVars, terminalVars
<1>4. CASE KeepArmed
  BY <1>4 DEF KeepArmed, screenVars, hostVars, terminalVars
<1>5. CASE Take
  BY <1>5 DEF Take, hostVars, terminalVars
<1>6. CASE TimeOut
  BY <1>6 DEF TimeOut, screenVars, hostVars, terminalVars
<1>7. CASE ReadAgain
  BY <1>7 DEF ReadAgain, screenVars, hostVars, terminalVars
<1>8. CASE CancelInput
  BY <1>8 DEF CancelInput, hostVars, terminalVars
<1>9. CASE ClearCancel
  BY <1>9 DEF ClearCancel, hostVars, terminalVars
<1>10. CASE Return
  BY <1>10 DEF Return, screenVars, hostVars, terminalVars
<1>11. CASE SerializeScreen3270
  BY <1>11 DEF SerializeScreen3270, screenVars, clientVars, terminalVars
<1>12. CASE SendScreen
  BY <1>12 DEF SendScreen, screenVars, clientVars
<1>13. CASE PollForResponse
  BY <1>13 DEF PollForResponse, screenVars, clientVars, terminalVars
<1>14. CASE PollForInput
  BY <1>14 DEF PollForInput, screenVars, clientVars, terminalVars
<1>15. CASE CancelPrompt
  <2>1. CASE FoundCancel
    BY <1>15, <2>1 DEF CancelPrompt, FoundCancel
  <2>2. CASE Release("cancelRelease", "cancelGive")
    BY <1>15, <2>2 DEF CancelPrompt, Release
  <2>3. CASE Give("cancelGive", "answer")
    BY <1>15, <2>3 DEF CancelPrompt, Give
  <2> QED
    BY <1>15, <2>1, <2>2, <2>3 DEF CancelPrompt, ShouldCancelInput
<1>16. CASE NoAnswer
  BY <1>16 DEF NoAnswer, screenVars, clientVars, terminalVars
<1>17. CASE DeliverInput
  <2>1. CASE CopyInput
    BY <1>17, <2>1 DEF DeliverInput, CopyInput, StoreInput
  <2>2. CASE Release("release", "give")
    BY <1>17, <2>2 DEF DeliverInput, Release
  <2>3. CASE Give("give", "generate")
    BY <1>17, <2>3 DEF DeliverInput, Give
  <2> QED
    BY <1>17, <2>1, <2>2, <2>3 DEF DeliverInput, Process3270Reply
<1>18. CASE \E length \in {0, 1} : UserEnters(length)
  <2> PICK length \in {0, 1} : UserEnters(length)
    BY <1>18
  <2>1. shown \in Prompt
    BY DEF UserEnters
  <2>2. typed' \in Input
    BY <2>1 DEF UserEnters
  <2> QED
    BY <2>1, <2>2 DEF UserEnters, screenVars, clientVars, hostVars
<1>19. CASE UNCHANGED vars
  BY <1>19 DEF vars
<1> QED
  BY <1>1, <1>2, <1>3, <1>4, <1>5, <1>6, <1>7, <1>8, <1>9, <1>10, <1>11,
     <1>12, <1>13, <1>14, <1>15, <1>16, <1>17, <1>18, <1>19
     DEF Next, ClientNext, HostNext

\* Every variable keeps its type.
THEOREM TypeCorrect == Spec => []TypeOK
<1>1. ASSUME Init PROVE TypeInv
  <2>1. N \in Prompt
    BY NAssumption DEF Prompt
  <2>2. TypeOK
    BY <1>1, <2>1 DEF Init, TypeOK, None, ClientSteps, HostSteps
  <2> QED
    BY <1>1, <2>2 DEF Init, TypeInv
<1>2. TypeInv => TypeOK
  BY DEF TypeInv
<1> QED
  BY <1>1, <1>2, TypeInvStep, PTL DEF Spec

--------------------------------------------------------------------------------
(***************************************************************************)
(* No lost wake-up, whether or not the client cancels.                     *)
(*                                                                         *)
(* The property alone is not inductive: a client that timed out comes back *)
(* to waiting without handing the screen over when it has cancelled, so    *)
(* the promise of a wake-up must also hold while it looks at its peer, and *)
(* while it calls ReadInput again with the cancellation pending.  A prompt *)
(* that has not been handed over yet has no cancellation pending.          *)
(***************************************************************************)

WakeupPromised == notify > 0 \/ bSuspended \/ host \in {"cancelGive", "give"}

WakeupInv ==
    /\ client \in {"waiting", "polling"} => WakeupPromised
    /\ client = "testing" /\ bCancelInput => WakeupPromised
    /\ client \in {"returning", "running", "arming"} => ~bCancelInput

LEMMA WakeupInvStep == TypeOK /\ WakeupInv /\ [Next]_vars => WakeupInv'
<1> SUFFICES ASSUME TypeOK, WakeupInv, [Next]_vars PROVE WakeupInv'
  OBVIOUS
<1> USE DEF WakeupInv, WakeupPromised
<1>1. CASE PrintPrompt
  BY <1>1 DEF PrintPrompt, hostVars
<1>2. CASE Arm
  BY <1>2 DEF Arm, hostVars
<1>3. CASE Suspend
  BY <1>3 DEF Suspend, hostVars
<1>4. CASE KeepArmed
  BY <1>4 DEF KeepArmed, screenVars, hostVars
<1>5. CASE Take
  BY <1>5 DEF Take, hostVars
<1>6. CASE TimeOut
  BY <1>6 DEF TimeOut, screenVars, hostVars
<1>7. CASE ReadAgain
  BY <1>7 DEF ReadAgain, screenVars, hostVars
<1>8. CASE CancelInput
  BY <1>8 DEF CancelInput, hostVars
<1>9. CASE ClearCancel
  BY <1>9 DEF ClearCancel, hostVars
<1>10. CASE Return
  BY <1>10 DEF Return, screenVars, hostVars
<1>11. CASE HostNext
  <2>1. ASSUME NEW step, NEW next, Release(step, next),
               next \in {"cancelGive", "give"},
               UNCHANGED <<client, bCancelInput>>
        PROVE  WakeupInv'
    BY <2>1 DEF Release
  <2>2. ASSUME NEW step, NEW next, Give(step, next),
               UNCHANGED <<client, bCancelInput>>
        PROVE  WakeupInv'
    BY <2>2 DEF Give, TypeOK
  <2>3. CASE CancelPrompt
    <3>1. CASE FoundCancel
      BY <2>3, <3>1 DEF CancelPrompt, FoundCancel
    <3> QED
      BY <2>1, <2>2, <2>3, <3>1 DEF CancelPrompt, ShouldCancelInput
  <2>4. CASE DeliverInput
    <3>1. CASE CopyInput
      BY <2>4, <3>1 DEF DeliverInput, CopyInput, StoreInput
    <3> QED
      BY <2>1, <2>2, <2>4, <3>1 DEF DeliverInput, Process3270Reply
  <2>5. CASE SerializeScreen3270 \/ SendScreen \/ PollForResponse
             \/ PollForInput \/ NoAnswer
    BY <2>5 DEF SerializeScreen3270, SendScreen, PollForResponse, PollForInput,
       NoAnswer, screenVars, clientVars
  <2> QED
    BY <1>11, <2>3, <2>4, <2>5 DEF HostNext
<1>12. CASE \E length \in {0, 1} : UserEnters(length)
  BY <1>12 DEF UserEnters, screenVars, clientVars, hostVars
<1>13. CASE UNCHANGED vars
  BY <1>13 DEF vars
<1> QED
  BY <1>1, <1>2, <1>3, <1>4, <1>5, <1>6, <1>7, <1>8, <1>9, <1>10, <1>11,
     <1>12, <1>13 DEF Next, ClientNext

\* A waiting client is always promised a wake-up, for any number of prompts and
\* whether or not the client cancels (Screen.cpp 111-160, 307-344).
THEOREM NoWakeupIsLost == Spec => []NoLostWakeup
<1>1. Init => WakeupInv
  BY DEF Init, WakeupInv
<1>2. WakeupInv => NoLostWakeup
  BY DEF WakeupInv, WakeupPromised, NoLostWakeup
<1> QED
  BY <1>1, <1>2, TypeCorrect, WakeupInvStep, PTL DEF Spec

--------------------------------------------------------------------------------
(***************************************************************************)
(* A client that waits without a timeout (~Cancels) never meets a stale    *)
(* notification, never loses the screen while it uses it, and gets its own *)
(* answers.  The proof follows one prompt round: it is handed over         *)
(* (bSuspended), displayed, typed at, stored, released and given, taken.   *)
(***************************************************************************)

\* The prompt has been handed over and its answer is not stored yet.
Open == bSuspended /\ host # "release"

\* The prompt's answer is stored and the client has not used it yet.
Stored == host \in {"release", "give"} \/ notify > 0
          \/ client \in {"woken", "returning"}

\* Nothing but the client acts on a prompt that is not handed over.
NoCancel ==
    /\ ~bCancelInput
    /\ client # "polling"
    /\ host \notin {"cancelRelease", "cancelGive"}

\* The client waits while its prompt is out, until it is notified once.
HandOver ==
    /\ bSuspended => client = "waiting" /\ notify = 0 /\ host # "give"
    /\ notify > 0 => client = "waiting" /\ host \notin {"release", "give"}
    /\ host \in {"sending", "release"} => bSuspended
    /\ host = "give" => client = "waiting" /\ notify = 0

\* The terminal shows a prompt that is open, and sends input typed at it.
Display ==
    /\ State = "WaitForInput" => Open /\ shown = prompt
    /\ host = "sending" => State = "SendScreen"
    /\ unlocked => State = "WaitForInput"
    /\ typed # NoInput => State = "WaitForInput" /\ ~unlocked
                          /\ typed.at = prompt

\* The buffer that an answer goes to is the one of the prompt that waits.
Buffers ==
    /\ client \in {"arming", "waiting"} => WaitingInput = prompt
    /\ client \in {"testing", "arming", "waiting"} => content = prompt
    /\ client = "testing" => WaitingInput # prompt
    /\ client \notin {"testing", "arming", "waiting"} =>
          WaitingInput \in {prompt, None}
    /\ Open \/ client = "arming" => buffer[prompt] = NoInput
    /\ client = "testing" => buffer[prompt] = NoInput
    /\ Stored => /\ buffer[prompt].at = prompt
                 /\ buffer[prompt].length = LastInputLength

BlockingInv == TypeInv /\ NoCancel /\ HandOver /\ Display /\ Buffers

LEMMA BlockingInvStep ==
    ASSUME ~Cancels, BlockingInv, [Next]_vars
    PROVE  BlockingInv'
<1>0. TypeInv'
  BY TypeInvStep DEF BlockingInv
<1> USE DEF BlockingInv, TypeInv, TypeOK, NoCancel, HandOver, Display, Buffers,
        Open, Stored
<1>1. CASE PrintPrompt
  <2>1. prompt' \in Prompt /\ prompt' # prompt
    BY <1>1, NAssumption DEF PrintPrompt, Prompt
  <2>2. WaitingInput # prompt'
    BY <1>1, <2>1, NAssumption DEF PrintPrompt, Prompt, None
  <2>3. buffer'[prompt'] = NoInput
    BY <1>1, <2>1 DEF PrintPrompt
  <2> QED
    BY <1>0, <1>1, <2>1, <2>2, <2>3 DEF PrintPrompt, hostVars, terminalVars
<1>2. CASE Arm
  BY <1>0, <1>2 DEF Arm, hostVars, terminalVars
<1>3. CASE Suspend
  BY <1>0, <1>3 DEF Suspend, hostVars, terminalVars
<1>4. CASE KeepArmed
  BY <1>0, <1>4 DEF KeepArmed, screenVars, hostVars, terminalVars
<1>5. CASE Take
  BY <1>0, <1>5 DEF Take, hostVars, terminalVars
<1>6. CASE ClearCancel
  BY <1>0, <1>6 DEF ClearCancel, hostVars, terminalVars
<1>7. CASE Return
  BY <1>0, <1>7 DEF Return, screenVars, hostVars, terminalVars
<1>8. CASE TimeOut \/ ReadAgain \/ CancelInput
  BY <1>8 DEF TimeOut, ReadAgain, CancelInput
<1>9. CASE SerializeScreen3270
  BY <1>0, <1>9 DEF SerializeScreen3270, screenVars, clientVars, terminalVars
<1>10. CASE SendScreen
  BY <1>0, <1>10 DEF SendScreen, screenVars, clientVars
<1>11. CASE PollForResponse
  BY <1>0, <1>11 DEF PollForResponse, screenVars, clientVars, terminalVars
<1>12. CASE PollForInput
  BY <1>0, <1>12 DEF PollForInput, screenVars, clientVars, terminalVars
<1>13. CASE NoAnswer
  BY <1>0, <1>13 DEF NoAnswer, screenVars, clientVars, terminalVars
<1>14. CASE CancelPrompt
  BY <1>14 DEF CancelPrompt, ShouldCancelInput, FoundCancel, Release, Give
<1>15. CASE DeliverInput
  <2>1. CASE CopyInput
    <3>1. bSuspended /\ client = "waiting" /\ WaitingInput = prompt
      BY <2>1 DEF CopyInput
    <3>2. buffer'[prompt] = typed
      BY <2>1, <3>1 DEF CopyInput, StoreInput
    <3> QED
      BY <1>0, <1>15, <2>1, <3>1, <3>2 DEF DeliverInput, CopyInput, StoreInput
  <2>2. CASE Release("release", "give")
    BY <1>0, <1>15, <2>2 DEF DeliverInput, Release
  <2>3. CASE Give("give", "generate")
    BY <1>0, <1>15, <2>3 DEF DeliverInput, Give
  <2> QED
    BY <1>15, <2>1, <2>2, <2>3 DEF DeliverInput, Process3270Reply
<1>16. CASE \E length \in {0, 1} : UserEnters(length)
  BY <1>0, <1>16 DEF UserEnters, screenVars, clientVars, hostVars
<1>17. CASE UNCHANGED vars
  BY <1>0, <1>17 DEF vars
<1> QED
  BY <1>1, <1>2, <1>3, <1>4, <1>5, <1>6, <1>7, <1>8, <1>9, <1>10, <1>11, <1>12, <1>13, <1>14, <1>15, <1>16, <1>17
     DEF Next, ClientNext, HostNext

LEMMA BlockingInvHolds == ASSUME ~Cancels PROVE Spec => []BlockingInv
<1>1. ASSUME Init PROVE BlockingInv
  <2>1. N \in Prompt
    BY NAssumption DEF Prompt
  <2>2. TypeOK
    BY <1>1, <2>1 DEF Init, TypeOK, None, ClientSteps, HostSteps
  <2> QED
    BY <1>1, <2>2 DEF Init, BlockingInv, TypeInv, NoCancel, HandOver, Display,
       Buffers, Open, Stored, None
<1> QED
  BY <1>1, BlockingInvStep, PTL DEF Spec

\* A client that waits without a timeout is never woken by a notification left
\* over from another prompt (Screen.cpp 122, 343).
THEOREM NoWakeupIsStale == ASSUME ~Cancels PROVE Spec => []NoStaleWakeup
<1>1. BlockingInv => NoStaleWakeup
  BY DEF BlockingInv, HandOver, NoStaleWakeup
<1> QED
  BY <1>1, BlockingInvHolds, PTL

\* Its screen is read only while it is inside ReadInput (Screen.cpp 219-222).
THEOREM ScreenHasOneOwner == ASSUME ~Cancels PROVE Spec => []ScreenOwnership
<1>1. BlockingInv => ScreenOwnership
  BY DEF BlockingInv, HandOver, ScreenOwnership
<1> QED
  BY <1>1, BlockingInvHolds, PTL

\* What its ReadInput returns was typed at the prompt it was called for
\* (Screen.cpp 142, 307-344).
THEOREM AnswersMatchPrompts == ASSUME ~Cancels PROVE Spec => []AnswerIsForPrompt
<1>1. BlockingInv => AnswerIsForPrompt
  BY DEF BlockingInv, Buffers, Stored, AnswerIsForPrompt
<1> QED
  BY <1>1, BlockingInvHolds, PTL

\* Its buffer is written only while it waits (Screen.cpp 311, 339).
THEOREM InputsHaveTakers == ASSUME ~Cancels PROVE Spec => InputHasTaker
<1>1. ASSUME BlockingInv, [Next]_vars, host = "answer", host' = "release"
      PROVE  client = "waiting" /\ WaitingInput = prompt
  <2>1. typed # NoInput
    BY <1>1 DEF Next, ClientNext, HostNext, PrintPrompt, Arm, Suspend, KeepArmed,
       Take, TimeOut, ReadAgain, CancelInput, ClearCancel, Return,
       SerializeScreen3270, SendScreen, PollForResponse, PollForInput,
       CancelPrompt, ShouldCancelInput, FoundCancel, NoAnswer, DeliverInput,
       Process3270Reply, CopyInput, Release, Give, UserEnters, hostVars, vars
  <2> QED
    BY <1>1, <2>1 DEF BlockingInv, HandOver, Display, Buffers, Open
<1> QED
  BY <1>1, BlockingInvHolds, PTL DEF Spec, InputHasTaker

--------------------------------------------------------------------------------
(***************************************************************************)
(* The hand-off implements Prompting.tla for a client that waits without a *)
(* timeout: Arm is Ask, UserEnters is Answer, Take is GetAnswer, and every *)
(* other step leaves the abstract state as it is.                          *)
(***************************************************************************)

Owner == IF client \in {"arming", "waiting"} THEN "terminal" ELSE "client"

Answered == IF typed # NoInput THEN typed
            ELSE IF WaitingInput = None THEN NoInput
            ELSE buffer[WaitingInput]

LEMMA AskStep ==
    ASSUME BlockingInv, Arm
    PROVE  \E p \in Prompt \ {WaitingInput} : Answers!Ask(p)
<1>1. prompt \in Prompt \ {WaitingInput}
  BY DEF BlockingInv, TypeInv, TypeOK, Buffers, Arm
<1>2. typed = NoInput /\ buffer[prompt] = NoInput
  BY DEF BlockingInv, HandOver, Display, Buffers, Open, Arm
<1>3. Answers!Ask(prompt)
  BY <1>2 DEF Answers!Ask, Arm, terminalVars
<1> QED
  BY <1>1, <1>3

LEMMA AnswerStep ==
    ASSUME BlockingInv, NEW length \in {0, 1}, UserEnters(length)
    PROVE  Answers!Answer(length)
<1>1. client = "waiting" /\ Open /\ shown = prompt /\ WaitingInput = prompt
  BY DEF BlockingInv, HandOver, Display, Buffers, Open, UserEnters
<1>2. WaitingInput \in Prompt /\ WaitingInput # None
  BY <1>1, NAssumption DEF BlockingInv, TypeInv, TypeOK, Prompt, None
<1>3. typed = NoInput /\ buffer[WaitingInput] = NoInput
  BY <1>1 DEF BlockingInv, Buffers, UserEnters
<1>4. typed' = [at |-> WaitingInput, length |-> length]
  BY <1>1 DEF UserEnters
<1>5. typed' # NoInput
  BY <1>2, <1>4 DEF NoInput
<1> QED
  BY <1>1, <1>3, <1>4, <1>5
     DEF Answers!Answer, UserEnters, clientVars, screenVars

LEMMA GetAnswerStep ==
    ASSUME BlockingInv, Take
    PROVE  Answers!GetAnswer
<1>1. typed = NoInput /\ WaitingInput = prompt /\ Stored
  BY DEF BlockingInv, HandOver, Display, Buffers, Open, Stored, TypeInv,
     TypeOK, Take
<1>2. WaitingInput # None /\ buffer[WaitingInput] # NoInput
  BY <1>1, NAssumption
     DEF BlockingInv, TypeInv, TypeOK, Buffers, Prompt, None, NoInput
<1> QED
  BY <1>1, <1>2 DEF Answers!GetAnswer, Take, terminalVars

LEMMA PromptingStep ==
    ASSUME ~Cancels, BlockingInv, [Next]_vars
    PROVE  [Answers!Next]_<<Owner, WaitingInput, Answered>>
<1>1. CASE Arm
  BY <1>1, AskStep DEF Answers!Next
<1>2. CASE Take
  BY <1>2, GetAnswerStep DEF Answers!Next
<1>3. CASE \E length \in {0, 1} : UserEnters(length)
  BY <1>3, AnswerStep DEF Answers!Next
<1>4. CASE PrintPrompt
  <2>1. prompt' \in Prompt /\ prompt' # prompt
    BY <1>4, NAssumption DEF PrintPrompt, Prompt, BlockingInv, TypeInv, TypeOK
  <2>2. WaitingInput # prompt'
    BY <1>4, <2>1, NAssumption DEF PrintPrompt, Prompt, None, BlockingInv, Buffers
  <2> QED
    BY <1>4, <2>2 DEF PrintPrompt, Owner, Answered, terminalVars, BlockingInv,
       TypeInv, TypeOK
<1>5. CASE Suspend \/ KeepArmed \/ ClearCancel \/ Return
  BY <1>5 DEF Suspend, KeepArmed, ClearCancel, Return, Owner, Answered,
     screenVars, terminalVars, BlockingInv, HandOver, NoCancel
<1>6. CASE TimeOut \/ ReadAgain \/ CancelInput
  BY <1>6 DEF TimeOut, ReadAgain, CancelInput, BlockingInv, NoCancel
<1>7. CASE SerializeScreen3270 \/ SendScreen \/ PollForResponse
           \/ PollForInput \/ NoAnswer
  BY <1>7 DEF SerializeScreen3270, SendScreen, PollForResponse, PollForInput,
     NoAnswer, Owner, Answered, screenVars, clientVars, terminalVars
<1>8. CASE CancelPrompt
  BY <1>8 DEF CancelPrompt, ShouldCancelInput, FoundCancel, Release, Give,
     BlockingInv, NoCancel
<1>9. CASE DeliverInput
  <2>1. CASE CopyInput
    <3>1. typed # NoInput /\ WaitingInput = prompt
      BY <2>1 DEF CopyInput, BlockingInv, HandOver, Display, Buffers, Open
    <3>2. WaitingInput \in Prompt /\ WaitingInput # None
      BY <3>1, NAssumption
         DEF BlockingInv, TypeInv, TypeOK, Prompt, None
    <3>3. buffer'[WaitingInput] = typed /\ typed' = NoInput
      BY <2>1, <3>2 DEF CopyInput, StoreInput, BlockingInv, TypeInv, TypeOK
    <3> QED
      BY <1>9, <3>1, <3>2, <3>3 DEF DeliverInput, Owner, Answered
  <2>2. CASE Release("release", "give")
    BY <1>9, <2>2 DEF DeliverInput, Release, Owner, Answered
  <2>3. CASE Give("give", "generate")
    BY <1>9, <2>3 DEF DeliverInput, Give, Owner, Answered
  <2> QED
    BY <1>9, <2>1, <2>2, <2>3 DEF DeliverInput, Process3270Reply
<1>10. CASE UNCHANGED vars
  BY <1>10 DEF vars, Owner, Answered
<1> QED
  BY <1>1, <1>2, <1>3, <1>4, <1>5, <1>6, <1>7, <1>8, <1>9, <1>10
     DEF Next, ClientNext, HostNext

\* For a client that waits without a timeout, ReadInput, SerializeScreen3270 and
\* Process3270Reply implement the exchange of prompts and answers.
THEOREM PromptingImplemented == ASSUME ~Cancels PROVE Spec => ImplementsPrompting
<1>1. Init => Answers!Init
  BY NAssumption DEF Init, Answers!Init, None, Prompt
<1>2. ASSUME BlockingInv, [Next]_vars
      PROVE  [Answers!Next]_(Answers!vars)
  BY <1>2, PromptingStep DEF Answers!vars, Owner, Answered
<1> QED
  BY <1>1, <1>2, BlockingInvHolds, PTL
     DEF Spec, ImplementsPrompting, Answers!Spec

================================================================================
