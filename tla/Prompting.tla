------------------------------- MODULE Prompting -------------------------------
(***************************************************************************)
(* What the hand-off of ScreenInput.tla promises to a client that waits    *)
(* without a timeout: the client and the terminal own the screen in turn,  *)
(* and each prompt is returned with one answer, the one the user typed at  *)
(* that prompt.                                                            *)
(***************************************************************************)
EXTENDS Naturals

CONSTANTS Prompt,      \* names of prompts
          Length,      \* lengths of an input
          NoAnswer     \* an answer not given yet

VARIABLES owner,       \* who may use the screen: "client" or "terminal"
          current,     \* the prompt handed over last
          answer       \* what the user typed at it

vars == <<owner, current, answer>>

Init ==
    /\ owner = "client"
    /\ current \notin Prompt
    /\ answer = NoAnswer

\* The client hands its screen over with a prompt.
Ask(p) ==
    /\ owner = "client"
    /\ owner' = "terminal"
    /\ current' = p
    /\ answer' = NoAnswer

\* The user answers the prompt on display.
Answer(length) ==
    /\ owner = "terminal"
    /\ answer = NoAnswer
    /\ answer' = [at |-> current, length |-> length]
    /\ UNCHANGED <<owner, current>>

\* The client gets the answer and the screen back.
GetAnswer ==
    /\ owner = "terminal"
    /\ answer # NoAnswer
    /\ owner' = "client"
    /\ UNCHANGED <<current, answer>>

Next == \/ \E p \in Prompt \ {current} : Ask(p)
        \/ \E length \in Length : Answer(length)
        \/ GetAnswer

Spec == Init /\ [][Next]_vars

================================================================================
