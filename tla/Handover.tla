-------------------------------- MODULE Handover --------------------------------
(***************************************************************************)
(* What MessageTask relies on when it hands a frame over to be sent        *)
(* (LowLevel.cpp 240-244): the frame goes out once, as it was handed over, *)
(* and MessageTask goes on only then.                                      *)
(***************************************************************************)
EXTENDS Integers, Sequences

VARIABLES
    frame,    \* the name of the frame; two names are used in turn
    handed,   \* it has been handed over and its sender waits
    sent      \* the frames that went out since

Init ==
    /\ frame = 0
    /\ handed = FALSE
    /\ sent = <<>>

Build ==
    /\ ~handed
    /\ frame' = 1 - frame
    /\ sent' = <<>>
    /\ UNCHANGED handed

HandOver ==
    /\ ~handed
    /\ handed' = TRUE
    /\ sent' = <<>>
    /\ UNCHANGED frame

Transmit ==
    /\ handed /\ sent = <<>>
    /\ sent' = <<frame>>
    /\ UNCHANGED <<frame, handed>>

GoOn ==
    /\ handed /\ sent = <<frame>>
    /\ handed' = FALSE
    /\ UNCHANGED <<frame, sent>>

\* The device is switched off and on again.
Restart ==
    /\ frame' = 0
    /\ handed' = FALSE
    /\ sent' = <<>>

Next == Build \/ HandOver \/ Transmit \/ GoOn \/ Restart

Spec == Init /\ [][Next]_<<frame, handed, sent>>

=============================================================================
