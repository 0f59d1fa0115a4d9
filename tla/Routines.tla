------------------------------- MODULE Routines --------------------------------
(***************************************************************************)
(* What a game relies on when it calls routines and is saved: each call    *)
(* has locals and an evaluation stack of its own, its callers are left     *)
(* alone while it runs, its result goes where the caller wants it, and a   *)
(* game that is restored goes on as it was when it was saved.              *)
(***************************************************************************)
EXTENDS Integers, Sequences

CONSTANTS
    Variables,  \* their numbers: 0 the running call's stack, 1..15 its locals, from
                \* 16 the globals
    Value       \* what they may hold

VARIABLES
    frames,   \* the calls, the running one last: [back, store, args, locals, stack]
    globals,  \* from their numbers to values
    pc,       \* where the game goes on
    saved     \* the game that was saved: [frames, globals, pc], or <<>>
vars == <<frames, globals, pc, saved>>

Game == [frames |-> frames, globals |-> globals]
Deep == Len(frames)

\* Whether the running one of the calls fs has this variable.
Knows(fs, var) == var \in 1..15 => var \in DOMAIN fs[Len(fs)].locals

\* The calls fs, of which the last one gets value in var, if that is not a global.
Deliver(fs, var, value) ==
    CASE var = 0 -> [fs EXCEPT ![Len(fs)].stack = Append(@, value)]
      [] var \in 1..15 -> [fs EXCEPT ![Len(fs)].locals[var] = value]
      [] OTHER -> fs

\* The main program runs; a game may have been saved before.
Init ==
    frames = <<[back |-> 0, store |-> 0, args |-> 0, locals |-> <<>>,
                stack |-> <<>>]>>

\* What a call is given, and keeps.
Given(f) == <<f.back, f.store, f.args, Len(f.locals)>>

\* An instruction of the running call: its callers are left alone.
Work ==
    LET old == frames
        new == frames'
        n == Len(old)
    IN /\ Len(new) = n
       /\ SubSeq(new, 1, n - 1) = SubSeq(old, 1, n - 1)
       /\ Given(new[n]) = Given(old[n])
       /\ saved' = saved

\* A call takes its operands, from the caller's stack too, and begins with a stack
\* that is empty.
Enter ==
    LET old == frames
        new == frames'
        n == Len(old)
    IN /\ Len(new) = n + 1
       /\ \E left \in 0..Len(old[n].stack) :
             SubSeq(new, 1, n) = [old EXCEPT ![n].stack = SubSeq(@, 1, left)]
       /\ new[n + 1].stack = <<>>
       /\ UNCHANGED <<globals, saved>>

\* Call number n of game ends, and with it those that it made: its result goes
\* to its caller.  (The instruction may have set a global first.)
Ends(game, n) ==
    LET ended == game.frames[n] IN
    /\ n > 1 /\ Len(frames') = n - 1
    /\ \E value \in Value :
          /\ frames' = Deliver(SubSeq(game.frames, 1, n - 1), ended.store, value)
          /\ ended.store > 15 => globals'[ended.store] = value
    /\ pc' = ended.back

Leave == saved' = saved /\ \E n \in 1..Deep : Ends(Game, n)

\* Game goes on after it was saved: it learns of that from a variable, or by going
\* on at another place, or by a return.
GoesOn(game, at) ==
    \/ /\ \E var \in {v \in Variables : Knows(game.frames, v)}, value \in Value :
             /\ frames' = Deliver(game.frames, var, value)
             /\ var > 15 => globals' = [game.globals EXCEPT ![var] = value]
             /\ var <= 15 => globals' = game.globals
       /\ pc' = at
    \/ Game' = game /\ pc' = at
    \/ Ends(game, Len(game.frames))

Save ==
    /\ saved'.frames = frames
    /\ saved'.globals = globals
    /\ GoesOn(Game, saved'.pc)

Restore ==
    /\ saved # <<>>
    /\ GoesOn([frames |-> saved.frames, globals |-> saved.globals], saved.pc)
    /\ saved' = saved

Next == Work \/ Enter \/ Leave \/ (saved' # <<>> /\ Save) \/ Restore

Spec == Init /\ [][Next]_vars

=============================================================================
