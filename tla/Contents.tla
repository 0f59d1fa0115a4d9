-------------------------------- MODULE Contents --------------------------------
(***************************************************************************)
(* What the object tree of a story promises: every object is held by at    *)
(* most one other, and the things an object holds are a list, the one that *)
(* came last in front.                                                     *)
(***************************************************************************)
EXTENDS Naturals, Sequences

CONSTANTS
    Objects,
    Nothing,
    InitialContents

VARIABLES
    contents,   \* for each object, the list of what it holds
    holder      \* for each object, the one that holds it, or Nothing

vars == <<contents, holder>>

Without(list, o) == SelectSeq(list, LAMBDA other : other # o)

HolderIn(lists, o) ==
    IF \E p \in Objects : \E i \in DOMAIN lists[p] : lists[p][i] = o
    THEN CHOOSE p \in Objects : \E i \in DOMAIN lists[p] : lists[p][i] = o
    ELSE Nothing

Init ==
    /\ contents = InitialContents
    /\ holder = [o \in Objects |-> HolderIn(InitialContents, o)]

Remove(o) ==
    /\ contents' = [p \in Objects |-> Without(contents[p], o)]
    /\ holder' = [holder EXCEPT ![o] = Nothing]

\* An object cannot be put into itself, or into what it holds.
Insert(o, p) ==
    /\ contents' = [q \in Objects |-> IF q = p THEN <<o>> \o Without(contents[q], o)
                                      ELSE Without(contents[q], o)]
    /\ holder' = [holder EXCEPT ![o] = p]

Next ==
    \/ \E o \in Objects : Remove(o)
    \/ \E o, p \in Objects : Insert(o, p)

Spec == Init /\ [][Next]_vars

=============================================================================
