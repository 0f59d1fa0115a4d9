------------------------------- MODULE MCZObjects -------------------------------
(***************************************************************************)
(* A room with a box in it and a player, who holds a lamp.                 *)
(***************************************************************************)
EXTENDS ZObjects

MCInitialTree ==
    [parent |-> <<0, 1, 1, 3>>,
     sibling |-> <<0, 3, 0, 0>>,
     child |-> <<2, 0, 4, 0>>]

=============================================================================
