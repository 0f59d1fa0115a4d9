-------------------------------- MODULE MCUpdate --------------------------------
(***************************************************************************)
(* An image of two units, one more than the end of the marker's buffer     *)
(* can bring along.                                                        *)
(***************************************************************************)
EXTENDS Update

MCData == <<"first", "second">>

=============================================================================
