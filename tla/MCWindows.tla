------------------------------- MODULE MCWindows -------------------------------
(***************************************************************************)
(* A prompt of one cell.                                                   *)
(***************************************************************************)
EXTENDS Windows

MCMore == <<"more">>

=============================================================================
