------------------------------- MODULE MCFraming -------------------------------
(***************************************************************************)
(* Messages with runs of ones: all bits set; a flag and six more ones.     *)
(* The second frame may begin at the last index, which stands for no       *)
(* packet, and go on at the first.                                         *)
(***************************************************************************)
EXTENDS Framing

MCMessages == {<<255>>, <<126, 63>>}
MCStartIndex == {28}

=============================================================================
