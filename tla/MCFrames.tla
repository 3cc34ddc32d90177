------------------------------ MODULE MCFrames ------------------------------
(***************************************************************************)
(* Instances of Frames for TLC.  2^16 in place of 2^32 leaves the same     *)
(* residues modulo every size used here.                                   *)
(***************************************************************************)
EXTENDS Frames

MCModulus == 2 ^ 16
MCBase == 2 ^ 15
AllSizes == {1, 2, 3, 4, 12}   \* char, short, char[3], int or pointer, int[3]
SomeInits == BOOLEAN
=============================================================================
