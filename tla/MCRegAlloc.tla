----------------------------- MODULE MCRegAlloc -----------------------------
(***************************************************************************)
(* Instances of RegAlloc for TLC: the three registers of the code, values  *)
(* that are integers modulo 2, and operators that are not symmetric, so    *)
(* that a lost or exchanged operand changes a result.                      *)
(***************************************************************************)
EXTENDS RegAlloc

MCVals == 0 .. 1
MCUnaryOp == [v \in MCVals |-> 1 - v]
MCBinaryOp == [p \in MCVals \X MCVals |-> IF p[1] = 1 THEN p[2] ELSE 0]
=============================================================================
