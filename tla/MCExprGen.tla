----------------------------- MODULE MCExprGen -----------------------------
(***************************************************************************)
(* Instances of ExprGen for TLC, with the three registers of the code.     *)
(***************************************************************************)
EXTENDS ExprGen

WordArgs == {Word}                         \* int and pointer arguments
NoPostfix == AllKinds \ {"postfix"}
BothUnits == {AllKinds, NoPostfix}
LeakingUnits == {NoPostfix}
AnyReg == Regs
NotCX == Regs \ {CX}
=============================================================================
