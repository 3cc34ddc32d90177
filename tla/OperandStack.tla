---------------------------- MODULE OperandStack ----------------------------
(***************************************************************************)
(* What the register allocator of src/x86/ir.c promises to the expression  *)
(* compiler, with no registers in it: every intermediate value of an       *)
(* expression stays available, unchanged, until the operator that consumes *)
(* it.  Intermediate values therefore behave like an operand stack, of     *)
(* which an operator reads and replaces the newest one or two.             *)
(***************************************************************************)
EXTENDS Naturals, Sequences

CONSTANTS
  Vals,      \* what a register can hold
  UnaryOp,   \* the value a one-operand instruction sequence computes
  BinaryOp,  \* the value a two-operand instruction sequence computes
  None       \* no expression has been finished yet

VARIABLES
  vals,      \* the intermediate values, oldest first
  result     \* the value of the last finished expression

vars == <<vals, result>>

Init == vals = << >> /\ result = None

\* An operand (a literal, a variable, a call's result) is loaded.
Load(v) ==
    /\ vals' = Append(vals, v)
    /\ UNCHANGED result

\* The newest value is replaced by a function of it.
Apply ==
    LET n == Len(vals) IN
    /\ n >= 1
    /\ vals' = [vals EXCEPT ![n] = UnaryOp[vals[n]]]
    /\ UNCHANGED result

\* The two newest values are replaced by a function of both.
Combine ==
    LET n == Len(vals) IN
    /\ n >= 2
    /\ vals' = Append(SubSeq(vals, 1, n - 2), BinaryOp[<<vals[n - 1], vals[n]>>])
    /\ UNCHANGED result

\* The only value left is the expression's, and the statement takes it.
Finish ==
    /\ Len(vals) = 1
    /\ result' = vals[1]
    /\ vals' = << >>

Next ==
    \/ \E v \in Vals : Load(v)
    \/ Apply
    \/ Combine
    \/ Finish

Spec == Init /\ [][Next]_vars
=============================================================================
