------------------------------- MODULE Frames -------------------------------
(***************************************************************************)
(* Where the local variables of a function are.  src/parser.c lays them    *)
(* out while it parses, in 32-bit variables bp and sp that follow the      *)
(* frames it expects; src/x86/ir.c emits the frames, one per block, from   *)
(* var_bytes alone.  A step is one construct of the function's body; it    *)
(* does what the parser does with bp, sp and var_bytes, and what the       *)
(* emitted code does with ebp and esp when that construct is reached.      *)
(*                                                                         *)
(* Declarations stand at the top of a block, before its statements, so     *)
(* var_bytes has its final value when the first nested frame is created.   *)
(***************************************************************************)
EXTENDS Integers, Sequences

CONSTANTS
  Sizes,      \* var_size of the variables that are declared
  Inits,      \* may a declaration have an array initialiser?  of BOOLEAN
  NParams,    \* how many parameters the function has
  Modulus,    \* one more than the largest u32
  Base,       \* machine: ebp in the function's outermost frame
  MaxVars,    \* bound: variables visible at once, parameters included
  MaxDepth    \* bound: bodies and blocks open at once

Word == 4       \* the size of a push, and of a stack slot

ASSUME FramesAssumption ==
    /\ Modulus \in Nat \ {0} /\ Modulus % Word = 0
    /\ Sizes \subseteq 1 .. Modulus - 1 /\ Inits \subseteq BOOLEAN
    /\ {NParams, MaxVars, MaxDepth} \subseteq Nat
    /\ 20 + Word * NParams < Modulus     \* see ParamOffset
    /\ Base \in 0 .. Modulus - 1 /\ Base % Word = 0

VARIABLES
  blocks,     \* the blocks and single-statement bodies open, innermost last
  vars        \* the parser's list of visible variables, innermost last

state == <<blocks, vars>>

\* u32 arithmetic.
Plus(a, b) == IF a + b < Modulus THEN a + b ELSE a + b - Modulus
MinusNoWrap(a, b) == a - b         \* mutant
Minus(a, b) == IF a >= b THEN a - b ELSE a - b + Modulus

\* round_down and round_up of src/parser.c.
NoRoundDown(n, multiple) == n      \* mutant
RoundDown(n, multiple) == (n \div multiple) * multiple
RoundUp(n, multiple) == IF n % multiple = 0 THEN n ELSE Plus(n, multiple - (n % multiple))

Innermost == blocks[Len(blocks)]
SetInnermost(b) == [blocks EXCEPT ![Len(blocks)] = b]

(* A block: the parser's bp, sp, block->var_bytes (before it is rounded)   *)
(* and can_decl_vars; how many visible variables there were before it;     *)
(* whether it has a frame; and the machine's ebp, with the bytes below it  *)
(* that the block finds in its frame or pushes and never pops.             *)
NewBlock(bp, sp, framed, ebp, pushed) ==
    [bp |-> bp, sp |-> sp, var_bytes |-> 0, can_decl |-> TRUE,
     old_vars |-> Len(vars), framed |-> framed, ebp |-> ebp, pushed |-> pushed]

\* esp between two statements of a block: create_stack_frame reserves
\* var_bytes, rounded up at the end of parse().
FrameSizeRoundedDown(b) == RoundDown(b.var_bytes, Word)     \* mutant
FrameSize(b) == RoundUp(b.var_bytes, Word)
Esp(b) == Minus(Minus(b.ebp, FrameSize(b)), b.pushed)

\* The parser's bp_offset for an access to v in block b, and the address that
\* [ebp + bp_offset] is there.
BpOffset(v, b) == Minus(v.stack_pos, b.bp)
Address(v, b) == Plus(b.ebp, BpOffset(v, b))
-----------------------------------------------------------------------------
\* Parameters: the parser counts from bp; the machine from what the caller
\* pushed: above the return address, three callee-saved registers and ebp.
ParamOffset(i) == 12 + 4 + 4 + Word * (i - 1)
ArgAddress(i) == Plus(Base, Word * (1 + 3 + 1) + Word * (i - 1))

Init ==
    /\ vars = [i \in 1 .. NParams |->
                 [stack_pos |-> ParamOffset(i), size |-> Word, at |-> ArgAddress(i)]]
    /\ blocks = <<[bp |-> 0, sp |-> 0, var_bytes |-> 0, can_decl |-> TRUE,
                   old_vars |-> NParams, framed |-> TRUE, ebp |-> Base, pushed |-> 0]>>

\* An array initialiser is copied with a call of memcpy whose three arguments
\* are pushed and never popped; any other initialiser leaves the stack alone.
MemcpyArgs(init) == IF init THEN 3 * Word ELSE 0

\* A variable declaration.  (The parser also takes a declaration as a body
\* without braces, which is not C.)
Declare(size, init) ==
    LET b == Innermost
        aligned == RoundDown(b.sp, size)
        offset == Minus(Minus(aligned, b.bp), size)
        sp == Minus(aligned, size)
        v == [stack_pos |-> Plus(offset, b.bp), size |-> size, at |-> Plus(b.ebp, offset)]
    IN
    /\ b.framed /\ b.can_decl
    /\ Len(vars) < MaxVars
    /\ vars' = Append(vars, v)
    /\ blocks' = SetInnermost([b EXCEPT
                   !.sp = sp,
                   !.var_bytes = Plus(@, Minus(b.sp, sp)),
                   !.pushed = Plus(@, MemcpyArgs(init))])

\* Any statement ends the declarations of its block; a body without braces
\* takes a single one.
CanNest ==
    /\ Len(blocks) < MaxDepth
    /\ Innermost.framed \/ Innermost.can_decl

\* { ... }, alone or as the body of an if, while or for: the parser expects
\* ebp to be pushed at its sp; the machine pushes it at esp.
OpenBlockAtSp ==                         \* mutant: room for ebp forgotten
    LET b == Innermost IN
    /\ CanNest
    /\ blocks' = Append(SetInnermost([b EXCEPT !.can_decl = FALSE]),
                        NewBlock(b.sp, b.sp, TRUE, Minus(Esp(b), Word), 0))
    /\ UNCHANGED vars
OpenBlock ==
    LET b == Innermost
        bp == Minus(b.sp, Word)
        ebp == Minus(Esp(b), Word)
    IN
    /\ CanNest
    /\ blocks' = Append(SetInnermost([b EXCEPT !.can_decl = FALSE]),
                        NewBlock(bp, bp, TRUE, ebp, 0))
    /\ UNCHANGED vars

\* The body of an if, while or for without braces, and every else: a list of
\* one statement in the frame it stands in.
OpenBody ==
    LET b == Innermost IN
    /\ CanNest
    /\ blocks' = Append(SetInnermost([b EXCEPT !.can_decl = FALSE]),
                        NewBlock(b.bp, b.sp, FALSE, b.ebp, Plus(FrameSize(b), b.pushed)))
    /\ UNCHANGED vars

\* The end of a block: its variables go out of scope and esp and ebp are what
\* they were in the enclosing one.
Close ==
    /\ Len(blocks) > 1
    /\ blocks' = SubSeq(blocks, 1, Len(blocks) - 1)
    /\ vars' = SubSeq(vars, 1, Innermost.old_vars)

Next ==
    \/ \E size \in Sizes, init \in Inits : Declare(size, init)
    \/ OpenBlock
    \/ OpenBody
    \/ Close

Spec == Init /\ [][Next]_state
-----------------------------------------------------------------------------
U32 == 0 .. Modulus - 1
TypeOK ==
    /\ blocks \in Seq([bp : U32, sp : U32, var_bytes : U32, can_decl : BOOLEAN,
                       old_vars : Nat, framed : BOOLEAN, ebp : U32, pushed : U32])
    /\ vars \in Seq([stack_pos : U32, size : Nat, at : U32])

\* The enclosing blocks have whole words of variables and no initialised
\* array: only then is a frame where the parser expects it.
Regular ==
    \A k \in 1 .. Len(blocks) - 1 :
      blocks[k].framed => blocks[k].var_bytes % Word = 0 /\ blocks[k].pushed = 0

\* A variable is one place in memory: from every block in which it is
\* visible, however deeply nested, bp_offset leads to the address it has in
\* the block that declares it, and a parameter's to the caller's argument.
SameAddress ==
    Regular => \A i \in 1 .. Len(vars) : Address(vars[i], Innermost) = vars[i].at

\* No two visible variables share a byte, none is in the word where a frame
\* keeps the enclosing ebp, and all are above esp, out of the reach of the
\* pushes of an expression.
Bytes(at, size) == {Plus(at, k) : k \in 0 .. size - 1}
NoOverlap ==
    /\ \A i, j \in 1 .. Len(vars) : i # j =>
         Bytes(vars[i].at, vars[i].size) \cap Bytes(vars[j].at, vars[j].size) = {}
    /\ \A i \in 1 .. Len(vars), k \in 1 .. Len(blocks) :
         Bytes(vars[i].at, vars[i].size) \cap Bytes(blocks[k].ebp, Word) = {}
    /\ \A i \in 1 .. Len(vars) : vars[i].at >= Esp(Innermost)

\* "align the variable to its size", for every variable of a basic type in the
\* function's outermost block; in a nested block it fails after a char.
Aligned(v) == v.size \in {1, 2, 4} => v.at % v.size = 0
OutermostAligned == Len(blocks) = 1 => \A i \in 1 .. Len(vars) : Aligned(vars[i])
=============================================================================
