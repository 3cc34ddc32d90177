------------------------------- MODULE GPRegs -------------------------------
(***************************************************************************)
(* The general-purpose register pool of src/x86/ir.c, as functions of its  *)
(* two file-scope variables: gp_reg_used, given as the SET of registers    *)
(* whose flag is true, and next_reg_to_leak.  The pool is never reset: one *)
(* pair of variables serves every expression of a translation unit.        *)
(*                                                                         *)
(* alloc_reg takes the lowest-numbered unused register; with none left it  *)
(* leaks a used one onto the machine stack (a push) and hands that one     *)
(* out.  free_reg pops a leaked register back and clears the flag of any   *)
(* other.                                                                  *)
(***************************************************************************)
EXTENDS Naturals

CONSTANT NRegs    \* n_gp_regs: ax, bx, cx in the code

ASSUME NRegsAssumption == NRegs \in Nat \ {0}

Regs == 0 .. NRegs - 1

\* Mutant of Unused: the search runs one register too far.
UnusedOffByOne(used) == (0 .. NRegs) \ used

\* unused_reg: the set it searches; it returns the least element.
Unused(used) == Regs \ used

\* alloc_reg found no unused register, so it has to leak one.
MustLeak(used) == Unused(used) = {}

\* reg_idx of the register alloc_reg returns.
AllocIdx(used, next) ==
    IF MustLeak(used)
      THEN next
      ELSE CHOOSE r \in Unused(used) : \A s \in Unused(used) : r <= s

\* Mutant of NextToLeak: the round robin is not advanced.
NextToLeakStuck(used, next) == next

\* next_reg_to_leak after alloc_reg: a round robin that only leaks advance.
NextToLeak(used, next) ==
    IF MustLeak(used) THEN (next + 1) % NRegs ELSE next
=============================================================================
