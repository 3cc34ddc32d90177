------------------------------ MODULE RegAlloc ------------------------------
(***************************************************************************)
(* alloc_reg and free_reg of src/x86/ir.c together with the discipline of  *)
(* their one client, get_expr_instructions, and the machine registers and  *)
(* machine stack the emitted code works on.  A step is what one call of    *)
(* get_expr_instructions does after its operands are there: it allocates,  *)
(* emits its instructions (here: executes them) and frees.                 *)
(*                                                                         *)
(* `live' holds the GPReg values that a pending call still owns, oldest    *)
(* first.  slot = 0 says prev_val_was_leaked is false; otherwise slot is   *)
(* the place on the stack the leaked register's old value was pushed to    *)
(* (the code keeps only the boolean; the place is a note of the model).    *)
(***************************************************************************)
EXTENDS GPRegs, Sequences, FiniteSets

CONSTANTS
  Vals,      \* what a register can hold
  UnaryOp,   \* the function a one-operand operator computes
  BinaryOp,  \* the function a two-operand operator computes
  None,      \* no expression has been finished yet
  MaxLive,   \* bound: operands pending at once
  MaxLeaks   \* bound: registers leaked in the whole translation unit

ASSUME ValsAssumption ==
    /\ UnaryOp \in [Vals -> Vals]
    /\ BinaryOp \in [Vals \X Vals -> Vals]
    /\ MaxLive \in Nat
    /\ MaxLeaks \in Nat

VARIABLES
  used,      \* the registers whose gp_reg_used flag is true
  nextLeak,  \* next_reg_to_leak
  leaks,     \* how many registers have been leaked so far (for MaxLeaks)
  live,      \* the GPRegs that are allocated, oldest first
  regs,      \* machine: contents of the registers
  stk,       \* machine: what has been pushed in this expression, top last
  result     \* the value the last finished expression delivered

vars == <<used, nextLeak, leaks, live, regs, stk, result>>

N == Len(live)
Front(s) == SubSeq(s, 1, Len(s) - 1)
-----------------------------------------------------------------------------
Init ==
    /\ used = {}
    /\ nextLeak = 0
    /\ leaks = 0
    /\ live = << >>
    /\ regs \in [Regs -> Vals]
    /\ stk = << >>
    /\ result = None

\* The GPReg that alloc_reg returns: the register, and whether (where) its
\* previous value was pushed.
GPReg == [reg  |-> AllocIdx(used, nextLeak),
          slot |-> IF MustLeak(used) THEN Len(stk) + 1 ELSE 0]

\* The stack after alloc_reg: a leak pushes the register it takes.
Leaked == IF MustLeak(used) THEN Append(stk, regs[GPReg.reg]) ELSE stk

\* alloc_reg's effect on the pool's own counters, within the bounds.
AllocReg ==
    /\ N < MaxLive
    /\ MustLeak(used) => leaks < MaxLeaks
    /\ nextLeak' = NextToLeak(used, nextLeak)
    /\ leaks' = IF MustLeak(used) THEN leaks + 1 ELSE leaks

\* Mutants of FreeReg: no restore, no pop, the flag always cleared.
FreeRegNoRestore(g, u, rg, st) ==
    /\ regs' = rg
    /\ stk' = IF g.slot # 0 THEN Front(st) ELSE st
    /\ used' = IF g.slot # 0 THEN u ELSE u \ {g.reg}
FreeRegNoPop(g, u, rg, st) ==
    /\ regs' = IF g.slot # 0 THEN [rg EXCEPT ![g.reg] = st[Len(st)]] ELSE rg
    /\ stk' = st
    /\ used' = IF g.slot # 0 THEN u ELSE u \ {g.reg}
FreeRegAlwaysClears(g, u, rg, st) ==
    /\ regs' = IF g.slot # 0 THEN [rg EXCEPT ![g.reg] = st[Len(st)]] ELSE rg
    /\ stk' = IF g.slot # 0 THEN Front(st) ELSE st
    /\ used' = u \ {g.reg}

\* free_reg(g), executed when flags, registers and stack are u, rg and st.
FreeReg(g, u, rg, st) ==
    IF g.slot # 0
      THEN /\ regs' = [rg EXCEPT ![g.reg] = st[Len(st)]]
           /\ stk' = Front(st)
           /\ used' = u
      ELSE /\ regs' = rg
           /\ stk' = st
           /\ used' = u \ {g.reg}

\* A node without operands (literal, identifier, array literal): alloc_reg
\* and one move into the register.
Load(v) ==
    /\ AllocReg
    /\ regs' = [regs EXCEPT ![GPReg.reg] = v]
    /\ stk' = Leaked
    /\ used' = used \cup {GPReg.reg}
    /\ live' = Append(live, GPReg)
    /\ UNCHANGED result

\* A node with one operand register (unary operator, prefix increment,
\* dereference, operator whose right operand is an integer literal): works
\* in place in the operand's register.
Apply ==
    /\ N >= 1
    /\ regs' = [regs EXCEPT ![live[N].reg] = UnaryOp[@]]
    /\ UNCHANGED <<used, nextLeak, leaks, live, stk, result>>

\* A node with two operand registers: the instruction leaves its result in
\* lhs_reg, then rhs_reg is freed.
Combine ==
    LET lhs == live[N - 1]
        rhs == live[N]
        value == BinaryOp[<<regs[lhs.reg], regs[rhs.reg]>>]
    IN
    /\ N >= 2
    /\ FreeReg(rhs, used, [regs EXCEPT ![lhs.reg] = value], stk)
    /\ live' = Front(live)
    /\ UNCHANGED <<nextLeak, leaks, result>>

\* The statement reads the expression's register and frees it.
Finish ==
    /\ N = 1
    /\ result' = regs[live[1].reg]
    /\ FreeReg(live[1], used, regs, stk)
    /\ live' = << >>
    /\ UNCHANGED <<nextLeak, leaks>>

\* Mutant of Postfix: the temporary is freed instead.
PostfixFreesTemp ==
    LET mov == [regs EXCEPT ![GPReg.reg] = UnaryOp[regs[live[N].reg]]] IN
    /\ N >= 1
    /\ AllocReg
    /\ FreeReg(GPReg, used \cup {GPReg.reg}, mov, Leaked)
    /\ live' = Append(Front(live), GPReg)
    /\ UNCHANGED result

\* Postfix ++ and --: a second register receives the old value while the
\* first still holds the address; then the FIRST is freed and the second
\* becomes the node's.  The only place that does not free in LIFO order.
Postfix ==
    LET lhs == live[N]
        mov == [regs EXCEPT ![GPReg.reg] = UnaryOp[regs[lhs.reg]]]
    IN
    /\ N >= 1
    /\ AllocReg
    /\ FreeReg(lhs, used \cup {GPReg.reg}, mov, Leaked)
    /\ live' = Append(Front(live), GPReg)
    /\ UNCHANGED result

LifoNext ==
    \/ \E v \in Vals : Load(v)
    \/ Apply
    \/ Combine
    \/ Finish

Next == LifoNext \/ Postfix

\* The compiler on translation units without, and with, postfix operators.
LifoSpec == Init /\ [][LifoNext]_vars
Spec == Init /\ [][Next]_vars
-----------------------------------------------------------------------------
TypeOK ==
    /\ used \in SUBSET Regs
    /\ nextLeak \in Regs
    /\ leaks \in Nat
    /\ live \in Seq([reg : Regs, slot : Nat])
    /\ regs \in [Regs -> Vals]
    /\ stk \in Seq(Vals)
    /\ result \in Vals \cup {None}

\* gp_reg_used is exact: a flag is set for the GPRegs that were handed out
\* without a leak and have not been freed, one GPReg per flag, and for no
\* other (alloc_reg and free_reg, across leaks).  In particular every flag
\* is clear again when the expression is done.
UsedExact ==
    /\ used = {live[i].reg : i \in {j \in 1 .. N : live[j].slot = 0}}
    /\ \A i, j \in 1 .. N :
         live[i].slot = 0 /\ live[j].slot = 0 /\ live[i].reg = live[j].reg
           => i = j

\* Each leak's push is undone by exactly one pop: what is on the machine
\* stack is one value per leaked GPReg, so an expression leaves the stack
\* pointer where it found it.
StackExact == Len(stk) = Cardinality({i \in 1 .. N : live[i].slot # 0})

\* alloc_reg never gives the register of the newest pending operand away
\* ("if there are no free registers left, a used one is leaked onto the
\* stack so it can be used"): the two operands of an instruction are in two
\* registers.
OperandsDistinct == N >= 2 => live[N - 1].reg # live[N].reg

\* Every GPReg in use has its flag set, so no later alloc_reg takes its
\* register without saving it.
LiveFlagged == \A i \in 1 .. N : live[i].reg \in used

\* Where the value of operand i is when the operands are l, the registers
\* rg and the stack st: in its register, or, once a later GPReg took that
\* register, where the leak pushed it.
Takers(l, i) == {j \in i + 1 .. Len(l) : l[j].reg = l[i].reg}
Content(l, rg, st, i) ==
    IF Takers(l, i) = {}
      THEN rg[l[i].reg]
      ELSE LET first == CHOOSE j \in Takers(l, i) :
                          \A k \in Takers(l, i) : j <= k
           IN st[l[first].slot]

\* The pending operands, read from where they physically are.
Operands == [i \in 1 .. N |-> Content(live, regs, stk, i)]
Abstract == INSTANCE OperandStack WITH vals <- Operands

\* Refinement: the pending operands behave as an operand stack.  No leak,
\* pop or reuse of a register loses, exchanges or overwrites a value that an
\* operator still has to read, and the statement gets the expression's value.
ImplementsOperandStack == Abstract!Spec
=============================================================================
