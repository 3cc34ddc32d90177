------------------------------ MODULE ExprGen ------------------------------
(***************************************************************************)
(* get_expr_instructions and get_func_call_expr_instructions of            *)
(* src/x86/ir.c on every expression of bounded size, with the machine      *)
(* registers and the machine stack the emitted code works on.              *)
(*                                                                         *)
(* The recursion is explicit: `calls' holds one record per activation of   *)
(* the two functions, innermost last, and `res' the GPReg that the call    *)
(* just made has returned.  The expression is chosen while it is compiled: *)
(* an Enter action picks the kind of the next child node.  Values are      *)
(* symbolic: the value of a node is the number of the node, so that a      *)
(* register or a stack word tells whose value it holds.                    *)
(*                                                                         *)
(* A short-circuit operator is followed on the path that evaluates its     *)
(* right operand; what the skipping path needs is LabelBalanced.           *)
(***************************************************************************)
EXTENDS GPRegs, FiniteSets, SequencesExt

CONSTANTS
  KindSets,   \* the sets of node kinds that a translation unit may use
  ArgSizes,   \* PrimitiveType_size of a call's arguments, in stack cells
  Word,       \* the stack cells that a 32-bit word takes
  MaxNodes,   \* bound: nodes of one expression
  MaxArgs,    \* bound: arguments of one call
  MaxLeaks,   \* bound: registers leaked in a unit without postfix operators
  CallRegs,   \* bound: the registers in which a call's result may be asked for
  MinFree     \* bound: calls with arguments, || and && occur while so many are free

AllKinds == {"leaf", "unary", "postfix", "bin", "boolLit", "bool", "call"}

ASSUME ExprGenAssumption ==
    /\ NRegs >= 3
    /\ \A ks \in KindSets : ks \subseteq AllKinds /\ "leaf" \in ks
    /\ Word \in Nat \ {0} /\ ArgSizes \subseteq 1 .. Word
    /\ {MaxNodes, MaxArgs, MaxLeaks, MinFree} \subseteq Nat
    /\ CallRegs \subseteq Regs

\* The registers the calling convention names.
AX == 0
CX == 2

VARIABLES
  kinds,     \* the node kinds of this unit
  used,      \* the registers whose gp_reg_used flag is true
  nextLeak,  \* next_reg_to_leak
  leaks,     \* how many registers have been leaked so far (for MaxLeaks)
  regs,      \* machine: register contents
  stk,       \* machine: what the expression has on the stack, top last
  calls,     \* the active calls of the two functions, innermost last
  res,       \* the GPReg just returned to the innermost of them, or NoReg
  nodes,     \* nodes of the expression seen so far
  ctx        \* the statement that wants the value, or "idle", or "aborted"

pool == <<kinds, used, nextLeak, leaks>>
vars == <<kinds, used, nextLeak, leaks, regs, stk, calls, res, nodes, ctx>>

Junk == 0    \* a value that belongs to no node
\* GPReg_init; `val' is a note of the model: the value the register is to hold.
NoReg == [reg |-> NRegs, leaked |-> FALSE, val |-> Junk]
-----------------------------------------------------------------------------
(* The machine stack, in cells; the stack pointer is at the end.           *)

Cells(n, v) == [i \in 1 .. n |-> v]
Push(st, v) == st \o Cells(Word, v)
Popped(st, n) == SubSeq(st, 1, Len(st) - n)
\* The word at [esp + off].
WordAt(st, off) ==
    LET found == {st[i] : i \in Len(st) - off - Word + 1 .. Len(st) - off}
    IN IF Cardinality(found) = 1 THEN CHOOSE v \in found : TRUE ELSE Junk
\* mov [esp + off], v
Store(st, off, v) ==
    [i \in DOMAIN st |->
       IF i \in Len(st) - off - Word + 1 .. Len(st) - off THEN v ELSE st[i]]

RoundUp(n, m) == IF n % m = 0 THEN n ELSE n + m - (n % m)
-----------------------------------------------------------------------------
(* The register pool.                                                      *)

\* What alloc_reg returns, for a node whose value is v, and the stack after.
Fresh(v) == [reg |-> AllocIdx(used, nextLeak), leaked |-> MustLeak(used), val |-> v]
FreshStk == IF MustLeak(used) THEN Push(stk, regs[Fresh(Junk).reg]) ELSE stk

\* A unit with postfix operators is followed as far as it needs no leak:
\* what happens then is the subject of RegAlloc.
AllocReg ==
    /\ MustLeak(used) => leaks < MaxLeaks /\ "postfix" \notin kinds
    /\ kinds' = kinds
    /\ nextLeak' = NextToLeak(used, nextLeak)
    /\ leaks' = IF MustLeak(used) THEN leaks + 1 ELSE leaks

\* Mutants of FreeReg: no pop, the flag never cleared.
FreeRegNoPop(g, u, rg, st) ==
    /\ regs' = IF g.leaked THEN [rg EXCEPT ![g.reg] = WordAt(st, 0)] ELSE rg
    /\ stk' = st
    /\ used' = IF g.leaked THEN u ELSE u \ {g.reg}
FreeRegKeepsFlag(g, u, rg, st) ==
    /\ regs' = IF g.leaked THEN [rg EXCEPT ![g.reg] = WordAt(st, 0)] ELSE rg
    /\ stk' = IF g.leaked THEN Popped(st, Word) ELSE st
    /\ used' = u

\* free_reg(g) when flags, registers and stack are u, rg and st.
FreeReg(g, u, rg, st) ==
    IF g.leaked
      THEN /\ regs' = [rg EXCEPT ![g.reg] = WordAt(st, 0)]
           /\ stk' = Popped(st, Word)
           /\ used' = u
      ELSE /\ regs' = rg
           /\ stk' = st
           /\ used' = u \ {g.reg}
-----------------------------------------------------------------------------
(* The activation records.                                                 *)

NoCall == [kind |-> "none"]
Top == IF calls = << >> THEN NoCall ELSE calls[Len(calls)]
SetTop(rec) == [calls EXCEPT ![Len(calls)] = rec]

\* `own' is lhs_reg or ret_reg; of && and ||, `jump' is the stack depth at the
\* jump; of a function call, `cx' is whether cx was pushed, `sizes' the sizes of
\* the arguments and `args' the values of those stored so far.  `depth', the
\* stack's depth when the call was made, is a note of the model.
NewCall(k) ==
    [kind |-> k, id |-> nodes + 1, depth |-> Len(stk), own |-> NoReg, jump |-> 0,
     cx |-> FALSE, sizes |-> << >>, args |-> << >>]

\* args_stack_space, and next_arg_offset before the next argument (every
\* register is stored with reg_size InstrSize_32).
ArgsStackSpace(sizes) ==
    LET space[i \in 0 .. Len(sizes)] ==
          IF i = 0 THEN 0 ELSE RoundUp(space[i - 1], sizes[i]) + sizes[i]
    IN space[Len(sizes)]
NextArgOffsetStuck(rec) == 0    \* mutant: not advanced
NextArgOffset(rec) == Word * Len(rec.args)

\* Operands that an activation has not asked for yet.
Missing(rec) ==
    CASE rec.kind = "call"               -> Len(rec.sizes) - Len(rec.args)
      [] rec.kind \in {"bin", "bool"}    -> IF rec.own = NoReg THEN 2 ELSE 1
      [] OTHER                           -> 1
Outstanding ==
    IF calls = << >> THEN 1
    ELSE MapThenSumSet(LAMBDA i : Missing(calls[i]), DOMAIN calls) - (Len(calls) - 1)
-----------------------------------------------------------------------------
Init ==
    /\ kinds \in KindSets
    /\ used = {} /\ nextLeak = 0 /\ leaks = 0
    /\ regs = [r \in Regs |-> Junk] /\ stk = << >>
    /\ calls = << >> /\ res = NoReg /\ nodes = 0
    /\ ctx = "idle"

\* A statement asks for the value of an expression: an expression statement,
\* an initialiser, the init or inc of a for ("expr"), a condition ("cond") or
\* a return.  What the registers hold between statements is of no use.
Begin(c) ==
    /\ ctx = "idle"
    /\ ctx' = c
    /\ regs' = [r \in Regs |-> Junk]
    /\ UNCHANGED <<pool, stk, calls, res, nodes>>

\* The expression's next node may have n operands.
CanEnter(n) ==
    /\ ctx \notin {"idle", "aborted"}
    /\ res = NoReg
    /\ calls # << >> => Missing(Top) > 0
    /\ nodes + Outstanding + n <= MaxNodes
    /\ nodes' = nodes + 1

\* A node with neither lhs nor rhs: integer literal, identifier, array literal.
EnterLeaf ==
    LET reg == Fresh(nodes + 1) IN
    /\ CanEnter(0)
    /\ AllocReg
    /\ regs' = [regs EXCEPT ![reg.reg] = reg.val]
    /\ stk' = FreshStk
    /\ used' = used \cup {reg.reg}
    /\ res' = reg
    /\ UNCHANGED <<calls, ctx>>

\* Any other node but a call: its first action is to compile its lhs.
EnterOp(k) ==
    /\ k \in kinds \ {"leaf", "call"}
    /\ CanEnter(IF k \in {"bin", "bool"} THEN 2 ELSE 1)
    /\ k = "bool" => Cardinality(Unused(used)) >= MinFree
    /\ calls' = Append(calls, NewCall(k))
    /\ UNCHANGED <<pool, regs, stk, res, ctx>>

\* get_func_call_expr_instructions up to its first argument.
EnterCall(sizes) ==
    LET ret == Fresh(nodes + 1)
        cx == CX \in used \cup {ret.reg}
        saved == IF cx THEN Push(FreshStk, regs[CX]) ELSE FreshStk
    IN
    /\ "call" \in kinds
    /\ CanEnter(Len(sizes))
    /\ ret.reg \in CallRegs
    /\ sizes # << >> => Cardinality(Unused(used)) >= MinFree
    /\ AllocReg
    /\ regs' = IF ret.reg # AX THEN [regs EXCEPT ![ret.reg] = regs[AX]] ELSE regs
    /\ stk' = saved \o Cells(ArgsStackSpace(sizes), Junk)
    /\ used' = used \cup {ret.reg}
    /\ calls' = Append(calls, [NewCall("call") EXCEPT !.own = ret, !.cx = cx, !.sizes = sizes])
    /\ UNCHANGED <<res, ctx>>

\* One operand register (unary and prefix operators, type cast, dereference,
\* or an integer literal on the right): the node works in its register.
UnaryOp ==
    /\ res # NoReg /\ Top.kind \in {"unary", "boolLit"}
    /\ regs' = [regs EXCEPT ![res.reg] = Top.id]
    /\ res' = [res EXCEPT !.val = Top.id]
    /\ calls' = Front(calls)
    /\ UNCHANGED <<pool, stk, nodes, ctx>>

\* Mutant of PostfixOp: the temporary is freed instead.
PostfixOpFreesTemp ==
    LET temp == Fresh(Top.id) IN
    /\ res # NoReg /\ Top.kind = "postfix"
    /\ AllocReg
    /\ FreeReg(temp, used \cup {temp.reg}, [regs EXCEPT ![temp.reg] = temp.val], FreshStk)
    /\ res' = temp
    /\ calls' = Front(calls)
    /\ UNCHANGED <<nodes, ctx>>

\* Postfix ++ and --: the register with the address is freed BEFORE the one
\* that was allocated after it.
PostfixOp ==
    LET temp == Fresh(Top.id) IN
    /\ res # NoReg /\ Top.kind = "postfix"
    /\ AllocReg
    /\ FreeReg(res, used \cup {temp.reg}, [regs EXCEPT ![temp.reg] = temp.val], FreshStk)
    /\ res' = temp
    /\ calls' = Front(calls)
    /\ UNCHANGED <<nodes, ctx>>

\* lhs_reg is there; || and && now emit the jump that skips the rhs.
LhsDone ==
    /\ res # NoReg /\ Top.kind \in {"bin", "bool"} /\ Top.own = NoReg
    /\ calls' = SetTop([Top EXCEPT !.own = res, !.jump = Len(stk)])
    /\ res' = NoReg
    /\ UNCHANGED <<pool, regs, stk, nodes, ctx>>

\* Both registers are there: the operator, its end label if it is || or &&,
\* and then free_reg(rhs_reg).
RhsDone ==
    LET lhs == Top.own IN
    /\ res # NoReg /\ Top.kind \in {"bin", "bool"} /\ Top.own # NoReg
    /\ FreeReg(res, used, [regs EXCEPT ![lhs.reg] = Top.id], stk)
    /\ res' = [lhs EXCEPT !.val = Top.id]
    /\ calls' = Front(calls)
    /\ UNCHANGED <<kinds, nextLeak, leaks, nodes, ctx>>

\* An argument is stored and its register freed.
ArgDone ==
    /\ res # NoReg /\ Top.kind = "call"
    /\ FreeReg(res, used, regs, Store(stk, NextArgOffset(Top), regs[res.reg]))
    /\ calls' = SetTop([Top EXCEPT !.args = Append(@, res.val)])
    /\ res' = NoReg
    /\ UNCHANGED <<kinds, nextLeak, leaks, nodes, ctx>>

\* All arguments are stored.  The callee leaves its value in ax and anything
\* in cx; the other registers it preserves.
EmitCall ==
    LET ret == Top.own
        added == Popped(stk, ArgsStackSpace(Top.sizes))
        called == [regs EXCEPT ![AX] = Top.id, ![CX] = Junk]
        popped == IF CX \in used THEN [called EXCEPT ![CX] = WordAt(added, 0)]
                                 ELSE called
    IN
    /\ res = NoReg /\ Top.kind = "call" /\ Missing(Top) = 0
    /\ stk' = IF CX \in used THEN Popped(added, Word) ELSE added
    /\ regs' = IF ret.reg # AX
                 THEN [popped EXCEPT ![AX] = popped[ret.reg], ![ret.reg] = popped[AX]]
                 ELSE popped
    /\ res' = ret
    /\ calls' = Front(calls)
    /\ UNCHANGED <<pool, nodes, ctx>>

\* The statement reads the register and frees it.
End ==
    /\ calls = << >> /\ res # NoReg /\ ctx \in {"expr", "cond", "return"}
    /\ ctx = "return" => res.reg = AX
    /\ FreeReg(res, used, regs, stk)
    /\ res' = NoReg /\ nodes' = 0 /\ ctx' = "idle"
    /\ UNCHANGED <<kinds, nextLeak, leaks, calls>>

\* assert(reg.reg_idx == 0) in get_ret_stmt_instructions fails.
Abort ==
    /\ calls = << >> /\ ctx = "return" /\ res # NoReg /\ res.reg # AX
    /\ ctx' = "aborted"
    /\ UNCHANGED <<pool, regs, stk, calls, res, nodes>>

Next ==
    \/ \E c \in {"expr", "cond", "return"} : Begin(c)
    \/ EnterLeaf
    \/ \E k \in AllKinds : EnterOp(k)
    \/ \E sizes \in SeqOf(ArgSizes, MaxArgs) : EnterCall(sizes)
    \/ UnaryOp
    \/ PostfixOp
    \/ LhsDone
    \/ RhsDone
    \/ ArgDone
    \/ EmitCall
    \/ End
    \/ Abort

Spec == Init /\ [][Next]_vars
-----------------------------------------------------------------------------
GPReg == [reg : Regs, leaked : BOOLEAN, val : Nat] \cup {NoReg}
CallRecord ==
    [kind : AllKinds, id : Nat, depth : Nat, own : GPReg, jump : Nat, cx : BOOLEAN,
     sizes : Seq(ArgSizes), args : Seq(Nat)]
TypeOK ==
    /\ kinds \in KindSets
    /\ used \in SUBSET Regs /\ nextLeak \in Regs /\ leaks \in 0 .. MaxLeaks
    /\ regs \in [Regs -> Nat] /\ stk \in Seq(Nat)
    /\ calls \in Seq(CallRecord) /\ res \in GPReg
    /\ nodes \in Nat /\ ctx \in {"idle", "expr", "cond", "return", "aborted"}

\* Every register an instruction reads holds the value it is meant to hold:
\* both operands of an operator, an argument when it is stored, the value a
\* statement takes.  Between the load of an operand and its use come whole
\* subexpressions, with leaks, calls and the register shuffling around calls
\* ("this is to keep the old value of ax if it is not to be overwritten, and
\* also to make sure the return value goes in the correct register").
OperandsIntact ==
    res # NoReg =>
      /\ regs[res.reg] = res.val
      /\ Top.kind \in {"bin", "bool"} /\ Top.own # NoReg =>
           regs[Top.own.reg] = Top.own.val

\* At the call instruction every argument is where the callee looks for it,
\* one word each from the stack pointer up ("every argument gets loaded into
\* the stack from bottom to top").
ArgsInPlace ==
    res = NoReg /\ Top.kind = "call" /\ Missing(Top) = 0 =>
      \A i \in 1 .. Len(Top.args) : WordAt(stk, Word * (i - 1)) = Top.args[i]

\* The flag of cx is the same when a call restores it as when the call saved
\* it, whatever the arguments did to the pool: the push has its pop.
CallerSavedMatched ==
    Top.kind = "call" /\ res = NoReg => Top.cx = (CX \in used)

\* The code that a short-circuit jump skips leaves the stack where it was:
\* both ways to the end label arrive with the same stack pointer.
LabelBalanced ==
    res # NoReg /\ Top.kind = "bool" /\ Top.own # NoReg => Len(stk) = Top.jump

\* When an expression's value reaches its statement nothing of it is left on
\* the stack and its register was not leaked (a condition's jump comes before
\* free_reg, so a pop would be skipped by one of the two ways); afterwards no
\* register is marked used.
StatementClean ==
    /\ calls = << >> => stk = << >> /\ ~res.leaked
    /\ ctx = "idle" => used = {}
=============================================================================
