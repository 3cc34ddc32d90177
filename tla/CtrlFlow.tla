------------------------------ MODULE CtrlFlow ------------------------------
(***************************************************************************)
(* The control flow that src/x86/ir.c emits for if, while, for, blocks,    *)
(* return, && and ||, run next to what the statements mean.                *)
(*                                                                         *)
(* The functions get_..._instructions call each other along the syntax.    *)
(* Here `code' is the list of instructions in which a statement or a       *)
(* condition that is still to be compiled stands in the place of its       *)
(* instructions; a step is what one call does itself, for the leftmost of  *)
(* them: it takes its labels and its literal from the counters and puts    *)
(* its instructions around its parts.  A machine then executes the code,   *)
(* choosing the value of every condition, and `todo' follows the source    *)
(* statements.                                                             *)
(*                                                                         *)
(* An instruction has one operand (register, label or frame count) and,    *)
(* where a label names it, the array literal that the expression loads.    *)
(* Register d holds the condition at nesting depth d; a value is the set   *)
(* of its bits that are 1.                                                 *)
(***************************************************************************)
EXTENDS StructuredFlow, Integers, FiniteSets, FiniteSetsExt

CONSTANTS
  Conds, Stmts,   \* the conditions and statements of the functions,
  Programs,       \* whose bodies are these,
  Literals,       \* and whose actions and atoms with an array literal (a string) these
  Vals            \* the values an atom can have

\* Statements and conditions are made of statements and conditions.
ASSUME SyntaxAssumption ==
    /\ \A c \in Conds : c.t = "atom" \/ (c.t \in {"and", "or"} /\ {c.l, c.r} \subseteq Conds)
    /\ \A s \in Stmts :
         /\ s.t \in {"act", "ret", "block", "if", "while", "for"}
         /\ s.t = "block" => s.body \in Seq(Stmts)
         /\ s.t \in {"if", "while", "for"} => s.c \in Conds /\ s.body \in Stmts
         /\ s.t = "if" => s.else \in Stmts \cup {None}
         /\ s.t = "for" => {s.init, s.inc} \subseteq Stmts
    /\ Programs \subseteq Seq(Stmts)

Bits == 0 .. 31
ASSUME ValsAssumption == Vals \subseteq SUBSET Bits

VARIABLES
  body,      \* the function's statements
  code,      \* its instructions, and what is still to be compiled
  label,     \* label_counter
  lit,       \* array_lit_counter
  pc,        \* machine: the next instruction
  regs,      \* machine: the registers of the pending conditions
  zf,        \* machine: whether the last cmp found 0
  frames,    \* machine: stack frames open in this function
  todo       \* the source statements still to be run

machine == <<pc, regs, zf, frames>>
vars == <<body, code, label, lit, machine, todo>>

NoLit == -1
Instr(op, arg) == [op |-> op, arg |-> arg, name |-> "", lit |-> NoLit]
\* A statement, with the depth n_blocks_deep that the parser has counted.
Stmt(s, deep) == [op |-> "stmt", s |-> s, deep |-> deep]
\* A condition, whose value goes to register d.
Cond(c, d) == [op |-> "cond", c |-> c, d |-> d]

Pending == {k \in DOMAIN code : code[k].op \in {"stmt", "cond"}}
Generated == Pending = {}
Hole == Min(Pending)

\* The leftmost part becomes `items', which use n new labels.
Becomes(items, n) ==
    /\ code' = SubSeq(code, 1, Hole - 1) \o items \o SubSeq(code, Hole + 1, Len(code))
    /\ label' = label + n
    /\ UNCHANGED <<body, machine, todo>>

\* An expression without || and &&, whose value goes to register d.
GenExpr(op, d, name) ==
    /\ Becomes(<<[op |-> op, arg |-> d, name |-> name,
                  lit |-> IF name \in Literals THEN lit ELSE NoLit]>>, 0)
    /\ lit' = IF name \in Literals THEN lit + 1 ELSE lit
-----------------------------------------------------------------------------
(* Conditions.                                                             *)

\* The two operands are combined and setne makes the low byte 0 or 1; the two
\* operators differ in where the end label stands.
AndTail(d, end) ==
    <<Instr("and", d), Instr("setne", d), Instr("mask", d), Instr("label", end)>>
OrTail(d, end) ==
    <<Instr("or", d), Instr("setne", d), Instr("label", end), Instr("mask", d)>>
\* Mutant: && jumps like ||.
ShortCircuitSwapped(c) == IF c.t = "and" THEN "jne" ELSE "je"
ShortCircuit(c) == IF c.t = "or" THEN "jne" ELSE "je"
CondItems(c, d, end) ==
    <<Cond(c.l, d), Instr("cmp", d), Instr(ShortCircuit(c), end), Cond(c.r, d + 1)>>
      \o IF c.t = "and" THEN AndTail(d, end) ELSE OrTail(d, end)

GenAtom(c, d) == c.t = "atom" /\ GenExpr("atom", d, c.name)
GenLogical(c, d) ==
    /\ c.t \in {"and", "or"}
    /\ Becomes(CondItems(c, d, label), 1)
    /\ UNCHANGED lit
-----------------------------------------------------------------------------
(* Statements.                                                             *)

\* The condition, then cmp and je past what it guards.
Test(c, past) == <<Cond(c, 0), Instr("cmp", 0), Instr("je", past)>>

\* The statements of a block that the parser has found at some depth.
BlockStmtsFlat(list, deep) == [i \in DOMAIN list |-> Stmt(list[i], deep)]    \* mutant
BlockStmts(list, deep) == [i \in DOMAIN list |-> Stmt(list[i], deep + 1)]
\* create_stack_frame, the statements, destroy_stack_frame.
BlockItems(s, deep) ==
    <<Instr("enter", 0)>> \o BlockStmts(s.body, deep) \o <<Instr("leave", 0)>>

IfItems(s, deep, ifEnd, elseEnd) ==
    Test(s.c, ifEnd) \o <<Stmt(s.body, deep)>>
      \o IF s.else = None THEN <<Instr("label", ifEnd)>>
         ELSE <<Instr("jmp", elseEnd), Instr("label", ifEnd),
                Stmt(s.else, deep), Instr("label", elseEnd)>>
WhileItems(s, deep, start, end) ==
    <<Instr("label", start)>> \o Test(s.c, end)
      \o <<Stmt(s.body, deep), Instr("jmp", start), Instr("label", end)>>
ForItems(s, deep, start, end) ==
    <<Stmt(s.init, deep), Instr("label", start)>> \o Test(s.c, end)
      \o <<Stmt(s.body, deep), Stmt(s.inc, deep), Instr("jmp", start), Instr("label", end)>>

GenAct(s) == s.t = "act" /\ GenExpr("act", 0, s.name)
GenRet(s, deep) ==
    /\ s.t = "ret"
    /\ Becomes(<<Instr("ret", deep)>>, 0)
    /\ UNCHANGED lit
GenBlock(s, deep) ==
    /\ s.t = "block"
    /\ Becomes(BlockItems(s, deep), 0)
    /\ UNCHANGED lit
IfLabelsOne(s) == 1                              \* mutant
IfLabels(s) == IF s.else = None THEN 1 ELSE 2
GenIf(s, deep) ==
    /\ s.t = "if"
    /\ Becomes(IfItems(s, deep, label, label + 1), IfLabels(s))
    /\ UNCHANGED lit
GenWhile(s, deep) ==
    /\ s.t = "while"
    /\ Becomes(WhileItems(s, deep, label, label + 1), 2)
    /\ UNCHANGED lit
GenFor(s, deep) ==
    /\ s.t = "for"
    /\ Becomes(ForItems(s, deep, label, label + 1), 2)
    /\ UNCHANGED lit

GenCond == LET item == code[Hole] IN
    /\ item.op = "cond"
    /\ GenAtom(item.c, item.d) \/ GenLogical(item.c, item.d)
GenStmt == LET item == code[Hole] IN
    /\ item.op = "stmt"
    /\ \/ GenAct(item.s) \/ GenRet(item.s, item.deep) \/ GenBlock(item.s, item.deep)
       \/ GenIf(item.s, item.deep) \/ GenWhile(item.s, item.deep) \/ GenFor(item.s, item.deep)
Gen == ~Generated /\ (GenCond \/ GenStmt)
-----------------------------------------------------------------------------
(* The machine, from when the code is complete and while the next event of *)
(* the source is known.                                                    *)

Here == code[pc]
Running == Generated /\ Settled(todo) /\ Here.op # "ret"
Target(l) == CHOOSE i \in DOMAIN code : code[i] = Instr("label", l)
LowByte(v) == v \cap 0 .. 7

Goto(i) == pc' = i /\ UNCHANGED <<body, code, label, lit>>
\* The register of depth d gets a value; those above it are free again.
Assign(d, v) == regs' = Append(SubSeq(regs, 1, d), v)

\* An expression statement.
DoAct ==
    /\ Here.op = "act"
    /\ Goto(pc + 1)
    /\ todo' = AfterAct(todo)
    /\ UNCHANGED <<regs, zf, frames>>

\* A condition's operand takes some value.
DoAtom ==
    /\ Here.op = "atom"
    /\ \E v \in Vals : Assign(Here.arg, v) /\ todo' = AfterAtom(todo, v # {})
    /\ Goto(pc + 1)
    /\ UNCHANGED <<zf, frames>>

\* and, or, setne; mask is an and with 0xff.
DoLogic ==
    LET d == Here.arg + 1
        \* and/or set zf too; the cmp with 0 that follows them sets the same.
        value == CASE Here.op = "and"    -> regs[d] \cap regs[d + 1]
                   [] Here.op = "or"     -> regs[d] \cup regs[d + 1]
                   [] Here.op = "mask" -> LowByte(regs[d])
                   [] Here.op = "setne"  ->
                        (regs[d] \ LowByte(regs[d])) \cup (IF regs[d] # {} THEN {0} ELSE {})
    IN
    /\ Here.op \in {"and", "or", "mask", "setne"}
    /\ Assign(Here.arg, value)
    /\ Goto(pc + 1)
    /\ UNCHANGED <<zf, frames, todo>>

DoCmp ==
    /\ Here.op = "cmp"
    /\ zf' = (regs[Here.arg + 1] = {})
    /\ Goto(pc + 1)
    /\ UNCHANGED <<regs, frames, todo>>

Taken == Here.op = "jmp" \/ (Here.op = "je" /\ zf) \/ (Here.op = "jne" /\ ~zf)
DoJump ==
    /\ Here.op \in {"jmp", "je", "jne", "label"}
    /\ Goto(IF Taken THEN Target(Here.arg) ELSE pc + 1)
    /\ UNCHANGED <<regs, zf, frames, todo>>

\* create_stack_frame and destroy_stack_frame.
DoFrame ==
    /\ Here.op \in {"enter", "leave"}
    /\ frames' = IF Here.op = "enter" THEN frames + 1 ELSE frames - 1
    /\ Goto(pc + 1)
    /\ UNCHANGED <<regs, zf, todo>>

Run == Running /\ (DoAct \/ DoAtom \/ DoLogic \/ DoCmp \/ DoJump \/ DoFrame)

\* The source goes on to its next event.
Unfold ==
    /\ Generated /\ ~Settled(todo)
    /\ todo' = Unfolded(todo)
    /\ UNCHANGED <<body, code, label, lit, machine>>
-----------------------------------------------------------------------------
\* A function: the frame of its body, and a ret after it.
FuncItemsNoRet(list) == <<Stmt(Block(list), 0)>>         \* mutant
FuncItems(list) == <<Stmt(Block(list), 0), Instr("ret", 0)>>
Init ==
    /\ body \in Programs
    /\ code = FuncItems(body) /\ label = 0 /\ lit = 0
    /\ pc = 1 /\ regs = << >> /\ zf = FALSE /\ frames = 0
    /\ todo = body

Next == Gen \/ Run \/ Unfold

Spec == Init /\ [][Next]_vars
-----------------------------------------------------------------------------
TypeOK ==
    /\ label \in Nat /\ lit \in Nat
    /\ pc \in DOMAIN code
    /\ regs \in Seq(SUBSET Bits)
    /\ zf \in BOOLEAN
    /\ frames \in Nat

\* The emitted code evaluates the expressions the source statements evaluate,
\* in the same order, on the same paths, and returns when they do: no jump of
\* an if, a loop or a short circuit goes to the wrong place.
SameEvents ==
    Generated /\ Settled(todo) =>
      /\ Here.op = "act"  => NextEvent(todo) = <<"act", Here.name>>
      /\ Here.op = "atom" => NextEvent(todo) = <<"atom", Here.name>>
      /\ Here.op = "ret"  => NextEvent(todo) = <<"return">>

\* "destroy all the stack frames to get to the return address": a return
\* removes as many frames as are open when it is reached on any path, and so
\* does the end of the function.
FramesUnwound == Generated /\ Here.op = "ret" => frames = Here.arg

\* Every jump has one target: label_counter gives each construct labels of
\* its own, however the constructs are nested.
LabelsResolve ==
    Generated => \A i \in DOMAIN code :
      code[i].op \in {"jmp", "je", "jne", "label"} =>
        Cardinality({j \in DOMAIN code : code[j] = Instr("label", code[i].arg)}) = 1
=============================================================================
