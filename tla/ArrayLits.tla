------------------------------ MODULE ArrayLits ------------------------------
(***************************************************************************)
(* The array literals of a function in the order in which .rodata defines  *)
(* them (src/ast.c), next to the order in which its code numbers them.     *)
(***************************************************************************)
EXTENDS CtrlFlow, SequencesExt

RECURSIVE CondLits(_), StmtLits(_)
LitsOf(name) == IF name \in Literals THEN <<name>> ELSE << >>
CondLits(c) ==
    IF c.t = "atom" THEN LitsOf(c.name) ELSE CondLits(c.l) \o CondLits(c.r)
IfLitsElseFirst(s) ==                    \* mutant: else_body before body
    CondLits(s.c) \o StmtLits(s.else) \o StmtLits(s.body)
IfLits(s) == CondLits(s.c) \o StmtLits(s.body) \o StmtLits(s.else)
BlockLits(list) == FlattenSeq([i \in DOMAIN list |-> StmtLits(list[i])])
WhileLits(s) == CondLits(s.c) \o StmtLits(s.body)
ForLits(s) ==
    StmtLits(s.init) \o CondLits(s.c) \o StmtLits(s.inc) \o StmtLits(s.body)
StmtLits(s) ==
    CASE s.t \in {"none", "ret"} -> << >>
      [] s.t = "act"   -> LitsOf(s.name)
      [] s.t = "block" -> BlockLits(s.body)
      [] s.t = "if"    -> IfLits(s)
      [] s.t = "while" -> WhileLits(s)
      [] s.t = "for"   -> ForLits(s)

\* The literals that the code names, and .rodata as it numbers them from 0.
Named == {i \in DOMAIN code : code[i].lit # NoLit}
rodata == BlockLits(body)

\* The array_lit_<n>$ that an instruction names is the literal of its own
\* expression: array_lit_counter counts in the order in which
\* BlockNode_get_array_lits lists them for .rodata.
LiteralsMatch ==
    Generated /\ pc = 1 =>
      /\ \A i \in Named : code[i].lit < Len(rodata) /\ rodata[code[i].lit + 1] = code[i].name
      /\ Len(rodata) = Cardinality(Named)
=============================================================================
