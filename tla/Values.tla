-------------------------------- MODULE Values --------------------------------
(***************************************************************************)
(* The type, the verdict and the value of an expression: what              *)
(* SY_shunting_yard notes in each node when it builds it (Expr_type and    *)
(* its companions in src/ast.c), what Expr_verify says of it, what         *)
(* Expr_const_fold makes of it with -O, and what the code computes that    *)
(* get_expr_instructions (src/x86/ir.c) and write_instr                    *)
(* (src/x86/code_gen.c) emit for it, beside what C says (CValues).         *)
(*                                                                         *)
(* An expression is built in postfix order, which is the order of its      *)
(* evaluation; one action is one node.  Where the code does not do what C  *)
(* says, the node is given the name of the deviation, and with it          *)
(* everything above it.  Calls, and what || and && skip, are left to       *)
(* ExprGen and CtrlFlow.                                                   *)
(***************************************************************************)
EXTENDS CValues, Sequences, SequencesExt, FiniteSetsExt

CONSTANTS
  Objects,     \* the objects in memory, [prim, lvl, addr, bytes, array]
  Memories,    \* the memories to begin with
  Grammars,    \* what an expression is made of, [lits, vars, strings, ops, casts]
  MaxNodes     \* bound: nodes of an expression

Addresses == UNION {o.addr .. o.addr + o.bytes - 1 : o \in Objects}
ASSUME ValuesAssumption ==
    /\ \A o \in Objects :
         /\ o.prim \in Prims /\ o.lvl \in Nat /\ o.array \in BOOLEAN
         /\ o.array => o.lvl > 0
         /\ o.addr \in Nat /\ o.bytes \in Nat \ {0} /\ o.addr + o.bytes < Mod(4)
    /\ \A m \in Memories : m \in [Addresses -> 0 .. Mod(1) - 1]
    /\ \A g \in Grammars :
         /\ g.lits \subseteq 0 .. Mod(4) - 1 /\ g.strings \subseteq Addresses
         /\ g.vars \subseteq Objects
         /\ \A t \in g.casts : t = CType(t.prim, t.lvl) /\ t.prim \in Prims /\ t.lvl \in Nat
    /\ MaxNodes \in Nat

VARIABLES
  grammar,
  optimize,    \* CompArgs_args.optimize
  mem,         \* the memory the emitted code works on
  cmem,        \* the memory of C
  stack,       \* the finished subexpressions that no node has taken yet
  count        \* nodes so far

vars == <<grammar, optimize, mem, cmem, stack, count>>

W == Mod(4)
\* Instead of a value: the processor traps, the assembler rejects the code,
\* the compiler fails an assertion.
Traps == -1
Unassembled == -2
Aborts == -3
NoAddress == -4
AX == 0
NRegs == 3

Top == Last(stack)
Below == stack[Len(stack) - 1]
FreeReg(keep) == Min({r \in 0 .. NRegs : \A i \in 1 .. keep : stack[i].reg # r})

\* Memory, little endian; nothing is stored outside of the objects.
ByteAt(m, a) == IF a \in DOMAIN m THEN m[a] ELSE 0
HalfAt(m, a) == ByteAt(m, a) + ByteAt(m, a + 1) * Mod(1)
Load(m, a, bytes) ==
    CASE bytes = 1 -> ByteAt(m, a)
      [] bytes = 2 -> HalfAt(m, a)
      [] bytes = 4 -> HalfAt(m, a) + HalfAt(m, a + 2) * Mod(2)
Store(m, a, bytes, v) ==
    [b \in DOMAIN m |-> IF b \in a .. a + bytes - 1 THEN (v \div Mod(b - a)) % Mod(1) ELSE m[b]]
Bytes(a, t) == a .. a + CSize(t) - 1
\* C gives *a a value, of type t.
Holds(a, t) == \E o \in Objects :
    /\ t = CType(o.prim, IF o.array THEN o.lvl - 1 ELSE o.lvl)
    /\ a \in o.addr .. o.addr + o.bytes - 1 /\ (a - o.addr) % CSize(t) = 0
CLoad(a, t) == IF Holds(a, t) THEN Convert(t, Load(cmem, a, CSize(t))) ELSE Undefined

\* Zero extension is right of what is not negative.
Narrow(v, bytes, t) == IF IsPtr(t) \/ Convert(t, v) % W = v THEN {} ELSE {"narrow"}

(* A node.  prim, og and lvl are prim_type, non_prom_prim_type and         *)
(* lvls_of_indir; v and a what the code leaves in register reg when        *)
(* load_reference is false and when it is true; static and fold what       *)
(* Expr_statically_evaluatable and Expr_evaluate return; ct, cv and ca the *)
(* type, value and address in C; reads and writes the bytes it uses.       *)
(* `here' and `below' are the deviations of this node and of those under   *)
(* it, `foldHere' and `foldBelow' those of Expr_evaluate.                  *)
Node == [kind |-> "lit", ok |-> TRUE, prim |-> "int", og |-> "int", lvl |-> 0, array |-> FALSE,
         reg |-> AX, v |-> Aborts, a |-> Aborts, static |-> FALSE, fold |-> Aborts,
         ct |-> NoType, cv |-> Undefined, ca |-> NoAddress, reads |-> {}, writes |-> {},
         here |-> {}, below |-> {}, foldHere |-> {}, foldBelow |-> {}]

\* The code sees a static operand as a literal when it optimizes.
Seen(e) ==
    IF optimize /\ e.static
      THEN [e EXCEPT !.kind = "lit", !.v = e.fold, !.a = e.fold,
                     !.here = e.foldHere, !.below = e.foldBelow]
      ELSE e
Odd(e) == e.here \cup e.below
FoldOdd(e) == e.foldHere \cup e.foldBelow
Conflict(l, r) ==
    l.writes \cap (r.reads \cup r.writes) # {} \/ r.writes \cap (l.reads \cup l.writes) # {}
If(cond, name) == IF cond THEN {name} ELSE {}
-----------------------------------------------------------------------------
(* The attributes of an operator's node (move_operator_to_out_queue).      *)

MaxLvl(l, r) == IF r.lvl > l.lvl THEN r.lvl ELSE l.lvl
BinaryPrim(l, r) == BinaryType(l.prim, l.lvl, r.prim, r.lvl)
BinaryOg(l, r) == IF r.lvl > l.lvl THEN r.og ELSE l.og

\* verify_expr: ExprType_is_valid_ptr_operation and the functions after it.
PtrOpsNoMinus == {"="} \cup Comparison      \* mutant: forgets the difference
PtrOps == {"=", "-"} \cup Comparison
SinglePtrOps == {"+", "-", "[]"}
VerifyBinary(op, l, r) ==
    /\ l.ok /\ r.ok
    /\ l.lvl > 0 => op \in (IF r.lvl > 0 THEN PtrOps ELSE SinglePtrOps)
Steps == {"++x", "--x", "x++", "x--"}
VerifyUnary(op, l) ==
    /\ l.ok
    /\ IF op = "&x" THEN l.kind \in {"var", "*x"}
       ELSE l.lvl > 0 => op \in {"*x", "cast"} \cup Steps

Unary(op, l) == [Node EXCEPT !.kind = op, !.ok = VerifyUnary(op, l), !.reg = l.reg,
    !.reads = l.reads, !.writes = l.writes, !.below = Odd(l), !.foldBelow = FoldOdd(l)]
Binary(op, l, r) == [Node EXCEPT !.kind = op, !.ok = VerifyBinary(op, l, r), !.reg = l.reg,
    !.reads = l.reads \cup r.reads, !.writes = l.writes \cup r.writes,
    !.below = Odd(l) \cup Odd(r), !.foldBelow = FoldOdd(l) \cup FoldOdd(r)]
-----------------------------------------------------------------------------
Init ==
    /\ grammar \in Grammars /\ optimize \in BOOLEAN
    /\ mem \in Memories /\ cmem = mem
    /\ stack = << >> /\ count = 0

\* One more node, that takes the n topmost ones: they are C, and the
\* expression can be finished within the bound.
CanAdd(n) ==
    /\ Len(stack) >= n
    /\ \A i \in DOMAIN stack : stack[i].ct # NoType
    /\ count + Len(stack) - n + 1 <= MaxNodes
    /\ Len(stack) - n < NRegs
    /\ count' = count + 1
Push(n, e) == stack' = Append(SubSeq(stack, 1, Len(stack) - n), e)
Pure == UNCHANGED <<grammar, optimize, mem, cmem>>

(* Leaves.                                                                 *)
Literal(n) ==
    /\ CanAdd(0) /\ n \in grammar.lits
    /\ Push(0, [Node EXCEPT !.reg = FreeReg(Len(stack)), !.static = TRUE, !.fold = n, !.v = n, !.a = n, !.ct = CInt, !.cv = n])
    /\ Pure

Variable(o) ==
    LET t == CType(o.prim, o.lvl)
        v == IF o.array THEN o.addr ELSE Load(mem, o.addr, CSize(t))
    IN
    /\ CanAdd(0) /\ o \in grammar.vars
    /\ Push(0, [Node EXCEPT !.kind = "var", !.prim = Promote(Promote(o.prim, o.lvl), o.lvl), !.og = o.prim,
                !.lvl = o.lvl, !.array = o.array, !.reg = FreeReg(Len(stack)),
                !.v = v, !.a = o.addr, !.here = Narrow(v, CSize(t), t),
                !.ct = t, !.cv = IF o.array THEN o.addr ELSE CLoad(o.addr, t),
                !.ca = IF o.array THEN NoAddress ELSE o.addr,
                !.reads = IF o.array THEN {} ELSE Bytes(o.addr, t)])
    /\ Pure

\* A string literal: its characters are in memory at addr, and no array
\* literal can be evaluated.
StringLiteral(addr) ==
    /\ CanAdd(0) /\ addr \in grammar.strings
    /\ Push(0, [Node EXCEPT !.kind = "string", !.prim = "char", !.og = "char", !.lvl = 1, !.static = TRUE,
                !.reg = FreeReg(Len(stack)), !.v = addr, !.a = addr, !.foldHere = {"string"},
                !.ct = CType("char", 1), !.cv = addr])
    /\ Pure

(* Operators of one operand.                                               *)
Broken(v) == v < 0
S(v) == AsSigned(v, 4)
CodeUnary(op, v) ==
    IF Broken(v) THEN v
    ELSE CASE op = "+x" -> v
           [] op = "-x" -> (W - v) % W
           [] op = "~x" -> W - 1 - v
           [] op = "!x" -> Truth(v = 0)
CUnary(op, t, v) ==
    IF v = Undefined THEN Undefined
    ELSE CASE op = "+x" -> v
           [] op = "-x" -> InRange(t, -v)
           [] op = "~x" -> Convert(t, -v - 1)
           [] op = "!x" -> Truth(v = 0)
UnaryOp(op) ==
    LET l == Seen(Top)
        prim == Promote(Top.prim, Top.lvl)
        t == IF op = "!x" THEN CInt ELSE IF IsArith(Top.ct) THEN CPromote(Top.ct) ELSE NoType
        typed == If(op = "!x" /\ ~Signed(prim, Top.lvl), "typed")
    IN
    /\ CanAdd(1) /\ op \in grammar.ops \cap {"+x", "-x", "~x", "!x"}
    /\ Push(1, [Unary(op, l) EXCEPT !.prim = prim, !.og = Top.og, !.lvl = Top.lvl,
                !.v = CodeUnary(op, l.v), !.a = CodeUnary(op, l.v), !.here = typed,
                !.static = Top.static, !.fold = CodeUnary(op, Top.fold), !.foldHere = typed,
                !.ct = t, !.cv = CUnary(op, t, Top.cv)])
    /\ Pure

\* No instruction is emitted for a type cast.
Cast(t) ==
    LET l == Seen(Top)
        Cut(v) == If(~Broken(v) /\ Convert(t, v) % W # v, "cast")
    IN
    /\ CanAdd(1) /\ "cast" \in grammar.ops /\ t \in grammar.casts
    /\ Push(1, [Unary("cast", l) EXCEPT !.prim = t.prim, !.og = t.prim, !.lvl = t.lvl,
                !.v = l.v, !.a = l.v, !.here = Cut(l.v),
                !.static = Top.static, !.fold = Top.fold, !.foldHere = Cut(Top.fold),
                !.ct = t, !.cv = IF Top.cv = Undefined THEN Undefined ELSE Convert(t, Top.cv)])
    /\ Pure

Reference ==
    /\ CanAdd(1) /\ "&x" \in grammar.ops /\ ~Top.array
    /\ Push(1, [Unary("&x", Top) EXCEPT
                !.prim = Promote(Top.prim, Top.lvl + 1), !.og = Top.og, !.lvl = Top.lvl + 1, !.v = Top.a, !.a = Top.a,
                !.ct = IF Top.ca = NoAddress THEN NoType ELSE CType(Top.ct.prim, Top.ct.lvl + 1),
                !.cv = IF Top.cv = Undefined THEN Undefined ELSE Top.ca])
    /\ Pure

\* What a pointer of type t points at, a in the code and c in C, for an
\* operator's node e.
Pointed(e, bytes, a, t, c) ==
    LET v == IF Broken(a) THEN a ELSE Load(mem, a, bytes)
        at == c # Undefined /\ Holds(c, t)
    IN [e EXCEPT !.v = v, !.a = a, !.here = IF Broken(v) THEN {} ELSE Narrow(v, bytes, t),
        !.ct = t, !.cv = IF at THEN CLoad(c, t) ELSE Undefined, !.ca = IF at THEN c ELSE NoAddress,
        !.reads = e.reads \cup IF at THEN Bytes(c, t) ELSE {}]

\* A dereferenced non-pointer fails the assertion in Expr_lvls_of_indir.
Dereference ==
    LET l == Seen(Top) IN
    /\ CanAdd(1) /\ "*x" \in grammar.ops
    /\ IF Top.lvl = 0
         THEN Push(1, [Unary("*x", l) EXCEPT !.og = Top.og])
         ELSE Push(1, [Pointed(Unary("*x", l), Size(Top.og, Top.lvl - 1), l.v, Pointee(Top.ct), Top.cv)
                      EXCEPT !.prim = Promote(Top.prim, Top.lvl - 1), !.og = Top.og, !.lvl = Top.lvl - 1])
    /\ Pure

(* Operators of two operands.                                              *)
Worst(l, r) == IF l < r THEN l ELSE r
\* One of the instructions of expr_to_instr_t; mul and div work on ax, and
\* what write_instr emits to get another register there is no instruction of
\* the mode it assembles for, nor is what it emits before an unsigned div.
CodeDivide(op, signed, l, r) ==
    IF op = "/" /\ ~signed THEN Unassembled
    ELSE IF r = 0 THEN Traps
    ELSE IF ~signed THEN IF l >= W \div 2 THEN Traps ELSE l % r     \* cdq
    ELSE IF AsSigned(Quotient(S(l), S(r)) % W, 4) # Quotient(S(l), S(r)) THEN Traps
    ELSE IF op = "/" THEN Quotient(S(l), S(r)) % W
    ELSE (S(l) - S(r) * Quotient(S(l), S(r))) % W
CodeArith(op, signed, l, r, reg) ==
    CASE op = "+" -> (l + r) % W
      [] op = "-" -> (l - r) % W
      [] op \in {"*", "/", "%"} -> IF reg # AX THEN Unassembled
                                  ELSE IF op = "*" THEN (l * r) % W
                                  ELSE CodeDivide(op, signed, l, r)
      [] OTHER -> Aborts
CodeCompareDifference(op, signed, l, r) == l - r     \* mutant: no set instruction
CodeCompare(op, signed, l, r) == IF signed THEN Compare(op, S(l), S(r)) ELSE Compare(op, l, r)
\* The jump over the right operand comes before the mask (||) or after it (&&).
CodeLogical(op, l, r) ==
    IF op = "||" /\ l # 0 THEN l % Mod(1)
    ELSE IF op = "&&" /\ l = 0 THEN 0
    ELSE IF Broken(r) THEN r
    ELSE IF op = "||" THEN Truth(r # 0)
    ELSE Truth(BitAnd(l, r) # 0)

\* The literal or the register that is added to a pointer is shifted.
ScaleNever(op, l, r) == r.v      \* mutant
Scaled(op, l, r) ==
    IF l.lvl > 0 /\ r.lvl = 0 THEN (r.v * Size(l.og, l.lvl - 1)) % W ELSE r.v
CodeBinary(op, signed, l, r) ==
    LET both == CodeArith(op, signed, l.v, Scaled(op, l, r), l.reg) IN
    IF Broken(l.v) THEN l.v
    ELSE IF op \in Logical THEN CodeLogical(op, l.v, r.v)
    ELSE IF Broken(r.v) THEN r.v
    ELSE IF op \in Comparison THEN CodeCompare(op, signed, l.v, r.v)
    ELSE IF ~Broken(both) /\ l.lvl > 0 /\ r.lvl > 0 THEN both \div Size(l.og, l.lvl - 1)     \* shr
    ELSE both

\* Expr_evaluate: both operands are evaluated, whatever the operator.
FoldBinary(op, signed, l, r) ==
    IF Broken(l) \/ Broken(r) THEN Worst(l, r)
    ELSE CASE op = "&&" -> Truth(l # 0 /\ r # 0)
           [] op = "||" -> Truth(l # 0 \/ r # 0)
           [] op \in Comparison -> CodeCompare(op, signed, l, r)
           [] op = "&" -> BitAnd(l, r)
           [] op \in {"+", "-", "*"} -> CodeArith(op, signed, l, r, AX)
           [] op \in {"/", "%"} -> IF r = 0 THEN Traps
                                  ELSE IF signed THEN CodeDivide(op, signed, l, r)
                                  ELSE IF op = "/" THEN l \div r ELSE l % r
           [] OTHER -> 0

CNull(e) == e.kind = "lit" /\ e.cv = 0
\* What is computed from two values.
COperate(op, t, l, r) ==
    IF IsArith(l.ct) /\ IsArith(r.ct) THEN
      IF op \in Comparison
        THEN LET u == CUsual(l.ct, r.ct) IN Compare(op, Convert(u, l.cv), Convert(u, r.cv))
        ELSE CArith(op, t, Convert(t, l.cv), Convert(t, r.cv))
    ELSE CASE op \in Equality -> Compare(op, l.cv, r.cv)
           [] op \in Relational ->
                IF SameObject(Objects, l.cv, r.cv) THEN Compare(op, l.cv, r.cv) ELSE Undefined
           [] op = "+" -> IF IsPtr(l.ct) THEN CPointerAdd(Objects, l.ct, l.cv, r.cv)
                                         ELSE CPointerAdd(Objects, r.ct, r.cv, l.cv)
           [] op = "-" -> IF IsPtr(r.ct) THEN CPointerSub(Objects, l.ct, l.cv, r.cv)
                                         ELSE CPointerAdd(Objects, l.ct, l.cv, -r.cv)
CBinary(op, t, l, r) ==
    IF l.cv = Undefined \/ (Conflict(l, r) /\ op \notin Logical \cup {","}) THEN Undefined
    ELSE IF op = "&&" /\ l.cv = 0 THEN 0
    ELSE IF op = "||" /\ l.cv # 0 THEN 1
    ELSE IF r.cv = Undefined \/ t = NoType THEN Undefined
    ELSE IF op \in Logical THEN Truth(r.cv # 0)
    ELSE IF op = "," THEN r.cv
    ELSE COperate(op, t, l, r)

\* The deviations of the types, of the code and of Expr_evaluate.
TypedOdd(op, l, r, signed) ==
    If(op \in Comparison \cup Logical /\ ~signed, "typed") \cup If(op = ",", "comma")
      \cup If(op = "-" /\ l.lvl > 0 /\ r.lvl > 0, "difference")
CodeOdd(op, l, r, signed) ==
    If(op = "&&" /\ l.v # 0 /\ r.v # 0 /\ (Broken(l.v) \/ Broken(r.v) \/ BitAnd(l.v, r.v) = 0), "and")
      \cup If(op = "||" /\ l.v # 0 /\ l.v % Mod(1) # 1, "or")
      \cup If(op = "+" /\ l.lvl = 0 /\ r.lvl > 0, "scale")
      \cup If(op = "&", "unsupported")
      \cup If(op \in {"*", "/", "%"} /\ l.reg # AX, "not in ax")
      \cup If(op = "/" /\ ~signed, "unsigned division")
      \cup If(op = "%" /\ ~signed /\ l.v >= W \div 2, "unsigned remainder")
BinaryOp(op) ==
    LET l == Seen(Below)
        r == Seen(Top)
        prim == BinaryPrim(Below, Top)
        signed == Signed(prim, MaxLvl(l, r))
        typed == TypedOdd(op, l, r, signed)
        v == CodeBinary(op, signed, l, r)
        t == CBinaryType(op, l.ct, r.ct, CNull(Below), CNull(Top))
    IN
    /\ CanAdd(2) /\ op \in grammar.ops \cap BinaryOps
    /\ op \in Logical => r.writes = {}
    /\ Push(2, [Binary(op, l, r) EXCEPT !.prim = prim, !.og = BinaryOg(l, r), !.lvl = MaxLvl(l, r), !.v = v, !.a = v,
                !.here = typed \cup CodeOdd(op, l, r, signed),
                !.static = Below.static /\ Top.static,
                !.fold = FoldBinary(op, signed, Below.fold, Top.fold),
                !.foldHere = typed \cup If(op \in Logical /\ Broken(Top.fold), "skipped"),
                !.ct = t, !.cv = CBinary(op, t, l, r)])
    /\ Pure

\* The register of a variable index is shifted left by 2^size - 1, a literal
\* index is multiplied by the size; of an index on the left the size is
\* that of a pointer.
IndexShift(bytes) == CASE bytes = 1 -> 2 [] bytes = 2 -> 8 [] bytes = 4 -> 32768
IndexAddress(l, r, bytes) ==
    (l + r.v * (IF r.kind = "lit" THEN bytes ELSE IndexShift(bytes))) % W
Index ==
    LET l == Seen(Below)
        r == Seen(Top)
        bytes == IF l.lvl = 0 THEN 4 ELSE Size(l.og, l.lvl - 1)
        lvl == MaxLvl(l, r) - 1
        a == IF Broken(l.v) THEN l.v ELSE IF Broken(r.v) THEN r.v ELSE IndexAddress(l.v, r, bytes)
        p == CBinaryType("+", l.ct, r.ct, FALSE, FALSE)
        odd == If(r.kind # "lit" /\ r.v # 0, "index")
        prim == BinaryPrim(l, r)
        e == Pointed(Binary("[]", l, r), bytes, a,
                     IF IsPtr(p) THEN Pointee(p) ELSE NoType,
                     CBinary("+", p, l, r))
    IN
    /\ CanAdd(2) /\ "[]" \in grammar.ops
    /\ MaxLvl(l, r) > 0
    /\ Push(2, [e EXCEPT !.prim = IF lvl = 0 THEN Promote(prim, 0) ELSE prim, !.og = BinaryOg(l, r), !.lvl = lvl,
                !.here = e.here \cup odd])
    /\ Pure

\* Without a pointer it fails the assertion in Expr_lvls_of_indir, as the
\* dereference does.
IndexNoPointer ==
    /\ CanAdd(2) /\ "[]" \in grammar.ops
    /\ MaxLvl(Below, Top) = 0
    /\ Push(2, Binary("[]", Seen(Below), Seen(Top)))
    /\ Pure

\* The bytes at c are not written anywhere else before the next sequence point.
\* A store that is undefined may write anything.
CStores(e, t, c) == c # NoAddress /\ Bytes(c, t) \cap e.writes = {}

\* The value of the node is the address; the size is that of the left type.
AssignSizeRight(l, r) == Size(r.og, r.lvl)     \* mutant
AssignSize(l, r) == Size(l.og, l.lvl)
Assign ==
    LET l == Seen(Below)
        r == Seen(Top)
        e == Binary("=", l, r)
        bad == Broken(l.a) \/ Broken(r.v)
        valid == l.ca # NoAddress /\ CAssignable(l.ct, r.ct, CNull(Top))
        defined == valid /\ r.cv # Undefined /\ ~Conflict(l, r) /\ CStores(e, l.ct, l.ca)
        c == Convert(l.ct, r.cv)
    IN
    /\ CanAdd(2) /\ "=" \in grammar.ops
    /\ mem' = IF bad THEN mem ELSE Store(mem, l.a, AssignSize(l, r), r.v)
    /\ cmem' = IF defined THEN Store(cmem, l.ca, CSize(l.ct), c % W) ELSE cmem
    /\ Push(2, [e EXCEPT !.prim = BinaryPrim(l, r), !.og = BinaryOg(l, r), !.lvl = MaxLvl(l, r),
                !.v = IF bad THEN Worst(l.a, r.v) ELSE l.a, !.a = l.a, !.here = {"assigned"},
                !.static = Below.static /\ Top.static,
                !.ct = IF valid THEN l.ct ELSE NoType, !.cv = IF defined THEN c ELSE Undefined,
                !.writes = e.writes \cup IF defined THEN Bytes(l.ca, l.ct) ELSE Addresses])
    /\ UNCHANGED <<grammar, optimize>>

\* ++ and --: inc or dec on the bytes at the address, as often as a pointer's
\* step is wide.  A load of one or two bytes leaves the rest of the register:
\* the address's own, or that of a temporary.
Step(op, junk) ==
    LET l == Seen(Top)
        e == Unary(op, l)
        bytes == Size(l.og, l.lvl)
        by == (IF op \in {"++x", "x++"} THEN 1 ELSE -1) * (IF l.lvl = 0 THEN 1 ELSE Size(l.og, l.lvl - 1))
        old == Load(mem, l.a, bytes)
        new == (old + by) % Mod(bytes)
        postfix == op \in {"x++", "x--"}
        upper == IF postfix THEN junk ELSE l.a
        v == IF Broken(l.a) THEN l.a
             ELSE upper - (upper % Mod(bytes)) + (IF postfix THEN old ELSE new)
        c == IF l.ca = NoAddress \/ l.cv = Undefined THEN Undefined
             ELSE IF IsPtr(l.ct) THEN CPointerAdd(Objects, l.ct, l.cv, IF by > 0 THEN 1 ELSE -1)
             ELSE LET t == CPromote(l.ct) IN CArith("+", t, l.cv, by)
        defined == c # Undefined /\ CStores(e, l.ct, l.ca)
    IN
    /\ CanAdd(1) /\ op \in grammar.ops \cap Steps
    /\ postfix => FreeReg(Len(stack)) < NRegs
    /\ mem' = IF Broken(l.a) THEN mem ELSE Store(mem, l.a, bytes, new)
    /\ cmem' = IF defined THEN Store(cmem, l.ca, bytes, Convert(l.ct, c) % W) ELSE cmem
    /\ Push(1, [e EXCEPT !.prim = Promote(l.prim, l.lvl), !.og = l.og, !.lvl = l.lvl,
                !.reg = IF postfix THEN FreeReg(Len(stack)) ELSE l.reg,
                !.v = v, !.a = v, !.here = If(bytes < 4, "step"),
                !.ct = IF l.ca = NoAddress THEN NoType ELSE l.ct,
                !.cv = IF ~defined THEN Undefined ELSE IF postfix THEN l.cv ELSE Convert(l.ct, c),
                !.writes = e.writes \cup IF defined THEN Bytes(l.ca, l.ct) ELSE Addresses])
    /\ UNCHANGED <<grammar, optimize>>

Next ==
    \/ \E n \in grammar.lits : Literal(n)
    \/ \E o \in grammar.vars : Variable(o)
    \/ \E addr \in grammar.strings : StringLiteral(addr)
    \/ \E op \in {"+x", "-x", "~x", "!x"} : UnaryOp(op)
    \/ \E t \in grammar.casts : Cast(t)
    \/ Reference \/ Dereference
    \/ \E op \in BinaryOps : BinaryOp(op)
    \/ Index \/ IndexNoPointer \/ Assign
    \/ \E op \in Steps, junk \in {0, W - 1} : Step(op, junk)

Spec == Init /\ [][Next]_vars
-----------------------------------------------------------------------------
(* Properties.                                                             *)

Finished == Len(stack) = 1 /\ Top.ok
Defined == Top.cv # Undefined /\ Top.ct # NoType

\* The attributes are those of a node; every value fits a register; no two
\* unfinished operands share a register.
TypeOK ==
    /\ grammar \in Grammars /\ optimize \in BOOLEAN /\ count \in 0 .. MaxNodes
    /\ \A m \in {mem, cmem} : DOMAIN m = Addresses
                              /\ \A b \in DOMAIN m : m[b] \in 0 .. Mod(1) - 1
    /\ \A i \in DOMAIN stack :
         /\ stack[i].prim \in Prims /\ stack[i].og \in Prims /\ stack[i].lvl \in Nat
         /\ {stack[i].v, stack[i].a, stack[i].fold} \subseteq Aborts .. W - 1
         /\ stack[i].reg \in 0 .. NRegs - 1
    /\ \A i, j \in DOMAIN stack : i # j => stack[i].reg # stack[j].reg

\* The code that is emitted for an expression leaves in its register the
\* value that C gives it, with and without -O, unless a node of it is one
\* of the named deviations.
ValueAgrees ==
    Finished /\ Defined /\ Odd(Seen(Top)) = {} => Seen(Top).v = Top.cv % W

\* The emitted code stores what C stores, where C stores it and nowhere
\* else, unless a node below the top is a deviation.
MemoryAgrees == Finished /\ Defined /\ Seen(Top).below = {} => mem = cmem

\* The type that the parser notes in a node, by which the code is chosen
\* for everything above, has the size and the sign of C's: except for what
\* takes its type from operands that do not give it one.
TypeDeviations == {"typed", "comma", "difference", "assigned"}
TypesAgree ==
    Finished /\ Top.ct # NoType /\ Odd(Top) \cap TypeDeviations = {} =>
        IF IsPtr(Top.ct) THEN Top.lvl = Top.ct.lvl /\ Top.og = Top.ct.prim
        ELSE /\ Top.lvl = 0
             /\ Class(CType(Promote(Top.prim, 0), 0)) = Class(CPromote(Top.ct))

\* Expr_verify accepts two operands exactly when C does: but it wants no
\* pointer on the left of a null pointer constant, of && and || and of a
\* comma, and lets pass pointers on the right of what is none, pointers to
\* different types and assignments to what is no lvalue.  A subscript without
\* a pointer never gets to it (IndexNoPointer).
CTakes(op, l, r) ==
    IF op = "=" THEN l.ca # NoAddress /\ CAssignable(l.ct, r.ct, CNull(r))
    ELSE IF op = "[]" THEN IsPtr(CBinaryType("+", l.ct, r.ct, FALSE, FALSE))
    ELSE CBinaryType(op, l.ct, r.ct, CNull(l), CNull(r)) # NoType
TooStrict(op, l, r) ==
    IsPtr(l.ct) /\ (op \in Logical \cup {","} \/ (op \in Equality \cup {"="} /\ CNull(r)))
TooLax(op, l, r) ==
    \/ op = "=" /\ l.ca = NoAddress
    \/ IsPtr(r.ct) /\ l.ct # r.ct
Verified == BinaryOps \cup {"="} \cup If(MaxLvl(Below, Top) > 0, "[]")
Verdict ==
    Len(stack) > 1 /\ Below.ok /\ Top.ok /\ Below.ct # NoType /\ Top.ct # NoType
      /\ Odd(Below) \cap TypeDeviations = {} /\ Odd(Top) \cap TypeDeviations = {} =>
        \A op \in Verified :
            \/ VerifyBinary(op, Below, Top) <=> CTakes(op, Below, Top)
            \/ IF CTakes(op, Below, Top) THEN TooStrict(op, Below, Top) ELSE TooLax(op, Below, Top)
==============================================================================
