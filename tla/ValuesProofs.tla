---------------------------- MODULE ValuesProofs ----------------------------
(***************************************************************************)
(* The types that the parser notes and the verdicts of Expr_verify, for    *)
(* every expression over every set of objects: they are C's, as far as no  *)
(* node has one of the named deviations of the types.                      *)
(*                                                                         *)
(* What the properties say of a finished expression, or of the two         *)
(* topmost, holds of every subexpression on the stack (NodeInv).  And type *)
(* correctness: whatever a subexpression computes fits a register, which   *)
(* no other has, and either memory keeps bytes (FitsInv).                  *)
(***************************************************************************)
EXTENDS Values, SequenceTheorems, TLAPS

-----------------------------------------------------------------------------
(* Types.                                                                  *)

\* The types that int does not represent, and that are not smaller.
Unsigned == {"uint", "ulong"}

\* Promotion gives a type of a word.
LEMMA Promoted ==
    ASSUME NEW p \in Prims
    PROVE  /\ Promote(p, 0) \in {"int", "long", "uint", "ulong"}
           /\ Promote(p, 0) \in Unsigned <=> p \in Unsigned
           /\ Promote(p, 0) \in Prims
           /\ \A n \in Nat : n > 0 => Promote(p, n) = p
BY DEF Prims, SignedTypes, Unsigned, Promote

\* Of a word, only the sign is told apart.
LEMMA PromotedClass ==
    ASSUME NEW p \in Prims, NEW q \in Prims
    PROVE  (p \in Unsigned <=> q \in Unsigned)
             => Class(CType(Promote(p, 0), 0)) = Class(CPromote(CType(q, 0)))
<1>1. PICK a : a = Promote(p, 0)
  OBVIOUS
<1>2. PICK c : c = CPromote(CType(q, 0))
  OBVIOUS
<1>3. c.lvl = 0 /\ c.prim \in {"int", "long", "uint", "ulong"} /\ (c.prim \in Unsigned <=> q \in Unsigned)
  BY <1>2 DEF CPromote, CType, CInt, CSize, Size, Prims, SignedTypes, Unsigned
<1>4. SUFFICES ASSUME a \in Unsigned <=> c.prim \in Unsigned PROVE Class(CType(a, 0)) = Class(c)
  BY <1>1, <1>2, <1>3, Promoted
<1>5. Signed(a, 0) <=> Signed(c.prim, c.lvl)
  BY <1>1, <1>3, <1>4, Promoted DEF Signed, SignedTypes, Unsigned
<1>6. Signed(a, 0) = Signed(c.prim, c.lvl)
  BY <1>5 DEF Signed
<1>7. Size(a, 0) = 4 /\ Size(c.prim, c.lvl) = 4
  BY <1>1, <1>3, Promoted DEF Size
<1>8. Class(CType(a, 0)) = <<4, Signed(a, 0)>>
  BY <1>7 DEF Class, CType, IsPtr, CSize, CSigned
<1>9. Class(c) = <<4, Signed(c.prim, c.lvl)>>
  BY <1>3, <1>7 DEF Class, IsPtr, CSize, CSigned
<1>10. QED BY <1>6, <1>8, <1>9

\* Two types of arithmetic have a common one, unsigned if one of them is.
LEMMA UsualType ==
    ASSUME NEW p \in Prims, NEW q \in Prims
    PROVE  \E r \in Prims : /\ CUsual(CType(p, 0), CType(q, 0)) = CType(r, 0)
                            /\ r \in Unsigned <=> p \in Unsigned \/ q \in Unsigned
<1> DEFINE High(a, b) == IF Rank(a) > Rank(b) THEN a ELSE b
           Low(a, b) == IF Rank(a) > Rank(b) THEN b ELSE a
<1>1. PICK m \in {"int", "long", "uint", "ulong"} :
        CPromote(CType(p, 0)) = CType(m, 0) /\ (m \in Unsigned <=> p \in Unsigned)
  BY DEF CPromote, CType, CInt, CSize, Size, Prims, SignedTypes, Unsigned
<1>2. PICK n \in {"int", "long", "uint", "ulong"} :
        CPromote(CType(q, 0)) = CType(n, 0) /\ (n \in Unsigned <=> q \in Unsigned)
  BY DEF CPromote, CType, CInt, CSize, Size, Prims, SignedTypes, Unsigned
<1>3. /\ Rank(CType("int", 0)) = 0 /\ Rank(CType("uint", 0)) = 1
      /\ Rank(CType("long", 0)) = 2 /\ Rank(CType("ulong", 0)) = 3
  BY DEF Rank, CType, CSigned, Signed, SignedTypes
<1>4. CUsual(CType(p, 0), CType(q, 0)) =
        IF Rank(CType(m, 0)) > Rank(CType(n, 0))
          THEN IF m = "long" /\ n = "uint" THEN CType("ulong", 0) ELSE CType(m, 0)
          ELSE IF n = "long" /\ m = "uint" THEN CType("ulong", 0) ELSE CType(n, 0)
  BY <1>1, <1>2 DEF CUsual, CType
<1>5. QED BY <1>1, <1>2, <1>3, <1>4 DEF Prims, SignedTypes, Unsigned

\* Expr_type of two operands: the one with more levels, or the unsigned one.
IsTypeOfTwo(b, l, ll, r, rl) ==
    /\ b \in Prims
    /\ ll > rl => b = l
    /\ rl > ll => b = r
    /\ ll = 0 /\ rl = 0 => (b \in Unsigned <=> l \in Unsigned \/ r \in Unsigned)
LEMMA BinaryTypeIs ==
    ASSUME NEW l \in Prims, NEW ll \in Nat, NEW r \in Prims, NEW rl \in Nat
    PROVE  IsTypeOfTwo(BinaryType(l, ll, r, rl), l, ll, r, rl)
<1>1. /\ Promote(l, ll) \in Prims /\ Promote(r, rl) \in Prims
      /\ ll > 0 => Promote(l, ll) = l
      /\ rl > 0 => Promote(r, rl) = r
  BY DEF Promote, Prims, SignedTypes
<1>2. BinaryType(l, ll, r, rl) \in {Promote(l, ll), Promote(r, rl)}
  BY DEF BinaryType
<1>3. ll > rl => BinaryType(l, ll, r, rl) = l
  BY <1>1 DEF BinaryType
<1>4. rl > ll => BinaryType(l, ll, r, rl) = r
  BY <1>1 DEF BinaryType
<1>5. ASSUME ll = 0, rl = 0
      PROVE  BinaryType(l, ll, r, rl) \in Unsigned <=> l \in Unsigned \/ r \in Unsigned
  <2>1. PICK a \in {"int", "long", "uint", "ulong"} : a = Promote(l, 0) /\ (a \in Unsigned <=> l \in Unsigned)
    BY Promoted
  <2>2. PICK b \in {"int", "long", "uint", "ulong"} : b = Promote(r, 0) /\ (b \in Unsigned <=> r \in Unsigned)
    BY Promoted
  <2>3. Size(a, 0) = 4 /\ Size(b, 0) = 4
    BY DEF Size
  <2>4. BinaryType(l, ll, r, rl) = IF Signed(a, 0) THEN b ELSE a
    BY <1>5, <2>1, <2>2, <2>3 DEF BinaryType
  <2>5. QED BY <2>1, <2>2, <2>4 DEF Signed, SignedTypes, Unsigned
<1>6. QED BY <1>1, <1>2, <1>3, <1>4, <1>5 DEF IsTypeOfTwo
-----------------------------------------------------------------------------
(* Rows: sequences, whatever their elements are.                           *)

Row(s) == s \in Seq({s[i] : i \in DOMAIN s})

\* A sequence over any set is one.
LEMMA RowOf ==
    ASSUME NEW Base, NEW s \in Seq(Base)
    PROVE  Row(s)
<1> DEFINE T == {s[i] : i \in DOMAIN s}
<1>1. Len(s) \in Nat /\ DOMAIN s = 1 .. Len(s)
  OBVIOUS
<1>2. s \in [1 .. Len(s) -> T]
  <2>1. \A i \in DOMAIN s : s[i] \in T
    OBVIOUS
  <2>2. s = [i \in 1 .. Len(s) |-> s[i]]
    OBVIOUS
  <2> HIDE DEF T
  <2>3. QED BY <1>1, <2>1, <2>2
<1>3. s \in Seq(T)
  <2> HIDE DEF T
  <2>1. QED BY <1>1, <1>2
<1>4. QED
  BY <1>3 DEF Row

\* Its length, its domain and its elements.
LEMMA RowFacts ==
    ASSUME NEW s, Row(s)
    PROVE  /\ Len(s) \in Nat /\ DOMAIN s = 1 .. Len(s)
           /\ s = [i \in 1 .. Len(s) |-> s[i]]
BY DEF Row


\* What a node that takes the n topmost ones makes of the stack.
LEMMA Pushed ==
    ASSUME Row(stack), NEW n \in Nat, n <= Len(stack), NEW e, Push(n, e)
    PROVE  /\ Row(stack') /\ Len(stack') = Len(stack) - n + 1
           /\ \A i \in 1 .. Len(stack) - n : stack'[i] = stack[i]
           /\ stack'[Len(stack')] = e
<1> DEFINE T == {stack[i] : i \in DOMAIN stack} \cup {e}
<1>1. Len(stack) \in Nat /\ stack \in Seq(T) /\ e \in T
  <2>1. stack \in Seq({stack[i] : i \in DOMAIN stack}) /\ Len(stack) \in Nat
    BY RowFacts DEF Row
  <2>2. {stack[i] : i \in DOMAIN stack} \subseteq T
    OBVIOUS
  <2>3. e \in T
    OBVIOUS
  <2> HIDE DEF T
  <2>4. stack \in Seq(T)
    BY <2>1, <2>2, SeqMonotonic
  <2>5. QED BY <2>1, <2>3, <2>4
<1> HIDE DEF T
<1>2. stack' = Append(SubSeq(stack, 1, Len(stack) - n), e)
  BY DEF Push
<1>3. PICK low : low = SubSeq(stack, 1, Len(stack) - n)
  OBVIOUS
<1>4. /\ low \in Seq(T) /\ Len(low) = Len(stack) - n
      /\ \A i \in 1 .. Len(stack) - n : low[i] = stack[i]
  BY <1>1, <1>3
<1>5. /\ stack' \in Seq(T) /\ Len(stack') = Len(low) + 1
      /\ \A i \in 1 .. Len(low) : stack'[i] = low[i]
      /\ stack'[Len(low) + 1] = e
  BY <1>1, <1>2, <1>3, <1>4
<1>6. QED
  BY <1>1, <1>4, <1>5, RowOf
-----------------------------------------------------------------------------
(* The attributes of a node.                                               *)

IsNode(e) == DOMAIN e = DOMAIN Node
Clean(e) == Odd(e) \cap TypeDeviations = {}

\* e has the type of C, up to what promotion changes.
Noted(e) ==
    /\ e.ct.prim \in Prims /\ e.ct = CType(e.ct.prim, e.lvl)
    /\ e.prim \in Unsigned <=> e.ct.prim \in Unsigned
    /\ e.lvl > 0 \/ e.ca # NoAddress => e.og = e.ct.prim
\* Folding keeps the deviations of the type.
FoldsClean(e) ==
    e.static => /\ e.ca = NoAddress
                /\ e.ct # NoType => FoldOdd(e) \cap TypeDeviations = Odd(e) \cap TypeDeviations
NodeInv(e) ==
    /\ IsNode(e)
    /\ e.prim \in Prims /\ e.og \in Prims /\ e.lvl \in Nat
    /\ FoldsClean(e)
    /\ e.ok /\ e.ct # NoType /\ Clean(e) => Noted(e)

AttributesInv ==
    /\ grammar \in Grammars /\ optimize \in BOOLEAN
    /\ Row(stack) /\ \A i \in DOMAIN stack : NodeInv(stack[i])

\* A node in the place of the n topmost ones.
LEMMA PushKeeps ==
    ASSUME AttributesInv, NEW n \in Nat, n <= Len(stack), NEW e, Push(n, e), NodeInv(e),
           UNCHANGED <<grammar, optimize>>
    PROVE  AttributesInv'
<1>1. /\ Row(stack') /\ Len(stack') = Len(stack) - n + 1
      /\ \A i \in 1 .. Len(stack) - n : stack'[i] = stack[i]
      /\ stack'[Len(stack')] = e
  BY Pushed DEF AttributesInv
<1>2. Len(stack) \in Nat /\ DOMAIN stack = 1 .. Len(stack) /\ DOMAIN stack' = 1 .. Len(stack')
  BY <1>1, RowFacts DEF AttributesInv
<1>3. ASSUME NEW i \in DOMAIN stack' PROVE NodeInv(stack'[i])
  <2>1. CASE i = Len(stack')
    BY <1>1, <2>1
  <2>2. CASE i # Len(stack')
    <3>1. i \in 1 .. Len(stack) - n /\ i \in DOMAIN stack
      BY <1>1, <1>2, <2>2
    <3>2. QED BY <1>1, <3>1 DEF AttributesInv
  <2>3. QED BY <2>1, <2>2
<1>4. QED BY <1>1, <1>3 DEF AttributesInv

\* The node that the code sees has the same type.
LEMMA SeenAttributes ==
    ASSUME NEW e, NodeInv(e)
    PROVE  /\ IsNode(Seen(e))
           /\ Seen(e).prim = e.prim /\ Seen(e).og = e.og /\ Seen(e).lvl = e.lvl
           /\ Seen(e).ct = e.ct /\ Seen(e).ca = e.ca
           /\ Seen(e).ok <=> e.ok
           /\ Seen(e).static <=> e.static
           /\ FoldOdd(Seen(e)) = FoldOdd(e)
           /\ e.ct # NoType => Odd(Seen(e)) \cap TypeDeviations = Odd(e) \cap TypeDeviations
<1>1. DOMAIN e = DOMAIN Node
  BY DEF NodeInv, IsNode
<1>2. PICK s : s = Seen(e)
  OBVIOUS
<1>3. CASE ~(optimize /\ e.static)
  <2>1. Seen(e) = e
    BY <1>3 DEF Seen
  <2>2. QED BY <2>1 DEF NodeInv
<1>4. CASE optimize /\ e.static
  <2>1. s = [e EXCEPT !.kind = "lit", !.v = e.fold, !.a = e.fold, !.here = e.foldHere, !.below = e.foldBelow]
    BY <1>2, <1>4 DEF Seen
  <2>2. IsNode(s)
    BY <1>1, <2>1 DEF IsNode
  <2>3. s.prim = e.prim /\ s.og = e.og /\ s.lvl = e.lvl
    BY <1>1, <2>1 DEF Node
  <2>4. s.ct = e.ct /\ s.ca = e.ca
    BY <1>1, <2>1 DEF Node
  <2>5. (s.ok <=> e.ok) /\ (s.static <=> e.static)
    BY <1>1, <2>1 DEF Node
  <2>6. s.foldHere = e.foldHere /\ s.foldBelow = e.foldBelow
    BY <1>1, <2>1 DEF Node
  <2>7. s.here = e.foldHere /\ s.below = e.foldBelow
    BY <1>1, <2>1 DEF Node
  <2>8. FoldOdd(s) = FoldOdd(e) /\ Odd(s) = FoldOdd(e)
    BY <2>6, <2>7 DEF FoldOdd, Odd
  <2>9. e.ct # NoType => FoldOdd(e) \cap TypeDeviations = Odd(e) \cap TypeDeviations
    BY <1>4 DEF NodeInv, FoldsClean
  <2>10. QED BY <1>2, <2>2, <2>3, <2>4, <2>5, <2>8, <2>9
<1>5. QED BY <1>3, <1>4

LEMMA UnaryAttributes ==
    ASSUME NEW op, NEW l, NEW e, e = Unary(op, l)
    PROVE  /\ IsNode(e)
           /\ e.ok <=> VerifyUnary(op, l)
           /\ e.prim = "int" /\ e.og = "int" /\ e.lvl = 0
           /\ ~e.static /\ e.ca = NoAddress /\ e.ct = NoType
           /\ e.here = {} /\ e.foldHere = {}
           /\ e.below = Odd(l) /\ e.foldBelow = FoldOdd(l)
<1>1. IsNode(e)
  BY DEF Unary, IsNode
<1>2. e.ok <=> VerifyUnary(op, l)
  BY DEF Unary, Node
<1>3. e.prim = "int" /\ e.og = "int" /\ e.lvl = 0
  BY DEF Unary, Node
<1>4. ~e.static
  BY DEF Unary, Node
<1>5. e.ca = NoAddress /\ e.ct = NoType
  BY DEF Unary, Node
<1>6. e.here = {} /\ e.foldHere = {}
  BY DEF Unary, Node
<1>7. e.below = Odd(l) /\ e.foldBelow = FoldOdd(l)
  BY DEF Unary, Node
<1>8. QED BY <1>1, <1>2, <1>3, <1>4, <1>5, <1>6, <1>7

LEMMA BinaryAttributes ==
    ASSUME NEW op, NEW l, NEW r, NEW e, e = Binary(op, l, r)
    PROVE  /\ IsNode(e)
           /\ e.ok <=> VerifyBinary(op, l, r)
           /\ ~e.static /\ e.ca = NoAddress
           /\ e.here = {} /\ e.foldHere = {}
           /\ e.below = Odd(l) \cup Odd(r) /\ e.foldBelow = FoldOdd(l) \cup FoldOdd(r)
<1>1. IsNode(e)
  BY DEF Binary, IsNode
<1>2. e.ok <=> VerifyBinary(op, l, r)
  BY DEF Binary, Node
<1>3. ~e.static
  BY DEF Binary, Node
<1>4. e.ca = NoAddress
  BY DEF Binary, Node
<1>5. e.here = {} /\ e.foldHere = {}
  BY DEF Binary, Node
<1>6. e.below = Odd(l) \cup Odd(r) /\ e.foldBelow = FoldOdd(l) \cup FoldOdd(r)
  BY DEF Binary, Node
<1>7. QED BY <1>1, <1>2, <1>3, <1>4, <1>5, <1>6

\* The topmost nodes, when there are so many.
LEMMA TopmostAre ==
    ASSUME AttributesInv, NEW n \in Nat, CanAdd(n)
    PROVE  /\ Len(stack) \in Nat /\ n <= Len(stack)
           /\ n > 0 => NodeInv(Top) /\ Top.ct # NoType
           /\ n > 1 => NodeInv(Below) /\ Below.ct # NoType
<1>1. Len(stack) \in Nat /\ DOMAIN stack = 1 .. Len(stack) /\ n <= Len(stack)
  BY RowFacts DEF AttributesInv, CanAdd
<1>2. Top = stack[Len(stack)]
  BY DEF Top, Last
<1>3. QED BY <1>1, <1>2 DEF AttributesInv, CanAdd, Below
-----------------------------------------------------------------------------
(* Leaves.                                                                 *)

LEMMA LiteralKeeps ==
    ASSUME AttributesInv, NEW n, Literal(n)
    PROVE  AttributesInv'
<1>1. PICK e : e = [Node EXCEPT !.reg = FreeReg(Len(stack)), !.static = TRUE, !.fold = n,
                                !.v = n, !.a = n, !.ct = CInt, !.cv = n]
  OBVIOUS
<1>2. CanAdd(0) /\ Push(0, e) /\ UNCHANGED <<grammar, optimize>>
  BY <1>1 DEF Literal, Pure
<1>3. IsNode(e)
  BY <1>1 DEF IsNode
<1>4. e.prim = "int" /\ e.og = "int" /\ e.lvl = 0 /\ e.ct = CInt
  BY <1>1 DEF Node
<1>5. e.ca = NoAddress /\ e.here = {} /\ e.below = {} /\ e.foldHere = {} /\ e.foldBelow = {}
  BY <1>1 DEF Node
<1>6. NodeInv(e)
  <2>1. Noted(e)
    BY <1>4, <1>5 DEF Noted, CInt, CType, Prims, SignedTypes
  <2>2. FoldsClean(e)
    BY <1>5 DEF FoldsClean, Odd, FoldOdd
  <2>3. QED BY <1>3, <1>4, <2>1, <2>2 DEF NodeInv, Prims, SignedTypes
<1>7. QED
  BY <1>2, <1>6, TopmostAre, PushKeeps

LEMMA VariableKeeps ==
    ASSUME AttributesInv, NEW o, Variable(o)
    PROVE  AttributesInv'
<1>1. PICK t, v, reads : t = CType(o.prim, o.lvl)
        /\ v = (IF o.array THEN o.addr ELSE Load(mem, o.addr, CSize(t)))
        /\ reads = (IF o.array THEN {} ELSE Bytes(o.addr, t))
  OBVIOUS
<1>2. PICK ca, cv : ca = (IF o.array THEN NoAddress ELSE o.addr)
        /\ cv = (IF o.array THEN o.addr ELSE CLoad(o.addr, t))
  OBVIOUS
<1>3. PICK e : e = [Node EXCEPT !.kind = "var", !.prim = Promote(Promote(o.prim, o.lvl), o.lvl),
                !.og = o.prim, !.lvl = o.lvl, !.array = o.array, !.reg = FreeReg(Len(stack)),
                !.v = v, !.a = o.addr, !.here = Narrow(v, CSize(t), t),
                !.ct = t, !.cv = cv, !.ca = ca, !.reads = reads]
  OBVIOUS
<1>4. CanAdd(0) /\ Push(0, e) /\ UNCHANGED <<grammar, optimize>>
  BY <1>1, <1>2, <1>3 DEF Variable, Pure
<1>5. o.prim \in Prims /\ o.lvl \in Nat
  BY ValuesAssumption DEF AttributesInv, Variable
<1>6. IsNode(e)
  BY <1>3 DEF IsNode
<1>7. e.prim = Promote(Promote(o.prim, o.lvl), o.lvl) /\ e.og = o.prim /\ e.lvl = o.lvl /\ e.ct = t
  BY <1>3 DEF Node
<1>8. ~e.static
  BY <1>3 DEF Node
<1>9. e.prim \in Prims /\ (e.prim \in Unsigned <=> o.prim \in Unsigned)
  BY <1>5, <1>7, Promoted DEF Promote
<1>10. NodeInv(e)
  <2>1. Noted(e)
    BY <1>1, <1>5, <1>7, <1>9 DEF Noted, CType
  <2>2. QED BY <1>5, <1>6, <1>7, <1>8, <1>9, <2>1 DEF NodeInv, FoldsClean
<1>11. QED
  BY <1>4, <1>10, TopmostAre, PushKeeps

LEMMA StringLiteralKeeps ==
    ASSUME AttributesInv, NEW addr, StringLiteral(addr)
    PROVE  AttributesInv'
<1>1. PICK e : e = [Node EXCEPT !.kind = "string", !.prim = "char", !.og = "char", !.lvl = 1,
                !.static = TRUE, !.reg = FreeReg(Len(stack)), !.v = addr, !.a = addr,
                !.foldHere = {"string"}, !.ct = CType("char", 1), !.cv = addr]
  OBVIOUS
<1>2. CanAdd(0) /\ Push(0, e) /\ UNCHANGED <<grammar, optimize>>
  BY <1>1 DEF StringLiteral, Pure
<1>3. IsNode(e)
  BY <1>1 DEF IsNode
<1>4. e.prim = "char" /\ e.og = "char" /\ e.lvl = 1 /\ e.ct = CType("char", 1)
  BY <1>1 DEF Node
<1>5. /\ e.ca = NoAddress /\ e.here = {} /\ e.below = {}
      /\ e.foldHere = {"string"} /\ e.foldBelow = {}
  BY <1>1 DEF Node
<1>6. NodeInv(e)
  <2>1. Noted(e)
    BY <1>4 DEF Noted, CType, Prims, SignedTypes
  <2>2. FoldsClean(e)
    BY <1>5 DEF FoldsClean, Odd, FoldOdd, TypeDeviations
  <2>3. QED BY <1>3, <1>4, <2>1, <2>2 DEF NodeInv, Prims, SignedTypes
<1>7. QED
  BY <1>2, <1>6, TopmostAre, PushKeeps

-----------------------------------------------------------------------------
(* Operators of one operand.                                               *)

LEMMA UnaryOpKeeps ==
    ASSUME AttributesInv, NEW op, UnaryOp(op)
    PROVE  AttributesInv'
<1>1. PICK l, prim : l = Seen(Top) /\ prim = Promote(Top.prim, Top.lvl)
  OBVIOUS
<1>2. PICK t, typed :
        /\ t = (IF op = "!x" THEN CInt ELSE IF IsArith(Top.ct) THEN CPromote(Top.ct) ELSE NoType)
        /\ typed = If(op = "!x" /\ ~Signed(prim, Top.lvl), "typed")
  OBVIOUS
<1>3. PICK e : e = [Unary(op, l) EXCEPT !.prim = prim, !.og = Top.og, !.lvl = Top.lvl,
                !.v = CodeUnary(op, l.v), !.a = CodeUnary(op, l.v), !.here = typed,
                !.static = Top.static, !.fold = CodeUnary(op, Top.fold), !.foldHere = typed,
                !.ct = t, !.cv = CUnary(op, t, Top.cv)]
  OBVIOUS
<1>4. /\ CanAdd(1) /\ Push(1, e) /\ UNCHANGED <<grammar, optimize>>
      /\ op \in {"+x", "-x", "~x", "!x"}
  BY <1>1, <1>2, <1>3 DEF UnaryOp, Pure
<1>5. NodeInv(Top) /\ Top.ct # NoType /\ 1 <= Len(stack)
  BY <1>4, TopmostAre
<1>6. PICK u : u = Unary(op, l)
  OBVIOUS
<1>7. /\ IsNode(u) /\ (u.ok <=> VerifyUnary(op, l)) /\ u.ca = NoAddress
      /\ u.below = Odd(l) /\ u.foldBelow = FoldOdd(l)
  BY <1>6, UnaryAttributes
<1>8. IsNode(e)
  BY <1>3, <1>6, <1>7 DEF IsNode
<1>9. e.prim = prim /\ e.og = Top.og /\ e.lvl = Top.lvl /\ e.ct = t
  BY <1>3, <1>6, <1>7 DEF IsNode, Node
<1>10. (e.ok <=> VerifyUnary(op, l)) /\ (e.static <=> Top.static)
  BY <1>3, <1>6, <1>7 DEF IsNode, Node
<1>11. /\ e.ca = NoAddress /\ e.here = typed /\ e.foldHere = typed
       /\ e.below = Odd(l) /\ e.foldBelow = FoldOdd(l)
  BY <1>3, <1>6, <1>7 DEF IsNode, Node
<1>12. /\ (l.ok <=> Top.ok) /\ l.lvl = Top.lvl
       /\ FoldOdd(l) = FoldOdd(Top) /\ Odd(l) \cap TypeDeviations = Odd(Top) \cap TypeDeviations
  BY <1>1, <1>5, SeenAttributes
<1>13. Top.prim \in Prims /\ Top.og \in Prims /\ Top.lvl \in Nat /\ FoldsClean(Top)
  BY <1>5 DEF NodeInv
<1>14. prim \in Prims /\ (prim \in Unsigned <=> Top.prim \in Unsigned)
  BY <1>1, <1>13, Promoted
<1>15. FoldsClean(e)
  BY <1>5, <1>10, <1>11, <1>12, <1>13 DEF FoldsClean, Odd, FoldOdd
<1>16. ASSUME e.ok, e.ct # NoType, Clean(e) PROVE Noted(e)
  <2>1. l.ok /\ Top.ok /\ Top.lvl = 0
    BY <1>4, <1>10, <1>12, <1>13, <1>16 DEF VerifyUnary, Steps
  <2>2. Clean(Top)
    BY <1>11, <1>12, <1>16 DEF Clean, Odd
  <2>3. Noted(Top)
    BY <1>5, <2>1, <2>2 DEF NodeInv
  <2>4. PICK q \in Prims : q = Top.ct.prim /\ Top.ct = CType(q, 0) /\ (prim \in Unsigned <=> q \in Unsigned)
    BY <1>14, <2>1, <2>3 DEF Noted
  <2>5. CASE op = "!x"
    <3>1. typed = {}
      BY <1>2, <1>11, <1>16 DEF Clean, Odd, TypeDeviations, If
    <3>2. Signed(prim, 0)
      BY <1>2, <2>1, <2>5, <3>1 DEF If
    <3>3. prim \notin Unsigned /\ t = CType("int", 0)
      BY <1>2, <2>5, <3>2 DEF Signed, SignedTypes, Unsigned, CInt
    <3>4. QED BY <1>9, <1>11, <2>1, <3>3 DEF Noted, CType, Prims, SignedTypes, Unsigned
  <2>6. CASE op # "!x"
    <3>1. t = CPromote(CType(q, 0))
      BY <1>2, <1>5, <2>4, <2>6 DEF IsArith, CType
    <3>2. PICK m \in Prims : t = CType(m, 0) /\ (m \in Unsigned <=> q \in Unsigned)
      BY <3>1 DEF CPromote, CType, CInt, CSize, Size, Prims, SignedTypes, Unsigned
    <3>3. QED BY <1>9, <1>11, <2>1, <2>4, <3>2 DEF Noted, CType
  <2>7. QED BY <2>5, <2>6
<1>17. NodeInv(e)
  BY <1>8, <1>9, <1>13, <1>14, <1>15, <1>16 DEF NodeInv
<1>18. QED
  BY <1>4, <1>5, <1>17, PushKeeps

LEMMA CastKeeps ==
    ASSUME AttributesInv, NEW t, t \in grammar.casts, Cast(t)
    PROVE  AttributesInv'
<1> DEFINE Cut(v) == If(~Broken(v) /\ Convert(t, v) % W # v, "cast")
<1>1. PICK l, cv : l = Seen(Top) /\ cv = (IF Top.cv = Undefined THEN Undefined ELSE Convert(t, Top.cv))
  OBVIOUS
<1>2. PICK cut, foldCut : cut = Cut(l.v) /\ foldCut = Cut(Top.fold)
  OBVIOUS
<1>3. PICK e : e = [Unary("cast", l) EXCEPT !.prim = t.prim, !.og = t.prim, !.lvl = t.lvl,
                !.v = l.v, !.a = l.v, !.here = cut,
                !.static = Top.static, !.fold = Top.fold, !.foldHere = foldCut,
                !.ct = t, !.cv = cv]
  OBVIOUS
<1>4. CanAdd(1) /\ Push(1, e) /\ UNCHANGED <<grammar, optimize>>
  BY <1>1, <1>2, <1>3 DEF Cast, Pure
<1>5. NodeInv(Top) /\ Top.ct # NoType /\ 1 <= Len(stack)
  BY <1>4, TopmostAre
<1>6. PICK u : u = Unary("cast", l)
  OBVIOUS
<1>7. /\ IsNode(u) /\ u.ca = NoAddress
      /\ u.below = Odd(l) /\ u.foldBelow = FoldOdd(l)
  BY <1>6, UnaryAttributes
<1>8. IsNode(e)
  BY <1>3, <1>6, <1>7 DEF IsNode
<1>9. e.prim = t.prim /\ e.og = t.prim /\ e.lvl = t.lvl /\ e.ct = t
  BY <1>3, <1>6, <1>7 DEF IsNode, Node
<1>10. e.static <=> Top.static
  BY <1>3, <1>6, <1>7 DEF IsNode, Node
<1>11. /\ e.ca = NoAddress /\ e.here = cut /\ e.foldHere = foldCut
       /\ e.below = Odd(l) /\ e.foldBelow = FoldOdd(l)
  BY <1>3, <1>6, <1>7 DEF IsNode, Node
<1>12. FoldOdd(l) = FoldOdd(Top) /\ Odd(l) \cap TypeDeviations = Odd(Top) \cap TypeDeviations
  BY <1>1, <1>5, SeenAttributes
<1>13. cut \cap TypeDeviations = {} /\ foldCut \cap TypeDeviations = {}
  BY <1>2 DEF TypeDeviations, If
<1>14. FoldsClean(e)
  <2>1. FoldsClean(Top)
    BY <1>5 DEF NodeInv
  <2>2. FoldOdd(e) \cap TypeDeviations = FoldOdd(l) \cap TypeDeviations
    BY <1>11, <1>13 DEF FoldOdd
  <2>3. Odd(e) \cap TypeDeviations = Odd(l) \cap TypeDeviations
    BY <1>11, <1>13 DEF Odd
  <2>4. QED BY <1>5, <1>10, <1>11, <1>12, <2>1, <2>2, <2>3 DEF FoldsClean
<1>15. t = CType(t.prim, t.lvl) /\ t.prim \in Prims /\ t.lvl \in Nat
  BY ValuesAssumption DEF AttributesInv
<1>16. NodeInv(e)
  BY <1>8, <1>9, <1>14, <1>15 DEF NodeInv, Noted
<1>17. QED
  BY <1>4, <1>5, <1>16, PushKeeps

LEMMA ReferenceKeeps ==
    ASSUME AttributesInv, Reference
    PROVE  AttributesInv'
<1>1. PICK t, cv :
        /\ t = (IF Top.ca = NoAddress THEN NoType ELSE CType(Top.ct.prim, Top.ct.lvl + 1))
        /\ cv = (IF Top.cv = Undefined THEN Undefined ELSE Top.ca)
  OBVIOUS
<1>2. PICK e : e = [Unary("&x", Top) EXCEPT
                !.prim = Promote(Top.prim, Top.lvl + 1), !.og = Top.og, !.lvl = Top.lvl + 1,
                !.v = Top.a, !.a = Top.a, !.ct = t, !.cv = cv]
  OBVIOUS
<1>3. CanAdd(1) /\ Push(1, e) /\ UNCHANGED <<grammar, optimize>>
  BY <1>1, <1>2 DEF Reference, Pure
<1>4. NodeInv(Top) /\ Top.ct # NoType /\ 1 <= Len(stack)
  BY <1>3, TopmostAre
<1>5. PICK u : u = Unary("&x", Top)
  OBVIOUS
<1>6. /\ IsNode(u) /\ (u.ok <=> VerifyUnary("&x", Top)) /\ ~u.static
      /\ u.here = {} /\ u.below = Odd(Top)
  BY <1>5, UnaryAttributes
<1>7. IsNode(e)
  BY <1>2, <1>5, <1>6 DEF IsNode
<1>8. e.prim = Promote(Top.prim, Top.lvl + 1) /\ e.og = Top.og /\ e.lvl = Top.lvl + 1 /\ e.ct = t
  BY <1>2, <1>5, <1>6 DEF IsNode, Node
<1>9. (e.ok <=> VerifyUnary("&x", Top)) /\ ~e.static
  BY <1>2, <1>5, <1>6 DEF IsNode, Node
<1>10. e.here = {} /\ e.below = Odd(Top)
  BY <1>2, <1>5, <1>6 DEF IsNode, Node
<1>11. Top.prim \in Prims /\ Top.og \in Prims /\ Top.lvl \in Nat
  BY <1>4 DEF NodeInv
<1>12. e.prim = Top.prim
  BY <1>8, <1>11 DEF Promote
<1>13. ASSUME e.ok, e.ct # NoType, Clean(e) PROVE Noted(e)
  <2>1. Top.ok /\ Clean(Top)
    BY <1>9, <1>10, <1>13 DEF VerifyUnary, Clean, Odd
  <2>2. Noted(Top)
    BY <1>4, <2>1 DEF NodeInv
  <2>3. Top.ca # NoAddress /\ t = CType(Top.ct.prim, Top.ct.lvl + 1)
    BY <1>1, <1>8, <1>13
  <2>4. Top.ct.prim \in Prims /\ Top.ct.lvl = Top.lvl /\ Top.og = Top.ct.prim
        /\ (Top.prim \in Unsigned <=> Top.ct.prim \in Unsigned)
    BY <2>2, <2>3 DEF Noted, CType
  <2>5. QED BY <1>8, <1>12, <2>3, <2>4 DEF Noted, CType
<1>14. NodeInv(e)
  BY <1>7, <1>8, <1>9, <1>11, <1>12, <1>13 DEF NodeInv, FoldsClean
<1>15. QED
  BY <1>3, <1>4, <1>14, PushKeeps

LEMMA PointedAttributes ==
    ASSUME NEW e, NEW bytes, NEW a, NEW t, NEW c, IsNode(e), NEW p, p = Pointed(e, bytes, a, t, c)
    PROVE  /\ IsNode(p)
           /\ p.ok <=> e.ok
           /\ p.static <=> e.static
           /\ p.ct = t
           /\ p.here \cap TypeDeviations = {} /\ p.below = e.below
<1>1. PICK v : v = (IF Broken(a) THEN a ELSE Load(mem, a, bytes))
  OBVIOUS
<1>2. PICK at \in BOOLEAN : at <=> (c # Undefined /\ Holds(c, t))
  OBVIOUS
<1>3. PICK here, cv, ca, reads :
        /\ here = (IF Broken(v) THEN {} ELSE Narrow(v, bytes, t))
        /\ cv = (IF at THEN CLoad(c, t) ELSE Undefined)
        /\ ca = (IF at THEN c ELSE NoAddress)
        /\ reads = e.reads \cup (IF at THEN Bytes(c, t) ELSE {})
  OBVIOUS
<1>4. p = [e EXCEPT !.v = v, !.a = a, !.here = here, !.ct = t, !.cv = cv, !.ca = ca, !.reads = reads]
  BY <1>1, <1>2, <1>3 DEF Pointed
<1>5. DOMAIN e = DOMAIN Node
  BY DEF IsNode
<1>6. IsNode(p)
  BY <1>4, <1>5 DEF IsNode
<1>7. (p.ok <=> e.ok) /\ (p.static <=> e.static)
  BY <1>4, <1>5 DEF Node
<1>8. p.ct = t /\ p.here = here /\ p.below = e.below
  BY <1>4, <1>5 DEF Node
<1>9. here \cap TypeDeviations = {}
  BY <1>3 DEF Narrow, TypeDeviations
<1>10. QED BY <1>6, <1>7, <1>8, <1>9

LEMMA DereferenceKeeps ==
    ASSUME AttributesInv, Dereference
    PROVE  AttributesInv'
<1>1. PICK l : l = Seen(Top)
  OBVIOUS
<1>2. CanAdd(1) /\ UNCHANGED <<grammar, optimize>>
  BY DEF Dereference, Pure
<1>3. NodeInv(Top) /\ Top.ct # NoType /\ 1 <= Len(stack)
  BY <1>2, TopmostAre
<1>4. Top.prim \in Prims /\ Top.og \in Prims /\ Top.lvl \in Nat
  BY <1>3 DEF NodeInv
<1>5. PICK u : u = Unary("*x", l)
  OBVIOUS
<1>6. /\ IsNode(u) /\ (u.ok <=> VerifyUnary("*x", l)) /\ ~u.static
      /\ u.prim = "int" /\ u.og = "int" /\ u.lvl = 0 /\ u.ct = NoType
      /\ u.below = Odd(l)
  BY <1>5, UnaryAttributes
<1>7. CASE Top.lvl = 0
  <2>1. PICK e : e = [u EXCEPT !.og = Top.og]
    OBVIOUS
  <2>2. Push(1, e)
    BY <1>1, <1>5, <1>7, <2>1 DEF Dereference
  <2>3. IsNode(e)
    BY <1>6, <2>1 DEF IsNode
  <2>4. e.prim = "int" /\ e.og = Top.og /\ e.lvl = 0 /\ e.ct = NoType
    BY <1>6, <2>1 DEF IsNode, Node
  <2>5. ~e.static
    BY <1>6, <2>1 DEF IsNode, Node
  <2>6. NodeInv(e)
    BY <1>4, <2>3, <2>4, <2>5 DEF NodeInv, FoldsClean, Prims, SignedTypes
  <2>7. QED BY <1>2, <1>3, <2>2, <2>6, PushKeeps
<1>8. CASE Top.lvl # 0
  <2>1. PICK p : p = Pointed(u, Size(Top.og, Top.lvl - 1), l.v, Pointee(Top.ct), Top.cv)
    OBVIOUS
  <2>2. PICK e : e = [p EXCEPT !.prim = Promote(Top.prim, Top.lvl - 1), !.og = Top.og, !.lvl = Top.lvl - 1]
    OBVIOUS
  <2>3. Push(1, e)
    BY <1>1, <1>5, <1>8, <2>1, <2>2 DEF Dereference
  <2>4. /\ IsNode(p) /\ (p.ok <=> u.ok) /\ (p.static <=> u.static) /\ p.ct = Pointee(Top.ct)
        /\ p.here \cap TypeDeviations = {} /\ p.below = u.below
    BY <1>6, <2>1, PointedAttributes
  <2>5. IsNode(e)
    BY <2>2, <2>4 DEF IsNode
  <2>6. /\ e.prim = Promote(Top.prim, Top.lvl - 1) /\ e.og = Top.og /\ e.lvl = Top.lvl - 1
        /\ e.ct = Pointee(Top.ct)
    BY <2>2, <2>4 DEF IsNode, Node
  <2>7. (e.ok <=> u.ok) /\ ~e.static
    BY <1>6, <2>2, <2>4 DEF IsNode, Node
  <2>8. e.here = p.here /\ e.below = Odd(l)
    BY <1>6, <2>2, <2>4 DEF IsNode, Node
  <2>9. (l.ok <=> Top.ok) /\ Odd(l) \cap TypeDeviations = Odd(Top) \cap TypeDeviations
    BY <1>1, <1>3, SeenAttributes
  <2>10. e.prim \in Prims /\ (e.prim \in Unsigned <=> Top.prim \in Unsigned)
    BY <1>4, <2>6 DEF Promote, Prims, SignedTypes, Unsigned
  <2>11. ASSUME e.ok, e.ct # NoType, Clean(e) PROVE Noted(e)
    <3>1. Top.ok
      BY <1>6, <2>7, <2>9, <2>11 DEF VerifyUnary
    <3>2. Clean(Top)
      BY <2>8, <2>9, <2>11 DEF Clean, Odd
    <3>3. Noted(Top)
      BY <1>3, <3>1, <3>2 DEF NodeInv
    <3>4. /\ Top.ct.prim \in Prims /\ Top.ct.lvl = Top.lvl /\ Top.og = Top.ct.prim
          /\ Top.prim \in Unsigned <=> Top.ct.prim \in Unsigned
      BY <1>4, <1>8, <3>3 DEF Noted, CType
    <3>5. e.ct = CType(Top.ct.prim, Top.lvl - 1)
      BY <2>6, <3>4 DEF Pointee
    <3>6. QED BY <2>6, <2>10, <3>4, <3>5 DEF Noted, CType
  <2>12. e.lvl \in Nat
    BY <1>4, <1>8, <2>6
  <2>13. NodeInv(e)
    BY <1>4, <2>5, <2>6, <2>7, <2>10, <2>11, <2>12 DEF NodeInv, FoldsClean
  <2>14. QED BY <1>2, <1>3, <2>3, <2>13, PushKeeps
<1>9. QED BY <1>7, <1>8

\* ++ and --.
LEMMA StepKeeps ==
    ASSUME AttributesInv, NEW op, NEW junk, Step(op, junk)
    PROVE  AttributesInv'
<1> DEFINE l == Seen(Top)
           u == Unary(op, l)
           bytes == Size(l.og, l.lvl)
           by == (IF op \in {"++x", "x++"} THEN 1 ELSE -1) * (IF l.lvl = 0 THEN 1 ELSE Size(l.og, l.lvl - 1))
           old == Load(mem, l.a, bytes)
           new == (old + by) % Mod(bytes)
           postfix == op \in {"x++", "x--"}
           upper == IF postfix THEN junk ELSE l.a
           v == IF Broken(l.a) THEN l.a
                ELSE upper - (upper % Mod(bytes)) + (IF postfix THEN old ELSE new)
           c == IF l.ca = NoAddress \/ l.cv = Undefined THEN Undefined
                ELSE IF IsPtr(l.ct) THEN CPointerAdd(Objects, l.ct, l.cv, IF by > 0 THEN 1 ELSE -1)
                ELSE LET t == CPromote(l.ct) IN CArith("+", t, l.cv, by)
           defined == c # Undefined /\ CStores(u, l.ct, l.ca)
           reg == IF postfix THEN FreeReg(Len(stack)) ELSE l.reg
           here == If(bytes < 4, "step")
           ct == IF l.ca = NoAddress THEN NoType ELSE l.ct
           cv == IF ~defined THEN Undefined ELSE IF postfix THEN l.cv ELSE Convert(l.ct, c)
           writes == u.writes \cup IF defined THEN Bytes(l.ca, l.ct) ELSE Addresses
           e == [u EXCEPT !.prim = Promote(l.prim, l.lvl), !.og = l.og, !.lvl = l.lvl,
                 !.reg = reg, !.v = v, !.a = v, !.here = here, !.ct = ct, !.cv = cv, !.writes = writes]
<1>1. Push(1, e)
  BY DEF Step
<1>2. l = Seen(Top) /\ u = Unary(op, l) /\ ct = (IF l.ca = NoAddress THEN NoType ELSE l.ct)
  OBVIOUS
<1> HIDE DEF l, u, bytes, by, old, new, postfix, upper, v, c, defined, reg, here, ct, cv, writes
<1>3. CanAdd(1) /\ UNCHANGED <<grammar, optimize>> /\ op \in Steps
  BY DEF Step
<1>4. NodeInv(Top) /\ Top.ct # NoType /\ 1 <= Len(stack)
  BY <1>3, TopmostAre
<1>5. IsNode(u) /\ (u.ok <=> VerifyUnary(op, l)) /\ ~u.static /\ u.ca = NoAddress /\ u.below = Odd(l)
  BY <1>2, UnaryAttributes
<1>6. IsNode(e)
  BY <1>5 DEF IsNode
<1>7. e.prim = Promote(l.prim, l.lvl) /\ e.og = l.og /\ e.lvl = l.lvl /\ e.ct = ct
  BY <1>5 DEF IsNode, Node
<1>8. (e.ok <=> VerifyUnary(op, l)) /\ ~e.static
  BY <1>5 DEF IsNode, Node
<1>9. e.ca = NoAddress /\ e.below = Odd(l)
  BY <1>5 DEF IsNode, Node
<1>10. /\ l.prim = Top.prim /\ l.og = Top.og /\ l.lvl = Top.lvl /\ l.ct = Top.ct
       /\ (l.ok <=> Top.ok) /\ Odd(l) \cap TypeDeviations = Odd(Top) \cap TypeDeviations
  BY <1>2, <1>4, SeenAttributes
<1>11. Top.prim \in Prims /\ Top.og \in Prims /\ Top.lvl \in Nat
  BY <1>4 DEF NodeInv
<1>12. e.prim \in Prims /\ (e.prim \in Unsigned <=> Top.prim \in Unsigned)
  BY <1>7, <1>10, <1>11 DEF Promote, Prims, SignedTypes, Unsigned
<1>13. ASSUME e.ok, e.ct # NoType, Clean(e) PROVE Noted(e)
  <2>1. Top.ok /\ Clean(Top)
    BY <1>8, <1>9, <1>10, <1>13 DEF VerifyUnary, Clean, Odd
  <2>2. Noted(Top)
    BY <1>4, <2>1 DEF NodeInv
  <2>3. ct = Top.ct
    BY <1>2, <1>7, <1>10, <1>13
  <2>4. QED BY <1>7, <1>9, <1>10, <1>12, <2>2, <2>3 DEF Noted
<1> HIDE DEF e
<1>14. NodeInv(e)
  BY <1>6, <1>7, <1>8, <1>10, <1>11, <1>12, <1>13 DEF NodeInv, FoldsClean
<1>15. QED
  BY <1>1, <1>3, <1>4, <1>14, PushKeeps

-----------------------------------------------------------------------------
(* Operators of two operands.                                              *)

\* An arithmetic operator: of the pointer's type if one operand is a pointer.
LEMMA ArithmeticType ==
    ASSUME NEW op \in Arithmetic, NEW p \in Prims, NEW q \in Prims, NEW ll \in Nat, NEW rl \in Nat,
           NEW null0, NEW null1, NEW t, t # NoType, ~(ll > 0 /\ rl > 0),
           t = CBinaryType(op, CType(p, ll), CType(q, rl), null0, null1)
    PROVE  /\ ll = 0 /\ rl = 0 => t = CUsual(CType(p, 0), CType(q, 0))
           /\ ll > 0 => t = CType(p, ll)
           /\ rl > 0 => t = CType(q, rl)
<1>1. op \notin {","} \cup Logical \cup Comparison /\ op \notin Equality
  BY DEF Arithmetic, Logical, Comparison, Equality, Relational
<1>2. PICK s, u : s = CType(p, ll) /\ u = CType(q, rl)
  OBVIOUS
<1>3. /\ s # NoType /\ u # NoType /\ s.lvl = ll /\ u.lvl = rl
      /\ ll # rl => s # u
  <2>1. s.prim = p /\ u.prim = q /\ s.lvl = ll /\ u.lvl = rl
    BY <1>2 DEF CType
  <2>2. NoType.prim \notin Prims
    BY DEF NoType, CType, Prims, SignedTypes
  <2>3. QED BY <2>1, <2>2
<1>4. (IsArith(s) <=> ll = 0) /\ (IsArith(u) <=> rl = 0) /\ (IsPtr(s) <=> ll > 0) /\ (IsPtr(u) <=> rl > 0)
  BY <1>3 DEF IsArith, IsPtr
<1>5. CASE ll = 0 /\ rl = 0
  <2>1. t = CUsual(s, u)
    BY <1>1, <1>2, <1>4, <1>5 DEF CBinaryType
  <2>2. QED BY <1>2, <1>5, <2>1
<1>6. CASE ll > 0 /\ rl = 0
  <2>1. t = s
    BY <1>1, <1>2, <1>3, <1>4, <1>6 DEF CBinaryType
  <2>2. QED BY <1>2, <1>6, <2>1
<1>7. CASE ll = 0 /\ rl > 0
  <2>1. t = u
    BY <1>1, <1>2, <1>3, <1>4, <1>7 DEF CBinaryType
  <2>2. QED BY <1>2, <1>7, <2>1
<1>8. QED BY <1>5, <1>6, <1>7

\* Two operands that have C's type make one that has it.
TypeFits(t, l, r) ==
    /\ t.prim \in Prims /\ t = CType(t.prim, MaxLvl(l, r))
    /\ BinaryPrim(l, r) \in Unsigned <=> t.prim \in Unsigned
    /\ MaxLvl(l, r) > 0 => BinaryOg(l, r) = t.prim
LEMMA ArithmeticNoted ==
    ASSUME NEW op \in Arithmetic, NEW l, NEW r, NodeInv(l), NodeInv(r), Noted(l), Noted(r),
           NEW null0, NEW null1, NEW t, t # NoType, ~(l.lvl > 0 /\ r.lvl > 0),
           t = CBinaryType(op, l.ct, r.ct, null0, null1)
    PROVE  TypeFits(t, l, r)
<1>1. PICK p \in Prims, q \in Prims, ll \in Nat, rl \in Nat :
        /\ p = l.ct.prim /\ q = r.ct.prim /\ ll = l.lvl /\ rl = r.lvl
        /\ l.ct = CType(p, ll) /\ r.ct = CType(q, rl)
  BY DEF NodeInv, Noted
<1>2. /\ l.prim \in Prims /\ (l.prim \in Unsigned <=> p \in Unsigned) /\ (ll > 0 => l.og = p)
      /\ r.prim \in Prims /\ (r.prim \in Unsigned <=> q \in Unsigned) /\ (rl > 0 => r.og = q)
  BY <1>1 DEF NodeInv, Noted
<1>3. /\ ll = 0 /\ rl = 0 => t = CUsual(CType(p, 0), CType(q, 0))
      /\ ll > 0 => t = CType(p, ll)
      /\ rl > 0 => t = CType(q, rl)
  BY <1>1, ArithmeticType
<1>4. PICK b : b = BinaryPrim(l, r) /\ b = BinaryType(l.prim, ll, r.prim, rl)
  BY <1>1 DEF BinaryPrim
<1>5. /\ ll > rl => b = l.prim
      /\ rl > ll => b = r.prim
      /\ ll = 0 /\ rl = 0 => (b \in Unsigned <=> l.prim \in Unsigned \/ r.prim \in Unsigned)
  <2>1. PICK m \in Prims, n \in Prims : m = l.prim /\ n = r.prim
    BY <1>2
  <2>2. b = BinaryType(m, ll, n, rl)
    BY <1>4, <2>1
  <2>3. IsTypeOfTwo(b, m, ll, n, rl)
    BY <2>2, BinaryTypeIs
  <2>4. QED BY <2>1, <2>3 DEF IsTypeOfTwo
<1>6. CASE ll = 0 /\ rl = 0
  <2>1. PICK m \in Prims : t = CType(m, 0) /\ (m \in Unsigned <=> p \in Unsigned \/ q \in Unsigned)
    BY <1>3, <1>6, UsualType
  <2>2. MaxLvl(l, r) = 0
    BY <1>1, <1>6 DEF MaxLvl
  <2>3. QED BY <1>2, <1>4, <1>5, <1>6, <2>1, <2>2 DEF CType, TypeFits
<1>7. CASE ll > 0 /\ rl = 0
  <2>1. MaxLvl(l, r) = ll /\ BinaryOg(l, r) = p /\ t = CType(p, ll)
    BY <1>1, <1>2, <1>3, <1>7 DEF MaxLvl, BinaryOg
  <2>2. QED BY <1>2, <1>4, <1>5, <1>7, <2>1 DEF CType, TypeFits
<1>8. CASE ll = 0 /\ rl > 0
  <2>1. MaxLvl(l, r) = rl /\ BinaryOg(l, r) = q /\ t = CType(q, rl)
    BY <1>1, <1>2, <1>3, <1>8 DEF MaxLvl, BinaryOg
  <2>2. QED BY <1>2, <1>4, <1>5, <1>8, <2>1 DEF CType, TypeFits
<1>9. QED BY <1>1, <1>6, <1>7, <1>8

\* A truth value is an int.
LEMMA TruthType ==
    ASSUME NEW op \in Comparison \cup Logical, NEW s, NEW u, NEW null0, NEW null1
    PROVE  CBinaryType(op, s, u, null0, null1) \in {CInt, NoType}
BY DEF CBinaryType, Comparison, Logical, Equality, Relational

\* The attributes of two operands, as the code sees them.
LEMMA BinaryTyped ==
    ASSUME NEW l, NEW r, NodeInv(l), NodeInv(r)
    PROVE  BinaryPrim(l, r) \in Prims /\ BinaryOg(l, r) \in Prims /\ MaxLvl(l, r) \in Nat
<1>1. /\ l.prim \in Prims /\ l.og \in Prims /\ l.lvl \in Nat
      /\ r.prim \in Prims /\ r.og \in Prims /\ r.lvl \in Nat
  BY DEF NodeInv
<1>2. BinaryPrim(l, r) \in Prims
  BY <1>1, BinaryTypeIs DEF BinaryPrim, IsTypeOfTwo
<1>3. QED BY <1>1, <1>2 DEF BinaryOg, MaxLvl

LEMMA SeenPair ==
    ASSUME NEW x, NEW y, NodeInv(x), NodeInv(y)
    PROVE  /\ BinaryPrim(Seen(x), Seen(y)) = BinaryPrim(x, y)
           /\ BinaryOg(Seen(x), Seen(y)) = BinaryOg(x, y)
           /\ MaxLvl(Seen(x), Seen(y)) = MaxLvl(x, y)
BY SeenAttributes DEF BinaryPrim, BinaryOg, MaxLvl

LEMMA BinaryOpKeeps ==
    ASSUME AttributesInv, NEW op \in BinaryOps, BinaryOp(op)
    PROVE  AttributesInv'
<1> DEFINE l == Seen(Below)
           r == Seen(Top)
           prim == BinaryPrim(Below, Top)
           signed == Signed(prim, MaxLvl(l, r))
           typed == TypedOdd(op, l, r, signed)
           v == CodeBinary(op, signed, l, r)
           t == CBinaryType(op, l.ct, r.ct, CNull(Below), CNull(Top))
           u == Binary(op, l, r)
           og == BinaryOg(l, r)
           lvl == MaxLvl(l, r)
           odd == CodeOdd(op, l, r, signed)
           static == Below.static /\ Top.static
           fold == FoldBinary(op, signed, Below.fold, Top.fold)
           skipped == If(op \in Logical /\ Broken(Top.fold), "skipped")
           cv == CBinary(op, t, l, r)
           e == [u EXCEPT !.prim = prim, !.og = og, !.lvl = lvl, !.v = v, !.a = v,
                 !.here = typed \cup odd, !.static = static, !.fold = fold,
                 !.foldHere = typed \cup skipped, !.ct = t, !.cv = cv]
<1>1. Push(2, e)
  BY DEF BinaryOp
<1>2. CanAdd(2) /\ UNCHANGED <<grammar, optimize>>
  BY DEF BinaryOp, Pure
<1>3. NodeInv(Below) /\ NodeInv(Top) /\ Below.ct # NoType /\ Top.ct # NoType /\ 2 <= Len(stack)
  BY <1>2, TopmostAre
<1>4. /\ IsNode(u) /\ (u.ok <=> VerifyBinary(op, l, r)) /\ u.ca = NoAddress
      /\ u.below = Odd(l) \cup Odd(r) /\ u.foldBelow = FoldOdd(l) \cup FoldOdd(r)
  <2>1. u = Binary(op, l, r)
    OBVIOUS
  <2> HIDE DEF u, l, r
  <2>2. QED BY ONLY <2>1, BinaryAttributes
<1>5. /\ (l.ok <=> Below.ok) /\ l.lvl = Below.lvl /\ l.ct = Below.ct /\ l.ca = Below.ca
      /\ FoldOdd(l) = FoldOdd(Below) /\ Odd(l) \cap TypeDeviations = Odd(Below) \cap TypeDeviations
  BY <1>3, SeenAttributes
<1>6. /\ (r.ok <=> Top.ok) /\ r.lvl = Top.lvl /\ r.ct = Top.ct
      /\ FoldOdd(r) = FoldOdd(Top) /\ Odd(r) \cap TypeDeviations = Odd(Top) \cap TypeDeviations
  BY <1>3, SeenAttributes
<1>7. og = BinaryOg(Below, Top) /\ lvl = MaxLvl(Below, Top)
  BY <1>3, SeenPair
<1>8. prim \in Prims /\ og \in Prims /\ lvl \in Nat
  BY <1>3, <1>7, BinaryTyped
<1>9. odd \cap TypeDeviations = {} /\ skipped \cap TypeDeviations = {}
  BY DEF CodeOdd, TypeDeviations, If
<1>10. t = CBinaryType(op, Below.ct, Top.ct, CNull(Below), CNull(Top))
  BY <1>5, <1>6
<1>11. typed = TypedOdd(op, l, r, Signed(prim, lvl))
  OBVIOUS
<1> HIDE DEF l, r, prim, signed, typed, v, t, u, og, lvl, odd, fold, skipped, cv
<1>12. IsNode(e)
  BY <1>4 DEF IsNode
<1>13. e.prim = prim /\ e.og = og /\ e.lvl = lvl /\ e.ct = t
  BY <1>4 DEF IsNode, Node
<1>14. (e.ok <=> VerifyBinary(op, l, r)) /\ (e.static <=> Below.static /\ Top.static)
  BY <1>4 DEF IsNode, Node
<1>15. /\ e.ca = NoAddress /\ e.here = typed \cup odd /\ e.foldHere = typed \cup skipped
       /\ e.below = Odd(l) \cup Odd(r) /\ e.foldBelow = FoldOdd(l) \cup FoldOdd(r)
  BY <1>4 DEF IsNode, Node
<1> HIDE DEF e
<1>16. FoldsClean(e)
  <2>1. FoldsClean(Below) /\ FoldsClean(Top)
    BY <1>3 DEF NodeInv
  <2>2. SUFFICES ASSUME Below.static, Top.static
                 PROVE  FoldOdd(e) \cap TypeDeviations = Odd(e) \cap TypeDeviations
    BY <1>14, <1>15 DEF FoldsClean
  <2>3. /\ FoldOdd(l) \cap TypeDeviations = Odd(l) \cap TypeDeviations
        /\ FoldOdd(r) \cap TypeDeviations = Odd(r) \cap TypeDeviations
    BY <1>3, <1>5, <1>6, <2>1, <2>2 DEF FoldsClean
  <2>4. Odd(e) \cap TypeDeviations =
          (typed \cap TypeDeviations) \cup (Odd(l) \cap TypeDeviations) \cup (Odd(r) \cap TypeDeviations)
    <3>1. Odd(e) = typed \cup odd \cup Odd(l) \cup Odd(r)
      BY <1>15 DEF Odd
    <3>2. QED BY <1>9, <3>1
  <2>5. FoldOdd(e) \cap TypeDeviations =
          (typed \cap TypeDeviations) \cup (FoldOdd(l) \cap TypeDeviations) \cup (FoldOdd(r) \cap TypeDeviations)
    <3>1. FoldOdd(e) = typed \cup skipped \cup FoldOdd(l) \cup FoldOdd(r)
      BY <1>15 DEF FoldOdd
    <3>2. QED BY <1>9, <3>1
  <2>6. QED BY <2>3, <2>4, <2>5
<1>17. ASSUME e.ok, e.ct # NoType, Clean(e) PROVE Noted(e)
  <2>1. Below.ok /\ Top.ok
    BY <1>5, <1>6, <1>14, <1>17 DEF VerifyBinary
  <2>2. Odd(e) = typed \cup odd \cup Odd(l) \cup Odd(r) /\ Odd(e) \cap TypeDeviations = {}
    BY <1>15, <1>17 DEF Odd, Clean
  <2>3. Clean(Below) /\ Clean(Top)
    BY <1>5, <1>6, <2>2 DEF Clean
  <2>4. Noted(Below) /\ Noted(Top)
    BY <1>3, <2>1, <2>3 DEF NodeInv
  <2>5. /\ ~(op \in Comparison \cup Logical /\ ~Signed(prim, lvl)) /\ op # ","
        /\ ~(op = "-" /\ l.lvl > 0 /\ r.lvl > 0)
    BY <1>11, <2>2 DEF TypedOdd, If, TypeDeviations
  <2>6. CASE op \in Comparison \cup Logical
    <3>1. lvl = 0 /\ prim \notin Unsigned
      BY <2>5, <2>6 DEF Signed, SignedTypes, Unsigned
    <3>2. t = CType("int", 0)
      BY <1>10, <1>13, <1>17, <2>6, TruthType DEF CInt
    <3>3. e.ct.prim = "int" /\ e.ct = CType("int", e.lvl) /\ e.lvl = 0
      BY <1>13, <3>1, <3>2 DEF CType
    <3>4. "int" \in Prims /\ "int" \notin Unsigned
      BY DEF Prims, SignedTypes, Unsigned
    <3>5. QED BY <1>13, <1>15, <3>1, <3>3, <3>4 DEF Noted
  <2>7. CASE op \in Arithmetic
    <3>1. ~(Below.lvl > 0 /\ Top.lvl > 0)
      <4>1. SUFFICES ASSUME Below.lvl > 0, Top.lvl > 0 PROVE FALSE
        OBVIOUS
      <4>2. op \in PtrOps
        BY <1>5, <1>6, <1>14, <1>17, <4>1 DEF VerifyBinary
      <4>3. op = "-"
        BY <2>7, <4>2 DEF PtrOps, Arithmetic, Comparison, Equality, Relational
      <4>4. QED BY <1>5, <1>6, <2>5, <4>1, <4>3
    <3>2. t # NoType
      BY <1>13, <1>17
    <3>3. TypeFits(t, Below, Top)
      BY <1>3, <1>10, <2>4, <2>7, <3>1, <3>2, ArithmeticNoted
    <3>4. prim = BinaryPrim(Below, Top)
      BY DEF prim
    <3>5. QED BY <1>7, <1>13, <1>15, <3>3, <3>4 DEF Noted, TypeFits
  <2>8. QED BY <2>5, <2>6, <2>7 DEF BinaryOps
<1>18. NodeInv(e)
  BY <1>8, <1>12, <1>13, <1>16, <1>17 DEF NodeInv
<1>19. QED
  BY <1>2, <1>1, <1>3, <1>18, PushKeeps

\* A subscript without a pointer has no type.
LEMMA IndexNoPointerKeeps ==
    ASSUME AttributesInv, IndexNoPointer
    PROVE  AttributesInv'
<1>1. PICK l, r, e : l = Seen(Below) /\ r = Seen(Top) /\ e = Binary("[]", l, r)
  OBVIOUS
<1>2. CanAdd(2) /\ Push(2, e) /\ UNCHANGED <<grammar, optimize>>
  BY <1>1 DEF IndexNoPointer, Pure
<1>3. IsNode(e) /\ ~e.static
  BY <1>1, BinaryAttributes
<1>4. e.prim = "int" /\ e.og = "int" /\ e.lvl = 0 /\ e.ct = NoType
  BY <1>1 DEF Binary, Node
<1>5. NodeInv(e)
  BY <1>3, <1>4 DEF NodeInv, FoldsClean, Prims, SignedTypes
<1>6. 2 <= Len(stack)
  BY <1>2, TopmostAre
<1>7. QED BY <1>2, <1>5, <1>6, PushKeeps

LEMMA IndexKeeps ==
    ASSUME AttributesInv, Index
    PROVE  AttributesInv'
<1> DEFINE l == Seen(Below)
           r == Seen(Top)
           bytes == IF l.lvl = 0 THEN 4 ELSE Size(l.og, l.lvl - 1)
           lvl == MaxLvl(l, r) - 1
           a == IF Broken(l.v) THEN l.v ELSE IF Broken(r.v) THEN r.v ELSE IndexAddress(l.v, r, bytes)
           p == CBinaryType("+", l.ct, r.ct, FALSE, FALSE)
           odd == If(r.kind # "lit" /\ r.v # 0, "index")
           prim == BinaryPrim(l, r)
           u == Binary("[]", l, r)
           t == IF IsPtr(p) THEN Pointee(p) ELSE NoType
           at == CBinary("+", p, l, r)
           x == Pointed(u, bytes, a, t, at)
           prom == IF lvl = 0 THEN Promote(prim, 0) ELSE prim
           og == BinaryOg(l, r)
           here == x.here \cup odd
           e == [x EXCEPT !.prim = prom, !.og = og, !.lvl = lvl, !.here = here]
<1>1. Push(2, e)
  BY DEF Index
<1>2. CanAdd(2) /\ UNCHANGED <<grammar, optimize>>
  BY DEF Index, Pure
<1>3. MaxLvl(l, r) > 0
  BY DEF Index
<1>4. u = Binary("[]", l, r) /\ x = Pointed(u, bytes, a, t, at)
  OBVIOUS
<1>5. l = Seen(Below) /\ r = Seen(Top) /\ lvl = MaxLvl(l, r) - 1 /\ prim = BinaryPrim(l, r) /\ og = BinaryOg(l, r)
  OBVIOUS
<1>6. p = CBinaryType("+", l.ct, r.ct, FALSE, FALSE) /\ t = (IF IsPtr(p) THEN Pointee(p) ELSE NoType)
  OBVIOUS
<1>7. prom = (IF lvl = 0 THEN Promote(prim, 0) ELSE prim) /\ here = x.here \cup odd
  OBVIOUS
<1>8. odd \cap TypeDeviations = {}
  BY DEF If, TypeDeviations
<1> HIDE DEF l, r, bytes, lvl, a, p, odd, prim, u, t, at, x, prom, og, here
<1>9. NodeInv(Below) /\ NodeInv(Top) /\ Below.ct # NoType /\ Top.ct # NoType /\ 2 <= Len(stack)
  BY <1>2, TopmostAre
<1>10. IsNode(u) /\ (u.ok <=> VerifyBinary("[]", l, r)) /\ ~u.static /\ u.below = Odd(l) \cup Odd(r)
  BY <1>4, BinaryAttributes
<1>11. /\ IsNode(x) /\ (x.ok <=> u.ok) /\ (x.static <=> u.static) /\ x.ct = t
       /\ x.here \cap TypeDeviations = {} /\ x.below = u.below
  BY <1>4, <1>10, PointedAttributes
<1>12. IsNode(e)
  BY <1>11 DEF IsNode
<1>13. e.prim = prom /\ e.og = og /\ e.lvl = lvl /\ e.ct = t
  BY <1>11 DEF IsNode, Node
<1>14. (e.ok <=> x.ok) /\ (e.static <=> x.static)
  BY <1>11 DEF IsNode, Node
<1>15. e.here = here /\ e.below = x.below
  BY <1>11 DEF IsNode, Node
<1> HIDE DEF e
<1>16. /\ (l.ok <=> Below.ok) /\ l.lvl = Below.lvl /\ l.ct = Below.ct
       /\ Odd(l) \cap TypeDeviations = Odd(Below) \cap TypeDeviations
  BY <1>5, <1>9, SeenAttributes
<1>17. /\ (r.ok <=> Top.ok) /\ r.lvl = Top.lvl /\ r.ct = Top.ct
       /\ Odd(r) \cap TypeDeviations = Odd(Top) \cap TypeDeviations
  BY <1>5, <1>9, SeenAttributes
<1>18. /\ prim = BinaryPrim(Below, Top) /\ og = BinaryOg(Below, Top)
       /\ MaxLvl(l, r) = MaxLvl(Below, Top)
  BY <1>5, <1>9, SeenPair
<1>19. prim \in Prims /\ og \in Prims /\ lvl \in Nat /\ MaxLvl(Below, Top) = lvl + 1
  <2>1. MaxLvl(Below, Top) \in Nat /\ BinaryPrim(Below, Top) \in Prims /\ BinaryOg(Below, Top) \in Prims
    BY <1>9, BinaryTyped
  <2>2. QED BY <1>3, <1>5, <1>18, <2>1
<1>20. prom \in Prims /\ (prom \in Unsigned <=> prim \in Unsigned)
  BY <1>7, <1>19, Promoted
<1>21. ASSUME e.ok, e.ct # NoType, Clean(e) PROVE Noted(e)
  <2>1. VerifyBinary("[]", l, r)
    BY <1>10, <1>11, <1>14, <1>21
  <2>2. Below.ok /\ Top.ok
    BY <1>16, <1>17, <2>1 DEF VerifyBinary
  <2>3. Odd(l) \cap TypeDeviations = {} /\ Odd(r) \cap TypeDeviations = {}
    <3>1. e.below \cap TypeDeviations = {}
      BY <1>21 DEF Clean, Odd
    <3>2. e.below = Odd(l) \cup Odd(r)
      BY <1>10, <1>11, <1>15
    <3>3. QED BY <3>1, <3>2
  <2>4. Noted(Below) /\ Noted(Top)
    BY <1>9, <1>16, <1>17, <2>2, <2>3 DEF NodeInv, Clean
  <2>5. ~(Below.lvl > 0 /\ Top.lvl > 0)
    BY <1>16, <1>17, <2>1 DEF VerifyBinary, PtrOps, Comparison, Equality, Relational
  <2>6. IsPtr(p) /\ t = Pointee(p)
    BY <1>6, <1>13, <1>21
  <2>7. p # NoType
    BY <2>6 DEF IsPtr, NoType, CType
  <2>8. TypeFits(p, Below, Top)
    <3>1. p = CBinaryType("+", Below.ct, Top.ct, FALSE, FALSE) /\ "+" \in Arithmetic
      BY <1>6, <1>16, <1>17 DEF Arithmetic
    <3>2. QED BY <1>9, <2>4, <2>5, <2>7, <3>1, ArithmeticNoted
  <2>9. /\ p.prim \in Prims /\ p = CType(p.prim, lvl + 1)
        /\ prim \in Unsigned <=> p.prim \in Unsigned
        /\ og = p.prim
    BY <1>18, <1>19, <2>8 DEF TypeFits
  <2>10. t = CType(p.prim, lvl)
    <3>1. p.lvl = lvl + 1
      BY <2>9 DEF CType
    <3>2. QED BY <1>19, <2>6, <3>1 DEF Pointee
  <2>11. QED BY <1>13, <1>20, <2>9, <2>10 DEF Noted, CType
<1>22. NodeInv(e)
  BY <1>10, <1>11, <1>12, <1>13, <1>14, <1>19, <1>20, <1>21 DEF NodeInv, FoldsClean
<1>23. QED
  BY <1>1, <1>2, <1>9, <1>22, PushKeeps

LEMMA AssignKeeps ==
    ASSUME AttributesInv, Assign
    PROVE  AttributesInv'
<1> DEFINE l == Seen(Below)
           r == Seen(Top)
           u == Binary("=", l, r)
           bad == Broken(l.a) \/ Broken(r.v)
           valid == l.ca # NoAddress /\ CAssignable(l.ct, r.ct, CNull(Top))
           defined == valid /\ r.cv # Undefined /\ ~Conflict(l, r) /\ CStores(u, l.ct, l.ca)
           c == Convert(l.ct, r.cv)
           prim == BinaryPrim(l, r)
           og == BinaryOg(l, r)
           lvl == MaxLvl(l, r)
           v == IF bad THEN Worst(l.a, r.v) ELSE l.a
           static == Below.static /\ Top.static
           ct == IF valid THEN l.ct ELSE NoType
           cv == IF defined THEN c ELSE Undefined
           writes == u.writes \cup IF defined THEN Bytes(l.ca, l.ct) ELSE Addresses
           e == [u EXCEPT !.prim = prim, !.og = og, !.lvl = lvl, !.v = v, !.a = l.a,
                 !.here = {"assigned"}, !.static = static, !.ct = ct, !.cv = cv, !.writes = writes]
<1>1. Push(2, e)
  BY DEF Assign
<1>2. CanAdd(2) /\ UNCHANGED <<grammar, optimize>>
  BY DEF Assign
<1>3. l = Seen(Below) /\ r = Seen(Top) /\ u = Binary("=", l, r)
  OBVIOUS
<1>4. l.ca = NoAddress => ct = NoType
  OBVIOUS
<1>5. prim = BinaryPrim(l, r) /\ og = BinaryOg(l, r) /\ lvl = MaxLvl(l, r)
  OBVIOUS
<1> HIDE DEF l, r, u, bad, valid, defined, c, prim, og, lvl, v, ct, cv, writes
<1>6. NodeInv(Below) /\ NodeInv(Top) /\ 2 <= Len(stack)
  BY <1>2, TopmostAre
<1>7. IsNode(u) /\ u.ca = NoAddress
  BY <1>3, BinaryAttributes
<1>8. IsNode(e)
  BY <1>7 DEF IsNode
<1>9. e.prim = prim /\ e.og = og /\ e.lvl = lvl /\ e.ct = ct
  BY <1>7 DEF IsNode, Node
<1>10. e.static <=> Below.static /\ Top.static
  BY <1>7 DEF IsNode, Node
<1>11. e.ca = NoAddress /\ e.here = {"assigned"}
  BY <1>7 DEF IsNode, Node
<1> HIDE DEF e
<1>12. prim \in Prims /\ og \in Prims /\ lvl \in Nat
  <2>1. prim = BinaryPrim(Below, Top) /\ og = BinaryOg(Below, Top) /\ lvl = MaxLvl(Below, Top)
    BY <1>3, <1>5, <1>6, SeenPair
  <2>2. QED BY <1>6, <2>1, BinaryTyped
<1>13. FoldsClean(e)
  <2>1. l.ca = Below.ca
    BY <1>3, <1>6, SeenAttributes
  <2>2. FoldsClean(Below)
    BY <1>6 DEF NodeInv
  <2>3. QED BY <1>4, <1>9, <1>10, <1>11, <2>1, <2>2 DEF FoldsClean
<1>14. ~Clean(e)
  BY <1>11 DEF Clean, Odd, TypeDeviations
<1>15. NodeInv(e)
  BY <1>8, <1>9, <1>12, <1>13, <1>14 DEF NodeInv
<1>16. QED
  BY <1>1, <1>2, <1>6, <1>15, PushKeeps
-----------------------------------------------------------------------------
(* What Expr_verify says of two operands that have C's types.              *)

VerdictFits(op, l, r) ==
    \/ VerifyBinary(op, l, r) <=> CTakes(op, l, r)
    \/ IF CTakes(op, l, r) THEN TooStrict(op, l, r) ELSE TooLax(op, l, r)

\* The comma is no other operator.
LEMMA CommaIs ==
    ASSUME NEW op, op = ","
    PROVE  op \notin PtrOps /\ op \notin SinglePtrOps /\ op # "=" /\ op # "[]"
BY DEF PtrOps, SinglePtrOps, Comparison, Equality, Relational

\* What each operator is.
LEMMA OperatorKinds ==
    ASSUME NEW op \in BinaryOps \cup {"[]", "="}
    PROVE  \/ op \in Arithmetic \/ op \in Comparison \/ op \in Logical
           \/ op \in {","} \/ op = "[]" \/ op = "="
BY DEF BinaryOps

\* Two operands whose levels are those of their types.
LEMMA VerdictOfTypes ==
    ASSUME NEW op \in BinaryOps \cup {"[]", "="}, NEW l, NEW r, l.ok, r.ok,
           NEW p \in Prims, NEW q \in Prims, NEW ll \in Nat, NEW rl \in Nat,
           l.ct = CType(p, ll), r.ct = CType(q, rl), l.lvl = ll, r.lvl = rl,
           op = "[]" => MaxLvl(l, r) > 0
    PROVE  VerdictFits(op, l, r)
<1>1. PICK s, u : s = l.ct /\ u = r.ct
  OBVIOUS
<1>2. PICK null0 \in BOOLEAN, null1 \in BOOLEAN : (null0 = CNull(l)) /\ (null1 = CNull(r))
  BY DEF CNull
<1>3. /\ s # NoType /\ u # NoType
      /\ ll # rl => s # u
  <2>1. s.prim = p /\ u.prim = q /\ s.lvl = ll /\ u.lvl = rl
    BY <1>1 DEF CType
  <2>2. NoType.prim \notin Prims
    BY DEF NoType, CType, Prims, SignedTypes
  <2>3. QED BY <2>1, <2>2
<1>4. /\ IsArith(s) <=> ll = 0
      /\ IsArith(u) <=> rl = 0
      /\ IsPtr(s) <=> ll > 0
      /\ IsPtr(u) <=> rl > 0
  <2>1. s.lvl = ll /\ u.lvl = rl
    BY <1>1 DEF CType
  <2>2. QED BY <1>3, <2>1 DEF IsArith, IsPtr
<1>5. CInt # NoType
  BY DEF CInt, NoType, CType
<1>6. ll = 0 /\ rl = 0 => CUsual(s, u) # NoType
  <2>1. SUFFICES ASSUME ll = 0, rl = 0 PROVE CUsual(s, u) # NoType
    OBVIOUS
  <2>2. PICK m \in Prims : CUsual(s, u) = CType(m, 0)
    BY <1>1, <2>1, UsualType
  <2>3. NoType.prim \notin Prims /\ CType(m, 0).prim = m
    BY DEF NoType, CType, Prims, SignedTypes
  <2>4. QED BY <2>2, <2>3
<1>7. PICK v \in BOOLEAN : v <=> VerifyBinary(op, l, r)
  OBVIOUS
<1>8. /\ ll = 0 => v
      /\ ll > 0 /\ rl > 0 => (v <=> op \in PtrOps)
      /\ ll > 0 /\ rl = 0 => (v <=> op \in SinglePtrOps)
  BY <1>7 DEF VerifyBinary
<1>9. PICK strict \in BOOLEAN, lax \in BOOLEAN :
        (strict <=> TooStrict(op, l, r)) /\ (lax <=> TooLax(op, l, r))
  OBVIOUS
<1>10. ll > 0 /\ (op \in Logical \/ op \in {","} \/ (op \in Equality \cup {"="} /\ null1)) => strict
  BY <1>2, <1>1, <1>4, <1>9 DEF TooStrict
<1>11. /\ op = "=" /\ l.ca = NoAddress => lax
       /\ rl > 0 /\ s # u => lax
  BY <1>1, <1>4, <1>9 DEF TooLax
<1>12. SUFFICES ASSUME NEW takes \in BOOLEAN, takes <=> CTakes(op, l, r)
                PROVE  (v <=> takes) \/ (IF takes THEN strict ELSE lax)
  BY <1>7, <1>9 DEF VerdictFits
<1>13. ASSUME op # "=", op # "[]"
       PROVE  takes <=> CBinaryType(op, s, u, null0, null1) # NoType
  BY <1>2, <1>1, <1>12, <1>13 DEF CTakes
<1>14. ASSUME op \in Arithmetic PROVE (v <=> takes) \/ (IF takes THEN strict ELSE lax)
  <2>1. op \notin {","} \cup Logical
    BY <1>14 DEF Arithmetic, Logical
  <2>2. op \notin Comparison /\ op \notin Equality /\ op # "=" /\ op # "[]"
    BY <1>14 DEF Arithmetic, Comparison, Equality, Relational
  <2>3. CBinaryType(op, s, u, null0, null1) =
          IF ll = 0 /\ rl = 0 THEN CUsual(s, u)
          ELSE IF op = "-" /\ s = u THEN CInt
          ELSE IF op \in {"+", "-"} /\ ll > 0 /\ rl = 0 THEN s
          ELSE IF op = "+" /\ ll = 0 /\ rl > 0 THEN u
          ELSE NoType
    BY <2>1, <2>2, <1>4 DEF CBinaryType
  <2>4. (op \in PtrOps <=> op = "-") /\ (op \in SinglePtrOps <=> op \in {"+", "-"})
    BY <2>2 DEF PtrOps, SinglePtrOps
  <2>5. QED BY <1>3, <1>5, <1>6, <1>8, <1>11, <1>13, <2>2, <2>3, <2>4
<1>15. ASSUME op \in Comparison PROVE (v <=> takes) \/ (IF takes THEN strict ELSE lax)
  <2>1. op \notin {","} \cup Logical
    BY <1>15 DEF Logical, Comparison, Equality, Relational
  <2>2. op \notin {"+", "-"} /\ op # "=" /\ op # "[]"
    BY <1>15 DEF Comparison, Equality, Relational
  <2>3. CBinaryType(op, s, u, null0, null1) =
          IF ll = 0 /\ rl = 0 THEN CInt
          ELSE IF s = u THEN CInt
          ELSE IF op \in Equality /\ (IF ll > 0 THEN null1 ELSE null0) THEN CInt
          ELSE NoType
    BY <2>1, <2>2, <1>4, <1>15 DEF CBinaryType
  <2>4. op \in PtrOps /\ op \notin SinglePtrOps
    BY <1>15, <2>2 DEF PtrOps, SinglePtrOps, Comparison, Equality, Relational
  <2>5. takes <=> CBinaryType(op, s, u, null0, null1) # NoType
    BY <1>13, <2>2
  <2>6. CASE ll = 0
    BY <1>3, <1>5, <1>8, <1>11, <2>3, <2>5, <2>6
  <2>7. CASE ll > 0 /\ rl = 0
    <3>1. ~v
      BY <1>8, <2>4, <2>7
    <3>2. takes => op \in Equality /\ null1
      BY <1>3, <2>3, <2>5, <2>7
    <3>3. QED BY <1>10, <2>7, <3>1, <3>2
  <2>8. CASE ll > 0 /\ rl > 0
    BY <1>5, <1>8, <1>11, <2>3, <2>4, <2>5, <2>8
  <2>9. QED BY <2>6, <2>7, <2>8
<1>16. ASSUME op \in Logical PROVE (v <=> takes) \/ (IF takes THEN strict ELSE lax)
  <2>1. op \notin {","} /\ op # "=" /\ op # "[]" /\ op \notin PtrOps /\ op \notin SinglePtrOps
    BY <1>16 DEF Logical, PtrOps, SinglePtrOps, Comparison, Equality, Relational
  <2>2. CBinaryType(op, s, u, null0, null1) = CInt
    BY <2>1, <1>16 DEF CBinaryType
  <2>3. takes
    BY <1>5, <1>13, <2>1, <2>2
  <2>4. ll > 0 => strict
    BY <1>10, <1>16
  <2>5. QED BY <1>8, <2>3, <2>4
<1>17. ASSUME op \in {","} PROVE (v <=> takes) \/ (IF takes THEN strict ELSE lax)
  <2>1. op \notin PtrOps /\ op \notin SinglePtrOps /\ op # "=" /\ op # "[]"
    BY <1>17, CommaIs
  <2>2. CBinaryType(op, s, u, null0, null1) = u
    BY <1>17 DEF CBinaryType
  <2>3. ll > 0 => strict
    BY <1>10, <1>17
  <2>4. takes
    BY <1>3, <1>13, <2>1, <2>2
  <2>5. ll > 0 \/ v
    BY <1>8
  <2>6. QED BY <2>3, <2>4, <2>5
<1>18. ASSUME op = "[]" PROVE (v <=> takes) \/ (IF takes THEN strict ELSE lax)
  <2>1. PICK t : t = CBinaryType("+", s, u, FALSE, FALSE)
    OBVIOUS
  <2>2. takes <=> IsPtr(t)
    BY <1>1, <1>12, <1>18, <2>1 DEF CTakes
  <2>3. PICK plus : plus = "+" /\ plus \notin {","} \cup Logical \cup Comparison /\ plus \notin Equality
    <3>1. "+" \notin {","} \cup Logical \cup Comparison /\ "+" \notin Equality
      BY DEF Logical, Comparison, Equality, Relational
    <3>2. QED BY <3>1
  <2>4. ll > 0 \/ rl > 0 =>
          t = IF ll > 0 /\ rl = 0 THEN s ELSE IF ll = 0 /\ rl > 0 THEN u ELSE NoType
    BY <2>1, <2>3, <1>4 DEF CBinaryType
  <2>5. ~IsPtr(NoType)
    BY DEF IsPtr, NoType, CType
  <2>6. op \notin PtrOps /\ op \in SinglePtrOps
    BY <1>18 DEF PtrOps, SinglePtrOps, Comparison, Equality, Relational
  <2>7. ll > 0 \/ rl > 0
    BY <1>18 DEF MaxLvl
  <2>8. QED
    <3>1. takes <=> ~(ll > 0 /\ rl > 0)
      BY <1>4, <2>2, <2>4, <2>5, <2>7
    <3>2. v <=> ~(ll > 0 /\ rl > 0)
      BY <1>8, <2>6, <2>7
    <3>3. QED BY <3>1, <3>2
<1>19. ASSUME op = "=" PROVE (v <=> takes) \/ (IF takes THEN strict ELSE lax)
  <2>1. takes <=> l.ca # NoAddress /\ ((ll = 0 /\ rl = 0) \/ s = u \/ (ll > 0 /\ null1))
    BY <1>2, <1>1, <1>4, <1>12, <1>19 DEF CTakes, CAssignable
  <2>2. op \in PtrOps /\ op \notin SinglePtrOps
    BY <1>19 DEF PtrOps, SinglePtrOps
  <2>3. QED BY <1>3, <1>8, <1>10, <1>11, <1>19, <2>1, <2>2
<1>20. QED
  BY <1>14, <1>15, <1>16, <1>17, <1>18, <1>19, OperatorKinds

-----------------------------------------------------------------------------
(* The theorems.                                                           *)

LEMMA InitAttributes == Init => AttributesInv
<1>1. SUFFICES ASSUME Init PROVE AttributesInv
  OBVIOUS
<1>2. stack = << >>
  BY <1>1 DEF Init
<1>3. << >> \in Seq({}) /\ Len(<< >>) = 0
  OBVIOUS
<1>4. Row(stack)
  BY <1>2, <1>3, RowOf
<1>5. DOMAIN stack = {}
  BY <1>2, <1>3, <1>4, RowFacts
<1>6. grammar \in Grammars /\ optimize \in BOOLEAN
  BY <1>1 DEF Init
<1>7. QED BY <1>4, <1>5, <1>6 DEF AttributesInv

LEMMA NextKeeps == AttributesInv /\ [Next]_vars => AttributesInv'
<1>1. SUFFICES ASSUME AttributesInv, [Next]_vars PROVE AttributesInv'
  OBVIOUS
<1>2. ASSUME NEW n \in grammar.lits, Literal(n) PROVE AttributesInv'
  BY <1>1, <1>2, LiteralKeeps
<1>3. ASSUME NEW o \in grammar.vars, Variable(o) PROVE AttributesInv'
  BY <1>1, <1>3, VariableKeeps
<1>4. ASSUME NEW addr \in grammar.strings, StringLiteral(addr) PROVE AttributesInv'
  BY <1>1, <1>4, StringLiteralKeeps
<1>5. ASSUME NEW op, UnaryOp(op) PROVE AttributesInv'
  BY <1>1, <1>5, UnaryOpKeeps
<1>6. ASSUME NEW t \in grammar.casts, Cast(t) PROVE AttributesInv'
  BY <1>1, <1>6, CastKeeps
<1>7. CASE Reference \/ Dereference
  BY <1>1, <1>7, ReferenceKeeps, DereferenceKeeps
<1>8. ASSUME NEW op \in BinaryOps, BinaryOp(op) PROVE AttributesInv'
  BY <1>1, <1>8, BinaryOpKeeps
<1>9. CASE Index \/ IndexNoPointer \/ Assign
  BY <1>1, <1>9, IndexKeeps, IndexNoPointerKeeps, AssignKeeps
<1>10. ASSUME NEW op, NEW junk, Step(op, junk) PROVE AttributesInv'
  BY <1>1, <1>10, StepKeeps
<1>11. CASE UNCHANGED vars
  <2>1. UNCHANGED <<grammar, optimize, stack>>
    BY <1>11 DEF vars
  <2>2. QED BY <1>1, <2>1 DEF AttributesInv
<1>12. QED
  BY <1>1, <1>2, <1>3, <1>4, <1>5, <1>6, <1>7, <1>8, <1>9, <1>10, <1>11 DEF Next

\* Every subexpression has the attributes of C's, or a deviation of its type.
THEOREM AttributesInvariant == Spec => []AttributesInv
<1>1. QED
  BY InitAttributes, NextKeeps, PTL DEF Spec

\* The type noted for an expression has the size and the sign of C's, or is
\* C's pointer type.
THEOREM TypesAreCs == Spec => []TypesAgree
<1>1. ASSUME AttributesInv PROVE TypesAgree
  <2>1. SUFFICES ASSUME Finished, Top.ct # NoType, Clean(Top)
                 PROVE  IF IsPtr(Top.ct) THEN Top.lvl = Top.ct.lvl /\ Top.og = Top.ct.prim
                        ELSE /\ Top.lvl = 0
                             /\ Class(CType(Promote(Top.prim, 0), 0)) = Class(CPromote(Top.ct))
    BY DEF TypesAgree, Clean
  <2>2. NodeInv(Top)
    <3>1. Top = stack[1] /\ DOMAIN stack = 1 .. 1
      BY <1>1, <2>1, RowFacts DEF Finished, Top, Last, AttributesInv
    <3>2. QED BY <1>1, <3>1 DEF AttributesInv
  <2>3. Noted(Top)
    BY <2>1, <2>2 DEF NodeInv, Finished
  <2>4. PICK q \in Prims, n \in Nat : q = Top.ct.prim /\ n = Top.lvl /\ Top.ct = CType(q, n)
    BY <2>2, <2>3 DEF NodeInv, Noted
  <2>5. Top.ct.lvl = n /\ (IsPtr(Top.ct) <=> n > 0)
    BY <2>4 DEF CType, IsPtr
  <2>6. CASE n > 0
    BY <2>3, <2>4, <2>5, <2>6 DEF Noted
  <2>7. CASE n = 0
    <3>1. PICK p \in Prims : p = Top.prim /\ (p \in Unsigned <=> q \in Unsigned)
      BY <2>2, <2>3, <2>4 DEF NodeInv, Noted
    <3>2. Class(CType(Promote(p, 0), 0)) = Class(CPromote(CType(q, 0)))
      BY <3>1, PromotedClass
    <3>3. QED BY <2>4, <2>5, <2>7, <3>1, <3>2
  <2>8. QED BY <2>6, <2>7
<1>2. QED
  BY AttributesInvariant, <1>1, PTL

\* Expr_verify accepts two operands exactly when C does, but for where it is
\* too strict or too lax.
THEOREM VerdictIsCs == Spec => []Verdict
<1>1. ASSUME AttributesInv PROVE Verdict
  <2>1. SUFFICES ASSUME Len(stack) > 1, Below.ok, Top.ok, Below.ct # NoType, Top.ct # NoType,
                        Clean(Below), Clean(Top),
                        NEW op \in Verified
                 PROVE  VerdictFits(op, Below, Top)
    BY DEF Verdict, VerdictFits, Clean
  <2>2. NodeInv(Below) /\ NodeInv(Top)
    <3>1. Len(stack) \in Nat /\ DOMAIN stack = 1 .. Len(stack)
      BY <1>1, RowFacts DEF AttributesInv
    <3>2. Top = stack[Len(stack)] /\ Below = stack[Len(stack) - 1]
      BY DEF Top, Last, Below
    <3>3. QED BY <1>1, <2>1, <3>1, <3>2 DEF AttributesInv
  <2>3. Noted(Below) /\ Noted(Top)
    BY <2>1, <2>2 DEF NodeInv
  <2>4. PICK p \in Prims, q \in Prims, ll \in Nat, rl \in Nat :
          /\ Below.ct = CType(p, ll) /\ Top.ct = CType(q, rl)
          /\ Below.lvl = ll /\ Top.lvl = rl
    BY <2>2, <2>3 DEF NodeInv, Noted
  <2>5. op \in BinaryOps \cup {"[]", "="} /\ (op = "[]" => MaxLvl(Below, Top) > 0)
    <3>1. op \in BinaryOps => op # "[]"
      BY DEF BinaryOps, Arithmetic, Comparison, Equality, Relational, Logical
    <3>2. QED BY <2>1, <3>1 DEF Verified, If
  <2>6. QED BY <2>1, <2>4, <2>5, VerdictOfTypes
<1>2. QED
  BY AttributesInvariant, <1>1, PTL

-----------------------------------------------------------------------------
(* Words and memory.                                                       *)

Words == Aborts .. W - 1
MemOK(m) == m \in [Addresses -> 0 .. Mod(1) - 1]

LEMMA ModFacts ==
    /\ Mod(1) \in Nat /\ Mod(2) \in Nat /\ Mod(4) \in Nat /\ Mod(3) \in Nat
    /\ Mod(0) = 1 /\ Mod(1) >= 2 /\ Mod(3) >= 2 /\ Mod(2) >= Mod(1) /\ Mod(4) >= Mod(2) /\ Mod(4) >= 16
    /\ Mod(2) = Mod(1) * Mod(1) /\ Mod(4) = Mod(2) * Mod(2)
<1>1. PICK b \in Nat : b = ByteMod /\ b >= 2
  BY ByteAssumption
<1>2. PICK s \in Nat : s = b * b /\ s >= 2 * b
  <2>1. b * b \in Nat /\ b * b >= 2 * b
    BY <1>1
  <2>2. QED BY <2>1
<1>3. b * b * b = s * b /\ b * b * b * b = s * s
  BY <1>2
<1>4. s * b \in Nat /\ s * b >= s
  BY <1>1, <1>2
<1>5. s * s \in Nat /\ s * s >= 4 * s
  BY <1>1, <1>2
<1>6. Mod(0) = 1 /\ Mod(1) = b /\ Mod(2) = s
  BY <1>1, <1>2 DEF Mod
<1>7. Mod(3) = s * b
  BY <1>1, <1>3 DEF Mod
<1>8. Mod(4) = s * s
  BY <1>1, <1>3 DEF Mod
<1>9. QED BY <1>1, <1>2, <1>4, <1>5, <1>6, <1>7, <1>8

\* A remainder is less than the divisor, a quotient not more than the dividend.
LEMMA Remainder ==
    ASSUME NEW x \in Int, NEW m \in Nat, m > 0
    PROVE  x % m \in 0 .. m - 1
OBVIOUS
LEMMA Dividend ==
    ASSUME NEW x \in Nat, NEW m \in Nat, m > 0
    PROVE  x \div m \in 0 .. x
OBVIOUS
LEMMA IntQuotient ==
    ASSUME NEW x \in Int, NEW m \in Nat, m > 0
    PROVE  x \div m \in Int
OBVIOUS

\* Two digits.
LEMMA TwoDigits ==
    ASSUME NEW m \in Nat, NEW x \in 0 .. m - 1, NEW y \in 0 .. m - 1
    PROVE  x + y * m \in 0 .. m * m - 1
<1>1. y * m <= (m - 1) * m
  OBVIOUS
<1>2. (m - 1) * m = m * m - m
  OBVIOUS
<1>3. y * m \in Nat /\ m * m \in Nat
  OBVIOUS
<1>4. QED BY <1>1, <1>2, <1>3

\* The upper digits of a word, with other lower ones.
LEMMA UpperDigits ==
    ASSUME NEW m \in Nat, m > 0, NEW k \in Nat, NEW x \in 0 .. k * m - 1, NEW y \in 0 .. m - 1
    PROVE  x - (x % m) + y \in 0 .. k * m - 1
<1>1. PICK q \in Int, r \in 0 .. m - 1 : q = x \div m /\ r = x % m /\ x = q * m + r
  OBVIOUS
<1>2. k * m \in Nat
  OBVIOUS
<1>3. q < k
  <2>1. SUFFICES ASSUME q >= k PROVE FALSE
    BY <1>1
  <2>2. q * m >= k * m
    BY <2>1
  <2>3. QED BY <1>1, <1>2, <2>2
<1>4. q >= 0
  <2>1. SUFFICES ASSUME q <= -1 PROVE FALSE
    BY <1>1
  <2>2. q * m <= -m
    BY <2>1
  <2>3. QED BY <1>1, <1>2, <2>2
<1>5. q * m >= 0 /\ q * m <= (k - 1) * m /\ (k - 1) * m = k * m - m
  BY <1>3, <1>4
<1>6. QED BY <1>1, <1>2, <1>5

LEMMA SizeIs == \A prim, lvls : Size(prim, lvls) \in {1, 2, 4}
BY DEF Size

LEMMA LoadRange ==
    ASSUME NEW m, MemOK(m), NEW a, NEW bytes \in {1, 2, 4}
    PROVE  Load(m, a, bytes) \in 0 .. Mod(bytes) - 1
<1>1. \A x : ByteAt(m, x) \in 0 .. Mod(1) - 1
  BY ModFacts DEF ByteAt, MemOK
<1>2. \A x : HalfAt(m, x) \in 0 .. Mod(2) - 1
  <2>1. TAKE x
  <2>2. PICK u \in 0 .. Mod(1) - 1, v \in 0 .. Mod(1) - 1 : u = ByteAt(m, x) /\ v = ByteAt(m, x + 1)
    BY <1>1
  <2>3. u + v * Mod(1) \in 0 .. Mod(1) * Mod(1) - 1
    BY ModFacts, TwoDigits
  <2>4. QED BY <2>2, <2>3, ModFacts DEF HalfAt
<1>3. PICK u \in 0 .. Mod(2) - 1, v \in 0 .. Mod(2) - 1 : u = HalfAt(m, a) /\ v = HalfAt(m, a + 2)
  BY <1>2
<1>4. u + v * Mod(2) \in 0 .. Mod(2) * Mod(2) - 1
  BY ModFacts, TwoDigits
<1>5. CASE bytes = 1
  BY <1>1, <1>5 DEF Load
<1>6. CASE bytes = 2
  BY <1>2, <1>6 DEF Load
<1>7. CASE bytes = 4
  <2>1. Load(m, a, bytes) = u + v * Mod(2)
    BY <1>3, <1>7 DEF Load
  <2>2. QED BY <1>4, <1>7, <2>1, ModFacts
<1>8. QED BY <1>5, <1>6, <1>7

LEMMA StoreKeeps ==
    ASSUME NEW m, MemOK(m), NEW a \in Int, NEW bytes \in {1, 2, 4}, NEW v \in Int
    PROVE  MemOK(Store(m, a, bytes, v))
<1>1. ASSUME NEW b \in Addresses
      PROVE  (IF b \in a .. a + bytes - 1 THEN (v \div Mod(b - a)) % Mod(1) ELSE m[b]) \in 0 .. Mod(1) - 1
  <2>1. CASE b \in a .. a + bytes - 1
    <3>1. b - a \in {0, 1, 2, 3}
      BY <2>1
    <3>2. Mod(b - a) \in Nat /\ Mod(b - a) > 0
      BY <3>1, ModFacts
    <3>3. PICK q \in Int : q = v \div Mod(b - a)
      BY <3>2, IntQuotient
    <3>4. q % Mod(1) \in 0 .. Mod(1) - 1
      BY ModFacts, Remainder
    <3>5. QED BY <2>1, <3>3, <3>4
  <2>2. CASE b \notin a .. a + bytes - 1
    BY <2>2 DEF MemOK
  <2>3. QED BY <2>1, <2>2
<1>2. DOMAIN m = Addresses
  BY DEF MemOK
<1>3. QED BY <1>1, <1>2 DEF MemOK, Store
-----------------------------------------------------------------------------
(* C's values are integers.                                                *)

LEMMA ConvertInt ==
    ASSUME NEW t, NEW v \in Int
    PROVE  Convert(t, v) \in Int
<1>1. PICK m \in Nat : m = Mod(CSize(t)) /\ m > 0
  <2>1. CSize(t) \in {1, 2, 4}
    BY SizeIs DEF CSize
  <2>2. QED BY <2>1, ModFacts
<1>2. PICK x \in Int : x = v % m
  BY <1>1, Remainder
<1>3. AsSigned(x, CSize(t)) \in Int
  BY <1>1, <1>2 DEF AsSigned
<1>4. QED BY <1>1, <1>2, <1>3 DEF Convert

LEMMA QuotientInt ==
    ASSUME NEW a \in Int, NEW b \in Int, b # 0
    PROVE  Quotient(a, b) \in Int
<1>1. Sign(a) \in Int /\ Sign(b) \in Int /\ Abs(a) \in Int /\ Abs(b) \in Nat /\ Abs(b) > 0
  BY DEF Sign, Abs
<1>2. PICK q \in Int : q = Abs(a) \div Abs(b)
  BY <1>1, IntQuotient
<1>3. QED BY <1>1, <1>2 DEF Quotient

LEMMA UndefinedInt == Undefined \in Int
BY ModFacts DEF Undefined

LEMMA InRangeInt ==
    ASSUME NEW t, NEW v \in Int
    PROVE  InRange(t, v) \in Int
BY ConvertInt, UndefinedInt DEF InRange

LEMMA CArithInt ==
    ASSUME NEW op \in Arithmetic, NEW t, NEW a \in Int, NEW b \in Int
    PROVE  CArith(op, t, a, b) \in Int
<1>1. CASE op \in {"+", "-", "*"}
  <2>1. a + b \in Int /\ a - b \in Int /\ a * b \in Int
    OBVIOUS
  <2>2. QED BY <1>1, <2>1, InRangeInt DEF CArith
<1>2. CASE op = "&"
  <2>1. a % Mod(4) \in 0 .. Mod(4) - 1 /\ b % Mod(4) \in 0 .. Mod(4) - 1
    BY ModFacts, Remainder
  <2>2. BitAnd(a % Mod(4), b % Mod(4)) \in Int
    BY <2>1, ByteAssumption, ModFacts
  <2>3. QED BY <1>2, <2>2, ConvertInt DEF CArith
<1>3. CASE op \in {"/", "%"} /\ b = 0
  BY <1>3, UndefinedInt DEF CArith
<1>4. CASE op = "/" /\ b # 0
  BY <1>4, QuotientInt, InRangeInt DEF CArith
<1>5. CASE op = "%" /\ b # 0
  <2>1. PICK q \in Int : q = Quotient(a, b)
    BY <1>5, QuotientInt
  <2>2. a - b * q \in Int
    OBVIOUS
  <2>3. CArith(op, t, a, b) \in {Undefined, a - b * q}
    BY <1>5, <2>1 DEF CArith
  <2>4. QED BY <2>2, <2>3, UndefinedInt
<1>6. QED BY <1>1, <1>2, <1>3, <1>4, <1>5 DEF Arithmetic

LEMMA CompareTruth ==
    ASSUME NEW op \in Comparison, NEW a, NEW b
    PROVE  Compare(op, a, b) \in {0, 1}
BY DEF Compare, Comparison, Equality, Relational, Truth

LEMMA CUnaryInt ==
    ASSUME NEW op \in {"+x", "-x", "~x", "!x"}, NEW t, NEW v \in Int
    PROVE  CUnary(op, t, v) \in Int
<1>1. -v \in Int /\ -v - 1 \in Int
  OBVIOUS
<1>2. InRange(t, -v) \in Int /\ Convert(t, -v - 1) \in Int
  BY <1>1, InRangeInt, ConvertInt
<1>3. QED BY <1>2, UndefinedInt DEF CUnary, Truth

LEMMA CPointerInt ==
    ASSUME NEW t, NEW a \in Int, NEW n \in Int
    PROVE  CPointerAdd(Objects, t, a, n) \in Int /\ CPointerSub(Objects, t, a, n) \in Int
<1>1. PICK m \in Nat : m = CSize(Pointee(t)) /\ m > 0
  BY SizeIs DEF CSize
<1>2. a + n * m \in Int /\ a - n \in Int
  OBVIOUS
<1>3. Quotient(a - n, m) \in Int
  BY <1>1, <1>2, QuotientInt
<1>4. QED BY <1>1, <1>2, <1>3, UndefinedInt DEF CPointerAdd, CPointerSub

LEMMA CBinaryInt ==
    ASSUME NEW op \in BinaryOps, NEW l, NEW r, l.cv \in Int, r.cv \in Int, NEW null0, NEW null1,
           NEW t, t = CBinaryType(op, l.ct, r.ct, null0, null1)
    PROVE  CBinary(op, t, l, r) \in Int
<1>1. PICK a \in Int, b \in Int : a = l.cv /\ b = r.cv
  OBVIOUS
<1>2. CASE op \in {","}
  <2>1. CBinary(op, t, l, r) \in {Undefined, r.cv} \/ CBinary(op, t, l, r) \in {0, 1}
    BY <1>2 DEF CBinary, Logical
  <2>2. QED BY <1>1, <2>1, UndefinedInt
<1>3. CASE op \in Logical
  <2>1. CBinary(op, t, l, r) \in {Undefined, 0, 1}
    BY <1>3 DEF CBinary, Truth
  <2>2. QED BY <2>1, UndefinedInt
<1>4. CASE op \in Comparison \/ op \in Arithmetic
  <2>1. op \notin {","} /\ op \notin Logical
    BY <1>4 DEF Logical, Comparison, Equality, Relational, Arithmetic
  <2>2. PICK u : u = CUsual(l.ct, r.ct)
    OBVIOUS
  <2>3. CBinary(op, t, l, r) = Undefined
          \/ (t # NoType /\ CBinary(op, t, l, r) = COperate(op, t, l, r))
    <3>1. op # "," /\ op # "&&" /\ op # "||" /\ op \notin Logical
      BY <2>1 DEF Logical
    <3>2. QED BY <3>1 DEF CBinary
  <2>4. CASE IsArith(l.ct) /\ IsArith(r.ct) /\ op \in Comparison
    BY <2>3, <2>4, UndefinedInt, CompareTruth DEF COperate
  <2>5. CASE IsArith(l.ct) /\ IsArith(r.ct) /\ op \in Arithmetic
    <3>1. op \notin Comparison
      BY <2>5 DEF Comparison, Equality, Relational, Arithmetic
    <3>2. CArith(op, t, Convert(t, a), Convert(t, b)) \in Int
      BY <2>5, ConvertInt, CArithInt
    <3>3. QED BY <1>1, <2>3, <2>5, <3>1, <3>2, UndefinedInt DEF COperate
  <2>6. CASE ~(IsArith(l.ct) /\ IsArith(r.ct)) /\ op \in Comparison
    <3>1. op \in Equality \/ op \in Relational
      BY <2>6 DEF Comparison
    <3>2. op \in Comparison /\ Compare(op, l.cv, r.cv) \in {0, 1}
      BY <2>6, CompareTruth
    <3>3. QED BY <2>3, <2>6, <3>1, <3>2, UndefinedInt DEF COperate, Equality, Relational
  <2>7. CASE ~(IsArith(l.ct) /\ IsArith(r.ct)) /\ op \in Arithmetic
    <3>1. op \notin Equality /\ op \notin Relational /\ op \notin Comparison
      BY <2>7 DEF Comparison, Equality, Relational, Arithmetic
    <3>2. t # NoType => op \in {"+", "-"}
      <4>1. t = IF op \in {"-"} /\ l.ct = r.ct THEN CInt
                ELSE IF op \in {"+", "-"} /\ IsPtr(l.ct) /\ IsArith(r.ct) THEN l.ct
                ELSE IF op = "+" /\ IsArith(l.ct) /\ IsPtr(r.ct) THEN r.ct
                ELSE NoType
        BY <2>1, <2>7, <3>1 DEF CBinaryType
      <4>2. QED BY <4>1
    <3>3. -b \in Int
      OBVIOUS
    <3>4. /\ CPointerAdd(Objects, l.ct, a, b) \in Int /\ CPointerAdd(Objects, r.ct, b, a) \in Int
          /\ CPointerSub(Objects, l.ct, a, b) \in Int /\ CPointerAdd(Objects, l.ct, a, -b) \in Int
      BY <3>3, CPointerInt
    <3>5. QED BY <1>1, <2>3, <2>7, <3>1, <3>2, <3>4, UndefinedInt DEF COperate
  <2>8. QED BY <1>4, <2>4, <2>5, <2>6, <2>7
<1>5. QED
  BY <1>2, <1>3, <1>4, OperatorKinds DEF BinaryOps
-----------------------------------------------------------------------------
(* The code's values fit a register, or say that there is none.            *)

Word == 0 .. W - 1

LEMMA WordFacts ==
    /\ Word \subseteq Words
    /\ \A v \in Words : ~Broken(v) => v \in Word
    /\ \A v \in Words : Broken(v) => v \in {Traps, Unassembled, Aborts}
    /\ {Traps, Unassembled, Aborts} \subseteq Words
    /\ {0, 1} \subseteq Word
    /\ \A v \in Words : v \in Int
    /\ \A v \in Word : v \in Nat
    /\ W \in Nat /\ W > 1
    /\ \A v \in Word : v \notin {Traps, Unassembled, Aborts}
BY ModFacts DEF Word, Words, W, Traps, Unassembled, Aborts, Broken

LEMMA WrapsToWord ==
    ASSUME NEW v \in Int
    PROVE  v % W \in Word
BY WordFacts, Remainder DEF Word

LEMMA CodeUnaryWords ==
    ASSUME NEW op \in {"+x", "-x", "~x", "!x"}, NEW v \in Words
    PROVE  CodeUnary(op, v) \in Words
<1>1. CASE Broken(v)
  BY <1>1 DEF CodeUnary
<1>2. CASE ~Broken(v)
  <2>1. v \in 0 .. W - 1 /\ W \in Nat
    BY <1>2, WordFacts DEF Word
  <2>2. (W - v) % W \in Word
    <3>1. W - v \in Int
      BY <2>1
    <3>2. QED BY <3>1, WrapsToWord
  <2>3. W - 1 - v \in Word
    BY <2>1 DEF Word
  <2>4. CodeUnary(op, v) \in {v, (W - v) % W, W - 1 - v, 0, 1}
    BY <1>2 DEF CodeUnary, Truth
  <2>5. QED BY <2>2, <2>3, <2>4, WordFacts
<1>3. QED BY <1>1, <1>2

LEMMA CodeCompareTruth ==
    ASSUME NEW op \in Comparison, NEW signed \in BOOLEAN, NEW l, NEW r
    PROVE  CodeCompare(op, signed, l, r) \in {0, 1}
BY CompareTruth DEF CodeCompare

LEMMA CodeDivideWords ==
    ASSUME NEW op \in {"/", "%"}, NEW signed \in BOOLEAN, NEW l \in Word, NEW r \in Word
    PROVE  CodeDivide(op, signed, l, r) \in Words
<1>1. CASE r = 0
  BY <1>1, WordFacts DEF CodeDivide
<1>2. CASE r # 0
  <2>1. l % r \in Word
    <3>1. l \in 0 .. W - 1 /\ r \in 0 .. W - 1 /\ W \in Nat
      BY WordFacts DEF Word
    <3>2. l % r \in 0 .. r - 1
      BY <1>2, <3>1, Remainder
    <3>3. QED BY <3>1, <3>2 DEF Word
  <2>2. PICK a \in Int, b \in Int : a = S(l) /\ b = S(r) /\ b # 0
    <3>1. S(l) \in Int /\ S(r) \in Int /\ S(r) # 0
      BY <1>2, WordFacts, ModFacts DEF S, AsSigned, Word, W
    <3>2. QED BY <3>1
  <2>3. PICK q \in Int : q = Quotient(a, b)
    BY <2>2, QuotientInt
  <2>4. q % W \in Word /\ (a - b * q) % W \in Word
    BY WrapsToWord
  <2>5. CodeDivide(op, signed, l, r) \in {Traps, Unassembled, l % r, q % W, (a - b * q) % W}
    BY <1>2, <2>2, <2>3 DEF CodeDivide
  <2>6. QED BY <2>1, <2>4, <2>5, WordFacts
<1>3. QED BY <1>1, <1>2

LEMMA CodeArithWords ==
    ASSUME NEW op, NEW signed \in BOOLEAN, NEW l \in Word, NEW r \in Word, NEW reg
    PROVE  CodeArith(op, signed, l, r, reg) \in Words
<1>1. l \in Int /\ r \in Int
  BY WordFacts DEF Word
<1>2. (l + r) % W \in Word /\ (l - r) % W \in Word /\ (l * r) % W \in Word
  BY <1>1, WrapsToWord
<1>3. CASE op \in {"/", "%"}
  <2>1. CodeDivide(op, signed, l, r) \in Words
    BY <1>3, CodeDivideWords
  <2>2. CodeArith(op, signed, l, r, reg) \in {Unassembled, CodeDivide(op, signed, l, r)}
    BY <1>3 DEF CodeArith
  <2>3. QED BY <2>1, <2>2, WordFacts
<1>4. CASE op \in {"+", "-", "*"}
  <2>1. CodeArith(op, signed, l, r, reg) \in {(l + r) % W, (l - r) % W, Unassembled, (l * r) % W}
    BY <1>4 DEF CodeArith
  <2>2. QED BY <1>2, <2>1, WordFacts
<1>5. CASE op \notin {"+", "-", "*", "/", "%"}
  BY <1>5, WordFacts DEF CodeArith
<1>6. QED BY <1>3, <1>4, <1>5

LEMMA AndWord ==
    ASSUME NEW l \in Word, NEW r \in Word
    PROVE  BitAnd(l, r) \in Word
BY ByteAssumption DEF Word, W

LEMMA CodeLogicalWords ==
    ASSUME NEW op, NEW l \in Word, NEW r \in Words
    PROVE  CodeLogical(op, l, r) \in Words
<1>1. l % Mod(1) \in Word
  <2>1. l \in Int
    BY WordFacts DEF Word
  <2>2. l % Mod(1) \in 0 .. Mod(1) - 1
    BY <2>1, ModFacts, Remainder
  <2>3. QED BY <2>2, ModFacts DEF Word, W
<1>2. CodeLogical(op, l, r) \in {l % Mod(1), 0, 1, r}
  BY DEF CodeLogical, Truth
<1>3. QED BY <1>1, <1>2, WordFacts

LEMMA ScaledWord ==
    ASSUME NEW op, NEW l, NEW r, r.v \in Word
    PROVE  Scaled(op, l, r) \in Word
<1>1. PICK x \in Int, n \in Int : x = r.v /\ n = Size(l.og, l.lvl - 1)
  BY WordFacts, SizeIs DEF Word
<1>2. (x * n) % W \in Word
  BY WrapsToWord
<1>3. QED BY <1>1, <1>2 DEF Scaled

LEMMA CodeBinaryWords ==
    ASSUME NEW op, NEW signed \in BOOLEAN, NEW l, NEW r, l.v \in Words, r.v \in Words
    PROVE  CodeBinary(op, signed, l, r) \in Words
<1>1. PICK x \in Words, y \in Words : x = l.v /\ y = r.v
  OBVIOUS
<1>2. PICK both : both = CodeArith(op, signed, l.v, Scaled(op, l, r), l.reg)
  OBVIOUS
<1>3. CASE Broken(x)
  BY <1>1, <1>3 DEF CodeBinary
<1>4. CASE ~Broken(x) /\ op \in Logical
  <2>1. CodeLogical(op, x, y) \in Words
    BY <1>4, CodeLogicalWords, WordFacts
  <2>2. QED BY <1>1, <1>4, <2>1 DEF CodeBinary
<1>5. CASE ~Broken(x) /\ op \notin Logical /\ Broken(y)
  BY <1>1, <1>5 DEF CodeBinary
<1>6. CASE ~Broken(x) /\ op \notin Logical /\ ~Broken(y)
  <2>1. x \in Word /\ y \in Word
    BY <1>6, WordFacts
  <2>2. both \in Words
    BY <1>1, <1>2, <2>1, ScaledWord, CodeArithWords
  <2>3. CASE op \in Comparison
    <3>1. CodeCompare(op, signed, x, y) \in {0, 1}
      BY <2>3, CodeCompareTruth
    <3>2. CodeBinary(op, signed, l, r) = CodeCompare(op, signed, x, y)
      BY <1>1, <1>6, <2>3 DEF CodeBinary
    <3>3. QED BY <3>1, <3>2, WordFacts
  <2>4. CASE op \notin Comparison
    <3>1. PICK n \in {1, 2, 4} : n = Size(l.og, l.lvl - 1)
      BY SizeIs
    <3>2. CodeBinary(op, signed, l, r) =
            IF ~Broken(both) /\ l.lvl > 0 /\ r.lvl > 0 THEN both \div n ELSE both
      BY <1>1, <1>2, <1>6, <2>4, <3>1 DEF CodeBinary
    <3>3. ~Broken(both) => both \div n \in Word
      <4>1. SUFFICES ASSUME ~Broken(both) PROVE both \div n \in Word
        OBVIOUS
      <4>2. both \in 0 .. W - 1 /\ W \in Nat
        BY <2>2, <4>1, WordFacts DEF Word
      <4>3. both \div n \in 0 .. both
        BY <4>2, Dividend
      <4>4. QED BY <4>2, <4>3 DEF Word
    <3>4. QED BY <2>2, <3>2, <3>3, WordFacts
  <2>5. QED BY <2>3, <2>4
<1>7. QED BY <1>3, <1>4, <1>5, <1>6

LEMMA FoldBinaryWords ==
    ASSUME NEW op, NEW signed \in BOOLEAN, NEW l \in Words, NEW r \in Words
    PROVE  FoldBinary(op, signed, l, r) \in Words
<1>1. CASE Broken(l) \/ Broken(r)
  BY <1>1 DEF FoldBinary, Worst
<1>2. CASE ~Broken(l) /\ ~Broken(r)
  <2>1. l \in Word /\ r \in Word
    BY <1>2, WordFacts
  <2>2. CASE op \in Logical
    <3>1. CASE op = "&&"
      <4>1. FoldBinary(op, signed, l, r) = IF l # 0 /\ r # 0 THEN 1 ELSE 0
        BY <1>2, <3>1 DEF FoldBinary, Truth, Comparison, Equality, Relational
      <4>2. QED BY <4>1, WordFacts
    <3>2. CASE op = "||"
      <4>1. FoldBinary(op, signed, l, r) = IF l # 0 \/ r # 0 THEN 1 ELSE 0
        BY <1>2, <3>2 DEF FoldBinary, Truth, Comparison, Equality, Relational
      <4>2. QED BY <4>1, WordFacts
    <3>3. QED BY <2>2, <3>1, <3>2 DEF Logical
  <2>3. CASE op \in Comparison
    <3>1. FoldBinary(op, signed, l, r) = CodeCompare(op, signed, l, r)
      BY <1>2, <2>3 DEF FoldBinary, Comparison, Equality, Relational
    <3>2. QED BY <2>3, <3>1, CodeCompareTruth, WordFacts
  <2>4. CASE op \in {"+", "-", "*"}
    <3>1. op \notin Comparison
      BY <2>4 DEF Comparison, Equality, Relational
    <3>2. FoldBinary(op, signed, l, r) = CodeArith(op, signed, l, r, AX)
      BY <1>2, <2>4, <3>1 DEF FoldBinary
    <3>3. QED BY <2>1, <3>2, CodeArithWords
  <2>5. CASE op \in {"/", "%"}
    <3>1. op \notin Comparison
      BY <2>5 DEF Comparison, Equality, Relational
    <3>2. FoldBinary(op, signed, l, r) =
            IF r = 0 THEN Traps
            ELSE IF signed THEN CodeDivide(op, signed, l, r)
            ELSE IF op = "/" THEN l \div r ELSE l % r
      BY <1>2, <2>5, <3>1 DEF FoldBinary
    <3>3. r # 0 => l \div r \in Word /\ l % r \in Word
      <4>1. SUFFICES ASSUME r # 0 PROVE l \div r \in Word /\ l % r \in Word
        OBVIOUS
      <4>2. l \in 0 .. W - 1 /\ r \in 0 .. W - 1 /\ W \in Nat
        BY <2>1, WordFacts DEF Word
      <4>3. l \div r \in 0 .. l /\ l % r \in 0 .. r - 1
        BY <4>1, <4>2, Dividend, Remainder
      <4>4. QED BY <4>2, <4>3 DEF Word
    <3>4. CodeDivide(op, signed, l, r) \in Words
      BY <2>1, <2>5, CodeDivideWords
    <3>5. QED BY <3>2, <3>3, <3>4, WordFacts
  <2>6. CASE op = "&"
    <3>1. FoldBinary(op, signed, l, r) = BitAnd(l, r)
      BY <1>2, <2>6 DEF FoldBinary, Comparison, Equality, Relational
    <3>2. QED BY <2>1, <3>1, AndWord, WordFacts
  <2>7. CASE op \notin Logical /\ op \notin Comparison /\ op \notin {"+", "-", "*"} /\ op \notin {"/", "%"} /\ op # "&"
    <3>1. FoldBinary(op, signed, l, r) = 0
      BY <1>2, <2>7 DEF FoldBinary, Logical
    <3>2. QED BY <3>1, WordFacts
  <2>8. QED BY <2>2, <2>3, <2>4, <2>5, <2>6, <2>7
<1>3. QED BY <1>1, <1>2
-----------------------------------------------------------------------------
(* What every subexpression's values are, and its register.                *)

\* The values of a node and its register.
Fits(e) ==
    /\ e.v \in Words /\ e.a \in Words /\ e.fold \in Words
    /\ e.cv \in Int /\ e.ca \in Int
    /\ e.reg \in 0 .. NRegs - 1
\* The pending operands, each in a register of its own.
StackFits ==
    /\ Len(stack) <= NRegs
    /\ \A i \in DOMAIN stack : Fits(stack[i])
    /\ \A i, j \in DOMAIN stack : i # j => stack[i].reg # stack[j].reg
FitsInv ==
    /\ MemOK(mem) /\ MemOK(cmem)
    /\ count \in 0 .. MaxNodes
    /\ StackFits

LEMMA FitsSeen ==
    ASSUME NEW e, IsNode(e), Fits(e)
    PROVE  Fits(Seen(e)) /\ Seen(e).reg = e.reg
<1>1. CASE ~(optimize /\ e.static)
  <2>1. Seen(e) = e
    BY <1>1 DEF Seen
  <2>2. QED BY <2>1
<1>2. CASE optimize /\ e.static
  <2>1. PICK s : s = [e EXCEPT !.kind = "lit", !.v = e.fold, !.a = e.fold,
                               !.here = e.foldHere, !.below = e.foldBelow]
    OBVIOUS
  <2>2. s = Seen(e)
    BY <1>2, <2>1 DEF Seen
  <2>3. s.v = e.fold /\ s.a = e.fold /\ s.fold = e.fold
    BY <2>1 DEF IsNode, Node
  <2>4. s.cv = e.cv /\ s.ca = e.ca /\ s.reg = e.reg
    BY <2>1 DEF IsNode, Node
  <2>5. QED BY <2>2, <2>3, <2>4 DEF Fits
<1>3. QED BY <1>1, <1>2

LEMMA NodeFits ==
    /\ Node.v \in Words /\ Node.a \in Words /\ Node.fold \in Words
    /\ Node.cv \in Int /\ Node.ca \in Int
BY WordFacts, UndefinedInt DEF Node, NoAddress

LEMMA UnaryFits ==
    ASSUME NEW op, NEW l, Fits(l), NEW u, u = Unary(op, l)
    PROVE  Fits(u) /\ u.reg = l.reg
<1>1. u.v = Node.v /\ u.a = Node.a /\ u.fold = Node.fold
  BY DEF Unary, Node
<1>2. u.cv = Node.cv /\ u.ca = Node.ca /\ u.reg = l.reg
  BY DEF Unary, Node
<1>3. QED BY <1>1, <1>2, NodeFits DEF Fits

LEMMA BinaryFits ==
    ASSUME NEW op, NEW l, NEW r, Fits(l), NEW u, u = Binary(op, l, r)
    PROVE  Fits(u) /\ u.reg = l.reg
<1>1. u.v = Node.v /\ u.a = Node.a /\ u.fold = Node.fold
  BY DEF Binary, Node
<1>2. u.cv = Node.cv /\ u.ca = Node.ca /\ u.reg = l.reg
  BY DEF Binary, Node
<1>3. QED BY <1>1, <1>2, NodeFits DEF Fits

\* A new node's register is that of its first operand or a free one.
FreshReg(n, reg) == \A i \in 1 .. Len(stack) - n : stack[i].reg # reg

LEMMA PushFits ==
    ASSUME AttributesInv, StackFits, count \in 0 .. MaxNodes, NEW n \in Nat, CanAdd(n),
           NEW e, Push(n, e), Fits(e), FreshReg(n, e.reg)
    PROVE  StackFits' /\ count' \in 0 .. MaxNodes
<1>1. Len(stack) \in Nat /\ n <= Len(stack) /\ DOMAIN stack = 1 .. Len(stack)
  BY RowFacts DEF AttributesInv, CanAdd
<1>2. /\ Row(stack') /\ Len(stack') = Len(stack) - n + 1
      /\ \A i \in 1 .. Len(stack) - n : stack'[i] = stack[i]
      /\ stack'[Len(stack')] = e
  BY <1>1, Pushed DEF AttributesInv
<1>3. DOMAIN stack' = 1 .. Len(stack')
  BY <1>2, RowFacts
<1>4. count' \in 0 .. MaxNodes
  BY <1>1, ValuesAssumption DEF CanAdd
<1>5. Len(stack') <= NRegs
  BY <1>1, <1>2 DEF CanAdd, NRegs
<1>6. ASSUME NEW i \in DOMAIN stack', i # Len(stack')
      PROVE  i \in 1 .. Len(stack) - n /\ i \in DOMAIN stack /\ stack'[i] = stack[i]
  BY <1>1, <1>2, <1>3, <1>6
<1>7. ASSUME NEW i \in DOMAIN stack' PROVE Fits(stack'[i])
  BY <1>2, <1>6 DEF StackFits
<1>8. ASSUME NEW i \in DOMAIN stack', NEW j \in DOMAIN stack', i # j
      PROVE  stack'[i].reg # stack'[j].reg
  <2>1. CASE i # Len(stack') /\ j # Len(stack')
    BY <1>6, <1>8, <2>1 DEF StackFits
  <2>2. CASE i = Len(stack') /\ j # Len(stack')
    BY <1>2, <1>6, <2>2 DEF FreshReg
  <2>3. CASE i # Len(stack') /\ j = Len(stack')
    BY <1>2, <1>6, <2>3 DEF FreshReg
  <2>4. QED BY <1>8, <2>1, <2>2, <2>3
<1>9. QED BY <1>4, <1>5, <1>7, <1>8 DEF StackFits

\* The topmost nodes, with their registers.
LEMMA TopmostFit ==
    ASSUME AttributesInv, StackFits, NEW n \in {1, 2}, n <= Len(stack)
    PROVE  /\ IsNode(Top) /\ Fits(Top)
           /\ n = 1 => FreshReg(1, Top.reg)
           /\ n = 2 => IsNode(Below) /\ Fits(Below) /\ FreshReg(2, Below.reg)
<1>1. Len(stack) \in Nat /\ DOMAIN stack = 1 .. Len(stack)
  BY RowFacts DEF AttributesInv
<1>2. Top = stack[Len(stack)] /\ Below = stack[Len(stack) - 1]
  BY DEF Top, Below, Last
<1>3. IsNode(Top) /\ Fits(Top)
  BY <1>1, <1>2 DEF AttributesInv, StackFits, NodeInv
<1>4. FreshReg(1, Top.reg)
  BY <1>1, <1>2 DEF StackFits, FreshReg
<1>5. ASSUME n = 2 PROVE IsNode(Below) /\ Fits(Below) /\ FreshReg(2, Below.reg)
  <2>1. Len(stack) - 1 \in DOMAIN stack
    BY <1>1, <1>5
  <2>2. IsNode(Below) /\ Fits(Below)
    BY <1>2, <2>1 DEF AttributesInv, StackFits, NodeInv
  <2>3. FreshReg(2, Below.reg)
    BY <1>1, <1>2, <2>1 DEF StackFits, FreshReg
  <2>4. QED BY <2>2, <2>3
<1>6. QED BY <1>3, <1>4, <1>5

\* A register that none of the first nodes has: one of the first three, if
\* they are at most two.
LEMMA FreeRegIs ==
    ASSUME NEW keep \in 0 .. NRegs, StackFits, keep <= Len(stack), AttributesInv
    PROVE  /\ FreeReg(keep) \in 0 .. NRegs
           /\ \A i \in 1 .. keep : stack[i].reg # FreeReg(keep)
           /\ keep < NRegs => FreeReg(keep) < NRegs
<1>1. PICK T : T = {r \in 0 .. NRegs : \A i \in 1 .. keep : stack[i].reg # r}
  OBVIOUS
<1>2. PICK a, b, c : a = stack[1].reg /\ b = stack[2].reg /\ c = stack[3].reg
  OBVIOUS
<1>3. keep \in {0, 1, 2, 3} /\ NRegs = 3
  BY DEF NRegs
<1>4. \A i \in 1 .. keep : stack[i].reg \in {a, b, c} /\ (keep < 3 => stack[i].reg \in {a, b})
  <2>1. TAKE i \in 1 .. keep
  <2>2. i = 1 \/ (i = 2 /\ keep > 1) \/ (i = 3 /\ keep > 2)
    BY <1>3
  <2>3. QED BY <1>2, <1>3, <2>2
<1>5. PICK x \in 0 .. 3 : x # a /\ x # b /\ x # c
  <2>1. \E x \in {0, 1, 2, 3} : x # a /\ x # b /\ x # c
    OBVIOUS
  <2>2. QED BY <2>1
<1>6. x \in T
  BY <1>1, <1>3, <1>4, <1>5
<1>7. keep < 3 => \E y \in T : y < 3
  <2>1. SUFFICES ASSUME keep < 3 PROVE \E y \in T : y < 3
    OBVIOUS
  <2>2. PICK y \in {0, 1, 2} : y # a /\ y # b
    OBVIOUS
  <2>3. y \in T
    BY <1>1, <1>3, <1>4, <2>1, <2>2
  <2>4. QED BY <2>2, <2>3
<1>8. \E m \in T : \A y \in T : m <= y
  <2>1. T \subseteq {0, 1, 2, 3}
    BY <1>1, <1>3
  <2>2. CASE 0 \in T
    BY <2>1, <2>2
  <2>3. CASE 0 \notin T /\ 1 \in T
    BY <2>1, <2>3
  <2>4. CASE 0 \notin T /\ 1 \notin T /\ 2 \in T
    BY <2>1, <2>4
  <2>5. CASE 0 \notin T /\ 1 \notin T /\ 2 \notin T
    BY <1>6, <2>1, <2>5
  <2>6. QED BY <2>2, <2>3, <2>4, <2>5
<1>9. PICK m : m = Min(T)
  OBVIOUS
<1>10. m \in T /\ \A y \in T : m <= y
  BY <1>8, <1>9 DEF Min
<1>11. FreeReg(keep) = m
  BY <1>1, <1>9 DEF FreeReg
<1>12. m \in 0 .. 3 /\ \A i \in 1 .. keep : stack[i].reg # m
  BY <1>1, <1>3, <1>10
<1>13. keep < 3 => m < 3
  BY <1>7, <1>10, <1>12
<1>14. QED BY <1>3, <1>11, <1>12, <1>13
-----------------------------------------------------------------------------
(* Every action keeps them.                                                *)

LEMMA PureFits ==
    ASSUME AttributesInv, FitsInv, NEW n \in Nat, CanAdd(n),
           NEW e, Push(n, e), Pure, Fits(e), FreshReg(n, e.reg)
    PROVE  FitsInv'
<1>1. StackFits' /\ count' \in 0 .. MaxNodes
  BY PushFits DEF FitsInv
<1>2. MemOK(mem') /\ MemOK(cmem')
  BY DEF FitsInv, Pure
<1>3. QED BY <1>1, <1>2 DEF FitsInv

LEMMA FreshFree ==
    ASSUME AttributesInv, FitsInv
    PROVE  /\ FreshReg(0, FreeReg(Len(stack))) /\ FreshReg(1, FreeReg(Len(stack)))
           /\ FreeReg(Len(stack)) \in 0 .. NRegs
           /\ Len(stack) < NRegs => FreeReg(Len(stack)) \in 0 .. NRegs - 1
<1>1. PICK n \in Nat : n = Len(stack) /\ n <= NRegs
  BY RowFacts DEF AttributesInv, FitsInv, StackFits
<1>2. n \in 0 .. NRegs
  BY <1>1 DEF NRegs
<1>3. /\ FreeReg(n) \in 0 .. NRegs
      /\ \A i \in 1 .. n : stack[i].reg # FreeReg(n)
      /\ n < NRegs => FreeReg(n) < NRegs
  BY <1>1, <1>2, FreeRegIs DEF FitsInv
<1>4. FreshReg(0, FreeReg(n)) /\ FreshReg(1, FreeReg(n))
  BY <1>1, <1>3 DEF FreshReg
<1>5. n < NRegs => FreeReg(n) \in 0 .. NRegs - 1
  BY <1>3 DEF NRegs
<1>6. QED BY <1>1, <1>3, <1>4, <1>5

LEMMA LiteralFits ==
    ASSUME AttributesInv, FitsInv, NEW n, Literal(n)
    PROVE  FitsInv'
<1>1. PICK e, reg : reg = FreeReg(Len(stack))
        /\ e = [Node EXCEPT !.reg = reg, !.static = TRUE, !.fold = n, !.v = n, !.a = n, !.ct = CInt, !.cv = n]
  OBVIOUS
<1>2. CanAdd(0) /\ Push(0, e) /\ Pure
  BY <1>1 DEF Literal
<1>3. n \in Words /\ n \in Int
  BY ValuesAssumption, WordFacts DEF Literal, AttributesInv, Word, W
<1>4. e.v = n /\ e.a = n /\ e.fold = n
  BY <1>1 DEF Node
<1>5. e.cv = n /\ e.ca = Node.ca /\ e.reg = reg
  BY <1>1 DEF Node
<1>6. Len(stack) < NRegs
  BY <1>2, RowFacts DEF CanAdd, AttributesInv
<1>7. Fits(e) /\ FreshReg(0, e.reg)
  BY <1>1, <1>3, <1>4, <1>5, <1>6, FreshFree, NodeFits DEF Fits
<1>8. QED BY <1>2, <1>7, PureFits

LEMMA LoadWord ==
    ASSUME NEW m, MemOK(m), NEW a, NEW bytes \in {1, 2, 4}
    PROVE  Load(m, a, bytes) \in Word
BY LoadRange, ModFacts DEF Word, W

LEMMA CLoadInt ==
    ASSUME MemOK(cmem), NEW a, NEW t
    PROVE  CLoad(a, t) \in Int
<1>1. Load(cmem, a, CSize(t)) \in Int
  BY SizeIs, LoadWord, WordFacts DEF CSize, Word
<1>2. QED BY <1>1, ConvertInt, UndefinedInt DEF CLoad

LEMMA VariableFits ==
    ASSUME AttributesInv, FitsInv, NEW o, Variable(o)
    PROVE  FitsInv'
<1>1. PICK t, v, reads, here :
        /\ t = CType(o.prim, o.lvl)
        /\ v = (IF o.array THEN o.addr ELSE Load(mem, o.addr, CSize(t)))
        /\ reads = (IF o.array THEN {} ELSE Bytes(o.addr, t))
        /\ here = Narrow(v, CSize(t), t)
  OBVIOUS
<1>2. PICK ca, cv, reg :
        /\ ca = (IF o.array THEN NoAddress ELSE o.addr)
        /\ cv = (IF o.array THEN o.addr ELSE CLoad(o.addr, t))
        /\ reg = FreeReg(Len(stack))
  OBVIOUS
<1>3. PICK e : e = [Node EXCEPT !.kind = "var", !.prim = Promote(Promote(o.prim, o.lvl), o.lvl),
                !.og = o.prim, !.lvl = o.lvl, !.array = o.array, !.reg = reg,
                !.v = v, !.a = o.addr, !.here = here, !.ct = t, !.cv = cv, !.ca = ca, !.reads = reads]
  OBVIOUS
<1>4. CanAdd(0) /\ Push(0, e) /\ Pure
  BY <1>1, <1>2, <1>3 DEF Variable
<1>5. o.addr \in Word
  <2>1. o \in Objects
    BY ValuesAssumption DEF AttributesInv, Variable
  <2>2. o.addr \in Nat /\ o.bytes \in Nat /\ o.bytes > 0 /\ o.addr + o.bytes < Mod(4)
    BY <2>1, ValuesAssumption
  <2>3. QED BY <2>2, ModFacts DEF Word, W
<1>6. v \in Words
  <2>1. Load(mem, o.addr, CSize(t)) \in Word
    BY LoadWord, SizeIs DEF FitsInv, CSize
  <2>2. QED BY <1>1, <1>5, <2>1, WordFacts
<1>7. ca \in Int /\ cv \in Int
  <2>1. CLoad(o.addr, t) \in Int
    BY CLoadInt DEF FitsInv
  <2>2. o.addr \in Int /\ NoAddress \in Int
    BY <1>5, WordFacts DEF NoAddress
  <2>3. QED BY <1>2, <2>1, <2>2
<1>8. e.v = v /\ e.a = o.addr /\ e.fold = Node.fold
  BY <1>3 DEF Node
<1>9. e.cv = cv /\ e.ca = ca /\ e.reg = reg
  BY <1>3 DEF Node
<1>10. Len(stack) < NRegs
  BY <1>4, RowFacts DEF CanAdd, AttributesInv
<1>11. Fits(e) /\ FreshReg(0, e.reg)
  BY <1>2, <1>5, <1>6, <1>7, <1>8, <1>9, <1>10, FreshFree, NodeFits, WordFacts DEF Fits
<1>12. QED BY <1>4, <1>11, PureFits

LEMMA StringLiteralFits ==
    ASSUME AttributesInv, FitsInv, NEW addr, StringLiteral(addr)
    PROVE  FitsInv'
<1>1. PICK e, reg : reg = FreeReg(Len(stack))
        /\ e = [Node EXCEPT !.kind = "string", !.prim = "char", !.og = "char", !.lvl = 1, !.static = TRUE,
                !.reg = reg, !.v = addr, !.a = addr, !.foldHere = {"string"},
                !.ct = CType("char", 1), !.cv = addr]
  OBVIOUS
<1>2. CanAdd(0) /\ Push(0, e) /\ Pure
  BY <1>1 DEF StringLiteral
<1>3. addr \in Word
  <2>1. addr \in Addresses
    BY ValuesAssumption DEF AttributesInv, StringLiteral
  <2>2. PICK o \in Objects : addr \in o.addr .. o.addr + o.bytes - 1
    BY <2>1 DEF Addresses
  <2>3. o.addr \in Nat /\ o.bytes \in Nat /\ o.addr + o.bytes < Mod(4)
    BY ValuesAssumption
  <2>4. QED BY <2>2, <2>3, ModFacts DEF Word, W
<1>4. e.v = addr /\ e.a = addr /\ e.fold = Node.fold
  BY <1>1 DEF Node
<1>5. e.cv = addr /\ e.ca = Node.ca /\ e.reg = reg
  BY <1>1 DEF Node
<1>6. Len(stack) < NRegs
  BY <1>2, RowFacts DEF CanAdd, AttributesInv
<1>7. addr \in Words /\ addr \in Int
  BY <1>3, WordFacts
<1>8. Fits(e) /\ FreshReg(0, e.reg)
  BY <1>1, <1>4, <1>5, <1>6, <1>7, FreshFree, NodeFits DEF Fits
<1>9. QED BY <1>2, <1>8, PureFits

LEMMA UnaryOpFits ==
    ASSUME AttributesInv, FitsInv, NEW op, UnaryOp(op)
    PROVE  FitsInv'
<1>1. PICK l, prim : l = Seen(Top) /\ prim = Promote(Top.prim, Top.lvl)
  OBVIOUS
<1>2. PICK t, typed :
        /\ t = (IF op = "!x" THEN CInt ELSE IF IsArith(Top.ct) THEN CPromote(Top.ct) ELSE NoType)
        /\ typed = If(op = "!x" /\ ~Signed(prim, Top.lvl), "typed")
  OBVIOUS
<1>3. PICK u, v, fold, cv : u = Unary(op, l) /\ v = CodeUnary(op, l.v)
        /\ fold = CodeUnary(op, Top.fold) /\ cv = CUnary(op, t, Top.cv)
  OBVIOUS
<1>4. PICK e : e = [u EXCEPT !.prim = prim, !.og = Top.og, !.lvl = Top.lvl,
                !.v = v, !.a = v, !.here = typed,
                !.static = Top.static, !.fold = fold, !.foldHere = typed, !.ct = t, !.cv = cv]
  OBVIOUS
<1>5. CanAdd(1) /\ Push(1, e) /\ Pure /\ op \in {"+x", "-x", "~x", "!x"}
  BY <1>1, <1>2, <1>3, <1>4 DEF UnaryOp
<1>6. IsNode(Top) /\ Fits(Top) /\ FreshReg(1, Top.reg)
  BY <1>5, TopmostFit DEF CanAdd, FitsInv
<1>7. Fits(l) /\ l.reg = Top.reg
  BY <1>1, <1>6, FitsSeen
<1>8. IsNode(u) /\ Fits(u) /\ u.reg = Top.reg
  BY <1>3, <1>7, UnaryFits, UnaryAttributes
<1>9. v \in Words /\ fold \in Words /\ cv \in Int
  BY <1>3, <1>5, <1>6, <1>7, CodeUnaryWords, CUnaryInt DEF Fits
<1>10. e.v = v /\ e.a = v /\ e.fold = fold
  BY <1>4, <1>8 DEF IsNode, Node
<1>11. e.cv = cv /\ e.ca = u.ca /\ e.reg = u.reg
  BY <1>4, <1>8 DEF IsNode, Node
<1>12. Fits(e) /\ FreshReg(1, e.reg)
  BY <1>6, <1>8, <1>9, <1>10, <1>11 DEF Fits
<1>13. QED BY <1>5, <1>12, PureFits

LEMMA CastFits ==
    ASSUME AttributesInv, FitsInv, NEW t, Cast(t)
    PROVE  FitsInv'
<1> DEFINE Cut(v) == If(~Broken(v) /\ Convert(t, v) % W # v, "cast")
<1>1. PICK l, cv : l = Seen(Top) /\ cv = (IF Top.cv = Undefined THEN Undefined ELSE Convert(t, Top.cv))
  OBVIOUS
<1>2. PICK cut, foldCut, u : cut = Cut(l.v) /\ foldCut = Cut(Top.fold) /\ u = Unary("cast", l)
  OBVIOUS
<1>3. PICK e : e = [u EXCEPT !.prim = t.prim, !.og = t.prim, !.lvl = t.lvl,
                !.v = l.v, !.a = l.v, !.here = cut,
                !.static = Top.static, !.fold = Top.fold, !.foldHere = foldCut, !.ct = t, !.cv = cv]
  OBVIOUS
<1>4. CanAdd(1) /\ Push(1, e) /\ Pure
  BY <1>1, <1>2, <1>3 DEF Cast
<1>5. IsNode(Top) /\ Fits(Top) /\ FreshReg(1, Top.reg)
  BY <1>4, TopmostFit DEF CanAdd, FitsInv
<1>6. Fits(l) /\ l.reg = Top.reg
  BY <1>1, <1>5, FitsSeen
<1>7. IsNode(u) /\ Fits(u) /\ u.reg = Top.reg
  BY <1>2, <1>6, UnaryFits, UnaryAttributes
<1>8. cv \in Int
  BY <1>1, <1>5, ConvertInt, UndefinedInt DEF Fits
<1>9. e.v = l.v /\ e.a = l.v /\ e.fold = Top.fold
  BY <1>3, <1>7 DEF IsNode, Node
<1>10. e.cv = cv /\ e.ca = u.ca /\ e.reg = u.reg
  BY <1>3, <1>7 DEF IsNode, Node
<1>11. Fits(e) /\ FreshReg(1, e.reg)
  BY <1>5, <1>6, <1>7, <1>8, <1>9, <1>10 DEF Fits
<1>12. QED BY <1>4, <1>11, PureFits

LEMMA ReferenceFits ==
    ASSUME AttributesInv, FitsInv, Reference
    PROVE  FitsInv'
<1>1. PICK t, cv, u :
        /\ t = (IF Top.ca = NoAddress THEN NoType ELSE CType(Top.ct.prim, Top.ct.lvl + 1))
        /\ cv = (IF Top.cv = Undefined THEN Undefined ELSE Top.ca)
        /\ u = Unary("&x", Top)
  OBVIOUS
<1>2. PICK e : e = [u EXCEPT
                !.prim = Promote(Top.prim, Top.lvl + 1), !.og = Top.og, !.lvl = Top.lvl + 1,
                !.v = Top.a, !.a = Top.a, !.ct = t, !.cv = cv]
  OBVIOUS
<1>3. CanAdd(1) /\ Push(1, e) /\ Pure
  BY <1>1, <1>2 DEF Reference
<1>4. IsNode(Top) /\ Fits(Top) /\ FreshReg(1, Top.reg)
  BY <1>3, TopmostFit DEF CanAdd, FitsInv
<1>5. IsNode(u) /\ Fits(u) /\ u.reg = Top.reg
  BY <1>1, <1>4, UnaryFits, UnaryAttributes
<1>6. e.v = Top.a /\ e.a = Top.a /\ e.fold = u.fold
  BY <1>2, <1>5 DEF IsNode, Node
<1>7. e.cv = cv /\ e.ca = u.ca /\ e.reg = u.reg
  BY <1>2, <1>5 DEF IsNode, Node
<1>8. Fits(e) /\ FreshReg(1, e.reg)
  BY <1>1, <1>4, <1>5, <1>6, <1>7, UndefinedInt DEF Fits
<1>9. QED BY <1>3, <1>8, PureFits

LEMMA PointedFits ==
    ASSUME MemOK(mem), MemOK(cmem), NEW e, IsNode(e), Fits(e), NEW bytes \in {1, 2, 4},
           NEW a \in Words, NEW t, NEW c \in Int, NEW p, p = Pointed(e, bytes, a, t, c)
    PROVE  Fits(p) /\ p.reg = e.reg
<1>1. PICK v : v = (IF Broken(a) THEN a ELSE Load(mem, a, bytes))
  OBVIOUS
<1>2. PICK at \in BOOLEAN : at <=> (c # Undefined /\ Holds(c, t))
  OBVIOUS
<1>3. PICK here, cv, ca, reads :
        /\ here = (IF Broken(v) THEN {} ELSE Narrow(v, bytes, t))
        /\ cv = (IF at THEN CLoad(c, t) ELSE Undefined)
        /\ ca = (IF at THEN c ELSE NoAddress)
        /\ reads = e.reads \cup (IF at THEN Bytes(c, t) ELSE {})
  OBVIOUS
<1>4. p = [e EXCEPT !.v = v, !.a = a, !.here = here, !.ct = t, !.cv = cv, !.ca = ca, !.reads = reads]
  BY <1>1, <1>2, <1>3 DEF Pointed
<1>5. p.v = v /\ p.a = a /\ p.fold = e.fold
  BY <1>4 DEF IsNode, Node
<1>6. p.cv = cv /\ p.ca = ca /\ p.reg = e.reg
  BY <1>4 DEF IsNode, Node
<1>7. v \in Words
  BY <1>1, LoadWord, WordFacts
<1>8. cv \in Int /\ ca \in Int
  BY <1>3, CLoadInt, UndefinedInt DEF NoAddress
<1>9. QED BY <1>5, <1>6, <1>7, <1>8 DEF Fits

LEMMA DereferenceFits ==
    ASSUME AttributesInv, FitsInv, Dereference
    PROVE  FitsInv'
<1>1. PICK l, u : l = Seen(Top) /\ u = Unary("*x", l)
  OBVIOUS
<1>2. CanAdd(1) /\ Pure
  BY DEF Dereference
<1>3. IsNode(Top) /\ Fits(Top) /\ FreshReg(1, Top.reg)
  BY <1>2, TopmostFit DEF CanAdd, FitsInv
<1>4. Fits(l) /\ l.reg = Top.reg
  BY <1>1, <1>3, FitsSeen
<1>5. IsNode(u) /\ Fits(u) /\ u.reg = Top.reg
  BY <1>1, <1>4, UnaryFits, UnaryAttributes
<1>6. CASE Top.lvl = 0
  <2>1. PICK e : e = [u EXCEPT !.og = Top.og]
    OBVIOUS
  <2>2. Push(1, e)
    BY <1>1, <1>6, <2>1 DEF Dereference
  <2>3. e.v = u.v /\ e.a = u.a /\ e.fold = u.fold
    BY <1>5, <2>1 DEF IsNode, Node
  <2>4. e.cv = u.cv /\ e.ca = u.ca /\ e.reg = u.reg
    BY <1>5, <2>1 DEF IsNode, Node
  <2>5. Fits(e) /\ FreshReg(1, e.reg)
    BY <1>3, <1>5, <2>3, <2>4 DEF Fits
  <2>6. QED BY <1>2, <2>2, <2>5, PureFits
<1>7. CASE Top.lvl # 0
  <2>0. PICK bytes \in {1, 2, 4} : bytes = Size(Top.og, Top.lvl - 1)
    BY SizeIs
  <2>1. PICK p : p = Pointed(u, bytes, l.v, Pointee(Top.ct), Top.cv)
    OBVIOUS
  <2>2. PICK e : e = [p EXCEPT !.prim = Promote(Top.prim, Top.lvl - 1), !.og = Top.og, !.lvl = Top.lvl - 1]
    OBVIOUS
  <2>3. Push(1, e)
    BY <1>1, <1>7, <2>0, <2>1, <2>2 DEF Dereference
  <2>4. IsNode(p)
    BY <1>5, <2>1, PointedAttributes
  <2>5. Fits(p) /\ p.reg = u.reg
    <3>1. PICK a \in Words, c \in Int : a = l.v /\ c = Top.cv
      BY <1>3, <1>4 DEF Fits
    <3>2. QED BY <1>5, <2>1, <3>1, PointedFits DEF FitsInv
  <2>6. e.v = p.v /\ e.a = p.a /\ e.fold = p.fold
    BY <2>2, <2>4 DEF IsNode, Node
  <2>7. e.cv = p.cv /\ e.ca = p.ca /\ e.reg = p.reg
    BY <2>2, <2>4 DEF IsNode, Node
  <2>8. Fits(e) /\ FreshReg(1, e.reg)
    BY <1>3, <1>5, <2>5, <2>6, <2>7 DEF Fits
  <2>9. QED BY <1>2, <2>3, <2>8, PureFits
<1>8. QED BY <1>6, <1>7

\* The operands of a node that takes two, as the code sees them.
LEMMA OperandsFit ==
    ASSUME AttributesInv, FitsInv, 2 <= Len(stack), NEW l, NEW r, l = Seen(Below), r = Seen(Top)
    PROVE  /\ Fits(Below) /\ Fits(Top) /\ Fits(l) /\ Fits(r)
           /\ l.reg = Below.reg /\ FreshReg(2, Below.reg)
<1>1. IsNode(Top) /\ Fits(Top) /\ IsNode(Below) /\ Fits(Below) /\ FreshReg(2, Below.reg)
  BY TopmostFit DEF FitsInv
<1>2. QED BY <1>1, FitsSeen

LEMMA BinaryOpFits ==
    ASSUME AttributesInv, FitsInv, NEW op \in BinaryOps, BinaryOp(op)
    PROVE  FitsInv'
<1> DEFINE l == Seen(Below)
           r == Seen(Top)
           prim == BinaryPrim(Below, Top)
           signed == Signed(prim, MaxLvl(l, r))
           typed == TypedOdd(op, l, r, signed)
           v == CodeBinary(op, signed, l, r)
           t == CBinaryType(op, l.ct, r.ct, CNull(Below), CNull(Top))
           u == Binary(op, l, r)
           og == BinaryOg(l, r)
           lvl == MaxLvl(l, r)
           odd == CodeOdd(op, l, r, signed)
           static == Below.static /\ Top.static
           fold == FoldBinary(op, signed, Below.fold, Top.fold)
           skipped == If(op \in Logical /\ Broken(Top.fold), "skipped")
           cv == CBinary(op, t, l, r)
           e == [u EXCEPT !.prim = prim, !.og = og, !.lvl = lvl, !.v = v, !.a = v,
                 !.here = typed \cup odd, !.static = static, !.fold = fold,
                 !.foldHere = typed \cup skipped, !.ct = t, !.cv = cv]
<1>1. Push(2, e)
  BY DEF BinaryOp
<1>2. CanAdd(2) /\ Pure
  BY DEF BinaryOp
<1>3. l = Seen(Below) /\ r = Seen(Top) /\ u = Binary(op, l, r)
  OBVIOUS
<1>4. v = CodeBinary(op, signed, l, r) /\ fold = FoldBinary(op, signed, Below.fold, Top.fold)
  OBVIOUS
<1>5. t = CBinaryType(op, l.ct, r.ct, CNull(Below), CNull(Top)) /\ cv = CBinary(op, t, l, r)
  OBVIOUS
<1>6. signed \in BOOLEAN
  BY DEF Signed
<1> HIDE DEF l, r, prim, signed, typed, v, t, u, og, lvl, odd, static, fold, skipped, cv
<1>7. /\ Fits(Below) /\ Fits(Top) /\ Fits(l) /\ Fits(r)
      /\ l.reg = Below.reg /\ FreshReg(2, Below.reg)
  BY <1>2, <1>3, OperandsFit DEF CanAdd
<1>8. IsNode(u) /\ Fits(u) /\ u.reg = l.reg
  BY <1>3, <1>7, BinaryFits, BinaryAttributes
<1>9. v \in Words /\ fold \in Words
  BY <1>4, <1>6, <1>7, CodeBinaryWords, FoldBinaryWords DEF Fits
<1>10. cv \in Int
  BY <1>5, <1>7, CBinaryInt DEF Fits
<1>11. e.v = v /\ e.a = v /\ e.fold = fold
  BY <1>8 DEF IsNode, Node
<1>12. e.cv = cv /\ e.ca = u.ca /\ e.reg = u.reg
  BY <1>8 DEF IsNode, Node
<1> HIDE DEF e
<1>13. Fits(e) /\ FreshReg(2, e.reg)
  BY <1>7, <1>8, <1>9, <1>10, <1>11, <1>12 DEF Fits
<1>14. QED BY <1>1, <1>2, <1>13, PureFits

LEMMA IndexNoPointerFits ==
    ASSUME AttributesInv, FitsInv, IndexNoPointer
    PROVE  FitsInv'
<1>1. PICK l, r, e : l = Seen(Below) /\ r = Seen(Top) /\ e = Binary("[]", l, r)
  OBVIOUS
<1>2. CanAdd(2) /\ Pure /\ Push(2, e)
  BY <1>1 DEF IndexNoPointer
<1>3. Fits(l) /\ l.reg = Below.reg /\ FreshReg(2, Below.reg)
  BY <1>1, <1>2, OperandsFit DEF CanAdd
<1>4. Fits(e) /\ FreshReg(2, e.reg)
  BY <1>1, <1>3, BinaryFits
<1>5. QED BY <1>2, <1>4, PureFits

LEMMA IndexFits ==
    ASSUME AttributesInv, FitsInv, Index
    PROVE  FitsInv'
<1> DEFINE l == Seen(Below)
           r == Seen(Top)
           bytes == IF l.lvl = 0 THEN 4 ELSE Size(l.og, l.lvl - 1)
           lvl == MaxLvl(l, r) - 1
           a == IF Broken(l.v) THEN l.v ELSE IF Broken(r.v) THEN r.v ELSE IndexAddress(l.v, r, bytes)
           p == CBinaryType("+", l.ct, r.ct, FALSE, FALSE)
           odd == If(r.kind # "lit" /\ r.v # 0, "index")
           prim == BinaryPrim(l, r)
           u == Binary("[]", l, r)
           t == IF IsPtr(p) THEN Pointee(p) ELSE NoType
           at == CBinary("+", p, l, r)
           x == Pointed(u, bytes, a, t, at)
           prom == IF lvl = 0 THEN Promote(prim, 0) ELSE prim
           og == BinaryOg(l, r)
           here == x.here \cup odd
           e == [x EXCEPT !.prim = prom, !.og = og, !.lvl = lvl, !.here = here]
<1>1. Push(2, e)
  BY DEF Index
<1>2. CanAdd(2) /\ Pure
  BY DEF Index
<1>3. u = Binary("[]", l, r) /\ x = Pointed(u, bytes, a, t, at)
  OBVIOUS
<1>4. l = Seen(Below) /\ r = Seen(Top)
  OBVIOUS
<1>5. p = CBinaryType("+", l.ct, r.ct, FALSE, FALSE) /\ at = CBinary("+", p, l, r)
  OBVIOUS
<1>6. bytes \in {1, 2, 4}
  BY SizeIs
<1>7. a = IF Broken(l.v) THEN l.v ELSE IF Broken(r.v) THEN r.v ELSE IndexAddress(l.v, r, bytes)
  OBVIOUS
<1> HIDE DEF l, r, bytes, lvl, a, p, odd, prim, u, t, at, x, prom, og, here
<1>8. /\ Fits(Below) /\ Fits(Top) /\ Fits(l) /\ Fits(r)
      /\ l.reg = Below.reg /\ FreshReg(2, Below.reg)
  BY <1>2, <1>4, OperandsFit DEF CanAdd
<1>9. IsNode(u) /\ Fits(u) /\ u.reg = l.reg
  BY <1>3, <1>8, BinaryFits, BinaryAttributes
<1>10. a \in Words
  <2>1. PICK m \in Int : m = (IF r.kind = "lit" THEN bytes ELSE IndexShift(bytes))
    BY <1>6 DEF IndexShift
  <2>2. PICK i \in Int, j \in Int : i = l.v /\ j = r.v
    BY <1>8, WordFacts DEF Fits
  <2>3. i + j * m \in Int
    OBVIOUS
  <2>4. (i + j * m) % W \in Word
    BY <2>3, WrapsToWord
  <2>5. IndexAddress(l.v, r, bytes) \in Words
    BY <2>1, <2>2, <2>4, WordFacts DEF IndexAddress
  <2>6. QED BY <1>7, <1>8, <2>5 DEF Fits
<1>11. at \in Int
  <2>1. PICK plus \in BinaryOps : plus = "+"
    BY DEF BinaryOps, Arithmetic
  <2>2. QED BY <1>5, <1>8, <2>1, CBinaryInt DEF Fits
<1>12. IsNode(x)
  BY <1>3, <1>9, PointedAttributes
<1>13. Fits(x) /\ x.reg = u.reg
  BY <1>3, <1>6, <1>9, <1>10, <1>11, PointedFits DEF FitsInv
<1>14. e.v = x.v /\ e.a = x.a /\ e.fold = x.fold
  BY <1>12 DEF IsNode, Node
<1>15. e.cv = x.cv /\ e.ca = x.ca /\ e.reg = x.reg
  BY <1>12 DEF IsNode, Node
<1> HIDE DEF e
<1>16. Fits(e) /\ FreshReg(2, e.reg)
  BY <1>8, <1>9, <1>13, <1>14, <1>15 DEF Fits
<1>17. QED BY <1>1, <1>2, <1>16, PureFits

LEMMA AssignFits ==
    ASSUME AttributesInv, FitsInv, Assign
    PROVE  FitsInv'
<1> DEFINE l == Seen(Below)
           r == Seen(Top)
           u == Binary("=", l, r)
           bad == Broken(l.a) \/ Broken(r.v)
           valid == l.ca # NoAddress /\ CAssignable(l.ct, r.ct, CNull(Top))
           defined == valid /\ r.cv # Undefined /\ ~Conflict(l, r) /\ CStores(u, l.ct, l.ca)
           c == Convert(l.ct, r.cv)
           prim == BinaryPrim(l, r)
           og == BinaryOg(l, r)
           lvl == MaxLvl(l, r)
           v == IF bad THEN Worst(l.a, r.v) ELSE l.a
           static == Below.static /\ Top.static
           ct == IF valid THEN l.ct ELSE NoType
           cv == IF defined THEN c ELSE Undefined
           writes == u.writes \cup IF defined THEN Bytes(l.ca, l.ct) ELSE Addresses
           la == l.a
           e == [u EXCEPT !.prim = prim, !.og = og, !.lvl = lvl, !.v = v, !.a = la,
                 !.here = {"assigned"}, !.static = static, !.ct = ct, !.cv = cv, !.writes = writes]
<1>1. Push(2, e)
  BY DEF Assign
<1>2. CanAdd(2)
  BY DEF Assign
<1>3. mem' \in {mem, Store(mem, l.a, AssignSize(l, r), r.v)}
  BY DEF Assign
<1>4. cmem' \in {cmem, Store(cmem, l.ca, CSize(l.ct), c % W)}
  BY DEF Assign
<1>5. l = Seen(Below) /\ r = Seen(Top) /\ u = Binary("=", l, r) /\ la = l.a
  OBVIOUS
<1>6. c = Convert(l.ct, r.cv) /\ cv \in {c, Undefined}
  OBVIOUS
<1>7. v \in {l.a, r.v}
  BY DEF Worst
<1> HIDE DEF l, r, u, bad, valid, defined, c, prim, og, lvl, v, static, ct, cv, writes, la
<1>8. /\ Fits(Below) /\ Fits(Top) /\ Fits(l) /\ Fits(r)
      /\ l.reg = Below.reg /\ FreshReg(2, Below.reg)
  BY <1>2, <1>5, OperandsFit DEF CanAdd
<1>9. IsNode(u) /\ Fits(u) /\ u.reg = l.reg
  BY <1>5, <1>8, BinaryFits, BinaryAttributes
<1>10. e.v = v /\ e.a = la /\ e.fold = u.fold
  BY <1>9 DEF IsNode, Node
<1>11. e.cv = cv /\ e.ca = u.ca /\ e.reg = u.reg
  BY <1>9 DEF IsNode, Node
<1> HIDE DEF e
<1>12. c \in Int
  BY <1>6, <1>8, ConvertInt DEF Fits
<1>13. Fits(e) /\ FreshReg(2, e.reg)
  BY <1>5, <1>6, <1>7, <1>8, <1>9, <1>10, <1>11, <1>12, UndefinedInt DEF Fits
<1>14. MemOK(mem')
  <2>1. PICK a \in Int, x \in Int : a = l.a /\ x = r.v
    BY <1>8, WordFacts DEF Fits
  <2>2. PICK n \in {1, 2, 4} : n = AssignSize(l, r)
    BY SizeIs DEF AssignSize
  <2>3. MemOK(Store(mem, a, n, x)) /\ MemOK(mem)
    BY StoreKeeps DEF FitsInv
  <2>4. QED BY <1>3, <2>1, <2>2, <2>3
<1>15. MemOK(cmem')
  <2>1. PICK a \in Int, x \in Int : a = l.ca /\ x = c % W
    BY <1>8, <1>12, WordFacts, Remainder DEF Fits
  <2>2. PICK n \in {1, 2, 4} : n = CSize(l.ct)
    BY SizeIs DEF CSize
  <2>3. MemOK(Store(cmem, a, n, x)) /\ MemOK(cmem)
    BY StoreKeeps DEF FitsInv
  <2>4. QED BY <1>4, <2>1, <2>2, <2>3
<1>16. StackFits' /\ count' \in 0 .. MaxNodes
  BY <1>1, <1>2, <1>13, PushFits DEF FitsInv
<1>17. QED BY <1>14, <1>15, <1>16 DEF FitsInv

\* The bytes that are loaded go into a word's lower ones.
LEMMA LowerBytes ==
    ASSUME NEW bytes \in {1, 2, 4}, NEW x \in Word, NEW y \in 0 .. Mod(bytes) - 1
    PROVE  x - (x % Mod(bytes)) + y \in Word
<1>1. PICK m \in Nat, n \in Nat : m = Mod(1) /\ n = Mod(2) /\ m > 0 /\ n > 0 /\ n = m * m /\ W = n * n
  BY ModFacts DEF W
<1>2. n * n = (m * n) * m
  BY <1>1
<1>3. PICK k \in Nat : W = k * Mod(bytes) /\ Mod(bytes) \in Nat /\ Mod(bytes) > 0
  <2>1. CASE bytes = 1
    <3>1. m * n \in Nat /\ W = (m * n) * Mod(bytes)
      BY <1>1, <1>2, <2>1
    <3>2. QED BY <1>1, <2>1, <3>1
  <2>2. CASE bytes = 2
    BY <1>1, <2>2
  <2>3. CASE bytes = 4
    <3>1. W = 1 * Mod(bytes)
      BY <2>3, ModFacts DEF W
    <3>2. QED BY <2>3, <3>1, ModFacts
  <2>4. QED BY <2>1, <2>2, <2>3
<1>4. QED BY <1>3, UpperDigits DEF Word

LEMMA StepFits ==
    ASSUME AttributesInv, FitsInv, NEW op, NEW junk \in {0, W - 1}, Step(op, junk)
    PROVE  FitsInv'
<1> DEFINE l == Seen(Top)
           u == Unary(op, l)
           bytes == Size(l.og, l.lvl)
           by == (IF op \in {"++x", "x++"} THEN 1 ELSE -1) * (IF l.lvl = 0 THEN 1 ELSE Size(l.og, l.lvl - 1))
           old == Load(mem, l.a, bytes)
           new == (old + by) % Mod(bytes)
           postfix == op \in {"x++", "x--"}
           upper == IF postfix THEN junk ELSE l.a
           v == IF Broken(l.a) THEN l.a
                ELSE upper - (upper % Mod(bytes)) + (IF postfix THEN old ELSE new)
           c == IF l.ca = NoAddress \/ l.cv = Undefined THEN Undefined
                ELSE IF IsPtr(l.ct) THEN CPointerAdd(Objects, l.ct, l.cv, IF by > 0 THEN 1 ELSE -1)
                ELSE LET t == CPromote(l.ct) IN CArith("+", t, l.cv, by)
           defined == c # Undefined /\ CStores(u, l.ct, l.ca)
           free == FreeReg(Len(stack))
           reg == IF postfix THEN free ELSE l.reg
           here == If(bytes < 4, "step")
           ct == IF l.ca = NoAddress THEN NoType ELSE l.ct
           cv == IF ~defined THEN Undefined ELSE IF postfix THEN l.cv ELSE Convert(l.ct, c)
           writes == u.writes \cup IF defined THEN Bytes(l.ca, l.ct) ELSE Addresses
           e == [u EXCEPT !.prim = Promote(l.prim, l.lvl), !.og = l.og, !.lvl = l.lvl,
                 !.reg = reg, !.v = v, !.a = v, !.here = here, !.ct = ct, !.cv = cv, !.writes = writes]
<1>1. Push(1, e)
  BY DEF Step
<1>2. CanAdd(1)
  BY DEF Step
<1>3. postfix => free < NRegs
  BY DEF Step
<1>4. mem' \in {mem, Store(mem, l.a, bytes, new)}
  BY DEF Step
<1>5. cmem' \in {cmem, Store(cmem, l.ca, bytes, Convert(l.ct, c) % W)}
  BY DEF Step
<1>6. l = Seen(Top) /\ u = Unary(op, l) /\ free = FreeReg(Len(stack)) /\ reg = (IF postfix THEN free ELSE l.reg)
  OBVIOUS
<1>7. bytes \in {1, 2, 4} /\ by \in Int
  <2>1. Size(l.og, l.lvl - 1) \in {1, 2, 4}
    BY SizeIs
  <2>2. QED BY <2>1, SizeIs
<1>8. old = Load(mem, l.a, bytes) /\ new = (old + by) % Mod(bytes)
  OBVIOUS
<1>9. upper \in {junk, l.a} /\ postfix \in BOOLEAN /\ upper = (IF postfix THEN junk ELSE l.a)
  OBVIOUS
<1>10. v = IF Broken(l.a) THEN l.a ELSE upper - (upper % Mod(bytes)) + (IF postfix THEN old ELSE new)
  OBVIOUS
<1>11. c \in {Undefined, CPointerAdd(Objects, l.ct, l.cv, 1), CPointerAdd(Objects, l.ct, l.cv, -1),
              CArith("+", CPromote(l.ct), l.cv, by)}
  OBVIOUS
<1>12. cv \in {Undefined, l.cv, Convert(l.ct, c)}
  OBVIOUS
<1> HIDE DEF l, u, bytes, by, old, new, postfix, upper, v, c, defined, free, reg, here, ct, cv, writes
<1>13. IsNode(Top) /\ Fits(Top) /\ FreshReg(1, Top.reg)
  BY <1>2, TopmostFit DEF CanAdd, FitsInv
<1>14. Fits(l) /\ l.reg = Top.reg
  BY <1>6, <1>13, FitsSeen
<1>15. IsNode(u) /\ Fits(u)
  BY <1>6, <1>14, UnaryFits, UnaryAttributes
<1>16. e.v = v /\ e.a = v /\ e.fold = u.fold
  BY <1>15 DEF IsNode, Node
<1>17. e.cv = cv /\ e.ca = u.ca /\ e.reg = reg
  BY <1>15 DEF IsNode, Node
<1> HIDE DEF e
<1>18. old \in 0 .. Mod(bytes) - 1 /\ new \in 0 .. Mod(bytes) - 1
  <2>1. Mod(bytes) \in Nat /\ Mod(bytes) > 0
    BY <1>7, ModFacts
  <2>2. old \in 0 .. Mod(bytes) - 1
    BY <1>7, <1>8, LoadRange DEF FitsInv
  <2>3. old + by \in Int
    BY <1>7, <2>1, <2>2
  <2>4. QED BY <1>8, <2>1, <2>2, <2>3, Remainder
<1>19. v \in Words
  <2>1. CASE Broken(l.a)
    BY <1>10, <1>14, <2>1 DEF Fits
  <2>2. CASE ~Broken(l.a)
    <3>1. upper \in Word
      <4>1. l.a \in Word
        BY <1>14, <2>2, WordFacts DEF Fits
      <4>2. junk \in Word
        BY WordFacts DEF Word
      <4>3. QED BY <1>9, <4>1, <4>2
    <3>2. PICK y \in 0 .. Mod(bytes) - 1 : y = IF postfix THEN old ELSE new
      BY <1>9, <1>18
    <3>3. upper - (upper % Mod(bytes)) + y \in Word
      BY <1>7, <3>1, LowerBytes
    <3>4. QED BY <1>10, <2>2, <3>2, <3>3, WordFacts
  <2>3. QED BY <2>1, <2>2
<1>20. c \in Int
  <2>1. PICK x \in Int : x = l.cv
    BY <1>14 DEF Fits
  <2>2. CPointerAdd(Objects, l.ct, x, 1) \in Int /\ CPointerAdd(Objects, l.ct, x, -1) \in Int
    BY CPointerInt
  <2>3. CArith("+", CPromote(l.ct), x, by) \in Int
    <3>1. PICK plus \in Arithmetic : plus = "+"
      BY DEF Arithmetic
    <3>2. QED BY <1>7, <3>1, CArithInt
  <2>4. QED BY <1>11, <2>1, <2>2, <2>3, UndefinedInt
<1>21. Convert(l.ct, c) \in Int
  BY <1>20, ConvertInt
<1>22. cv \in Int
  BY <1>12, <1>14, <1>21, UndefinedInt DEF Fits
<1>23. reg \in 0 .. NRegs - 1 /\ FreshReg(1, reg)
  <2>1. CASE postfix
    <3>1. reg = free /\ free \in 0 .. NRegs /\ FreshReg(1, free)
      BY <1>6, <2>1, FreshFree
    <3>2. QED BY <1>3, <2>1, <3>1 DEF NRegs
  <2>2. CASE ~postfix
    BY <1>6, <1>13, <1>14, <2>2 DEF Fits
  <2>3. QED BY <2>1, <2>2
<1>24. Fits(e) /\ FreshReg(1, e.reg)
  BY <1>15, <1>16, <1>17, <1>19, <1>22, <1>23 DEF Fits
<1>25. MemOK(mem')
  <2>1. PICK a \in Int, x \in Int : a = l.a /\ x = new
    <3>1. Mod(bytes) \in Nat
      BY <1>7, ModFacts
    <3>2. QED BY <1>14, <1>18, <3>1, WordFacts DEF Fits
  <2>2. MemOK(Store(mem, a, bytes, x)) /\ MemOK(mem)
    BY <1>7, StoreKeeps DEF FitsInv
  <2>3. QED BY <1>4, <2>1, <2>2
<1>26. MemOK(cmem')
  <2>1. PICK a \in Int, x \in Int : a = l.ca /\ x = Convert(l.ct, c) % W
    BY <1>14, <1>21, WordFacts, Remainder DEF Fits
  <2>2. MemOK(Store(cmem, a, bytes, x)) /\ MemOK(cmem)
    BY <1>7, StoreKeeps DEF FitsInv
  <2>3. QED BY <1>5, <2>1, <2>2
<1>27. StackFits' /\ count' \in 0 .. MaxNodes
  BY <1>1, <1>2, <1>24, PushFits DEF FitsInv
<1>28. QED BY <1>25, <1>26, <1>27 DEF FitsInv

LEMMA NextFits == AttributesInv /\ FitsInv /\ [Next]_vars => FitsInv'
<1>1. SUFFICES ASSUME AttributesInv, FitsInv, [Next]_vars PROVE FitsInv'
  OBVIOUS
<1>2. ASSUME NEW n \in grammar.lits, Literal(n) PROVE FitsInv'
  BY <1>1, <1>2, LiteralFits
<1>3. ASSUME NEW o \in grammar.vars, Variable(o) PROVE FitsInv'
  BY <1>1, <1>3, VariableFits
<1>4. ASSUME NEW addr \in grammar.strings, StringLiteral(addr) PROVE FitsInv'
  BY <1>1, <1>4, StringLiteralFits
<1>5. ASSUME NEW op, UnaryOp(op) PROVE FitsInv'
  BY <1>1, <1>5, UnaryOpFits
<1>6. ASSUME NEW t \in grammar.casts, Cast(t) PROVE FitsInv'
  BY <1>1, <1>6, CastFits
<1>7. CASE Reference \/ Dereference
  BY <1>1, <1>7, ReferenceFits, DereferenceFits
<1>8. ASSUME NEW op \in BinaryOps, BinaryOp(op) PROVE FitsInv'
  BY <1>1, <1>8, BinaryOpFits
<1>9. CASE Index \/ IndexNoPointer \/ Assign
  BY <1>1, <1>9, IndexFits, IndexNoPointerFits, AssignFits
<1>10. ASSUME NEW op, NEW junk \in {0, W - 1}, Step(op, junk) PROVE FitsInv'
  BY <1>1, <1>10, StepFits
<1>11. CASE UNCHANGED vars
  <2>1. UNCHANGED <<mem, cmem, count, stack>>
    BY <1>11 DEF vars
  <2>2. QED BY <1>1, <2>1 DEF FitsInv, StackFits
<1>12. QED
  BY <1>1, <1>2, <1>3, <1>4, <1>5, <1>6, <1>7, <1>8, <1>9, <1>10, <1>11 DEF Next

\* Type correctness: whatever an expression computes fits a register, every
\* byte of either memory is a byte, and no two pending operands share a
\* register.
THEOREM TypeCorrect == Spec => []TypeOK
<1>1. Init => FitsInv
  <2>1. SUFFICES ASSUME Init PROVE FitsInv
    OBVIOUS
  <2>2. MemOK(mem) /\ MemOK(cmem) /\ count \in 0 .. MaxNodes
    BY <2>1, ValuesAssumption DEF Init, MemOK
  <2>3. stack = << >> /\ Len(<< >>) = 0
    BY <2>1 DEF Init
  <2>4. DOMAIN stack = {}
    <3>1. Row(stack)
      BY <2>1, InitAttributes DEF AttributesInv
    <3>2. QED BY <2>3, <3>1, RowFacts
  <2>5. StackFits
    BY <2>3, <2>4 DEF StackFits, NRegs
  <2>6. QED BY <2>2, <2>5 DEF FitsInv
<1>2. ASSUME AttributesInv, FitsInv PROVE TypeOK
  <2>1. grammar \in Grammars /\ optimize \in BOOLEAN /\ count \in 0 .. MaxNodes
    BY <1>2 DEF AttributesInv, FitsInv
  <2>2. ASSUME NEW m \in {mem, cmem}
        PROVE  DOMAIN m = Addresses /\ \A b \in DOMAIN m : m[b] \in 0 .. Mod(1) - 1
    BY <1>2 DEF FitsInv, MemOK
  <2>3. ASSUME NEW i \in DOMAIN stack
        PROVE  /\ stack[i].prim \in Prims /\ stack[i].og \in Prims /\ stack[i].lvl \in Nat
               /\ {stack[i].v, stack[i].a, stack[i].fold} \subseteq Aborts .. W - 1
               /\ stack[i].reg \in 0 .. NRegs - 1
    BY <1>2 DEF AttributesInv, NodeInv, FitsInv, StackFits, Fits, Words
  <2>4. \A i, j \in DOMAIN stack : i # j => stack[i].reg # stack[j].reg
    BY <1>2 DEF FitsInv, StackFits
  <2>5. QED BY <2>1, <2>2, <2>3, <2>4 DEF TypeOK
<1>3. QED
  BY <1>1, <1>2, AttributesInvariant, NextFits, PTL DEF Spec
=============================================================================
