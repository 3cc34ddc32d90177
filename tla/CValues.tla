------------------------------- MODULE CValues -------------------------------
(***************************************************************************)
(* The value of an expression in C, for a machine whose types have the     *)
(* sizes of PrimTypes: a type is [prim, lvl], a value an integer, of a     *)
(* pointer the address.  The reference for Values.                         *)
(***************************************************************************)
EXTENDS PrimTypes, Integers

CONSTANTS
  ByteMod,         \* the number of values of a byte
  BitAnd(_, _)     \* the bitwise and of two words

\* The number of values of so many bytes, at most a word.
Mod(bytes) ==
    CASE bytes = 0 -> 1
      [] bytes = 1 -> ByteMod
      [] bytes = 2 -> ByteMod * ByteMod
      [] bytes = 3 -> ByteMod * ByteMod * ByteMod
      [] bytes = 4 -> ByteMod * ByteMod * ByteMod * ByteMod

ASSUME ByteAssumption ==
    /\ ByteMod \in Nat /\ ByteMod >= 2
    /\ \A a, b \in 0 .. Mod(4) - 1 : BitAnd(a, b) \in 0 .. Mod(4) - 1

AsSigned(v, bytes) == IF v >= Mod(bytes) \div 2 THEN v - Mod(bytes) ELSE v

CType(prim, lvl) == [prim |-> prim, lvl |-> lvl]
CInt == CType("int", 0)
NoType == CType("none", 0)      \* of what is not C
IsArith(t) == t # NoType /\ t.lvl = 0
IsPtr(t) == t.lvl > 0
CSize(t) == Size(t.prim, t.lvl)
CSigned(t) == Signed(t.prim, t.lvl)
Pointee(t) == CType(t.prim, t.lvl - 1)

\* What matters of a type to the code that uses its values; int and long,
\* which have one representation, are not told apart.
Class(t) == IF IsPtr(t) THEN <<t.prim, t.lvl>> ELSE <<CSize(t), CSigned(t)>>

Undefined == -Mod(4)     \* below every value
Convert(t, v) == IF CSigned(t) THEN AsSigned(v % Mod(CSize(t)), CSize(t)) ELSE v % Mod(CSize(t))

\* Integer promotion and the usual arithmetic conversions.
CPromote(t) == IF CSize(t) < 4 THEN CInt ELSE t
Rank(t) == (IF t.prim \in {"long", "ulong"} THEN 2 ELSE 0) + (IF CSigned(t) THEN 0 ELSE 1)
CUsual(s, t) ==
    LET a == CPromote(s)
        b == CPromote(t)
        high == IF Rank(a) > Rank(b) THEN a ELSE b
        low == IF Rank(a) > Rank(b) THEN b ELSE a
    IN IF high.prim = "long" /\ low.prim = "uint" THEN CType("ulong", 0) ELSE high

Arithmetic == {"+", "-", "*", "/", "%", "&"}
Equality == {"==", "!="}
Relational == {"<", "<=", ">", ">="}
Comparison == Equality \cup Relational
Logical == {"&&", "||"}
BinaryOps == Arithmetic \cup Comparison \cup Logical \cup {","}

\* The type of a binary expression other than an assignment or a subscript;
\* null0 and null1 say that an operand is the literal 0.
CBinaryType(op, s, t, null0, null1) ==
    IF op = "," THEN t
    ELSE IF op \in Logical THEN CInt
    ELSE IF IsArith(s) /\ IsArith(t) THEN IF op \in Comparison THEN CInt ELSE CUsual(s, t)
    ELSE IF op \in Comparison \cup {"-"} /\ s = t THEN CInt
    ELSE IF op \in Equality /\ (IF IsPtr(s) THEN null1 ELSE null0) THEN CInt
    ELSE IF op \in {"+", "-"} /\ IsPtr(s) /\ IsArith(t) THEN s
    ELSE IF op = "+" /\ IsArith(s) /\ IsPtr(t) THEN t
    ELSE NoType
CAssignable(s, t, null) == (IsArith(s) /\ IsArith(t)) \/ s = t \/ (IsPtr(s) /\ null)

Truth(b) == IF b THEN 1 ELSE 0
Abs(v) == IF v < 0 THEN -v ELSE v
Sign(v) == IF v < 0 THEN -1 ELSE 1
Quotient(a, b) == Sign(a) * Sign(b) * (Abs(a) \div Abs(b))
Compare(op, a, b) ==
    CASE op = "==" -> Truth(a = b)
      [] op = "!=" -> Truth(a # b)
      [] op = "<" -> Truth(a < b)
      [] op = "<=" -> Truth(a <= b)
      [] op = ">" -> Truth(a > b)
      [] op = ">=" -> Truth(a >= b)

\* An overflow of a signed type is undefined.
InRange(t, v) == IF CSigned(t) /\ Convert(t, v) # v THEN Undefined ELSE Convert(t, v)
CArith(op, t, a, b) ==
    CASE op = "+" -> InRange(t, a + b)
      [] op = "-" -> InRange(t, a - b)
      [] op = "*" -> InRange(t, a * b)
      [] op = "&" -> Convert(t, BitAnd(a % Mod(4), b % Mod(4)))
      [] op \in {"/", "%"} /\ b = 0 -> Undefined
      [] op = "/" /\ b # 0 -> InRange(t, Quotient(a, b))
      [] op = "%" /\ b # 0 -> IF InRange(t, Quotient(a, b)) = Undefined THEN Undefined
                              ELSE a - b * Quotient(a, b)

\* Operands of one object: a pointer may point into it or just past its end.
SameObject(objects, a, b) == \E o \in objects : {a, b} \subseteq o.addr .. o.addr + o.bytes
CPointerAdd(objects, t, a, n) ==
    LET b == a + n * CSize(Pointee(t)) IN IF SameObject(objects, a, b) THEN b ELSE Undefined
CPointerSub(objects, t, a, b) ==
    IF SameObject(objects, a, b) THEN Quotient(a - b, CSize(Pointee(t))) ELSE Undefined
==============================================================================
