------------------------------ MODULE PrimTypes ------------------------------
(***************************************************************************)
(* The types of expressions: src/prim_type.c, the sizes of                 *)
(* src/backend_dependent/type_sizes.h, and the rules of Expr_type.  A type *)
(* is a primitive type and a number of levels of indirection.  The void    *)
(* type, on which these functions fail an assertion, is left out.          *)
(***************************************************************************)
EXTENDS Naturals

SignedTypes == {"char", "short", "int", "long"}
Prims == SignedTypes \cup {"uchar", "ushort", "uint", "ulong"}

\* PrimitiveType_signed
Signed(prim, lvls) == lvls = 0 /\ prim \in SignedTypes

\* PrimitiveType_size, in bytes
Size(prim, lvls) ==
    IF lvls > 0 THEN 4
    ELSE IF prim \in {"char", "uchar"} THEN 1
    ELSE IF prim \in {"short", "ushort"} THEN 2
    ELSE 4

\* PrimitiveType_promote: an int holds every value of the smaller types.
Promote(prim, lvls) ==
    IF lvls = 0 /\ prim \in {"char", "short", "uchar", "ushort"} THEN "int" ELSE prim

\* Expr_type of a node with two operands, l and r with ll and rl levels.
\* Mutant: of two types of one size, the left one.
BinaryTypeLeft(l, ll, r, rl) ==
    IF rl > ll THEN Promote(r, rl)
    ELSE IF ll > rl \/ Size(Promote(l, ll), ll) >= Size(Promote(r, rl), rl) THEN Promote(l, ll)
    ELSE Promote(r, rl)
BinaryType(l, ll, r, rl) ==
    LET lProm == Promote(l, ll)
        rProm == Promote(r, rl)
    IN
    IF rl > ll THEN rProm
    ELSE IF ll > rl \/ Size(lProm, ll) > Size(rProm, rl) THEN lProm
    ELSE IF Size(lProm, ll) < Size(rProm, rl) \/ Signed(lProm, ll) THEN rProm
    ELSE lProm
==============================================================================
