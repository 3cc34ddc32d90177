------------------------------- MODULE MCValues -------------------------------
(***************************************************************************)
(* Expressions of a few nodes over a few objects.  A byte has two bits, so *)
(* that a char is -2..1, a short -8..7, and int, long and pointers         *)
(* -128..127: every boundary is a few steps away.                          *)
(***************************************************************************)
EXTENDS Values, Bitwise

BitwiseAnd(a, b) == a & b

Object(prim, lvl, addr, bytes, array) ==
    [prim |-> prim, lvl |-> lvl, addr |-> addr, bytes |-> bytes, array |-> array]
C == Object("char", 0, 16, 1, FALSE)
U == Object("uint", 0, 20, 4, FALSE)
I == Object("int", 0, 26, 4, FALSE)
P == Object("short", 1, 32, 4, FALSE)
A == Object("short", 1, 38, 4, TRUE)
Text == Object("char", 1, 44, 2, TRUE)
H == Object("ushort", 0, 48, 2, FALSE)
MCObjects == {C, U, I, P, A, Text, H}

\* The bytes of an object of value v.
Put(o, v) == [b \in o.addr .. o.addr + o.bytes - 1 |-> (v \div Mod(b - o.addr)) % Mod(1)]
Memory(c, u, i, p) ==
    Put(C, c) @@ Put(U, u) @@ Put(I, i) @@ Put(P, p) @@ Put(A, 16 * 3 + 14) @@ Put(Text, 1) @@ Put(H, 15)
MCMemories == {
    Memory(3, 250, 2, 38),
    Memory(1, 1, 253, 40),
    Memory(0, 3, 0, 38)}

Grammar(lits, variables, strings, ops, casts) ==
    [lits |-> lits, vars |-> variables, strings |-> strings, ops |-> ops, casts |-> casts]
MCGrammars == {
    Grammar({2}, {C, U, I}, {}, {"+", "-", "*", "-x", "!x", "cast"}, {CType("char", 0), CType("ushort", 0)}),
    Grammar({3}, {U, I}, {}, {"/", "%", "~x", "<", "=="}, {}),
    Grammar({3}, {H, I}, {}, {"&&", "||", ">=", "!=", "+x"}, {}),
    Grammar({1}, {I, P, A}, {}, {"+", "-", "[]", "*x", "&x"}, {}),
    Grammar({0}, {P, A, I}, {}, {"=", "<=", ">", "++x", "x--", "*x"}, {}),
    Grammar({2}, {C, H, U}, {}, {"=", "x++", "--x", "+", "||"}, {}),
    Grammar({0, 2, 5}, {U}, {}, {"/", "%", "&", "&&", "||", ",", "-x", "<", "*"}, {}),
    Grammar({1}, {C, P}, {Text.addr}, {"[]", "*x", "=", "+", "==", "-"}, {})}
==============================================================================
