----------------------------- MODULE MCCtrlFlow -----------------------------
(***************************************************************************)
(* Instances of CtrlFlow for TLC: function bodies with two levels of       *)
(* nested statements, every pair of sibling statements, and conditions     *)
(* with up to two || or &&.                                                *)
(***************************************************************************)
EXTENDS ArrayLits

Simple == {Act("u"), Ret}
Bodies == Simple \cup {Block(<<Act("v")>>), Block(<<Act("v"), Ret>>)}
P == Atom("p")
Q == Atom("q")
R == Atom("r")
Conditions == {P, AndCond(P, Q), OrCond(P, Q), AndCond(OrCond(P, Q), R), OrCond(P, AndCond(Q, R)), AndCond(P, AndCond(Q, R))}
Control(cs, bodies, elses) ==
    [t : {"if"}, c : cs, body : bodies, else : elses \cup {None}]
      \cup [t : {"while"}, c : cs, body : bodies]
      \cup [t : {"for"}, init : {Act("i")}, c : cs, inc : {Act("n")}, body : bodies]

Inner == Control(Conditions, Bodies, Bodies)
Outer == {Atom("x"), AndCond(Atom("x"), Atom("y")), OrCond(Atom("x"), Atom("y"))}
\* A statement around a statement, in a block of its own or without one.
Nested ==
    Control(Outer, Inner, {Block(<<Act("w")>>)})
      \cup Control(Outer, {Block(<<s, Act("w")>>) : s \in Inner}, {})
      \cup [t : {"if"}, c : Outer, body : {Act("w")}, else : Inner \cup {Block(<<s>>) : s \in Inner}]
Few == Control({P, OrCond(P, Q)}, {Act("u"), Block(<<Act("v")>>)}, {Act("w")})
MCPrograms ==
    {<<s, Act("z")>> : s \in Nested} \cup {<<s, t>> : s, t \in Few}

MCLiterals == {"u", "v", "w", "z", "i", "p", "q", "r", "x", "y"}
Booleans == {{}, {0}}     \* 0 and 1

MCConds == Conditions \cup Outer \cup {P, Q, R, Atom("y"), OrCond(P, Q), AndCond(Q, R)}
MCStmts ==
    Simple \cup {Act(name) : name \in {"v", "w", "z", "i", "n"}} \cup {Block(<<Act("w")>>)}
      \cup Bodies \cup Inner \cup Nested \cup Few
      \cup {Block(<<s, Act("w")>>) : s \in Inner} \cup {Block(<<s>>) : s \in Inner}
=============================================================================
