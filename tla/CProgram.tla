------------------------------ MODULE CProgram ------------------------------
(***************************************************************************)
(* C's declarations, statements and scopes, the reference for the token    *)
(* tables that the parser reads.  Parse goes through a table by C's        *)
(* grammar and gives a record of                                           *)
(*   i      the next token, or 0 once the text is not C;                   *)
(*   tree   the syntax tree: a statement or declaration at token k stands  *)
(*          between k and -k, and has its expressions in postfix order;    *)
(*   uses   the pairs of a use of a name and its declaration;              *)
(*   env    the scopes, innermost last;                                    *)
(*   ret    what the function returns, "none" outside of functions;        *)
(*   lax    liberties taken that C does not grant and mcc does;            *)
(*   odd    constructs of C on the way that mcc has another idea of.       *)
(* Expressions are names, literals, calls without arguments, parentheses   *)
(* and assignments.  Statements follow declarations, as in C89.            *)
(***************************************************************************)
EXTENDS TokenPasses, Integers

At(t, p) == IF p.i \in DOMAIN t THEN t[p.i] ELSE "end"
Fail(p) == [p EXCEPT !.i = 0]
Skip(p, n) == [p EXCEPT !.i = IF @ = 0 THEN 0 ELSE @ + n]
Eat(t, p, token) == IF At(t, p) = token THEN Skip(p, 1) ELSE Fail(p)
Lax(p, liberty) == [p EXCEPT !.lax = @ \cup {liberty}]
Odd(p, construct) == [p EXCEPT !.odd = @ \cup {construct}]
OddIf(cond, p, construct) == IF cond THEN Odd(p, construct) ELSE p
LaxIf(cond, p, liberty) == IF cond THEN Lax(p, liberty) ELSE p

Leaf(p, k) == [p EXCEPT !.tree = Append(@, k)]
Bare(p) == [p EXCEPT !.tree = << >>]
\* q's tree as the node k at the end of p's.
Wrap(p, q, k) == [q EXCEPT !.tree = p.tree \o <<k>> \o @ \o <<-k>>]
-----------------------------------------------------------------------------
(* Scopes: of the file, a function's parameters, its body, or a block.     *)
Push(p, kind) ==
    [p EXCEPT !.env = Append(@, [kind |-> kind, names |-> << >>, code |-> FALSE, other |-> FALSE])]
Pop(p) == [p EXCEPT !.env = Front(@)]

None == [kind |-> "none", at |-> 0, type |-> "none"]
Entry(kind, at, type) == [None EXCEPT !.kind = kind, !.at = at, !.type = type]
Holders(p, n) == {k \in DOMAIN p.env : n \in DOMAIN p.env[k].names}
Lookup(p, n) == IF Holders(p, n) = {} THEN None ELSE p.env[Max(Holders(p, n))].names[n]
SetEntry(p, k, n, e) == [p EXCEPT !.env[k].names = (n :> e) @@ @]
Innermost(p) == Last(p.env)
Here(p, n) == n \in DOMAIN Innermost(p).names

Builtin == {"ty", "void"}
IsType(p, n) == n \in Builtin \/ (n \in Idents /\ Lookup(p, n).kind = "type")
TypeOf(p, n) == IF n \in Builtin THEN n ELSE Lookup(p, n).type

\* A name gets a meaning in the innermost scope.  A function's parameters and
\* its body are one scope in C.
Named(p, n, e) ==
    LaxIf(n \notin Names, SetEntry(p, Len(p.env), n, e), "keyword as a name")
Again(p, n, e, old) ==
    CASE old.kind # e.kind /\ "type" \in {old.kind, e.kind} -> Lax(Named(p, n, e), "type and variable")
      [] {old.kind, e.kind} = {"var"} /\ Innermost(p).kind = "file" -> Odd(Named(p, n, e), "tentative")
      [] OTHER -> Fail(p)
Declare(p, n, e) ==
    LET hides == Lookup(p, n).kind = "type" /\ e.kind # "type"
        parameter == Innermost(p).kind = "body" /\ n \in DOMAIN p.env[Len(p.env) - 1].names
    IN IF Here(p, n)
         THEN Again(p, n, e, Lookup(p, n))
         ELSE LaxIf(parameter, OddIf(hides, Named(p, n, e), "hides a type"), "parameter redeclared")
-----------------------------------------------------------------------------
RECURSIVE Expr(_, _)
Use(t, p) ==
    LET e == Lookup(p, At(t, p)) IN
    IF e.kind \in {"var", "fun"}
      THEN Skip([Leaf(p, p.i) EXCEPT !.uses = @ \cup {<<p.i, e.at>>}], 1)
      ELSE Fail(p)
Primary(t, p) ==
    CASE At(t, p) = "lit"   -> Skip(Leaf(p, p.i), 1)
      [] At(t, p) = "("     -> Eat(t, Expr(t, Skip(p, 1)), ")")
      [] At(t, p) \in Idents ->
           IF At(t, Skip(p, 1)) # "(" THEN Use(t, p)
           ELSE IF Lookup(p, At(t, p)).kind = "fun"
                  THEN Eat(t, Eat(t, Use(t, p), "("), ")")
                  ELSE Fail(p)
      [] OTHER -> Fail(p)
Assigned(t, a) == IF At(t, a) = "=" THEN Leaf(Expr(t, Skip(a, 1)), a.i) ELSE a
Expr(t, p) == Assigned(t, Primary(t, p))
OptExpr(t, p, stop) == IF At(t, p) = stop THEN p ELSE Expr(t, p)
-----------------------------------------------------------------------------
(* Declarations.  Code and declarations of another kind than a variable    *)
(* are told apart, since mcc wants neither before a variable.              *)
Noting(p, field) ==
    IF p.i = 0 THEN p
    ELSE [p EXCEPT !.env[Len(p.env)] = [@ EXCEPT ![field] = TRUE]]

\* q is after the name of the variable declared at p, v after its value.
Initialized(t, q) ==
    CASE At(t, q) # "="          -> q
      [] At(t, Skip(q, 1)) = ";" -> Lax(Skip(q, 1), "no value")
      [] OTHER                   -> Expr(t, Skip(q, 1))
VariableEnd(t, p, v) ==
    LET own == \E use \in v.uses \ p.uses : use[2] = p.i + 1 IN
    OddIf(p.ret # "none" /\ Innermost(p).other,
          OddIf(own, Wrap(p, Eat(t, v, ";"), p.i), "own initialiser"),
          "after a declaration")
Variable(t, p) ==
    LET type == TypeOf(p, At(t, p))
        d == Declare(p, t[p.i + 1], Entry("var", p.i + 1, type))
    IN IF type = "void" \/ (p.ret # "none" /\ Innermost(p).code) THEN Fail(p)
       ELSE VariableEnd(t, p, Initialized(t, Leaf(Bare(Skip(d, 2)), p.i + 1)))

TypeNamed(p, n, type, old) ==
    IF n = type \/ (Here(p, n) /\ old.kind = "type" /\ old.type = type)
      THEN Lax(p, "type redeclared")
      ELSE Declare(p, n, Entry("type", p.i + 2, type))
Typedef(t, p) ==
    LET n == At(t, Skip(p, 2))
        type == TypeOf(p, At(t, Skip(p, 1)))
        old == Lookup(p, n)
    IN IF ~IsType(p, At(t, Skip(p, 1))) \/ n \notin Idents THEN Fail(p)
       ELSE Noting(Eat(t, Skip(OddIf(old.kind = "type" /\ old.type # type,
                                     TypeNamed(p, n, type, old), "inner typedef"), 3), ";"),
                   "other")

\* Parameters, from the token after the ( to the one after the ).  In types,
\* "?" stands for an empty list, which says nothing.
RECURSIVE ParamList(_, _, _)
Param(t, p, n) ==
    IF n \in Idents
      THEN Skip(Leaf(Declare(p, n, Entry("var", p.i + 1, TypeOf(p, At(t, p)))), p.i + 1), 2)
      ELSE Odd(Skip(p, 1), "unnamed")
MoreParams(t, q, types) ==
    IF At(t, q) = "," THEN ParamList(t, Skip(q, 1), types) ELSE [p |-> Eat(t, q, ")"), types |-> types]
ParamList(t, p, types) ==
    LET type == At(t, p) IN
    IF ~IsType(p, type) \/ TypeOf(p, type) = "void" THEN [p |-> Fail(p), types |-> types]
    ELSE MoreParams(t, Param(t, p, At(t, Skip(p, 1))), Append(types, TypeOf(p, type)))
Params(t, p) ==
    CASE At(t, p) = ")" -> [p |-> Skip(p, 1), types |-> <<"?">>]
      [] IsType(p, At(t, p)) /\ TypeOf(p, At(t, p)) = "void" /\ At(t, Skip(p, 1)) = ")"
                        -> [p |-> Skip(p, 2), types |-> << >>]
      [] OTHER          -> ParamList(t, p, << >>)

RECURSIVE Block(_, _, _)
\* A function of type `type', declared at p, from the token after its ) on,
\* where its symbol is known.
FunctionEnd(t, p, r, type) ==
    CASE At(t, r) = "{" -> Wrap(r, Block(t, Bare([r EXCEPT !.ret = type]), "body"), r.i)
      [] At(t, r) = ";" -> Skip(r, 1)
      [] OTHER          -> Lax(Skip(r, 1), "prototype's end")
\* The symbol after a declaration with these parameters; `first' is whether the
\* name's first declaration is a definition.
Symbol(p, type, old, types, definition) ==
    IF old.kind = "fun"
      THEN [old EXCEPT !.type = type, !.params = types, !.defined = @ \/ definition]
      ELSE [kind |-> "fun", at |-> p.i + 1, type |-> type, params |-> types,
            defined |-> definition, first |-> definition]
WithSymbol(q, n, info) == IF q.i = 0 THEN q ELSE SetEntry(q, Max(Holders(Pop(q), n)), n, info)
FunctionWith(t, p, type, old, q, types) ==
    LET n == t[p.i + 1]
        new == old.kind # "fun"
        definition == At(t, q) = "{"
        r == WithSymbol(q, n, Symbol(p, type, old, types, definition))
        whole == Wrap(p, Pop([FunctionEnd(t, p, r, type) EXCEPT !.ret = p.ret]), p.i)
        mismatch == ~new /\ (old.type # type \/ old.params # types)
        unspecified == ~new /\ old.type = type /\ <<"?">> \in {old.params, types}
        twice == ~new /\ definition /\ old.defined
    IN IF \/ q.i = 0
          \/ mismatch /\ ~unspecified
          \/ twice /\ old.first
          \/ definition /\ "unnamed" \in q.odd
         THEN Fail(p)
         ELSE LaxIf(p.ret # "none" /\ definition,
              LaxIf(p.ret # "none" /\ Innermost(p).code,
              LaxIf(twice, OddIf(mismatch, Noting(whole, "other"), "old style"), "defined again"),
                    "late declaration"), "function in a function")
FunctionParams(t, p, type, old, params) == FunctionWith(t, p, type, old, params.p, params.types)
Function(t, p) ==
    LET n == t[p.i + 1]
        type == TypeOf(p, At(t, p))
        old == Lookup(p, n)
        d == IF old.kind = "fun" THEN p
             ELSE OddIf(old.kind = "var", Declare(p, n, Entry("fun", p.i + 1, type)),
                        "hides a variable")
    IN FunctionParams(t, p, type, old, Params(t, Push(Leaf(Bare(Skip(d, 3)), p.i + 1), "params")))

Declaration(t, p) ==
    CASE At(t, p) = "typedef" ->
           LaxIf(p.ret # "none" /\ Innermost(p).code, Typedef(t, p), "late declaration")
      [] At(t, Skip(p, 1)) \notin Idents -> Fail(p)
      [] At(t, Skip(p, 2)) = "("        -> Function(t, p)
      [] OTHER                          -> Variable(t, p)
Declares(t, p) == At(t, p) = "typedef" \/ IsType(p, At(t, p))
-----------------------------------------------------------------------------
(* Statements.                                                             *)
RECURSIVE Statement(_, _)
Body(t, p) ==
    IF Declares(t, p)
      THEN Pop(Lax(Declaration(t, Push(p, "block")), "declaration as a body"))
      ELSE Statement(t, p)
Condition(t, p) ==
    LET q == Eat(t, Skip(p, 1), "(") IN
    Eat(t, IF At(t, q) = ")" THEN Lax(q, "no condition") ELSE Expr(t, q), ")")
Returned(t, p, q) ==
    IF p.ret = "none" \/ (p.ret = "void" /\ q.tree # << >>) THEN Fail(p) ELSE Eat(t, q, ";")
Three(t, p) ==
    OptExpr(t, Eat(t, OptExpr(t, Eat(t, OptExpr(t, p, ";"), ";"), ";"), ";"), ")")
\* An if from its condition's end c on, and from its first body's end b on.
Else(t, c, b) ==
    IF At(t, b) # "else" THEN b
    ELSE OddIf(At(t, c) = ";", Wrap(b, Body(t, Bare(Skip(b, 1))), b.i), "empty before else")
Then(t, c) == Else(t, c, Body(t, c))
Statement(t, p) ==
    LET k == p.i
        rest == Bare(Skip(p, 1))
    IN
    CASE At(t, p) = ";"      -> Skip(p, 1)
      [] At(t, p) = "{"      -> Wrap(p, Block(t, Bare(p), "block"), k)
      [] At(t, p) = "return" -> Wrap(p, Returned(t, p, OptExpr(t, rest, ";")), k)
      [] At(t, p) = "while"  -> Wrap(p, Body(t, Condition(t, Bare(p))), k)
      [] At(t, p) = "for"    -> Wrap(p, Body(t, Eat(t, Three(t, Eat(t, rest, "(")), ")")), k)
      [] At(t, p) = "if"     -> Wrap(p, Then(t, Condition(t, Bare(p))), k)
      [] OTHER               -> Wrap(p, Eat(t, Expr(t, Bare(p)), ";"), k)

RECURSIVE Items(_, _)
Items(t, p) ==
    IF At(t, p) \in {"}", "end"} THEN p
    ELSE Items(t, IF Declares(t, p) THEN Declaration(t, p) ELSE Noting(Statement(t, p), "code"))
Block(t, p, kind) == Pop(Eat(t, Items(t, Push(Skip(p, 1), kind)), "}"))

RECURSIVE File(_, _)
File(t, p) ==
    IF At(t, p) = "end" THEN p
    ELSE File(t, IF Declares(t, p) THEN Declaration(t, p)
                 ELSE Lax(Statement(t, p), "statement outside"))
Parse(t) ==
    File(t, Push([i |-> 1, tree |-> << >>, uses |-> {}, env |-> << >>, ret |-> "none",
                  lax |-> {}, odd |-> {}], "file"))
=============================================================================
