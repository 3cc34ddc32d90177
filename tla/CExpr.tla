------------------------------- MODULE CExpr -------------------------------
(***************************************************************************)
(* Expressions of C, the reference for the tokenised input of              *)
(* SY_shunting_yard.  An expression is built from its parts by one         *)
(* operator per production of C's grammar, and is a record of              *)
(*   lex    the tokens the lexer makes of it;                              *)
(*   want   the tokens as the grammar reads them: one per string, unary    *)
(*          and postfix operators told from binary and prefix ones;        *)
(*   tree   its syntax tree in postfix order, every node given by the      *)
(*          place of its token in want;                                    *)
(*   rank   the production's level: 0 primary, 1 postfix, 2 unary, up to   *)
(*          15 for the comma;                                              *)
(*   lvl    how often what it is can be dereferenced, when id can be p     *)
(*          times, or NoLvl where C does not allow it.                     *)
(* Names that the compiler tells apart are four tokens: id a variable, fn  *)
(* a function, ty a type, return the keyword; lit and str are literals.    *)
(***************************************************************************)
EXTENDS TokenPasses, Integers

IdLvls == 0 .. 3
NoLvl == -1
\* What C makes of operands of these levels.
UnaryLvl(t, m) ==
    CASE m = NoLvl           -> NoLvl
      [] t = "neg" /\ m = 0  -> 0
      [] t = "deref" /\ m > 0 -> m - 1
      [] t = "++"            -> m
      [] t = "cast"          -> 1
      [] OTHER               -> NoLvl
BinaryLvl(t, m, n) ==
    CASE NoLvl \in {m, n}                       -> NoLvl
      [] t = "*" /\ m = 0 /\ n = 0              -> 0
      [] t = "-" /\ n = 0                       -> m
      [] t \in {"-", "<"} /\ m = n              -> 0
      [] t = "="  /\ m = n                      -> m
      [] t = "["  /\ m > 0 /\ n = 0             -> m - 1
      [] t = "["  /\ m = 0 /\ n > 0             -> n - 1
      [] t \in {"&&", "call"}                   -> 0
      [] t = ","                                -> n
      [] OTHER                                  -> NoLvl
Always(m) == [p \in IdLvls |-> m]
UnaryLvls(t, a) == [p \in IdLvls |-> UnaryLvl(t, a.lvl[p])]
BinaryLvls(t, a, b) == [p \in IdLvls |-> BinaryLvl(t, a.lvl[p], b.lvl[p])]

Shift(tree, k) == [n \in DOMAIN tree |-> tree[n] + k]

\* A token that is no node of its own yet; concatenation; a node on top.
Row(lex, want) == [lex |-> lex, want |-> want, tree |-> << >>, rank |-> 0, lvl |-> Always(NoLvl)]
Tok(t, w) == Row(<<t>>, <<w>>)
Join(a, b) == [Row(a.lex \o b.lex, a.want \o b.want) EXCEPT
                 !.tree = a.tree \o Shift(b.tree, Len(a.want))]
Node(text, at, rank, lvl) == [text EXCEPT !.tree = Append(@, at), !.rank = rank, !.lvl = lvl]

Id == Node(Tok("id", "id"), 1, 0, [p \in IdLvls |-> p])
Literal == Node(Tok("lit", "lit"), 1, 0, Always(0))
\* Adjacent string literals are one string.
Strings == Node(Row(<<"str", "str">>, <<"str">>), 1, 0, Always(1))

Paren(e) == [Join(Join(Tok("(", "("), e), Tok(")", ")")) EXCEPT !.lvl = e.lvl]
\* e where the grammar wants an expression of at most this rank.
AtMost(e, rank) == IF e.rank <= rank THEN e ELSE Paren(e)

Prefix(t, w, e) == Node(Join(Tok(t, w), AtMost(e, 2)), 1, 2, UnaryLvls(w, e))
Cast(e) ==
    LET type == <<"(", "ty", "*", ")">>
    IN Node(Join(Row(type, type), AtMost(e, 2)), 1, 2, UnaryLvls("cast", e))
Increment(e) ==
    LET operand == AtMost(e, 1)
    IN Node(Join(operand, Tok("++", "post++")), Len(operand.want) + 1, 1, UnaryLvls("++", e))
Index(a, b) ==
    LET array == AtMost(a, 1)
    IN Node(Join(Join(array, Tok("[", "[")), Join(b, Tok("]", "]"))),
            Len(array.want) + 1, 1, BinaryLvls("[", a, b))
\* A left-associative operator of this rank, and the assignment.
Binary(t, rank, a, b) ==
    LET lhs == AtMost(a, rank)
    IN Node(Join(Join(lhs, Tok(t, t)), AtMost(b, rank - 1)), Len(lhs.want) + 1, rank,
            BinaryLvls(t, a, b))
Assign(a, b) ==
    LET lhs == AtMost(a, 2)
    IN Node(Join(Join(lhs, Tok("=", "=")), AtMost(b, 14)), Len(lhs.want) + 1, 14,
            BinaryLvls("=", a, b))

\* A call with no, one or two arguments; an initialiser of two elements.
Open == Join(Tok("fn", "fn"), Tok("(", "("))
Call0 == Node(Join(Open, Tok(")", ")")), 1, 1, Always(0))
Call1(a) == Node(Join(Join(Open, AtMost(a, 14)), Tok(")", ")")), 1, 1, BinaryLvls("call", a, a))
Pair(a, b) == Join(Join(AtMost(a, 14), Tok(",", ",")), AtMost(b, 14))
Call2(a, b) == Node(Join(Join(Open, Pair(a, b)), Tok(")", ")")), 1, 1, BinaryLvls("call", a, b))
Initialiser(a, b) ==
    Node(Join(Join(Tok("{", "{"), Pair(a, b)), Tok("}", "}")), 1, 0, BinaryLvls(",", a, b))
-----------------------------------------------------------------------------
\* An expression in its place: the token before it, the token after it, and
\* the tokens at which the caller wants it to end.  A semicolon always does.
\* And a row of tokens that is no expression.  What is declared there: id, to
\* be dereferenced p times, and fn, which returns a number.
Source(lex, want, tree, stop, valid, typed, p) ==
    [lex |-> lex, want |-> want, tree |-> tree, stop |-> stop, valid |-> valid, typed |-> typed,
     declared |-> {"id", "fn"}, functions |-> {"fn"}, types |-> {"ty"},
     lvls |-> [name \in Idents |-> IF name = "id" THEN p ELSE 0]]
In(before, e, after, stop, p) ==
    LET text == Join(Join(Tok(before, before), e), Tok(after, after))
    IN Source(text.lex, text.want, text.tree, stop, TRUE, e.lvl[p] # NoLvl, p)
Broken(row) == Source(row, row, << >>, {}, FALSE, FALSE, 0)
=============================================================================
