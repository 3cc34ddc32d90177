--------------------------- MODULE MCShuntingYard ---------------------------
(***************************************************************************)
(* Instances of ShuntingYard for TLC: expressions up to a depth, in every  *)
(* kind of place the parser reads one.                                     *)
(***************************************************************************)
EXTENDS ShuntingYard

C == INSTANCE CExpr

\* One left-associative operator of each level that matters, - and * because
\* they have a unary form.
Ranks == [t \in {"*", "-", "<", "&&", ","} |->
            CASE t = "*" -> 3 [] t = "-" -> 4 [] t = "<" -> 6 [] t = "&&" -> 11 [] t = "," -> 15]
BinaryOf(as, bs) ==
    {C!Binary(t, Ranks[t], a, b) : t \in DOMAIN Ranks, a \in as, b \in bs}
      \cup {C!Assign(a, b) : a \in as, b \in bs}
UnaryOf(as) ==
    {C!Prefix("-", "neg", a) : a \in as} \cup {C!Prefix("*", "deref", a) : a \in as}
      \cup {C!Prefix("++", "++", a) : a \in as} \cup {C!Cast(a) : a \in as}
      \cup {C!Increment(a) : a \in as} \cup {C!Paren(a) : a \in as}
      \cup {C!Call1(a) : a \in as}
PairsOf(as, bs) ==
    {C!Index(a, b) : a \in as, b \in bs} \cup {C!Call2(a, b) : a \in as, b \in bs}

Id == {C!Id}
Lit == {C!Literal}
Depth1 == Id \cup Lit \cup {C!Strings, C!Call0}
            \cup UnaryOf(Id) \cup BinaryOf(Id, Id) \cup PairsOf(Id, Id \cup Lit)
Depth2 == Depth1 \cup UnaryOf(Depth1) \cup BinaryOf(Depth1, Depth1)
            \cup PairsOf(Depth1, Depth1)
\* Chains of three binary operators, unary operators around two of them, and
\* two unary operators in a binary one, a subscript or a call.
Chains == LET b == BinaryOf(BinaryOf(Id, Id), Id) \cup BinaryOf(Id, BinaryOf(Id, Id))
              u == UnaryOf(UnaryOf(Id))
          IN BinaryOf(b, Id) \cup BinaryOf(Id, b) \cup UnaryOf(b)
               \cup BinaryOf(u, Id) \cup BinaryOf(Id, u) \cup PairsOf(u, Id)

\* id is read with the fewest levels of indirection that make it an expression
\* of C, so that a level too few aborts; with three, as many as an expression
\* here asks for, where none do.
Level(e) == Min({p \in C!IdLvls : e.lvl[p] # C!NoLvl} \cup {3})
Statement(e) == C!In(";", e, ";", {}, Level(e))
Condition(e) == C!In("(", e, ")", {")"}, Level(e))
Return(e) == C!In("return", e, ";", {";"}, Level(e))
\* Elements of an initialiser are constants.
Constants == Lit \cup BinaryOf(Lit, Lit) \cup
               UNION {{C!Prefix("-", "neg", a), C!Cast(a), C!Paren(a)} : a \in Lit}
Initialisers == {C!In("=", C!Initialiser(a, b), ";", {}, 0) : a, b \in Constants}

\* Rows of tokens that end in an assertion or read what is not there.
Broken == {C!Broken(<<";", "id", "/", "/", "id", ";">>),
           C!Broken(<<";", "(", "id", "+", ")", ";">>),
           C!Broken(<<";", "(", "-", ")", ";">>),
           C!Broken(<<";", "id", "]", ";">>),
           C!Broken(<<";", "id", "(", ")", ";">>),
           C!Broken(<<";", "x", "=", "x", "(", "lit", ")", ";">>),
           C!Broken(<<";", "fn", "(", "fn", "(", "(", "ty">>),
           C!Broken(<<"=", "{", "fn", "(", "(", "ty">>)}

MCSources == {Statement(e) : e \in Depth2 \cup Chains} \cup {Condition(e) : e \in Depth2}
               \cup {Return(e) : e \in Depth1} \cup Initialisers \cup Broken

\* A call that a semicolon ends.
UnclosedCall == {C!Broken(<<";", "fn", "(", "id", ";">>)}
=============================================================================
