------------------------------ MODULE MCParser ------------------------------
(***************************************************************************)
(* Instances of Parser for TLC: small C programs, and each of them with a  *)
(* token lost, repeated or moved.  Functions are called without arguments  *)
(* and their results are not void, since Expr_verify's check of types and  *)
(* arguments is left out of ShuntingYard.                                  *)
(***************************************************************************)
EXTENDS Parser

C == INSTANCE CProgram

\* Statements and the constructs around them.
Exprs == {<<"id">>, <<"id", "=", "(", "x", ")">>, <<"id", "=", "fn", "(", ")">>}
Simple == {e \o <<";">> : e \in Exprs} \cup {<<";">>, <<"return", "id", ";">>}
Braced(s) == <<"{">> \o s \o <<"}">>
If(s) == <<"if", "(", "id", ")">> \o s
Else(s) == <<"else">> \o s
While(s) == <<"while", "(", "id", ")">> \o s
For(s) == <<"for", "(", "id", "=", "lit", ";", "id", ";", "id", ")">> \o s
Bodies == {<<"id", ";">>, <<";">>, <<"{", "}">>, Braced(<<"ty", "id", ";", "x", ";">>)}
Compound ==
    {If(s) : s \in Bodies} \cup {While(s) : s \in Bodies} \cup {For(s) : s \in Bodies}
      \cup {If(s) \o Else(<<"x", ";">>) : s \in Bodies} \cup {If(<<"x", ";">>) \o Else(s) : s \in Bodies}
      \cup {Braced(s) : s \in Bodies}
      \cup {If(If(<<"id", ";">>) \o Else(<<"x", ";">>)),
            While(If(<<"id", ";">>) \o Else(<<"x", ";">>)),
            For(Braced(If(<<"id", ";">>) \o Else(Braced(<<"x", ";">>)))),
            Braced(Braced(<<"ty", "x", "=", "id", ";", "x", ";">>) \o <<"x", ";">>)}
Statements == Simple \cup Compound

Locals == {<<"ty", "id", ";">>, <<"ty", "id", "=", "x", ";">>, <<"typedef", "ty", "T", ";", "T", "id", ";">>}
Main(body) == <<"ty", "x", ";", "ty", "fn", "(", ")", "{">> \o body \o <<"}">>
Programs == {Main(<<"ty", "id", ";">> \o s) : s \in Statements}
              \cup {Main(d \o <<"id", ";">>) : d \in Locals}
Prototypes == {<< >>, <<"ty", "fn", "(", ")", ";">>, <<"typedef", "ty", "T", ";">>}
Parameters == {<< >>, <<"void">>, <<"ty", "x">>, <<"T", "id">>, <<"ty", "id", ",", "ty", "x">>}
Functions ==
    {<<"ty", "x", ";">> \o p \o <<"ty", "fn", "(">> \o ps \o <<")", "{", "return", "x", ";", "}">> :
       p \in Prototypes \cup {<<"ty", "fn", "(", "ty", "id", ")", ";">>}, ps \in Parameters}
      \cup {p \o f : p \in Prototypes,
             f \in {<<"ty", "id", "(", ")", "{", "fn", "(", ")", ";", "}">>,
                    <<"void", "id", "(", ")", "{", "return", ";", "}">>}}
\* What C lets be declared twice, shadowed or left out, and what it does not,
\* and texts that stop halfway.
Rest == {
    <<"ty", "id", ";", "ty", "id", ";">>,
    <<"ty", "T", ";", "typedef", "ty", "T", ";", "ty", "T", ";">>,
    <<"typedef", "ty", "T", ";", "typedef", "void", "T", ";", "T", "id", ";">>,
    <<"typedef", "void", "T", ";", "T", "id", "(", "T", ")", "{", "return", ";", "}">>,
    <<"typedef", "ty", "T", ";", "void", "fn", "(", "T", "T", ")", "{", "T", ";", "}">>,
    <<"ty", "fn", "(", "ty", "id", ")", "{", "ty", "id", ";", "id", ";", "}">>,
    <<"ty", "fn", "(", "ty", "id", ",", "ty", "id", ")", ";">>,
    <<"ty", "fn", "(", "ty", ")", ";", "ty", "fn", "(", "ty", "id", ")", "{", "}">>,
    <<"ty", "fn", "(", ")", ";", "ty", "fn", "(", ")", "{", "}", "ty", "fn", "(", ")", "{", "}">>,
    <<"ty", "fn", "(", ")", "{", "}", "ty", "fn", "(", ")", "{", "}">>,
    <<"ty", "id", ";", "ty", "fn", "(", ")", "{", "ty", "id", "(", ")", ";", "ty", "x", ";", "id", ";", "}">>,
    <<"ty", "fn", "(", ")", "{", "ty", "x", "(", ")", ";", "ty", "id", ";", "x", "(", ")", ";", "}">>,
    <<"ty", "fn", "(", ")", "{", "ty", "x", "(", ")", "{", "}", "}">>,
    <<"ty", "id", ";", "ty", "fn", "(", ")", "{", "ty", "id", "=", "id", ";", "}">>,
    <<"ty", "id", ";", "{", "typedef", "ty", "T", ";", "T", "id", ";", "id", ";", "}", "{", "id", ";", "}">>,
    <<"void", "fn", "(", "void", ")", "{", "return", "lit", ";", "}">>,
    <<"ty", "fn", "(", "void", ";", "ty", "fn", "(", "void", ")", ";", "fn", "(", ")", ";">>,
    <<"ty", "fn", "(", ")", "{", "id", ";", "ty", "id", ";", "}">>,
    <<"ty", "fn", "(", ")", "{", "if", "(", ")", ";", "while", "(", "lit", ")", "ty", "id", ";", "}">>,
    <<"ty", "fn", "(", ")", "{", "for", "(", ";", ";", ")", "{", "}", "for", "(", ";", ";", ")", ";", "}">>,
    <<"ty", "fn", "(", ")", "{", "if", "(", "lit", ")", ";", "else", ";", "}">>,
    <<"ty", "id", ";", "ty", "fn", "(", ")", "{", "ty", "id", "(", ")", ";", "}">>,
    <<"typedef", "ty", "T", ";", "ty", "fn", "(", ")", "{", "typedef", "void", "T", ";", "}">>,
    <<"ty", "fn", "(", ")", "{", "while", "(", "lit", ")", "ty", "id", ";", "}">>,
    <<"ty", "fn", "(", ")", "{", ";", "typedef", "ty", "T", ";", "}">>,
    <<"typedef", "ty", "T", ";", "ty", "T", ";">>,
    <<"ty", "id", "x", ";">>, <<"ty", "id", ",", "x">>, <<"return", "id", ";">>,
    <<"ty", "id", "=", "lit">>, <<"ty", "fn", "(", "ty">>, <<"ty", "fn", "(", "ty", "id">>,
    <<"ty", "fn", "(", "ty", "id", ",", ")", "{", "}">>, <<"typedef", "id", "T", ";">>,
    <<"typedef", "ty", ";">>, <<"if">>, <<"typedef">>, <<"{", "}">>, <<"typedef", "ty", "T">> }
Whole == Programs \cup Functions \cup Rest

\* A token is lost, repeated, or changes places with the next.
Without(t, k) == SubSeq(t, 1, k - 1) \o SubSeq(t, k + 1, Len(t))
Doubled(t, k) == SubSeq(t, 1, k) \o SubSeq(t, k, Len(t))
Swapped(t, k) == [t EXCEPT ![k] = t[k + 1], ![k + 1] = t[k]]
Edits(t) == {Without(t, k) : k \in DOMAIN t} \cup {Doubled(t, k) : k \in DOMAIN t}
              \cup {Swapped(t, k) : k \in 1 .. Len(t) - 1}
MCTexts == Whole \cup UNION {Edits(t) : t \in Whole}
MCPast == {"none", "}", ";"}
-----------------------------------------------------------------------------
Accepted == turn = "end" /\ status = "done" /\ ~Parser_error_occurred
Count(token, k) == Cardinality({j \in 1 .. k : toks[j] = token})

(* Tokens that mcc accepts and C does not, told by their shape.            *)
\* A } at file scope ends the program (parser.c:1120).
StrayCurly == \E k \in DOMAIN toks : Count("}", k) > Count("{", k)
\* The last } is that of the body of an if, a while or a for, and is taken for
\* that of the block around it as well (parser.c:1237).
CurlyTwice == Count("{", Size) > Count("}", Size) /\ toks[Size] = "}"
\* A } in the place of a body ends both the body and the block (parser.c:1120).
CurlyAsBody == \E k \in 2 .. Size : toks[k] = "}" /\ toks[k - 1] \in {")", "else"}
\* An else after an else is taken for the { of its body (parser.c:786).
ElseTwice == \E k \in 2 .. Size : toks[k - 1] = "else" /\ toks[k] = "else"
\* A ( that is not closed where the expression ends becomes a node of it
\* (shunting_yard.c:560).
ParenLeft == Count("(", Size) > Count(")", Size)
\* The yard takes an operator before or after both of its operands.
Misplaced ==
    \E k \in 2 .. Size - 1 :
      /\ toks[k] = "="
      /\ \/ toks[k - 1] \notin Names \cup {"lit", ")"}
         \/ toks[k + 1] \notin Names \cup {"lit", "("}
         \/ toks[k + 1] = "(" /\ Type(k + 2) = ")"
Granted == StrayCurly \/ CurlyTwice \/ CurlyAsBody \/ ElseTwice \/ ParenLeft \/ Misplaced

\* What is compiled is the program that was written: a text that parse() takes
\* without an error, other than the ones above, has C's syntax, the tree is the
\* one C's grammar gives it, and every name in an expression is bound to the
\* declaration that C's scopes give it, however the calls have pushed and
\* popped the lists meanwhile.  A table that is read past its end may be taken
\* to go on there.  Two of C's scopes mcc does not have: a variable that hides
\* a type, and a variable in its own initialiser, where it means the outer one.
SameProgram ==
    Accepted /\ ~Granted =>
      \E t \in {toks, Append(toks, src.past)} :
        LET p == C!Parse(t) IN
        \/ "hides a type" \in p.odd
        \/ p.i # 0 /\ ret.tree = p.tree /\ (uses = p.uses \/ "own initialiser" \in p.odd)

\* A program of C that has none of the constructs mcc has another idea of
\* (`odd') is parsed to its end without an error, an assertion that fails or a
\* null pointer.
AcceptsC ==
    Ended => LET p == C!Parse(toks) IN p.i # 0 /\ p.lax = {} /\ p.odd = {} => Accepted

\* parse() comes to an end on every text, an erroneous one too: every error
\* path skips forward.  Only the yard does not leave a call that a semicolon
\* cuts off, which run sy_unclosed shows.
CutOff(k) ==
    /\ toks[k] \in Names /\ toks[k + 1] = "("
    /\ k = 1 \/ toks[k - 1] \notin {"ty", "void", "T"}
    /\ \E s \in k .. Size :
         /\ toks[s] = ";"
         /\ \A e \in k + 1 .. s :
              Count("(", e) - Count("(", k) > Count(")", e) - Count(")", k)
Ends == (\E k \in 1 .. Size - 1 : CutOff(k)) \/ <>Ended
=============================================================================
