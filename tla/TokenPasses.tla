---------------------------- MODULE TokenPasses ----------------------------
(***************************************************************************)
(* The three passes of src/main.c over the token table between lexer and   *)
(* parser.  A token is its type; names, types and return are all of type   *)
(* TokenType_IDENT, and so are told apart here.  The lexer calls every + - * & binary and      *)
(* every ++ prefix.                                                        *)
(***************************************************************************)
EXTENDS Naturals, Sequences, SequencesExt

Names == {"id", "x", "fn", "T"}
Idents == Names \cup {"ty", "void", "return"}
Keywords == {"if", "else", "while", "for", "typedef"}
BinaryOps == {"+", "-", "*", "/", "=", ",", "[", "&", "||", "&&", "==", "<"}
UnaryOps == {"!", "ref", "deref", "pos", "neg", "++", "post++", "cast"}
Operators == BinaryOps \cup UnaryOps

\* MergeStrings_merge: a string literal joins the one before it.
MergeStrings(toks) ==
    LET kept == {k \in DOMAIN toks : k = 1 \/ toks[k] # "str" \/ toks[k - 1] # "str"}
    IN [n \in 1 .. Cardinality(kept) |->
          toks[CHOOSE k \in kept : Cardinality({j \in kept : j <= k}) = n]]

\* Is the ) at r the end of ( name * ... * ), which is taken for a cast?
Stars == {"*", "deref"}
IsTypecast(toks, r) ==
    \E n \in 0 .. r - 3 :
      /\ \A k \in r - n .. r - 1 : toks[k] \in Stars
      /\ toks[r - n - 1] \in Idents /\ toks[r - n - 2] = "("

Unary == [t \in {"+", "-", "*", "&"} |->
            CASE t = "+" -> "pos" [] t = "-" -> "neg" [] t = "*" -> "deref" [] t = "&" -> "ref"]

\* Mutant: every name in parentheses may be the left operand.
NoTypecasts(toks, k) ==
    toks[k - 1] \notin Idents \cup {"lit", ")"}
\* Does the operator at k stand where no left operand ends?
ShouldConvert(toks, k) ==
    /\ toks[k - 1] = ")" => IsTypecast(toks, k - 1)
    /\ toks[k - 1] \notin Idents \cup {"lit"}

BinToUnary(toks) ==
    [k \in DOMAIN toks |->
       IF toks[k] \in DOMAIN Unary /\ ShouldConvert(toks, k) THEN Unary[toks[k]] ELSE toks[k]]

PreToPostFix(toks) ==
    [k \in DOMAIN toks |->
       IF toks[k] = "++" /\ k > 1 /\ toks[k - 1] \in Idents \cup {"lit", ")"}
         THEN "post++" ELSE toks[k]]

Passes(toks) == PreToPostFix(BinToUnary(MergeStrings(toks)))
=============================================================================
