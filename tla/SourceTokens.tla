---------------------------- MODULE SourceTokens ----------------------------
(***************************************************************************)
(* What the compiler's two walks over the source text make of it, next to  *)
(* what C makes of it (CSource).                                           *)
(***************************************************************************)
EXTENDS Driver, CSource

\* No macro's replacement names another macro, or has a letter at an offset
\* that is also the position of a macro's use in the source.
Unmixed ==
    /\ \A m, n \in DOMAIN macros, j \in 1 .. Len(src) :
         /\ m # n /\ j <= Len(macros[m].text) => <<macros[m].text[j]>> # macros[n].name
    /\ \A m \in DOMAIN macros, k \in DOMAIN insts : ~Word(macros[m].text, insts[k].at)

\* Two walks over the source that agree on positions only, the preprocessor's
\* and the lexer's, give the parser the tokens that C gives it, and print
\* nothing and read nothing beyond a text's end, whenever the text is plain
\* (pre_proc.c process, lexer.c lex_str).  The parser's failures are its own.
SameTokens ==
    /\ stage = "lexed" => (Plain(src) /\ Unmixed => toks = CTokens(src) /\ told \cap {"pre", "lex"} = {})
    /\ ((status # "ok" /\ stage # "parse") \/ preErr \/ lexErr) => ~(Plain(src) /\ Unmixed)
=============================================================================
