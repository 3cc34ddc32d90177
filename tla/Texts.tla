-------------------------------- MODULE Texts --------------------------------
(***************************************************************************)
(* Source texts, as src/pre_proc.c and src/lexer.c look at them.  A text   *)
(* is a sequence of characters; a word that the code compares with strcmp  *)
(* or strncmp, such as define, is one letter here.                         *)
(***************************************************************************)
EXTENDS Naturals, SequencesExt, FiniteSetsExt

CONSTANTS
  Letters,   \* isalpha or _; the word "define" is one of them
  Digits,    \* isdigit
  Escapes    \* the letters of escape codes, a function to what they stand for

\* The terminating zero, a newline and a blank are no part of a word.
ASSUME TextsAssumption == {"eof", "nl", "sp"} \cap (Letters \cup Digits) = {}

Space == {"sp", "nl"}
Doubles == {<<"|", "|">>, <<"&", "&">>, <<"=", "=">>, <<"!", "=">>, <<"<", "=">>,
            <<">", "=">>, <<"+", "+">>, <<"-", "-">>}
Singles == {";", "+", "-", "*", "/", "%", "=", ",", "[", "]", "&", "<", ">", "~", "!",
            "(", ")", "{", "}", ":"}

At(t, i) == IF i <= Len(t) THEN t[i] ELSE "eof"
Word(t, i) == At(t, i) \in Letters
\* The first position from i on that satisfies P, or none + 1 if there is none.
FirstFrom(t, i, none, P(_)) ==
    LET found == {j \in i .. Len(t) : P(j)}
    IN IF found = {} THEN none ELSE Min(found)
NotFound(t) == Len(t) + 2
\* while (src[i] != '\n') ++i;
NewlineFrom(t, i) == FirstFrom(t, i, NotFound(t), LAMBDA j : t[j] = "nl")
\* The end of a comment: the position of its closing asterisk.
CommentEnd(t, i) ==
    FirstFrom(t, i, NotFound(t), LAMBDA j : t[j] = "*" /\ At(t, j + 1) = "/")
\* get_identifier_len: the position after the identifier (or number).
WordEnd(t, i) == FirstFrom(t, i, Len(t) + 1, LAMBDA j : t[j] \notin Letters \cup Digits)
NumberEnd(t, i) == FirstFrom(t, i, Len(t) + 1, LAMBDA j : t[j] \notin Digits)
SkipBlanks(t, i) == FirstFrom(t, i, Len(t) + 1, LAMBDA j : t[j] # "sp")
==============================================================================
