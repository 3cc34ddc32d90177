------------------------------- MODULE CSource -------------------------------
(***************************************************************************)
(* What C makes of a source text: comments are white space, a line whose   *)
(* first token is # is a directive, and macros are replaced in what is     *)
(* left, their replacements rescanned.  The reference for FrontEnd; macros *)
(* with parameters and lines continued by a backslash are not in it.       *)
(***************************************************************************)
EXTENDS Texts

Bad == <<"bad">>        \* stands where C has no meaning for the text
EndOfLine == <<"nl">>

\* A string from after its opening quote: its characters, then what follows.
RECURSIVE CString(_, _, _), CScan(_, _)
CString(t, i, text) ==
    CASE At(t, i) = "\"" -> <<text>> \o CScan(t, i + 1)
      [] At(t, i) \in {"eof", "nl"} -> <<Bad>>
      [] At(t, i) = "\\" -> IF At(t, i + 1) \in DOMAIN Escapes
                              THEN CString(t, i + 2, Append(text, Escapes[t[i + 1]]))
                              ELSE <<Bad>>
      [] OTHER -> CString(t, i + 1, Append(text, t[i]))

CQuote(t, i) ==
    LET len == IF At(t, i) = "\\" THEN 2 ELSE 1 IN
    IF At(t, i + len) # "'" \/ At(t, i) \in {"'", "nl"}
         \/ (len = 2 /\ t[i + 1] \notin DOMAIN Escapes)
      THEN <<Bad>>
      ELSE <<<<"'", IF len = 2 THEN Escapes[t[i + 1]] ELSE t[i]>>>> \o CScan(t, i + len + 1)

\* The tokens of the text from i on, newlines included.
CScan(t, i) ==
    LET Take(next) == <<SubSeq(t, i, next - 1)>> \o CScan(t, next)
        c == At(t, i)
    IN
    CASE c = "eof" -> << >>
      [] c = "sp" -> CScan(t, i + 1)
      [] c = "/" /\ At(t, i + 1) = "/" -> CScan(t, NewlineFrom(t, i))
      [] c = "/" /\ At(t, i + 1) = "*" ->
           IF CommentEnd(t, i + 2) = NotFound(t) THEN <<Bad>>
           ELSE CScan(t, CommentEnd(t, i + 2) + 2)
      [] c = "\"" -> CString(t, i + 1, <<"\"">>)
      [] c = "'" -> CQuote(t, i + 1)
      [] c \in Letters -> Take(WordEnd(t, i))
      [] c \in Digits -> IF Word(t, NumberEnd(t, i)) THEN <<Bad>> ELSE Take(NumberEnd(t, i))
      [] <<c, At(t, i + 1)>> \in Doubles -> Take(i + 2)
      [] c = "." /\ At(t, i + 1) = "." /\ At(t, i + 2) = "." -> Take(i + 3)
      [] c \in Singles \cup {"#", "nl"} /\ <<c, At(t, i + 1)>> \notin Doubles
           /\ ~(c = "/" /\ At(t, i + 1) \in {"/", "*"}) -> Take(i + 1)
      [] OTHER -> <<Bad>>

\* The replacement of a token, its own name no longer replaced in it.
RECURSIVE Replace(_, _, _)
Replace(token, defs, hidden) ==
    IF token \in DOMAIN defs \ hidden
      THEN FlattenSeq([k \in DOMAIN defs[token] |->
                         Replace(defs[token][k], defs, hidden \cup {token})])
      ELSE <<token>>

IsWord(token) == Head(token) \in Letters
IsDefine(line) == Len(line) >= 3 /\ line[2] = <<"define">> /\ IsWord(line[3])
Body(line) == SubSeq(line, 4, Len(line))

\* The text's tokens after preprocessing.
RECURSIVE CLines(_, _)
CLines(tokens, defs) ==
    LET end == FirstFrom(tokens, 1, Len(tokens) + 1, LAMBDA j : tokens[j] = EndOfLine)
        line == SubSeq(tokens, 1, end - 1)
        rest == SubSeq(tokens, end + 1, Len(tokens))
    IN
    IF tokens = << >> THEN << >>
    ELSE IF line # << >> /\ Head(line) = <<"#">>
      THEN IF ~IsDefine(line) \/ (line[3] \in DOMAIN defs /\ defs[line[3]] # Body(line))
             THEN <<Bad>>
             ELSE CLines(rest, [name \in DOMAIN defs \cup {line[3]} |->
                                  IF name = line[3] THEN Body(line) ELSE defs[name]])
      ELSE FlattenSeq([k \in DOMAIN line |-> Replace(line[k], defs, {})]) \o CLines(rest, defs)

CTokens(t) == CLines(CScan(t, 1), [name \in {} |-> Bad])
CValid(t) == \A k \in DOMAIN CTokens(t) : CTokens(t)[k] \notin {Bad, <<"#">>}
-----------------------------------------------------------------------------
(* The texts whose macros and comments src/pre_proc.c and src/lexer.c read *)
(* as C does: each condition names one thing that they do not.             *)
LineStarts(t) == {1} \cup {j + 1 : j \in {k \in DOMAIN t : t[k] = "nl"}}
LineOf(t, i) == CHOOSE s \in LineStarts(t) : s <= i /\ "nl" \notin {t[j] : j \in s .. i - 1}
LineEnd(t, i) == FirstFrom(t, i, Len(t) + 1, LAMBDA j : t[j] = "nl")
OnLine(t, i) == {t[j] : j \in i .. LineEnd(t, i) - 1}
Openers(t, second) == {i \in DOMAIN t : t[i] = "/" /\ At(t, i + 1) = second}
Directives(t) == {s \in LineStarts(t) : At(t, SkipBlanks(t, s)) = "#"}

\* The last line, if no newline ends it, has no directive and no comment.
LastLineSafe(t) == \A i \in DOMAIN t :
    LineEnd(t, i) > Len(t) => t[i] # "#" /\ i \notin Openers(t, "/")
\* Nothing that matters is where the first character after a directive is.
NextLineSafe(t) == \A s \in Directives(t) :
    At(t, LineEnd(t, s) + 1) \notin Letters \cup {"#", "/"}
\* A directive has a replacement, and ends the comments that it begins.
BodiesSafe(t) == \A s \in Directives(t) :
    /\ Cardinality({j \in s .. LineEnd(t, s) - 1 : t[j] \notin Space}) > 3
    /\ \A i \in s .. LineEnd(t, s) - 1 :
         /\ i \notin Openers(t, "/")
         /\ i \in Openers(t, "*") => CommentEnd(t, i + 2) < LineEnd(t, s)
\* No comment is open and closed by one asterisk, is followed at once by what
\* makes another of its slash, or stands before a directive.
CommentsSafe(t) == \A i \in Openers(t, "*") :
    LET after == CommentEnd(t, i + 2) + 2 IN
    /\ At(t, i + 2) # "/"
    /\ At(t, after) \notin {"/", "*"} /\ At(t, SkipBlanks(t, after)) # "#"
\* After a line with a // comment after something else, no directive follows.
LineCommentsSafe(t) == \A i \in Openers(t, "/") :
    (\E j \in LineOf(t, i) .. i - 1 : t[j] # "sp")
      => \A j \in LineEnd(t, i) + 1 .. LineEnd(t, LineEnd(t, i) + 1) :
           At(t, j) # "#" /\ j \notin Openers(t, "/")
\* No comment opens after a quote on its line; no quote or backslash is escaped.
QuotesSafe(t) == \A q \in DOMAIN t :
    /\ t[q] \in {"\"", "'"} => \A i \in q .. LineEnd(t, q) - 1 :
                                 i \notin Openers(t, "/") \cup Openers(t, "*")
    /\ t[q] = "\\" => At(t, q + 1) \notin {"\"", "\\"}

Plain(t) ==
    /\ CValid(t)
    /\ LastLineSafe(t) /\ NextLineSafe(t) /\ BodiesSafe(t)
    /\ CommentsSafe(t) /\ LineCommentsSafe(t) /\ QuotesSafe(t)
==============================================================================
