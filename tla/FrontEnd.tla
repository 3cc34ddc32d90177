------------------------------ MODULE FrontEnd ------------------------------
(***************************************************************************)
(* PreProc_process (src/pre_proc.c) and Lexer_lex (src/lexer.c): the       *)
(* preprocessor walks over the source and notes the macros it defines and  *)
(* the positions of their uses (macro instances); the lexer walks over the *)
(* same source, finds the instances by position, and calls itself for the  *)
(* text of each.  One action is one turn of either loop.                   *)
(*                                                                         *)
(* Position Len(text) + 1 is the terminating zero of a text, and what lies *)
(* beyond must not be read.                                                *)
(***************************************************************************)
EXTENDS Texts

CONSTANT Sources    \* the texts that are compiled

ASSUME SourcesAssumption == Sources \subseteq Seq(STRING)

VARIABLES
  src,      \* the text of the source file
  stage,    \* "args", "pre", "lex", "lexed", "parse" or "done"
  pos,      \* src_i of process()
  onlyWs,   \* only_whitespace of process()
  macros,   \* the defined macros, in order
  insts,    \* the macro instances, in order
  frames,   \* the activations of lex_str, innermost last
  toks,     \* lexer.token_tbl: the texts of the tokens
  preErr,   \* PreProc_error_occurred
  lexErr,   \* Lexer_error_occurred
  told,     \* who has printed an error message
  status    \* "ok", or how the compiler has failed

preVars == <<pos, onlyWs, macros, insts, preErr>>
lexVars == <<frames, toks, lexErr>>
feVars == <<src, stage, preVars, lexVars, told, status>>
-----------------------------------------------------------------------------
FrontEndInit ==
    /\ src \in Sources
    /\ stage = "args" /\ pos = 1 /\ onlyWs = TRUE
    /\ macros = << >> /\ insts = << >>
    /\ frames = << >> /\ toks = << >>
    /\ preErr = FALSE /\ lexErr = FALSE /\ told = {} /\ status = "ok"

Fail(how) ==
    /\ status' = how
    /\ UNCHANGED <<src, stage, preVars, lexVars, told>>

(* The preprocessor.  Its loop includes the terminating zero.              *)
PreTurn == stage = "pre" /\ status = "ok" /\ pos <= Len(src) + 1
PreAt(c) == At(src, pos) = c
Opens(t, i, second) == At(t, i) = "/" /\ At(t, i + 1) = second
PreDirectiveHere == onlyWs /\ PreAt("#")
PreUnchanged == UNCHANGED <<src, stage, lexVars, status>>

PreNewline ==
    /\ PreTurn /\ PreAt("nl")
    /\ onlyWs' = TRUE /\ pos' = pos + 1
    /\ UNCHANGED <<macros, insts, preErr, told>> /\ PreUnchanged

\* The loop's increment steps over the newline, which PreNewline then never
\* sees.
PreLineCommentTwice == NewlineFrom(src, pos) + 2     \* mutant: steps twice
PreLineCommentEnd == NewlineFrom(src, pos) + 1
PreLineComment ==
    /\ PreTurn /\ Opens(src, pos, "/")
    /\ pos' = PreLineCommentEnd
    /\ UNCHANGED <<onlyWs, macros, insts, preErr, told>> /\ PreUnchanged

\* It stops at the closing asterisk; the slash after it is the next character.
PreBlockComment ==
    /\ PreTurn /\ Opens(src, pos, "*")
    /\ pos' = CommentEnd(src, pos) + 1
    /\ UNCHANGED <<onlyWs, macros, insts, preErr, told>> /\ PreUnchanged

\* read_preproc_directive with read_define_directive.  The caller steps over
\* the newline, and its loop over the character after it.
Keyword == SkipBlanks(src, pos + 1)
DirectiveEnded ==
    /\ pos' = NewlineFrom(src, Keyword) + 2
    /\ UNCHANGED <<onlyWs, insts>> /\ PreUnchanged

PreDefine ==
    LET name == SkipBlanks(src, WordEnd(src, Keyword))
        end == WordEnd(src, name)
    IN
    /\ PreTurn /\ PreDirectiveHere
    /\ SubSeq(src, Keyword, WordEnd(src, Keyword) - 1) = <<"define">>
    /\ NewlineFrom(src, Keyword) # NotFound(src)
    /\ IF Word(src, name)
         THEN /\ macros' = Append(macros, [name |-> SubSeq(src, name, end - 1),
                                           text |-> SubSeq(src, end, NewlineFrom(src, end) - 1)])
              /\ UNCHANGED <<preErr, told>>
         ELSE /\ preErr' = TRUE /\ told' = told \cup {"pre"}
              /\ macros' = macros
    /\ DirectiveEnded

PreOtherDirective ==
    /\ PreTurn /\ PreDirectiveHere
    /\ Word(src, Keyword)
    /\ SubSeq(src, Keyword, WordEnd(src, Keyword) - 1) # <<"define">>
    /\ NewlineFrom(src, Keyword) # NotFound(src)
    /\ UNCHANGED <<macros, preErr, told>>
    /\ DirectiveEnded

\* A directive on a last line without a newline is read past the end; one
\* without a name fails the assertion of get_identifier_len.
PreDirectiveFails ==
    /\ PreTurn /\ PreDirectiveHere
    /\ \/ NewlineFrom(src, Keyword) = NotFound(src) /\ Fail("overread")
       \/ NewlineFrom(src, Keyword) # NotFound(src) /\ ~Word(src, Keyword) /\ Fail("abort")

\* find_macro: the first macro of that name, or 0.
FindMacro(name) ==
    LET found == {k \in DOMAIN macros : macros[k].name = name}
    IN IF found = {} THEN 0 ELSE Min(found)

\* The identifier is not skipped: its tails are looked up in later turns.
PreIdent ==
    LET k == FindMacro(SubSeq(src, pos, WordEnd(src, pos) - 1)) IN
    /\ PreTurn /\ Word(src, pos)
    /\ k # 0 => macros[k].text # << >>
    /\ insts' = IF k = 0 THEN insts ELSE Append(insts, [at |-> pos, text |-> macros[k].text])
    /\ onlyWs' = FALSE /\ pos' = pos + 1
    /\ UNCHANGED <<macros, preErr, told>> /\ PreUnchanged

\* expand_macro copies the expansion of a macro that has none: a null pointer.
PreExpandNull ==
    LET k == FindMacro(SubSeq(src, pos, WordEnd(src, pos) - 1)) IN
    /\ PreTurn /\ Word(src, pos)
    /\ k # 0 /\ macros[k].text = << >>
    /\ Fail("crash")

PreOther ==
    /\ PreTurn
    /\ At(src, pos) \notin Letters \cup {"nl"} /\ ~PreDirectiveHere
    /\ ~Opens(src, pos, "/") /\ ~Opens(src, pos, "*")
    /\ onlyWs' = (onlyWs /\ PreAt("sp"))
    /\ pos' = pos + 1
    /\ UNCHANGED <<macros, insts, preErr, told>> /\ PreUnchanged

\* compile() goes on to the lexer, or not.
PreDone ==
    /\ stage = "pre" /\ status = "ok" /\ pos > Len(src) + 1
    /\ stage' = IF preErr THEN "done" ELSE "lex"
    /\ frames' = IF preErr THEN frames ELSE <<[text |-> src, pos |-> 1]>>
    /\ lexErr' = FALSE
    /\ UNCHANGED <<src, toks, preVars, told, status>>
-----------------------------------------------------------------------------
(* The lexer: a turn of the loop of the innermost lex_str.                 *)

Text == frames[Len(frames)].text
Here == frames[Len(frames)].pos
LexTurn(first) == stage = "lex" /\ status = "ok" /\ At(Text, Here) \in first
AtComment == Opens(Text, Here, "/") \/ Opens(Text, Here, "*")
AtDouble == <<At(Text, Here), At(Text, Here + 1)>> \in Doubles
AtEllipsis == \A k \in 0 .. 2 : At(Text, Here + k) = "."
NotLex == UNCHANGED <<src, stage, preVars>>
MoveTo(p) == frames' = [frames EXCEPT ![Len(frames)].pos = p]
Emit(token) == toks' = Append(toks, token)
LexError == lexErr' = TRUE /\ told' = told \cup {"lex"}

\* find_macro_instance looks the position up whatever the text is: in the
\* expansion of a macro, too, it finds the instances of the source.
\* The recursive call forgets errors that were found before.
InstancesHere == {k \in DOMAIN insts : Word(Text, Here) /\ insts[k].at = Here}
LexMacro ==
    /\ LexTurn(Letters) /\ InstancesHere # {}
    /\ frames' = Append([frames EXCEPT ![Len(frames)].pos = WordEnd(Text, Here)],
                        [text |-> insts[Min(InstancesHere)].text, pos |-> 1])
    /\ lexErr' = FALSE
    /\ NotLex /\ UNCHANGED <<toks, told, status>>

LexReturn ==
    /\ LexTurn({"eof"}) /\ Len(frames) > 1
    /\ frames' = Front(frames)
    /\ NotLex /\ UNCHANGED <<toks, lexErr, told, status>>

LexDone ==
    /\ LexTurn({"eof"}) /\ Len(frames) = 1
    /\ stage' = IF lexErr THEN "done" ELSE "lexed"
    /\ UNCHANGED <<src, preVars, lexVars, told, status>>

LexSpace ==
    /\ LexTurn(Space)
    /\ MoveTo(Here + 1)
    /\ NotLex /\ UNCHANGED <<toks, lexErr, told, status>>

\* A // comment or, anywhere on a line, a directive: while (src[++i] != '\n').
LexSkipStays == IF At(Text, Here) = "#" THEN Here ELSE NewlineFrom(Text, Here) + 1   \* mutant
LexSkipTo == NewlineFrom(Text, Here) + 1
LexSkipLine ==
    /\ LexTurn({"/", "#"})
    /\ Opens(Text, Here, "/") \/ At(Text, Here) = "#"
    /\ NewlineFrom(Text, Here) # NotFound(Text)
    /\ MoveTo(LexSkipTo)
    /\ NotLex /\ UNCHANGED <<toks, lexErr, told, status>>

LexCommentAtSlash == CommentEnd(Text, Here) + 1     \* mutant: leaves the slash
LexCommentTo == CommentEnd(Text, Here) + 2
LexBlockComment ==
    /\ LexTurn({"/"}) /\ Opens(Text, Here, "*")
    /\ CommentEnd(Text, Here) # NotFound(Text)
    /\ MoveTo(LexCommentTo)
    /\ NotLex /\ UNCHANGED <<toks, lexErr, told, status>>

LexPastEnd ==
    /\ LexTurn({"/", "#"})
    /\ \/ At(Text, Here) = "#" /\ NewlineFrom(Text, Here) = NotFound(Text)
       \/ Opens(Text, Here, "/") /\ NewlineFrom(Text, Here) = NotFound(Text)
       \/ Opens(Text, Here, "*") /\ CommentEnd(Text, Here) = NotFound(Text)
    /\ Fail("overread")

\* Two-character operators are tried before one-character ones.
LexOperator ==
    LET len == IF AtEllipsis THEN 3 ELSE IF AtDouble THEN 2 ELSE 1 IN
    /\ LexTurn(Singles \cup {"|", "."}) /\ ~AtComment
    /\ AtEllipsis \/ AtDouble \/ At(Text, Here) \in Singles
    /\ Emit(SubSeq(Text, Here, Here + len - 1))
    /\ MoveTo(Here + len)
    /\ NotLex /\ UNCHANGED <<lexErr, told, status>>

LexNumber ==
    /\ LexTurn(Digits)
    /\ Emit(SubSeq(Text, Here, NumberEnd(Text, Here) - 1))
    /\ MoveTo(NumberEnd(Text, Here))
    /\ NotLex /\ UNCHANGED <<lexErr, told, status>>

\* An identifier or a keyword.
LexWord ==
    /\ LexTurn(Letters) /\ InstancesHere = {}
    /\ Emit(SubSeq(Text, Here, WordEnd(Text, Here) - 1))
    /\ MoveTo(WordEnd(Text, Here))
    /\ NotLex /\ UNCHANGED <<lexErr, told, status>>

\* read_string.  A character after a backslash replaces the backslash, the
\* character after an escaped backslash included; a quote always ends the
\* string.
Unescaped(c) == IF c \in DOMAIN Escapes THEN Escapes[c] ELSE "zero"
StringEnd(t, i) == FirstFrom(t, i, Len(t) + 1, LAMBDA j : t[j] \in {"\"", "nl"})
StringText(t, from, to) ==
    FoldLeftDomain(LAMBDA text, k :
        LET c == t[from + k - 1] IN
        IF t[from + k - 2] = "\\" THEN Append(Front(text), Unescaped(c)) ELSE Append(text, c),
        << >>, SubSeq(t, from, to))
LexString ==
    LET end == StringEnd(Text, Here + 1)
        closed == At(Text, end) = "\""
        bad == \E j \in Here + 1 .. end - 1 :
                 Text[j - 1] = "\\" /\ Text[j] \notin DOMAIN Escapes
    IN
    /\ LexTurn({"\""})
    /\ Emit(<<"\"">> \o StringText(Text, Here + 1, end - 1))
    /\ MoveTo(IF closed THEN end + 1 ELSE end)
    /\ IF bad \/ ~closed THEN LexError ELSE UNCHANGED <<lexErr, told>>
    /\ NotLex /\ UNCHANGED status

\* read_single_quote_str; nothing looks at the closing quote.
LexQuote ==
    LET escaped == At(Text, Here + 1) = "\\"
        unclosed == At(Text, Here + 1) = "nl"
        end == IF escaped THEN Here + 3 ELSE IF unclosed THEN Here ELSE Here + 2
        c == IF escaped THEN Unescaped(At(Text, Here + 2)) ELSE At(Text, Here + 1)
    IN
    /\ LexTurn({"'"})
    /\ Emit(<<"'", IF unclosed THEN "zero" ELSE c>>)
    /\ MoveTo(end + 1)
    /\ IF unclosed \/ (escaped /\ At(Text, Here + 2) \notin DOMAIN Escapes)
         THEN LexError ELSE UNCHANGED <<lexErr, told>>
    /\ status' = IF end > Len(Text) THEN "overread" ELSE "ok"
    /\ NotLex

LexUnknown ==
    /\ stage = "lex" /\ status = "ok"
    /\ At(Text, Here) \notin Letters \cup Digits \cup Space \cup Singles \cup {"#", "\"", "'", "eof"}
    /\ ~AtDouble /\ ~AtEllipsis
    /\ MoveTo(Here + 1)
    /\ LexError
    /\ NotLex /\ UNCHANGED <<toks, status>>

PreProcess ==
    \/ PreNewline \/ PreLineComment \/ PreBlockComment
    \/ PreDefine \/ PreOtherDirective \/ PreDirectiveFails
    \/ PreIdent \/ PreExpandNull \/ PreOther \/ PreDone
LexStr ==
    \/ LexMacro \/ LexReturn \/ LexDone \/ LexSpace \/ LexSkipLine
    \/ LexBlockComment \/ LexPastEnd \/ LexOperator \/ LexNumber \/ LexWord
    \/ LexString \/ LexQuote \/ LexUnknown
=============================================================================
