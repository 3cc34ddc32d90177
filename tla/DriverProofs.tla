---------------------------- MODULE DriverProofs ----------------------------
(***************************************************************************)
(* Theorems of Driver, for every source text, argument vector and set of   *)
(* letters: the two walks over the text stay within reach of its end, and  *)
(* the exit status says what became of the output file.                    *)
(***************************************************************************)
EXTENDS Driver, SequenceTheorems, WellFoundedInduction, TLAPS

-----------------------------------------------------------------------------
(* Looking for something in a text.                                        *)

\* The least-number principle.
LEMMA LeastNatural ==
    ASSUME NEW S \in SUBSET Nat, S # {}
    PROVE  Min(S) \in S /\ \A s \in S : Min(S) <= s
<1> DEFINE Less == {p \in Nat \X Nat : p[1] < p[2]}
<1>1. IsWellFoundedOn(Less, Nat)
  BY NatLessThanWellFounded DEF OpToRel
<1>2. PICK m \in S : \A s \in S : <<s, m>> \notin Less
  BY <1>1, WFMin
<1>3. ASSUME NEW s \in S PROVE m <= s
  <2>1. m \in Nat /\ s \in Nat
    OBVIOUS
  <2>2. ~(s < m)
    BY <1>2, <2>1
  <2>3. QED BY <2>1, <2>2
<1>4. QED
  BY <1>3 DEF Min

\* What FirstFrom finds: the first of the positions that qualify.
First(found, none) == IF found = {} THEN none ELSE Min(found)
\* f is the first of the positions found between i and n, or else none.
IsFirst(f, i, n, found, none) ==
    /\ f \in 1 .. n + 2
    /\ none = n + 1 => f \in 1 .. n + 1
    /\ f = none \/ f \in found
    /\ \A j \in found : f \in i .. j
LEMMA FirstFound ==
    ASSUME NEW i \in Nat \ {0}, NEW n \in Nat, NEW found, found \subseteq i .. n,
           NEW none, none \in {n + 1, n + 2}
    PROVE  IsFirst(First(found, none), i, n, found, none)
<1>1. CASE found = {}
  BY <1>1 DEF First, IsFirst
<1>2. CASE found # {}
  <2>1. found \in SUBSET Nat
    OBVIOUS
  <2>2. Min(found) \in found /\ \A s \in found : Min(found) <= s
    BY <1>2, <2>1, LeastNatural
  <2>3. First(found, none) = Min(found)
    BY <1>2 DEF First
  <2>4. PICK m \in found : m = Min(found)
    BY <2>2
  <2>5. m \in i .. n /\ \A s \in found : m <= s /\ s \in i .. n
    BY <2>2, <2>4
  <2>6. m \in 1 .. n + 2 /\ m \in 1 .. n + 1 /\ \A s \in found : m \in i .. s
    BY <2>5
  <2>7. QED
    BY <2>3, <2>4, <2>6 DEF IsFirst
<1>3. QED
  BY <1>1, <1>2

Text0 == Seq(STRING)

LEMMA AtInside ==
    ASSUME NEW t \in Text0, NEW i \in Nat \ {0}, At(t, i) # "eof"
    PROVE  i \in 1 .. Len(t) /\ At(t, i) = t[i]
BY DEF At, Text0

LEMMA WordInside ==
    ASSUME NEW t \in Text0, NEW i \in Nat \ {0}, Word(t, i)
    PROVE  i \in 1 .. Len(t) /\ t[i] \in Letters
BY AtInside, TextsAssumption DEF Word

LEMMA NewlineFound ==
    ASSUME NEW t \in Text0, NEW i \in Nat \ {0}
    PROVE  /\ NewlineFrom(t, i) # NotFound(t) =>
                NewlineFrom(t, i) \in i .. Len(t) /\ t[NewlineFrom(t, i)] = "nl"
           /\ NewlineFrom(t, i) \in 1 .. Len(t) + 2
           /\ \A j \in i .. Len(t) : t[j] = "nl" => NewlineFrom(t, i) \in i .. j
<1> DEFINE found == {j \in i .. Len(t) : t[j] = "nl"}
<1>1. NewlineFrom(t, i) = First(found, NotFound(t))
  BY DEF NewlineFrom, FirstFrom, First
<1>2. PICK n \in Nat : n = Len(t)
  BY DEF Text0
<1>3. found \subseteq i .. n /\ NotFound(t) = n + 2
  BY <1>2 DEF NotFound
<1>4. \A j \in i .. n : j \in found <=> t[j] = "nl"
  BY <1>2
<1> HIDE DEF found
<1>5. IsFirst(First(found, n + 2), i, n, found, n + 2)
  BY <1>3, FirstFound
<1>6. QED
  BY ONLY <1>1, <1>2, <1>3, <1>4, <1>5 DEF IsFirst

LEMMA CommentEndFound ==
    ASSUME NEW t \in Text0, NEW i \in Nat \ {0}
    PROVE  /\ CommentEnd(t, i) # NotFound(t) => CommentEnd(t, i) \in i .. Len(t)
           /\ CommentEnd(t, i) \in 1 .. Len(t) + 2
<1> DEFINE found == {j \in i .. Len(t) : t[j] = "*" /\ At(t, j + 1) = "/"}
<1>1. CommentEnd(t, i) = First(found, NotFound(t))
  BY DEF CommentEnd, FirstFrom, First
<1>2. PICK n \in Nat : n = Len(t)
  BY DEF Text0
<1>3. found \subseteq i .. n /\ NotFound(t) = n + 2
  BY <1>2 DEF NotFound
<1> HIDE DEF found
<1>5. IsFirst(First(found, n + 2), i, n, found, n + 2)
  BY <1>3, FirstFound
<1>6. QED
  BY ONLY <1>1, <1>2, <1>3, <1>5 DEF IsFirst

\* A word ends behind its first letter, and no later than its line.
LEMMA WordEndFound ==
    ASSUME NEW t \in Text0, NEW i \in Nat \ {0}
    PROVE  /\ WordEnd(t, i) \in 1 .. Len(t) + 1
           /\ Word(t, i) => WordEnd(t, i) > i
           /\ \A j \in i .. Len(t) : t[j] = "nl" => WordEnd(t, i) \in i .. j
<1> DEFINE found == {j \in i .. Len(t) : t[j] \notin Letters \cup Digits}
<1>1. WordEnd(t, i) = First(found, Len(t) + 1)
  BY DEF WordEnd, FirstFrom, First
<1>2. PICK n \in Nat : n = Len(t)
  BY DEF Text0
<1>3. found \subseteq i .. n
  BY <1>2
<1>4. \A j \in i .. n : t[j] = "nl" => j \in found
  BY <1>2, TextsAssumption
<1>5. Word(t, i) => i \in 1 .. n /\ i \notin found
  BY <1>2, WordInside
<1> HIDE DEF found
<1>6. IsFirst(First(found, n + 1), i, n, found, n + 1)
  BY <1>3, FirstFound
<1>7. Word(t, i) => First(found, n + 1) > i
  BY <1>3, <1>5, <1>6 DEF IsFirst
<1>8. QED
  BY ONLY <1>1, <1>2, <1>4, <1>6, <1>7 DEF IsFirst

LEMMA SkipBlanksFound ==
    ASSUME NEW t \in Text0, NEW i \in Nat \ {0}
    PROVE  /\ SkipBlanks(t, i) \in 1 .. Len(t) + 1
           /\ \A j \in i .. Len(t) : t[j] = "nl" => SkipBlanks(t, i) \in i .. j
<1> DEFINE found == {j \in i .. Len(t) : t[j] # "sp"}
<1>1. SkipBlanks(t, i) = First(found, Len(t) + 1)
  BY DEF SkipBlanks, FirstFrom, First
<1>2. PICK n \in Nat : n = Len(t)
  BY DEF Text0
<1>3. found \subseteq i .. n
  BY <1>2
<1>4. \A j \in i .. n : t[j] = "nl" => j \in found
  BY <1>2
<1> HIDE DEF found
<1>5. IsFirst(First(found, n + 1), i, n, found, n + 1)
  BY <1>3, FirstFound
<1>6. QED
  BY ONLY <1>1, <1>2, <1>4, <1>5 DEF IsFirst

LEMMA NumberEndFound ==
    ASSUME NEW t \in Text0, NEW i \in Nat \ {0}
    PROVE  NumberEnd(t, i) \in 1 .. Len(t) + 1
<1> DEFINE found == {j \in i .. Len(t) : t[j] \notin Digits}
<1>1. NumberEnd(t, i) = First(found, Len(t) + 1)
  BY DEF NumberEnd, FirstFrom, First
<1>2. PICK n \in Nat : n = Len(t)
  BY DEF Text0
<1>3. found \subseteq i .. n
  BY <1>2
<1> HIDE DEF found
<1>4. IsFirst(First(found, n + 1), i, n, found, n + 1)
  BY <1>3, FirstFound
<1>5. QED
  BY ONLY <1>1, <1>2, <1>4 DEF IsFirst

\* read_string stops at the closing quote, at the end of the line, or at the
\* end of the text.
LEMMA StringEndFound ==
    ASSUME NEW t \in Text0, NEW i \in Nat \ {0}
    PROVE  StringEnd(t, i) \in 1 .. Len(t) + 1
<1> DEFINE found == {j \in i .. Len(t) : t[j] \in {"\"", "nl"}}
<1>1. StringEnd(t, i) = First(found, Len(t) + 1)
  BY DEF StringEnd, FirstFrom, First
<1>2. PICK n \in Nat : n = Len(t)
  BY DEF Text0
<1>3. found \subseteq i .. n
  BY <1>2
<1> HIDE DEF found
<1>4. IsFirst(First(found, n + 1), i, n, found, n + 1)
  BY <1>3, FirstFound
<1>5. QED
  BY ONLY <1>1, <1>2, <1>4 DEF IsFirst

\* A part of a text.
LEMMA PartOfText ==
    ASSUME NEW t \in Text0, NEW m \in Nat \ {0}, NEW n \in Int, n <= Len(t)
    PROVE  /\ SubSeq(t, m, n) \in Text0
           /\ m <= n => SubSeq(t, m, n) # << >>
<1>1. \A i \in m .. n : t[i] \in STRING
  BY DEF Text0
<1>2. SubSeq(t, m, n) \in Seq(STRING) /\ Len(SubSeq(t, m, n)) = IF m <= n THEN n - m + 1 ELSE 0
  BY <1>1, SubSeqProperties
<1>3. QED
  BY <1>2 DEF Text0
-----------------------------------------------------------------------------
(* The inductive invariant: the types, and what the messages, the flags,   *)
(* the stage and the output file say of each other.                        *)

Macros == [name : Text0 \ {<< >>}, text : Text0]
Instances == [at : Nat \ {0}, text : Text0]
Activations == {f \in [text : Text0, pos : Nat \ {0}] : f.pos <= Len(f.text) + 3}

PreTypes ==
    /\ src \in Text0
    /\ pos \in 1 .. Len(src) + 3 /\ onlyWs \in BOOLEAN /\ preErr \in BOOLEAN
    /\ macros \in Seq(Macros)
    /\ insts \in Seq(Instances)
    /\ \A k \in DOMAIN insts : Word(src, insts[k].at)
LexTypes ==
    /\ frames \in Seq(Activations) /\ lexErr \in BOOLEAN
    /\ stage = "lex" => frames # << >>
OutTypes ==
    /\ stage \in {"args", "pre", "lex", "lexed", "parse", "done"}
    /\ told \subseteq {"args", "pre", "lex", "parse", "argument"}
    /\ status \in Statuses /\ parErr \in BOOLEAN
    /\ file \in {"old", "empty", "part", "asm"} /\ exit \in {"running", "killed", "0", "1"}

\* What has happened by each stage, ...
StageInv ==
    /\ stage = "args" => told = {} /\ exit = "running" /\ status = "ok"
    /\ stage \in {"args", "pre"} => "lex" \notin told
    /\ stage \in {"lex", "lexed"} => ~preErr
    /\ stage = "lexed" => ~lexErr
    /\ stage # "done" => exit \in {"running", "killed"} /\ file # "asm"
    /\ stage \notin {"parse", "done"} => ~parErr /\ "parse" \notin told
\* ... what a message means, ...
ToldInv ==
    /\ "pre" \in told => preErr
    /\ "lex" \in told => lexErr \/ insts # << >>
    /\ "parse" \in told => parErr
\* ... and what the output file and the exit status mean.
ExitInv ==
    /\ file = "asm" => ~ErrorOccurred
    /\ stage = "done" /\ exit = "running" /\ status = "ok" /\ ~ErrorOccurred => file = "asm"
    /\ exit = "0" => \/ args.src = NoPath /\ told \subseteq {"args"}
                     \/ ~ErrorOccurred /\ file = "asm"
    /\ exit = "1" => file # "asm"

DriverInv == PreTypes /\ LexTypes /\ OutTypes /\ StageInv /\ ToldInv /\ ExitInv

-----------------------------------------------------------------------------
(* The preprocessor's walk.                                                *)

\* find_macro gives one of the macros, or none.
LEMMA MacroFound ==
    ASSUME NEW name, macros \in Seq(Macros), FindMacro(name) # 0
    PROVE  FindMacro(name) \in DOMAIN macros
<1> DEFINE found == {k \in DOMAIN macros : macros[k].name = name}
<1>1. FindMacro(name) = Min(found) /\ found # {}
  BY DEF FindMacro
<1>2. found \in SUBSET Nat /\ found \subseteq DOMAIN macros
  OBVIOUS
<1> HIDE DEF found
<1>3. Min(found) \in found
  BY <1>1, <1>2, LeastNatural
<1>4. QED
  BY <1>1, <1>2, <1>3

\* A directive ends with its line: the position behind it is in reach.
LEMMA DirectiveInReach ==
    ASSUME PreTypes, NewlineFrom(src, Keyword) # NotFound(src)
    PROVE  /\ Keyword \in Nat \ {0}
           /\ NewlineFrom(src, Keyword) \in Keyword .. Len(src)
           /\ src[NewlineFrom(src, Keyword)] = "nl"
<1>1. src \in Text0 /\ pos + 1 \in Nat \ {0}
  BY DEF PreTypes, Text0
<1>2. Keyword \in Nat \ {0}
  BY <1>1, SkipBlanksFound DEF Keyword, Text0
<1>3. QED
  BY <1>1, <1>2, NewlineFound

\* A #define reads a name and a text within its line.
LEMMA DefineInLine ==
    ASSUME PreTypes, NewlineFrom(src, Keyword) # NotFound(src),
           NEW name, name = SkipBlanks(src, WordEnd(src, Keyword)), Word(src, name),
           NEW end, end = WordEnd(src, name)
    PROVE  [name |-> SubSeq(src, name, end - 1),
            text |-> SubSeq(src, end, NewlineFrom(src, end) - 1)] \in Macros
<1>1. src \in Text0
  BY DEF PreTypes
<1>2. PICK n \in Nat : n = Len(src)
  BY <1>1 DEF Text0
<1>3. PICK key \in Nat \ {0}, nl \in Nat : key = Keyword /\ nl \in key .. n /\ src[nl] = "nl"
  BY <1>2, DirectiveInReach
<1>4. PICK over \in key .. nl : over = WordEnd(src, key)
  BY <1>1, <1>2, <1>3, WordEndFound
<1>5. over \in Nat \ {0} /\ nl \in over .. n
  BY <1>3, <1>4
<1>6. name \in over .. nl
  BY <1>1, <1>2, <1>3, <1>4, <1>5, SkipBlanksFound
<1>7. name \in Nat \ {0} /\ nl \in name .. n
  BY <1>5, <1>6
<1>8. end \in name .. nl /\ end > name
  BY <1>1, <1>2, <1>3, <1>7, WordEndFound
<1>9. end \in Nat \ {0} /\ nl \in end .. n
  BY <1>7, <1>8
<1>10. NewlineFrom(src, end) \in end .. nl
  BY <1>1, <1>2, <1>3, <1>9, NewlineFound
<1>11. SubSeq(src, name, end - 1) \in Text0 \ {<< >>}
  <2>1. end - 1 \in Int /\ end - 1 <= Len(src) /\ name <= end - 1
    BY <1>2, <1>7, <1>8
  <2>2. QED
    BY <1>1, <1>7, <2>1, PartOfText
<1>12. SubSeq(src, end, NewlineFrom(src, end) - 1) \in Text0
  <2>1. NewlineFrom(src, end) - 1 \in Int /\ NewlineFrom(src, end) - 1 <= Len(src)
    BY <1>2, <1>9, <1>10
  <2>2. QED
    BY <1>1, <1>9, <2>1, PartOfText
<1>13. QED
  BY <1>11, <1>12 DEF Macros

\* A turn that moves pos and leaves the macros and their instances alone.
LEMMA PreMoves ==
    ASSUME PreTypes, src' = src, macros' = macros, insts' = insts,
           onlyWs' \in BOOLEAN, preErr' \in BOOLEAN, pos' \in 1 .. Len(src) + 3
    PROVE  PreTypes'
BY DEF PreTypes

LEMMA PreStep ==
    ASSUME PreTypes, PreProcess
    PROVE  PreTypes'
<1>1. src \in Text0 /\ pos \in Nat \ {0}
  BY DEF PreTypes, Text0
<1>2. PICK n \in Nat : n = Len(src)
  BY <1>1 DEF Text0
<1>3. onlyWs \in BOOLEAN /\ preErr \in BOOLEAN
  BY DEF PreTypes
<1>4. PreTurn => pos + 1 \in 1 .. n + 3
  BY <1>1, <1>2 DEF PreTurn
<1>5. CASE PreNewline
  BY <1>2, <1>3, <1>4, <1>5, PreMoves DEF PreNewline, PreUnchanged
<1>6. CASE PreLineComment
  <2>1. PreLineCommentEnd \in 1 .. n + 3
    <3>1. PICK e \in 1 .. n + 2 : e = NewlineFrom(src, pos)
      BY <1>1, <1>2, NewlineFound
    <3>2. QED
      BY <3>1 DEF PreLineCommentEnd
  <2>2. QED
    BY <1>2, <1>3, <1>6, <2>1, PreMoves DEF PreLineComment, PreUnchanged
<1>7. CASE PreBlockComment
  <2>1. CommentEnd(src, pos) + 1 \in 1 .. n + 3
    <3>1. PICK e \in 1 .. n + 2 : e = CommentEnd(src, pos)
      BY <1>1, <1>2, CommentEndFound
    <3>2. QED
      BY <1>2, <3>1
  <2>2. QED
    BY <1>2, <1>3, <1>7, <2>1, PreMoves DEF PreBlockComment, PreUnchanged
<1>8. ASSUME DirectiveEnded, NewlineFrom(src, Keyword) # NotFound(src)
      PROVE  pos' \in 1 .. n + 3 /\ onlyWs' = onlyWs /\ insts' = insts /\ src' = src
  <2>1. NewlineFrom(src, Keyword) + 2 \in 1 .. n + 3
    BY <1>2, <1>8, DirectiveInReach
  <2>2. QED
    BY <1>8, <2>1 DEF DirectiveEnded, PreUnchanged
<1>9. CASE PreDefine
  <2> DEFINE name == SkipBlanks(src, WordEnd(src, Keyword))
             end == WordEnd(src, name)
             macro == [name |-> SubSeq(src, name, end - 1),
                       text |-> SubSeq(src, end, NewlineFrom(src, end) - 1)]
  <2>1. /\ NewlineFrom(src, Keyword) # NotFound(src)
        /\ DirectiveEnded
        /\ \/ Word(src, name) /\ macros' = Append(macros, macro) /\ preErr' = preErr
           \/ macros' = macros /\ preErr' = TRUE
    BY <1>9 DEF PreDefine
  <2>2. pos' \in 1 .. n + 3 /\ onlyWs' = onlyWs /\ insts' = insts /\ src' = src
    BY <1>8, <2>1
  <2>3. Word(src, name) => macro \in Macros
    BY <2>1, DefineInLine
  <2> HIDE DEF macro, name
  <2>4. macros' \in Seq(Macros) /\ preErr' \in BOOLEAN
    <3>1. macros \in Seq(Macros)
      BY DEF PreTypes
    <3>2. macro \in Macros => Append(macros, macro) \in Seq(Macros)
      BY <3>1, AppendProperties
    <3>3. QED
      BY ONLY <1>3, <2>1, <2>3, <3>1, <3>2
  <2>5. QED
    BY <1>2, <1>3, <2>2, <2>4 DEF PreTypes
<1>10. CASE PreOtherDirective
  BY <1>2, <1>3, <1>8, <1>10, PreMoves DEF PreOtherDirective
<1>11. CASE PreDirectiveFails \/ PreExpandNull
  BY <1>11 DEF PreDirectiveFails, PreExpandNull, Fail, preVars, PreTypes
<1>12. CASE PreIdent
  <2> DEFINE k == FindMacro(SubSeq(src, pos, WordEnd(src, pos) - 1))
             inst == [at |-> pos, text |-> macros[k].text]
  <2>1. /\ PreTurn /\ Word(src, pos)
        /\ insts' = IF k = 0 THEN insts ELSE Append(insts, inst)
        /\ onlyWs' = FALSE /\ pos' = pos + 1
        /\ macros' = macros /\ preErr' = preErr /\ src' = src
    BY <1>12 DEF PreIdent, PreUnchanged
  <2>2. k # 0 => inst \in Instances
    <3>1. macros \in Seq(Macros)
      BY DEF PreTypes
    <3>2. k # 0 => k \in DOMAIN macros
      BY <3>1, MacroFound
    <3> HIDE DEF k
    <3>3. k # 0 => macros[k] \in Macros
      BY <3>1, <3>2
    <3>4. QED
      BY <1>1, <3>3 DEF Macros, Instances
  <2>3. inst.at = pos
    OBVIOUS
  <2> HIDE DEF k, inst
  <2>4. insts \in Seq(Instances) /\ \A j \in DOMAIN insts : Word(src, insts[j].at)
    BY DEF PreTypes
  <2>5. insts' \in Seq(Instances) /\ \A j \in DOMAIN insts' : Word(src, insts'[j].at)
    <3>1. CASE k = 0
      BY <2>1, <2>4, <3>1
    <3>2. CASE k # 0
      <4>1. insts' = Append(insts, inst) /\ insts' \in Seq(Instances)
        BY <2>1, <2>2, <2>4, <3>2, AppendProperties
      <4>2. \A j \in DOMAIN insts' : (j \in DOMAIN insts /\ insts'[j] = insts[j]) \/ insts'[j] = inst
        BY <2>2, <2>4, <3>2, <4>1
      <4>3. QED
        BY <2>1, <2>3, <2>4, <4>1, <4>2
    <3>3. QED
      BY <3>1, <3>2
  <2>6. QED
    BY <1>1, <1>2, <1>3, <1>4, <2>1, <2>5 DEF PreTypes
<1>13. CASE PreOther
  <2>1. /\ PreTurn /\ pos' = pos + 1 /\ onlyWs' \in BOOLEAN
        /\ macros' = macros /\ insts' = insts /\ preErr' = preErr /\ src' = src
    BY <1>13 DEF PreOther, PreUnchanged
  <2>2. QED
    BY <1>2, <1>3, <1>4, <2>1, PreMoves
<1>14. CASE PreDone
  BY <1>14 DEF PreDone, preVars, PreTypes
<1>15. QED
  BY <1>5, <1>6, <1>7, <1>9, <1>10, <1>11, <1>12, <1>13, <1>14 DEF PreProcess

-----------------------------------------------------------------------------
(* The lexer's walk.                                                       *)

\* The innermost activation's text and position.
LEMMA Innermost ==
    ASSUME LexTypes, frames # << >>
    PROVE  /\ Len(frames) \in DOMAIN frames
           /\ Text \in Text0 /\ Here \in Nat \ {0}
           /\ At(Text, Here) # "eof" => Here \in 1 .. Len(Text)
<1>1. Len(frames) \in DOMAIN frames /\ frames[Len(frames)] \in Activations
  BY DEF LexTypes
<1>2. Text \in Text0 /\ Here \in Nat \ {0}
  BY <1>1 DEF Text, Here, Activations
<1>3. QED
  BY <1>1, <1>2, AtInside

\* An activation moves within its text's reach.
LEMMA ActivationMoves ==
    ASSUME LexTypes, frames # << >>, NEW p \in 1 .. Len(Text) + 3
    PROVE  LET moved == [frames EXCEPT ![Len(frames)].pos = p] IN
           moved \in Seq(Activations) /\ moved # << >>
<1> DEFINE f == frames[Len(frames)]
           moved == [frames EXCEPT ![Len(frames)].pos = p]
<1>1. frames \in Seq(Activations) /\ Len(frames) \in DOMAIN frames
  BY DEF LexTypes
<1>2. f \in Activations /\ f.text = Text
  BY <1>1 DEF Text
<1>3. [f EXCEPT !.pos = p] \in Activations
  <2>1. Len(Text) \in Nat
    BY <1>2 DEF Activations, Text0
  <2>2. p \in Nat \ {0} /\ p <= Len(f.text) + 3
    BY <1>2, <2>1
  <2>3. f \in [text : Text0, pos : Nat \ {0}]
    BY <1>2 DEF Activations
  <2> HIDE DEF f
  <2>4. QED
    BY <2>2, <2>3 DEF Activations
<1>4. moved = [frames EXCEPT ![Len(frames)] = [f EXCEPT !.pos = p]]
  OBVIOUS
<1> HIDE DEF f, moved
<1>5. moved \in Seq(Activations) /\ Len(moved) = Len(frames)
  BY <1>1, <1>3, <1>4, ExceptSeq
<1>6. QED
  BY <1>1, <1>5 DEF moved

LEMMA LexMoves ==
    ASSUME LexTypes, stage = "lex", stage' = stage, NEW p, p \in 1 .. Len(Text) + 3, MoveTo(p),
           lexErr' \in BOOLEAN
    PROVE  LexTypes'
BY ActivationMoves DEF LexTypes, MoveTo

LEMMA LexStep ==
    ASSUME PreTypes, LexTypes, LexStr
    PROVE  LexTypes'
<1>1. lexErr \in BOOLEAN /\ frames \in Seq(Activations)
  BY DEF LexTypes
<1>2. stage = "lex"
  BY DEF LexStr, LexMacro, LexReturn, LexDone, LexSpace, LexSkipLine, LexBlockComment,
         LexPastEnd, LexOperator, LexNumber, LexWord, LexString, LexQuote, LexUnknown, LexTurn
<1>3. frames # << >>
  BY <1>2 DEF LexTypes
<1>4. Text \in Text0 /\ Here \in Nat \ {0} /\ Len(frames) \in DOMAIN frames
  BY <1>3, Innermost
<1>5. PICK n \in Nat : n = Len(Text)
  BY <1>4 DEF Text0
<1>6. ASSUME At(Text, Here) # "eof" PROVE Here \in 1 .. n
  BY <1>3, <1>5, <1>6, Innermost
<1>7. CASE LexMacro
  <2> DEFINE p == WordEnd(Text, Here)
             moved == [frames EXCEPT ![Len(frames)].pos = p]
             inst == insts[Min(InstancesHere)]
             call == [text |-> inst.text, pos |-> 1]
  <2>1. frames' = Append(moved, call) /\ lexErr' = FALSE /\ stage' = stage /\ InstancesHere # {}
    BY <1>7 DEF LexMacro, NotLex
  <2>2. p \in 1 .. Len(Text) + 3
    <3>1. PICK e \in 1 .. n + 1 : e = WordEnd(Text, Here)
      BY <1>4, <1>5, WordEndFound
    <3>2. QED
      BY <1>5, <3>1
  <2>3. moved \in Seq(Activations)
    BY <1>3, <2>2, ActivationMoves
  <2>4. inst \in Instances
    <3>1. insts \in Seq(Instances)
      BY DEF PreTypes
    <3>2. InstancesHere \in SUBSET Nat /\ InstancesHere \subseteq DOMAIN insts
      BY <3>1 DEF InstancesHere
    <3>3. Min(InstancesHere) \in DOMAIN insts
      BY <2>1, <3>2, LeastNatural
    <3>4. QED
      BY <3>1, <3>3
  <2>5. call \in Activations
    BY <2>4 DEF Instances, Activations, Text0
  <2> HIDE DEF moved, call
  <2>6. Append(moved, call) \in Seq(Activations) /\ Append(moved, call) # << >>
    BY <2>3, <2>5, AppendProperties
  <2>7. QED
    BY <2>1, <2>6 DEF LexTypes
<1>8. CASE LexReturn
  <2>1. frames' = SubSeq(frames, 1, Len(frames) - 1) /\ Len(frames) > 1
        /\ lexErr' = lexErr /\ stage' = stage
    BY <1>8 DEF LexReturn, Front, NotLex
  <2>2. \A i \in 1 .. Len(frames) - 1 : frames[i] \in Activations
    BY <1>1
  <2>3. frames' \in Seq(Activations) /\ Len(frames') = Len(frames) - 1
    BY <1>1, <2>1, <2>2, SubSeqProperties
  <2>4. frames' # << >>
    <3>1. Len(frames') # 0
      BY <1>1, <2>1, <2>3
    <3>2. QED
      BY ONLY <3>1
  <2>5. QED
    BY <1>1, <2>1, <2>3, <2>4 DEF LexTypes
<1>9. CASE LexDone \/ LexPastEnd
  BY <1>1, <1>3, <1>9 DEF LexDone, LexPastEnd, LexTurn, Fail, lexVars, LexTypes
<1>10. CASE LexSpace
  <2>1. At(Text, Here) # "eof" /\ MoveTo(Here + 1) /\ lexErr' = lexErr /\ stage' = stage
    BY <1>10 DEF LexSpace, LexTurn, Space, NotLex
  <2>2. Here + 1 \in 1 .. Len(Text) + 3
    BY <1>5, <1>6, <2>1
  <2>3. QED
    BY <1>1, <1>2, <2>1, <2>2, LexMoves
<1>11. CASE LexSkipLine
  <2>1. /\ NewlineFrom(Text, Here) # NotFound(Text) /\ MoveTo(NewlineFrom(Text, Here) + 1)
        /\ lexErr' = lexErr /\ stage' = stage
    BY <1>11 DEF LexSkipLine, LexSkipTo, NotLex
  <2>2. NewlineFrom(Text, Here) + 1 \in 1 .. n + 3
    <3>1. NewlineFrom(Text, Here) \in 1 .. n + 2
      BY <1>4, <1>5, NewlineFound
    <3>2. QED
      BY <3>1
  <2>3. QED
    BY <1>1, <1>2, <1>5, <2>1, <2>2, LexMoves
<1>12. CASE LexBlockComment
  <2>1. /\ CommentEnd(Text, Here) # NotFound(Text) /\ MoveTo(CommentEnd(Text, Here) + 2)
        /\ lexErr' = lexErr /\ stage' = stage
    BY <1>12 DEF LexBlockComment, LexCommentTo, NotLex
  <2>2. CommentEnd(Text, Here) + 2 \in 1 .. n + 3
    <3>1. CommentEnd(Text, Here) \in Here .. n
      BY <1>4, <1>5, <2>1, CommentEndFound
    <3>2. QED
      BY <1>4, <3>1
  <2>3. QED
    BY <1>1, <1>2, <1>5, <2>1, <2>2, LexMoves
<1>13. CASE LexOperator
  <2>1. PICK len \in {1, 2, 3} : /\ MoveTo(Here + len) /\ At(Text, Here) \in Singles \cup {"|", "."}
                                 /\ lexErr' = lexErr /\ stage' = stage
    BY <1>13 DEF LexOperator, LexTurn, NotLex
  <2>2. At(Text, Here) # "eof"
    BY <2>1 DEF Singles
  <2>3. Here + len \in 1 .. Len(Text) + 3
    BY <1>5, <1>6, <2>2
  <2>4. QED
    BY <1>1, <1>2, <2>1, <2>3, LexMoves
<1>14. CASE LexNumber
  <2>1. MoveTo(NumberEnd(Text, Here)) /\ lexErr' = lexErr /\ stage' = stage
    BY <1>14 DEF LexNumber, NotLex
  <2>2. NumberEnd(Text, Here) \in 1 .. Len(Text) + 3
    <3>1. PICK e \in 1 .. n + 1 : e = NumberEnd(Text, Here)
      BY <1>4, <1>5, NumberEndFound
    <3>2. QED
      BY <1>5, <3>1
  <2>3. QED
    BY <1>1, <1>2, <2>1, <2>2, LexMoves
<1>15. CASE LexWord
  <2>1. MoveTo(WordEnd(Text, Here)) /\ lexErr' = lexErr /\ stage' = stage
    BY <1>15 DEF LexWord, NotLex
  <2>2. WordEnd(Text, Here) \in 1 .. Len(Text) + 3
    <3>1. PICK e \in 1 .. n + 1 : e = WordEnd(Text, Here)
      BY <1>4, <1>5, WordEndFound
    <3>2. QED
      BY <1>5, <3>1
  <2>3. QED
    BY <1>1, <1>2, <2>1, <2>2, LexMoves
<1>16. CASE LexString
  <2> DEFINE end == StringEnd(Text, Here + 1)
  <2>1. /\ \E p \in {end, end + 1} : MoveTo(p)
        /\ lexErr' \in BOOLEAN /\ stage' = stage
    BY <1>1, <1>16 DEF LexString, LexError, NotLex
  <2>2. end \in 1 .. n + 1
    <3>1. Here + 1 \in Nat \ {0}
      BY <1>4
    <3>2. QED
      BY <1>4, <1>5, <3>1, StringEndFound
  <2> HIDE DEF end
  <2>3. \A p \in {end, end + 1} : p \in 1 .. Len(Text) + 3
    BY <1>5, <2>2
  <2>4. QED
    BY <1>2, <2>1, <2>3, LexMoves
<1>17. CASE LexQuote
  <2>1. PICK len \in {1, 3, 4} : /\ MoveTo(Here + len) /\ At(Text, Here) = "'"
                                 /\ lexErr' \in BOOLEAN /\ stage' = stage
                                 /\ len = 4 => At(Text, Here + 1) = "\\"
    <3> DEFINE escaped == At(Text, Here + 1) = "\\"
               unclosed == At(Text, Here + 1) = "nl"
               end == IF escaped THEN Here + 3 ELSE IF unclosed THEN Here ELSE Here + 2
    <3>1. /\ MoveTo(end + 1) /\ At(Text, Here) = "'" /\ lexErr' \in BOOLEAN /\ stage' = stage
      BY <1>1, <1>17 DEF LexQuote, LexTurn, LexError, NotLex
    <3>2. \E len \in {1, 3, 4} : end + 1 = Here + len /\ (len = 4 => escaped)
      BY <1>4
    <3> HIDE DEF end
    <3>3. QED
      BY <3>1, <3>2
  <2>2. Here \in 1 .. n
    BY <1>6, <2>1
  <2>3. len = 4 => Here + 1 \in 1 .. n
    <3>1. Here + 1 \in Nat \ {0}
      BY <1>4
    <3>2. QED
      BY <1>4, <1>5, <2>1, <3>1, AtInside
  <2>4. Here + len \in 1 .. Len(Text) + 3
    BY <1>5, <2>2, <2>3
  <2>5. QED
    BY <1>2, <2>1, <2>4, LexMoves
<1>18. CASE LexUnknown
  <2>1. At(Text, Here) # "eof" /\ MoveTo(Here + 1) /\ lexErr' = TRUE /\ stage' = stage
    BY <1>18 DEF LexUnknown, LexError, NotLex
  <2>2. Here + 1 \in 1 .. Len(Text) + 3
    BY <1>5, <1>6, <2>1
  <2>3. QED
    BY <1>2, <2>1, <2>2, LexMoves
<1>19. QED
  BY <1>7, <1>8, <1>9, <1>10, <1>11, <1>12, <1>13, <1>14, <1>15, <1>16, <1>17, <1>18 DEF LexStr

-----------------------------------------------------------------------------
(* Every step keeps the invariant.                                         *)

FlowInv == OutTypes /\ StageInv /\ ToldInv /\ ExitInv

\* What a turn of the preprocessor may do to what the driver sees.
LEMMA PreEffect ==
    ASSUME PreProcess
    PROVE  /\ stage = "pre" /\ status = "ok" /\ status' \in Statuses
           /\ \/ told' = told /\ preErr' = preErr
              \/ told' = told \cup {"pre"} /\ preErr' = TRUE
           /\ \/ stage' = "pre" /\ frames' = frames /\ lexErr' = lexErr
              \/ /\ stage' = (IF preErr THEN "done" ELSE "lex")
                 /\ frames' = (IF preErr THEN frames ELSE <<[text |-> src, pos |-> 1]>>)
                 /\ preErr' = preErr /\ lexErr' = FALSE
<1>1. CASE PreNewline \/ PreLineComment \/ PreBlockComment \/ PreOther
  BY <1>1 DEF PreNewline, PreLineComment, PreBlockComment, PreOther, PreTurn, PreUnchanged,
              lexVars, Statuses
<1>2. CASE PreDefine \/ PreOtherDirective
  BY <1>2 DEF PreDefine, PreOtherDirective, DirectiveEnded, PreTurn, PreUnchanged, lexVars, Statuses
<1>3. CASE PreDirectiveFails \/ PreExpandNull
  BY <1>3 DEF PreDirectiveFails, PreExpandNull, Fail, PreTurn, preVars, lexVars, Statuses
<1>4. CASE PreIdent
  BY <1>4 DEF PreIdent, PreTurn, PreUnchanged, lexVars, Statuses
<1>5. CASE PreDone
  BY <1>5 DEF PreDone, preVars, Statuses
<1>6. QED
  BY <1>1, <1>2, <1>3, <1>4, <1>5 DEF PreProcess

LEMMA LexEffect ==
    ASSUME PreTypes, LexStr
    PROVE  /\ stage = "lex" /\ status = "ok" /\ status' \in Statuses
           /\ preErr' = preErr /\ insts' = insts
           /\ \/ told' = told /\ (lexErr' = lexErr \/ insts # << >>)
              \/ told' = told \cup {"lex"} /\ lexErr' = TRUE
           /\ \/ stage' = "lex"
              \/ /\ stage' = (IF lexErr THEN "done" ELSE "lexed")
                 /\ lexErr' = lexErr /\ told' = told /\ status' = "ok"
<1>1. CASE LexMacro
  <2>1. insts # << >>
    BY <1>1 DEF LexMacro, InstancesHere
  <2>2. QED
    BY <1>1, <2>1 DEF LexMacro, LexTurn, NotLex, preVars, Statuses
<1>2. CASE LexReturn \/ LexDone \/ LexSpace
  BY <1>2 DEF LexReturn, LexDone, LexSpace, LexTurn, NotLex, preVars, lexVars, Statuses
<1>3. CASE LexSkipLine \/ LexBlockComment \/ LexOperator \/ LexNumber \/ LexWord
  BY <1>3 DEF LexSkipLine, LexBlockComment, LexOperator, LexNumber, LexWord, LexTurn, NotLex,
              preVars, Statuses
<1>4. CASE LexPastEnd
  BY <1>4 DEF LexPastEnd, Fail, LexTurn, preVars, lexVars, Statuses
<1>5. CASE LexString
  <2>1. stage = "lex" /\ status = "ok" /\ status' = status /\ stage' = stage /\ UNCHANGED preVars
    BY <1>5 DEF LexString, LexTurn, NotLex
  <2>2. LexError \/ UNCHANGED <<lexErr, told>>
    BY <1>5 DEF LexString
  <2>3. QED
    BY <2>1, <2>2 DEF LexError, preVars, Statuses
<1>6. CASE LexQuote
  <2>1. /\ stage = "lex" /\ status = "ok" /\ status' \in Statuses /\ stage' = stage
        /\ UNCHANGED preVars
    BY <1>6 DEF LexQuote, LexTurn, NotLex, Statuses
  <2>2. LexError \/ UNCHANGED <<lexErr, told>>
    BY <1>6 DEF LexQuote
  <2>3. QED
    BY <2>1, <2>2 DEF LexError, preVars
<1>7. CASE LexUnknown
  BY <1>7 DEF LexUnknown, LexError, NotLex, preVars, Statuses
<1>8. QED
  BY <1>1, <1>2, <1>3, <1>4, <1>5, <1>6, <1>7 DEF LexStr

\* Every action but the two walks' leaves the walks alone.
LEMMA TypesStep ==
    ASSUME PreTypes, LexTypes, [Next]_vars
    PROVE  PreTypes' /\ LexTypes'
<1>1. CASE PreProcess
  <2>1. src \in Text0
    BY DEF PreTypes
  <2>2. [text |-> src, pos |-> 1] \in Activations
    BY <2>1 DEF Activations, Text0
  <2>3. <<[text |-> src, pos |-> 1]>> \in Seq(Activations) /\ <<[text |-> src, pos |-> 1]>> # << >>
    BY <2>2
  <2>4. LexTypes'
    <3>1. frames \in Seq(Activations) /\ lexErr \in BOOLEAN
      BY DEF LexTypes
    <3>2. CASE stage' = "pre" /\ frames' = frames /\ lexErr' = lexErr
      BY <3>1, <3>2 DEF LexTypes
    <3>3. CASE /\ stage' = (IF preErr THEN "done" ELSE "lex")
               /\ frames' = (IF preErr THEN frames ELSE <<[text |-> src, pos |-> 1]>>)
               /\ lexErr' = FALSE
      <4>1. CASE preErr
        BY <3>1, <3>3, <4>1 DEF LexTypes
      <4>2. CASE ~preErr
        BY <2>3, <3>3, <4>2 DEF LexTypes
      <4>3. QED
        BY <4>1, <4>2
    <3>4. QED
      BY <1>1, <3>2, <3>3, PreEffect
  <2>5. QED
    BY <1>1, <2>4, PreStep
<1>2. CASE LexStr
  <2>1. src' = src /\ UNCHANGED preVars
    BY <1>2 DEF LexStr, LexMacro, LexReturn, LexDone, LexSpace, LexSkipLine, LexBlockComment,
                LexPastEnd, LexOperator, LexNumber, LexWord, LexString, LexQuote, LexUnknown,
                NotLex, Fail
  <2>2. PreTypes'
    BY <2>1 DEF preVars, PreTypes
  <2>3. QED
    BY <1>2, <2>2, LexStep
<1>3. CASE /\ UNCHANGED <<src, preVars, lexVars>>
           /\ stage' = stage \/ stage' # "lex"
  BY <1>3 DEF PreTypes, LexTypes, preVars, lexVars
<1>4. CASE NothingToCompile \/ CannotOpen \/ Start
  BY <1>3, <1>4 DEF NothingToCompile, CannotOpen, Start, GetArgs
<1>5. CASE ParserFails \/ ParserAccepts \/ ParserKilled \/ ParserHangs
  BY <1>3, <1>5 DEF ParserFails, ParserAccepts, ParserKilled, ParserHangs
<1>6. CASE Exit \/ Killed \/ UNCHANGED vars
  BY <1>3, <1>6 DEF Exit, Killed, vars, feVars
<1>7. QED
  BY <1>1, <1>2, <1>4, <1>5, <1>6 DEF Next

\* What the parser may say, and the flag it leaves.
LEMMA SaysEffect ==
    ASSUME NEW message \in {{}, {"parse"}, {"argument"}}, Says(message)
    PROVE  \/ message = {} /\ told' = told /\ parErr' = FALSE
           \/ message = {"parse"} /\ told' = told \cup {"parse"} /\ parErr' = TRUE
           \/ message = {"argument"} /\ told' = told \cup {"argument"} /\ parErr' = FALSE
<1>1. told' = told \cup message /\ parErr' \in BOOLEAN /\ (parErr' <=> "parse" \in message)
  BY DEF Says
<1>2. \/ message = {} /\ ~("parse" \in message)
      \/ message = {"parse"} /\ "parse" \in message
      \/ message = {"argument"} /\ ~("parse" \in message)
  OBVIOUS
<1>3. told \cup {} = told
  OBVIOUS
<1>4. QED
  BY <1>1, <1>2, <1>3

LEMMA FlowStep ==
    ASSUME PreTypes, LexTypes, FlowInv, [Next]_vars
    PROVE  FlowInv'
<1> USE DEF OutTypes, StageInv, ToldInv, ExitInv, FlowInv, ErrorOccurred
<1>1. CASE PreProcess /\ UNCHANGED driverVars
  <2>1. /\ stage = "pre" /\ status = "ok" /\ status' \in Statuses
        /\ preErr \in BOOLEAN /\ lexErr \in BOOLEAN
        /\ args' = args /\ file' = file /\ parErr' = parErr /\ exit' = exit
    BY <1>1, PreEffect DEF driverVars, PreTypes, LexTypes
  <2>2. \/ told' = told /\ preErr' = preErr
        \/ told' = told \cup {"pre"} /\ preErr' = TRUE
    BY <1>1, PreEffect
  <2>3. stage' = "pre" \/ (stage' = "lex" /\ ~preErr') \/ (stage' = "done" /\ preErr')
    BY <1>1, PreEffect
  <2>4. OutTypes' /\ StageInv' /\ ToldInv'
    BY ONLY FlowInv, <2>1, <2>2, <2>3
  <2>5. ExitInv'
    BY ONLY FlowInv, <2>1, <2>2, <2>3
  <2>6. QED
    BY <2>4, <2>5
<1>2. CASE LexStr /\ UNCHANGED driverVars
  <2>1. /\ stage = "lex" /\ status = "ok" /\ status' \in Statuses
        /\ preErr' = preErr /\ insts' = insts /\ lexErr \in BOOLEAN
        /\ args' = args /\ file' = file /\ parErr' = parErr /\ exit' = exit
    BY <1>2, LexEffect DEF driverVars, LexTypes
  <2>2. \/ told' = told /\ (lexErr' = lexErr \/ insts # << >>)
        \/ told' = told \cup {"lex"} /\ lexErr' = TRUE
    BY <1>2, LexEffect
  <2>3. \/ stage' = "lex"
        \/ stage' \in {"done", "lexed"} /\ lexErr' = (stage' = "done")
    BY <1>2, <2>1, LexEffect
  <2>4. OutTypes' /\ StageInv' /\ ToldInv'
    BY ONLY FlowInv, <2>1, <2>2, <2>3
  <2>5. ExitInv'
    BY ONLY FlowInv, <2>1, <2>2, <2>3
  <2>6. QED
    BY <2>4, <2>5
<1>3. CASE NothingToCompile
  BY <1>3 DEF NothingToCompile, GetArgs, preVars, lexVars
<1>4. CASE CannotOpen
  BY <1>4 DEF CannotOpen, GetArgs, preVars, lexVars
<1>5. CASE Start
  BY <1>5 DEF Start, GetArgs, preVars, lexVars
<1> USE DEF AtParser
<1>6. CASE ParserFails
  BY <1>6 DEF ParserFails, Says, preVars, lexVars
<1>7. CASE ParserAccepts
  <2>1. /\ stage = "lexed" /\ status = "ok" /\ status' = "ok" /\ stage' = "done"
        /\ UNCHANGED <<preErr, lexErr, insts, args, exit>>
    BY <1>7 DEF ParserAccepts, preVars, lexVars
  <2>2. file' = (IF args.out # NoPath THEN "asm" ELSE file)
    BY <1>7 DEF ParserAccepts, GenerateIf
  <2>3. \/ told' = told /\ parErr' = FALSE
        \/ told' = told \cup {"argument"} /\ parErr' = FALSE
    BY <1>7, SaysEffect DEF ParserAccepts
  <2>4. OutTypes' /\ StageInv' /\ ToldInv'
    BY ONLY FlowInv, <2>1, <2>2, <2>3
  <2>5. ExitInv'
    BY ONLY FlowInv, <2>1, <2>2, <2>3
  <2>6. QED
    BY <2>4, <2>5
<1>8. CASE ParserKilled
  <2>1. /\ stage = "lexed" /\ status = "ok" /\ status' \in Statuses /\ stage' = "parse"
        /\ UNCHANGED <<preErr, lexErr, insts, args, exit>>
    BY <1>8 DEF ParserKilled, Statuses, preVars, lexVars
  <2>2. file' = file \/ (args.out # NoPath /\ ~parErr' /\ file' = "part")
    BY <1>8 DEF ParserKilled, GenerateIf
  <2>3. \/ told' = told /\ parErr' = FALSE
        \/ told' = told \cup {"parse"} /\ parErr' = TRUE
        \/ told' = told \cup {"argument"} /\ parErr' = FALSE
    BY <1>8, SaysEffect DEF ParserKilled
  <2>4. OutTypes' /\ StageInv' /\ ToldInv'
    BY ONLY FlowInv, <2>1, <2>2, <2>3
  <2>5. ExitInv'
    BY ONLY FlowInv, <2>1, <2>2, <2>3
  <2>6. QED
    BY <2>4, <2>5
<1>9. CASE ParserHangs
  <2>1. /\ stage = "lexed" /\ status = "ok" /\ status' = "ok" /\ stage' = "parse"
        /\ UNCHANGED <<preErr, lexErr, insts, args, exit>>
    BY <1>9 DEF ParserHangs, preVars, lexVars
  <2>2. file' = file
    BY <1>9 DEF ParserHangs
  <2>3. \/ told' = told /\ parErr' = FALSE
        \/ told' = told \cup {"parse"} /\ parErr' = TRUE
        \/ told' = told \cup {"argument"} /\ parErr' = FALSE
    BY <1>9, SaysEffect DEF ParserHangs
  <2>4. OutTypes' /\ StageInv' /\ ToldInv'
    BY ONLY FlowInv, <2>1, <2>2, <2>3
  <2>5. ExitInv'
    BY ONLY FlowInv, <2>1, <2>2, <2>3
  <2>6. QED
    BY <2>4, <2>5
<1>10. CASE Exit
  BY <1>10 DEF Exit, feVars, preVars, lexVars
<1>11. CASE Killed
  BY <1>11 DEF Killed, feVars, preVars, lexVars
<1>12. CASE UNCHANGED vars
  BY <1>12 DEF vars, feVars, preVars, lexVars, driverVars
<1>13. QED
  BY <1>1, <1>2, <1>3, <1>4, <1>5, <1>6, <1>7, <1>8, <1>9, <1>10, <1>11, <1>12 DEF Next

LEMMA DriverInvHolds == Spec => []DriverInv
<1>1. Init => DriverInv
  <2> SUFFICES ASSUME Init PROVE DriverInv
    OBVIOUS
  <2>1. PreTypes
    <3>1. src \in Text0 /\ macros = << >> /\ insts = << >> /\ pos = 1
      BY SourcesAssumption DEF Init, FrontEndInit, Text0
    <3>2. pos \in 1 .. Len(src) + 3
      BY <3>1 DEF Text0
    <3>3. macros \in Seq(Macros) /\ insts \in Seq(Instances) /\ DOMAIN insts = {}
      BY <3>1, EmptySeq
    <3>4. onlyWs \in BOOLEAN /\ preErr \in BOOLEAN
      BY DEF Init, FrontEndInit
    <3>5. QED
      BY ONLY <3>1, <3>2, <3>3, <3>4 DEF PreTypes
  <2>2. LexTypes
    BY EmptySeq DEF Init, FrontEndInit, LexTypes
  <2>3. OutTypes /\ StageInv /\ ToldInv /\ ExitInv
    BY DEF Init, FrontEndInit, OutTypes, StageInv, ToldInv, ExitInv, Statuses
  <2>4. QED
    BY <2>1, <2>2, <2>3 DEF DriverInv
<1>2. DriverInv /\ [Next]_vars => DriverInv'
  BY TypesStep, FlowStep DEF DriverInv, FlowInv
<1>3. QED
  BY <1>1, <1>2, PTL DEF Spec

\* The types of the state (Driver.TypeOK), for every set of source texts and
\* argument vectors: the preprocessor's position stays within two characters
\* of the text's terminating zero, and the lexer's within that of the text of
\* each of its calls (pre_proc.c process, lexer.c lex_str).
THEOREM TypeIsOK == Spec => []TypeOK
<1>1. DriverInv => TypeOK
  <2> SUFFICES ASSUME DriverInv PROVE TypeOK
    OBVIOUS
  <2>1. \A m \in DOMAIN macros : macros[m].name # << >>
    <3>1. \A m \in DOMAIN macros : macros[m] \in Macros
      BY DEF DriverInv, PreTypes
    <3>2. QED
      BY <3>1 DEF Macros
  <2>2. \A f \in DOMAIN frames : frames[f].pos \in 1 .. Len(frames[f].text) + 3
    <3> SUFFICES ASSUME NEW f \in DOMAIN frames
                 PROVE  frames[f].pos \in 1 .. Len(frames[f].text) + 3
      OBVIOUS
    <3>1. frames[f] \in Activations
      BY DEF DriverInv, LexTypes
    <3>2. QED
      BY <3>1 DEF Activations, Text0
  <2>3. QED
    BY <2>1, <2>2 DEF DriverInv, PreTypes, LexTypes, OutTypes, TypeOK
<1>2. QED
  BY <1>1, DriverInvHolds, PTL

\* The exit status tells whether the assembly was written (main.c): a run on a
\* source file exits with 0 exactly when the output file holds its assembly.
THEOREM ExitTellsAsm == Spec => []ExitMeansAsm
<1>1. DriverInv => ExitMeansAsm
  BY DEF DriverInv, ExitInv, ExitMeansAsm
<1>2. QED
  BY <1>1, DriverInvHolds, PTL

\* A run that printed an error message of the preprocessor, the lexer or the
\* parser does not exit with 0, except for one of the lexer's that a later use
\* of a macro made it forget (main.c compile, lexer.c lex_str).
THEOREM ErrorsReported == Spec => []Reported
<1>1. DriverInv => Reported
  BY DEF DriverInv, ExitInv, ToldInv, ErrorOccurred, Reported
<1>2. QED
  BY <1>1, DriverInvHolds, PTL
=============================================================================
