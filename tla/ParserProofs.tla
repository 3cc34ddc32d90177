---------------------------- MODULE ParserProofs ----------------------------
(***************************************************************************)
(* Theorems of Parser, for every token table: the lists of variables and   *)
(* typedefs are never shorter than a call that is still active has found   *)
(* them, and what they hold has been declared in a block or function that  *)
(* is still read.                                                          *)
(***************************************************************************)
EXTENDS Parser, SequenceTheorems, TLAPS

SYP == INSTANCE ShuntingYardProofs WITH Sources <- {}

-----------------------------------------------------------------------------
(* Rows: sequences, whatever their elements are.                           *)

\* What may be in the lists, whatever its elements are.
Row(s) == s \in Seq(ToSet(s))

PendingKinds == {"nested", "expression", "return", "variable",
                 "if", "while", "for", "for_cond", "for_inc", "body"}
\* The calls that have a mark in the list of variables.
Keepers == {"block", "function"}

\* Of the fields of a record only these matter.
ABlock(c) ==
    /\ {"kind", "prev", "old_vars", "old_typedefs"} \subseteq DOMAIN c
    /\ c.kind = "block" /\ c.prev \in 0 .. 2 * Size + 2
    /\ c.old_vars \in Nat /\ c.old_typedefs \in Nat
AFunction(c) ==
    /\ {"kind", "at", "arg", "old_vars"} \subseteq DOMAIN c
    /\ c.kind = "function" /\ c.at \in DOMAIN toks
    /\ c.arg \in Nat /\ c.arg >= c.at + 3 /\ c.old_vars \in Nat
APending(c) ==
    /\ {"kind", "at"} \subseteq DOMAIN c
    /\ c.kind \in PendingKinds /\ c.at \in DOMAIN toks
    /\ c.kind = "variable" => c.at + 1 \in DOMAIN toks

\* The calls are by turns a block and what is read in it, and the outermost
\* block has found both lists empty.
NthCall(cs, n) ==
    /\ ABlock(cs[n]) \/ AFunction(cs[n]) \/ APending(cs[n])
    /\ n = 1 => cs[n].kind = "block" /\ cs[n].old_vars = 0 /\ cs[n].old_typedefs = 0
    /\ n > 1 => (cs[n].kind = "block" <=> cs[n - 1].kind # "block")

\* What is below the mark of a call has been declared in the calls around it.
Marked(cs, vs, ts, n) ==
    /\ cs[n].kind \in Keepers =>
         /\ cs[n].old_vars <= Len(vs)
         /\ \A k \in 1 .. cs[n].old_vars : vs[k].parent < n
    /\ cs[n].kind = "block" => cs[n].old_typedefs <= Len(ts)
\* The marks of c, which is around d.
Around(c, d) ==
    /\ c.kind \in Keepers /\ d.kind \in Keepers => c.old_vars <= d.old_vars
    /\ c.kind = "block" /\ d.kind = "block" => c.old_typedefs <= d.old_typedefs
Declared(cs, v) ==
    /\ {"name", "at", "parent"} \subseteq DOMAIN v
    /\ v.at \in DOMAIN toks
    /\ v.parent \in DOMAIN cs /\ cs[v.parent].kind \in Keepers

StackOK(cs, vs, ts) ==
    /\ Row(cs) /\ Row(vs) /\ Row(ts)
    /\ \A n \in DOMAIN cs : NthCall(cs, n) /\ Marked(cs, vs, ts, n)
    /\ \A m, n \in DOMAIN cs : m < n => Around(cs[m], cs[n])
    /\ \A k \in DOMAIN vs : Declared(cs, vs[k])

\* What the innermost call is, and what of its caller's it relies on.
TopIs(t, cs, vs) ==
    CASE t = "statement" -> Last(cs).kind = "block"
      [] t = "argument" -> /\ Last(cs).kind = "function"
                           /\ Last(cs).arg = Last(cs).at + 3 => Len(vs) = Last(cs).old_vars
      [] t = "arguments_read" -> Last(cs).kind = "function"
      [] t = "value" -> Last(cs).kind \in PendingKinds
      [] t = "block_read" -> TRUE
YardRuns ==
    SYP!YardInv /\ src.declared = {v.name : v \in ToSet(vars)}

ScopeOK(s) == "declared" \in DOMAIN s /\ "lvls" \in DOMAIN s /\ s.lvls \in [SYP!Idents -> Nat]

ParserInv ==
    /\ Row(toks) /\ StackOK(calls, vars, typedefs)
    /\ turn \in Turns
    /\ calls = << >> => turn = "end" /\ typedefs = << >>
    /\ calls # << >> => turn # "end" /\ TopIs(turn, calls, vars)
    /\ turn = "value" => YardRuns
    /\ ScopeOK(src)
    /\ ret.end \in 0 .. 2 * Size + 2 /\ (turn = "arguments_read" => ret.end <= Size + 1)
    /\ uses \subseteq (DOMAIN toks) \X (DOMAIN toks)
    /\ status \in {"run", "done", "abort", "undefined"}

LEMMA Least ==
    ASSUME NEW S \in SUBSET Nat, S # {}
    PROVE  Min(S) \in S /\ \A s \in S : Min(S) <= s
BY SYP!LeastNatural DEF Min, SYP!Min

LEMMA RowOf ==
    ASSUME NEW S, NEW s \in Seq(S)
    PROVE  /\ Row(s) /\ Len(s) \in Nat /\ DOMAIN s = 1 .. Len(s)
           /\ \A n \in DOMAIN s : s[n] \in ToSet(s)
<1>1. Len(s) \in Nat /\ DOMAIN s = 1 .. Len(s)
  OBVIOUS
<1>2. \A n \in DOMAIN s : s[n] \in ToSet(s)
  BY DEF ToSet
<1>3. s \in Seq(ToSet(s))
  <2>1. s \in [1 .. Len(s) -> ToSet(s)]
    BY <1>1, <1>2
  <2>2. QED
    BY <1>1, <2>1
<1>4. QED
  BY <1>1, <1>2, <1>3 DEF Row

LEMMA RowFacts ==
    ASSUME NEW s, Row(s)
    PROVE  /\ Len(s) \in Nat /\ DOMAIN s = 1 .. Len(s)
           /\ s # << >> => Len(s) \in DOMAIN s /\ Last(s) = s[Len(s)] /\ Len(s) # 0
           /\ Len(s) # 0 => s # << >>
<1>1. s \in Seq(ToSet(s))
  BY DEF Row
<1>2. QED
  BY <1>1 DEF Last

LEMMA RowPushed ==
    ASSUME NEW s, Row(s), NEW e
    PROVE  /\ Row(Append(s, e)) /\ Append(s, e) # << >>
           /\ Len(Append(s, e)) = Len(s) + 1 /\ DOMAIN Append(s, e) = 1 .. Len(s) + 1
           /\ \A n \in 1 .. Len(s) : Append(s, e)[n] = s[n]
           /\ Append(s, e)[Len(s) + 1] = e /\ Last(Append(s, e)) = e
           /\ Front(Append(s, e)) = s
<1> DEFINE S == ToSet(s) \cup {e}
           t == Append(s, e)
<1>1. s \in Seq(S) /\ e \in S
  BY DEF Row
<1>2. PICK m \in Nat : m = Len(s)
  BY <1>1
<1> HIDE DEF S
<1>3. /\ t \in Seq(S) /\ t # << >> /\ Len(t) = m + 1 /\ DOMAIN t = 1 .. m + 1
      /\ \A n \in 1 .. m : t[n] = s[n]
      /\ t[m + 1] = e
  BY <1>1, <1>2, AppendProperties
<1> HIDE DEF t
<1>4. Last(t) = e
  BY <1>3 DEF Last
<1>5. Front(t) = s
  <2>1. /\ Front(t) \in Seq(S) /\ Len(Front(t)) = Len(t) - 1
        /\ \A n \in 1 .. Len(t) - 1 : n \in DOMAIN t /\ Front(t)[n] = t[n]
    BY <1>3, SYP!FrontOf DEF Front, SYP!Front
  <2>2. Len(t) - 1 = m
    BY <1>2, <1>3
  <2>3. Len(Front(t)) = Len(s) /\ \A n \in 1 .. Len(s) : Front(t)[n] = s[n]
    BY <1>2, <1>3, <2>1, <2>2
  <2>4. QED
    BY <1>1, <2>1, <2>3, SeqEqual
<1>6. QED
  BY <1>2, <1>3, <1>4, <1>5, RowOf DEF t

LEMMA RowFront ==
    ASSUME NEW s, Row(s), s # << >>
    PROVE  /\ Row(Front(s)) /\ Len(Front(s)) = Len(s) - 1
           /\ DOMAIN Front(s) = 1 .. Len(s) - 1
           /\ \A n \in 1 .. Len(s) - 1 : n \in DOMAIN s /\ Front(s)[n] = s[n]
<1>1. s \in Seq(ToSet(s))
  BY DEF Row
<1>2. /\ Front(s) \in Seq(ToSet(s)) /\ Len(Front(s)) = Len(s) - 1
      /\ \A n \in 1 .. Len(s) - 1 : n \in DOMAIN s /\ Front(s)[n] = s[n]
      /\ DOMAIN Front(s) = 1 .. Len(s) - 1
  BY <1>1, SYP!FrontOf DEF Front, SYP!Front
<1>3. QED
  BY <1>2, RowOf

LEMMA RowReplaced ==
    ASSUME NEW s, Row(s), NEW k \in 1 .. Len(s), NEW e
    PROVE  LET t == [s EXCEPT ![k] = e] IN
           /\ Row(t) /\ Len(t) = Len(s) /\ DOMAIN t = DOMAIN s
           /\ \A n \in DOMAIN s : n # k => t[n] = s[n]
           /\ t[k] = e
<1> DEFINE S == ToSet(s) \cup {e}
<1>1. s \in Seq(S) /\ e \in S
  BY DEF Row
<1>2. DOMAIN s = 1 .. Len(s)
  BY <1>1
<1> HIDE DEF S
<1>3. [s EXCEPT ![k] = e] \in Seq(S) /\ Len([s EXCEPT ![k] = e]) = Len(s)
  BY <1>1, ExceptSeq
<1>4. QED
  BY <1>2, <1>3, RowOf

\* A list that is cut off at a mark.
LEMMA RowCut ==
    ASSUME NEW s, Row(s), NEW m \in 0 .. Len(s)
    PROVE  /\ Row(Truncated(s, m)) /\ Len(Truncated(s, m)) = m
           /\ DOMAIN Truncated(s, m) = 1 .. m
           /\ \A n \in 1 .. m : n \in DOMAIN s /\ Truncated(s, m)[n] = s[n]
           /\ m = Len(s) => Truncated(s, m) = s
<1>1. s \in Seq(ToSet(s)) /\ m \in Nat
  BY DEF Row
<1>2. \A n \in 1 .. m : n \in DOMAIN s /\ s[n] \in ToSet(s)
  BY <1>1
<1>3. /\ SubSeq(s, 1, m) \in Seq(ToSet(s)) /\ Len(SubSeq(s, 1, m)) = m
      /\ \A n \in 1 .. m : SubSeq(s, 1, m)[n] = s[n]
  BY <1>1, <1>2, SubSeqProperties
<1>4. m = Len(s) => SubSeq(s, 1, m) = s
  BY <1>1, <1>3, SeqEqual
<1>5. QED
  BY <1>1, <1>2, <1>3, <1>4, RowOf DEF Truncated

-----------------------------------------------------------------------------
(* What the parser does to the calls and the lists, one change at a time.  *)

LEMMA StackFacts ==
    ASSUME NEW cs, NEW vs, NEW ts, StackOK(cs, vs, ts)
    PROVE  /\ Row(cs) /\ Row(vs) /\ Row(ts)
           /\ Len(cs) \in Nat /\ Len(vs) \in Nat /\ Len(ts) \in Nat
           /\ DOMAIN cs = 1 .. Len(cs) /\ DOMAIN vs = 1 .. Len(vs)
BY RowFacts DEF StackOK

LEMMA TopFacts ==
    ASSUME NEW cs, NEW vs, NEW ts, StackOK(cs, vs, ts), cs # << >>
    PROVE  /\ Last(cs) = cs[Len(cs)] /\ Len(cs) \in DOMAIN cs /\ Len(cs) \in Nat \ {0}
           /\ NthCall(cs, Len(cs)) /\ Marked(cs, vs, ts, Len(cs))
BY StackFacts, RowFacts DEF StackOK

\* A call begins: it marks the ends of the lists.
Marks(c, vs, ts) ==
    /\ c.kind \in Keepers => c.old_vars = Len(vs)
    /\ c.kind = "block" => c.old_typedefs = Len(ts)

LEMMA CallPushed ==
    ASSUME NEW cs, NEW vs, NEW ts, StackOK(cs, vs, ts), cs # << >>,
           NEW c, ABlock(c) \/ AFunction(c) \/ APending(c), Marks(c, vs, ts),
           c.kind = "block" <=> Last(cs).kind # "block"
    PROVE  StackOK(Append(cs, c), vs, ts)
<1> DEFINE ds == Append(cs, c)
<1>1. PICK n \in Nat \ {0} : n = Len(cs)
  BY TopFacts
<1>2. /\ Row(ds) /\ Len(ds) = n + 1 /\ DOMAIN ds = 1 .. n + 1 /\ DOMAIN cs = 1 .. n
      /\ \A k \in 1 .. n : ds[k] = cs[k]
      /\ ds[n + 1] = c
  BY <1>1, StackFacts, RowPushed
<1> HIDE DEF ds
<1>3. Last(cs) = cs[n] /\ n \in DOMAIN cs
  BY <1>1, TopFacts
<1>4. Row(vs) /\ Row(ts) /\ Len(vs) \in Nat /\ Len(ts) \in Nat /\ DOMAIN vs = 1 .. Len(vs)
  BY StackFacts
<1>5. \A k \in DOMAIN vs : Declared(cs, vs[k])
  BY DEF StackOK
<1>6. \A k \in DOMAIN vs : Declared(ds, vs[k])
  <2> SUFFICES ASSUME NEW k \in DOMAIN vs PROVE Declared(ds, vs[k])
    OBVIOUS
  <2>1. Declared(cs, vs[k])
    BY <1>5
  <2>2. vs[k].parent \in 1 .. n /\ vs[k].parent \in DOMAIN ds
    BY <1>2, <2>1 DEF Declared
  <2>3. ds[vs[k].parent] = cs[vs[k].parent]
    BY <1>2, <2>2
  <2>4. QED
    BY <2>1, <2>2, <2>3 DEF Declared
<1>7. \A k \in DOMAIN vs : vs[k].parent < n + 1
  <2> SUFFICES ASSUME NEW k \in DOMAIN vs PROVE vs[k].parent < n + 1
    OBVIOUS
  <2>1. vs[k].parent \in 1 .. n
    BY <1>2, <1>5 DEF Declared
  <2>2. QED
    BY <2>1
<1>8. ASSUME NEW k \in 1 .. n PROVE NthCall(ds, k) /\ Marked(ds, vs, ts, k)
  <2>1. NthCall(cs, k) /\ Marked(cs, vs, ts, k)
    BY <1>2 DEF StackOK
  <2>2. ds[k] = cs[k] /\ (k > 1 => ds[k - 1] = cs[k - 1])
    BY <1>2
  <2>3. QED
    BY <2>1, <2>2 DEF NthCall, Marked
<1>9. NthCall(ds, n + 1)
  <2>1. n + 1 # 1 /\ (n + 1) - 1 = n /\ ds[n] = cs[n]
    BY <1>2
  <2>2. QED
    BY <1>2, <1>3, <2>1 DEF NthCall
<1>10. Marked(ds, vs, ts, n + 1)
  BY <1>2, <1>4, <1>7 DEF Marked, Marks
<1>11. ASSUME NEW m \in 1 .. n + 1, NEW k \in 1 .. n + 1, m < k PROVE Around(ds[m], ds[k])
  <2>1. m \in 1 .. n /\ ds[m] = cs[m]
    BY <1>2, <1>11
  <2>2. CASE k \in 1 .. n
    BY <1>2, <1>11, <2>1, <2>2 DEF StackOK
  <2>3. CASE k = n + 1
    <3>1. Marked(cs, vs, ts, m)
      BY <1>2, <2>1 DEF StackOK
    <3>2. QED
      BY <1>2, <2>1, <2>3, <3>1 DEF Marked, Marks, Around
  <2>4. QED
    BY <2>2, <2>3
<1>12. \A k \in DOMAIN ds : NthCall(ds, k) /\ Marked(ds, vs, ts, k)
  <2>1. \A k \in 1 .. n + 1 : k \in 1 .. n \/ k = n + 1
    OBVIOUS
  <2>2. QED
    BY <1>2, <1>8, <1>9, <1>10, <2>1
<1>13. QED
  BY <1>2, <1>4, <1>6, <1>11, <1>12 DEF StackOK, ds

\* A call ends, and the lists are cut off at m and l.
LEMMA CallPopped ==
    ASSUME NEW cs, NEW vs, NEW ts, StackOK(cs, vs, ts), cs # << >>,
           NEW m \in 0 .. Len(vs), NEW l \in 0 .. Len(ts),
           \A k \in 1 .. m : vs[k].parent < Len(cs),
           \A k \in 1 .. Len(cs) - 1 : /\ cs[k].kind \in Keepers => cs[k].old_vars <= m
                                       /\ cs[k].kind = "block" => cs[k].old_typedefs <= l
    PROVE  StackOK(Front(cs), Truncated(vs, m), Truncated(ts, l))
<1> DEFINE ds == Front(cs)
           ws == Truncated(vs, m)
           us == Truncated(ts, l)
<1>1. PICK n \in Nat : n + 1 = Len(cs) /\ n = Len(cs) - 1
  <2>1. PICK c \in Nat \ {0} : c = Len(cs)
    BY TopFacts
  <2>2. c - 1 \in Nat /\ (c - 1) + 1 = c
    BY ONLY c \in Nat \ {0}
  <2>3. QED
    BY <2>1, <2>2, Zenon
<1>2. /\ Row(ds) /\ Len(ds) = n /\ DOMAIN ds = 1 .. n /\ DOMAIN cs = 1 .. n + 1
      /\ \A k \in 1 .. n : k \in DOMAIN cs /\ ds[k] = cs[k]
  <2>1. Row(cs)
    BY StackFacts
  <2>2. QED
    BY ONLY <1>1, <2>1, cs # << >>, RowFront, RowFacts, Zenon
<1>3. /\ Row(ws) /\ Len(ws) = m /\ DOMAIN ws = 1 .. m
      /\ \A k \in 1 .. m : k \in DOMAIN vs /\ ws[k] = vs[k]
  BY StackFacts, RowCut
<1>4. Row(us) /\ Len(us) = l
  BY StackFacts, RowCut
<1> HIDE DEF ds, ws, us
<1>5. \A k \in DOMAIN ws : Declared(ds, ws[k])
  <2> SUFFICES ASSUME NEW k \in 1 .. m PROVE Declared(ds, vs[k])
    BY <1>3
  <2>1. Declared(cs, vs[k]) /\ vs[k].parent < n + 1
    BY <1>1, <1>3 DEF StackOK
  <2>2. vs[k].parent \in 1 .. n
    <3>1. vs[k].parent \in 1 .. n + 1
      BY <1>2, <2>1 DEF Declared
    <3>2. QED
      BY <2>1, <3>1
  <2>3. vs[k].parent \in DOMAIN ds /\ ds[vs[k].parent] = cs[vs[k].parent]
    BY <1>2, <2>2
  <2>4. QED
    BY <2>1, <2>3 DEF Declared
<1>6. ASSUME NEW k \in 1 .. n PROVE NthCall(ds, k) /\ Marked(ds, ws, us, k)
  <2>1. NthCall(cs, k) /\ Marked(cs, vs, ts, k)
    BY <1>2 DEF StackOK
  <2>2. ds[k] = cs[k] /\ (k > 1 => ds[k - 1] = cs[k - 1])
    BY <1>2
  <2>3. /\ cs[k].kind \in Keepers => cs[k].old_vars <= m
        /\ cs[k].kind = "block" => cs[k].old_typedefs <= l
    BY <1>1
  <2>4. NthCall(ds, k)
    BY <2>1, <2>2 DEF NthCall
  <2>5. ASSUME cs[k].kind \in Keepers, NEW j \in 1 .. cs[k].old_vars PROVE ws[j].parent < k
    <3>1. cs[k].old_vars \in Nat
      BY <2>1, <2>5 DEF NthCall, ABlock, AFunction, APending, Keepers, PendingKinds
    <3>2. j \in 1 .. m
      BY <2>3, <2>5, <3>1, m \in 0 .. Len(vs), StackFacts
    <3>3. QED
      BY <1>3, <2>1, <2>5, <3>2 DEF Marked
  <2>6. QED
    BY <1>3, <1>4, <2>2, <2>3, <2>4, <2>5 DEF Marked
<1>7. ASSUME NEW j \in 1 .. n, NEW k \in 1 .. n, j < k PROVE Around(ds[j], ds[k])
  BY <1>2, <1>7 DEF StackOK
<1>8. StackOK(ds, ws, us)
  BY ONLY <1>2, <1>3, <1>4, <1>5, <1>6, <1>7 DEF StackOK
<1>9. QED
  BY <1>8 DEF ds, ws, us

\* What is read in a block has no mark, and no declarations.
LEMMA PendingPopped ==
    ASSUME NEW cs, NEW vs, NEW ts, StackOK(cs, vs, ts), cs # << >>, Last(cs).kind \notin Keepers
    PROVE  StackOK(Front(cs), vs, ts)
<1>1. PICK n \in Nat \ {0}, m \in Nat, l \in Nat :
        n = Len(cs) /\ m = Len(vs) /\ l = Len(ts) /\ DOMAIN cs = 1 .. n /\ DOMAIN vs = 1 .. m
  BY TopFacts, StackFacts
<1>2. cs[n].kind \notin Keepers
  BY <1>1, TopFacts
<1>3. \A k \in 1 .. m : vs[k].parent < n
  <2> SUFFICES ASSUME NEW k \in 1 .. m PROVE vs[k].parent < n
    OBVIOUS
  <2>1. Declared(cs, vs[k])
    BY <1>1 DEF StackOK
  <2>2. vs[k].parent \in 1 .. n /\ vs[k].parent # n
    BY <1>1, <1>2, <2>1 DEF Declared
  <2>3. QED
    BY <2>2
<1>4. \A k \in 1 .. n - 1 : /\ cs[k].kind \in Keepers => cs[k].old_vars <= m
                            /\ cs[k].kind = "block" => cs[k].old_typedefs <= l
  <2>1. \A k \in 1 .. n - 1 : k \in DOMAIN cs
    BY <1>1
  <2>2. QED
    BY <1>1, <2>1 DEF StackOK, Marked
<1>5. StackOK(Front(cs), Truncated(vs, m), Truncated(ts, l))
  <2>1. m \in 0 .. Len(vs) /\ l \in 0 .. Len(ts)
    BY <1>1
  <2>2. QED
    BY <1>1, <1>3, <1>4, <2>1, CallPopped
<1>6. Truncated(vs, m) = vs /\ Truncated(ts, l) = ts
  <2>1. m \in 0 .. Len(vs) /\ l \in 0 .. Len(ts)
    BY <1>1
  <2>2. QED
    BY <1>1, <2>1, StackFacts, RowCut
<1>7. QED
  BY <1>5, <1>6

\* A block or a function ends: what it has declared is taken from the lists.
LEMMA BlockPopped ==
    ASSUME NEW cs, NEW vs, NEW ts, StackOK(cs, vs, ts), cs # << >>, Last(cs).kind = "block"
    PROVE  /\ StackOK(Front(cs), Truncated(vs, Last(cs).old_vars), Truncated(ts, Last(cs).old_typedefs))
           /\ Front(cs) = << >> => Truncated(ts, Last(cs).old_typedefs) = << >>
<1>1. PICK n \in Nat \ {0} : n = Len(cs) /\ DOMAIN cs = 1 .. n
  BY TopFacts, StackFacts
<1>2. Last(cs) = cs[n] /\ ABlock(cs[n]) /\ Marked(cs, vs, ts, n) /\ NthCall(cs, n)
  BY <1>1, TopFacts DEF NthCall, ABlock, AFunction, APending, PendingKinds
<1>3. PICK m \in Nat, l \in Nat : m = cs[n].old_vars /\ l = cs[n].old_typedefs
  BY <1>2 DEF ABlock
<1>4. m \in 0 .. Len(vs) /\ l \in 0 .. Len(ts) /\ \A k \in 1 .. m : vs[k].parent < n
  <2>1. m <= Len(vs) /\ l <= Len(ts) /\ \A k \in 1 .. m : vs[k].parent < n
    BY <1>2, <1>3 DEF Marked, ABlock, Keepers
  <2>2. QED
    BY <1>3, <2>1, StackFacts
<1>5. \A k \in 1 .. n - 1 : /\ cs[k].kind \in Keepers => cs[k].old_vars <= m
                            /\ cs[k].kind = "block" => cs[k].old_typedefs <= l
  <2> SUFFICES ASSUME NEW k \in 1 .. n - 1
               PROVE  /\ cs[k].kind \in Keepers => cs[k].old_vars <= m
                      /\ cs[k].kind = "block" => cs[k].old_typedefs <= l
    OBVIOUS
  <2>1. k \in DOMAIN cs /\ n \in DOMAIN cs /\ k < n
    BY <1>1
  <2>2. Around(cs[k], cs[n])
    BY <2>1 DEF StackOK
  <2>3. QED
    BY <1>2, <1>3, <2>2 DEF Around, ABlock, Keepers
<1>6. StackOK(Front(cs), Truncated(vs, m), Truncated(ts, l))
  BY <1>1, <1>4, <1>5, CallPopped
<1>7. ASSUME Front(cs) = << >> PROVE Truncated(ts, l) = << >>
  <2>1. Len(Front(cs)) = n - 1
    BY <1>1, StackFacts, RowFront
  <2>2. n = 1
    <3>1. Len(Front(cs)) = 0
      BY <1>7
    <3>2. QED
      BY <2>1, <3>1
  <2>3. l = 0
    BY <1>2, <1>3, <2>2 DEF NthCall
  <2>4. Row(Truncated(ts, l)) /\ Len(Truncated(ts, l)) = 0
    BY <1>4, <2>3, StackFacts, RowCut
  <2>5. QED
    BY <2>4, RowFacts
<1>8. QED
  BY <1>2, <1>3, <1>6, <1>7

LEMMA FunctionPopped ==
    ASSUME NEW cs, NEW vs, NEW ts, StackOK(cs, vs, ts), cs # << >>, Last(cs).kind = "function"
    PROVE  /\ StackOK(Front(cs), Truncated(vs, Last(cs).old_vars), ts)
           /\ Len(vs) = Last(cs).old_vars => StackOK(Front(cs), vs, ts)
<1>1. PICK n \in Nat \ {0}, l \in Nat : n = Len(cs) /\ l = Len(ts) /\ DOMAIN cs = 1 .. n
  BY TopFacts, StackFacts
<1>2. Last(cs) = cs[n] /\ AFunction(cs[n]) /\ Marked(cs, vs, ts, n)
  BY <1>1, TopFacts DEF NthCall, ABlock, AFunction, APending, PendingKinds
<1>3. PICK m \in Nat : m = cs[n].old_vars
  BY <1>2 DEF AFunction
<1>4. m \in 0 .. Len(vs) /\ \A k \in 1 .. m : vs[k].parent < n
  <2>1. m <= Len(vs) /\ \A k \in 1 .. m : vs[k].parent < n
    BY <1>2, <1>3 DEF Marked, AFunction, Keepers
  <2>2. QED
    BY <1>3, <2>1, StackFacts
<1>5. \A k \in 1 .. n - 1 : /\ cs[k].kind \in Keepers => cs[k].old_vars <= m
                            /\ cs[k].kind = "block" => cs[k].old_typedefs <= l
  <2> SUFFICES ASSUME NEW k \in 1 .. n - 1
               PROVE  /\ cs[k].kind \in Keepers => cs[k].old_vars <= m
                      /\ cs[k].kind = "block" => cs[k].old_typedefs <= l
    OBVIOUS
  <2>1. k \in DOMAIN cs /\ n \in DOMAIN cs /\ k < n
    BY <1>1
  <2>2. Around(cs[k], cs[n]) /\ Marked(cs, vs, ts, k)
    BY <2>1 DEF StackOK
  <2>3. QED
    BY <1>1, <1>2, <1>3, <2>2 DEF Around, Marked, AFunction, Keepers
<1>6. l \in 0 .. Len(ts) /\ Truncated(ts, l) = ts
  <2>1. l \in 0 .. Len(ts)
    BY <1>1
  <2>2. QED
    BY <1>1, <2>1, StackFacts, RowCut
<1>7. StackOK(Front(cs), Truncated(vs, m), ts)
  BY <1>1, <1>4, <1>5, <1>6, CallPopped
<1>8. Len(vs) = m => Truncated(vs, m) = vs
  BY <1>4, StackFacts, RowCut
<1>9. QED
  BY <1>2, <1>3, <1>7, <1>8

\* The innermost call goes on with other fields, its marks as they were.
LEMMA TopChanged ==
    ASSUME NEW cs, NEW vs, NEW ts, StackOK(cs, vs, ts), cs # << >>,
           NEW c, ABlock(c) \/ AFunction(c) \/ APending(c),
           c.kind = "block" <=> Last(cs).kind = "block",
           c.kind \in Keepers <=> Last(cs).kind \in Keepers,
           c.kind \in Keepers => c.old_vars = Last(cs).old_vars,
           c.kind = "block" => c.old_typedefs = Last(cs).old_typedefs
    PROVE  LET ds == [cs EXCEPT ![Len(cs)] = c]
           IN StackOK(ds, vs, ts) /\ ds # << >> /\ Last(ds) = c
<1> DEFINE ds == [cs EXCEPT ![Len(cs)] = c]
<1>1. PICK n \in Nat \ {0} : n = Len(cs)
  BY TopFacts
<1>2. /\ Row(ds) /\ Len(ds) = n /\ DOMAIN ds = 1 .. n /\ DOMAIN cs = 1 .. n
      /\ \A k \in 1 .. n : k # n => ds[k] = cs[k]
      /\ ds[n] = c
  <2>1. n \in 1 .. Len(cs) /\ Row(cs) /\ DOMAIN cs = 1 .. n /\ ds = [cs EXCEPT ![n] = c]
    BY <1>1, StackFacts
  <2> HIDE DEF ds
  <2>2. QED
    BY <1>1, <2>1, RowReplaced
<1> HIDE DEF ds
<1>3. Last(cs) = cs[n]
  BY <1>1, TopFacts
<1>4. \A k \in 1 .. n : /\ ds[k].kind = "block" <=> cs[k].kind = "block"
                        /\ ds[k].kind \in Keepers <=> cs[k].kind \in Keepers
                        /\ ds[k].kind \in Keepers => ds[k].old_vars = cs[k].old_vars
                        /\ ds[k].kind = "block" => ds[k].old_typedefs = cs[k].old_typedefs
  BY <1>2, <1>3
<1>5. ASSUME NEW k \in 1 .. n PROVE NthCall(ds, k) /\ Marked(ds, vs, ts, k)
  <2>1. NthCall(cs, k) /\ Marked(cs, vs, ts, k)
    BY <1>2 DEF StackOK
  <2>2. k > 1 => k - 1 \in 1 .. n
    OBVIOUS
  <2>3. ABlock(ds[k]) \/ AFunction(ds[k]) \/ APending(ds[k])
    BY <1>2, <2>1 DEF NthCall
  <2>4. k = 1 => ds[k].kind = "block" /\ ds[k].old_vars = 0 /\ ds[k].old_typedefs = 0
    BY <1>4, <2>1 DEF NthCall, Keepers
  <2>5. k > 1 => (ds[k].kind = "block" <=> ds[k - 1].kind # "block")
    BY <1>4, <2>1, <2>2 DEF NthCall
  <2>6. NthCall(ds, k)
    BY <2>3, <2>4, <2>5 DEF NthCall
  <2>7. Marked(ds, vs, ts, k)
    BY <1>4, <2>1 DEF Marked
  <2>8. QED
    BY <2>6, <2>7
<1>6. ASSUME NEW j \in 1 .. n, NEW k \in 1 .. n, j < k PROVE Around(ds[j], ds[k])
  <2>1. Around(cs[j], cs[k])
    BY <1>2, <1>6 DEF StackOK
  <2>2. QED
    BY <1>4, <2>1 DEF Around
<1>7. ASSUME NEW k \in DOMAIN vs PROVE Declared(ds, vs[k])
  <2>1. Declared(cs, vs[k])
    BY DEF StackOK
  <2>2. QED
    BY <1>2, <1>4, <2>1 DEF Declared
<1>8. StackOK(ds, vs, ts)
  BY <1>2, <1>5, <1>6, <1>7, StackFacts DEF StackOK
<1>9. ds # << >> /\ Last(ds) = c
  BY <1>1, <1>2, RowFacts
<1>10. QED
  BY <1>8, <1>9 DEF ds

\* A declaration in the innermost call.
LEMMA VariableAdded ==
    ASSUME NEW cs, NEW vs, NEW ts, StackOK(cs, vs, ts), cs # << >>, Last(cs).kind \in Keepers,
           NEW v, {"name", "at", "parent"} \subseteq DOMAIN v, v.at \in DOMAIN toks, v.parent = Len(cs)
    PROVE  StackOK(cs, Append(vs, v), ts)
<1> DEFINE ws == Append(vs, v)
<1>1. PICK m \in Nat : m = Len(vs) /\ DOMAIN vs = 1 .. m
  BY StackFacts
<1>2. /\ Row(ws) /\ Len(ws) = m + 1 /\ DOMAIN ws = 1 .. m + 1
      /\ \A k \in 1 .. m : ws[k] = vs[k]
      /\ ws[m + 1] = v
  BY <1>1, StackFacts, RowPushed
<1> HIDE DEF ws
<1>3. Declared(cs, v)
  BY TopFacts DEF Declared
<1>4. \A k \in DOMAIN ws : Declared(cs, ws[k])
  <2>1. \A k \in 1 .. m + 1 : k \in 1 .. m \/ k = m + 1
    OBVIOUS
  <2>2. \A k \in 1 .. m : Declared(cs, vs[k])
    BY <1>1 DEF StackOK
  <2>3. QED
    BY <1>2, <1>3, <2>1, <2>2
<1>5. ASSUME NEW n \in DOMAIN cs PROVE Marked(cs, ws, ts, n)
  <2>1. Marked(cs, vs, ts, n) /\ NthCall(cs, n)
    BY DEF StackOK
  <2>2. ASSUME cs[n].kind \in Keepers
        PROVE  cs[n].old_vars <= m + 1 /\ \A k \in 1 .. cs[n].old_vars : ws[k].parent < n
    <3>1. PICK o \in Nat : o = cs[n].old_vars
      BY <2>1, <2>2 DEF NthCall, ABlock, AFunction, APending, Keepers, PendingKinds
    <3>2. o <= m
      BY <1>1, <2>1, <2>2, <3>1 DEF Marked
    <3>3. \A k \in 1 .. o : k \in 1 .. m
      BY <3>2
    <3>4. o <= m + 1
      BY <3>2
    <3>5. QED
      BY <1>2, <2>1, <2>2, <3>1, <3>3, <3>4 DEF Marked
  <2>3. QED
    BY <1>2, <2>1, <2>2 DEF Marked
<1>6. QED
  BY <1>2, <1>4, <1>5 DEF StackOK, ws

LEMMA TypedefAdded ==
    ASSUME NEW cs, NEW vs, NEW ts, StackOK(cs, vs, ts), NEW t
    PROVE  StackOK(cs, vs, Append(ts, t))
<1>1. PICK l \in Nat : l = Len(ts)
  BY StackFacts
<1>2. Row(Append(ts, t)) /\ Len(Append(ts, t)) = l + 1
  BY <1>1, StackFacts, RowPushed
<1>3. ASSUME NEW n \in DOMAIN cs PROVE Marked(cs, vs, Append(ts, t), n)
  <2>1. Marked(cs, vs, ts, n) /\ NthCall(cs, n)
    BY DEF StackOK
  <2>2. cs[n].kind = "block" => cs[n].old_typedefs \in Nat
    BY <2>1 DEF NthCall, ABlock, AFunction, APending, PendingKinds
  <2>3. cs[n].kind = "block" => cs[n].old_typedefs <= l + 1
    BY <1>1, <2>1, <2>2 DEF Marked
  <2>4. QED
    BY <1>2, <2>1, <2>3 DEF Marked
<1>4. QED
  BY <1>2, <1>3 DEF StackOK

\* What else is known of a symbol does not matter.
LEMMA VariableChanged ==
    ASSUME NEW cs, NEW vs, NEW ts, StackOK(cs, vs, ts),
           NEW k, NEW v, k \in DOMAIN vs => /\ DOMAIN v = DOMAIN vs[k]
                                            /\ v.at = vs[k].at /\ v.parent = vs[k].parent
    PROVE  StackOK(cs, [vs EXCEPT ![k] = v], ts) /\ Len([vs EXCEPT ![k] = v]) = Len(vs)
<1> DEFINE ws == [vs EXCEPT ![k] = v]
<1>1. PICK m \in Nat : m = Len(vs) /\ DOMAIN vs = 1 .. m
  BY StackFacts
<1>2. CASE k \notin DOMAIN vs
  <2>1. ws = vs
    <3>1. vs \in Seq(ToSet(vs))
      BY StackFacts DEF Row
    <3>2. QED
      BY <1>2, <3>1
  <2>2. QED
    BY <2>1
<1>3. CASE k \in DOMAIN vs
  <2>1. /\ Row(ws) /\ Len(ws) = m /\ DOMAIN ws = 1 .. m
        /\ \A n \in 1 .. m : n # k => ws[n] = vs[n]
        /\ ws[k] = v
    BY <1>1, <1>3, StackFacts, RowReplaced
  <2> HIDE DEF ws
  <2>2. \A n \in 1 .. m : /\ DOMAIN ws[n] = DOMAIN vs[n]
                          /\ ws[n].at = vs[n].at /\ ws[n].parent = vs[n].parent
    BY <1>3, <2>1
  <2>3. ASSUME NEW n \in DOMAIN ws PROVE Declared(cs, ws[n])
    <3>1. Declared(cs, vs[n])
      BY <1>1, <2>1 DEF StackOK
    <3>2. QED
      BY <2>1, <2>2, <3>1 DEF Declared
  <2>4. ASSUME NEW n \in DOMAIN cs PROVE Marked(cs, ws, ts, n)
    <3>1. Marked(cs, vs, ts, n) /\ NthCall(cs, n)
      BY DEF StackOK
    <3>2. ASSUME cs[n].kind \in Keepers, NEW j \in 1 .. cs[n].old_vars PROVE ws[j].parent < n
      <4>1. PICK o \in Nat : o = cs[n].old_vars
        BY <3>1, <3>2 DEF NthCall, ABlock, AFunction, APending, Keepers, PendingKinds
      <4>2. o <= m
        BY <1>1, <3>1, <3>2, <4>1 DEF Marked
      <4>3. j \in 1 .. m
        BY <3>2, <4>1, <4>2
      <4>4. QED
        BY <2>2, <3>1, <3>2, <4>3 DEF Marked
    <3>3. QED
      BY <1>1, <2>1, <3>1, <3>2 DEF Marked
  <2>5. StackOK(cs, ws, ts)
    BY <2>1, <2>3, <2>4 DEF StackOK
  <2>6. QED
    BY <1>1, <2>1, <2>5 DEF ws
<1>4. QED
  BY <1>2, <1>3

-----------------------------------------------------------------------------
(* Positions, names and the yard.                                          *)

LEMMA SizeFacts ==
    ASSUME Row(toks)
    PROVE  Size \in Nat /\ DOMAIN toks = 1 .. Size
BY RowFacts DEF Size

LEMMA SkipsTo ==
    ASSUME Row(toks), NEW start \in Nat, NEW types
    PROVE  /\ SkipTo(start, types) \in 0 .. Size
           /\ start <= Size => start <= SkipTo(start, types)
           /\ 1 <= start /\ 1 <= Size => 1 <= SkipTo(start, types)
<1>1. PICK size \in Nat : size = Size
  BY SizeFacts
<1> DEFINE ends == {k \in start .. size : toks[k] \in types}
<1>2. ends \subseteq start .. size
  OBVIOUS
<1>3. SkipTo(start, types) = Min(ends \cup {size})
  BY <1>1 DEF SkipTo
<1> HIDE DEF ends
<1>4. ends \cup {size} \in SUBSET Nat /\ ends \cup {size} # {}
  BY <1>2
<1>5. PICK p \in ends \cup {size} : p = Min(ends \cup {size})
  BY <1>4, Least
<1>6. p \in 0 .. size /\ (start <= size => start <= p) /\ (1 <= start /\ 1 <= size => 1 <= p)
  BY ONLY <1>2, <1>5, start \in Nat, size \in Nat
<1>7. QED
  BY <1>1, <1>3, <1>5, <1>6

\* A name of the list is found in it.
LEMMA Found ==
    ASSUME Row(vars), NEW name \in {v.name : v \in ToSet(vars)}
    PROVE  FindVar(name) \in DOMAIN vars
<1>1. PICK m \in Nat : m = Len(vars) /\ DOMAIN vars = 1 .. m
  BY RowFacts
<1> DEFINE found == {k \in 1 .. m : vars[k].name = name}
           back == {m - k : k \in found}
<1>2. found # {}
  BY <1>1 DEF ToSet
<1>3. \A k \in found : k \in 1 .. m
  OBVIOUS
<1> HIDE DEF found
<1>4. back \in SUBSET Nat /\ back # {}
  BY <1>2, <1>3
<1>5. PICK b \in back : \A c \in back : b <= c
  BY <1>4, Least
<1>6. PICK last \in found : b = m - last
  BY <1>5
<1>7. \A k \in found : last >= k
  <2> SUFFICES ASSUME NEW k \in found PROVE last >= k
    OBVIOUS
  <2>1. b <= m - k
    BY <1>5
  <2>2. k \in 1 .. m /\ last \in 1 .. m
    BY <1>3
  <2>3. QED
    BY ONLY <1>6, <2>1, <2>2, m \in Nat
<1>8. Max(found) \in found
  BY <1>7 DEF Max
<1>9. FindVar(name) = Max(found)
  BY <1>1, <1>2 DEF FindVar, SelectLastInSeq, found
<1>10. QED
  BY <1>1, <1>3, <1>8, <1>9

\* The names in a tree of the yard are declared.
LEMMA UsesFound ==
    ASSUME ParserInv, turn = "value"
    PROVE  uses \cup UsesIn(result) \subseteq (DOMAIN toks) \X (DOMAIN toks)
<1>1. /\ result \in Seq(SYP!Places) /\ src.declared = {v.name : v \in ToSet(vars)}
      /\ uses \subseteq (DOMAIN toks) \X (DOMAIN toks) /\ Row(vars)
  BY DEF ParserInv, YardRuns, SYP!YardInv, StackOK
<1>2. ASSUME NEW k \in ToSet(result), toks[k] \in Idents
      PROVE  k \in DOMAIN toks /\ vars[FindVar(toks[k])].at \in DOMAIN toks
  <2>1. k \in SYP!Places
    BY <1>1 DEF ToSet
  <2>2. k \in DOMAIN toks /\ toks[k] \in src.declared
    BY <1>2, <2>1 DEF SYP!Places, SYP!Idents, SYP!Names, Idents, Names
  <2>3. FindVar(toks[k]) \in DOMAIN vars
    BY <1>1, <2>2, Found
  <2>4. Declared(calls, vars[FindVar(toks[k])])
    BY <2>3 DEF ParserInv, StackOK
  <2>5. QED
    BY <2>2, <2>4 DEF Declared
<1>3. UsesIn(result) \subseteq (DOMAIN toks) \X (DOMAIN toks)
  BY <1>2 DEF UsesIn
<1>4. QED
  BY <1>1, <1>3

LEMMA YardBeginsRight == SYP!YardBegins' => SYP!YardInv'
<1>1. SYP!YardBegins => SYP!YardInv
  BY SYP!BeginsRight
<1>2. QED
  BY <1>1, PTL

-----------------------------------------------------------------------------
(* What the end of a step leaves.                                          *)

LEMMA StackPrimed ==
    ASSUME toks' = toks, StackOK(calls', vars', typedefs')
    PROVE  StackOK(calls, vars, typedefs)'
BY DEF StackOK, NthCall, ABlock, AFunction, APending, Marked, Around, Declared, Size, Row

LEMMA InvPrimed ==
    ASSUME ParserInv, toks' = toks, StackOK(calls', vars', typedefs'), calls' # << >>,
           turn' \in Turns, turn' # "end", TopIs(turn', calls', vars'),
           turn' = "value" => YardRuns', ScopeOK(src'),
           ret'.end \in 0 .. 2 * Size + 2, turn' = "arguments_read" => ret'.end <= Size + 1,
           uses' \subseteq (DOMAIN toks) \X (DOMAIN toks),
           status' \in {"run", "done", "abort", "undefined"}
    PROVE  ParserInv'
<1>1. StackOK(calls, vars, typedefs)'
  BY StackPrimed
<1>2. Row(toks)'
  BY DEF ParserInv, Row
<1>3. TopIs(turn, calls, vars)'
  BY DEF TopIs
<1>4. Size' = Size
  BY DEF Size
<1>5. turn' \in Turns'
  BY DEF Turns
<1>6. QED
  BY <1>1, <1>2, <1>3, <1>4, <1>5 DEF ParserInv

\* The block around a statement goes on behind it.
LEMMA StatementEnds ==
    ASSUME ParserInv, NEW stack, stack # << >>, StackOK(stack, vars', typedefs'),
           Last(stack).kind = "block", NEW end \in 0 .. 2 * Size + 2, NEW tree, NEW declared,
           Continue(stack, end, tree, declared),
           toks' = toks, src' = src, ret' = ret, uses' \subseteq (DOMAIN toks) \X (DOMAIN toks),
           status' \in {"run", "done", "abort", "undefined"}
    PROVE  ParserInv'
<1> DEFINE b == Last(stack)
           c == [b EXCEPT !.prev = end, !.parsed = TRUE, !.tree = @ \o tree,
                          !.can_decl = @ /\ (declared \/ b.func = "none")]
<1>1. ABlock(b)
  BY TopFacts DEF NthCall, ABlock, AFunction, APending, PendingKinds
<1>2. calls' = [stack EXCEPT ![Len(stack)] = c] /\ turn' = "statement"
  BY DEF Continue, GoOn
<1>3. /\ ABlock(c) /\ c.kind = "block" /\ c.old_vars = b.old_vars
      /\ c.old_typedefs = b.old_typedefs
  BY <1>1 DEF ABlock
<1> HIDE DEF c, b
<1>4. StackOK(calls', vars', typedefs') /\ calls' # << >> /\ Last(calls') = c
  BY <1>2, <1>3, TopChanged DEF b
<1>5. TopIs(turn', calls', vars')
  BY <1>2, <1>3, <1>4 DEF TopIs
<1>6. turn' \in Turns /\ turn' # "end" /\ turn' # "value" /\ turn' # "arguments_read"
  BY <1>2 DEF Turns
<1>7. ret'.end \in 0 .. 2 * Size + 2 /\ ScopeOK(src')
  BY DEF ParserInv
<1>8. QED
  BY <1>4, <1>5, <1>6, <1>7, InvPrimed

\* SY_shunting_yard is called for an expression from `start' on.
LEMMA YardCalled ==
    ASSUME ParserInv, NEW stack, stack # << >>, StackOK(stack, vars, typedefs),
           Last(stack).kind \in PendingKinds, NEW start \in 1 .. Size + 1, NEW stop,
           CallYard(stack, start, stop),
           UNCHANGED <<toks, ret, vars, typedefs>>, uses' \subseteq (DOMAIN toks) \X (DOMAIN toks)
    PROVE  ParserInv'
<1>1. /\ calls' = stack /\ turn' = "value" /\ src' = Scope(stop) /\ i' = start
      /\ yards' = <<SY!NewYard("expr", 0, start, << >>, FALSE)>>
      /\ err' = FALSE /\ status' = "run" /\ result' = << >>
  BY DEF CallYard
<1>2. Row(toks) /\ ScopeOK(src) /\ ret.end \in 0 .. 2 * Size + 2
  BY DEF ParserInv
<1>3. ScopeOK(src') /\ src'.declared = {v.name : v \in ToSet(vars)}
  BY <1>1, <1>2 DEF Scope, ScopeOK
<1>4. SYP!YardBegins'
  <2>1. toks' \in Seq(SYP!ToSet(toks'))
    BY <1>2 DEF Row, ToSet, SYP!ToSet
  <2>2. i' \in 1 .. Len(toks') + 1
    BY <1>1 DEF Size
  <2>3. yards' = <<SYP!NewYard("expr", 0, i', << >>, FALSE)>>
    BY <1>1 DEF SY!NewYard, SYP!NewYard
  <2>4. QED
    BY <1>1, <1>3, <2>1, <2>2, <2>3 DEF SYP!YardBegins, SYP!ToSet, SYP!NewYard, ScopeOK
<1>5. YardRuns'
  BY <1>3, <1>4, YardBeginsRight DEF YardRuns, ToSet
<1>6. TopIs(turn', calls', vars')
  BY <1>1 DEF TopIs
<1>7. turn' \in Turns /\ turn' # "end" /\ turn' # "arguments_read"
  BY <1>1 DEF Turns
<1>8. QED
  BY <1>1, <1>2, <1>3, <1>5, <1>6, <1>7, InvPrimed

\* parse() is called for a block, or for a body of one statement.
LEMMA BlockBegins ==
    ASSUME StackOK(calls, vars, typedefs), NEW start \in Nat, start - 1 \in 0 .. 2 * Size + 2,
           NEW deep, NEW detect, NEW single, NEW func
    PROVE  /\ ABlock(Block(start, deep, detect, single, func))
           /\ Block(start, deep, detect, single, func).kind = "block"
           /\ Marks(Block(start, deep, detect, single, func), vars, typedefs)
BY StackFacts DEF ABlock, Block, Marks

LEMMA ParseCalled ==
    ASSUME ParserInv, NEW stack, stack # << >>, StackOK(stack, vars', typedefs'),
           Last(stack).kind # "block",
           NEW block, ABlock(block), block.kind = "block", Marks(block, vars', typedefs'),
           CallParse(stack, block),
           toks' = toks, src' = src, ret' = ret, uses' \subseteq (DOMAIN toks) \X (DOMAIN toks),
           status' \in {"run", "done", "abort", "undefined"}
    PROVE  ParserInv'
<1>1. calls' = Append(stack, block) /\ turn' = "statement"
  BY DEF CallParse
<1>2. StackOK(calls', vars', typedefs')
  BY <1>1, CallPushed
<1>3. calls' # << >> /\ Last(calls') = block
  BY <1>1, StackFacts, RowPushed
<1>4. TopIs(turn', calls', vars')
  BY <1>1, <1>3 DEF TopIs
<1>5. turn' \in Turns /\ turn' # "end" /\ turn' # "value" /\ turn' # "arguments_read"
  BY <1>1 DEF Turns
<1>6. ret'.end \in 0 .. 2 * Size + 2 /\ ScopeOK(src')
  BY DEF ParserInv
<1>7. QED
  BY <1>2, <1>3, <1>4, <1>5, <1>6, InvPrimed

\* What is known when the innermost call reads a statement, and when a
\* function it has called has returned to it.
LEMMA InBlock ==
    ASSUME ParserInv, AtStatement
    PROVE  /\ calls # << >> /\ StackOK(calls, vars, typedefs) /\ Last(calls).kind = "block"
           /\ ABlock(Top) /\ Start \in 1 .. 2 * Size + 3 /\ status = "done" /\ Row(toks)
           /\ Top.prev \in 0 .. 2 * Size + 2 /\ Size \in Nat
<1>1. turn = "statement" /\ turn # "end" /\ status = "done"
  BY DEF AtStatement, Idle
<1>2. calls # << >> /\ StackOK(calls, vars, typedefs) /\ Row(toks)
  BY <1>1 DEF ParserInv
<1>3. TopIs("statement", calls, vars)
  BY <1>1, <1>2 DEF ParserInv
<1>4. Last(calls).kind = "block"
  BY <1>3 DEF TopIs
<1>5. ABlock(Top)
  BY <1>2, <1>4, TopFacts DEF Top, NthCall, ABlock, AFunction, APending, PendingKinds
<1>6. Top.prev \in 0 .. 2 * Size + 2 /\ Size \in Nat
  BY <1>2, <1>5, SizeFacts DEF ABlock
<1>7. Start \in 1 .. 2 * Size + 3
  BY <1>6 DEF Start
<1>8. QED
  BY <1>1, <1>2, <1>4, <1>5, <1>6, <1>7

LEMMA InLoopFacts ==
    ASSUME ParserInv, InLoop
    PROVE  /\ calls # << >> /\ StackOK(calls, vars, typedefs) /\ Last(calls).kind = "block"
           /\ Start \in 1 .. Size /\ Start \in DOMAIN toks /\ Size \in Nat
           /\ status = "done" /\ Row(toks)
<1>1. AtStatement /\ Start <= Size
  BY DEF InLoop
<1>2. /\ calls # << >> /\ StackOK(calls, vars, typedefs) /\ Last(calls).kind = "block"
      /\ Start \in 1 .. 2 * Size + 3 /\ status = "done" /\ Row(toks)
  BY <1>1, InBlock
<1>3. Size \in Nat /\ DOMAIN toks = 1 .. Size
  BY <1>2, SizeFacts
<1>4. Start \in 1 .. Size
  BY <1>1, <1>2, <1>3
<1>5. QED
  BY <1>2, <1>3, <1>4

\* A block is around everything that is no block.
LEMMA Surrounded ==
    ASSUME NEW cs, NEW vs, NEW ts, StackOK(cs, vs, ts), cs # << >>, Last(cs).kind # "block"
    PROVE  Front(cs) # << >> /\ Last(Front(cs)).kind = "block"
<1>1. PICK n \in Nat \ {0} : n = Len(cs)
  BY TopFacts
<1>2. Last(cs) = cs[n] /\ NthCall(cs, n)
  BY <1>1, TopFacts
<1>3. n # 1 /\ n > 1
  BY <1>1, <1>2 DEF NthCall
<1>4. cs[n - 1].kind = "block"
  BY <1>2, <1>3 DEF NthCall
<1>5. /\ Row(Front(cs)) /\ Len(Front(cs)) = n - 1
      /\ \A k \in 1 .. n - 1 : Front(cs)[k] = cs[k]
  BY <1>1, StackFacts, RowFront
<1>6. n - 1 # 0 /\ n - 1 \in 1 .. n - 1
  BY <1>3
<1>7. Front(cs) # << >> /\ Last(Front(cs)) = Front(cs)[n - 1]
  BY <1>5, <1>6, RowFacts
<1>8. QED
  BY <1>4, <1>5, <1>6, <1>7

LEMMA Waiting ==
    ASSUME ParserInv, calls # << >>, Top.kind \notin Keepers
    PROVE  /\ StackOK(calls, vars, typedefs)
           /\ StackOK(Outer, vars, typedefs) /\ Outer # << >> /\ Last(Outer).kind = "block"
           /\ APending(Top) /\ Row(toks) /\ ret.end \in 0 .. 2 * Size + 2 /\ Size \in Nat
<1>1. StackOK(calls, vars, typedefs) /\ Row(toks) /\ ret.end \in 0 .. 2 * Size + 2
  BY DEF ParserInv
<1>2. Last(calls).kind # "block" /\ Last(calls).kind \notin Keepers
  BY DEF Top, Keepers
<1>3. APending(Top)
  BY <1>1, TopFacts DEF Top, NthCall, ABlock, AFunction, Keepers
<1>4. QED
  BY <1>1, <1>2, <1>3, PendingPopped, Surrounded, SizeFacts DEF Outer

LEMMA AfterRead ==
    ASSUME ParserInv, NEW kinds, Read(kinds)
    PROVE  /\ calls # << >> /\ Top.kind \in kinds
           /\ StackOK(calls, vars, typedefs)
           /\ StackOK(Outer, vars, typedefs) /\ Outer # << >> /\ Last(Outer).kind = "block"
           /\ APending(Top) /\ Row(toks) /\ Size \in Nat /\ i \in 1 .. 2 * Size + 2
           /\ uses \cup UsesIn(result) \subseteq (DOMAIN toks) \X (DOMAIN toks)
           /\ status = "done" /\ turn = "value"
<1>1. turn = "value" /\ turn # "end" /\ status = "done" /\ Top.kind \in kinds
  BY DEF Read, Idle
<1>2. calls # << >>
  BY <1>1 DEF ParserInv
<1>3. TopIs("value", calls, vars) /\ YardRuns
  BY <1>1, <1>2 DEF ParserInv
<1>4. Top.kind \in PendingKinds
  BY <1>3 DEF TopIs, Top
<1>5. Top.kind \notin Keepers
  BY <1>4 DEF PendingKinds, Keepers
<1>6. i \in 1 .. 2 * Size + 2
  BY <1>3, SYP!TypesFollow DEF YardRuns, SYP!TypeOK, Size
<1>7. QED
  BY <1>1, <1>2, <1>5, <1>6, Waiting, UsesFound

LEMMA YardStays ==
    ASSUME UNCHANGED yardVars
    PROVE  src' = src /\ toks' = toks /\ i' = i /\ yards' = yards /\ err' = err
           /\ status' = status /\ result' = result
BY DEF yardVars

\* A statement that leaves the calls as they are.
LEMMA StatementSkipped ==
    ASSUME ParserInv, InLoop, NEW end \in 0 .. 2 * Size + 2, NEW tree, NEW declared,
           Continue(calls, end, tree, declared),
           UNCHANGED yardVars, UNCHANGED <<ret, uses>>, StackOK(calls, vars', typedefs')
    PROVE  ParserInv'
<1>1. calls # << >> /\ Last(calls).kind = "block" /\ status = "done"
  BY InLoopFacts
<1>2. toks' = toks /\ src' = src /\ status' \in {"run", "done", "abort", "undefined"}
  BY <1>1, YardStays
<1>3. uses' \subseteq (DOMAIN toks) \X (DOMAIN toks) /\ ret' = ret
  BY DEF ParserInv
<1>4. QED
  BY <1>1, <1>2, <1>3, StatementEnds

\* What has been read in a block is done with.
LEMMA StatementDone ==
    ASSUME ParserInv, calls # << >>, Top.kind \notin Keepers, status = "done",
           NEW end \in 0 .. 2 * Size + 2, NEW tree, NEW declared,
           Continue(Outer, end, tree, declared),
           UNCHANGED yardVars, UNCHANGED <<ret, vars, typedefs>>,
           uses' \subseteq (DOMAIN toks) \X (DOMAIN toks)
    PROVE  ParserInv'
<1>1. StackOK(Outer, vars', typedefs') /\ Outer # << >> /\ Last(Outer).kind = "block"
  BY Waiting
<1>2. toks' = toks /\ src' = src /\ status' \in {"run", "done", "abort", "undefined"}
  BY YardStays
<1>3. QED
  BY <1>1, <1>2, StatementEnds

\* The program reads what is not there.
LEMMA CrashKeeps ==
    ASSUME ParserInv, Crash, calls # << >>
    PROVE  ParserInv'
<1>1. /\ status' = "undefined"
      /\ UNCHANGED <<src, toks, i, yards, err, result, calls, turn, ret, vars, typedefs, uses>>
  BY DEF Crash, listVars
<1>2. turn = "value" => YardRuns'
  <2>1. YardRuns => YardRuns'
    BY <1>1 DEF YardRuns, SYP!YardInv, SYP!NthYard, SYP!Yards, SYP!Nodes, SYP!Places, SYP!OperatorsAt, SYP!InReach,
                SYP!ToSet
  <2>2. QED
    BY <2>1 DEF ParserInv
<1>3. QED
  BY <1>1, <1>2, InvPrimed DEF ParserInv
\* The yard's steps are those its own theorems are about.
LEMMA SameCastLvls ==
    ASSUME NEW at
    PROVE  SY!CastLvls(at) = SYP!CastLvls(at)
<1>1. SY!TypeEnd(at + 1) = SYP!TypeEnd(at + 1)
  BY DEF SY!TypeEnd, SYP!TypeEnd, SY!Min, SYP!Min, SY!Stars, SYP!Stars
<1>2. ASSUME NEW S PROVE SY!Cardinality(S) = SYP!Cardinality(S)
  BY DEF SY!Cardinality, SYP!Cardinality
<1>3. QED
  BY <1>1, <1>2 DEF SY!CastLvls, SYP!CastLvls

LEMMA SameYard == SY!Next => SYP!Next
<1> USE SameCastLvls
<1> USE DEF
        SY!Null, SY!Y, SY!SetY, SY!NewYard, SY!StopTypes, SY!Ended, SY!Reading, SY!Precedence,
        SY!LToRightAsso, SY!Arity, SY!GoesBefore, SY!Operator, SY!TopOp, SY!PushOp, SY!PushOut,
        SY!MoveOperator, SY!MustPop, SY!PopOperator, SY!MissingOperand, SY!PushOperator,
        SY!IsCast, SY!TypeEnd, SY!ReadTypeCast, SY!Deeper, SY!ReadLParen, SY!InParens,
        SY!PopInParens, SY!ReadRParen, SY!IsCall, SY!Operands, SY!ReadOperand, SY!Undeclared,
        SY!ReadUndeclared, SY!CallUndeclared, SY!SkipComma, SY!EndItems, SY!NextItem, SY!NextArg,
        SY!ReadFuncCall, SY!NextElem, SY!ReadArrayInitializer, SY!ReadSubscript, SY!UnknownToken,
        SY!FlushOperator, SY!CallsVariable, SY!Flushed, SY!VerifyFails, SY!VerifyCrash,
        SY!Returning, SY!Value, SY!Error, SY!ReturnExpr, SY!ReturnArg, SY!ReturnSubscript,
        SY!Static, SY!ReturnElem, SY!Last, SY!Front, SY!ToSet, SY!NodeOf, SY!LeafLvls, SY!Lhs, SY!Rhs, SY!Present, SY!Operation,
        SY!MostLvls, SY!Dereferences, SY!NoPointer, SY!LvlsOfIndir, SY!Min,
        SY!Operators, SY!BinaryOps, SY!UnaryOps, SY!Idents, SY!Names, SY!Keywords, SY!Stars,
        SYP!Null, SYP!Y, SYP!SetY, SYP!NewYard, SYP!StopTypes, SYP!Ended, SYP!Reading,
        SYP!Precedence, SYP!LToRightAsso, SYP!Arity, SYP!GoesBefore, SYP!Operator, SYP!TopOp,
        SYP!PushOp, SYP!PushOut, SYP!MoveOperator, SYP!MustPop, SYP!PopOperator,
        SYP!MissingOperand, SYP!PushOperator, SYP!IsCast, SYP!TypeEnd, SYP!ReadTypeCast,
        SYP!Deeper, SYP!ReadLParen, SYP!InParens, SYP!PopInParens, SYP!ReadRParen, SYP!IsCall,
        SYP!Operands, SYP!ReadOperand, SYP!Undeclared, SYP!ReadUndeclared, SYP!CallUndeclared,
        SYP!SkipComma, SYP!EndItems, SYP!NextItem, SYP!NextArg, SYP!ReadFuncCall, SYP!NextElem,
        SYP!ReadArrayInitializer, SYP!ReadSubscript, SYP!UnknownToken, SYP!FlushOperator,
        SYP!CallsVariable, SYP!Flushed, SYP!VerifyFails, SYP!VerifyCrash, SYP!Returning,
        SYP!Value, SYP!Error, SYP!ReturnExpr, SYP!ReturnArg, SYP!ReturnSubscript, SYP!Static,
        SYP!ReturnElem, SYP!Last, SYP!Front, SYP!ToSet, SYP!NodeOf, SYP!LeafLvls, SYP!Lhs, SYP!Rhs, SYP!Present, SYP!Operation,
        SYP!MostLvls, SYP!Dereferences, SYP!NoPointer, SYP!LvlsOfIndir, SYP!Min, SYP!Operators,
        SYP!BinaryOps, SYP!UnaryOps, SYP!Idents, SYP!Names, SYP!Keywords, SYP!Stars
<1>1. SY!PopOperator => SYP!PopOperator
  OBVIOUS
<1>2. SY!MissingOperand => SYP!MissingOperand
  OBVIOUS
<1>3. SY!PushOperator => SYP!PushOperator
  OBVIOUS
<1>4. SY!ReadTypeCast => SYP!ReadTypeCast
  OBVIOUS
<1>5. SY!ReadLParen => SYP!ReadLParen
  OBVIOUS
<1>6. SY!PopInParens => SYP!PopInParens
  OBVIOUS
<1>7. SY!ReadRParen => SYP!ReadRParen
  OBVIOUS
<1>8. SY!ReadOperand => SYP!ReadOperand
  OBVIOUS
<1>9. SY!ReadUndeclared => SYP!ReadUndeclared
  OBVIOUS
<1>10. SY!CallUndeclared => SYP!CallUndeclared
  OBVIOUS
<1>11. SY!ReadFuncCall => SYP!ReadFuncCall
  OBVIOUS
<1>12. SY!ReadArrayInitializer => SYP!ReadArrayInitializer
  OBVIOUS
<1>13. SY!ReadSubscript => SYP!ReadSubscript
  OBVIOUS
<1>14. SY!UnknownToken => SYP!UnknownToken
  OBVIOUS
<1>15. SY!FlushOperator => SYP!FlushOperator
  OBVIOUS
<1>16. SY!VerifyCrash => SYP!VerifyCrash
  OBVIOUS
<1>17. SY!ReturnExpr => SYP!ReturnExpr
  OBVIOUS
<1>18. SY!ReturnArg => SYP!ReturnArg
  OBVIOUS
<1>19. SY!ReturnSubscript => SYP!ReturnSubscript
  OBVIOUS
<1>20. SY!ReturnElem => SYP!ReturnElem
  OBVIOUS
<1> HIDE DEF
        SY!Null, SY!Y, SY!SetY, SY!NewYard, SY!StopTypes, SY!Ended, SY!Reading, SY!Precedence,
        SY!LToRightAsso, SY!Arity, SY!GoesBefore, SY!Operator, SY!TopOp, SY!PushOp, SY!PushOut,
        SY!MoveOperator, SY!MustPop, SY!PopOperator, SY!MissingOperand, SY!PushOperator,
        SY!IsCast, SY!TypeEnd, SY!ReadTypeCast, SY!Deeper, SY!ReadLParen, SY!InParens,
        SY!PopInParens, SY!ReadRParen, SY!IsCall, SY!Operands, SY!ReadOperand, SY!Undeclared,
        SY!ReadUndeclared, SY!CallUndeclared, SY!SkipComma, SY!EndItems, SY!NextItem, SY!NextArg,
        SY!ReadFuncCall, SY!NextElem, SY!ReadArrayInitializer, SY!ReadSubscript, SY!UnknownToken,
        SY!FlushOperator, SY!CallsVariable, SY!Flushed, SY!VerifyFails, SY!VerifyCrash,
        SY!Returning, SY!Value, SY!Error, SY!ReturnExpr, SY!ReturnArg, SY!ReturnSubscript,
        SY!Static, SY!ReturnElem, SY!Last, SY!Front, SY!ToSet, SY!NodeOf, SY!LeafLvls, SY!Lhs, SY!Rhs, SY!Present, SY!Operation,
        SY!MostLvls, SY!Dereferences, SY!NoPointer, SY!LvlsOfIndir, SY!Min,
        SY!Operators, SY!BinaryOps, SY!UnaryOps, SY!Idents, SY!Names, SY!Keywords, SY!Stars,
        SYP!Null, SYP!Y, SYP!SetY, SYP!NewYard, SYP!StopTypes, SYP!Ended, SYP!Reading,
        SYP!Precedence, SYP!LToRightAsso, SYP!Arity, SYP!GoesBefore, SYP!Operator, SYP!TopOp,
        SYP!PushOp, SYP!PushOut, SYP!MoveOperator, SYP!MustPop, SYP!PopOperator,
        SYP!MissingOperand, SYP!PushOperator, SYP!IsCast, SYP!TypeEnd, SYP!ReadTypeCast,
        SYP!Deeper, SYP!ReadLParen, SYP!InParens, SYP!PopInParens, SYP!ReadRParen, SYP!IsCall,
        SYP!Operands, SYP!ReadOperand, SYP!Undeclared, SYP!ReadUndeclared, SYP!CallUndeclared,
        SYP!SkipComma, SYP!EndItems, SYP!NextItem, SYP!NextArg, SYP!ReadFuncCall, SYP!NextElem,
        SYP!ReadArrayInitializer, SYP!ReadSubscript, SYP!UnknownToken, SYP!FlushOperator,
        SYP!CallsVariable, SYP!Flushed, SYP!VerifyFails, SYP!VerifyCrash, SYP!Returning,
        SYP!Value, SYP!Error, SYP!ReturnExpr, SYP!ReturnArg, SYP!ReturnSubscript, SYP!Static,
        SYP!ReturnElem, SYP!Last, SYP!Front, SYP!ToSet, SYP!NodeOf, SYP!LeafLvls, SYP!Lhs, SYP!Rhs, SYP!Present, SYP!Operation,
        SYP!MostLvls, SYP!Dereferences, SYP!NoPointer, SYP!LvlsOfIndir, SYP!Min, SYP!Operators,
        SYP!BinaryOps, SYP!UnaryOps, SYP!Idents, SYP!Names, SYP!Keywords, SYP!Stars
<1>21. QED
  BY <1>1, <1>2, <1>3, <1>4, <1>5, <1>6, <1>7, <1>8, <1>9, <1>10, <1>11, <1>12, <1>13, <1>14,
     <1>15, <1>16, <1>17, <1>18, <1>19, <1>20
  DEF SY!Next, SYP!Next

LEMMA YardKeeps ==
    ASSUME ParserInv, Yard
    PROVE  ParserInv'
<1>1. /\ turn = "value" /\ SYP!Next
      /\ UNCHANGED <<calls, turn, ret, vars, typedefs, uses>>
  BY SameYard DEF Yard, listVars
<1>2. calls # << >> /\ YardRuns
  BY <1>1 DEF ParserInv
<1>3. SYP!YardInv' /\ src' = src /\ toks' = toks
  BY <1>1, <1>2, SYP!NextKeeps, SYP!TableKept DEF YardRuns
<1>4. YardRuns'
  BY <1>1, <1>2, <1>3 DEF YardRuns, ToSet
<1>5. status' \in {"run", "done", "abort", "undefined"}
  BY <1>3 DEF SYP!YardInv
<1>6. QED
  BY <1>1, <1>2, <1>3, <1>4, <1>5, InvPrimed DEF ParserInv

\* The end of parse(): what the block has declared is forgotten.
LEMMA LeaveKeeps ==
    ASSUME ParserInv, AtStatement, NEW end \in 0 .. 2 * Size + 2, Leave(end)
    PROVE  ParserInv'
<1>1. /\ calls # << >> /\ StackOK(calls, vars, typedefs) /\ Last(calls).kind = "block"
      /\ status = "done" /\ Row(toks)
  BY InBlock
<1>2. /\ ret' = [end |-> end, tree |-> Top.tree]
      /\ vars' = Truncated(vars, Last(calls).old_vars)
      /\ typedefs' = Truncated(typedefs, Last(calls).old_typedefs)
      /\ calls' = Front(calls)
      /\ turn' = IF calls' = << >> THEN "end" ELSE "block_read"
      /\ UNCHANGED yardVars /\ uses' = uses
  BY DEF Leave, Top, Outer
<1>3. toks' = toks /\ src' = src /\ status' = status
  BY <1>2, YardStays
<1>4. /\ StackOK(calls', vars', typedefs')
      /\ calls' = << >> => typedefs' = << >>
  BY <1>1, <1>2, BlockPopped
<1>5. /\ ret'.end \in 0 .. 2 * Size + 2 /\ ScopeOK(src')
      /\ uses' \subseteq (DOMAIN toks) \X (DOMAIN toks)
  BY <1>2, <1>3 DEF ParserInv
<1>6. CASE calls' # << >>
  <2>1. turn' \in Turns /\ turn' # "end" /\ turn' # "value" /\ turn' # "arguments_read"
    BY <1>2, <1>6 DEF Turns
  <2>2. TopIs(turn', calls', vars')
    BY <1>2, <1>6 DEF TopIs
  <2>3. QED
    BY <1>1, <1>3, <1>4, <1>5, <1>6, <2>1, <2>2, InvPrimed
<1>7. CASE calls' = << >>
  <2>1. turn' = "end" /\ turn' \in Turns'
    BY <1>2, <1>7 DEF Turns
  <2>2. Row(toks)' /\ StackOK(calls, vars, typedefs)' /\ Size' = Size
    BY <1>1, <1>3, <1>4, StackPrimed DEF Row, Size
  <2>3. QED
    BY <1>1, <1>3, <1>4, <1>5, <1>7, <2>1, <2>2 DEF ParserInv
<1>8. QED
  BY <1>6, <1>7

LEMMA EndParseKeeps ==
    ASSUME ParserInv, EndParse
    PROVE  ParserInv'
BY InBlock, LeaveKeeps DEF EndParse

LEMMA AtLoop ==
    ASSUME NEW types, At(types)
    PROVE  InLoop /\ AtStatement
BY DEF At, InLoop

LEMMA RightCurlyKeeps ==
    ASSUME ParserInv, RightCurly
    PROVE  ParserInv'
<1>1. InLoop /\ AtStatement /\ Leave(Start)
  BY AtLoop, Zenon DEF RightCurly
<1>2. Start \in 0 .. 2 * Size + 2
  <2>1. Start \in 1 .. Size /\ Size \in Nat
    BY <1>1, InLoopFacts
  <2>2. QED
    BY <2>1
<1>3. QED
  BY <1>1, <1>2, LeaveKeeps

LEMMA PendingFacts ==
    ASSUME StackOK(calls, vars, typedefs), calls # << >>, Last(calls).kind = "block",
           NEW kind \in PendingKinds, NEW at \in DOMAIN toks, NEW tree,
           kind = "variable" => at + 1 \in DOMAIN toks
    PROVE  LET stack == Append(calls, Pending(kind, at, tree)) IN
           /\ StackOK(stack, vars, typedefs) /\ stack # << >>
           /\ Last(stack).kind \in PendingKinds /\ Last(stack).kind # "block"
<1> DEFINE c == Pending(kind, at, tree)
<1>1. APending(c) /\ c.kind \in PendingKinds /\ c.kind # "block" /\ c.kind \notin Keepers
  BY DEF APending, Pending, PendingKinds, Keepers
<1>2. Marks(c, vars, typedefs)
  BY <1>1 DEF Marks
<1> HIDE DEF c
<1>3. StackOK(Append(calls, c), vars, typedefs)
  BY <1>1, <1>2, CallPushed
<1>4. Append(calls, c) # << >> /\ Last(Append(calls, c)) = c
  BY StackFacts, RowPushed
<1>5. QED
  BY <1>1, <1>3, <1>4 DEF c

LEMMA NestedBlockKeeps ==
    ASSUME ParserInv, NestedBlock
    PROVE  ParserInv'
<1> DEFINE stack == Append(calls, Pending("nested", Start, << >>))
           block == Block(Start + 1, Top.deep + 1, TRUE, FALSE, Top.func)
<1>1. /\ InLoop /\ CallParse(stack, block)
      /\ UNCHANGED yardVars /\ UNCHANGED listVars /\ uses' = uses /\ ret' = ret
  <2>1. UNCHANGED <<yardVars, ret, Parser_error_occurred, listVars, uses>>
    BY Zenon DEF NestedBlock
  <2>2. QED
    BY <2>1, AtLoop, Zenon DEF NestedBlock
<1>2. /\ calls # << >> /\ StackOK(calls, vars, typedefs) /\ Last(calls).kind = "block"
      /\ Start \in 1 .. Size /\ Start \in DOMAIN toks /\ status = "done" /\ Size \in Nat
  BY <1>1, InLoopFacts
<1>3. StackOK(stack, vars, typedefs) /\ stack # << >> /\ Last(stack).kind # "block"
  <2>1. "nested" \in PendingKinds /\ "nested" # "variable"
    BY DEF PendingKinds
  <2>2. QED
    BY <1>2, <2>1, PendingFacts
<1>4. ABlock(block) /\ block.kind = "block" /\ Marks(block, vars, typedefs)
  <2>1. Start + 1 \in Nat /\ (Start + 1) - 1 \in 0 .. 2 * Size + 2
    BY <1>2
  <2>2. QED
    BY <1>2, <2>1, BlockBegins
<1> HIDE DEF stack, block
<1>5. vars' = vars /\ typedefs' = typedefs /\ toks' = toks /\ src' = src /\ status' = status
  BY <1>1, YardStays DEF listVars
<1>6. uses' \subseteq (DOMAIN toks) \X (DOMAIN toks)
  BY <1>1 DEF ParserInv
<1>7. status' \in {"run", "done", "abort", "undefined"}
  BY <1>2, <1>5
<1>8. QED
  BY <1>1, <1>3, <1>4, <1>5, <1>6, <1>7, ParseCalled

LEMMA EndNestedBlockKeeps ==
    ASSUME ParserInv, EndNestedBlock
    PROVE  ParserInv'
<1>1. turn = "block_read" /\ Top.kind = "nested" /\ status = "done"
  BY DEF EndNestedBlock, Idle
<1>2. calls # << >> /\ Top.kind \notin Keepers
  BY <1>1 DEF ParserInv, Keepers
<1>3. Crash \/ /\ Continue(Outer, ret.end, Group(Top.at, ret.tree), FALSE)
               /\ UNCHANGED <<yardVars, ret, listVars, uses>>
  BY DEF EndNestedBlock
<1>4. CASE Crash
  BY <1>2, <1>4, CrashKeeps
<1>5. CASE /\ Continue(Outer, ret.end, Group(Top.at, ret.tree), FALSE)
           /\ UNCHANGED <<yardVars, ret, listVars, uses>>
  <2>1. UNCHANGED yardVars /\ UNCHANGED <<ret, vars, typedefs>> /\ uses' = uses
    BY <1>5 DEF listVars
  <2>2. uses' \subseteq (DOMAIN toks) \X (DOMAIN toks) /\ ret.end \in 0 .. 2 * Size + 2
    BY <2>1 DEF ParserInv
  <2>3. QED
    BY <1>1, <1>2, <1>5, <2>1, <2>2, StatementDone
<1>6. QED
  BY <1>3, <1>4, <1>5

LEMMA ExpressionKeeps ==
    ASSUME ParserInv, Expression
    PROVE  ParserInv'
<1> DEFINE stack == Append(calls, Pending("expression", Start, << >>))
<1>1. InLoop /\ CallYard(stack, Start, {})
  BY DEF Expression
<1>2. UNCHANGED <<toks, ret, vars, typedefs>> /\ uses' = uses
  BY DEF Expression, listVars
<1>3. /\ calls # << >> /\ StackOK(calls, vars, typedefs) /\ Last(calls).kind = "block"
      /\ Start \in 1 .. Size /\ Start \in DOMAIN toks /\ Size \in Nat
  BY <1>1, InLoopFacts
<1>4. "expression" \in PendingKinds /\ "expression" # "variable"
  BY DEF PendingKinds
<1>5. StackOK(stack, vars, typedefs) /\ stack # << >> /\ Last(stack).kind \in PendingKinds
  BY <1>3, <1>4, PendingFacts
<1>6. Start \in 1 .. Size + 1 /\ uses' \subseteq (DOMAIN toks) \X (DOMAIN toks)
  BY <1>2, <1>3 DEF ParserInv
<1> HIDE DEF stack
<1>7. QED
  BY <1>1, <1>2, <1>5, <1>6, YardCalled

\* What the yard has been called for is a statement of its own, whose names
\* are noted.
LEMMA ReadDone ==
    ASSUME ParserInv, NEW kinds, Read(kinds), NEW end \in 0 .. 2 * Size + 2, NEW tree,
           NEW declared, Continue(Outer, end, tree, declared), uses' = uses \/ NoteUses,
           UNCHANGED yardVars, UNCHANGED <<ret, vars, typedefs>>
    PROVE  ParserInv'
<1>1. /\ calls # << >> /\ APending(Top) /\ status = "done"
      /\ uses \cup UsesIn(result) \subseteq (DOMAIN toks) \X (DOMAIN toks)
  BY AfterRead
<1>2. Top.kind \notin Keepers
  BY <1>1 DEF APending, PendingKinds, Keepers
<1>3. uses' \subseteq (DOMAIN toks) \X (DOMAIN toks)
  BY <1>1 DEF NoteUses
<1>4. QED
  BY <1>1, <1>2, <1>3, StatementDone

LEMMA EndExpressionKeeps ==
    ASSUME ParserInv, EndExpression
    PROVE  ParserInv'
<1>1. PICK tree : Continue(Outer, i, tree, FALSE)
  BY DEF EndExpression
<1>2. /\ Read({"expression"}) /\ NoteUses
      /\ UNCHANGED yardVars /\ UNCHANGED <<ret, vars, typedefs>>
  BY DEF EndExpression, listVars
<1>3. i \in 0 .. 2 * Size + 2
  BY <1>2, AfterRead
<1>4. QED
  BY <1>1, <1>2, <1>3, ReadDone

LEMMA SkipEnds ==
    ASSUME ParserInv, NEW start \in Nat, NEW types
    PROVE  SkipTo(start, types) \in 0 .. 2 * Size + 2
<1>1. SkipTo(start, types) \in 0 .. Size /\ Size \in Nat
  BY SkipsTo, SizeFacts DEF ParserInv
<1>2. QED
  BY <1>1

LEMMA ReturnKeeps ==
    ASSUME ParserInv, Return
    PROVE  ParserInv'
<1> DEFINE stack == Append(calls, Pending("return", Start, << >>))
<1>1. InLoop
  BY AtLoop, Zenon DEF Return
<1>2. UNCHANGED <<ret, vars, typedefs>> /\ uses' = uses
  <2>1. UNCHANGED <<ret, listVars, uses>>
    BY Zenon DEF Return
  <2>2. QED
    BY <2>1 DEF listVars
<1>3. /\ calls # << >> /\ StackOK(calls, vars, typedefs) /\ Last(calls).kind = "block"
      /\ Start \in 1 .. Size /\ Start \in DOMAIN toks /\ Size \in Nat
  BY <1>1, InLoopFacts
<1> DEFINE skipped == SkipTo(Start, {";"})
<1>4. Start + 1 \in 0 .. 2 * Size + 2 /\ skipped \in 0 .. 2 * Size + 2 /\ Start + 1 \in 1 .. Size + 1
  <2>1. Start \in Nat
    BY <1>3
  <2>2. skipped \in 0 .. 2 * Size + 2
    BY <2>1, SkipEnds, Zenon
  <2> HIDE DEF skipped
  <2>3. QED
    BY <1>3, <2>2
<1>5. \/ \E tree : Continue(calls, skipped, tree, FALSE) /\ UNCHANGED yardVars
      \/ \E tree : Continue(calls, Start + 1, tree, FALSE) /\ UNCHANGED yardVars
      \/ \E stop : CallYard(stack, Start + 1, stop) /\ UNCHANGED toks
  BY Zenon DEF Return
<1> HIDE DEF skipped, stack
<1>6. StackOK(calls, vars', typedefs')
  BY <1>2, <1>3
<1>7. CASE \E tree : Continue(calls, skipped, tree, FALSE) /\ UNCHANGED yardVars
  BY <1>1, <1>2, <1>4, <1>6, <1>7, StatementSkipped
<1>8. CASE \E tree : Continue(calls, Start + 1, tree, FALSE) /\ UNCHANGED yardVars
  BY <1>1, <1>2, <1>4, <1>6, <1>8, StatementSkipped
<1>9. CASE \E stop : CallYard(stack, Start + 1, stop) /\ UNCHANGED toks
  <2>1. "return" \in PendingKinds /\ "return" # "variable"
    BY DEF PendingKinds
  <2>2. StackOK(stack, vars, typedefs) /\ stack # << >> /\ Last(stack).kind \in PendingKinds
    BY <1>3, <2>1, PendingFacts DEF stack
  <2>3. uses' \subseteq (DOMAIN toks) \X (DOMAIN toks)
    BY <1>2 DEF ParserInv
  <2>4. QED
    BY <1>2, <1>4, <1>9, <2>2, <2>3, YardCalled
<1>10. QED
  BY <1>5, <1>7, <1>8, <1>9

LEMMA EndReturnKeeps ==
    ASSUME ParserInv, EndReturn
    PROVE  ParserInv'
<1>1. Read({"return"})
  BY DEF EndReturn
<1>2. i \in 0 .. 2 * Size + 2 /\ calls # << >>
  BY <1>1, AfterRead
<1>3. Crash \/ /\ Continue(Outer, i, Group(Top.at, result), FALSE) /\ NoteUses
               /\ UNCHANGED <<yardVars, ret, listVars>>
  BY DEF EndReturn
<1>4. CASE Crash
  BY <1>2, <1>4, CrashKeeps
<1>5. CASE /\ Continue(Outer, i, Group(Top.at, result), FALSE) /\ NoteUses
           /\ UNCHANGED <<yardVars, ret, listVars>>
  <2>1. UNCHANGED yardVars /\ UNCHANGED <<ret, vars, typedefs>>
    BY <1>5 DEF listVars
  <2>2. QED
    BY <1>1, <1>2, <1>5, <2>1, ReadDone
<1>6. QED
  BY <1>3, <1>4, <1>5

-----------------------------------------------------------------------------
(* Variables and typedefs.                                                 *)

LEMMA UnnamedVariableKeeps ==
    ASSUME ParserInv, UnnamedVariable
    PROVE  ParserInv'
<1> DEFINE skipped == SkipTo(Start, {";", ",", ")"})
<1>1. InLoop /\ UNCHANGED <<yardVars, ret, listVars, uses>>
  BY Zenon DEF UnnamedVariable, AtVariable
<1>2. Continue(calls, skipped, << >>, TRUE)
  BY Zenon DEF UnnamedVariable
<1>3. StackOK(calls, vars, typedefs) /\ Start \in Nat
  BY <1>1, InLoopFacts
<1>4. skipped \in 0 .. 2 * Size + 2
  BY <1>3, SkipEnds, Zenon
<1> HIDE DEF skipped
<1>5. UNCHANGED yardVars /\ UNCHANGED <<ret, uses>> /\ StackOK(calls, vars', typedefs')
  BY <1>1, <1>3 DEF listVars
<1>6. QED
  BY <1>1, <1>2, <1>4, <1>5, StatementSkipped

LEMMA VoidVariableKeeps ==
    ASSUME ParserInv, VoidVariable
    PROVE  ParserInv'
<1> DEFINE skipped == SkipTo(Start, {";"})
<1>1. InLoop /\ UNCHANGED <<yardVars, ret, listVars, uses>>
  BY Zenon DEF VoidVariable, AtVariable
<1>2. Continue(calls, skipped, << >>, TRUE)
  BY Zenon DEF VoidVariable
<1>3. StackOK(calls, vars, typedefs) /\ Start \in Nat
  BY <1>1, InLoopFacts
<1>4. skipped \in 0 .. 2 * Size + 2
  BY <1>3, SkipEnds, Zenon
<1> HIDE DEF skipped
<1>5. UNCHANGED yardVars /\ UNCHANGED <<ret, uses>> /\ StackOK(calls, vars', typedefs')
  BY <1>1, <1>3 DEF listVars
<1>6. QED
  BY <1>1, <1>2, <1>4, <1>5, StatementSkipped

LEMMA VariableDeclared ==
    ASSUME ParserInv, NEW stack, stack # << >>, StackOK(stack, vars, typedefs),
           Last(stack).kind = "block", NEW at, at + 1 \in DOMAIN toks,
           NEW end \in 0 .. 2 * Size + 2, NEW value, NEW error,
           AddVariable(stack, at, end, value, error), status = "done",
           UNCHANGED yardVars, UNCHANGED <<ret, typedefs>>,
           uses' \subseteq (DOMAIN toks) \X (DOMAIN toks)
    PROVE  ParserInv'
<1> DEFINE v == Variable(toks[at + 1], at + 1, Len(stack), TypeSpec(toks[at]))
<1>1. vars' = Append(vars, v) /\ Continue(stack, end, Group(at, <<at + 1>> \o value), TRUE)
  BY Zenon DEF AddVariable
<1>2. {"name", "at", "parent"} \subseteq DOMAIN v /\ v.at = at + 1 /\ v.parent = Len(stack)
  BY DEF Variable
<1> HIDE DEF v
<1>3. StackOK(stack, vars', typedefs')
  <2>1. Last(stack).kind \in Keepers
    BY DEF Keepers
  <2>2. StackOK(stack, Append(vars, v), typedefs)
    BY <1>2, <2>1, VariableAdded
  <2>3. QED
    BY <1>1, <2>2
<1>4. toks' = toks /\ src' = src /\ status' \in {"run", "done", "abort", "undefined"}
  BY YardStays
<1>5. QED
  BY <1>1, <1>3, <1>4, StatementEnds

LEMMA DeclareVariableKeeps ==
    ASSUME ParserInv, DeclareVariable
    PROVE  ParserInv'
<1> DEFINE stack == Append(calls, Pending("variable", Start, << >>))
           semicolons == {k \in Ident .. Size : toks[k] = ";"}
<1>1. InLoop /\ Ident <= Size
  BY Zenon DEF DeclareVariable, AtVariable, Unnamed
<1>2. \/ /\ AddVariable(calls, Start, Ident + 1, << >>, FALSE)
         /\ UNCHANGED <<yardVars, ret, typedefs, uses>>
      \/ /\ semicolons # {} /\ AddVariable(calls, Start, Min(semicolons), << >>, TRUE)
         /\ UNCHANGED <<yardVars, ret, typedefs, uses>>
      \/ Crash
      \/ /\ CallYard(stack, (Ident + 1) + 1, {}) /\ Ident + 1 < Size
         /\ UNCHANGED <<toks, ret, Parser_error_occurred, listVars, uses>>
  BY Zenon DEF DeclareVariable
<1>3. semicolons \subseteq Ident .. Size
  BY Zenon
<1> HIDE DEF semicolons, stack
<1>4. /\ calls # << >> /\ StackOK(calls, vars, typedefs) /\ Last(calls).kind = "block"
      /\ Start \in 1 .. Size /\ Start \in DOMAIN toks /\ Size \in Nat /\ status = "done" /\ Row(toks)
  BY <1>1, InLoopFacts
<1>5. Ident \in 1 .. Size /\ Ident = Start + 1 /\ Start + 1 \in DOMAIN toks
  <2>1. DOMAIN toks = 1 .. Size
    BY <1>4, SizeFacts
  <2>2. QED
    BY <1>1, <1>4, <2>1 DEF Ident
<1>6. uses \subseteq (DOMAIN toks) \X (DOMAIN toks)
  BY DEF ParserInv
<1>7. CASE /\ AddVariable(calls, Start, Ident + 1, << >>, FALSE)
           /\ UNCHANGED <<yardVars, ret, typedefs, uses>>
  <2>1. Ident + 1 \in 0 .. 2 * Size + 2
    BY <1>4, <1>5
  <2>2. QED
    BY <1>4, <1>5, <1>6, <1>7, <2>1, VariableDeclared
<1>8. CASE /\ semicolons # {} /\ AddVariable(calls, Start, Min(semicolons), << >>, TRUE)
           /\ UNCHANGED <<yardVars, ret, typedefs, uses>>
  <2>1. semicolons \in SUBSET Nat
    BY <1>3, <1>4, <1>5
  <2>2. Min(semicolons) \in semicolons
    BY <1>8, <2>1, Least
  <2>3. Min(semicolons) \in Ident .. Size
    BY <1>3, <2>2
  <2>4. Min(semicolons) \in 0 .. 2 * Size + 2
    BY <1>4, <1>5, <2>3
  <2>5. QED
    BY <1>4, <1>5, <1>6, <1>8, <2>4, VariableDeclared
<1>9. CASE Crash
  BY <1>4, <1>9, CrashKeeps
<1>10. CASE /\ CallYard(stack, (Ident + 1) + 1, {}) /\ Ident + 1 < Size
            /\ UNCHANGED <<toks, ret, Parser_error_occurred, listVars, uses>>
  <2>1. "variable" \in PendingKinds
    BY DEF PendingKinds
  <2>2. StackOK(stack, vars, typedefs) /\ stack # << >> /\ Last(stack).kind \in PendingKinds
    BY <1>4, <1>5, <2>1, PendingFacts DEF stack
  <2>3. (Ident + 1) + 1 \in 1 .. Size + 1
    BY <1>4, <1>5, <1>10
  <2>4. UNCHANGED <<toks, ret, vars, typedefs>> /\ uses' = uses
    BY <1>10 DEF listVars
  <2>5. QED
    BY <1>6, <1>10, <2>2, <2>3, <2>4, YardCalled
<1>11. QED
  BY <1>2, <1>7, <1>8, <1>9, <1>10

LEMMA EndVariableKeeps ==
    ASSUME ParserInv, EndVariable
    PROVE  ParserInv'
<1>1. /\ Read({"variable"}) /\ AddVariable(Outer, Top.at, i, result, err)
      /\ NoteUses /\ UNCHANGED <<yardVars, ret, typedefs>>
  BY DEF EndVariable
<1>2. /\ Top.kind = "variable" /\ APending(Top) /\ i \in 0 .. 2 * Size + 2 /\ status = "done"
      /\ StackOK(Outer, vars, typedefs) /\ Outer # << >> /\ Last(Outer).kind = "block"
      /\ uses' \subseteq (DOMAIN toks) \X (DOMAIN toks)
  BY <1>1, AfterRead DEF NoteUses
<1>3. Top.at + 1 \in DOMAIN toks
  BY <1>2 DEF APending
<1>4. QED
  BY <1>1, <1>2, <1>3, VariableDeclared

LEMMA TypedefKeeps ==
    ASSUME ParserInv, Typedef
    PROVE  ParserInv'
<1> DEFINE k == Start + 1
           name == TypeEnd(k)
           skipped == SkipTo(Start, {";"})
<1>1. InLoop
  BY AtLoop, Zenon DEF Typedef
<1>2. \/ Crash
      \/ Continue(calls, skipped, << >>, FALSE) /\ UNCHANGED <<yardVars, ret, listVars, uses>>
      \/ /\ k <= Size /\ Continue(calls, name + 1, << >>, FALSE)
         /\ \E t : typedefs' \in {typedefs, Append(typedefs, t)}
         /\ UNCHANGED <<yardVars, ret, vars, uses>>
  <2>1. ASSUME NEW t, NEW clash, typedefs' = IF clash THEN typedefs ELSE Append(typedefs, t)
        PROVE  \E u : typedefs' \in {typedefs, Append(typedefs, u)}
    BY <2>1
  <2>2. QED
    BY <2>1, Zenon DEF Typedef
<1>3. /\ calls # << >> /\ StackOK(calls, vars, typedefs)
      /\ Start \in 1 .. Size /\ Start \in Nat /\ Size \in Nat
  BY <1>1, InLoopFacts
<1>4. skipped \in 0 .. 2 * Size + 2
  BY <1>3, SkipEnds, Zenon
<1>5. name \in {k, k + 1}
  BY DEF TypeEnd
<1> HIDE DEF skipped, name
<1>6. CASE Crash
  BY <1>3, <1>6, CrashKeeps
<1>7. CASE Continue(calls, skipped, << >>, FALSE) /\ UNCHANGED <<yardVars, ret, listVars, uses>>
  <2>1. UNCHANGED yardVars /\ UNCHANGED <<ret, uses>> /\ StackOK(calls, vars', typedefs')
    BY <1>3, <1>7 DEF listVars
  <2>2. QED
    BY <1>1, <1>4, <1>7, <2>1, StatementSkipped
<1>8. CASE /\ k <= Size /\ Continue(calls, name + 1, << >>, FALSE)
           /\ \E t : typedefs' \in {typedefs, Append(typedefs, t)}
           /\ UNCHANGED <<yardVars, ret, vars, uses>>
  <2>1. name + 1 \in 0 .. 2 * Size + 2
    BY <1>3, <1>5, <1>8
  <2>2. StackOK(calls, vars', typedefs')
    BY <1>3, <1>8, TypedefAdded
  <2>3. QED
    BY <1>1, <1>8, <2>1, <2>2, StatementSkipped
<1>9. QED
  BY <1>2, <1>6, <1>7, <1>8

-----------------------------------------------------------------------------
(* Functions.                                                              *)

LEMMA BeginFunctionKeeps ==
    ASSUME ParserInv, BeginFunction
    PROVE  ParserInv'
<1> DEFINE symbol == [Variable(toks[Ident], Ident, Len(calls), TypeSpec(toks[Start]))
                        EXCEPT !.args = "live"]
           f == [kind |-> "function", at |-> Start, prev |-> FindVar(toks[Ident]), arg |-> Start + 3,
                 type |-> TypeSpec(toks[Start]), params |-> << >>, void |-> FALSE, tree |-> <<Ident>>,
                 old_vars |-> Len(vars'), body |-> 0]
<1>1. InLoop /\ Start + 2 <= Size
  BY DEF BeginFunction, IsFunction
<1>2. /\ vars' \in {vars, Append(vars, symbol)} /\ calls' = Append(calls, f) /\ turn' = "argument"
      /\ UNCHANGED <<yardVars, ret, typedefs, uses>>
  BY DEF BeginFunction
<1>3. /\ calls # << >> /\ StackOK(calls, vars, typedefs) /\ Last(calls).kind = "block"
      /\ Start \in 1 .. Size /\ Start \in DOMAIN toks /\ Size \in Nat /\ status = "done" /\ Row(toks)
  BY <1>1, InLoopFacts
<1>4. Ident \in DOMAIN toks
  BY <1>1, <1>3, SizeFacts DEF Ident
<1>5. StackOK(calls, vars', typedefs)
  <2>1. /\ {"name", "at", "parent"} \subseteq DOMAIN symbol
        /\ symbol.at = Ident /\ symbol.parent = Len(calls)
    BY DEF Variable
  <2> HIDE DEF symbol
  <2>2. StackOK(calls, Append(vars, symbol), typedefs)
    <3>1. Last(calls).kind \in Keepers
      BY <1>3 DEF Keepers
    <3>2. QED
      BY <1>3, <1>4, <2>1, <3>1, VariableAdded
  <2>3. QED
    BY <1>2, <1>3, <2>2
<1>6. Len(vars') \in Nat
  BY <1>5, StackFacts
<1>7. AFunction(f) /\ Marks(f, vars', typedefs)
  BY <1>3, <1>6 DEF AFunction, Marks
<1>8. f.kind = "function" /\ f.arg = f.at + 3 /\ f.old_vars = Len(vars')
  OBVIOUS
<1> HIDE DEF f, symbol
<1>9. StackOK(calls', vars', typedefs)
  BY <1>2, <1>3, <1>5, <1>7, <1>8, CallPushed
<1>10. calls' # << >> /\ Last(calls') = f
  BY <1>2, <1>3, StackFacts, RowPushed
<1>11. TopIs(turn', calls', vars')
  BY <1>2, <1>8, <1>10 DEF TopIs
<1>12. turn' \in Turns /\ turn' # "end" /\ turn' # "value" /\ turn' # "arguments_read"
  BY <1>2 DEF Turns
<1>13. /\ toks' = toks /\ src' = src /\ status' \in {"run", "done", "abort", "undefined"}
       /\ ret' = ret /\ uses' = uses /\ typedefs' = typedefs
  BY <1>2, <1>3, YardStays
<1>14. QED
  BY <1>9, <1>10, <1>11, <1>12, <1>13, InvPrimed DEF ParserInv

\* What is known when an argument is read.
LEMMA AtArgumentFacts ==
    ASSUME ParserInv, AtArgument
    PROVE  /\ calls # << >> /\ StackOK(calls, vars, typedefs) /\ Last(calls).kind = "function"
           /\ AFunction(Top) /\ (FirstArgument => Len(vars) = Top.old_vars)
           /\ status = "done" /\ Size \in Nat /\ Row(toks)
           /\ Top.at \in 1 .. Size /\ Top.arg \in Nat /\ Top.arg >= Top.at + 3
<1>1. turn = "argument" /\ turn # "end" /\ status = "done"
  BY DEF AtArgument, Idle
<1>2. calls # << >> /\ StackOK(calls, vars, typedefs) /\ Row(toks)
  BY <1>1 DEF ParserInv
<1>3. TopIs("argument", calls, vars)
  BY <1>1, <1>2 DEF ParserInv
<1>4. Last(calls).kind = "function"
  BY <1>3 DEF TopIs
<1>5. AFunction(Top)
  BY <1>2, <1>4, TopFacts DEF Top, NthCall, ABlock, AFunction, APending, PendingKinds
<1>6. FirstArgument => Len(vars) = Top.old_vars
  BY <1>3 DEF TopIs, Top, FirstArgument
<1>7. Size \in Nat /\ DOMAIN toks = 1 .. Size
  BY <1>2, SizeFacts
<1>8. Top.at \in 1 .. Size /\ Top.arg \in Nat /\ Top.arg >= Top.at + 3
  BY <1>5, <1>7 DEF AFunction
<1>9. QED
  BY <1>1, <1>2, <1>4, <1>5, <1>6, <1>7, <1>8

\* The innermost call with other fields on top of those around it.
LEMMA FunctionChanged ==
    ASSUME NEW vs, StackOK(calls, vs, typedefs), calls # << >>, Last(calls).kind = "function",
           NEW f, AFunction(f), f.old_vars = Top.old_vars
    PROVE  /\ StackOK(Append(Outer, f), vs, typedefs)
           /\ Append(Outer, f) # << >> /\ Last(Append(Outer, f)) = f
           /\ Append(Outer, f) = [calls EXCEPT ![Len(calls)] = f]
<1>1. f.kind = "function" /\ f.kind \in Keepers /\ Last(calls).kind \in Keepers
  BY DEF AFunction, Keepers
<1> DEFINE ds == [calls EXCEPT ![Len(calls)] = f]
<1>2. StackOK(ds, vs, typedefs) /\ ds # << >> /\ Last(ds) = f
  BY <1>1, TopChanged DEF Top
<1>3. Append(Outer, f) = ds
  <2>1. calls \in Seq(ToSet(calls) \cup {f})
    BY StackFacts DEF Row
  <2>2. f \in ToSet(calls) \cup {f}
    OBVIOUS
  <2> HIDE DEF ds
  <2>3. Append(SYP!Front(calls), f) = [calls EXCEPT ![Len(calls)] = f]
    BY <2>1, <2>2, SYP!TopReplaced
  <2>4. QED
    BY <2>3 DEF ds, Outer, Front, SYP!Front
<1>4. QED
  BY <1>2, <1>3

\* The last argument has been read.
LEMMA ArgumentsRead ==
    ASSUME ParserInv, AtArgument, NEW f, AFunction(f), f.old_vars = Top.old_vars,
           StackOK(calls, vars', typedefs), NEW end \in 0 .. Size + 1, ArgumentsEnd(f, end),
           UNCHANGED <<yardVars, typedefs, uses>>
    PROVE  ParserInv'
<1>1. /\ calls # << >> /\ Last(calls).kind = "function" /\ status = "done" /\ Size \in Nat
  BY AtArgumentFacts
<1>2. calls' = Append(Outer, f) /\ ret' = [end |-> end, tree |-> << >>] /\ turn' = "arguments_read"
  BY DEF ArgumentsEnd
<1>3. StackOK(calls', vars', typedefs) /\ calls' # << >> /\ Last(calls') = f
  BY <1>1, <1>2, FunctionChanged
<1>4. TopIs(turn', calls', vars')
  BY <1>2, <1>3 DEF TopIs, AFunction
<1>5. turn' \in Turns /\ turn' # "end" /\ turn' # "value"
  BY <1>2 DEF Turns
<1>6. ret'.end \in 0 .. 2 * Size + 2 /\ ret'.end <= Size + 1
  <2>1. ret'.end = end
    BY <1>2
  <2>2. QED
    BY <1>1, <2>1
<1>7. /\ toks' = toks /\ src' = src /\ status' \in {"run", "done", "abort", "undefined"}
      /\ uses' = uses /\ typedefs' = typedefs
  BY <1>1, YardStays
<1>8. QED
  BY <1>3, <1>4, <1>5, <1>6, <1>7, InvPrimed DEF ParserInv

LEMMA MissingArgumentKeeps ==
    ASSUME ParserInv, MissingArgument
    PROVE  ParserInv'
BY AtArgumentFacts, CrashKeeps DEF MissingArgument

LEMMA VoidArgumentsKeeps ==
    ASSUME ParserInv, VoidArguments
    PROVE  ParserInv'
<1> DEFINE f == [Top EXCEPT !.void = TRUE]
<1>1. /\ AtArgument /\ Top.arg < Size /\ ArgumentsEnd(f, Top.arg + 1)
      /\ UNCHANGED <<yardVars, Parser_error_occurred, listVars, uses>>
  BY DEF VoidArguments
<1>2. AFunction(Top) /\ StackOK(calls, vars, typedefs) /\ Top.arg \in Nat /\ Size \in Nat
  BY <1>1, AtArgumentFacts
<1>3. AFunction(f) /\ f.old_vars = Top.old_vars
  BY <1>2 DEF AFunction
<1> HIDE DEF f
<1>4. StackOK(calls, vars', typedefs) /\ UNCHANGED <<yardVars, typedefs, uses>>
  BY <1>1, <1>2 DEF listVars
<1>5. Top.arg + 1 \in 0 .. Size + 1
  BY <1>1, <1>2
<1>6. QED
  BY <1>1, <1>3, <1>4, <1>5, ArgumentsRead

LEMMA NoArgumentsKeeps ==
    ASSUME ParserInv, NoArguments
    PROVE  ParserInv'
<1>1. /\ AtArgument /\ Top.arg <= Size /\ ArgumentsEnd(Top, Top.arg)
      /\ UNCHANGED <<yardVars, Parser_error_occurred, listVars, uses>>
  BY DEF NoArguments
<1>2. AFunction(Top) /\ StackOK(calls, vars, typedefs) /\ Top.arg \in Nat /\ Size \in Nat
  BY <1>1, AtArgumentFacts
<1>3. StackOK(calls, vars', typedefs) /\ UNCHANGED <<yardVars, typedefs, uses>>
  BY <1>1, <1>2 DEF listVars
<1>4. Top.arg \in 0 .. Size + 1
  BY <1>1, <1>2
<1>5. QED
  BY <1>1, <1>2, <1>3, <1>4, ArgumentsRead

LEMMA GiveUpFunctionKeeps ==
    ASSUME ParserInv, GiveUpFunction
    PROVE  ParserInv'
<1> DEFINE k == Top.old_vars
           freed == [vars EXCEPT ![k] = [vars[k] EXCEPT !.args = "freed", !.void = TRUE]]
           skipped == SkipTo(Top.at, {";"})
<1>1. AtArgument /\ FirstArgument /\ UNCHANGED <<yardVars, ret, typedefs, uses>>
  BY DEF GiveUpFunction, IsVoid
<1>2. vars' \in {vars, freed}
  <2>1. freed = [vars EXCEPT ![Top.old_vars].args = "freed", ![Top.old_vars].void = TRUE]
    OBVIOUS
  <2> HIDE DEF freed
  <2>2. QED
    BY <2>1 DEF GiveUpFunction
<1>3. Continue(Outer, skipped, << >>, FALSE)
  BY Zenon DEF GiveUpFunction
<1> HIDE DEF skipped
<1>4. /\ calls # << >> /\ StackOK(calls, vars, typedefs) /\ Last(calls).kind = "function"
      /\ Len(vars) = k /\ Top.at \in 1 .. Size /\ Top.at \in Nat /\ status = "done" /\ Size \in Nat
  BY <1>1, AtArgumentFacts
<1>5. skipped \in 0 .. 2 * Size + 2
  BY <1>4, SkipEnds, Zenon DEF skipped
<1>6. StackOK(calls, freed, typedefs) /\ Len(freed) = Len(vars)
  <2> DEFINE v == [vars[k] EXCEPT !.args = "freed", !.void = TRUE]
  <2>1. k \in DOMAIN vars => /\ DOMAIN v = DOMAIN vars[k]
                             /\ v.at = vars[k].at /\ v.parent = vars[k].parent
    <3>1. k \in DOMAIN vars => {"at", "parent"} \subseteq DOMAIN vars[k]
      BY <1>4 DEF StackOK, Declared
    <3>2. QED
      BY <3>1
  <2> HIDE DEF v
  <2>2. StackOK(calls, [vars EXCEPT ![k] = v], typedefs) /\ Len([vars EXCEPT ![k] = v]) = Len(vars)
    BY <1>4, <2>1, VariableChanged
  <2>3. QED
    BY <2>2 DEF v
<1> HIDE DEF freed
<1>7. StackOK(calls, vars', typedefs) /\ Len(vars') = k
  BY <1>2, <1>4, <1>6
<1>8. StackOK(Outer, vars', typedefs) /\ Outer # << >> /\ Last(Outer).kind = "block"
  <2>1. StackOK(Front(calls), vars', typedefs)
    BY <1>4, <1>7, FunctionPopped DEF Top
  <2>2. Front(calls) # << >> /\ Last(Front(calls)).kind = "block"
    BY <1>4, Surrounded
  <2>3. QED
    BY <2>1, <2>2 DEF Outer
<1>9. /\ toks' = toks /\ src' = src /\ status' \in {"run", "done", "abort", "undefined"}
      /\ ret' = ret /\ uses' \subseteq (DOMAIN toks) \X (DOMAIN toks) /\ typedefs' = typedefs
  BY <1>1, <1>4, YardStays DEF ParserInv
<1>10. QED
  BY <1>3, <1>5, <1>8, <1>9, StatementEnds

\* The next argument is read, or the first token that cannot be one.
LEMMA ArgumentKeeps ==
    ASSUME ParserInv, Argument
    PROVE  ParserInv'
<1> DEFINE endings == {";", ",", ")"}
           semicolon == {";"}
           brace == {"{"}
           a == Top.arg
           name == TypeEnd(a)
           unnamed == name > Size \/ toks[name] \notin Idents
           isVoid == ~unnamed /\ TypeRead(a) = "void"
           end == IF unnamed THEN SkipTo(a, endings)
                  ELSE IF isVoid THEN SkipTo(a, semicolon) ELSE name + 1
           f == IF unnamed \/ isVoid THEN Top
                ELSE [Top EXCEPT !.params = Append(@, TypeRead(a)), !.tree = Append(@, name)]
           v == Variable(toks[name], name, Len(calls), TypeRead(a))
<1>1. /\ AtArgument /\ ~PastEnd
      /\ IF unnamed \/ isVoid THEN UNCHANGED vars ELSE vars' = Append(vars, v)
      /\ \/ ArgumentsEnd(f, end)
         \/ ArgumentsEnd(f, SkipTo(end - 1, brace) - 1)
         \/ calls' = Append(Outer, [f EXCEPT !.arg = end + 1]) /\ UNCHANGED <<turn, ret>>
      /\ UNCHANGED <<yardVars, typedefs, uses>>
  BY Zenon DEF Argument
<1> HIDE DEF endings, semicolon, brace
<1>2. /\ calls # << >> /\ StackOK(calls, vars, typedefs) /\ Last(calls).kind = "function"
      /\ AFunction(Top) /\ status = "done" /\ Size \in Nat /\ Row(toks)
      /\ Top.at \in 1 .. Size /\ Top.arg \in Nat /\ Top.arg >= Top.at + 3
  BY <1>1, AtArgumentFacts
<1>3. PICK at \in Nat, size \in Nat :
        /\ at = Top.at /\ size = Size /\ a \in Nat /\ a >= at + 3 /\ a <= size /\ at >= 1
  <2>1. ~(Top.arg > Size)
    BY <1>1, Zenon DEF PastEnd
  <2>2. QED
    BY <1>2, <2>1
<1>4. name \in {a, a + 1}
  BY DEF TypeEnd
<1>5. end \in a .. size + 1
  <2>1. SkipTo(a, endings) \in 0 .. size /\ a <= SkipTo(a, endings)
    BY <1>2, <1>3, SkipsTo
  <2>2. SkipTo(a, semicolon) \in 0 .. size /\ a <= SkipTo(a, semicolon)
    BY <1>2, <1>3, SkipsTo
  <2>3. ~unnamed => name + 1 \in a .. size + 1
    BY <1>3, <1>4
  <2> HIDE DEF unnamed, isVoid, name
  <2>4. CASE unnamed
    BY <1>3, <2>1, <2>4
  <2>5. CASE isVoid /\ ~unnamed
    BY <1>3, <2>2, <2>5
  <2>6. CASE ~isVoid /\ ~unnamed
    BY <2>3, <2>6
  <2>7. QED
    BY <2>4, <2>5, <2>6
<1>6. /\ AFunction(f) /\ f.old_vars = Top.old_vars /\ f.at = at
  BY <1>2, <1>3 DEF AFunction
<1>7. StackOK(calls, vars', typedefs)
  <2>1. CASE unnamed \/ isVoid
    BY <1>1, <1>2, <2>1
  <2>2. CASE ~(unnamed \/ isVoid)
    <3>1. name \in DOMAIN toks
      BY <1>2, <1>3, <1>4, <2>2, SizeFacts
    <3>2. {"name", "at", "parent"} \subseteq DOMAIN v /\ v.at = name /\ v.parent = Len(calls)
      BY DEF Variable
    <3>3. Last(calls).kind \in Keepers
      BY <1>2 DEF Keepers
    <3> HIDE DEF v, name
    <3>4. StackOK(calls, Append(vars, v), typedefs)
      BY <1>2, <3>1, <3>2, <3>3, VariableAdded
    <3>5. QED
      BY <1>1, <2>2, <3>4
  <2>3. QED
    BY <2>1, <2>2
<1> HIDE DEF end, f, v, unnamed, isVoid, name, a
<1>8. CASE ArgumentsEnd(f, end)
  <2>1. end \in 0 .. Size + 1
    BY <1>3, <1>5
  <2>2. QED
    BY <1>1, <1>6, <1>7, <1>8, <2>1, ArgumentsRead
<1>9. CASE ArgumentsEnd(f, SkipTo(end - 1, brace) - 1)
  <2>1. end - 1 \in Nat /\ 1 <= end - 1 /\ 1 <= size
    BY <1>3, <1>5
  <2>2. SkipTo(end - 1, brace) \in 0 .. size /\ 1 <= SkipTo(end - 1, brace)
    BY <1>2, <1>3, <2>1, SkipsTo
  <2>3. SkipTo(end - 1, brace) - 1 \in 0 .. Size + 1
    BY <1>3, <2>2
  <2>4. QED
    BY <1>1, <1>6, <1>7, <1>9, <2>3, ArgumentsRead
<1>10. CASE calls' = Append(Outer, [f EXCEPT !.arg = end + 1]) /\ UNCHANGED <<turn, ret>>
  <2> DEFINE g == [f EXCEPT !.arg = end + 1]
  <2>1. g.arg = end + 1 /\ g.at = at /\ g.old_vars = Top.old_vars /\ g.kind = "function"
        /\ {"kind", "at", "arg", "old_vars"} \subseteq DOMAIN g
    BY <1>6 DEF AFunction
  <2>2. end + 1 \in Nat /\ end + 1 >= at + 3 /\ end + 1 # at + 3
    BY <1>3, <1>5
  <2>3. AFunction(g)
    BY <1>2, <1>3, <1>6, <2>1, <2>2 DEF AFunction
  <2> HIDE DEF g
  <2>4. StackOK(calls', vars', typedefs) /\ calls' # << >> /\ Last(calls') = g
    BY <1>2, <1>7, <1>10, <2>1, <2>3, FunctionChanged DEF g
  <2>5. turn' = "argument" /\ ret' = ret
    BY <1>1, <1>10 DEF AtArgument
  <2>6. TopIs(turn', calls', vars')
    BY <2>1, <2>2, <2>4, <2>5 DEF TopIs
  <2>7. turn' \in Turns /\ turn' # "end" /\ turn' # "value" /\ turn' # "arguments_read"
    BY <2>5 DEF Turns
  <2>8. /\ toks' = toks /\ src' = src /\ status' \in {"run", "done", "abort", "undefined"}
        /\ uses' = uses /\ typedefs' = typedefs
    BY <1>1, <1>2, YardStays
  <2>9. QED
    BY <2>4, <2>5, <2>6, <2>7, <2>8, InvPrimed DEF ParserInv
<1>11. QED
  BY <1>1, <1>8, <1>9, <1>10

\* The declaration ends, or the function's body begins.
LEMMA EndArgumentsKeeps ==
    ASSUME ParserInv, EndArguments
    PROVE  ParserInv'
<1> DEFINE f == Top
           body == ret.end < Size /\ toks[ret.end + 1] = "{"
           g == [Top EXCEPT !.body = ret.end + 1]
           block == Block(ret.end + 2, 1, TRUE, FALSE, f.type)
           k == f.old_vars
           declared == [vars EXCEPT ![k] = [@ EXCEPT !.params = f.params, !.void = f.void,
                                                     !.defined = body]]
           known == IF f.prev # 0 THEN vars ELSE declared
<1>1. turn = "arguments_read" /\ status = "done"
  BY Zenon DEF EndArguments, Idle
<1>2. \/ Crash
      \/ /\ IF body
              THEN /\ CallParse([calls EXCEPT ![Len(calls)].body = ret.end + 1], block)
                   /\ vars' = known
              ELSE /\ Continue(Outer, ret.end + 1, Group(f.at, f.tree), FALSE)
                   /\ vars' = Truncated(known, k)
         /\ UNCHANGED <<yardVars, ret, typedefs, uses>>
  BY Zenon DEF EndArguments
<1>3. body => ret.end < Size
  OBVIOUS
<1> HIDE DEF body
<1>4. turn # "end"
  BY <1>1
<1>5. /\ calls # << >> /\ StackOK(calls, vars, typedefs) /\ Row(toks)
      /\ ret.end \in 0 .. 2 * Size + 2 /\ ret.end <= Size + 1
      /\ uses \subseteq (DOMAIN toks) \X (DOMAIN toks)
  BY <1>1, <1>4 DEF ParserInv
<1>6. Last(calls).kind = "function" /\ Size \in Nat
  <2>1. TopIs("arguments_read", calls, vars)
    BY <1>1, <1>5 DEF ParserInv
  <2>2. QED
    BY <1>5, <2>1, SizeFacts DEF TopIs
<1>7. AFunction(f)
  BY <1>5, <1>6, TopFacts DEF Top, NthCall, ABlock, AFunction, APending, PendingKinds
<1>8. StackOK(calls, known, typedefs) /\ Len(known) = Len(vars)
  <2> DEFINE v == [vars[k] EXCEPT !.params = f.params, !.void = f.void, !.defined = body]
  <2>1. k \in DOMAIN vars => {"at", "parent"} \subseteq DOMAIN vars[k]
    BY <1>5 DEF StackOK, Declared
  <2>2. k \in DOMAIN vars => /\ DOMAIN v = DOMAIN vars[k]
                             /\ v.at = vars[k].at /\ v.parent = vars[k].parent
    BY <2>1
  <2>3. declared = [vars EXCEPT ![k] = v]
    OBVIOUS
  <2> HIDE DEF v, declared
  <2>4. StackOK(calls, [vars EXCEPT ![k] = v], typedefs) /\ Len([vars EXCEPT ![k] = v]) = Len(vars)
    BY ONLY <1>5, <2>2, VariableChanged
  <2>5. StackOK(calls, declared, typedefs) /\ Len(declared) = Len(vars)
    BY <2>3, <2>4
  <2>6. QED
    BY <1>5, <2>5
<1> HIDE DEF known
<1>9. CASE Crash
  BY <1>5, <1>9, CrashKeeps
<1>10. CASE /\ body /\ CallParse([calls EXCEPT ![Len(calls)].body = ret.end + 1], block)
            /\ vars' = known /\ UNCHANGED <<yardVars, ret, typedefs, uses>>
  <2> DEFINE stack == [calls EXCEPT ![Len(calls)] = g]
  <2>1. [calls EXCEPT ![Len(calls)].body = ret.end + 1] = stack
    <3>1. Top = calls[Len(calls)]
      BY <1>5, TopFacts DEF Top
    <3>2. QED
      BY <3>1
  <2>2. AFunction(g) /\ g.old_vars = f.old_vars /\ g.kind = "function"
    BY <1>7 DEF AFunction
  <2> HIDE DEF g
  <2>3. StackOK(stack, known, typedefs) /\ stack # << >> /\ Last(stack) = g
    <3>1. /\ StackOK(Append(Outer, g), known, typedefs)
          /\ Append(Outer, g) # << >> /\ Last(Append(Outer, g)) = g
          /\ Append(Outer, g) = [calls EXCEPT ![Len(calls)] = g]
      BY ONLY <1>5, <1>6, <1>8, <2>2, FunctionChanged
    <3>2. QED
      BY <3>1
  <2>4. ABlock(block) /\ block.kind = "block" /\ Marks(block, known, typedefs)
    <3>1. ret.end + 2 \in Nat /\ (ret.end + 2) - 1 \in 0 .. 2 * Size + 2
      BY <1>3, <1>5, <1>6, <1>10
    <3>2. ABlock(block) /\ block.kind = "block" /\ Marks(block, vars, typedefs)
      <4> DEFINE start == ret.end + 2
      <4>1. start \in Nat /\ start - 1 \in 0 .. 2 * Size + 2
        BY <3>1
      <4> HIDE DEF start
      <4>2. ASSUME NEW func
            PROVE  LET b == Block(start, 1, TRUE, FALSE, func)
                   IN ABlock(b) /\ b.kind = "block" /\ Marks(b, vars, typedefs)
        BY <1>5, <4>1, BlockBegins
      <4>3. QED
        BY <4>2 DEF start
    <3> HIDE DEF block
    <3>3. QED
      BY <1>8, <3>2 DEF Marks
  <2> HIDE DEF stack, block
  <2>5. /\ toks' = toks /\ src' = src /\ status' \in {"run", "done", "abort", "undefined"}
        /\ ret' = ret /\ uses' \subseteq (DOMAIN toks) \X (DOMAIN toks) /\ typedefs' = typedefs
        /\ vars' = known /\ CallParse(stack, block)
    BY <1>1, <1>5, <1>10, <2>1, YardStays
  <2>6. Last(stack).kind # "block"
    BY <2>2, <2>3
  <2>7. QED
    BY <2>3, <2>4, <2>5, <2>6, ParseCalled
<1>11. CASE /\ Continue(Outer, ret.end + 1, Group(f.at, f.tree), FALSE)
            /\ vars' = Truncated(known, k) /\ UNCHANGED <<yardVars, ret, typedefs, uses>>
  <2>1. StackOK(Outer, vars', typedefs)
    BY <1>5, <1>6, <1>8, <1>11, FunctionPopped DEF Outer, Top
  <2>2. Outer # << >> /\ Last(Outer).kind = "block"
    BY <1>5, <1>6, Surrounded DEF Outer
  <2>3. ret.end + 1 \in 0 .. 2 * Size + 2
    BY <1>5, <1>6
  <2>4. /\ toks' = toks /\ src' = src /\ status' \in {"run", "done", "abort", "undefined"}
        /\ ret' = ret /\ uses' \subseteq (DOMAIN toks) \X (DOMAIN toks) /\ typedefs' = typedefs
    BY <1>1, <1>5, <1>11, YardStays
  <2>5. QED
    BY <1>11, <2>1, <2>2, <2>3, <2>4, StatementEnds
<1>12. QED
  BY <1>2, <1>9, <1>10, <1>11

LEMMA EndFunctionKeeps ==
    ASSUME ParserInv, EndFunction
    PROVE  ParserInv'
<1>1. /\ turn = "block_read" /\ status = "done" /\ Top.kind = "function"
      /\ vars' = Truncated(vars, Top.old_vars)
      /\ UNCHANGED <<yardVars, ret, typedefs, uses>>
  BY DEF EndFunction, Idle
<1>2. PICK tree : Continue(Outer, ret.end, tree, FALSE)
  BY DEF EndFunction
<1>3. turn # "end" /\ Last(calls).kind = "function"
  BY <1>1 DEF Top
<1>4. /\ calls # << >> /\ StackOK(calls, vars, typedefs) /\ ret.end \in 0 .. 2 * Size + 2
      /\ uses \subseteq (DOMAIN toks) \X (DOMAIN toks)
  BY <1>3 DEF ParserInv
<1>5. StackOK(Outer, vars', typedefs') /\ Outer # << >> /\ Last(Outer).kind = "block"
  BY <1>1, <1>3, <1>4, FunctionPopped, Surrounded DEF Outer, Top
<1>6. /\ toks' = toks /\ src' = src /\ status' \in {"run", "done", "abort", "undefined"}
      /\ ret' = ret /\ uses' \subseteq (DOMAIN toks) \X (DOMAIN toks)
  BY <1>1, <1>4, YardStays
<1>7. QED
  BY <1>2, <1>4, <1>5, <1>6, StatementEnds

-----------------------------------------------------------------------------
(* if, while and for.                                                      *)

LEMMA StatementHeadKeeps ==
    ASSUME ParserInv, StatementHead
    PROVE  ParserInv'
<1> DEFINE skipped == SkipTo(Start, {";"})
           kind == toks[Start]
           stack == Append(calls, Pending(kind, Start, << >>))
<1>1. InLoop /\ kind \in {"if", "while", "for"} /\ UNCHANGED <<ret, listVars, uses>>
  BY AtLoop, Zenon DEF StatementHead, At
<1>2. \/ Continue(calls, skipped, << >>, FALSE) /\ UNCHANGED yardVars
      \/ ~NoParen /\ (\E stop : CallYard(stack, Start + 2, stop)) /\ UNCHANGED toks
  BY Zenon DEF StatementHead
<1> HIDE DEF skipped
<1>3. /\ calls # << >> /\ StackOK(calls, vars, typedefs) /\ Last(calls).kind = "block"
      /\ Start \in 1 .. Size /\ Start \in Nat /\ Start \in DOMAIN toks /\ Size \in Nat
  BY <1>1, InLoopFacts
<1>4. skipped \in 0 .. 2 * Size + 2
  BY <1>3, SkipEnds, Zenon DEF skipped
<1>5. CASE Continue(calls, skipped, << >>, FALSE) /\ UNCHANGED yardVars
  <2>1. UNCHANGED <<ret, uses>> /\ StackOK(calls, vars', typedefs')
    BY <1>1, <1>3 DEF listVars
  <2>2. QED
    BY <1>1, <1>4, <1>5, <2>1, StatementSkipped
<1>6. CASE ~NoParen /\ (\E stop : CallYard(stack, Start + 2, stop)) /\ UNCHANGED toks
  <2>1. kind \in PendingKinds /\ kind # "variable"
    BY <1>1 DEF PendingKinds
  <2> HIDE DEF kind
  <2>2. StackOK(stack, vars, typedefs) /\ stack # << >> /\ Last(stack).kind \in PendingKinds
    BY <1>3, <2>1, PendingFacts
  <2> HIDE DEF stack
  <2>3. Start + 2 \in 1 .. Size + 1
    BY <1>3, <1>6 DEF NoParen
  <2>4. UNCHANGED <<ret, vars, typedefs>> /\ uses' \subseteq (DOMAIN toks) \X (DOMAIN toks)
    BY <1>1 DEF listVars, ParserInv
  <2>5. QED
    BY <1>6, <2>2, <2>3, <2>4, YardCalled
<1>7. QED
  BY <1>2, <1>5, <1>6

\* What is read in the block around goes on as another call.
LEMMA PendingReplaced ==
    ASSUME ParserInv, calls # << >>, Top.kind \notin Keepers, NEW c, APending(c)
    PROVE  /\ StackOK(Append(Outer, c), vars, typedefs) /\ Append(Outer, c) # << >>
           /\ Last(Append(Outer, c)) = c
<1>1. StackOK(Outer, vars, typedefs) /\ Outer # << >> /\ Last(Outer).kind = "block"
  BY Waiting
<1>2. c.kind # "block" /\ c.kind \notin Keepers
  BY DEF APending, PendingKinds, Keepers
<1>3. Marks(c, vars, typedefs)
  BY <1>2 DEF Marks
<1>4. StackOK(Append(Outer, c), vars, typedefs)
  BY <1>1, <1>2, <1>3, CallPushed
<1>5. Append(Outer, c) # << >> /\ Last(Append(Outer, c)) = c
  BY <1>1, StackFacts, RowPushed
<1>6. QED
  BY <1>4, <1>5

LEMMA NextInHeadKeeps ==
    ASSUME ParserInv, NextInHead
    PROVE  ParserInv'
<1> DEFINE next == [Top EXCEPT !.kind = IF @ = "for" THEN "for_cond" ELSE "for_inc",
                               !.tree = @ \o result]
<1>1. /\ Read({"for", "for_cond"}) /\ i <= Size /\ NoteUses
      /\ \E stop : CallYard(Append(Outer, next), i + 1, stop)
      /\ UNCHANGED <<toks, ret, listVars>>
  BY DEF NextInHead
<1>2. /\ calls # << >> /\ APending(Top) /\ Size \in Nat /\ i \in 1 .. 2 * Size + 2
      /\ uses \cup UsesIn(result) \subseteq (DOMAIN toks) \X (DOMAIN toks)
  BY <1>1, AfterRead
<1>3. APending(next) /\ next.kind \in PendingKinds
  BY <1>2 DEF APending, PendingKinds
<1> HIDE DEF next
<1>4. Top.kind \notin Keepers
  BY <1>2 DEF APending, PendingKinds, Keepers
<1>5. /\ StackOK(Append(Outer, next), vars, typedefs) /\ Append(Outer, next) # << >>
      /\ Last(Append(Outer, next)).kind \in PendingKinds
  BY <1>2, <1>3, <1>4, PendingReplaced
<1>6. i + 1 \in 1 .. Size + 1
  BY <1>1, <1>2
<1>7. /\ UNCHANGED <<toks, ret, vars, typedefs>>
      /\ uses' \subseteq (DOMAIN toks) \X (DOMAIN toks)
  BY <1>1, <1>2 DEF listVars, NoteUses
<1>8. QED
  BY <1>1, <1>5, <1>6, <1>7, YardCalled

LEMMA BrokenHeadKeeps ==
    ASSUME ParserInv, BrokenHead
    PROVE  ParserInv'
<1> DEFINE skipped == SkipTo(Top.at, {";"})
<1>1. PICK kinds : Read(kinds)
  BY Zenon DEF BrokenHead
<1>2. Continue(Outer, skipped, << >>, FALSE) /\ UNCHANGED <<yardVars, ret, listVars, uses>>
  BY Zenon DEF BrokenHead
<1> HIDE DEF skipped
<1>3. APending(Top) /\ Row(toks)
  BY <1>1, AfterRead
<1>4. Top.at \in Nat
  BY <1>3, SizeFacts DEF APending
<1>5. skipped \in 0 .. 2 * Size + 2
  BY <1>4, SkipEnds, Zenon DEF skipped
<1>6. UNCHANGED yardVars /\ UNCHANGED <<ret, vars, typedefs>> /\ uses' = uses
  BY <1>2 DEF listVars
<1>7. QED
  BY <1>1, <1>2, <1>5, <1>6, ReadDone

LEMMA EmptyBodyKeeps ==
    ASSUME ParserInv, EmptyBody
    PROVE  ParserInv'
<1>1. Read(HeadKinds) /\ NoteUses /\ UNCHANGED <<yardVars, ret, listVars>> /\ i < Size
  BY Zenon DEF EmptyBody, NoBody
<1>2. PICK end \in {i, i + 1} : \E tree : Continue(Outer, end, tree, FALSE)
  <2>1. (IF Top.kind = "if" THEN i ELSE i + 1) \in {i, i + 1}
    OBVIOUS
  <2>2. Continue(Outer, IF Top.kind = "if" THEN i ELSE i + 1, Group(Top.at, Top.tree \o result), FALSE)
    BY DEF EmptyBody
  <2>3. QED
    BY <2>1, <2>2
<1>3. i \in 1 .. 2 * Size + 2 /\ Size \in Nat
  BY <1>1, AfterRead
<1>4. end \in 0 .. 2 * Size + 2
  BY <1>1, <1>2, <1>3
<1>5. UNCHANGED yardVars /\ UNCHANGED <<ret, vars, typedefs>>
  BY <1>1 DEF listVars
<1>6. QED
  BY <1>1, <1>2, <1>4, <1>5, ReadDone

\* A body is read, from `first' on.
LEMMA BodyCalled ==
    ASSUME ParserInv, calls # << >>, Top.kind \notin Keepers, status = "done",
           NEW pending, APending(pending), NEW first \in 1 .. 2 * Size + 2,
           NEW curly, CallBody(pending, first, curly),
           UNCHANGED yardVars, UNCHANGED <<ret, vars, typedefs>>,
           uses' \subseteq (DOMAIN toks) \X (DOMAIN toks)
    PROVE  ParserInv'
<1> DEFINE b == Last(Outer)
           block == IF curly THEN Block(first + 1, b.deep + 1, TRUE, FALSE, b.func)
                    ELSE Block(first, b.deep, FALSE, TRUE, b.func)
           stack == Append(Outer, pending)
<1>1. CallParse(stack, block)
  BY DEF CallBody
<1>2. StackOK(calls, vars, typedefs) /\ Size \in Nat
  BY Waiting
<1>3. ABlock(block) /\ block.kind = "block" /\ Marks(block, vars, typedefs)
  <2>1. /\ first \in Nat /\ first - 1 \in 0 .. 2 * Size + 2
        /\ first + 1 \in Nat /\ (first + 1) - 1 \in 0 .. 2 * Size + 2
    BY <1>2
  <2>2. ASSUME NEW deep, NEW func
        PROVE  LET c == Block(first + 1, deep, TRUE, FALSE, func)
               IN ABlock(c) /\ c.kind = "block" /\ Marks(c, vars, typedefs)
    BY <1>2, <2>1, BlockBegins
  <2>3. ASSUME NEW deep, NEW func
        PROVE  LET c == Block(first, deep, FALSE, TRUE, func)
               IN ABlock(c) /\ c.kind = "block" /\ Marks(c, vars, typedefs)
    BY <1>2, <2>1, BlockBegins
  <2>4. CASE curly
    BY <2>2, <2>4
  <2>5. CASE ~curly
    BY <2>3, <2>5
  <2>6. QED
    BY <2>4, <2>5
<1>4. StackOK(stack, vars, typedefs) /\ stack # << >> /\ Last(stack) = pending
  BY PendingReplaced
<1>5. pending.kind # "block"
  BY DEF APending, PendingKinds
<1> HIDE DEF stack, block
<1>6. toks' = toks /\ src' = src /\ status' \in {"run", "done", "abort", "undefined"}
  BY YardStays
<1>7. QED
  BY <1>1, <1>3, <1>4, <1>5, <1>6, ParseCalled

LEMMA BeginBodyKeeps ==
    ASSUME ParserInv, BeginBody
    PROVE  ParserInv'
<1>1. /\ Read(HeadKinds) /\ i + 2 <= Size /\ NoteUses /\ UNCHANGED <<yardVars, ret, listVars>>
      /\ \E curly, tree :
           CallBody([kind |-> "body", at |-> Top.at, tree |-> tree,
                     first |-> i + 1, curly |-> curly, isElse |-> FALSE], i + 1, curly)
  BY Zenon DEF BeginBody
<1>2. /\ calls # << >> /\ APending(Top) /\ Size \in Nat /\ i \in 1 .. 2 * Size + 2
      /\ uses \cup UsesIn(result) \subseteq (DOMAIN toks) \X (DOMAIN toks) /\ status = "done"
  BY <1>1, AfterRead
<1>3. PICK curly, pending : CallBody(pending, i + 1, curly) /\ APending(pending)
  <2>1. ASSUME NEW curly, NEW tree
        PROVE  APending([kind |-> "body", at |-> Top.at, tree |-> tree,
                         first |-> i + 1, curly |-> curly, isElse |-> FALSE])
    BY <1>2 DEF APending, PendingKinds
  <2>2. QED
    BY <1>1, <2>1
<1>4. Top.kind \notin Keepers
  BY <1>2 DEF APending, PendingKinds, Keepers
<1>5. i + 1 \in 1 .. 2 * Size + 2
  BY <1>1, <1>2
<1>6. /\ UNCHANGED yardVars /\ UNCHANGED <<ret, vars, typedefs>>
      /\ uses' \subseteq (DOMAIN toks) \X (DOMAIN toks)
  BY <1>1, <1>2 DEF listVars, NoteUses
<1>7. QED
  BY <1>2, <1>3, <1>4, <1>5, <1>6, BodyCalled

\* The body of an if, while, for or else has been read.
LEMMA BodyFacts ==
    ASSUME ParserInv, BodyRead
    PROVE  /\ calls # << >> /\ Top.kind \notin Keepers /\ status = "done" /\ APending(Top)
           /\ ret.end \in 0 .. 2 * Size + 2 /\ Size \in Nat /\ Top.kind = "body"
           /\ uses \subseteq (DOMAIN toks) \X (DOMAIN toks)
<1>1. turn = "block_read" /\ turn # "end" /\ status = "done" /\ Top.kind = "body"
  BY DEF BodyRead, Idle
<1>2. calls # << >> /\ Top.kind \notin Keepers
  BY <1>1 DEF ParserInv, Keepers
<1>3. QED
  BY <1>1, <1>2, Waiting DEF ParserInv

LEMMA BeginElseKeeps ==
    ASSUME ParserInv, BeginElse
    PROVE  ParserInv'
<1> DEFINE curly == Type(ret.end + 2) = "else"
           pending == [Top EXCEPT !.tree = BodyTree, !.first = ret.end + 2, !.curly = curly,
                                  !.isElse = TRUE]
<1>1. /\ BodyRead /\ ret.end < Size /\ CallBody(pending, ret.end + 2, curly)
      /\ UNCHANGED <<yardVars, ret, listVars, uses>>
  BY DEF BeginElse, AtElse
<1>2. /\ calls # << >> /\ Top.kind \notin Keepers /\ status = "done" /\ APending(Top)
      /\ ret.end \in 0 .. 2 * Size + 2 /\ Size \in Nat
      /\ uses \subseteq (DOMAIN toks) \X (DOMAIN toks)
  BY <1>1, BodyFacts
<1>3. APending(pending)
  BY <1>2 DEF APending
<1> HIDE DEF pending, curly
<1>4. ret.end + 2 \in 1 .. 2 * Size + 2
  BY <1>1, <1>2
<1>5. /\ UNCHANGED yardVars /\ UNCHANGED <<ret, vars, typedefs>>
      /\ uses' \subseteq (DOMAIN toks) \X (DOMAIN toks)
  BY <1>1, <1>2 DEF listVars
<1>6. QED
  BY <1>1, <1>2, <1>3, <1>4, <1>5, BodyCalled

LEMMA EndBodyKeeps ==
    ASSUME ParserInv, EndBody
    PROVE  ParserInv'
<1>1. BodyRead /\ UNCHANGED <<yardVars, ret, listVars, uses>>
  BY DEF EndBody
<1>2. PICK tree : Continue(Outer, ret.end, tree, FALSE)
  BY DEF EndBody
<1>3. /\ calls # << >> /\ Top.kind \notin Keepers /\ status = "done"
      /\ ret.end \in 0 .. 2 * Size + 2 /\ uses \subseteq (DOMAIN toks) \X (DOMAIN toks)
  BY <1>1, BodyFacts
<1>4. UNCHANGED yardVars /\ UNCHANGED <<ret, vars, typedefs>> /\ uses' = uses
  BY <1>1 DEF listVars
<1>5. QED
  BY <1>2, <1>3, <1>4, StatementDone

-----------------------------------------------------------------------------
(* The theorem.                                                            *)

LEMMA SamePasses ==
    ASSUME NEW text
    PROVE  Passes(text) = SYP!Passes(text)
<1>1. Idents = SYP!Idents /\ Unary = SYP!Unary /\ Stars = SYP!Stars
  BY DEF Idents, Names, Unary, Stars, SYP!Idents, SYP!Names, SYP!Unary, SYP!Stars
<1>2. MergeStrings(text) = SYP!MergeStrings(text)
  BY DEF MergeStrings, Cardinality, SYP!MergeStrings, SYP!Cardinality
<1>3. ASSUME NEW row PROVE BinToUnary(row) = SYP!BinToUnary(row)
  BY <1>1 DEF BinToUnary, ShouldConvert, IsTypecast, SYP!BinToUnary, SYP!ShouldConvert, SYP!IsTypecast
<1>4. ASSUME NEW row PROVE PreToPostFix(row) = SYP!PreToPostFix(row)
  BY <1>1 DEF PreToPostFix, SYP!PreToPostFix
<1>5. QED
  BY <1>2, <1>3, <1>4 DEF Passes, SYP!Passes

LEMMA InitRight == Init => ParserInv
<1> SUFFICES ASSUME Init PROVE ParserInv
  OBVIOUS
<1> DEFINE first == Block(1, 0, TRUE, FALSE, "none")
<1>1. PICK text \in Texts : toks = Passes(text)
  BY DEF Init
<1>2. /\ vars = << >> /\ typedefs = << >> /\ calls = <<first>> /\ turn = "statement"
      /\ ret = [end |-> 0, tree |-> << >>] /\ uses = {} /\ status = "done"
      /\ ScopeOK(src)
  BY DEF Init, ScopeOK, Idents, Names, SYP!Idents, SYP!Names
<1>3. Row(toks)
  <2>1. text \in Seq(STRING)
    BY TextsAssumption
  <2>2. toks \in Seq(SYP!ToSet(toks))
    BY <1>1, <2>1, SamePasses, SYP!PassesLeave
  <2>3. QED
    BY <2>2 DEF Row, ToSet, SYP!ToSet
<1>4. Size \in Nat
  BY <1>3, SizeFacts
<1>5. /\ ABlock(first) /\ first.kind = "block" /\ first.old_vars = 0 /\ first.old_typedefs = 0
  BY <1>2, <1>4 DEF Block, ABlock
<1> HIDE DEF first
<1>6. /\ Row(calls) /\ Row(vars) /\ Row(typedefs) /\ DOMAIN calls = {1} /\ calls[1] = first
      /\ Len(vars) = 0 /\ Len(typedefs) = 0 /\ DOMAIN vars = {} /\ calls # << >> /\ Last(calls) = first
  <2>1. <<first>> \in Seq({first}) /\ << >> \in Seq({}) /\ Len(<<first>>) = 1 /\ <<first>>[1] = first
    BY EmptySeq
  <2>2. Row(calls) /\ Row(vars) /\ Row(typedefs)
    BY <1>2, <2>1, RowOf
  <2>3. QED
    BY <1>2, <2>1, <2>2, RowFacts DEF Last
<1>7. StackOK(calls, vars, typedefs)
  <2>1. NthCall(calls, 1)
    BY <1>5, <1>6 DEF NthCall
  <2>2. Marked(calls, vars, typedefs, 1)
    BY <1>5, <1>6 DEF Marked
  <2>3. \A m, n \in DOMAIN calls : m < n => Around(calls[m], calls[n])
    BY <1>6
  <2>4. QED
    BY <1>6, <2>1, <2>2, <2>3 DEF StackOK
<1>8. TopIs(turn, calls, vars)
  BY <1>2, <1>5, <1>6 DEF TopIs
<1>9. ret.end \in 0 .. 2 * Size + 2
  BY <1>2, <1>4
<1>10. turn \in Turns /\ turn \notin {"end", "value", "arguments_read"}
  BY <1>2 DEF Turns
<1>11. QED
  BY <1>2, <1>3, <1>6, <1>7, <1>8, <1>9, <1>10 DEF ParserInv

LEMMA NextKeeps ==
    ASSUME ParserInv, Next
    PROVE  ParserInv'
<1>1. CASE Yard
  BY <1>1, YardKeeps
<1>2. CASE EndParse \/ RightCurly \/ NestedBlock \/ EndNestedBlock
  BY <1>2, EndParseKeeps, RightCurlyKeeps, NestedBlockKeeps, EndNestedBlockKeeps
<1>3. CASE Expression \/ EndExpression \/ Return \/ EndReturn
  BY <1>3, ExpressionKeeps, EndExpressionKeeps, ReturnKeeps, EndReturnKeeps
<1>4. CASE UnnamedVariable \/ VoidVariable \/ DeclareVariable \/ EndVariable \/ Typedef
  BY <1>4, UnnamedVariableKeeps, VoidVariableKeeps, DeclareVariableKeeps, EndVariableKeeps,
     TypedefKeeps
<1>5. CASE BeginFunction \/ MissingArgument \/ VoidArguments \/ GiveUpFunction
  BY <1>5, BeginFunctionKeeps, MissingArgumentKeeps, VoidArgumentsKeeps, GiveUpFunctionKeeps
<1>6. CASE NoArguments \/ Argument \/ EndArguments \/ EndFunction
  BY <1>6, NoArgumentsKeeps, ArgumentKeeps, EndArgumentsKeeps, EndFunctionKeeps
<1>7. CASE StatementHead \/ NextInHead \/ BrokenHead \/ EmptyBody
  BY <1>7, StatementHeadKeeps, NextInHeadKeeps, BrokenHeadKeeps, EmptyBodyKeeps
<1>8. CASE BeginBody \/ BeginElse \/ EndBody
  BY <1>8, BeginBodyKeeps, BeginElseKeeps, EndBodyKeeps
<1>9. QED
  BY <1>1, <1>2, <1>3, <1>4, <1>5, <1>6, <1>7, <1>8 DEF Next

LEMMA StutterKeeps ==
    ASSUME ParserInv, UNCHANGED allVars
    PROVE  ParserInv'
<1>1. /\ UNCHANGED <<src, toks, i, yards, err, status, result>>
      /\ UNCHANGED <<calls, turn, ret, vars, typedefs, uses>>
  BY DEF allVars, yardVars, listVars
<1>2. YardRuns => YardRuns'
  BY <1>1 DEF YardRuns, SYP!YardInv, SYP!NthYard, SYP!Yards, SYP!Nodes, SYP!Places, SYP!OperatorsAt,
              SYP!InReach, SYP!ToSet
<1>3. StackOK(calls, vars, typedefs)'
  BY <1>1, StackPrimed DEF ParserInv
<1>4. TopIs(turn, calls, vars)' = TopIs(turn, calls, vars)
  BY <1>1 DEF TopIs
<1>5. Row(toks)' /\ Size' = Size /\ Turns' = Turns
  BY <1>1 DEF ParserInv, Row, Size, Turns
<1>6. QED
  BY <1>1, <1>2, <1>3, <1>4, <1>5 DEF ParserInv

LEMMA TypesFollow == ParserInv => TypeOK
<1> SUFFICES ASSUME ParserInv PROVE TypeOK
  OBVIOUS
<1>1. StackOK(calls, vars, typedefs) /\ Size \in Nat
  BY SizeFacts DEF ParserInv
<1>2. ASSUME NEW n \in DOMAIN calls PROVE CallOK(calls[n])
  <2>1. NthCall(calls, n) /\ Marked(calls, vars, typedefs, n)
    BY <1>1 DEF StackOK
  <2>2. ABlock(calls[n]) \/ AFunction(calls[n]) \/ APending(calls[n])
    BY <2>1 DEF NthCall
  <2>3. ASSUME calls[n].kind = "block"
        PROVE  /\ calls[n].old_vars \in 0 .. Len(vars) /\ calls[n].old_typedefs \in 0 .. Len(typedefs)
               /\ calls[n].prev \in 0 .. 2 * Size + 2
    <3>1. ABlock(calls[n])
      BY <2>2, <2>3 DEF AFunction, APending, PendingKinds
    <3>2. calls[n].old_vars <= Len(vars) /\ calls[n].old_typedefs <= Len(typedefs)
      BY <2>1, <2>3 DEF Marked, Keepers
    <3>3. QED
      BY <1>1, <3>1, <3>2, StackFacts DEF ABlock
  <2>4. calls[n].kind # "block" => calls[n].at \in DOMAIN toks
    BY <2>2 DEF ABlock, AFunction, APending
  <2>5. calls[n].kind \in {"block", "nested", "expression", "return", "variable", "function",
                           "if", "while", "for", "for_cond", "for_inc", "body"}
    BY <2>2 DEF ABlock, AFunction, APending, PendingKinds
  <2>6. QED
    BY <2>3, <2>4, <2>5 DEF CallOK
<1>3. ASSUME NEW v \in ToSet(vars)
      PROVE  /\ v.at \in DOMAIN toks
             /\ v.parent \in DOMAIN calls /\ calls[v.parent].kind \in {"block", "function"}
  <2>1. Declared(calls, v)
    BY <1>1 DEF StackOK, ToSet
  <2>2. QED
    BY <2>1 DEF Declared, Keepers
<1>4. ASSUME turn = "end" PROVE vars = << >> /\ typedefs = << >> /\ calls = << >>
  <2>1. calls = << >> /\ typedefs = << >>
    BY <1>4 DEF ParserInv
  <2>2. Len(vars) = 0
    <3>1. \A v \in ToSet(vars) : v.parent \in DOMAIN calls
      BY <1>3
    <3>2. DOMAIN calls = {}
      BY <2>1
    <3>3. ASSUME Len(vars) # 0 PROVE FALSE
      <4>1. Last(vars) \in ToSet(vars)
        BY <1>1, <3>3, StackFacts, RowFacts DEF ToSet
      <4>2. QED
        BY <3>1, <3>2, <4>1
    <3>4. QED
      BY <3>3
  <2>3. QED
    BY <1>1, <2>1, <2>2, StackFacts, RowFacts
<1>5. \A use \in uses : use[1] \in DOMAIN toks /\ use[2] \in DOMAIN toks
  BY DEF ParserInv
<1>6. turn \in Turns /\ status \in {"run", "done", "abort", "undefined"}
  BY DEF ParserInv
<1>7. QED
  BY <1>2, <1>3, <1>4, <1>5, <1>6 DEF TypeOK

\* For every token table: no call that is still active has had its part of the
\* lists taken away below its mark, so that the assertions of parse() and
\* parse_func_decl about the lists hold; every variable in the list belongs to
\* a block or function that is still read; every name in a tree has been found
\* in the list; and both lists are empty in the end.
THEOREM TypeIsOK == Spec => []TypeOK
<1>1. Init => ParserInv
  BY InitRight
<1>2. ParserInv /\ [Next]_allVars => ParserInv'
  BY NextKeeps, StutterKeeps
<1>3. ParserInv => TypeOK
  BY TypesFollow
<1>4. QED
  BY <1>1, <1>2, <1>3, PTL DEF Spec
=============================================================================
