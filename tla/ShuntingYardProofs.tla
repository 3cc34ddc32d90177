------------------------- MODULE ShuntingYardProofs -------------------------
(***************************************************************************)
(* Theorems of ShuntingYard, for every row of tokens: its position has a   *)
(* bound, and its trees are made of the table's tokens and of what is      *)
(* declared.  The steps are lemmas of their own: Parser takes them too.    *)
(***************************************************************************)
EXTENDS ShuntingYard, SequenceTheorems, FiniteSetTheorems, WellFoundedInduction, TLAPS

-----------------------------------------------------------------------------
(* Positions, sequences and what the library's operators return.           *)

\* The least-number principle.
LEMMA LeastNatural ==
    ASSUME NEW S \in SUBSET Nat, S # {}
    PROVE  Min(S) \in S /\ \A s \in S : Min(S) <= s
<1> DEFINE Less == {p \in Nat \X Nat : p[1] < p[2]}
<1>1. IsWellFoundedOn(Less, Nat)
  BY NatLessThanWellFounded DEF OpToRel
<1>2. PICK m \in S : \A s \in S : <<s, m>> \notin Less
  BY <1>1, WFMin
<1>3. ASSUME NEW s \in S PROVE m <= s
  <2>1. m \in Nat /\ s \in Nat
    OBVIOUS
  <2>2. ~(s < m)
    BY <1>2, <2>1
  <2>3. QED BY <2>1, <2>2
<1>4. QED
  BY <1>3 DEF Min

\* A loop over positions from j on stops at one of them, or behind the last.
LEMMA StopsWithin ==
    ASSUME NEW j \in Nat, NEW n \in Nat, j <= n + 1, NEW S, S \subseteq j .. n
    PROVE  Min(S \cup {n + 1}) \in j .. n + 1
<1>1. S \cup {n + 1} \in SUBSET Nat /\ S \cup {n + 1} # {}
  OBVIOUS
<1>2. PICK m \in S \cup {n + 1} : m = Min(S \cup {n + 1})
  BY <1>1, LeastNatural
<1>3. m \in j .. n + 1
  OBVIOUS
<1>4. QED
  BY <1>2, <1>3

\* What is left of a sequence when its last element is taken, what a stack of
\* one more element holds, and what one with another top holds.
LEMMA FrontOf ==
    ASSUME NEW S, NEW s \in Seq(S), s # << >>
    PROVE  /\ Front(s) \in Seq(S) /\ Len(Front(s)) = Len(s) - 1
           /\ \A n \in 1 .. Len(s) - 1 : n \in DOMAIN s /\ Front(s)[n] = s[n]
           /\ DOMAIN Front(s) = 1 .. Len(s) - 1
<1>1. Len(s) - 1 \in Nat /\ \A n \in 1 .. Len(s) - 1 : s[n] \in S
  OBVIOUS
<1>2. PICK m \in Nat : m = Len(s) - 1 /\ \A n \in 1 .. m : s[n] \in S
  BY <1>1
<1>3. /\ SubSeq(s, 1, m) \in Seq(S) /\ Len(SubSeq(s, 1, m)) = m
      /\ \A n \in 1 .. m : SubSeq(s, 1, m)[n] = s[n]
  BY <1>2, SubSeqProperties
<1>4. Front(s) = SubSeq(s, 1, m)
  BY <1>2 DEF Front
<1>5. QED
  BY <1>2, <1>3, <1>4

LEMMA LastOf ==
    ASSUME NEW S, NEW s \in Seq(S), s # << >>
    PROVE  Last(s) \in S /\ Len(s) \in DOMAIN s /\ Last(s) = s[Len(s)] /\ Len(s) \in Nat \ {0}
BY DEF Last

LEMMA Pushed ==
    ASSUME NEW S, NEW s \in Seq(S), NEW e \in S
    PROVE  /\ Append(s, e) \in Seq(S) /\ Append(s, e) # << >>
           /\ Len(Append(s, e)) = Len(s) + 1 /\ DOMAIN Append(s, e) = 1 .. Len(s) + 1
           /\ \A n \in 1 .. Len(s) : n \in DOMAIN s /\ Append(s, e)[n] = s[n]
           /\ Append(s, e)[Len(s) + 1] = e
BY AppendProperties

LEMMA Replaced ==
    ASSUME NEW S, NEW s \in Seq(S), s # << >>, NEW e \in S
    PROVE  LET t == [s EXCEPT ![Len(s)] = e] IN
           /\ t \in Seq(S) /\ t # << >> /\ Len(t) = Len(s) /\ DOMAIN t = DOMAIN s
           /\ \A n \in DOMAIN s : n # Len(s) => t[n] = s[n]
           /\ t[Len(s)] = e
<1>1. Len(s) \in 1 .. Len(s) /\ DOMAIN s = 1 .. Len(s)
  OBVIOUS
<1>2. [s EXCEPT ![Len(s)] = e] \in Seq(S) /\ Len([s EXCEPT ![Len(s)] = e]) = Len(s)
  BY <1>1, ExceptSeq
<1>3. QED
  BY <1>1, <1>2

\* A stack whose top is taken and another pushed.
LEMMA TopReplaced ==
    ASSUME NEW S, NEW s \in Seq(S), s # << >>, NEW e \in S
    PROVE  Append(Front(s), e) = [s EXCEPT ![Len(s)] = e]
<1>1. PICK n \in Nat : n + 1 = Len(s)
  <2>1. Len(s) - 1 \in Nat /\ (Len(s) - 1) + 1 = Len(s)
    OBVIOUS
  <2>2. QED
    BY <2>1
<1>2. /\ Front(s) \in Seq(S) /\ Len(Front(s)) = n
      /\ \A k \in 1 .. n : Front(s)[k] = s[k]
  BY <1>1, FrontOf
<1>3. /\ Append(Front(s), e) \in Seq(S) /\ Len(Append(Front(s), e)) = n + 1
      /\ \A k \in 1 .. n : Append(Front(s), e)[k] = s[k]
      /\ Append(Front(s), e)[n + 1] = e
  BY <1>2, Pushed
<1> DEFINE t == [s EXCEPT ![Len(s)] = e]
<1>4. /\ t \in Seq(S) /\ Len(t) = n + 1
      /\ \A k \in 1 .. n + 1 : k # n + 1 => t[k] = s[k]
      /\ t[n + 1] = e
  BY <1>1, Replaced
<1> HIDE DEF t
<1>5. \A k \in 1 .. n + 1 : k \in 1 .. n \/ k = n + 1
  OBVIOUS
<1>6. \A k \in 1 .. n : k # n + 1 /\ k \in 1 .. n + 1
  OBVIOUS
<1>7. \A k \in 1 .. n + 1 : Append(Front(s), e)[k] = t[k]
  BY <1>3, <1>4, <1>5, <1>6
<1>8. Append(Front(s), e) = t
  BY <1>3, <1>4, <1>7, SeqEqual
<1>9. QED
  BY <1>8 DEF t

\* The elements of a sequence of one more, and of two sequences in a row.
LEMMA ToSetAppend ==
    ASSUME NEW S, NEW s \in Seq(S), NEW e
    PROVE  ToSet(Append(s, e)) = ToSet(s) \cup {e}
<1>1. /\ DOMAIN Append(s, e) = 1 .. Len(s) + 1 /\ DOMAIN s = 1 .. Len(s) /\ Len(s) \in Nat
      /\ \A n \in 1 .. Len(s) : Append(s, e)[n] = s[n]
      /\ Append(s, e)[Len(s) + 1] = e
  <2>1. s \in Seq(S \cup {e})
    OBVIOUS
  <2>2. QED
    BY <2>1, AppendProperties
<1>2. QED
  BY <1>1 DEF ToSet

LEMMA ToSetConcat ==
    ASSUME NEW S, NEW s \in Seq(S), NEW t \in Seq(S)
    PROVE  ToSet(s \o t) \subseteq ToSet(s) \cup ToSet(t)
<1>1. /\ DOMAIN (s \o t) = 1 .. Len(s) + Len(t)
      /\ \A n \in 1 .. Len(s) + Len(t) : (s \o t)[n] = IF n <= Len(s) THEN s[n] ELSE t[n - Len(s)]
  BY ConcatProperties
<1>2. QED
  BY <1>1 DEF ToSet

-----------------------------------------------------------------------------
(* The invariant.                                                          *)

\* The places of tokens a tree may have, and the types of an active call.
Places == {k \in DOMAIN toks : toks[k] \in Idents => toks[k] \in src.declared}
Nodes == [tree : Seq(Places), lvl : Nat]
OperatorsAt == [type : Operators \cup {"("}, at : Places]
Yards == [kind : {"expr", "arg", "index", "elem"}, at : Nat, start : Nat, items : Seq(Places),
          old : BOOLEAN, out : Seq(Nodes), ops : Seq(OperatorsAt), parens : Int]

\* Of the n-th active call: only the outermost reads an expression of the
\* parser's; each begins behind its caller's beginning, and none behind i.
NthYard(n) ==
    /\ yards[n].kind = "expr" <=> n = 1
    /\ n > 1 => yards[n].at \in Places
    /\ yards[n].start \in n .. Len(toks) + 1 /\ yards[n].start <= i
\* Behind the table's end a call returns for every step of the position.
InReach(p, depth) == p > Len(toks) => p + depth <= 2 * Len(toks) + 3

YardInv ==
    /\ toks \in Seq(ToSet(toks)) /\ src.lvls \in [Idents -> Nat]
    /\ yards \in Seq(Yards) /\ yards # << >> /\ \A n \in DOMAIN yards : NthYard(n)
    /\ i \in Nat /\ InReach(i, Len(yards))
    /\ err \in BOOLEAN /\ status \in {"run", "done", "abort", "undefined"}
    /\ result \in Seq(Places)

\* What a step may do to the rest.
Rest ==
    /\ src' = src /\ toks' = toks
    /\ err' \in BOOLEAN /\ status' \in {"run", "done", "abort", "undefined"}
    /\ result' \in Seq(Places)

LEMMA TopYard ==
    ASSUME YardInv
    PROVE  /\ Y \in Yards /\ Len(yards) \in Nat \ {0} /\ Len(yards) \in DOMAIN yards
           /\ Len(toks) \in Nat /\ DOMAIN toks = 1 .. Len(toks)
           /\ Y = yards[Len(yards)] /\ NthYard(Len(yards))
           /\ Len(yards) <= i /\ Len(yards) <= Len(toks) + 1
<1>1. yards \in Seq(Yards) /\ yards # << >> /\ i \in Nat
  BY DEF YardInv
<1>2. Y \in Yards /\ Len(yards) \in DOMAIN yards /\ Y = yards[Len(yards)] /\ Len(yards) \in Nat \ {0}
  BY <1>1, LastOf DEF Y
<1>3. Len(toks) \in Nat /\ DOMAIN toks = 1 .. Len(toks)
  BY DEF YardInv
<1>4. NthYard(Len(yards))
  BY <1>2 DEF YardInv
<1>5. PICK start \in Nat : start \in Len(yards) .. Len(toks) + 1 /\ start <= i
  <2>1. Y.start \in Nat
    BY <1>2 DEF Yards
  <2>2. QED
    BY <1>2, <1>4, <2>1 DEF NthYard
<1>6. Len(yards) <= i /\ Len(yards) <= Len(toks) + 1
  BY ONLY <1>1, <1>2, <1>3, <1>5
<1>7. QED
  BY <1>2, <1>3, <1>4, <1>6

\* A step of the innermost call, which stays where it began.
LEMMA StepInCall ==
    ASSUME YardInv, Rest, NEW y \in Yards, yards' = SetY(y),
           y.kind = Y.kind, y.at = Y.at, y.start = Y.start,
           i' \in Nat, i <= i', InReach(i', Len(yards))
    PROVE  YardInv'
<1>1. yards \in Seq(Yards) /\ yards # << >> /\ i \in Nat
  BY DEF YardInv
<1>2. /\ yards' \in Seq(Yards) /\ yards' # << >> /\ Len(yards') = Len(yards)
      /\ DOMAIN yards' = DOMAIN yards
      /\ \A n \in DOMAIN yards : n # Len(yards) => yards'[n] = yards[n]
      /\ yards'[Len(yards)] = y
  BY <1>1, Replaced DEF SetY
<1>3. Places' = Places /\ Yards' = Yards
  BY DEF Rest, Places, Yards, Nodes, OperatorsAt
<1>4. \A n \in DOMAIN yards : NthYard(n)'
  <2> SUFFICES ASSUME NEW n \in DOMAIN yards PROVE NthYard(n)'
    OBVIOUS
  <2>1. NthYard(n)
    BY DEF YardInv
  <2>2. yards'[n].kind = yards[n].kind /\ yards'[n].at = yards[n].at /\ yards'[n].start = yards[n].start
    BY <1>2, TopYard
  <2>3. yards[n].start \in Nat /\ yards[n].start <= i'
    <3>1. yards[n] \in Yards
      BY <1>1
    <3>2. yards[n].start \in Nat /\ yards[n].start <= i
      BY <2>1, <3>1 DEF Yards, NthYard
    <3>3. QED
      BY <1>1, <3>2
  <2>4. QED
    BY <1>3, <2>1, <2>2, <2>3 DEF NthYard, Rest
<1>5. QED
  BY <1>2, <1>3, <1>4 DEF YardInv, Rest, InReach

\* A call begins, for the next argument, subscript or element.
LEMMA CallBegins ==
    ASSUME YardInv, Rest, NEW callers, callers = yards \/ (callers = Front(yards) /\ callers # << >>),
           NEW y \in Yards, yards' = Append(callers, y),
           y.kind # "expr", y.at \in Places, y.start = i',
           i' \in Nat, i <= i', callers = yards => i < i', i' <= Len(toks) + 1
    PROVE  YardInv'
<1>1. yards \in Seq(Yards) /\ yards # << >> /\ i \in Nat
  BY DEF YardInv
<1>2. PICK m \in Nat : m = Len(callers)
  BY <1>1, FrontOf
<1>3. /\ callers \in Seq(Yards) /\ m \in Nat \ {0}
      /\ \A n \in 1 .. m : n \in DOMAIN yards /\ callers[n] = yards[n]
  <2>1. CASE callers = yards
    BY <1>1, <1>2, <2>1
  <2>2. CASE callers = Front(yards) /\ callers # << >>
    <3>1. /\ callers \in Seq(Yards) /\ m = Len(yards) - 1
          /\ \A n \in 1 .. Len(yards) - 1 : n \in DOMAIN yards /\ callers[n] = yards[n]
          /\ DOMAIN callers = 1 .. Len(yards) - 1
      BY ONLY <1>1, <1>2, <2>2, FrontOf
    <3>2. m # 0
      BY ONLY <1>2, <2>2, <3>1, EmptySeq
    <3>3. QED
      BY <1>2, <3>1, <3>2
  <2>3. QED
    BY <2>1, <2>2
<1>4. /\ yards' \in Seq(Yards) /\ yards' # << >> /\ Len(yards') = m + 1
      /\ DOMAIN yards' = 1 .. m + 1
      /\ \A n \in 1 .. m : yards'[n] = callers[n]
      /\ yards'[m + 1] = y
  BY <1>2, <1>3, Pushed
<1>5. Places' = Places /\ Yards' = Yards
  BY DEF Rest, Places, Yards, Nodes, OperatorsAt
<1>6. PICK size \in Nat : size = Len(toks)
  BY TopYard
<1>7. m + 1 <= i' /\ m + 1 <= size + 1
  <2>1. PICK depth \in Nat : depth = Len(yards) /\ depth <= i /\ depth <= size + 1
    BY <1>6, TopYard
  <2>2. m = depth \/ m = depth - 1
    BY <1>1, <1>2, <2>1, FrontOf
  <2>3. callers = yards => m = depth
    BY <1>2, <2>1
  <2>4. callers # yards => m = depth - 1
    BY <1>1, <1>2, <2>1, FrontOf
  <2>5. QED
    BY ONLY <1>1, <1>6, <2>1, <2>3, <2>4, i' \in Nat, i <= i', callers = yards => i < i', i' <= Len(toks) + 1
<1>8. \A n \in 1 .. m + 1 : NthYard(n)'
  <2>1. ASSUME NEW n \in 1 .. m PROVE NthYard(n)'
    <3>1. NthYard(n) /\ yards'[n] = yards[n] /\ yards[n] \in Yards
      BY <1>1, <1>3, <1>4 DEF YardInv
    <3>2. yards[n].start \in Nat /\ yards[n].start <= i
      BY <3>1 DEF Yards, NthYard
    <3>3. yards[n].start <= i'
      BY <1>1, <3>2
    <3>4. QED
      BY <1>5, <3>1, <3>3 DEF NthYard, Rest
  <2>2. NthYard(m + 1)'
    <3>1. y.start \in m + 1 .. size + 1 /\ m + 1 # 1
      BY <1>3, <1>6, <1>7
    <3>2. QED
      BY <1>4, <1>5, <1>6, <3>1 DEF NthYard, Rest
  <2>3. QED
    BY <1>2, <2>1, <2>2
<1>9. InReach(i', m + 1)
  BY <1>6, <1>7 DEF InReach
<1>10. QED
  BY <1>4, <1>5, <1>8, <1>9 DEF YardInv, Rest, InReach

\* A call has ended, and its caller takes what it has read.
LEMMA CallEnds ==
    ASSUME YardInv, Rest, NEW callers, callers = yards \/ (callers = Front(yards) /\ callers # << >>),
           NEW y \in Yards, yards' = [callers EXCEPT ![Len(callers)] = y],
           y.kind = Last(callers).kind, y.at = Last(callers).at, y.start = Last(callers).start,
           i' \in Nat, i <= i', InReach(i', Len(callers))
    PROVE  YardInv'
<1>1. yards \in Seq(Yards) /\ yards # << >> /\ i \in Nat
  BY DEF YardInv
<1>2. PICK m \in Nat : m = Len(callers)
  BY <1>1, FrontOf
<1>3. /\ callers \in Seq(Yards) /\ callers # << >> /\ m \in Nat \ {0}
      /\ DOMAIN callers = 1 .. m
      /\ \A n \in 1 .. m : n \in DOMAIN yards /\ callers[n] = yards[n]
  <2>1. CASE callers = yards
    BY <1>1, <1>2, <2>1
  <2>2. CASE callers = Front(yards) /\ callers # << >>
    <3>1. /\ callers \in Seq(Yards) /\ m = Len(yards) - 1
          /\ \A n \in 1 .. Len(yards) - 1 : n \in DOMAIN yards /\ callers[n] = yards[n]
          /\ DOMAIN callers = 1 .. Len(yards) - 1
      BY ONLY <1>1, <1>2, <2>2, FrontOf
    <3>2. m # 0
      BY ONLY <1>2, <2>2, <3>1, EmptySeq
    <3>3. QED
      BY <1>2, <3>1, <3>2
  <2>3. QED
    BY <2>1, <2>2
<1>4. /\ yards' \in Seq(Yards) /\ yards' # << >> /\ Len(yards') = m
      /\ DOMAIN yards' = 1 .. m
      /\ \A n \in 1 .. m : n # m => yards'[n] = yards[n]
      /\ yards'[m] = y
  BY <1>2, <1>3, Replaced
<1>5. Places' = Places /\ Yards' = Yards
  BY DEF Rest, Places, Yards, Nodes, OperatorsAt
<1>6. \A n \in 1 .. m : NthYard(n)'
  <2> SUFFICES ASSUME NEW n \in 1 .. m PROVE NthYard(n)'
    OBVIOUS
  <2>1. NthYard(n) /\ yards[n] \in Yards
    BY <1>1, <1>3 DEF YardInv
  <2>2. yards'[n].kind = yards[n].kind /\ yards'[n].at = yards[n].at /\ yards'[n].start = yards[n].start
    BY <1>2, <1>3, <1>4 DEF Last
  <2>3. yards[n].start \in Nat /\ yards[n].start <= i
    BY <2>1 DEF Yards, NthYard
  <2>4. yards[n].start <= i'
    BY <1>1, <2>3
  <2>5. QED
    BY <1>5, <2>1, <2>2, <2>4 DEF NthYard, Rest
<1>7. QED
  BY <1>2, <1>4, <1>5, <1>6 DEF YardInv, Rest, InReach

\* The asterisks of a cast.
LEMMA CastLvlsCount ==
    ASSUME YardInv, NEW at \in Places
    PROVE  CastLvls(at) \in Nat
<1>1. PICK size \in Nat : size = Len(toks) /\ DOMAIN toks = 1 .. size
  BY TopYard
<1>2. at \in Nat
  BY <1>1 DEF Places
<1> DEFINE ends == {k \in (at + 1) + 1 .. size : toks[k] \notin Stars} \cup {size + 1}
<1>3. ends \in SUBSET Nat /\ ends # {}
  BY <1>1, <1>2
<1>4. TypeEnd(at + 1) = Min(ends)
  BY <1>1 DEF TypeEnd
<1> HIDE DEF ends
<1>5. PICK end \in Nat : end = TypeEnd(at + 1)
  BY <1>3, <1>4, LeastNatural
<1>6. at + 2 \in Int /\ end - 1 \in Int
  BY <1>2, <1>5
<1>7. IsFiniteSet(at + 2 .. end - 1)
  BY <1>6, FS_Interval
<1>8. QED
  BY <1>5, <1>7, FS_CardinalityType DEF CastLvls

\* A name, a literal, a call or an initialiser.
LEMMA LeafLvlsCount ==
    ASSUME YardInv, NEW at
    PROVE  LeafLvls(at) \in Nat
BY DEF LeafLvls, YardInv

\* The innermost call stays what it is, with other operators and operands.
Same(y) == y.kind = Y.kind /\ y.at = Y.at /\ y.start = Y.start

LEMMA WithOps ==
    ASSUME YardInv, NEW ops \in Seq(OperatorsAt)
    PROVE  [Y EXCEPT !.ops = ops] \in Yards /\ Same([Y EXCEPT !.ops = ops])
BY TopYard DEF Yards, Same

LEMMA WithOut ==
    ASSUME YardInv, NEW ops \in Seq(OperatorsAt), NEW out \in Seq(Nodes)
    PROVE  [Y EXCEPT !.ops = ops, !.out = out] \in Yards /\ Same([Y EXCEPT !.ops = ops, !.out = out])
BY TopYard DEF Yards, Same

LEMMA WithParens ==
    ASSUME NEW y \in Yards, Same(y)
    PROVE  /\ [y EXCEPT !.parens = @ + 1] \in Yards /\ Same([y EXCEPT !.parens = @ + 1])
           /\ [y EXCEPT !.parens = @ - 1] \in Yards /\ Same([y EXCEPT !.parens = @ - 1])
<1>1. y.parens \in Int
  BY DEF Yards
<1>2. y.parens + 1 \in Int /\ y.parens - 1 \in Int
  BY <1>1
<1>3. ASSUME NEW p \in Int PROVE [y EXCEPT !.parens = p] \in Yards /\ Same([y EXCEPT !.parens = p])
  BY DEF Yards, Same
<1>4. QED
  BY <1>2, <1>3

\* What an operator makes of its operands.
LEMMA OperandsTaken ==
    ASSUME YardInv, Y.ops # << >>, Present
    PROVE  /\ Lhs \in Nodes /\ Rhs \in Nodes
           /\ SubSeq(Y.out, 1, Len(Y.out) - Arity(TopOp.type)) \in Seq(Nodes)
<1>1. Y.out \in Seq(Nodes)
  BY TopYard DEF Yards
<1>2. PICK m \in Nat, n \in {1, 2} : n = Arity(TopOp.type) /\ Len(Y.out) = m + n
  <2>1. PICK len \in Nat, n \in {1, 2} : len = Len(Y.out) /\ n = Arity(TopOp.type) /\ n <= len
    BY <1>1 DEF Present, Arity
  <2>2. len - n \in Nat /\ len = (len - n) + n
    BY <2>1
  <2>3. QED BY <2>1, <2>2
<1>3. \A k \in 1 .. m + n : Y.out[k] \in Nodes
  BY <1>1, <1>2
<1>4. Lhs = Y.out[m + 1] /\ Rhs = Y.out[m + n] /\ Len(Y.out) - n = m
  BY <1>2 DEF Lhs, Rhs, Last
<1>5. m + 1 \in 1 .. m + n /\ m + n \in 1 .. m + n
  BY <1>2
<1>6. SubSeq(Y.out, 1, m) \in Seq(Nodes)
  <2>1. \A k \in 1 .. m : Y.out[k] \in Nodes
    BY <1>2, <1>3
  <2>2. QED
    BY <2>1, SubSeqProperties
<1>7. QED
  BY <1>2, <1>3, <1>4, <1>5, <1>6

LEMMA NewNode ==
    ASSUME YardInv, Y.ops # << >>, Present, ~NoPointer
    PROVE  NodeOf(Operation, LvlsOfIndir) \in Nodes
<1>1. TopOp.at \in Places
  <2>1. Y.ops \in Seq(OperatorsAt)
    BY TopYard DEF Yards
  <2>2. TopOp \in OperatorsAt
    BY <2>1, LastOf DEF TopOp
  <2>3. QED
    BY <2>2 DEF OperatorsAt
<1>2. /\ Lhs.tree \in Seq(Places) /\ Rhs.tree \in Seq(Places)
      /\ Lhs.lvl \in Nat /\ Rhs.lvl \in Nat
  BY OperandsTaken DEF Nodes
<1>3. Operation \in Seq(Places)
  <2>1. Lhs.tree \o Rhs.tree \in Seq(Places)
    BY <1>2, ConcatProperties
  <2>2. QED
    BY <1>1, <1>2, <2>1, AppendProperties DEF Operation
<1>4. LvlsOfIndir \in Nat
  <2>1. MostLvls \in Nat
    BY <1>2 DEF MostLvls
  <2>2. Dereferences => MostLvls - 1 \in Nat
    BY <2>1 DEF NoPointer
  <2>3. MostLvls + 1 \in Nat
    BY <2>1
  <2>4. CastLvls(TopOp.at) \in Nat
    BY <1>1, CastLvlsCount
  <2> HIDE DEF Dereferences
  <2>5. QED
    BY <2>1, <2>2, <2>3, <2>4 DEF LvlsOfIndir
<1>5. QED
  BY <1>3, <1>4 DEF NodeOf, Nodes

LEMMA Moved ==
    ASSUME YardInv, Y.ops # << >>, MoveOperator
    PROVE  /\ status' \in {"run", "done", "abort", "undefined"}
           /\ UNCHANGED yards \/ \E y \in Yards : yards' = SetY(y) /\ Same(y)
<1>1. Front(Y.ops) \in Seq(OperatorsAt)
  <2>1. Y.ops \in Seq(OperatorsAt)
    BY TopYard DEF Yards
  <2>2. QED
    BY <2>1, FrontOf
<1>2. status \in {"run", "done", "abort", "undefined"}
  BY DEF YardInv
<1> DEFINE rest == SubSeq(Y.out, 1, Len(Y.out) - Arity(TopOp.type))
           out == Append(rest, NodeOf(Operation, LvlsOfIndir))
           new == [Y EXCEPT !.ops = Front(@), !.out = out]
<1>3. CASE Y.out = << >> /\ status' = (IF err THEN "run" ELSE "abort")
             /\ yards' = SetY([Y EXCEPT !.ops = Front(@)])
  BY <1>1, <1>3, WithOps
<1>4. CASE status' \in {"abort", "undefined"} /\ UNCHANGED yards
  BY <1>4
<1>5. CASE Present /\ ~NoPointer /\ yards' = SetY(new) /\ UNCHANGED status
  <2>1. rest \in Seq(Nodes) /\ NodeOf(Operation, LvlsOfIndir) \in Nodes
    BY <1>5, OperandsTaken, NewNode
  <2> HIDE DEF rest
  <2>2. out \in Seq(Nodes)
    BY <2>1, AppendProperties
  <2> HIDE DEF out
  <2>3. new \in Yards /\ Same(new)
    BY <1>1, <2>2, WithOut
  <2>4. QED
    BY <1>2, <1>5, <2>3
<1>6. \/ Y.out = << >> /\ status' = (IF err THEN "run" ELSE "abort")
             /\ yards' = SetY([Y EXCEPT !.ops = Front(@)])
      \/ status' \in {"abort", "undefined"} /\ UNCHANGED yards
      \/ Present /\ ~NoPointer /\ yards' = SetY(new) /\ UNCHANGED status
  BY DEF MoveOperator
<1>7. QED
  BY <1>3, <1>4, <1>5, <1>6

-----------------------------------------------------------------------------
(* What the actions are made of.                                           *)

LEMMA AtToken ==
    ASSUME YardInv, NEW types, Reading(types)
    PROVE  i \in DOMAIN toks /\ i \in 1 .. Len(toks) /\ toks[i] \in types /\ status = "run"
BY TopYard DEF Reading, Ended

\* A position up to two behind the table is in the reach of any depth.
LEMMA WithinReach ==
    ASSUME YardInv, NEW p \in Nat, i <= p, p <= Len(toks) + 2
    PROVE  InReach(p, Len(yards))
<1>1. PICK size \in Nat, depth \in Nat : size = Len(toks) /\ depth = Len(yards) /\ depth <= size + 1
  BY TopYard
<1>2. QED
  BY <1>1 DEF InReach

\* The caller reads on behind what a call has ended at, or, when the table has
\* ended, one further.
LEMMA CallersReach ==
    ASSUME YardInv, NEW callers, NEW p \in Nat,
           \/ callers = yards /\ p <= Len(toks) + 2
           \/ callers = Front(yards) /\ (p = i + 1 \/ p <= Len(toks) + 2)
    PROVE  InReach(p, Len(callers))
<1>1. PICK size \in Nat, depth \in Nat, low \in Nat :
        size = Len(toks) /\ depth = Len(yards) /\ depth <= size + 1 /\ low = Len(callers)
  <2>1. Len(callers) \in Nat
    <3>1. yards \in Seq(Yards) /\ yards # << >>
      BY DEF YardInv
    <3>2. QED
      BY <3>1, FrontOf
  <2>2. QED
    BY <2>1, TopYard
<1>2. i \in Nat /\ (i > size => i + depth <= 2 * size + 3)
  BY <1>1 DEF YardInv, InReach
<1>3. callers = Front(yards) => low = depth - 1
  <2>1. yards \in Seq(Yards) /\ yards # << >>
    BY DEF YardInv
  <2>2. QED
    BY <1>1, <2>1, FrontOf
<1>4. callers = yards => low = depth
  BY <1>1
<1>5. p > size => p + low <= 2 * size + 3
  <2>1. CASE callers = yards /\ p <= size + 2
    BY <1>1, <1>4, <2>1
  <2>2. CASE callers = Front(yards) /\ p <= size + 2
    BY <1>1, <1>3, <2>2
  <2>3. CASE callers = Front(yards) /\ p = i + 1
    <3>1. CASE i > size
      BY ONLY <1>1, <1>2, <1>3, <2>3, <3>1
    <3>2. CASE ~(i > size)
      BY ONLY <1>1, <1>2, <1>3, <2>3, <3>2
    <3>3. QED
      BY <3>1, <3>2
  <2>4. QED
    BY <1>1, <2>1, <2>2, <2>3
<1>6. QED
  BY <1>1, <1>5 DEF InReach

\* Nothing about the calls changes.
LEMMA NoCallChanges ==
    ASSUME YardInv, Rest, UNCHANGED yards, i' \in Nat, i <= i', InReach(i', Len(yards))
    PROVE  YardInv'
<1>1. yards' = SetY(Y)
  <2>1. yards \in Seq(Yards) /\ yards # << >>
    BY DEF YardInv
  <2>2. yards = [yards EXCEPT ![Len(yards)] = yards[Len(yards)]]
    BY <2>1
  <2>3. QED
    BY <2>2, TopYard DEF SetY
<1>2. QED
  BY <1>1, TopYard, StepInCall

LEMMA OperatorMoves ==
    ASSUME YardInv, Y.ops # << >>, MoveOperator, UNCHANGED <<src, toks, i, err, result>>
    PROVE  YardInv'
<1>1. Rest /\ i' \in Nat /\ i <= i' /\ InReach(i', Len(yards))
  BY Moved DEF Rest, YardInv
<1>2. CASE UNCHANGED yards
  BY <1>1, <1>2, NoCallChanges
<1>3. ASSUME NEW y \in Yards, yards' = SetY(y), Same(y) PROVE YardInv'
  BY <1>1, <1>3, StepInCall DEF Same
<1>4. QED
  BY <1>2, <1>3, Moved

\* The token of an operator is a place of a tree.
LEMMA NewOperator ==
    ASSUME YardInv, i \in DOMAIN toks, toks[i] \in Operators \cup {"("},
           NEW t \in Operators \cup {"("}
    PROVE  /\ i \in Places
           /\ Append(Y.ops, Operator(t, i)) \in Seq(OperatorsAt)
           /\ PushOp(t) \in Yards /\ Same(PushOp(t))
<1>1. i \in Places
  BY DEF Places, Operators, BinaryOps, UnaryOps, Idents, Names
<1>2. Y.ops \in Seq(OperatorsAt)
  BY TopYard DEF Yards
<1>3. Append(Y.ops, Operator(t, i)) \in Seq(OperatorsAt)
  BY <1>1, <1>2, AppendProperties DEF Operator, OperatorsAt
<1>4. QED
  BY <1>1, <1>3, WithOps DEF PushOp

LEMMA WithTree ==
    ASSUME NEW y \in Yards, NEW node \in Nodes
    PROVE  /\ PushOut(y, node) \in Yards
           /\ PushOut(y, node).kind = y.kind /\ PushOut(y, node).at = y.at
           /\ PushOut(y, node).start = y.start
<1>1. Append(y.out, node) \in Seq(Nodes)
  BY AppendProperties DEF Yards
<1>2. QED
  BY <1>1 DEF Yards, PushOut

\* What a call returns.
LEMMA Returned ==
    ASSUME YardInv
    PROVE  /\ Value \in Nodes /\ Value.tree \in Seq(Places)
           /\ Error \in BOOLEAN /\ Y.items \o Value.tree \in Seq(Places)
<1>1. Y.out \in Seq(Nodes) /\ Y.items \in Seq(Places)
  BY TopYard DEF Yards
<1>2. Value \in Nodes
  <2>1. CASE Len(Y.out) = 1
    BY <1>1, <2>1 DEF Value
  <2>2. CASE Len(Y.out) # 1
    BY <2>2, EmptySeq DEF Value, Null, NodeOf, Nodes
  <2>3. QED
    BY <2>1, <2>2
<1>3. Value.tree \in Seq(Places)
  BY <1>2 DEF Nodes
<1>4. QED
  BY <1>1, <1>2, <1>3, ConcatProperties DEF Error, YardInv

LEMMA FreshYard ==
    ASSUME NEW kind \in {"expr", "arg", "index", "elem"}, NEW at \in Nat, NEW start \in Nat,
           NEW items \in Seq(Places), NEW old \in BOOLEAN
    PROVE  /\ NewYard(kind, at, start, items, old) \in Yards
           /\ NewYard(kind, at, start, items, old).kind = kind
           /\ NewYard(kind, at, start, items, old).at = at
           /\ NewYard(kind, at, start, items, old).start = start
BY EmptySeq DEF NewYard, Yards

\* A call of another kind than the parser's has a caller.
LEMMA HasCaller ==
    ASSUME YardInv, Y.kind # "expr"
    PROVE  /\ Front(yards) \in Seq(Yards) /\ Front(yards) # << >> /\ Last(Front(yards)) \in Yards
           /\ Last(Front(yards)) = yards[Len(yards) - 1] /\ Y.at \in Places
<1>1. yards \in Seq(Yards) /\ yards # << >>
  BY DEF YardInv
<1>2. PICK depth \in Nat \ {0} : depth = Len(yards)
  BY TopYard
<1>3. depth # 1 /\ Y.at \in Places
  BY <1>2, TopYard DEF NthYard
<1>4. /\ Front(yards) \in Seq(Yards) /\ Len(Front(yards)) = depth - 1
      /\ \A n \in 1 .. depth - 1 : Front(yards)[n] = yards[n]
  BY <1>1, <1>2, FrontOf
<1>5. Front(yards) # << >>
  BY <1>2, <1>3, <1>4
<1>6. QED
  BY <1>2, <1>3, <1>4, <1>5, LastOf DEF Last

\* The loops over arguments and elements: the next call, or the end.
LEMMA ItemBegins ==
    ASSUME YardInv, NEW callers, callers = yards \/ (callers = Front(yards) /\ callers # << >>),
           NEW kind \in {"arg", "index", "elem"}, NEW at \in Places, NEW items \in Seq(Places),
           NEW j \in Nat, i <= j, callers = yards => i < j, j <= Len(toks) + 1,
           NEW error \in BOOLEAN, NextItem(callers, kind, at, items, j, error),
           UNCHANGED <<src, toks, status, result>>
    PROVE  YardInv'
<1>1. at \in Nat
  BY TopYard DEF Places
<1>2. Rest /\ i' = j /\ yards' = Append(callers, NewYard(kind, at, j, items, error))
  BY DEF Rest, NextItem, YardInv
<1>3. /\ NewYard(kind, at, j, items, error) \in Yards
      /\ NewYard(kind, at, j, items, error).kind # "expr"
      /\ NewYard(kind, at, j, items, error).at \in Places
      /\ NewYard(kind, at, j, items, error).start = i'
  BY <1>1, <1>2, FreshYard
<1> HIDE DEF NextItem
<1>4. QED
  BY <1>2, <1>3, CallBegins

LEMMA ItemsEnd ==
    ASSUME YardInv, NEW callers,
           NEW at \in Places, NEW items \in Seq(Places), NEW j \in Nat, i <= j,
           \/ callers = yards /\ j <= Len(toks) + 1
           \/ callers = Front(yards) /\ callers # << >> /\ (j = i \/ j <= Len(toks) + 1),
           err' \in BOOLEAN, EndItems(callers, at, items, j),
           UNCHANGED <<src, toks, status, result>>
    PROVE  YardInv'
<1>1. Rest
  BY DEF Rest, YardInv
<1>2. callers \in Seq(Yards) /\ callers # << >>
  <2>1. yards \in Seq(Yards) /\ yards # << >>
    BY DEF YardInv
  <2>2. QED
    BY <2>1, FrontOf
<1>3. Last(callers) \in Yards /\ Last(callers) = callers[Len(callers)] /\ Len(callers) \in DOMAIN callers
  BY <1>2, LastOf
<1> DEFINE node == NodeOf(Append(items, at), LeafLvls(at))
<1>4. node \in Nodes
  <2>1. Append(items, at) \in Seq(Places)
    BY AppendProperties
  <2>2. QED
    BY <2>1, LeafLvlsCount DEF NodeOf, Nodes
<1>5. /\ i' = j + 1
      /\ yards' = [callers EXCEPT ![Len(callers)] = PushOut(Last(callers), node)]
  BY <1>3 DEF EndItems
<1> HIDE DEF node
<1>6. i' \in Nat /\ i <= i' /\ InReach(i', Len(callers))
  <2>1. PICK size \in Nat : size = Len(toks)
    BY TopYard
  <2>2. i \in Nat /\ i' \in Nat /\ i <= i' /\ (j = i => i' = i + 1)
        /\ (j <= size + 1 => i' <= size + 2)
    BY ONLY <1>5, <2>1, i <= j, j \in Nat, YardInv DEF YardInv
  <2>3. QED
    BY <2>1, <2>2, CallersReach
<1>7. QED
  BY <1>1, <1>3, <1>4, <1>5, <1>6, WithTree, CallEnds

-----------------------------------------------------------------------------
(* The actions.                                                            *)

LEMMA ArgFollows ==
    ASSUME YardInv, NEW callers, NEW at \in Places, NEW args \in Seq(Places),
           NEW j \in Nat, i <= j,
           \/ callers = yards /\ i < j /\ j <= Len(toks) + 1
           \/ callers = Front(yards) /\ callers # << >> /\ callers # yards /\ j = i,
           NEW error \in BOOLEAN, NextArg(callers, at, args, j, error),
           UNCHANGED <<src, toks, status, result>>
    PROVE  YardInv'
<1>1. PICK size \in Nat : size = Len(toks) /\ DOMAIN toks = 1 .. size
  BY TopYard
<1>2. CASE j > size \/ toks[j] = ")"
  <2>1. EndItems(callers, at, args, j) /\ err' = (error \/ j > Len(toks))
    BY <1>1, <1>2 DEF NextArg
  <2>2. err' \in BOOLEAN
    BY <2>1
  <2>3. QED
    BY <2>1, <2>2, ItemsEnd
<1>3. CASE ~(j > size \/ toks[j] = ")")
  <2>1. NextItem(callers, "arg", at, args, SkipComma(j), error)
    BY <1>1, <1>3 DEF NextArg
  <2>2. PICK p \in Nat : p = SkipComma(j) /\ j <= p /\ p <= j + 1
    <3>1. SkipComma(j) = j \/ SkipComma(j) = j + 1
      BY DEF SkipComma
    <3>2. j \in Nat /\ j + 1 \in Nat /\ j <= j /\ j <= j + 1
      BY ONLY j \in Nat
    <3>3. QED
      BY <3>1, <3>2
  <2>3. i <= p /\ (i < j => i < p) /\ p <= size + 1
    BY ONLY <1>1, <1>3, <2>2, j \in Nat, i <= j, YardInv DEF YardInv
  <2>4. QED
    BY <1>1, <2>1, <2>2, <2>3, ItemBegins
<1>4. QED
  BY <1>2, <1>3

LEMMA ElemFollows ==
    ASSUME YardInv, NEW callers, NEW at \in Places, NEW values \in Seq(Places),
           NEW j \in Nat, i <= j,
           \/ callers = yards /\ i < j /\ j <= Len(toks) + 1
           \/ callers = Front(yards) /\ callers # << >> /\ callers # yards /\ j = i,
           NEW error \in BOOLEAN, NextElem(callers, at, values, j, error),
           UNCHANGED <<src, toks, status, result>>
    PROVE  YardInv'
<1>1. PICK size \in Nat : size = Len(toks) /\ DOMAIN toks = 1 .. size
  BY TopYard
<1> DEFINE elems == {k \in j .. size : toks[k] # ","}
           value == IF elems # {} THEN Min(elems) ELSE IF j > size THEN j ELSE size + 1
<1>2. value \in Nat /\ j <= value /\ (value = j \/ value <= size + 1)
  <2>1. CASE elems # {}
    <3>1. elems \in SUBSET Nat /\ \A k \in elems : k <= size /\ j <= k
      <4>1. elems \subseteq j .. size
        OBVIOUS
      <4> HIDE DEF elems
      <4>2. QED
        BY ONLY j \in Nat, size \in Nat, <4>1
    <3>2. Min(elems) \in elems
      BY <2>1, <3>1, LeastNatural
    <3> HIDE DEF elems
    <3>3. value = Min(elems)
      BY <2>1
    <3>4. value \in Nat /\ j <= value /\ value <= size
      BY <3>1, <3>2, <3>3
    <3> HIDE DEF value
    <3>5. QED
      BY ONLY size \in Nat, <3>4
  <2>2. CASE elems = {}
    <3>1. value = IF j > size THEN j ELSE size + 1
      BY <2>2
    <3> HIDE DEF value
    <3>2. QED
      BY ONLY size \in Nat, j \in Nat, <3>1
  <2>3. QED
    BY <2>1, <2>2
<1>3. \/ /\ value > Len(toks) \/ toks[value] = "}"
         /\ EndItems(callers, at, values, value) /\ err' = (error \/ value > Len(toks))
      \/ /\ ~(value > Len(toks) \/ toks[value] = "}")
         /\ NextItem(callers, "elem", at, values, value, error)
  BY <1>1 DEF NextElem
<1> HIDE DEF value
<1>4. i \in Nat /\ i <= value /\ (i < j => i < value) /\ (value = j => j = i \/ value <= size + 1 \/ callers = yards)
  BY ONLY <1>1, <1>2, j \in Nat, i <= j, YardInv,
          \/ callers = yards /\ i < j /\ j <= Len(toks) + 1
          \/ callers = Front(yards) /\ callers # << >> /\ callers # yards /\ j = i
     DEF YardInv
<1>5. callers = yards => value <= size + 1
  BY <1>1, <1>2
<1>6. CASE EndItems(callers, at, values, value) /\ err' = (error \/ value > Len(toks))
  <2>1. err' \in BOOLEAN
    BY <1>6
  <2>2. \/ callers = yards /\ value <= Len(toks) + 1
        \/ callers = Front(yards) /\ callers # << >> /\ (value = i \/ value <= Len(toks) + 1)
    BY <1>1, <1>2, <1>5
  <2>3. QED
    BY <1>2, <1>4, <1>6, <2>1, <2>2, ItemsEnd
<1>7. CASE ~(value > Len(toks)) /\ NextItem(callers, "elem", at, values, value, error)
  <2>1. value <= Len(toks) + 1
    BY <1>1, <1>2, <1>7
  <2>2. callers = yards => i < value
    BY <1>4
  <2>3. QED
    BY <1>2, <1>4, <1>7, <2>1, <2>2, ItemBegins
<1>8. QED
  BY <1>3, <1>6, <1>7

\* Tokens and operators that stay within their call.
LEMMA TokenKeeps ==
    ASSUME YardInv,
           \/ PopOperator \/ MissingOperand \/ PushOperator \/ ReadTypeCast \/ ReadLParen
           \/ PopInParens \/ ReadRParen \/ ReadOperand \/ ReadUndeclared \/ CallUndeclared
           \/ UnknownToken
    PROVE  YardInv'
<1>1. PICK size \in Nat : size = Len(toks) /\ DOMAIN toks = 1 .. size
  BY TopYard
<1>2. i \in Nat /\ InReach(i, Len(yards)) /\ err \in BOOLEAN /\ result \in Seq(Places)
      /\ status \in {"run", "done", "abort", "undefined"}
  BY DEF YardInv
<1>3. ASSUME i \in DOMAIN toks PROVE i + 1 \in Nat /\ i <= i + 1 /\ InReach(i + 1, Len(yards))
  BY <1>1, <1>2, <1>3, WithinReach
<1>4. CASE PopOperator
  BY <1>4, OperatorMoves DEF PopOperator, MustPop
<1>5. CASE MissingOperand
  BY <1>2, <1>5, NoCallChanges DEF MissingOperand, Rest
<1>6. CASE PushOperator
  <2>1. i \in DOMAIN toks /\ toks[i] \in Operators
    BY <1>6, AtToken DEF PushOperator
  <2>2. PushOp(toks[i]) \in Yards /\ Same(PushOp(toks[i]))
    BY <2>1, NewOperator
  <2>3. Rest /\ i' = i + 1 /\ yards' = SetY(PushOp(toks[i]))
    BY <1>2, <1>6 DEF PushOperator, Rest
  <2>4. QED
    BY <1>3, <2>1, <2>2, <2>3, StepInCall DEF Same
<1>7. CASE ReadTypeCast
  <2>1. i \in DOMAIN toks /\ toks[i] = "(" /\ i < size
    BY <1>1, <1>7, AtToken DEF ReadTypeCast, IsCast
  <2>2. PushOp("cast") \in Yards /\ Same(PushOp("cast"))
    BY <2>1, NewOperator DEF Operators, UnaryOps
  <2>3. PICK end \in Nat : end = TypeEnd(i + 1) /\ i + 1 <= end /\ end <= size + 1
    <3> DEFINE stops == {k \in (i + 1) + 1 .. size : toks[k] \notin Stars}
    <3>1. i + 2 \in Nat /\ i + 2 <= size + 1 /\ stops \subseteq i + 2 .. size
      BY <1>1, <1>2, <2>1
    <3>2. Min(stops \cup {size + 1}) \in i + 2 .. size + 1
      BY <1>1, <3>1, StopsWithin
    <3>3. TypeEnd(i + 1) = Min(stops \cup {size + 1})
      BY <1>1 DEF TypeEnd
    <3> HIDE DEF stops
    <3>4. QED
      BY <1>1, <1>2, <3>2, <3>3
  <2>4. Rest /\ i' = end + 1 /\ yards' = SetY(PushOp("cast"))
    BY <1>1, <1>2, <1>7, <2>3 DEF ReadTypeCast, Rest
  <2>5. i' \in Nat /\ i <= i' /\ i' <= Len(toks) + 2
    BY <1>1, <1>2, <2>3, <2>4
  <2>6. QED
    BY <2>2, <2>4, <2>5, WithinReach, StepInCall DEF Same
<1>8. CASE ReadLParen
  <2>1. i \in DOMAIN toks /\ toks[i] = "("
    BY <1>8, AtToken DEF ReadLParen
  <2>2. PushOp("(") \in Yards /\ Same(PushOp("("))
    BY <2>1, NewOperator
  <2>3. Deeper(PushOp("(")) \in Yards /\ Same(Deeper(PushOp("(")))
    BY <2>2, WithParens DEF Deeper
  <2>4. Rest /\ i' = i + 1 /\ yards' = SetY(Deeper(PushOp("(")))
    BY <1>2, <1>8 DEF ReadLParen, Rest
  <2>5. QED
    BY <1>3, <2>1, <2>3, <2>4, StepInCall DEF Same
<1>9. CASE PopInParens
  BY <1>9, OperatorMoves DEF PopInParens, InParens
<1>10. CASE ReadRParen
  <2>1. i \in DOMAIN toks
    BY <1>10, AtToken DEF ReadRParen
  <2> DEFINE ops == IF Y.ops = << >> THEN Y.ops ELSE Front(Y.ops)
             popped == [Y EXCEPT !.ops = ops]
             new == [popped EXCEPT !.parens = @ - 1]
  <2>2. ops \in Seq(OperatorsAt)
    <3>1. Y.ops \in Seq(OperatorsAt)
      BY TopYard DEF Yards
    <3>2. QED
      BY <3>1, FrontOf
  <2>3. Rest /\ i' = i + 1 /\ yards' = SetY(new)
    <3>1. new = [Y EXCEPT !.ops = ops, !.parens = @ - 1]
      BY TopYard DEF Yards
    <3>2. QED
      BY <1>2, <1>10, <3>1 DEF ReadRParen, Rest
  <2>4. popped \in Yards /\ Same(popped)
    BY <2>2, WithOps
  <2> HIDE DEF ops, popped
  <2>5. new \in Yards /\ Same(new)
    BY <2>4, WithParens
  <2>6. QED
    BY <1>3, <2>1, <2>3, <2>5, StepInCall DEF Same
<1>11. CASE ReadOperand
  <2>1. i \in DOMAIN toks /\ toks[i] \in Operands
    BY <1>11, AtToken DEF ReadOperand
  <2>2. i \in Places
    BY <2>1 DEF Places, Operands, Idents, Names
  <2> DEFINE node == NodeOf(<<i>>, LeafLvls(i))
  <2>3. node \in Nodes
    <3>1. <<i>> \in Seq(Places)
      BY <2>2
    <3>2. QED
      BY <3>1, LeafLvlsCount DEF NodeOf, Nodes
  <2>4. Rest /\ i' = i + 1 /\ yards' = SetY(PushOut(Y, node))
    BY <1>2, <1>11 DEF ReadOperand, Rest
  <2> HIDE DEF node
  <2>5. QED
    BY <1>3, <2>1, <2>3, <2>4, TopYard, WithTree, StepInCall
<1>12. CASE ReadUndeclared
  <2>1. i \in DOMAIN toks
    BY <1>12, AtToken DEF ReadUndeclared
  <2>2. Rest /\ i' = i + 1 /\ UNCHANGED yards
    BY <1>2, <1>12 DEF ReadUndeclared, Rest
  <2>3. QED
    BY <1>3, <2>1, <2>2, NoCallChanges
<1>13. CASE CallUndeclared
  <2>1. i \in 1 .. size
    BY <1>1, <1>13, AtToken DEF CallUndeclared
  <2> DEFINE parens == {k \in i .. size : toks[k] = ")"} \cup {size}
  <2>2. parens \in SUBSET (i .. size) /\ parens # {} /\ parens \in SUBSET Nat
    BY <1>1, <2>1
  <2>3. PICK p \in i .. size : p = Min(parens)
    BY <2>2, LeastNatural
  <2>4. Rest /\ i' = 1 + p /\ UNCHANGED yards
    BY <1>1, <1>2, <1>13, <2>3 DEF CallUndeclared, Rest
  <2>5. i' \in Nat /\ i <= i' /\ i' <= Len(toks) + 2
    BY <1>1, <2>1, <2>4
  <2>6. QED
    BY <2>4, <2>5, WithinReach, NoCallChanges
<1>14. CASE UnknownToken
  <2>1. UNCHANGED <<src, toks, i, yards, err, result>> /\ status' = "abort"
    BY <1>14 DEF UnknownToken
  <2>2. Rest
    BY <1>2, <2>1 DEF Rest
  <2>3. QED
    BY <1>2, <2>1, <2>2, NoCallChanges
<1>15. QED
  BY <1>4, <1>5, <1>6, <1>7, <1>8, <1>9, <1>10, <1>11, <1>12, <1>13, <1>14

\* Calls of SY_shunting_yard.
LEMMA CallKeeps ==
    ASSUME YardInv, ReadFuncCall \/ ReadArrayInitializer \/ ReadSubscript
    PROVE  YardInv'
<1>1. PICK size \in Nat : size = Len(toks) /\ DOMAIN toks = 1 .. size
  BY TopYard
<1>2. i \in Nat /\ err \in BOOLEAN /\ << >> \in Seq(Places)
  BY EmptySeq DEF YardInv
<1>3. CASE ReadFuncCall
  <2>1. i \in 1 .. size /\ toks[i] \in src.declared /\ i < size
    BY <1>1, <1>3, AtToken DEF ReadFuncCall, IsCall
  <2>2. i \in Places
    BY <1>1, <2>1 DEF Places
  <2>3. NextArg(yards, i, << >>, i + 2, err) /\ UNCHANGED <<src, toks, status, result>>
    BY <1>3 DEF ReadFuncCall
  <2>4. i + 2 \in Nat /\ i < i + 2 /\ i <= i + 2 /\ i + 2 <= Len(toks) + 1
    BY <1>1, <2>1
  <2>5. QED
    BY <1>2, <2>2, <2>3, <2>4, ArgFollows
<1>4. CASE ReadArrayInitializer
  <2>1. i \in 1 .. size /\ toks[i] \in {"{"}
    <3> DEFINE types == {"{"}
    <3>1. Reading(types)
      BY <1>4 DEF ReadArrayInitializer
    <3> HIDE DEF types
    <3>2. i \in 1 .. size /\ toks[i] \in types
      BY <1>1, <3>1, AtToken
    <3>3. QED
      BY <3>2, Zenon DEF types
  <2>2. i \in 1 .. size
    BY <2>1, Zenon
  <2>3. i \in Places
    <3>1. i \in DOMAIN toks
      BY <1>1, <2>2
    <3>2. toks[i] \notin Idents
      BY <2>1, Zenon DEF Idents, Names
    <3>3. QED
      BY <3>1, <3>2 DEF Places
  <2>4. NextElem(yards, i, << >>, i + 1, err) /\ UNCHANGED <<src, toks, status, result>>
    BY <1>4, Zenon DEF ReadArrayInitializer
  <2>5. i + 1 \in Nat /\ i < i + 1 /\ i <= i + 1 /\ i + 1 <= Len(toks) + 1
    BY ONLY <1>1, <2>2
  <2>6. QED
    BY <1>2, <2>3, <2>4, <2>5, ElemFollows
<1>5. CASE ReadSubscript
  <2>1. i \in 1 .. size /\ toks[i] = "["
    BY <1>1, <1>5, AtToken DEF ReadSubscript
  <2>2. i \in Places
    BY <1>1, <2>1 DEF Places, Idents, Names
  <2>3. NextItem(yards, "index", i, << >>, i + 1, err) /\ UNCHANGED <<src, toks, status, result>>
    BY <1>5 DEF ReadSubscript
  <2>4. i + 1 \in Nat /\ i < i + 1 /\ i <= i + 1 /\ i + 1 <= Len(toks) + 1
    BY ONLY <1>1, <2>1
  <2>5. QED
    BY <1>2, <2>2, <2>3, <2>4, ItemBegins
<1>6. QED
  BY <1>3, <1>4, <1>5

\* The end of a call.
LEMMA EndKeeps ==
    ASSUME YardInv,
           \/ FlushOperator \/ VerifyCrash
           \/ ReturnExpr \/ ReturnArg \/ ReturnSubscript \/ ReturnElem
    PROVE  YardInv'
<1>1. PICK size \in Nat : size = Len(toks) /\ DOMAIN toks = 1 .. size
  BY TopYard
<1>2. i \in Nat /\ InReach(i, Len(yards)) /\ err \in BOOLEAN /\ result \in Seq(Places)
      /\ status \in {"run", "done", "abort", "undefined"}
      /\ yards \in Seq(Yards) /\ yards # << >>
  BY DEF YardInv
<1>3. Y.old \in BOOLEAN
  BY TopYard DEF Yards
<1>4. ASSUME Y.kind # "expr"
      PROVE  /\ Front(yards) # << >> /\ Front(yards) # yards
             /\ Front(yards) \in Seq(Yards) /\ Last(Front(yards)) \in Yards
             /\ Last(Front(yards)) = yards[Len(yards) - 1]
             /\ Y.at \in Places
  <2>1. Front(yards) # yards
    <3>1. Len(Front(yards)) = Len(yards) - 1 /\ Len(yards) \in Nat
      BY <1>2, FrontOf, TopYard
    <3>2. Len(Front(yards)) # Len(yards)
      BY <3>1
    <3>3. QED
      BY <3>2
  <2>2. QED
    BY <1>4, <2>1, HasCaller
<1>5. CASE FlushOperator
  <2>1. CASE MoveOperator /\ UNCHANGED <<err, src, toks, i, result>> /\ Y.ops # << >>
    BY <2>1, OperatorMoves
  <2>2. CASE /\ yards' = SetY([Y EXCEPT !.ops = Front(@)]) /\ err' = TRUE
             /\ UNCHANGED <<status, src, toks, i, result>> /\ Y.ops # << >>
    <3>1. Front(Y.ops) \in Seq(OperatorsAt)
      <4>1. Y.ops \in Seq(OperatorsAt)
        BY TopYard DEF Yards
      <4>2. QED
        BY <2>2, <4>1, FrontOf
    <3>2. [Y EXCEPT !.ops = Front(@)] \in Yards /\ Same([Y EXCEPT !.ops = Front(@)])
      BY <3>1, WithOps
    <3>3. Rest
      BY <1>2, <2>2 DEF Rest
    <3>4. i' \in Nat /\ i <= i' /\ InReach(i', Len(yards))
      BY <1>2, <2>2
    <3> DEFINE new == [Y EXCEPT !.ops = Front(@)]
    <3>5. new \in Yards /\ Same(new) /\ yards' = SetY(new)
      BY <2>2, <3>2
    <3> HIDE DEF new
    <3>6. QED
      BY <3>3, <3>4, <3>5, StepInCall DEF Same
  <2>3. QED
    BY <1>5, <2>1, <2>2 DEF FlushOperator
<1>6. CASE VerifyCrash
  BY <1>2, <1>6, NoCallChanges DEF VerifyCrash, Rest
<1>7. CASE ReturnExpr
  BY <1>2, <1>7, Returned, NoCallChanges DEF ReturnExpr, Rest
<1>8. CASE ReturnArg
  <2>1. Y.kind # "expr"
    BY <1>8 DEF ReturnArg, Returning
  <2>2. /\ NextArg(Front(yards), Y.at, Y.items \o Value.tree, i, Error \/ Y.old)
        /\ UNCHANGED <<src, toks, status, result>>
    BY <1>8 DEF ReturnArg
  <2>3. QED
    <3>1. (Error \/ Y.old) \in BOOLEAN
      BY <1>3, Returned
    <3> DEFINE callers == Front(yards)
               error == Error \/ Y.old
               items == Y.items \o Value.tree
    <3>2. /\ callers # << >> /\ callers # yards /\ callers = Front(yards) /\ Y.at \in Places
          /\ error \in BOOLEAN /\ items \in Seq(Places) /\ i <= i /\ i \in Nat
          /\ NextArg(callers, Y.at, items, i, error)
          /\ UNCHANGED <<src, toks, status, result>>
      BY <1>2, <1>4, <2>1, <2>2, <3>1, Returned
    <3> HIDE DEF callers, error, items
    <3>3. QED
      BY <3>2, ArgFollows
<1>9. CASE ReturnSubscript
  <2>1. Y.kind # "expr"
    BY <1>9 DEF ReturnSubscript, Returning
  <2> DEFINE caller == yards[Len(yards) - 1]
             popped == [caller EXCEPT !.ops = Append(@, Operator("[", Y.at))]
             new == PushOut(popped, Value)
  <2>2. caller \in Yards
    BY <1>4, <2>1
  <2>3. popped \in Yards /\ popped.kind = caller.kind /\ popped.at = caller.at /\ popped.start = caller.start
    <3>1. Append(caller.ops, Operator("[", Y.at)) \in Seq(OperatorsAt)
      <4>1. Operator("[", Y.at) \in OperatorsAt
        BY <1>4, <2>1 DEF Operator, OperatorsAt, Operators, BinaryOps
      <4>2. caller.ops \in Seq(OperatorsAt)
        BY <2>2 DEF Yards
      <4>3. QED
        BY <4>1, <4>2, AppendProperties
    <3> HIDE DEF caller
    <3>2. QED
      BY <2>2, <3>1 DEF Yards
  <2>4. new \in Yards /\ new.kind = caller.kind /\ new.at = caller.at /\ new.start = caller.start
    BY <2>3, Returned, WithTree
  <2>5. yards' = Append(Front(Front(yards)), new) /\ i' = i + 1 /\ err' = (Error \/ Y.old)
        /\ UNCHANGED <<src, toks, status, result>>
    BY <1>9 DEF ReturnSubscript
  <2>6. Rest
    BY <1>2, <1>3, <2>5, Returned DEF Rest
  <2>7. Last(Front(yards)) = caller
    BY <1>4, <2>1
  <2> HIDE DEF new
  <2>8. yards' = [Front(yards) EXCEPT ![Len(Front(yards))] = new]
    BY <1>4, <2>1, <2>4, <2>5, TopReplaced
  <2>9. i' \in Nat /\ i <= i' /\ InReach(i', Len(Front(yards)))
    <3>1. i' \in Nat /\ i <= i'
      BY <1>2, <2>5
    <3>2. QED
      BY <2>5, <3>1, CallersReach
  <2> HIDE DEF caller
  <2>10. QED
    BY <1>4, <2>1, <2>4, <2>6, <2>7, <2>8, <2>9, CallEnds
<1>10. CASE ReturnElem
  <2>1. Y.kind # "expr"
    BY <1>10 DEF ReturnElem, Returning
  <2>2. CASE status' = "undefined" /\ UNCHANGED <<src, toks, i, yards, err, result>>
    BY <1>2, <2>2, NoCallChanges DEF Rest
  <2>3. CASE /\ NextElem(Front(yards), Y.at, Y.items \o Value.tree, i, Error \/ ~Static(Value.tree) \/ Y.old)
             /\ UNCHANGED <<src, toks, status, result>>
    <3>1. (Error \/ ~Static(Value.tree) \/ Y.old) \in BOOLEAN
      BY <1>3, Returned DEF Static
    <3> DEFINE callers == Front(yards)
               error == Error \/ ~Static(Value.tree) \/ Y.old
               items == Y.items \o Value.tree
    <3>2. /\ callers # << >> /\ callers # yards /\ callers = Front(yards) /\ Y.at \in Places
          /\ error \in BOOLEAN /\ items \in Seq(Places) /\ i <= i /\ i \in Nat
          /\ NextElem(callers, Y.at, items, i, error)
          /\ UNCHANGED <<src, toks, status, result>>
      BY <1>2, <1>4, <2>1, <2>3, <3>1, Returned
    <3> HIDE DEF callers, error, items
    <3>3. QED
      BY <3>2, ElemFollows
  <2>4. QED
    BY <1>10, <2>2, <2>3 DEF ReturnElem
<1>11. QED
  BY <1>5, <1>6, <1>7, <1>8, <1>9, <1>10

LEMMA NextKeeps ==
    ASSUME YardInv, Next
    PROVE  YardInv'
BY TokenKeeps, CallKeeps, EndKeeps DEF Next

\* The table and what is declared stay as they are.
LEMMA TableKept == Next => UNCHANGED <<src, toks>>
BY DEF Next, PopOperator, MissingOperand, PushOperator, ReadTypeCast, ReadLParen, PopInParens,
       ReadRParen, ReadOperand, ReadUndeclared, CallUndeclared, ReadFuncCall, ReadArrayInitializer,
       ReadSubscript, UnknownToken, FlushOperator, VerifyCrash, ReturnExpr, ReturnArg,
       ReturnSubscript, ReturnElem

-----------------------------------------------------------------------------
(* The theorem.                                                            *)

LEMMA TableOf ==
    ASSUME NEW f, NEW n \in Nat, f = [k \in 1 .. n |-> f[k]]
    PROVE  f \in Seq(ToSet(f)) /\ Len(f) = n
<1>1. ToSet(f) = {f[k] : k \in 1 .. n}
  BY DEF ToSet
<1>2. f \in [1 .. n -> ToSet(f)]
  BY <1>1
<1>3. QED
  BY <1>2

\* The passes leave a table, and one of a token at least where there was one.
LEMMA PassesLeave ==
    ASSUME NEW lex \in Seq(STRING)
    PROVE  /\ Passes(lex) \in Seq(ToSet(Passes(lex)))
           /\ lex # << >> => Passes(lex) # << >>
<1> DEFINE kept == {k \in DOMAIN lex : k = 1 \/ lex[k] # "str" \/ lex[k - 1] # "str"}
           n == Cardinality(kept)
           merged == MergeStrings(lex)
           unary == BinToUnary(merged)
           passed == PreToPostFix(unary)
<1>1. n \in Nat /\ (lex # << >> => n # 0)
  <2>1. DOMAIN lex = 1 .. Len(lex) /\ Len(lex) \in Nat /\ (lex # << >> => 1 \in DOMAIN lex)
    BY LenProperties, EmptySeq
  <2>2. IsFiniteSet(DOMAIN lex)
    BY <2>1, FS_Interval
  <2>3. kept \subseteq DOMAIN lex /\ (lex # << >> => 1 \in kept)
    BY <2>1
  <2> HIDE DEF kept
  <2>4. IsFiniteSet(kept)
    BY <2>2, <2>3, FS_Subset
  <2>5. n \in Nat
    BY <2>4, FS_CardinalityType
  <2>6. lex # << >> => n # 0
    BY <2>3, <2>4, FS_EmptySet
  <2>7. QED
    BY <2>5, <2>6
<1>2. DOMAIN merged = 1 .. n
  BY DEF MergeStrings
<1> HIDE DEF n, merged
<1>3. DOMAIN unary = 1 .. n
  BY <1>2 DEF BinToUnary
<1> HIDE DEF unary
<1>4. passed = [k \in 1 .. n |-> passed[k]]
  BY <1>3 DEF PreToPostFix
<1> HIDE DEF passed
<1>5. passed \in Seq(ToSet(passed)) /\ Len(passed) = n
  BY <1>1, <1>4, TableOf
<1>6. lex # << >> => passed # << >>
  BY <1>1, <1>5
<1>7. QED
  BY <1>5, <1>6 DEF Passes, passed, unary, merged

\* The outermost call begins.
YardBegins ==
    /\ toks \in Seq(ToSet(toks)) /\ src.lvls \in [Idents -> Nat]
    /\ i \in 1 .. Len(toks) + 1
    /\ yards = <<NewYard("expr", 0, i, << >>, FALSE)>>
    /\ err = FALSE /\ status = "run" /\ result = << >>

LEMMA BeginsRight == YardBegins => YardInv
<1> SUFFICES ASSUME YardBegins PROVE YardInv
  OBVIOUS
<1>1. PICK size \in Nat : size = Len(toks)
  BY DEF YardBegins
<1> DEFINE first == NewYard("expr", 0, i, << >>, FALSE)
<1>2. i \in Nat /\ i \in 1 .. size + 1
  BY <1>1 DEF YardBegins
<1>3. first \in Yards /\ first.kind = "expr" /\ first.start = i
  BY <1>2, EmptySeq DEF NewYard, Yards
<1>4. yards = <<first>>
  BY DEF YardBegins
<1> HIDE DEF first
<1>5. yards \in Seq(Yards) /\ Len(yards) = 1 /\ DOMAIN yards = {1} /\ yards[1] = first
  BY <1>3, <1>4
<1>6. NthYard(1)
  BY <1>1, <1>2, <1>3, <1>5 DEF NthYard
<1>7. InReach(i, Len(yards))
  BY <1>1, <1>2, <1>5 DEF InReach
<1>8. QED
  BY <1>2, <1>5, <1>6, <1>7, EmptySeq DEF YardInv, YardBegins

LEMMA InitYards == Init => YardInv
<1> SUFFICES ASSUME Init PROVE YardBegins
  BY BeginsRight
<1>1. toks \in Seq(ToSet(toks)) /\ toks # << >>
  BY SourcesAssumption, PassesLeave DEF Init
<1>2. i \in 1 .. Len(toks) + 1
  <2>1. Len(toks) \in Nat \ {0} /\ i = 2
    BY <1>1, EmptySeq DEF Init
  <2>2. QED
    BY <2>1
<1>3. src.lvls \in [Idents -> Nat]
  BY SourcesAssumption DEF Init
<1>4. QED
  BY <1>1, <1>2, <1>3 DEF Init, YardBegins, Null

LEMMA TreeOfPlaces ==
    ASSUME NEW tree \in Seq(Places)
    PROVE  TreeOK(tree)
<1>1. \A n \in DOMAIN tree : tree[n] \in Places
  OBVIOUS
<1>2. QED
  BY <1>1 DEF ToSet, TreeOK, Places

LEMMA TypesFollow == YardInv => TypeOK
<1> SUFFICES ASSUME YardInv PROVE TypeOK
  OBVIOUS
<1>1. PICK size \in Nat, depth \in Nat \ {0} : size = Len(toks) /\ depth = Len(yards)
                                            /\ depth <= i /\ i \in Nat
  BY TopYard DEF YardInv
<1>2. i \in 1 .. 2 * Len(toks) + 2
  <2>1. i > size => i + depth <= 2 * size + 3
    BY <1>1 DEF YardInv, InReach
  <2>2. QED
    BY ONLY <1>1, <2>1
<1>3. ASSUME NEW n \in DOMAIN yards PROVE YardOK(yards[n])
  <2> DEFINE y == yards[n]
  <2>1. y \in Yards /\ NthYard(n) /\ n \in Nat \ {0}
    BY DEF YardInv
  <2>2. y.start \in 1 .. Len(toks) + 1
    <3>1. PICK start \in Nat : start = y.start
      BY <2>1 DEF Yards
    <3>2. start \in n .. size + 1
      BY <1>1, <2>1, <3>1 DEF NthYard
    <3>3. start \in 1 .. size + 1
      BY ONLY <2>1, <3>1, <3>2, size \in Nat
    <3>4. QED
      BY <1>1, <3>1, <3>3
  <2>3. /\ TreeOK(y.items)
        /\ \A m \in DOMAIN y.out : TreeOK(y.out[m].tree) /\ y.out[m].lvl \in Nat
    <3>1. y.items \in Seq(Places) /\ y.out \in Seq(Nodes)
      BY <2>1 DEF Yards
    <3>2. \A m \in DOMAIN y.out : y.out[m].tree \in Seq(Places) /\ y.out[m].lvl \in Nat
      <4>1. \A m \in DOMAIN y.out : y.out[m] \in Nodes
        BY <3>1
      <4>2. QED
        BY <4>1 DEF Nodes
    <3>3. QED
      BY <3>1, <3>2, TreeOfPlaces
  <2>4. \A m \in DOMAIN y.ops :
          y.ops[m].type \in Operators \cup {"("} /\ y.ops[m].at \in DOMAIN toks
    <3>1. y.ops \in Seq(OperatorsAt)
      BY <2>1 DEF Yards
    <3>2. \A m \in DOMAIN y.ops : y.ops[m] \in OperatorsAt
      BY <3>1
    <3>3. QED
      BY <3>2 DEF OperatorsAt, Places
  <2>5. y.kind \in {"expr", "arg", "index", "elem"} /\ y.old \in BOOLEAN /\ y.parens \in Int
    BY <2>1 DEF Yards
  <2>6. QED
    BY <2>2, <2>3, <2>4, <2>5 DEF YardOK
<1>4. TreeOK(result)
  BY TreeOfPlaces DEF YardInv
<1>5. QED
  BY <1>2, <1>3, <1>4 DEF TypeOK, YardInv

\* SY_shunting_yard never takes a position further than the tokens and its
\* active calls allow, also where the table ends within brackets, and never
\* has a node for what the parser has not declared: for expressions of any
\* length, nested to any depth, valid or not.
THEOREM TypeIsOK == Spec => []TypeOK
<1>1. Init => YardInv
  BY InitYards
<1>2. YardInv /\ [Next]_vars => YardInv'
  <2>1. YardInv /\ Next => YardInv'
    BY NextKeeps
  <2>2. YardInv /\ UNCHANGED vars => YardInv'
    BY DEF vars, YardInv, NthYard, InReach, Places, Yards, Nodes, OperatorsAt
  <2>3. QED
    BY <2>1, <2>2
<1>3. QED
  BY <1>1, <1>2, TypesFollow, PTL DEF Spec
=============================================================================
