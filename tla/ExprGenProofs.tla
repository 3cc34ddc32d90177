---------------------------- MODULE ExprGenProofs ----------------------------
(***************************************************************************)
(* Proofs about the bookkeeping of the code for an expression: the types,  *)
(* the pool of registers, the depth of the stack and what the two have to  *)
(* do with the active calls; and, building on that, about the values the   *)
(* registers and the stack hold.                                           *)
(*                                                                         *)
(* The GPRegs that an activation holds are put in one row, a place for     *)
(* each active call and one for `res': a flag is set for exactly the       *)
(* places that are not leaked (PoolOK), and each call begins at the depth  *)
(* where the call around it has come to (StackInv).                        *)
(***************************************************************************)
EXTENDS ExprGen, SequenceTheorems, FiniteSetTheorems, WellFoundedInduction, TLAPS

-----------------------------------------------------------------------------
(* The choices of alloc_reg.                                               *)

\* The least-number principle.
LEMMA LeastNatural ==
    ASSUME NEW S \in SUBSET Nat, S # {}
    PROVE  \E m \in S : \A s \in S : m <= s
<1> DEFINE Less == {p \in Nat \X Nat : p[1] < p[2]}
<1>1. IsWellFoundedOn(Less, Nat)
  BY NatLessThanWellFounded DEF OpToRel
<1>2. PICK m \in S : \A s \in S : <<s, m>> \notin Less
  BY <1>1, WFMin
<1>3. ASSUME NEW s \in S PROVE m <= s
  <2>1. m \in Nat /\ s \in Nat
    OBVIOUS
  <2>2. ~(s < m)
    BY <1>2, <2>1
  <2>3. QED BY <2>1, <2>2
<1>4. QED
  BY <1>3

\* unused_reg finds the least unused register whenever there is one.
LEMMA UnusedRegIsLeast ==
    ASSUME NEW u \in SUBSET Regs, NEW next \in Regs, ~MustLeak(u)
    PROVE  /\ AllocIdx(u, next) \in Unused(u)
           /\ \A s \in Unused(u) : AllocIdx(u, next) <= s
<1>1. Unused(u) \subseteq Nat /\ Unused(u) # {}
  BY NRegsAssumption DEF MustLeak, Unused, Regs
<1>2. \E m \in Unused(u) : \A s \in Unused(u) : m <= s
  BY <1>1, LeastNatural
<1>3. QED
  BY <1>2 DEF AllocIdx

LEMMA UnusedRegIsUnused ==
    ASSUME NEW u \in SUBSET Regs, NEW next \in Regs, ~MustLeak(u)
    PROVE  AllocIdx(u, next) \in Unused(u)
BY UnusedRegIsLeast

LEMMA AllocIdxIsReg ==
    ASSUME NEW u \in SUBSET Regs, NEW next \in Regs
    PROVE  AllocIdx(u, next) \in Regs
BY UnusedRegIsUnused DEF AllocIdx, Unused

LEMMA NextToLeakIsReg ==
    ASSUME NEW u \in SUBSET Regs, NEW next \in Regs
    PROVE  NextToLeak(u, next) \in Regs
BY NRegsAssumption DEF NextToLeak, Regs

-----------------------------------------------------------------------------
(* The space for the arguments of a call.                                  *)

Rounded(n, size) == RoundUp(n, size) + size
\* f is the sum over the first n sizes.
IsSpace(f, sizes, n) ==
    f = [i \in 0 .. n |-> IF i = 0 THEN 0 ELSE Rounded(f[i - 1], sizes[i])]

LEMMA RoundedIsNat ==
    ASSUME NEW n \in Nat, NEW size \in 1 .. Word
    PROVE  Rounded(n, size) \in Nat
<1>1. Word \in Nat /\ size \in Nat \ {0}
  BY ExprGenAssumption
<1>2. n % size \in 0 .. size - 1
  BY <1>1
<1>3. QED
  BY <1>1, <1>2 DEF Rounded, RoundUp

LEMMA SpaceExists ==
    ASSUME NEW sizes, NEW n \in Nat
    PROVE  \E f : IsSpace(f, sizes, n)
<1> DEFINE Bad == {k \in Nat : ~\E f : IsSpace(f, sizes, k)}
<1>1. SUFFICES ASSUME Bad # {} PROVE FALSE
  OBVIOUS
<1>2. PICK m \in Bad : \A s \in Bad : m <= s
  BY <1>1, LeastNatural
<1>3. m # 0
  <2>1. IsSpace([i \in 0 .. 0 |-> 0], sizes, 0)
    BY DEF IsSpace
  <2>2. QED BY <2>1
<1>4. m - 1 \in Nat /\ m - 1 \notin Bad
  BY <1>2, <1>3
<1>5. PICK f : IsSpace(f, sizes, m - 1)
  BY <1>4
<1> DEFINE g == [i \in 0 .. m |-> IF i = m THEN Rounded(f[m - 1], sizes[m]) ELSE f[i]]
<1>6. \A i \in 0 .. m : g[i] = IF i = 0 THEN 0 ELSE Rounded(g[i - 1], sizes[i])
  <2> TAKE i \in 0 .. m
  <2>1. \A j \in 0 .. m - 1 : f[j] = IF j = 0 THEN 0 ELSE Rounded(f[j - 1], sizes[j])
    BY <1>5 DEF IsSpace
  <2>2. CASE i = m
    BY <2>2, <1>3, <1>4
  <2>3. CASE i # m /\ i # 0
    <3>1. i \in 0 .. m - 1 /\ i - 1 \in 0 .. m /\ i - 1 # m
      BY <2>3, <1>4
    <3>2. QED BY <3>1, <2>1, <2>3
  <2>4. CASE i = 0
    BY <2>4, <2>1, <1>3, <1>4
  <2>5. QED BY <2>2, <2>3, <2>4
<1>7. g = [i \in 0 .. m |-> g[i]]
  OBVIOUS
<1> HIDE DEF g
<1>8. IsSpace(g, sizes, m)
  BY <1>6, <1>7 DEF IsSpace
<1>9. QED
  BY <1>8

LEMMA SpaceFacts ==
    ASSUME NEW sizes \in Seq(ArgSizes)
    PROVE  \E f : IsSpace(f, sizes, Len(sizes)) /\ ArgsStackSpace(sizes) = f[Len(sizes)]
<1> DEFINE f == CHOOSE h : IsSpace(h, sizes, Len(sizes))
<1>1. Len(sizes) \in Nat
  OBVIOUS
<1>2. IsSpace(f, sizes, Len(sizes))
  BY <1>1, SpaceExists, Zenon
<1>3. ArgsStackSpace(sizes) = f[Len(sizes)]
  BY Zenon DEF ArgsStackSpace, IsSpace, Rounded
<1>4. QED BY <1>2, <1>3

\* The space is a number of cells, and none without arguments.
LEMMA SpaceIsNat ==
    ASSUME NEW sizes \in Seq(ArgSizes)
    PROVE  ArgsStackSpace(sizes) \in Nat
<1>1. PICK f : IsSpace(f, sizes, Len(sizes)) /\ ArgsStackSpace(sizes) = f[Len(sizes)]
  BY SpaceFacts
<1> DEFINE Bad == {k \in Nat : k <= Len(sizes) /\ f[k] \notin Nat}
<1>2. Len(sizes) \in Nat
  OBVIOUS
<1>3. SUFFICES ASSUME Bad # {} PROVE FALSE
  BY <1>1, <1>2
<1>4. PICK m \in Bad : \A s \in Bad : m <= s
  BY <1>3, LeastNatural
<1>5. f[m] = IF m = 0 THEN 0 ELSE Rounded(f[m - 1], sizes[m])
  <2>1. m \in 0 .. Len(sizes)
    BY <1>2, <1>4
  <2>2. QED BY <1>1, <2>1 DEF IsSpace
<1>6. m # 0
  BY <1>5
<1>7. m - 1 \in Nat /\ m - 1 <= Len(sizes) /\ m - 1 \notin Bad /\ m \in 1 .. Len(sizes)
  BY <1>2, <1>4, <1>6
<1>8. f[m - 1] \in Nat /\ sizes[m] \in 1 .. Word
  <2>1. sizes[m] \in ArgSizes
    BY <1>7, ElementOfSeq
  <2>2. QED BY <1>7, <2>1, ExprGenAssumption
<1>9. QED
  BY <1>4, <1>5, <1>6, <1>8, RoundedIsNat

LEMMA NoSpace == ArgsStackSpace(<< >>) = 0
<1>1. << >> \in Seq(ArgSizes) /\ Len(<< >>) = 0
  OBVIOUS
<1>2. PICK f : IsSpace(f, << >>, 0) /\ ArgsStackSpace(<< >>) = f[0]
  BY <1>1, SpaceFacts
<1>3. QED BY <1>2 DEF IsSpace

\* Arguments of a word each take a word each.
LEMMA WordMultiple ==
    ASSUME NEW n \in Nat
    PROVE  Word * n \in Nat /\ (Word * n) % Word = 0 /\ Word * (n + 1) = Word * n + Word
BY ExprGenAssumption

LEMMA SpaceOfWords ==
    ASSUME NEW sizes \in Seq(ArgSizes), ArgSizes \subseteq {Word}
    PROVE  ArgsStackSpace(sizes) = Word * Len(sizes)
<1>1. PICK f : IsSpace(f, sizes, Len(sizes)) /\ ArgsStackSpace(sizes) = f[Len(sizes)]
  BY SpaceFacts
<1> DEFINE Bad == {k \in Nat : k <= Len(sizes) /\ f[k] # Word * k}
<1>2. Len(sizes) \in Nat
  OBVIOUS
<1>3. SUFFICES ASSUME Bad # {} PROVE FALSE
  BY <1>1, <1>2
<1>4. PICK m \in Bad : \A s \in Bad : m <= s
  BY <1>3, LeastNatural
<1>5. f[m] = IF m = 0 THEN 0 ELSE Rounded(f[m - 1], sizes[m])
  BY <1>1, <1>2, <1>4 DEF IsSpace
<1>6. m # 0
  BY <1>5, <1>4, ExprGenAssumption
<1>7. m - 1 \in Nat /\ m - 1 <= Len(sizes) /\ m - 1 \notin Bad /\ m \in 1 .. Len(sizes)
  BY <1>2, <1>4, <1>6
<1>8. f[m - 1] = Word * (m - 1) /\ sizes[m] = Word
  BY <1>7
<1>9. f[m] = Word * (m - 1) + Word
  BY <1>5, <1>6, <1>7, <1>8, WordMultiple DEF Rounded, RoundUp
<1>10. QED
  BY <1>4, <1>7, <1>9, WordMultiple

-----------------------------------------------------------------------------
(* Sequences and the machine stack.                                        *)

LEMMA FrontFacts ==
    ASSUME NEW S, NEW s \in Seq(S), s # << >>
    PROVE  /\ Front(s) \in Seq(S)
           /\ Len(s) \in Nat \ {0}
           /\ Len(Front(s)) = Len(s) - 1
           /\ \A i \in 1 .. Len(s) - 1 : Front(s)[i] = s[i]
<1>1. Len(s) \in Nat \ {0} /\ \A i \in 1 .. Len(s) : s[i] \in S
  BY EmptySeq, ElementOfSeq
<1>2. \A i \in 1 .. Len(s) - 1 : s[i] \in S
  BY <1>1
<1> DEFINE m == Len(s) - 1
<1>3. m \in Nat /\ m \in Int /\ 1 \in Int /\ \A i \in 1 .. m : s[i] \in S
  BY <1>1, <1>2
<1>4. /\ SubSeq(s, 1, m) \in Seq(S)
      /\ Len(SubSeq(s, 1, m)) = IF 1 <= m THEN m - 1 + 1 ELSE 0
      /\ \A i \in 1 .. m - 1 + 1 : SubSeq(s, 1, m)[i] = s[1 + i - 1]
  <2> HIDE DEF m
  <2>1. QED BY <1>3, SubSeqProperties
<1>5. (IF 1 <= m THEN m - 1 + 1 ELSE 0) = m /\ m - 1 + 1 = m
  <2> HIDE DEF m
  <2>1. QED BY <1>3
<1>6. \A i \in 1 .. m : 1 + i - 1 = i
  BY <1>3
<1>7. QED
  BY <1>1, <1>4, <1>5, <1>6, Zenon DEF Front

\* The cells of the word above depth d.
WordOf(d) == d + 1 .. d + Word

\* Cells below depth n are the same.
SameBelow(st, t, n) == \A k \in 1 .. n : t[k] = st[k]

LEMMA GrowFacts ==
    ASSUME NEW st \in Seq(Nat), NEW n \in Nat, NEW v \in Nat
    PROVE  /\ st \o Cells(n, v) \in Seq(Nat)
           /\ Len(st \o Cells(n, v)) = Len(st) + n
           /\ SameBelow(st, st \o Cells(n, v), Len(st))
           /\ \A k \in Len(st) + 1 .. Len(st) + n : (st \o Cells(n, v))[k] = v
<1>1. Cells(n, v) \in Seq(Nat) /\ Len(Cells(n, v)) = n /\ \A i \in 1 .. n : Cells(n, v)[i] = v
  BY DEF Cells
<1>2. Len(st) \in Nat
  OBVIOUS
<1> DEFINE c == Cells(n, v)
<1> HIDE DEF c
<1>3. /\ st \o c \in Seq(Nat)
      /\ Len(st \o c) = Len(st) + Len(c)
      /\ \A i \in 1 .. Len(st) + Len(c) :
           (st \o c)[i] = IF i <= Len(st) THEN st[i] ELSE c[i - Len(st)]
  BY <1>1, ConcatProperties DEF c
<1>4. \A k \in Len(st) + 1 .. Len(st) + n : k - Len(st) \in 1 .. n
  BY <1>2
<1>5. QED
  BY <1>1, <1>2, <1>3, <1>4 DEF SameBelow, c

LEMMA PushFacts ==
    ASSUME NEW st \in Seq(Nat), NEW v \in Nat
    PROVE  /\ Push(st, v) \in Seq(Nat)
           /\ Len(Push(st, v)) = Len(st) + Word
           /\ SameBelow(st, Push(st, v), Len(st))
           /\ \A k \in WordOf(Len(st)) : Push(st, v)[k] = v
<1>1. Word \in Nat
  BY ExprGenAssumption
<1>2. QED
  BY <1>1, GrowFacts DEF Push, WordOf

LEMMA PopFacts ==
    ASSUME NEW st \in Seq(Nat), NEW n \in Nat, n <= Len(st)
    PROVE  /\ Popped(st, n) \in Seq(Nat)
           /\ Len(Popped(st, n)) = Len(st) - n
           /\ SameBelow(st, Popped(st, n), Len(st) - n)
<1> DEFINE m == Len(st) - n
<1>1. m \in Nat /\ m \in Int /\ 1 \in Int /\ \A i \in 1 .. m : st[i] \in Nat
  BY ElementOfSeq
<1>2. /\ SubSeq(st, 1, m) \in Seq(Nat)
      /\ Len(SubSeq(st, 1, m)) = IF 1 <= m THEN m - 1 + 1 ELSE 0
      /\ \A i \in 1 .. m - 1 + 1 : SubSeq(st, 1, m)[i] = st[1 + i - 1]
  <2> HIDE DEF m
  <2>1. QED BY <1>1, SubSeqProperties
<1>3. (IF 1 <= m THEN m - 1 + 1 ELSE 0) = m /\ m - 1 + 1 = m
  BY <1>1
<1>4. \A i \in 1 .. m : 1 + i - 1 = i
  OBVIOUS
<1>5. QED
  BY <1>2, <1>3, <1>4, Zenon DEF Popped, SameBelow

LEMMA StoreFacts ==
    ASSUME NEW st \in Seq(Nat), NEW off \in Nat, NEW v \in Nat
    PROVE  /\ Store(st, off, v) \in Seq(Nat)
           /\ Len(Store(st, off, v)) = Len(st)
           /\ \A k \in 1 .. Len(st) : Store(st, off, v)[k] =
                IF k \in WordOf(Len(st) - off - Word) THEN v ELSE st[k]
<1>1. Len(st) \in Nat /\ DOMAIN st = 1 .. Len(st) /\ \A k \in 1 .. Len(st) : st[k] \in Nat
  BY ElementOfSeq
<1>2. Word \in Nat
  BY ExprGenAssumption
<1>3. Len(st) - off - Word + Word = Len(st) - off
  BY <1>1, <1>2
<1>4. QED
  BY <1>1, <1>3 DEF Store, WordOf

\* A word whose cells hold v is v, and the word at an address inside of the
\* stack is a value.
LEMMA WordAtFacts ==
    ASSUME NEW st \in Seq(Nat), NEW off \in Nat, off + Word <= Len(st)
    PROVE  /\ WordAt(st, off) \in Nat
           /\ \A v : (\A k \in WordOf(Len(st) - off - Word) : st[k] = v) => WordAt(st, off) = v
<1> DEFINE d == Len(st) - off - Word
           found == {st[i] : i \in Len(st) - off - Word + 1 .. Len(st) - off}
<1>1. Word \in Nat \ {0} /\ Len(st) \in Nat /\ d \in Nat
  BY ExprGenAssumption
<1>2. Len(st) - off - Word + 1 .. Len(st) - off = WordOf(d)
  BY <1>1 DEF WordOf
<1>3. \A k \in WordOf(d) : k \in 1 .. Len(st) /\ st[k] \in Nat
  BY <1>1, ElementOfSeq DEF WordOf
<1>4. found \subseteq Nat
  BY <1>2, <1>3
<1>5. WordAt(st, off) = IF Cardinality(found) = 1 THEN CHOOSE v \in found : TRUE ELSE Junk
  BY DEF WordAt
<1>6. d + 1 \in WordOf(d)
  BY <1>1 DEF WordOf
<1>7. found # {}
  BY <1>2, <1>6
<1>8. WordAt(st, off) \in Nat
  BY <1>4, <1>5, <1>7 DEF Junk
<1>9. ASSUME NEW v, \A k \in WordOf(d) : st[k] = v PROVE WordAt(st, off) = v
  <2>1. found = {v}
    BY <1>2, <1>6, <1>9
  <2>2. Cardinality(found) = 1
    BY <2>1, FS_Singleton
  <2>3. (CHOOSE w \in found : TRUE) = v
    BY <2>1
  <2>4. QED BY <1>5, <2>2, <2>3
<1>10. QED
  BY <1>8, <1>9

-----------------------------------------------------------------------------
(* The GPRegs that are handed out.  Place i holds that of the i-th active  *)
(* call, the place after the last call holds `res'.                        *)

Places == Nat \ {0}
OwnersOf(cs, r) ==
    [i \in Places |-> CASE i \in 1 .. Len(cs)  -> cs[i].own
                        [] i = Len(cs) + 1     -> r
                        [] OTHER               -> NoReg]
Owners == OwnersOf(calls, res)

Owning == [Places -> GPReg]
Live(g, i) == g[i].reg \in Regs
Flagged(g, i) == Live(g, i) /\ ~g[i].leaked
\* No place from m on is taken.
FreeFrom(g, m) == \A i \in Places : i >= m => g[i] = NoReg

\* A flag is set for each GPReg that was handed out without a leak, and for no
\* other; and once a register is leaked, all are in use by older ones.
FlagsExact(g, u) ==
    /\ \A r \in Regs : r \in u <=> \E i \in Places : Flagged(g, i) /\ g[i].reg = r
    /\ \A i, j \in Places : Flagged(g, i) /\ Flagged(g, j) /\ g[i].reg = g[j].reg => i = j
LeakedLast(g, ks) ==
    \A j \in Places : g[j].leaked =>
      /\ "postfix" \notin ks /\ Live(g, j)
      /\ \A r \in Regs : \E i \in Places : i < j /\ Flagged(g, i) /\ g[i].reg = r
PoolOK(g, u, ks) == FlagsExact(g, u) /\ LeakedLast(g, ks)

LEMMA NoRegIsGPReg == NoReg \in GPReg /\ NoReg.reg \notin Regs /\ NoReg.leaked = FALSE
BY NRegsAssumption DEF NoReg, GPReg, Regs, Junk

\* A GPReg other than NoReg names a register.
LEMMA HeldFacts ==
    ASSUME NEW x \in GPReg
    PROVE  /\ x # NoReg <=> x.reg \in Regs
           /\ x # NoReg => x \in [reg : Regs, leaked : BOOLEAN, val : Nat]
           /\ x.leaked \in BOOLEAN /\ x.val \in Nat
           /\ x.leaked => x # NoReg
<1>1. CASE x = NoReg
  BY <1>1, NoRegIsGPReg DEF NoReg, Junk
<1>2. CASE x \in [reg : Regs, leaked : BOOLEAN, val : Nat]
  <2>1. x.reg \in Regs /\ x.leaked \in BOOLEAN /\ x.val \in Nat
    BY <1>2
  <2>2. x # NoReg
    BY <2>1, NoRegIsGPReg
  <2>3. QED BY <1>2, <2>1, <2>2
<1>3. QED BY <1>1, <1>2 DEF GPReg

LEMMA PoolEmpty ==
    ASSUME NEW g \in Owning, FreeFrom(g, 1), NEW ks
    PROVE  PoolOK(g, {}, ks)
<1>1. \A i \in Places : i >= 1 /\ g[i] = NoReg
  BY DEF FreeFrom, Places
<1>2. QED
  BY <1>1, NoRegIsGPReg DEF PoolOK, FlagsExact, LeakedLast, Flagged, Live

\* A GPReg is handed out at place m.
LEMMA PoolAdd ==
    ASSUME NEW g \in Owning, NEW u \in SUBSET Regs, NEW ks, PoolOK(g, u, ks),
           NEW m \in Places, FreeFrom(g, m),
           NEW x \in GPReg, x.reg \in Regs,
           ~x.leaked => x.reg \notin u,
           x.leaked => u = Regs /\ "postfix" \notin ks
    PROVE  PoolOK([g EXCEPT ![m] = x], u \cup {x.reg}, ks)
<1> DEFINE h == [g EXCEPT ![m] = x]
           v == u \cup {x.reg}
<1>1. h[m] = x /\ \A i \in Places : i # m => h[i] = g[i]
  BY DEF Owning
<1>2. \A i \in Places : g[i].reg \in Regs \/ g[i].leaked => i < m
  <2>1. \A i \in Places : i >= m \/ i < m
    BY DEF Places
  <2>2. QED BY <2>1, NoRegIsGPReg DEF FreeFrom
<1> HIDE DEF h
<1>3. FlagsExact(h, v)
  <2>1. ASSUME NEW r \in Regs, r \in v PROVE \E i \in Places : Flagged(h, i) /\ h[i].reg = r
    <3>1. CASE r \in u
      <4>1. PICK i \in Places : Flagged(g, i) /\ g[i].reg = r
        BY <3>1 DEF PoolOK, FlagsExact
      <4>2. i # m
        BY <4>1, <1>2 DEF Flagged, Live, Places
      <4>3. QED BY <4>1, <4>2, <1>1 DEF Flagged, Live
    <3>2. CASE r = x.reg /\ ~x.leaked
      BY <3>2, <1>1 DEF Flagged, Live
    <3>3. QED BY <2>1, <3>1, <3>2
  <2>2. ASSUME NEW r \in Regs, NEW i \in Places, Flagged(h, i), h[i].reg = r PROVE r \in v
    <3>1. CASE i = m
      BY <3>1, <2>2, <1>1
    <3>2. CASE i # m
      BY <3>2, <2>2, <1>1 DEF PoolOK, FlagsExact, Flagged, Live
    <3>3. QED BY <3>1, <3>2
  <2>3. ASSUME NEW i \in Places, NEW j \in Places, Flagged(h, i), Flagged(h, j), h[i].reg = h[j].reg
        PROVE  i = j
    <3>1. \A k \in Places : k # m /\ Flagged(h, k) => Flagged(g, k) /\ h[k] = g[k] /\ g[k].reg \in u
      BY <1>1 DEF PoolOK, FlagsExact, Flagged, Live
    <3>2. Flagged(h, m) => x.reg \notin u
      BY <1>1 DEF Flagged
    <3>3. QED BY <3>1, <3>2, <2>3, <1>1 DEF PoolOK, FlagsExact
  <2>4. QED BY <2>1, <2>2, <2>3 DEF FlagsExact
<1>4. LeakedLast(h, ks)
  <2> SUFFICES ASSUME NEW j \in Places, h[j].leaked
               PROVE  /\ "postfix" \notin ks /\ Live(h, j)
                      /\ \A r \in Regs : \E i \in Places : i < j /\ Flagged(h, i) /\ h[i].reg = r
    BY DEF LeakedLast
  <2>1. ASSUME NEW r \in Regs, NEW i \in Places, Flagged(g, i), g[i].reg = r
        PROVE  i < m /\ Flagged(h, i) /\ h[i].reg = r
    BY <2>1, <1>1, <1>2 DEF Flagged, Live, Places
  <2>2. CASE j = m
    <3>1. "postfix" \notin ks /\ Live(h, j) /\ u = Regs
      BY <2>2, <1>1 DEF Live
    <3>2. QED BY <3>1, <2>1, <2>2 DEF PoolOK, FlagsExact
  <2>3. CASE j # m
    BY <2>3, <2>1, <1>1 DEF PoolOK, LeakedLast, Live
  <2>4. QED BY <2>2, <2>3
<1>5. QED BY <1>3, <1>4 DEF PoolOK, h

\* The newest GPReg, at place m, is given back.
LEMMA PoolFree ==
    ASSUME NEW g \in Owning, NEW u \in SUBSET Regs, NEW ks, PoolOK(g, u, ks),
           NEW m \in Places, FreeFrom(g, m + 1), Live(g, m)
    PROVE  PoolOK([g EXCEPT ![m] = NoReg], IF g[m].leaked THEN u ELSE u \ {g[m].reg}, ks)
<1> DEFINE h == [g EXCEPT ![m] = NoReg]
           v == IF g[m].leaked THEN u ELSE u \ {g[m].reg}
<1>1. h[m] = NoReg /\ \A i \in Places : i # m => h[i] = g[i]
  BY DEF Owning
<1>2. \A i \in Places : g[i].reg \in Regs \/ g[i].leaked => i <= m
  <2>1. \A i \in Places : i >= m + 1 \/ i <= m
    BY DEF Places
  <2>2. QED BY <2>1, NoRegIsGPReg DEF FreeFrom
<1>3. ~Flagged(h, m) /\ ~h[m].leaked
  BY <1>1, NoRegIsGPReg DEF Flagged, Live
<1> HIDE DEF h
<1>4. \A i \in Places : i # m => (Flagged(h, i) <=> Flagged(g, i))
  BY <1>1 DEF Flagged, Live
<1>5. FlagsExact(h, v)
  <2>1. ASSUME NEW r \in Regs, r \in v PROVE \E i \in Places : Flagged(h, i) /\ h[i].reg = r
    <3>1. PICK i \in Places : Flagged(g, i) /\ g[i].reg = r
      BY <2>1 DEF PoolOK, FlagsExact
    <3>2. i # m
      BY <2>1, <3>1 DEF Flagged
    <3>3. QED BY <3>1, <3>2, <1>1, <1>4
  <2>2. ASSUME NEW r \in Regs, NEW i \in Places, Flagged(h, i), h[i].reg = r PROVE r \in v
    <3>1. i # m /\ Flagged(g, i) /\ g[i].reg = r /\ r \in u
      BY <2>2, <1>1, <1>3, <1>4 DEF PoolOK, FlagsExact
    <3>2. CASE g[m].leaked
      BY <3>1, <3>2
    <3>3. CASE ~g[m].leaked
      <4>1. Flagged(g, m)
        BY <3>3 DEF Flagged
      <4>2. r # g[m].reg
        BY <3>1, <4>1 DEF PoolOK, FlagsExact
      <4>3. QED BY <3>1, <3>3, <4>2
    <3>4. QED BY <3>2, <3>3
  <2>3. ASSUME NEW i \in Places, NEW j \in Places, Flagged(h, i), Flagged(h, j), h[i].reg = h[j].reg
        PROVE  i = j
    BY <2>3, <1>1, <1>3, <1>4 DEF PoolOK, FlagsExact
  <2>4. QED BY <2>1, <2>2, <2>3 DEF FlagsExact
<1>6. LeakedLast(h, ks)
  <2> SUFFICES ASSUME NEW j \in Places, h[j].leaked
               PROVE  /\ "postfix" \notin ks /\ Live(h, j)
                      /\ \A r \in Regs : \E i \in Places : i < j /\ Flagged(h, i) /\ h[i].reg = r
    BY DEF LeakedLast
  <2>1. j # m /\ h[j] = g[j] /\ j < m
    BY <1>1, <1>2, <1>3 DEF Places
  <2>2. \A i \in Places : i < j => i # m
    BY <2>1 DEF Places
  <2>3. QED BY <2>1, <2>2, <1>1, <1>4 DEF PoolOK, LeakedLast, Live
<1>7. QED BY <1>5, <1>6 DEF PoolOK, h

\* The GPReg at place m stays there, with another value.
LEMMA PoolSame ==
    ASSUME NEW g \in Owning, NEW u \in SUBSET Regs, NEW ks, PoolOK(g, u, ks),
           NEW m \in Places, NEW x \in GPReg, x.reg = g[m].reg, x.leaked = g[m].leaked
    PROVE  PoolOK([g EXCEPT ![m] = x], u, ks)
<1> DEFINE h == [g EXCEPT ![m] = x]
<1>1. \A i \in Places : h[i].reg = g[i].reg /\ h[i].leaked = g[i].leaked
  BY DEF Owning
<1> HIDE DEF h
<1>2. \A i \in Places : Flagged(h, i) <=> Flagged(g, i)
  BY <1>1 DEF Flagged, Live
<1>3. FlagsExact(h, u)
  BY <1>1, <1>2 DEF PoolOK, FlagsExact
<1>4. LeakedLast(h, ks)
  BY <1>1, <1>2 DEF PoolOK, LeakedLast, Live
<1>5. QED BY <1>3, <1>4 DEF PoolOK, h

\* The newest GPReg goes from place m + 1 to the free place before it.
LEMMA PoolMove ==
    ASSUME NEW g \in Owning, NEW u \in SUBSET Regs, NEW ks, PoolOK(g, u, ks),
           NEW m \in Places, g[m] = NoReg, FreeFrom(g, m + 2)
    PROVE  PoolOK([g EXCEPT ![m] = g[m + 1], ![m + 1] = NoReg], u, ks)
<1> DEFINE h == [g EXCEPT ![m] = g[m + 1], ![m + 1] = NoReg]
           From(i) == IF i = m THEN m + 1 ELSE i
           To(i) == IF i = m + 1 THEN m ELSE i
<1>1. m + 1 \in Places /\ m + 1 # m
  BY DEF Places
<1>2. /\ h[m] = g[m + 1] /\ h[m + 1] = NoReg
      /\ \A i \in Places : i # m /\ i # m + 1 => h[i] = g[i]
  BY <1>1 DEF Owning
<1>3. \A i \in Places : g[i].reg \in Regs \/ g[i].leaked => i <= m + 1 /\ i # m
  <2>1. \A i \in Places : i >= m + 2 \/ i <= m + 1
    BY DEF Places
  <2>2. QED BY <2>1, NoRegIsGPReg DEF FreeFrom
<1> HIDE DEF h
<1>4. \A i \in Places : (Flagged(h, i) \/ h[i].leaked) =>
        /\ From(i) \in Places /\ h[i] = g[From(i)] /\ i # m + 1
        /\ (Flagged(h, i) <=> Flagged(g, From(i)))
  BY <1>1, <1>2, NoRegIsGPReg DEF Flagged, Live
<1>5. \A i \in Places : (Flagged(g, i) \/ g[i].leaked) =>
        /\ To(i) \in Places /\ g[i] = h[To(i)]
        /\ (Flagged(h, To(i)) <=> Flagged(g, i))
  BY <1>1, <1>2, <1>3 DEF Flagged, Live
<1>6. FlagsExact(h, u)
  <2>1. ASSUME NEW r \in Regs, r \in u PROVE \E i \in Places : Flagged(h, i) /\ h[i].reg = r
    <3>1. PICK i \in Places : Flagged(g, i) /\ g[i].reg = r
      BY <2>1 DEF PoolOK, FlagsExact
    <3>2. QED BY <3>1, <1>5
  <2>2. ASSUME NEW r \in Regs, NEW i \in Places, Flagged(h, i), h[i].reg = r PROVE r \in u
    BY <2>2, <1>4 DEF PoolOK, FlagsExact
  <2>3. ASSUME NEW i \in Places, NEW j \in Places, Flagged(h, i), Flagged(h, j), h[i].reg = h[j].reg
        PROVE  i = j
    <3>1. From(i) = From(j)
      BY <2>3, <1>4 DEF PoolOK, FlagsExact
    <3>2. QED BY <2>3, <3>1, <1>4 DEF Places
  <2>4. QED BY <2>1, <2>2, <2>3 DEF FlagsExact
<1>7. LeakedLast(h, ks)
  <2> SUFFICES ASSUME NEW j \in Places, h[j].leaked
               PROVE  /\ "postfix" \notin ks /\ Live(h, j)
                      /\ \A r \in Regs : \E i \in Places : i < j /\ Flagged(h, i) /\ h[i].reg = r
    BY DEF LeakedLast
  <2>1. From(j) \in Places /\ h[j] = g[From(j)]
    BY <1>4
  <2>2. "postfix" \notin ks /\ Live(h, j)
    BY <2>1 DEF PoolOK, LeakedLast, Live
  <2>3. ASSUME NEW r \in Regs PROVE \E i \in Places : i < j /\ Flagged(h, i) /\ h[i].reg = r
    <3>1. PICK i \in Places : i < From(j) /\ Flagged(g, i) /\ g[i].reg = r
      BY <2>1 DEF PoolOK, LeakedLast
    <3>2. i # m /\ i # m + 1
      BY <3>1, <1>2, <1>3, <1>4, <2>1 DEF Places, Flagged, Live
    <3>3. i < j
      BY <3>1, <3>2 DEF Places
    <3>4. QED BY <3>1, <3>2, <3>3, <1>5
  <2>4. QED BY <2>2, <2>3
<1>8. QED BY <1>6, <1>7 DEF PoolOK, h

-----------------------------------------------------------------------------
(* How a step changes the places.                                          *)

LEMMA OwnersType ==
    ASSUME NEW cs \in Seq(CallRecord), NEW r \in GPReg
    PROVE  /\ OwnersOf(cs, r) \in Owning
           /\ \A i \in 1 .. Len(cs) : i \in Places /\ OwnersOf(cs, r)[i] = cs[i].own
           /\ Len(cs) + 1 \in Places /\ OwnersOf(cs, r)[Len(cs) + 1] = r
           /\ FreeFrom(OwnersOf(cs, r), Len(cs) + 2)
           /\ r = NoReg => FreeFrom(OwnersOf(cs, r), Len(cs) + 1)
<1>1. Len(cs) \in Nat /\ \A i \in 1 .. Len(cs) : cs[i].own \in GPReg
  <2>1. Len(cs) \in Nat /\ \A i \in 1 .. Len(cs) : cs[i] \in CallRecord
    BY ElementOfSeq
  <2>2. \A c \in CallRecord : c.own \in GPReg
    BY DEF CallRecord
  <2>3. QED BY <2>1, <2>2
<1>2. \A i \in Places : OwnersOf(cs, r)[i] =
        CASE i \in 1 .. Len(cs) -> cs[i].own [] i = Len(cs) + 1 -> r [] OTHER -> NoReg
  BY DEF OwnersOf
<1>3. \A i \in Places : OwnersOf(cs, r)[i] \in GPReg
  BY <1>1, <1>2, NoRegIsGPReg
<1>4. OwnersOf(cs, r) \in Owning
  BY <1>3 DEF OwnersOf, Owning
<1>5. \A i \in Places : i >= Len(cs) + 2 => i \notin 1 .. Len(cs) /\ i # Len(cs) + 1
  BY <1>1 DEF Places
<1>6. \A i \in Places : i >= Len(cs) + 1 => i \notin 1 .. Len(cs)
  BY <1>1 DEF Places
<1>7. \A i \in 1 .. Len(cs) : i \in Places
  BY DEF Places
<1>8. Len(cs) + 1 \in Places /\ Len(cs) + 1 \notin 1 .. Len(cs)
  BY <1>1 DEF Places
<1>9. QED BY <1>2, <1>4, <1>5, <1>6, <1>7, <1>8 DEF FreeFrom

LEMMA OwningUpdate ==
    ASSUME NEW g \in Owning, NEW i, NEW x \in GPReg
    PROVE  [g EXCEPT ![i] = x] \in Owning /\ \A j : \A y \in GPReg : [g EXCEPT ![i] = x, ![j] = y] \in Owning
BY DEF Owning

LEMMA OwnersResult ==
    ASSUME NEW cs \in Seq(CallRecord), NEW r \in GPReg, NEW x \in GPReg
    PROVE  OwnersOf(cs, x) = [OwnersOf(cs, r) EXCEPT ![Len(cs) + 1] = x]
<1>1. Len(cs) \in Nat /\ Len(cs) + 1 \notin 1 .. Len(cs)
  OBVIOUS
<1>2. QED BY <1>1 DEF OwnersOf

LEMMA OwnersEnter ==
    ASSUME NEW cs \in Seq(CallRecord), NEW c \in CallRecord
    PROVE  OwnersOf(Append(cs, c), NoReg) = [OwnersOf(cs, NoReg) EXCEPT ![Len(cs) + 1] = c.own]
<1> DEFINE t == Append(cs, c)
<1>1. Len(cs) \in Nat /\ Len(t) = Len(cs) + 1 /\ t[Len(cs) + 1] = c
      /\ \A i \in 1 .. Len(cs) : t[i] = cs[i]
  BY AppendProperties
<1> HIDE DEF t
<1>2. \A i \in Places : (i \in 1 .. Len(t) <=> i \in 1 .. Len(cs) \/ i = Len(cs) + 1)
  BY <1>1
<1>3. Len(cs) + 1 \notin 1 .. Len(cs)
  BY <1>1
<1> DEFINE g == OwnersOf(t, NoReg)
           h == [OwnersOf(cs, NoReg) EXCEPT ![Len(cs) + 1] = c.own]
<1>4. \A i \in Places : g[i] = h[i]
  BY <1>1, <1>2, <1>3 DEF OwnersOf
<1>5. g \in Owning /\ h \in Owning
  <2>1. c.own \in GPReg /\ t \in Seq(CallRecord)
    BY AppendProperties DEF CallRecord, t
  <2>2. OwnersOf(t, NoReg) \in Owning /\ OwnersOf(cs, NoReg) \in Owning
    BY <2>1, OwnersType, NoRegIsGPReg
  <2>3. QED BY <2>1, <2>2, OwningUpdate
<1> HIDE DEF g, h
<1>6. g = h
  BY <1>4, <1>5 DEF Owning
<1>7. QED BY <1>6 DEF g, h, t

LEMMA OwnersReturn ==
    ASSUME NEW cs \in Seq(CallRecord), cs # << >>, NEW r \in GPReg, NEW x \in GPReg
    PROVE  OwnersOf(Front(cs), x) =
             [OwnersOf(cs, r) EXCEPT ![Len(cs)] = x, ![Len(cs) + 1] = NoReg]
<1> DEFINE t == Front(cs)
<1>1. Len(cs) \in Nat \ {0} /\ Len(t) = Len(cs) - 1 /\ \A i \in 1 .. Len(cs) - 1 : t[i] = cs[i]
  BY FrontFacts
<1> HIDE DEF t
<1>2. \A i \in Places : (i \in 1 .. Len(t) <=> i \in 1 .. Len(cs) /\ i # Len(cs))
  BY <1>1
<1>3. Len(cs) + 1 # Len(cs) /\ Len(t) + 1 = Len(cs) /\ Len(cs) + 1 \notin 1 .. Len(cs)
      /\ \A i \in 1 .. Len(t) : t[i] = cs[i]
  BY <1>1
<1> DEFINE g == OwnersOf(t, x)
           h == [OwnersOf(cs, r) EXCEPT ![Len(cs)] = x, ![Len(cs) + 1] = NoReg]
<1>4. \A i \in Places : g[i] = h[i]
  BY <1>2, <1>3 DEF OwnersOf
<1>5. g \in Owning /\ h \in Owning
  <2>1. t \in Seq(CallRecord)
    BY FrontFacts DEF t
  <2>2. OwnersOf(t, x) \in Owning /\ OwnersOf(cs, r) \in Owning
    BY <2>1, OwnersType
  <2>3. QED BY <2>2, OwningUpdate, NoRegIsGPReg
<1> HIDE DEF g, h
<1>6. g = h
  BY <1>4, <1>5 DEF Owning
<1>7. QED BY <1>6 DEF g, h, t

LEMMA OwnersSetTop ==
    ASSUME NEW cs \in Seq(CallRecord), cs # << >>, NEW r \in GPReg, NEW x \in GPReg,
           NEW c \in CallRecord
    PROVE  OwnersOf([cs EXCEPT ![Len(cs)] = c], x) =
             [OwnersOf(cs, r) EXCEPT ![Len(cs)] = c.own, ![Len(cs) + 1] = x]
<1> DEFINE t == [cs EXCEPT ![Len(cs)] = c]
<1>1. Len(cs) \in Nat \ {0}
  BY EmptySeq
<1>2. Len(t) = Len(cs) /\ \A i \in 1 .. Len(cs) : t[i] = IF i = Len(cs) THEN c ELSE cs[i]
  BY <1>1
<1> HIDE DEF t
<1>3. Len(cs) + 1 # Len(cs) /\ Len(cs) + 1 \notin 1 .. Len(cs) /\ Len(cs) \in 1 .. Len(cs)
  BY <1>1
<1> DEFINE g == OwnersOf(t, x)
           h == [OwnersOf(cs, r) EXCEPT ![Len(cs)] = c.own, ![Len(cs) + 1] = x]
<1>4. \A i \in Places : g[i] = h[i]
  BY <1>2, <1>3 DEF OwnersOf
<1>5. g \in Owning /\ h \in Owning
  <2>1. c.own \in GPReg /\ t \in Seq(CallRecord)
    BY DEF CallRecord, t
  <2>2. OwnersOf(t, x) \in Owning /\ OwnersOf(cs, r) \in Owning
    BY <2>1, OwnersType
  <2>3. QED BY <2>1, <2>2, OwningUpdate
<1> HIDE DEF g, h
<1>6. g = h
  BY <1>4, <1>5 DEF Owning
<1>7. QED BY <1>6 DEF g, h, t
-----------------------------------------------------------------------------
(* The depths of the stack.                                                *)

LeakWord(x) == IF x.leaked THEN Word ELSE 0
CxWord(c) == IF c.cx THEN Word ELSE 0
\* The depth at which an active call's next operand is compiled.
After(c) == c.depth + LeakWord(c.own) + CxWord(c) + ArgsStackSpace(c.sizes)
Depth(cs) == IF cs = << >> THEN 0 ELSE After(cs[Len(cs)])

\* Each call starts where the one around it has come to.
DepthsExact(cs) ==
    /\ cs # << >> => cs[1].depth = 0
    /\ \A i, j \in 1 .. Len(cs) : j = i + 1 => cs[j].depth = After(cs[i])
    /\ \A i, j \in 1 .. Len(cs) : i < j => After(cs[i]) <= cs[j].depth

LEMMA AfterIsNat ==
    ASSUME NEW c \in CallRecord
    PROVE  /\ After(c) \in Nat /\ c.depth \in Nat /\ LeakWord(c.own) \in Nat /\ CxWord(c) \in Nat
           /\ ArgsStackSpace(c.sizes) \in Nat
           /\ c.depth + LeakWord(c.own) + CxWord(c) + ArgsStackSpace(c.sizes) = After(c)
<1>1. Word \in Nat
  BY ExprGenAssumption
<1>2. c.depth \in Nat /\ c.sizes \in Seq(ArgSizes)
  BY DEF CallRecord
<1>3. LeakWord(c.own) \in Nat /\ CxWord(c) \in Nat
  BY <1>1 DEF LeakWord, CxWord
<1>4. ArgsStackSpace(c.sizes) \in Nat
  BY <1>2, SpaceIsNat
<1>5. QED BY <1>2, <1>3, <1>4 DEF After

LEMMA DepthIsNat ==
    ASSUME NEW cs \in Seq(CallRecord)
    PROVE  Depth(cs) \in Nat
<1>1. cs # << >> => Len(cs) \in 1 .. Len(cs)
  BY EmptySeq
<1>2. cs # << >> => cs[Len(cs)] \in CallRecord
  BY <1>1, ElementOfSeq
<1>3. QED BY <1>2, AfterIsNat DEF Depth

LEMMA DepthsAppend ==
    ASSUME NEW cs \in Seq(CallRecord), NEW c \in CallRecord, DepthsExact(cs), c.depth = Depth(cs)
    PROVE  DepthsExact(Append(cs, c)) /\ Depth(Append(cs, c)) = After(c)
<1> DEFINE t == Append(cs, c)
           n == Len(cs)
<1>1. n \in Nat /\ Len(t) = n + 1 /\ t # << >> /\ t[n + 1] = c /\ \A i \in 1 .. n : t[i] = cs[i]
  BY AppendProperties
<1>2. \A i \in 1 .. n : cs[i] \in CallRecord
  BY ElementOfSeq
<1>3. cs # << >> => n \in 1 .. n /\ 1 \in 1 .. n
  BY EmptySeq
<1>4. cs = << >> => n = 0
  BY EmptySeq
<1> HIDE DEF t
<1>5. t[1].depth = 0
  BY <1>1, <1>3, <1>4 DEF DepthsExact, Depth
<1>6. \A i \in 1 .. n + 1 : i \in 1 .. n \/ i = n + 1
  BY <1>1
<1>7. ASSUME NEW i \in 1 .. n PROVE After(cs[i]) <= c.depth
  <2>1. cs # << >> /\ c.depth = After(cs[n]) /\ n \in 1 .. n
    BY <1>3, <1>4 DEF Depth
  <2>2. CASE i = n
    BY <2>1, <2>2, <1>2, AfterIsNat
  <2>3. CASE i # n
    <3>1. After(cs[i]) <= cs[n].depth
      BY <2>1, <2>3, <1>1 DEF DepthsExact
    <3>2. /\ After(cs[i]) \in Nat /\ cs[n].depth \in Nat
          /\ LeakWord(cs[n].own) \in Nat /\ CxWord(cs[n]) \in Nat
          /\ ArgsStackSpace(cs[n].sizes) \in Nat
      BY <2>1, <1>2, AfterIsNat
    <3>3. After(cs[n]) = cs[n].depth + LeakWord(cs[n].own) + CxWord(cs[n])
                           + ArgsStackSpace(cs[n].sizes)
      BY DEF After
    <3>4. cs[n].depth <= After(cs[n]) /\ After(cs[n]) \in Nat
      BY <3>2, <3>3
    <3>5. QED BY <3>1, <3>2, <3>4, <2>1
  <2>4. QED BY <2>2, <2>3
<1>8. \A i, j \in 1 .. Len(t) : j = i + 1 => t[j].depth = After(t[i])
  <2> SUFFICES ASSUME NEW i \in 1 .. n + 1, NEW j \in 1 .. n + 1, j = i + 1
               PROVE  t[j].depth = After(t[i])
    BY <1>1
  <2>1. CASE j \in 1 .. n
    <3>1. i \in 1 .. n
      BY <2>1, <1>1
    <3>2. QED BY <2>1, <3>1, <1>1 DEF DepthsExact
  <2>2. CASE j = n + 1
    <3>1. i = n /\ i \in 1 .. n /\ cs # << >>
      BY <2>2, <1>1, <1>4
    <3>2. QED BY <2>2, <3>1, <1>1 DEF Depth
  <2>3. QED BY <2>1, <2>2, <1>6
<1>9. \A i, j \in 1 .. Len(t) : i < j => After(t[i]) <= t[j].depth
  <2> SUFFICES ASSUME NEW i \in 1 .. n + 1, NEW j \in 1 .. n + 1, i < j
               PROVE  After(t[i]) <= t[j].depth
    BY <1>1
  <2>1. i \in 1 .. n
    BY <1>1
  <2>2. CASE j \in 1 .. n
    BY <2>1, <2>2, <1>1 DEF DepthsExact
  <2>3. CASE j = n + 1
    BY <2>1, <2>3, <1>1, <1>7
  <2>4. QED BY <2>2, <2>3, <1>6
<1>10. Depth(t) = After(c)
  BY <1>1 DEF Depth
<1>11. QED BY <1>5, <1>8, <1>9, <1>10 DEF DepthsExact, t

LEMMA DepthsFront ==
    ASSUME NEW cs \in Seq(CallRecord), cs # << >>, DepthsExact(cs)
    PROVE  DepthsExact(Front(cs)) /\ Depth(Front(cs)) = cs[Len(cs)].depth
<1> DEFINE t == Front(cs)
           n == Len(cs)
<1>1. t \in Seq(CallRecord) /\ n \in Nat \ {0} /\ Len(t) = n - 1 /\ \A i \in 1 .. n - 1 : t[i] = cs[i]
  BY FrontFacts
<1> HIDE DEF t
<1>2. t # << >> => Len(t) \in Nat \ {0}
  BY <1>1, EmptySeq
<1>3. t = << >> => n = 1
  BY <1>1, EmptySeq
<1>4. DepthsExact(t)
  <2>1. t # << >> => t[1].depth = 0
    BY <1>1, <1>2 DEF DepthsExact
  <2>2. \A i \in 1 .. Len(t) : i \in 1 .. n /\ t[i] = cs[i]
    BY <1>1
  <2>3. QED BY <2>1, <2>2 DEF DepthsExact
<1>5. Depth(t) = cs[n].depth
  <2>1. CASE t = << >>
    BY <2>1, <1>3 DEF Depth, DepthsExact
  <2>2. CASE t # << >>
    <3>1. n - 1 \in 1 .. n /\ n \in 1 .. n /\ n = (n - 1) + 1 /\ t[Len(t)] = cs[n - 1]
      BY <2>2, <1>1, <1>2
    <3>2. QED BY <2>2, <3>1 DEF Depth, DepthsExact
  <2>3. QED BY <2>1, <2>2
<1>6. QED BY <1>4, <1>5 DEF t

LEMMA DepthsSetTop ==
    ASSUME NEW cs \in Seq(CallRecord), cs # << >>, DepthsExact(cs),
           NEW c \in CallRecord, c.depth = cs[Len(cs)].depth
    PROVE  /\ DepthsExact([cs EXCEPT ![Len(cs)] = c])
           /\ Depth([cs EXCEPT ![Len(cs)] = c]) = After(c)
<1> DEFINE t == [cs EXCEPT ![Len(cs)] = c]
           n == Len(cs)
<1>1. n \in Nat \ {0}
  BY EmptySeq
<1>2. /\ Len(t) = n /\ t \in Seq(CallRecord)
      /\ \A i \in 1 .. n : t[i] = IF i = n THEN c ELSE cs[i]
  BY <1>1
<1> HIDE DEF t
<1>3. t # << >>
  BY <1>1, <1>2, EmptySeq
<1>4. \A i \in 1 .. n : t[i].depth = cs[i].depth
  BY <1>2
<1>5. \A i, j \in 1 .. n : i < j => t[i] = cs[i]
  BY <1>1, <1>2
<1>6. \A i, j \in 1 .. n : j = i + 1 => i < j
  BY <1>1
<1>7. 1 \in 1 .. n /\ n \in 1 .. n
  BY <1>1
<1>8. DepthsExact(t)
  BY <1>2, <1>4, <1>5, <1>6, <1>7 DEF DepthsExact
<1>9. Depth(t) = After(c)
  BY <1>2, <1>3, <1>7 DEF Depth
<1>10. QED BY <1>8, <1>9 DEF t

-----------------------------------------------------------------------------
(* The invariant of the register pool and the stack pointer.               *)

\* The fields that the kind of a call leaves alone, and the jump's depth.
CallOK(c, ks) ==
    /\ c.kind # "call" => c.cx = FALSE /\ c.sizes = << >> /\ c.args = << >>
    /\ c.kind \in {"unary", "postfix", "boolLit"} => c.own = NoReg
    /\ c.kind = "call" => c.own # NoReg /\ c.own.reg \in CallRegs /\ Len(c.args) <= Len(c.sizes)
    /\ c.kind = "bool" /\ c.own # NoReg => c.jump = c.depth + LeakWord(c.own)
    /\ c.kind = "postfix" => "postfix" \in ks
CallsOK(cs, r, ks) ==
    /\ \A i \in 1 .. Len(cs) : CallOK(cs[i], ks)
    /\ \A i \in 1 .. Len(cs) : cs[i].kind = "call" /\ (i < Len(cs) \/ r # NoReg) =>
         Len(cs[i].args) < Len(cs[i].sizes)

\* cx was saved if and only if an older place holds it.
CxHeld(g, i) == \E q \in Places : q <= i /\ Flagged(g, q) /\ g[q].reg = CX
\* No place up to i holds r.
FreeUpTo(g, i, r) == \A p \in Places : p <= i => g[p].reg # r
SpareAt(c, g, i) ==
    /\ c.sizes # << >> \/ c.kind = "bool" => \E r \in Regs : FreeUpTo(g, i, r)
    /\ c.kind = "bool" /\ c.own = NoReg =>
         \E r, s \in Regs : r # s /\ FreeUpTo(g, i, r) /\ FreeUpTo(g, i, s)
KeptAt(c, g, i) ==
    /\ c.kind = "call" => (c.cx <=> CxHeld(g, i))
    /\ MinFree >= 2 => SpareAt(c, g, i)
Kept(cs, g) == \A i \in 1 .. Len(cs) : KeptAt(cs[i], g, i)

StackInv ==
    /\ TypeOK
    /\ PoolOK(Owners, used, kinds)
    /\ DepthsExact(calls)
    /\ Len(stk) = Depth(calls) + LeakWord(res)
    /\ CallsOK(calls, res, kinds)
    /\ Kept(calls, Owners)
    /\ ctx = "idle" => calls = << >> /\ res = NoReg

LEMMA KeptSame ==
    ASSUME NEW c, NEW g, NEW h, NEW i, KeptAt(c, g, i),
           \A q \in Places : q <= i => g[q].reg = h[q].reg /\ g[q].leaked = h[q].leaked
    PROVE  KeptAt(c, h, i)
BY DEF KeptAt, CxHeld, SpareAt, FreeUpTo, Flagged, Live

\* What the invariant says of the places and of the innermost call.
LEMMA TopFacts ==
    ASSUME StackInv
    PROVE  /\ Len(calls) \in Nat /\ Owners \in Owning
           /\ Len(calls) + 1 \in Places /\ Owners[Len(calls) + 1] = res
           /\ FreeFrom(Owners, Len(calls) + 2)
           /\ res = NoReg => FreeFrom(Owners, Len(calls) + 1)
           /\ calls = << >> => Len(calls) = 0 /\ Top.kind = "none"
           /\ calls # << >> =>
                /\ Len(calls) \in Nat \ {0} /\ Len(calls) \in 1 .. Len(calls)
                /\ Len(calls) \in Places /\ Owners[Len(calls)] = Top.own
                /\ Top = calls[Len(calls)] /\ Top \in CallRecord
                /\ CallOK(Top, kinds) /\ KeptAt(Top, Owners, Len(calls))
                /\ Depth(calls) = After(Top)
                /\ Top.kind = "call" /\ res # NoReg => Len(Top.args) < Len(Top.sizes)
<1>1. calls \in Seq(CallRecord) /\ res \in GPReg
  BY DEF StackInv, TypeOK
<1>2. Len(calls) \in Nat /\ (calls = << >> => Len(calls) = 0)
  BY <1>1
<1>3. /\ Owners \in Owning
      /\ Len(calls) + 1 \in Places /\ Owners[Len(calls) + 1] = res
      /\ FreeFrom(Owners, Len(calls) + 2)
      /\ res = NoReg => FreeFrom(Owners, Len(calls) + 1)
      /\ \A i \in 1 .. Len(calls) : i \in Places /\ Owners[i] = calls[i].own
  BY <1>1, OwnersType DEF Owners
<1>4. calls = << >> => Top.kind = "none"
  BY DEF Top, NoCall
<1>5. ASSUME calls # << >>
      PROVE  /\ Len(calls) \in Nat \ {0} /\ Len(calls) \in 1 .. Len(calls)
             /\ Top = calls[Len(calls)] /\ Top \in CallRecord /\ Depth(calls) = After(Top)
  <2>1. Len(calls) \in Nat \ {0} /\ Len(calls) \in 1 .. Len(calls)
    BY <1>1, <1>5, EmptySeq
  <2>2. Top = calls[Len(calls)]
    BY <1>5 DEF Top
  <2>3. Top \in CallRecord
    BY <1>1, <2>1, <2>2, ElementOfSeq
  <2>4. QED BY <2>1, <2>2, <2>3, <1>5 DEF Depth
<1>6. ASSUME calls # << >>
      PROVE  /\ CallOK(Top, kinds) /\ KeptAt(Top, Owners, Len(calls))
             /\ Top.kind = "call" /\ res # NoReg => Len(Top.args) < Len(Top.sizes)
  BY <1>5, <1>6 DEF StackInv, CallsOK, Kept
<1>7. QED BY <1>2, <1>3, <1>4, <1>5, <1>6

-----------------------------------------------------------------------------
(* alloc_reg and free_reg.                                                 *)

LEMMA AllocFacts ==
    ASSUME TypeOK, AllocReg, NEW v \in Nat
    PROVE  /\ Fresh(v) \in GPReg /\ Fresh(v).reg \in Regs /\ Fresh(v) # NoReg /\ Fresh(v).val = v
           /\ Fresh(v).reg = Fresh(Junk).reg
           /\ ~Fresh(v).leaked => Fresh(v).reg \notin used
           /\ Fresh(v).leaked => used = Regs /\ "postfix" \notin kinds
           /\ Fresh(v).leaked = MustLeak(used)
           /\ FreshStk \in Seq(Nat) /\ Len(FreshStk) = Len(stk) + LeakWord(Fresh(v))
           /\ SameBelow(stk, FreshStk, Len(stk))
           /\ Fresh(v).leaked => \A k \in WordOf(Len(stk)) : FreshStk[k] = regs[Fresh(v).reg]
           /\ nextLeak' \in Regs /\ leaks' \in 0 .. MaxLeaks /\ kinds' = kinds
           /\ used \cup {Fresh(v).reg} \in SUBSET Regs
<1> DEFINE x == Fresh(v)
<1>1. /\ used \in SUBSET Regs /\ nextLeak \in Regs /\ leaks \in 0 .. MaxLeaks
      /\ stk \in Seq(Nat) /\ regs \in [Regs -> Nat]
  BY DEF TypeOK
<1>2. x = [reg |-> AllocIdx(used, nextLeak), leaked |-> MustLeak(used), val |-> v]
      /\ Fresh(Junk) = [reg |-> AllocIdx(used, nextLeak), leaked |-> MustLeak(used), val |-> Junk]
  BY DEF Fresh
<1>3. x.reg \in Regs
  BY <1>1, <1>2, AllocIdxIsReg
<1>4. MustLeak(used) \in BOOLEAN
  BY DEF MustLeak
<1>5. x \in GPReg
  BY <1>2, <1>3, <1>4 DEF GPReg
<1>6. ~x.leaked => x.reg \notin used
  BY <1>1, <1>2, UnusedRegIsUnused DEF Unused
<1>7. x.leaked => used = Regs /\ "postfix" \notin kinds
  <2>1. x.leaked = MustLeak(used)
    BY <1>2
  <2>2. MustLeak(used) => used = Regs
    BY <1>1 DEF MustLeak, Unused
  <2>3. QED BY <2>1, <2>2 DEF AllocReg
<1>8. Len(stk) \in Nat
  BY <1>1
<1>9. /\ FreshStk \in Seq(Nat) /\ Len(FreshStk) = Len(stk) + LeakWord(x)
      /\ SameBelow(stk, FreshStk, Len(stk))
      /\ x.leaked => \A k \in WordOf(Len(stk)) : FreshStk[k] = regs[x.reg]
  <2>1. regs[x.reg] \in Nat
    BY <1>1, <1>3
  <2>2. CASE MustLeak(used)
    <3>1. FreshStk = Push(stk, regs[x.reg]) /\ LeakWord(x) = Word
      BY <1>2, <2>2 DEF FreshStk, LeakWord
    <3>2. QED BY <2>1, <3>1, <1>1, PushFacts
  <2>3. CASE ~MustLeak(used)
    <3>1. FreshStk = stk /\ LeakWord(x) = 0 /\ ~x.leaked
      BY <1>2, <2>3 DEF FreshStk, LeakWord
    <3>2. QED BY <3>1, <1>1, <1>8 DEF SameBelow
  <2>4. QED BY <2>2, <2>3
<1>10. nextLeak' \in Regs /\ kinds' = kinds
  BY <1>1, NextToLeakIsReg DEF AllocReg
<1>11. leaks' \in 0 .. MaxLeaks
  BY <1>1, ExprGenAssumption DEF AllocReg
<1>12. QED BY <1>1, <1>2, <1>3, <1>5, <1>6, <1>7, <1>9, <1>10, <1>11, HeldFacts

LEMMA FreeFacts ==
    ASSUME NEW x \in GPReg, x # NoReg, NEW u \in SUBSET Regs, NEW rg \in [Regs -> Nat],
           NEW st \in Seq(Nat), LeakWord(x) <= Len(st), FreeReg(x, u, rg, st)
    PROVE  /\ used' = (IF x.leaked THEN u ELSE u \ {x.reg}) /\ used' \in SUBSET Regs
           /\ regs' \in [Regs -> Nat] /\ stk' \in Seq(Nat)
           /\ Len(stk') = Len(st) - LeakWord(x)
           /\ SameBelow(st, stk', Len(st) - LeakWord(x))
           /\ \A r \in Regs : ~x.leaked \/ r # x.reg => regs'[r] = rg[r]
           /\ x.leaked => \A v : (\A k \in WordOf(Len(st) - Word) : st[k] = v) => regs'[x.reg] = v
<1>1. x.reg \in Regs /\ Len(st) \in Nat /\ Word \in Nat
  BY HeldFacts, ExprGenAssumption
<1>2. CASE x.leaked
  <2>1. /\ regs' = [rg EXCEPT ![x.reg] = WordAt(st, 0)]
        /\ stk' = Popped(st, Word) /\ used' = u /\ LeakWord(x) = Word
    BY <1>2 DEF FreeReg, LeakWord
  <2>2. Word <= Len(st) /\ 0 + Word <= Len(st) /\ Len(st) - 0 - Word = Len(st) - Word
    BY <2>1, <1>1
  <2>3. /\ WordAt(st, 0) \in Nat
        /\ \A v : (\A k \in WordOf(Len(st) - Word) : st[k] = v) => WordAt(st, 0) = v
    <3>1. /\ WordAt(st, 0) \in Nat
          /\ \A v : (\A k \in WordOf(Len(st) - 0 - Word) : st[k] = v) => WordAt(st, 0) = v
      BY <2>2, WordAtFacts
    <3>2. QED BY <3>1, <2>2
  <2>4. Popped(st, Word) \in Seq(Nat) /\ Len(Popped(st, Word)) = Len(st) - Word
        /\ SameBelow(st, Popped(st, Word), Len(st) - Word)
    BY <1>1, <2>2, PopFacts
  <2>5. regs'[x.reg] = WordAt(st, 0) /\ regs' \in [Regs -> Nat]
        /\ \A r \in Regs : r # x.reg => regs'[r] = rg[r]
    BY <1>1, <2>1, <2>3
  <2>6. QED BY <1>2, <2>1, <2>3, <2>4, <2>5
<1>3. CASE ~x.leaked
  <2>1. regs' = rg /\ stk' = st /\ used' = u \ {x.reg} /\ LeakWord(x) = 0
    BY <1>3 DEF FreeReg, LeakWord
  <2>2. QED BY <1>1, <1>3, <2>1 DEF SameBelow
<1>4. QED BY <1>2, <1>3, HeldFacts

-----------------------------------------------------------------------------
(* The actions, one by one.                                                *)

\* The record of a call, and those that its steps make of it.
LEMMA NewCallFacts ==
    ASSUME TypeOK, NEW k \in AllKinds
    PROVE  /\ NewCall(k) \in CallRecord
           /\ NewCall(k).kind = k /\ NewCall(k).own = NoReg /\ NewCall(k).depth = Len(stk)
           /\ NewCall(k).cx = FALSE /\ NewCall(k).sizes = << >> /\ NewCall(k).args = << >>
           /\ NewCall(k).id = nodes + 1
<1>1. nodes + 1 \in Nat /\ Len(stk) \in Nat /\ 0 \in Nat
  BY DEF TypeOK
<1>2. << >> \in Seq(ArgSizes) /\ << >> \in Seq(Nat)
  OBVIOUS
<1>3. NewCall(k) = [kind |-> k, id |-> nodes + 1, depth |-> Len(stk), own |-> NoReg, jump |-> 0,
                    cx |-> FALSE, sizes |-> << >>, args |-> << >>]
  BY DEF NewCall
<1>4. NewCall(k) \in CallRecord
  BY <1>1, <1>2, <1>3, NoRegIsGPReg DEF CallRecord
<1>5. QED BY <1>3, <1>4

\* With no unused register nothing is leaked yet, and two of them are apart.
LEMMA TwoUnused ==
    ASSUME NEW u \in SUBSET Regs, Cardinality(Unused(u)) >= 2
    PROVE  \E r, s \in Unused(u) : r # s
<1>1. Unused(u) # {}
  BY FS_EmptySet
<1>2. PICK r \in Unused(u) : TRUE
  BY <1>1
<1>3. Unused(u) # {r}
  BY FS_Singleton
<1>4. QED BY <1>2, <1>3

LEMMA UnusedIsFree ==
    ASSUME NEW g \in Owning, NEW u \in SUBSET Regs, NEW ks, PoolOK(g, u, ks), NEW r \in Unused(u)
    PROVE  /\ \A i \in Places : g[i].reg # r
           /\ \A i \in Places : g[i].leaked = FALSE
<1>1. r \in Regs /\ r \notin u
  BY DEF Unused
<1>2. ASSUME NEW i \in Places, g[i].leaked PROVE FALSE
  BY <1>1, <1>2 DEF PoolOK, LeakedLast, FlagsExact
<1>3. \A i \in Places : g[i].leaked \in BOOLEAN
  BY HeldFacts DEF Owning
<1>4. \A i \in Places : g[i].reg # r
  BY <1>1, <1>2 DEF PoolOK, FlagsExact, Flagged, Live
<1>5. QED BY <1>2, <1>3, <1>4

LEMMA CanEnterFacts ==
    ASSUME StackInv, NEW m, CanEnter(m)
    PROVE  /\ res = NoReg /\ nodes' = nodes + 1 /\ ctx # "idle"
           /\ \A i \in 1 .. Len(calls) : calls[i].kind = "call" =>
                Len(calls[i].args) < Len(calls[i].sizes)
<1>1. res = NoReg /\ nodes' = nodes + 1 /\ ctx # "idle"
      /\ (calls # << >> => Missing(Top) > 0)
  BY DEF CanEnter
<1>2. Len(calls) \in Nat /\ \A i \in 1 .. Len(calls) : i < Len(calls) \/ i = Len(calls)
  BY TopFacts
<1>3. ASSUME calls # << >>, Top.kind = "call"
      PROVE  Len(Top.args) < Len(Top.sizes)
  <2> DEFINE missing == Missing(Top)
  <2>1. missing = Len(Top.sizes) - Len(Top.args)
    BY <1>3 DEF Missing
  <2>2. Len(Top.sizes) \in Nat /\ Len(Top.args) \in Nat
    <3>1. Top \in CallRecord
      BY <1>3, TopFacts
    <3>2. Top.sizes \in Seq(ArgSizes) /\ Top.args \in Seq(Nat)
      BY <3>1 DEF CallRecord
    <3>3. QED BY <3>2
  <2>3. missing > 0
    BY <1>1, <1>3
  <2> DEFINE a == Len(Top.sizes)
             b == Len(Top.args)
  <2>4. a \in Nat /\ b \in Nat /\ missing = a - b /\ missing > 0
    BY <2>1, <2>2, <2>3
  <2> HIDE DEF missing, a, b
  <2>5. b < a
    BY <2>4
  <2>6. QED BY <2>5 DEF a, b
<1>4. ASSUME NEW i \in 1 .. Len(calls), calls[i].kind = "call"
      PROVE  Len(calls[i].args) < Len(calls[i].sizes)
  <2>1. CASE i < Len(calls)
    BY <1>4, <2>1 DEF StackInv, CallsOK
  <2>2. CASE i = Len(calls)
    <3>1. calls # << >> /\ Top = calls[i]
      BY <2>2, TopFacts, EmptySeq
    <3>2. QED BY <1>3, <1>4, <3>1
  <2>3. QED BY <1>2, <2>1, <2>2
<1>5. QED BY <1>1, <1>4

LEMMA StackEnterLeaf ==
    ASSUME StackInv, EnterLeaf
    PROVE  StackInv'
<1> DEFINE x == Fresh(nodes + 1)
           n == Len(calls)
<1>1. TypeOK /\ nodes + 1 \in Nat /\ calls \in Seq(CallRecord) /\ used \in SUBSET Regs
  BY DEF StackInv, TypeOK
<1>2. /\ CanEnter(0) /\ AllocReg /\ regs' = [regs EXCEPT ![x.reg] = x.val]
      /\ stk' = FreshStk /\ used' = used \cup {x.reg} /\ res' = x
      /\ calls' = calls /\ ctx' = ctx
  BY DEF EnterLeaf
<1>3. /\ res = NoReg /\ nodes' = nodes + 1 /\ ctx # "idle"
      /\ \A i \in 1 .. n : calls[i].kind = "call" => Len(calls[i].args) < Len(calls[i].sizes)
  BY <1>2, CanEnterFacts
<1>4. /\ x \in GPReg /\ x.reg \in Regs /\ x # NoReg /\ x.val = nodes + 1
      /\ ~x.leaked => x.reg \notin used
      /\ x.leaked => used = Regs /\ "postfix" \notin kinds
      /\ FreshStk \in Seq(Nat) /\ Len(FreshStk) = Len(stk) + LeakWord(x)
      /\ nextLeak' \in Regs /\ leaks' \in 0 .. MaxLeaks /\ kinds' = kinds
      /\ used \cup {x.reg} \in SUBSET Regs
  BY <1>1, <1>2, AllocFacts
<1> HIDE DEF x
<1>5. TypeOK'
  <2>1. regs' \in [Regs -> Nat]
    BY <1>1, <1>2, <1>4 DEF TypeOK
  <2>2. QED BY <1>1, <1>2, <1>3, <1>4, <2>1 DEF TypeOK
<1>6. /\ n \in Nat /\ Owners \in Owning /\ n + 1 \in Places /\ FreeFrom(Owners, n + 1)
      /\ calls = << >> => n = 0
  BY <1>3, TopFacts
<1>7. Owners' = [Owners EXCEPT ![n + 1] = x]
  BY <1>1, <1>2, <1>3, <1>4, NoRegIsGPReg, OwnersResult DEF Owners
<1>8. PoolOK(Owners, used, kinds)' 
  <2>1. PoolOK([Owners EXCEPT ![n + 1] = x], used \cup {x.reg}, kinds)
    BY <1>1, <1>4, <1>6, PoolAdd DEF StackInv
  <2>2. QED BY <2>1, <1>2, <1>4, <1>7
<1>9. Len(stk') = Depth(calls') + LeakWord(res')
  <2>1. Len(stk) = Depth(calls) /\ Depth(calls) \in Nat
    BY <1>1, <1>3, DepthIsNat, NoRegIsGPReg DEF StackInv, LeakWord
  <2>2. QED BY <2>1, <1>2, <1>4
<1>10. CallsOK(calls, res, kinds)'
  BY <1>2, <1>3, <1>4 DEF StackInv, CallsOK
<1>11. Kept(calls, Owners)'
  <2> SUFFICES ASSUME NEW i \in 1 .. n PROVE KeptAt(calls[i], Owners', i)
    BY <1>2 DEF Kept
  <2>1. \A q \in Places : q <= i => Owners[q] = Owners'[q]
    BY <1>6, <1>7 DEF Owning, Places
  <2>2. QED BY <2>1, KeptSame DEF StackInv, Kept
<1>12. QED BY <1>2, <1>3, <1>5, <1>8, <1>9, <1>10, <1>11 DEF StackInv

LEMMA StackEnterOp ==
    ASSUME StackInv, NEW k \in AllKinds, EnterOp(k)
    PROVE  StackInv'
<1> DEFINE c == NewCall(k)
           n == Len(calls)
<1>1. TypeOK /\ nodes + 1 \in Nat /\ calls \in Seq(CallRecord) /\ used \in SUBSET Regs
  BY DEF StackInv, TypeOK
<1>2. /\ k \in kinds /\ k # "call" /\ UNCHANGED <<pool, regs, stk, res, ctx>>
      /\ calls' = Append(calls, c)
      /\ k = "bool" => Cardinality(Unused(used)) >= MinFree
  BY DEF EnterOp
<1>3. /\ res = NoReg /\ nodes' = nodes + 1 /\ ctx # "idle"
      /\ \A i \in 1 .. n : calls[i].kind = "call" => Len(calls[i].args) < Len(calls[i].sizes)
  <2>1. CanEnter(IF k \in {"bin", "bool"} THEN 2 ELSE 1)
    BY DEF EnterOp
  <2>2. QED BY <2>1, CanEnterFacts
<1>4. /\ c \in CallRecord /\ c.kind = k /\ c.own = NoReg /\ c.depth = Len(stk)
      /\ c.cx = FALSE /\ c.sizes = << >> /\ c.args = << >>
  BY <1>1, NewCallFacts
<1> HIDE DEF c
<1>5. /\ calls' \in Seq(CallRecord) /\ calls' # << >> /\ Len(calls') = n + 1
      /\ calls'[n + 1] = c /\ \A i \in 1 .. n : calls'[i] = calls[i]
  BY <1>1, <1>2, <1>4, AppendProperties
<1>6. TypeOK'
  BY <1>1, <1>2, <1>3, <1>5 DEF TypeOK, pool
<1>7. /\ n \in Nat /\ Owners \in Owning /\ n + 1 \in Places /\ FreeFrom(Owners, n + 1)
  BY <1>3, TopFacts
<1>8. Owners' = Owners
  <2>1. OwnersOf(Append(calls, c), NoReg) = [OwnersOf(calls, NoReg) EXCEPT ![n + 1] = NoReg]
    BY <1>1, <1>4, OwnersEnter
  <2>2. Owners' = [Owners EXCEPT ![n + 1] = NoReg]
    BY <2>1, <1>2, <1>3 DEF Owners
  <2>3. Owners[n + 1] = NoReg
    BY <1>7 DEF FreeFrom
  <2>4. QED BY <2>2, <2>3, <1>7 DEF Owning
<1>9. PoolOK(Owners, used, kinds)'
  BY <1>2, <1>8 DEF StackInv, pool
<1>10. LeakWord(NoReg) = 0 /\ After(c) = Len(stk) /\ Len(stk) \in Nat
  <2>1. Len(stk) \in Nat
    BY <1>1 DEF TypeOK
  <2>2. LeakWord(NoReg) = 0
    BY NoRegIsGPReg DEF LeakWord
  <2>3. QED BY <2>1, <2>2, <1>4, NoSpace DEF After, CxWord
<1>11. Len(stk) = Depth(calls)
  <2>1. Depth(calls) \in Nat
    BY <1>1, DepthIsNat
  <2>2. QED BY <2>1, <1>3, <1>10 DEF StackInv
<1>12. DepthsExact(calls') /\ Len(stk') = Depth(calls') + LeakWord(res')
  <2>1. DepthsExact(Append(calls, c)) /\ Depth(Append(calls, c)) = After(c)
    BY <1>1, <1>4, <1>11, DepthsAppend DEF StackInv
  <2>2. QED BY <2>1, <1>2, <1>3, <1>10
<1>13. \A i \in 1 .. n + 1 : i \in 1 .. n \/ i = n + 1
  BY <1>7
<1>14. CallsOK(calls, res, kinds)'
  <2>1. CallOK(c, kinds)
    BY <1>2, <1>4 DEF CallOK
  <2>2. \A i \in 1 .. n + 1 : CallOK(calls'[i], kinds)
    BY <2>1, <1>5, <1>13 DEF StackInv, CallsOK
  <2>3. \A i \in 1 .. n + 1 : calls'[i].kind = "call" =>
           Len(calls'[i].args) < Len(calls'[i].sizes)
    BY <1>2, <1>3, <1>4, <1>5, <1>13
  <2>4. QED BY <2>2, <2>3, <1>2, <1>5 DEF CallsOK, pool
<1>15. Kept(calls, Owners)'
  <2>1. KeptAt(c, Owners, n + 1)
    <3>1. ASSUME MinFree >= 2, k = "bool"
          PROVE  \E r, s \in Regs : r # s /\ FreeUpTo(Owners, n + 1, r) /\ FreeUpTo(Owners, n + 1, s)
      <4>1. Cardinality(Unused(used)) >= 2
        <5>1. Unused(used) \subseteq Regs /\ IsFiniteSet(Regs)
          BY NRegsAssumption, FS_Interval DEF Unused, Regs
        <5>2. Cardinality(Unused(used)) \in Nat
          BY <5>1, FS_Subset, FS_CardinalityType
        <5>3. QED BY <5>2, <3>1, <1>2, ExprGenAssumption
      <4>2. PICK r, s \in Unused(used) : r # s
        BY <1>1, <4>1, TwoUnused
      <4>3. \A i \in Places : Owners[i].reg # r /\ Owners[i].reg # s
        BY <1>1, <1>7, UnusedIsFree DEF StackInv
      <4>4. QED BY <4>2, <4>3 DEF FreeUpTo, Unused
    <3>2. QED BY <3>1, <1>2, <1>4 DEF KeptAt, SpareAt
  <2>2. \A i \in 1 .. n + 1 : KeptAt(calls'[i], Owners, i)
    BY <2>1, <1>5, <1>13 DEF StackInv, Kept
  <2>3. QED BY <2>2, <1>5, <1>8 DEF Kept
<1>16. QED BY <1>2, <1>3, <1>6, <1>9, <1>12, <1>14, <1>15 DEF StackInv

LEMMA StackEnterCall ==
    ASSUME StackInv, NEW sizes \in SeqOf(ArgSizes, MaxArgs), EnterCall(sizes)
    PROVE  StackInv'
<1> DEFINE x == Fresh(nodes + 1)
           cx == CX \in used \cup {x.reg}
           saved == IF cx THEN Push(FreshStk, regs[CX]) ELSE FreshStk
           c == [NewCall("call") EXCEPT !.own = x, !.cx = cx, !.sizes = sizes]
           n == Len(calls)
<1>1. /\ TypeOK /\ nodes + 1 \in Nat /\ calls \in Seq(CallRecord) /\ used \in SUBSET Regs
      /\ regs \in [Regs -> Nat] /\ AX \in Regs /\ CX \in Regs /\ sizes \in Seq(ArgSizes)
  <2>1. AX \in Regs /\ CX \in Regs
    BY ExprGenAssumption, NRegsAssumption DEF AX, CX, Regs
  <2>2. sizes \in Seq(ArgSizes)
    BY DEF SeqOf
  <2>3. QED BY <2>1, <2>2 DEF StackInv, TypeOK
<1>2. /\ CanEnter(Len(sizes)) /\ AllocReg /\ x.reg \in CallRegs /\ "call" \in kinds
      /\ regs' = (IF x.reg # AX THEN [regs EXCEPT ![x.reg] = regs[AX]] ELSE regs)
      /\ stk' = saved \o Cells(ArgsStackSpace(sizes), Junk)
      /\ used' = used \cup {x.reg}
      /\ calls' = Append(calls, c)
      /\ res' = res /\ ctx' = ctx
      /\ sizes # << >> => Cardinality(Unused(used)) >= MinFree
  BY DEF EnterCall
<1>3. /\ res = NoReg /\ nodes' = nodes + 1 /\ ctx # "idle"
      /\ \A i \in 1 .. n : calls[i].kind = "call" => Len(calls[i].args) < Len(calls[i].sizes)
  BY <1>2, CanEnterFacts
<1>4. /\ x \in GPReg /\ x.reg \in Regs /\ x # NoReg /\ x.val = nodes + 1
      /\ ~x.leaked => x.reg \notin used
      /\ x.leaked => used = Regs /\ "postfix" \notin kinds
      /\ FreshStk \in Seq(Nat) /\ Len(FreshStk) = Len(stk) + LeakWord(x)
      /\ nextLeak' \in Regs /\ leaks' \in 0 .. MaxLeaks /\ kinds' = kinds
      /\ used \cup {x.reg} \in SUBSET Regs
  BY <1>1, <1>2, AllocFacts
<1>5. cx \in BOOLEAN /\ "call" \in AllKinds
  BY DEF AllKinds
<1>6. /\ saved \in Seq(Nat) /\ Len(saved) = Len(stk) + LeakWord(x) + IF cx THEN Word ELSE 0
  <2>1. regs[CX] \in Nat /\ Word \in Nat
    BY <1>1, ExprGenAssumption
  <2>2. Push(FreshStk, regs[CX]) \in Seq(Nat) /\ Len(Push(FreshStk, regs[CX])) = Len(FreshStk) + Word
    BY <1>4, <2>1, PushFacts
  <2>3. Len(FreshStk) \in Nat
    BY <1>4
  <2>4. CASE cx
    BY <2>2, <2>4, <1>4
  <2>5. CASE ~cx
    BY <2>3, <2>5, <1>4
  <2>6. QED BY <2>4, <2>5
<1>7. /\ c \in CallRecord /\ c.kind = "call" /\ c.own = x /\ c.depth = Len(stk)
      /\ c.cx = cx /\ c.sizes = sizes /\ c.args = << >>
  <2>1. /\ NewCall("call") \in CallRecord /\ NewCall("call").kind = "call"
        /\ NewCall("call").depth = Len(stk) /\ NewCall("call").args = << >>
    BY <1>1, <1>5, NewCallFacts
  <2> DEFINE d == NewCall("call")
  <2>2. d \in CallRecord /\ x \in GPReg /\ cx \in BOOLEAN /\ sizes \in Seq(ArgSizes)
    BY <2>1, <1>1, <1>4, <1>5
  <2>3. PICK b \in BOOLEAN : b = cx
    BY <2>2
  <2>4. c = [d EXCEPT !.own = x, !.cx = b, !.sizes = sizes]
    BY <2>3
  <2> HIDE DEF c, d, x, cx, saved
  <2>5. /\ c \in CallRecord /\ c.own = x /\ c.cx = b /\ c.sizes = sizes
        /\ c.kind = d.kind /\ c.depth = d.depth /\ c.args = d.args
    BY <2>2, <2>4 DEF CallRecord
  <2>6. QED BY <2>1, <2>3, <2>5 DEF d
<1> HIDE DEF x, cx, c, saved
<1>8. /\ calls' \in Seq(CallRecord) /\ calls' # << >> /\ Len(calls') = n + 1
      /\ calls'[n + 1] = c /\ \A i \in 1 .. n : calls'[i] = calls[i]
  <2>1. calls \in Seq(CallRecord) /\ c \in CallRecord /\ calls' = Append(calls, c)
    BY <1>1, <1>2, <1>7
  <2>2. QED BY <2>1, AppendProperties
<1>9. stk' \in Seq(Nat) /\ Len(stk') = Len(saved) + ArgsStackSpace(sizes)
      /\ ArgsStackSpace(sizes) \in Nat /\ Len(stk) \in Nat /\ LeakWord(x) \in Nat
  <2>1. ArgsStackSpace(sizes) \in Nat
    BY <1>1, SpaceIsNat
  <2>2. LeakWord(x) \in Nat /\ Len(stk) \in Nat
    BY <1>1, ExprGenAssumption DEF LeakWord, TypeOK
  <2>3. QED BY <2>1, <2>2, <1>2, <1>6, GrowFacts DEF Junk
<1>10. TypeOK'
  <2>1. regs' \in [Regs -> Nat]
    BY <1>1, <1>2, <1>4
  <2>2. QED BY <1>1, <1>2, <1>3, <1>4, <1>8, <1>9, <2>1 DEF TypeOK
<1>11. /\ n \in Nat /\ Owners \in Owning /\ n + 1 \in Places /\ FreeFrom(Owners, n + 1)
  BY <1>3, TopFacts
<1>12. Owners' = [Owners EXCEPT ![n + 1] = x]
  BY <1>1, <1>2, <1>3, <1>7, OwnersEnter DEF Owners
<1>13. PoolOK(Owners, used, kinds)'
  <2>1. PoolOK([Owners EXCEPT ![n + 1] = x], used \cup {x.reg}, kinds)
    BY <1>1, <1>4, <1>11, PoolAdd DEF StackInv
  <2>2. QED BY <2>1, <1>2, <1>4, <1>12
<1>14. LeakWord(NoReg) = 0
  BY NoRegIsGPReg DEF LeakWord
<1>15. Len(stk) = Depth(calls)
  <2>1. Depth(calls) \in Nat
    BY <1>1, DepthIsNat
  <2>2. QED BY <2>1, <1>3, <1>14 DEF StackInv
<1>16. DepthsExact(calls') /\ Len(stk') = Depth(calls') + LeakWord(res')
  <2>1. DepthsExact(Append(calls, c)) /\ Depth(Append(calls, c)) = After(c)
    BY <1>1, <1>7, <1>15, DepthsAppend DEF StackInv
  <2>2. After(c) = Len(stk')
    BY <1>6, <1>7, <1>9 DEF After, CxWord
  <2>3. Len(stk') \in Nat
    BY <1>9
  <2>4. QED BY <2>1, <2>2, <2>3, <1>2, <1>3, <1>14
<1>17. \A i \in 1 .. n + 1 : i \in 1 .. n \/ i = n + 1
  BY <1>11
<1>18. CallsOK(calls, res, kinds)'
  <2>1. CallOK(c, kinds)
    <3>1. Len(c.args) <= Len(c.sizes)
      BY <1>1, <1>7
    <3>2. QED BY <3>1, <1>2, <1>4, <1>7 DEF CallOK
  <2>2. \A i \in 1 .. n + 1 : CallOK(calls'[i], kinds)
    BY <2>1, <1>8, <1>17 DEF StackInv, CallsOK
  <2>3. \A i \in 1 .. n + 1 : calls'[i].kind = "call" /\ i < n + 1 =>
           Len(calls'[i].args) < Len(calls'[i].sizes)
    BY <1>3, <1>8, <1>11, <1>17
  <2>4. QED BY <2>2, <2>3, <1>2, <1>3, <1>4, <1>8 DEF CallsOK
<1>19. Kept(calls, Owners)'
  <2>1. Owners'[n + 1] = x /\ \A q \in Places : q <= n => Owners'[q] = Owners[q]
    BY <1>11, <1>12 DEF Owning, Places
  <2>2. CxHeld(Owners', n + 1) <=> CX \in used'
    <3>1. \A q \in Places : Flagged(Owners', q) => q <= n + 1
      <4>1. \A q \in Places : q >= n + 1 \/ q <= n + 1
        BY <1>11 DEF Places
      <4>2. \A q \in Places : q # n + 1 => Owners'[q] = Owners[q]
        BY <1>12, <1>11 DEF Owning
      <4>3. \A q \in Places : q # n + 1 /\ q >= n + 1 => ~Flagged(Owners', q)
        BY <4>2, <1>11, NoRegIsGPReg DEF FreeFrom, Flagged, Live
      <4>4. QED BY <4>1, <4>3, <1>11
    <3>2. QED BY <3>1, <1>1, <1>13 DEF PoolOK, FlagsExact, CxHeld
  <2>3. ASSUME MinFree >= 2, sizes # << >> PROVE \E r \in Regs : FreeUpTo(Owners', n + 1, r)
    <3>1. Cardinality(Unused(used)) >= 2
      <4>1. Unused(used) \subseteq Regs /\ IsFiniteSet(Regs)
        BY NRegsAssumption, FS_Interval DEF Unused, Regs
      <4>2. Cardinality(Unused(used)) \in Nat
        BY <4>1, FS_Subset, FS_CardinalityType
      <4>3. QED BY <4>2, <2>3, <1>2, ExprGenAssumption
    <3>2. PICK r, s \in Unused(used) : r # s
      BY <1>1, <3>1, TwoUnused
    <3>3. PICK z \in Unused(used) : z # x.reg
      BY <3>2
    <3>4. \A i \in Places : Owners[i].reg # z
      BY <1>1, <1>11, UnusedIsFree DEF StackInv
    <3>5. \A i \in Places : Owners'[i].reg # z
      BY <3>3, <3>4, <1>11, <1>12 DEF Owning
    <3>6. z \in Regs
      BY DEF Unused
    <3>7. QED BY <3>5, <3>6 DEF FreeUpTo
  <2>4. KeptAt(c, Owners', n + 1)
    <3>1. CX \in used' <=> c.cx
      BY <1>2, <1>7 DEF cx
    <3>2. QED BY <2>2, <2>3, <3>1, <1>7 DEF KeptAt, SpareAt
  <2>5. ASSUME NEW i \in 1 .. n PROVE KeptAt(calls'[i], Owners', i)
    <3>1. KeptAt(calls[i], Owners, i) /\ calls'[i] = calls[i]
      BY <1>8 DEF StackInv, Kept
    <3>2. \A q \in Places : q <= i => Owners[q] = Owners'[q]
      BY <2>1, <1>11 DEF Places
    <3>3. QED BY <3>1, <3>2, KeptSame
  <2>6. \A i \in 1 .. n + 1 : KeptAt(calls'[i], Owners', i)
    BY <2>4, <2>5, <1>8, <1>17
  <2>7. QED BY <2>6, <1>8 DEF Kept
<1>20. QED BY <1>2, <1>3, <1>10, <1>13, <1>16, <1>18, <1>19 DEF StackInv

\* The innermost call returns x.
LEMMA ReturnFacts ==
    ASSUME StackInv, calls # << >>, NEW x \in GPReg, x # NoReg,
           calls' = Front(calls), res' = x, kinds' = kinds
    PROVE  /\ calls' \in Seq(CallRecord) /\ Len(calls') = Len(calls) - 1
           /\ \A i \in 1 .. Len(calls) - 1 : calls'[i] = calls[i]
           /\ Owners' = [Owners EXCEPT ![Len(calls)] = x, ![Len(calls) + 1] = NoReg]
           /\ Owners' \in Owning /\ Owners'[Len(calls)] = x /\ Owners'[Len(calls) + 1] = NoReg
           /\ \A q \in Places : q # Len(calls) /\ q # Len(calls) + 1 => Owners'[q] = Owners[q]
           /\ DepthsExact(calls') /\ Depth(calls') = Top.depth
           /\ CallsOK(calls, res, kinds)'
           /\ Kept(calls, Owners)'
<1> DEFINE n == Len(calls)
<1>1. calls \in Seq(CallRecord) /\ res \in GPReg
  BY DEF StackInv, TypeOK
<1>2. /\ n \in Nat \ {0} /\ n \in Places /\ n + 1 \in Places /\ Owners \in Owning /\ Top = calls[n]
  BY TopFacts
<1>3. calls' \in Seq(CallRecord) /\ Len(calls') = n - 1 /\ \A i \in 1 .. n - 1 : calls'[i] = calls[i]
  BY <1>1, FrontFacts
<1>4. Owners' = [Owners EXCEPT ![n] = x, ![n + 1] = NoReg]
  <2>1. OwnersOf(Front(calls), x) = [OwnersOf(calls, res) EXCEPT ![Len(calls)] = x, ![Len(calls) + 1] = NoReg]
    BY <1>1, OwnersReturn
  <2>2. QED BY <2>1, Zenon DEF Owners
<1>5. /\ Owners' \in Owning /\ Owners'[n] = x /\ Owners'[n + 1] = NoReg
      /\ \A q \in Places : q # n /\ q # n + 1 => Owners'[q] = Owners[q]
  BY <1>2, <1>4, NoRegIsGPReg DEF Owning
<1>6. DepthsExact(calls') /\ Depth(calls') = Top.depth
  BY <1>1, <1>2, DepthsFront DEF StackInv
<1>7. \A i \in 1 .. n - 1 : i \in 1 .. n /\ i < n
  BY <1>2
<1>8. CallsOK(calls, res, kinds)'
  BY <1>3, <1>7 DEF StackInv, CallsOK
<1>9. Kept(calls, Owners)'
  <2> SUFFICES ASSUME NEW i \in 1 .. n - 1 PROVE KeptAt(calls[i], Owners', i)
    BY <1>3 DEF Kept
  <2>1. \A q \in Places : q <= i => q # n /\ q # n + 1
    BY <1>2 DEF Places
  <2>2. KeptAt(calls[i], Owners, i)
    BY <1>7 DEF StackInv, Kept
  <2>3. QED BY <2>1, <2>2, <1>5, KeptSame
<1>10. QED BY <1>3, <1>4, <1>5, <1>6, <1>8, <1>9

LEMMA StackUnaryOp ==
    ASSUME StackInv, UnaryOp
    PROVE  StackInv'
<1> DEFINE x == [res EXCEPT !.val = Top.id]
           n == Len(calls)
<1>1. /\ TypeOK /\ calls \in Seq(CallRecord) /\ used \in SUBSET Regs /\ res \in GPReg
      /\ regs \in [Regs -> Nat]
  BY DEF StackInv, TypeOK
<1>2. /\ res # NoReg /\ Top.kind \in {"unary", "boolLit"} /\ res' = x /\ calls' = Front(calls)
      /\ regs' = [regs EXCEPT ![res.reg] = Top.id]
      /\ UNCHANGED <<pool, stk, nodes, ctx>>
  BY DEF UnaryOp
<1>3. /\ calls # << >> /\ n \in Nat \ {0} /\ n \in Places /\ n + 1 \in Places /\ Owners \in Owning
      /\ Top \in CallRecord /\ CallOK(Top, kinds) /\ Owners[n] = Top.own /\ Owners[n + 1] = res
      /\ FreeFrom(Owners, n + 2) /\ Depth(calls) = After(Top)
  BY <1>2, TopFacts
<1>4. Top.id \in Nat
  BY <1>3 DEF CallRecord
<1>5. /\ x \in GPReg /\ x # NoReg /\ x.reg = res.reg /\ x.leaked = res.leaked /\ res.reg \in Regs
  <2>1. res \in [reg : Regs, leaked : BOOLEAN, val : Nat]
    BY <1>1, <1>2, HeldFacts
  <2>2. x \in [reg : Regs, leaked : BOOLEAN, val : Nat] /\ x.reg = res.reg /\ x.leaked = res.leaked
        /\ res.reg \in Regs
    BY <2>1, <1>4
  <2>3. x \in GPReg
    BY <2>2 DEF GPReg
  <2>4. QED BY <2>2, <2>3, HeldFacts
<1> HIDE DEF x
<1>6. /\ calls' \in Seq(CallRecord)
      /\ Owners' \in Owning /\ Owners'[n] = x /\ Owners'[n + 1] = NoReg
      /\ \A q \in Places : q # n /\ q # n + 1 => Owners'[q] = Owners[q]
      /\ DepthsExact(calls') /\ Depth(calls') = Top.depth
      /\ CallsOK(calls, res, kinds)' /\ Kept(calls, Owners)'
  BY <1>2, <1>3, <1>5, ReturnFacts DEF pool
<1>7. TypeOK'
  <2>1. regs' \in [Regs -> Nat]
    BY <1>1, <1>2, <1>4
  <2>2. QED BY <2>1, <1>1, <1>2, <1>5, <1>6 DEF TypeOK, pool
<1>8. Top.own = NoReg
  BY <1>2, <1>3 DEF CallOK
<1>9. PoolOK(Owners, used, kinds)'
  <2> DEFINE h == [Owners EXCEPT ![n] = Owners[n + 1], ![n + 1] = NoReg]
  <2>1. PoolOK(h, used, kinds)
    BY <1>1, <1>3, <1>8, PoolMove DEF StackInv
  <2>2. h \in Owning /\ h[n] = res
    BY <1>3, NoRegIsGPReg, <1>1 DEF Owning
  <2>3. Owners' = [h EXCEPT ![n] = x]
    BY <1>3, <1>6, <2>2 DEF Owning
  <2> HIDE DEF h
  <2>4. PoolOK([h EXCEPT ![n] = x], used, kinds)
    BY <1>1, <1>3, <1>5, <2>1, <2>2, PoolSame
  <2>5. QED BY <2>3, <2>4, <1>2 DEF pool
<1>10. Len(stk') = Depth(calls') + LeakWord(res')
  <2>1. After(Top) = Top.depth /\ Top.depth \in Nat
    <3>1. CxWord(Top) = 0 /\ LeakWord(Top.own) = 0 /\ ArgsStackSpace(Top.sizes) = 0
      BY <1>2, <1>3, <1>8, NoSpace, NoRegIsGPReg DEF CallOK, CxWord, LeakWord
    <3>2. Top.depth \in Nat
      BY <1>3 DEF CallRecord
    <3>3. QED BY <3>1, <3>2 DEF After
  <2>2. Len(stk) = Top.depth + LeakWord(res) /\ LeakWord(x) = LeakWord(res)
    BY <2>1, <1>3, <1>5 DEF StackInv, LeakWord
  <2>3. QED BY <2>2, <1>2, <1>6
<1>11. ctx' # "idle"
  BY <1>2 DEF StackInv
<1>12. QED BY <1>6, <1>7, <1>9, <1>10, <1>11 DEF StackInv

\* Facts that most of the remaining actions need: an active call and a result.
LEMMA ResultFacts ==
    ASSUME StackInv, res # NoReg
    PROVE  /\ res \in [reg : Regs, leaked : BOOLEAN, val : Nat] /\ res \in GPReg
           /\ res.reg \in Regs /\ Live(Owners, Len(calls) + 1)
           /\ Len(stk) \in Nat /\ Depth(calls) \in Nat /\ LeakWord(res) \in Nat
           /\ Len(stk) = Depth(calls) + LeakWord(res) /\ LeakWord(res) <= Len(stk)
           /\ ctx # "idle"
           /\ ~res.leaked => res.reg \in used
           /\ PoolOK([Owners EXCEPT ![Len(calls) + 1] = NoReg],
                     IF res.leaked THEN used ELSE used \ {res.reg}, kinds)
           /\ [Owners EXCEPT ![Len(calls) + 1] = NoReg] \in Owning
<1>1. /\ TypeOK /\ calls \in Seq(CallRecord) /\ used \in SUBSET Regs /\ res \in GPReg
      /\ Len(stk) \in Nat /\ PoolOK(Owners, used, kinds)
      /\ Len(stk) = Depth(calls) + LeakWord(res) /\ ctx # "idle"
  BY DEF StackInv, TypeOK
<1>2. res \in [reg : Regs, leaked : BOOLEAN, val : Nat] /\ res.reg \in Regs
  BY <1>1, HeldFacts
<1>3. /\ Len(calls) \in Nat /\ Len(calls) + 1 \in Places /\ Owners \in Owning
      /\ Owners[Len(calls) + 1] = res /\ FreeFrom(Owners, Len(calls) + 2)
  BY TopFacts
<1>4. Live(Owners, Len(calls) + 1)
  BY <1>2, <1>3 DEF Live
<1>5. Depth(calls) \in Nat /\ LeakWord(res) \in Nat
  BY <1>1, DepthIsNat, ExprGenAssumption DEF LeakWord
<1>6. ~res.leaked => res.reg \in used
  BY <1>1, <1>2, <1>3 DEF PoolOK, FlagsExact, Flagged, Live
<1>7. PoolOK([Owners EXCEPT ![Len(calls) + 1] = NoReg],
             IF res.leaked THEN used ELSE used \ {res.reg}, kinds)
  <2>1. FreeFrom(Owners, Len(calls) + 1 + 1)
    <3>1. Len(calls) + 1 + 1 = Len(calls) + 2
      BY <1>3
    <3>2. QED BY <3>1, <1>3
  <2>2. PoolOK([Owners EXCEPT ![Len(calls) + 1] = NoReg],
               IF Owners[Len(calls) + 1].leaked THEN used ELSE used \ {Owners[Len(calls) + 1].reg}, kinds)
    BY <1>1, <1>3, <1>4, <2>1, PoolFree
  <2>3. QED BY <2>2, <1>3
<1>8. [Owners EXCEPT ![Len(calls) + 1] = NoReg] \in Owning
  BY <1>3, NoRegIsGPReg DEF Owning
<1>9. QED BY <1>1, <1>2, <1>4, <1>5, <1>6, <1>7, <1>8

LEMMA StackPostfixOp ==
    ASSUME StackInv, PostfixOp
    PROVE  StackInv'
<1> DEFINE x == Fresh(Top.id)
           n == Len(calls)
           rg == [regs EXCEPT ![x.reg] = x.val]
           u == used \cup {x.reg}
<1>1. /\ TypeOK /\ calls \in Seq(CallRecord) /\ used \in SUBSET Regs
      /\ regs \in [Regs -> Nat] /\ PoolOK(Owners, used, kinds)
  BY DEF StackInv, TypeOK
<1>2. /\ res # NoReg /\ Top.kind = "postfix" /\ AllocReg /\ FreeReg(res, u, rg, FreshStk)
      /\ res' = x /\ calls' = Front(calls) /\ UNCHANGED <<nodes, ctx>>
  BY DEF PostfixOp
<1>3. /\ calls # << >> /\ n \in Nat \ {0} /\ n \in Places /\ n + 1 \in Places /\ Owners \in Owning
      /\ Top \in CallRecord /\ CallOK(Top, kinds) /\ Owners[n] = Top.own /\ Owners[n + 1] = res
      /\ FreeFrom(Owners, n + 2) /\ Depth(calls) = After(Top)
  BY <1>2, TopFacts
<1>4. Top.id \in Nat /\ Top.depth \in Nat
  BY <1>3 DEF CallRecord
<1>5. /\ x \in GPReg /\ x.reg \in Regs /\ x # NoReg /\ x.val = Top.id
      /\ ~x.leaked => x.reg \notin used
      /\ x.leaked => "postfix" \notin kinds
      /\ FreshStk \in Seq(Nat) /\ Len(FreshStk) = Len(stk) + LeakWord(x)
      /\ nextLeak' \in Regs /\ leaks' \in 0 .. MaxLeaks /\ kinds' = kinds
      /\ u \in SUBSET Regs
  BY <1>1, <1>2, <1>4, AllocFacts
<1>6. /\ res \in GPReg /\ res.reg \in Regs /\ Len(stk) \in Nat
      /\ Len(stk) = Depth(calls) + LeakWord(res) /\ ctx # "idle"
      /\ ~res.leaked => res.reg \in used
      /\ PoolOK([Owners EXCEPT ![n + 1] = NoReg], IF res.leaked THEN used ELSE used \ {res.reg}, kinds)
      /\ [Owners EXCEPT ![n + 1] = NoReg] \in Owning
  BY <1>2, ResultFacts
<1>7. rg \in [Regs -> Nat]
  BY <1>1, <1>4, <1>5
<1> HIDE DEF x, u, rg
<1>8. "postfix" \in kinds /\ Top.own = NoReg
  BY <1>2, <1>3 DEF CallOK
<1>9. ~x.leaked /\ ~res.leaked
  <2>1. res.leaked => "postfix" \notin kinds
    BY <1>1, <1>3 DEF PoolOK, LeakedLast
  <2>2. QED BY <2>1, <1>5, <1>8
<1>10. LeakWord(x) = 0 /\ LeakWord(res) = 0 /\ Len(FreshStk) = Len(stk)
  BY <1>5, <1>6, <1>9 DEF LeakWord
<1>11. /\ used' = u \ {res.reg} /\ used' \in SUBSET Regs
       /\ regs' \in [Regs -> Nat] /\ stk' \in Seq(Nat) /\ Len(stk') = Len(stk)
  <2>1. LeakWord(res) <= Len(FreshStk)
    BY <1>6, <1>10
  <2>2. /\ used' = (IF res.leaked THEN u ELSE u \ {res.reg}) /\ used' \in SUBSET Regs
        /\ regs' \in [Regs -> Nat] /\ stk' \in Seq(Nat)
        /\ Len(stk') = Len(FreshStk) - LeakWord(res)
    <3>1. /\ res \in GPReg /\ res # NoReg /\ u \in SUBSET Regs /\ rg \in [Regs -> Nat]
          /\ FreshStk \in Seq(Nat) /\ LeakWord(res) <= Len(FreshStk)
          /\ FreeReg(res, u, rg, FreshStk)
      BY <2>1, <1>2, <1>5, <1>6, <1>7
    <3>2. QED BY <3>1, FreeFacts, Zenon
  <2>3. QED BY <2>2, <1>6, <1>9, <1>10
<1>12. /\ calls' \in Seq(CallRecord)
       /\ Owners' \in Owning /\ Owners'[n] = x /\ Owners'[n + 1] = NoReg
       /\ \A q \in Places : q # n /\ q # n + 1 => Owners'[q] = Owners[q]
       /\ DepthsExact(calls') /\ Depth(calls') = Top.depth
       /\ CallsOK(calls, res, kinds)' /\ Kept(calls, Owners)'
  BY <1>2, <1>3, <1>5, ReturnFacts
<1>13. TypeOK'
  BY <1>1, <1>2, <1>5, <1>11, <1>12 DEF TypeOK
<1>14. PoolOK(Owners, used, kinds)'
  <2> DEFINE h == [Owners EXCEPT ![n + 1] = NoReg]
             v == used \ {res.reg}
  <2>1. PoolOK(h, v, kinds) /\ h \in Owning /\ v \in SUBSET Regs
    BY <1>1, <1>6, <1>9
  <2>2. h[n] = NoReg /\ h[n + 1] = NoReg /\ \A q \in Places : q # n + 1 => h[q] = Owners[q]
    BY <1>3, <1>8 DEF Owning
  <2> HIDE DEF h
  <2>3. FreeFrom(h, n)
    <3>1. \A q \in Places : q >= n => q = n \/ q = n + 1 \/ q >= n + 2
      BY <1>3 DEF Places
    <3>2. QED BY <3>1, <2>2, <1>3 DEF FreeFrom
  <2>4. PoolOK([h EXCEPT ![n] = x], v \cup {x.reg}, kinds)
    <3>1. x.reg \notin v
      BY <1>5, <1>9
    <3> HIDE DEF v
    <3>2. QED BY <2>1, <2>3, <3>1, <1>3, <1>5, <1>9, PoolAdd
  <2>5. Owners' = [h EXCEPT ![n] = x]
    BY <1>3, <1>12, <2>1, <2>2 DEF Owning
  <2>6. used' = v \cup {x.reg}
    BY <1>5, <1>6, <1>9, <1>11 DEF u
  <2>7. QED BY <2>4, <2>5, <2>6, <1>5
<1>15. Len(stk') = Depth(calls') + LeakWord(res')
  <2>1. CxWord(Top) = 0 /\ LeakWord(Top.own) = 0 /\ ArgsStackSpace(Top.sizes) = 0
    BY <1>2, <1>3, <1>8, NoSpace, NoRegIsGPReg DEF CallOK, CxWord, LeakWord
  <2>2. After(Top) = Top.depth
    BY <2>1, <1>4 DEF After
  <2>3. QED BY <2>2, <1>2, <1>3, <1>4, <1>6, <1>10, <1>11, <1>12
<1>16. QED BY <1>2, <1>6, <1>12, <1>13, <1>14, <1>15 DEF StackInv

LEMMA StackLhsDone ==
    ASSUME StackInv, LhsDone
    PROVE  StackInv'
<1> DEFINE c == [Top EXCEPT !.own = res, !.jump = Len(stk)]
           n == Len(calls)
<1>1. /\ TypeOK /\ calls \in Seq(CallRecord) /\ used \in SUBSET Regs
      /\ PoolOK(Owners, used, kinds)
  BY DEF StackInv, TypeOK
<1>2. /\ res # NoReg /\ Top.kind \in {"bin", "bool"} /\ Top.own = NoReg
      /\ calls' = SetTop(c) /\ res' = NoReg /\ UNCHANGED <<pool, regs, stk, nodes, ctx>>
  BY DEF LhsDone
<1>3. /\ calls # << >> /\ n \in Nat \ {0} /\ n \in Places /\ n + 1 \in Places /\ Owners \in Owning
      /\ Top \in CallRecord /\ CallOK(Top, kinds) /\ Owners[n] = Top.own /\ Owners[n + 1] = res
      /\ FreeFrom(Owners, n + 2) /\ Depth(calls) = After(Top) /\ Top = calls[n]
      /\ KeptAt(Top, Owners, n)
  BY <1>2, TopFacts
<1>4. /\ res \in GPReg /\ res.reg \in Regs /\ Len(stk) \in Nat
      /\ Len(stk) = Depth(calls) + LeakWord(res) /\ ctx # "idle" /\ LeakWord(res) \in Nat
  BY <1>2, ResultFacts
<1>5. /\ c \in CallRecord /\ c.own = res /\ c.jump = Len(stk)
      /\ c.kind = Top.kind /\ c.depth = Top.depth
      /\ c.cx = Top.cx /\ c.sizes = Top.sizes /\ c.args = Top.args
  BY <1>3, <1>4 DEF CallRecord
<1> HIDE DEF c
<1>6. calls' = [calls EXCEPT ![n] = c]
  BY <1>2 DEF SetTop
<1>7. /\ calls' \in Seq(CallRecord) /\ Len(calls') = n
      /\ \A i \in 1 .. n : calls'[i] = IF i = n THEN c ELSE calls[i]
  <2>1. calls \in Seq(CallRecord) /\ c \in CallRecord /\ n \in Nat \ {0}
    BY <1>1, <1>3, <1>5
  <2>2. QED BY <2>1, <1>6
<1>8. /\ Owners' = [Owners EXCEPT ![n] = res, ![n + 1] = NoReg]
      /\ Owners' \in Owning /\ Owners'[n] = res /\ Owners'[n + 1] = NoReg
      /\ \A q \in Places : q # n /\ q # n + 1 => Owners'[q] = Owners[q]
  <2>1. OwnersOf([calls EXCEPT ![n] = c], NoReg) =
          [OwnersOf(calls, res) EXCEPT ![n] = c.own, ![n + 1] = NoReg]
    BY <1>1, <1>3, <1>4, <1>5, NoRegIsGPReg, OwnersSetTop
  <2>2. Owners' = [Owners EXCEPT ![n] = res, ![n + 1] = NoReg]
    BY <2>1, <1>2, <1>5, <1>6, Zenon DEF Owners
  <2>3. QED BY <2>2, <1>3, <1>4, NoRegIsGPReg DEF Owning
<1>9. TypeOK'
  BY <1>1, <1>2, <1>7, NoRegIsGPReg DEF TypeOK, pool
<1>10. PoolOK(Owners, used, kinds)'
  <2>1. PoolOK([Owners EXCEPT ![n] = Owners[n + 1], ![n + 1] = NoReg], used, kinds)
    BY <1>1, <1>2, <1>3, PoolMove
  <2>2. QED BY <2>1, <1>2, <1>3, <1>8 DEF pool
<1>11. After(c) = Len(stk) /\ Top.depth \in Nat /\ After(Top) = Top.depth /\ LeakWord(NoReg) = 0
  <2>1. CxWord(c) = 0 /\ ArgsStackSpace(c.sizes) = 0 /\ CxWord(Top) = 0 /\ LeakWord(Top.own) = 0
        /\ ArgsStackSpace(Top.sizes) = 0 /\ LeakWord(NoReg) = 0
    BY <1>2, <1>3, <1>5, NoSpace, NoRegIsGPReg DEF CallOK, CxWord, LeakWord
  <2>2. Top.depth \in Nat
    BY <1>3 DEF CallRecord
  <2>3. After(Top) = Top.depth
    BY <2>1, <2>2 DEF After
  <2>4. After(c) = Top.depth + LeakWord(res)
    BY <2>1, <2>2, <1>4, <1>5 DEF After
  <2>5. QED BY <2>1, <2>2, <2>3, <2>4, <1>3, <1>4
<1>12. DepthsExact(calls') /\ Len(stk') = Depth(calls') + LeakWord(res')
  <2>1. DepthsExact(calls') /\ Depth(calls') = After(c)
    BY <1>1, <1>3, <1>5, <1>6, DepthsSetTop DEF StackInv
  <2>2. QED BY <2>1, <1>2, <1>4, <1>11
<1>13. \A i \in 1 .. n : i < n \/ i = n
  BY <1>3
<1>14. CallsOK(calls, res, kinds)'
  <2>1. CallOK(c, kinds)
    <3>1. Len(stk) = c.depth + LeakWord(res)
      BY <1>3, <1>4, <1>5, <1>11
    <3>2. QED BY <3>1, <1>2, <1>3, <1>5 DEF CallOK
  <2>2. \A i \in 1 .. n : CallOK(calls'[i], kinds)
    BY <2>1, <1>7 DEF StackInv, CallsOK
  <2>3. \A i \in 1 .. n : i < n /\ calls'[i].kind = "call" =>
          Len(calls'[i].args) < Len(calls'[i].sizes)
    BY <1>3, <1>7 DEF StackInv, CallsOK
  <2>4. QED BY <2>2, <2>3, <1>2, <1>7 DEF CallsOK, pool
<1>15. Kept(calls, Owners)'
  <2>1. ASSUME NEW i \in 1 .. n, i < n PROVE KeptAt(calls'[i], Owners', i)
    <3>1. \A q \in Places : q <= i => q # n /\ q # n + 1
      BY <2>1, <1>3 DEF Places
    <3>2. KeptAt(calls[i], Owners, i) /\ calls'[i] = calls[i]
      BY <2>1, <1>3, <1>7 DEF StackInv, Kept
    <3>3. QED BY <3>1, <3>2, <1>8, KeptSame
  <2>2. KeptAt(c, Owners', n)
    <3>1. ASSUME MinFree >= 2, c.kind = "bool" PROVE \E r \in Regs : FreeUpTo(Owners', n, r)
      <4>1. PICK r, s \in Regs : r # s /\ FreeUpTo(Owners, n, r) /\ FreeUpTo(Owners, n, s)
        BY <3>1, <1>2, <1>3, <1>5 DEF KeptAt, SpareAt
      <4>2. PICK z \in Regs : z # res.reg /\ FreeUpTo(Owners, n, z)
        BY <4>1
      <4>3. \A q \in Places : q <= n => q # n + 1
        BY <1>3 DEF Places
      <4>4. FreeUpTo(Owners', n, z)
        BY <4>2, <4>3, <1>8 DEF FreeUpTo
      <4>5. QED BY <4>4
    <3>2. c.own # NoReg /\ c.kind # "call" /\ c.sizes = << >>
      BY <1>2, <1>3, <1>5 DEF CallOK
    <3>3. QED BY <3>1, <3>2 DEF KeptAt, SpareAt
  <2>3. \A i \in 1 .. n : KeptAt(calls'[i], Owners', i)
    BY <2>1, <2>2, <1>7, <1>13
  <2>4. QED BY <2>3, <1>7 DEF Kept
<1>16. QED BY <1>2, <1>4, <1>9, <1>10, <1>12, <1>14, <1>15 DEF StackInv

LEMMA StackRhsDone ==
    ASSUME StackInv, RhsDone
    PROVE  StackInv'
<1> DEFINE lhs == Top.own
           x == [lhs EXCEPT !.val = Top.id]
           n == Len(calls)
           rg == [regs EXCEPT ![lhs.reg] = Top.id]
<1>1. /\ TypeOK /\ calls \in Seq(CallRecord) /\ used \in SUBSET Regs
      /\ regs \in [Regs -> Nat] /\ PoolOK(Owners, used, kinds) /\ stk \in Seq(Nat)
  BY DEF StackInv, TypeOK
<1>2. /\ res # NoReg /\ Top.kind \in {"bin", "bool"} /\ lhs # NoReg
      /\ FreeReg(res, used, rg, stk) /\ res' = x /\ calls' = Front(calls)
      /\ UNCHANGED <<kinds, nextLeak, leaks, nodes, ctx>>
  BY DEF RhsDone
<1>3. /\ calls # << >> /\ n \in Nat \ {0} /\ n \in Places /\ n + 1 \in Places /\ Owners \in Owning
      /\ Top \in CallRecord /\ CallOK(Top, kinds) /\ Owners[n] = Top.own /\ Owners[n + 1] = res
      /\ FreeFrom(Owners, n + 2) /\ Depth(calls) = After(Top)
  BY <1>2, TopFacts
<1>4. Top.id \in Nat /\ Top.depth \in Nat /\ lhs \in GPReg
  BY <1>3 DEF CallRecord
<1>5. /\ x \in GPReg /\ x # NoReg /\ x.reg = lhs.reg /\ x.leaked = lhs.leaked /\ lhs.reg \in Regs
  <2>1. lhs \in [reg : Regs, leaked : BOOLEAN, val : Nat]
    BY <1>2, <1>4, HeldFacts
  <2>2. x \in [reg : Regs, leaked : BOOLEAN, val : Nat] /\ x.reg = lhs.reg /\ x.leaked = lhs.leaked
        /\ lhs.reg \in Regs
    BY <2>1, <1>4
  <2>3. x \in GPReg
    BY <2>2 DEF GPReg
  <2>4. QED BY <2>2, <2>3, HeldFacts
<1>6. /\ res \in GPReg /\ res.reg \in Regs /\ Len(stk) \in Nat /\ Depth(calls) \in Nat
      /\ Len(stk) = Depth(calls) + LeakWord(res) /\ LeakWord(res) <= Len(stk) /\ ctx # "idle"
      /\ LeakWord(res) \in Nat
      /\ PoolOK([Owners EXCEPT ![n + 1] = NoReg], IF res.leaked THEN used ELSE used \ {res.reg}, kinds)
      /\ [Owners EXCEPT ![n + 1] = NoReg] \in Owning
  BY <1>2, ResultFacts
<1>7. rg \in [Regs -> Nat]
  BY <1>1, <1>4, <1>5
<1> HIDE DEF x, rg
<1>8. /\ used' = (IF res.leaked THEN used ELSE used \ {res.reg}) /\ used' \in SUBSET Regs
      /\ regs' \in [Regs -> Nat] /\ stk' \in Seq(Nat) /\ Len(stk') = Len(stk) - LeakWord(res)
  <2>1. /\ res \in GPReg /\ res # NoReg /\ used \in SUBSET Regs /\ rg \in [Regs -> Nat]
        /\ stk \in Seq(Nat) /\ LeakWord(res) <= Len(stk) /\ FreeReg(res, used, rg, stk)
    BY <1>1, <1>2, <1>6, <1>7
  <2>2. QED BY <2>1, FreeFacts, Zenon
<1>9. /\ calls' \in Seq(CallRecord)
      /\ Owners' \in Owning /\ Owners'[n] = x /\ Owners'[n + 1] = NoReg
      /\ \A q \in Places : q # n /\ q # n + 1 => Owners'[q] = Owners[q]
      /\ DepthsExact(calls') /\ Depth(calls') = Top.depth
      /\ CallsOK(calls, res, kinds)' /\ Kept(calls, Owners)'
  BY <1>2, <1>3, <1>5, ReturnFacts
<1>10. TypeOK'
  BY <1>1, <1>2, <1>5, <1>8, <1>9 DEF TypeOK
<1>11. PoolOK(Owners, used, kinds)'
  <2> DEFINE h == [Owners EXCEPT ![n + 1] = NoReg]
  <2>1. h \in Owning /\ h[n] = lhs /\ h[n + 1] = NoReg
        /\ \A q \in Places : q # n + 1 => h[q] = Owners[q]
    BY <1>3, <1>6 DEF Owning
  <2>2. PoolOK(h, used', kinds)
    BY <1>6, <1>8
  <2> HIDE DEF h
  <2>3. PoolOK([h EXCEPT ![n] = x], used', kinds)
    BY <2>1, <2>2, <1>3, <1>5, <1>8, PoolSame
  <2>4. Owners' = [h EXCEPT ![n] = x]
    BY <1>3, <1>9, <2>1 DEF Owning
  <2>5. QED BY <2>3, <2>4, <1>2
<1>12. Len(stk') = Depth(calls') + LeakWord(res')
  <2>1. CxWord(Top) = 0 /\ ArgsStackSpace(Top.sizes) = 0 /\ LeakWord(lhs) \in Nat
        /\ LeakWord(x) = LeakWord(lhs)
    BY <1>2, <1>3, <1>5, NoSpace, ExprGenAssumption DEF CallOK, CxWord, LeakWord
  <2>2. After(Top) = Top.depth + LeakWord(lhs)
    BY <2>1, <1>4 DEF After
  <2>3. QED BY <2>1, <2>2, <1>2, <1>3, <1>4, <1>6, <1>8, <1>9
<1>13. QED BY <1>2, <1>6, <1>9, <1>10, <1>11, <1>12 DEF StackInv

LEMMA StackArgDone ==
    ASSUME StackInv, ArgDone
    PROVE  StackInv'
<1> DEFINE c == [Top EXCEPT !.args = Append(@, res.val)]
           n == Len(calls)
           st == Store(stk, NextArgOffset(Top), regs[res.reg])
<1>1. /\ TypeOK /\ calls \in Seq(CallRecord) /\ used \in SUBSET Regs
      /\ regs \in [Regs -> Nat] /\ PoolOK(Owners, used, kinds) /\ stk \in Seq(Nat)
  BY DEF StackInv, TypeOK
<1>2. /\ res # NoReg /\ Top.kind = "call" /\ FreeReg(res, used, regs, st)
      /\ calls' = SetTop(c) /\ res' = NoReg /\ UNCHANGED <<kinds, nextLeak, leaks, nodes, ctx>>
  BY DEF ArgDone
<1>3. /\ calls # << >> /\ n \in Nat \ {0} /\ n \in Places /\ n + 1 \in Places /\ Owners \in Owning
      /\ Top \in CallRecord /\ CallOK(Top, kinds) /\ Owners[n] = Top.own /\ Owners[n + 1] = res
      /\ FreeFrom(Owners, n + 2) /\ Depth(calls) = After(Top) /\ Top = calls[n]
      /\ KeptAt(Top, Owners, n) /\ Len(Top.args) < Len(Top.sizes)
  BY <1>2, TopFacts
<1>4. /\ res \in GPReg /\ res.reg \in Regs /\ Len(stk) \in Nat /\ res.val \in Nat
      /\ Len(stk) = Depth(calls) + LeakWord(res) /\ ctx # "idle" /\ LeakWord(res) \in Nat
      /\ Depth(calls) \in Nat /\ LeakWord(res) <= Len(stk)
      /\ PoolOK([Owners EXCEPT ![n + 1] = NoReg], IF res.leaked THEN used ELSE used \ {res.reg}, kinds)
      /\ [Owners EXCEPT ![n + 1] = NoReg] \in Owning
  BY <1>2, ResultFacts
<1>5. /\ c \in CallRecord /\ c.args = Append(Top.args, res.val) /\ Top.args \in Seq(Nat)
      /\ c.kind = Top.kind /\ c.depth = Top.depth /\ c.own = Top.own
      /\ c.cx = Top.cx /\ c.sizes = Top.sizes /\ Top.sizes \in Seq(ArgSizes)
  <2>1. Top.args \in Seq(Nat) /\ Top.sizes \in Seq(ArgSizes)
    BY <1>3 DEF CallRecord
  <2>2. Append(Top.args, res.val) \in Seq(Nat)
    BY <2>1, <1>4
  <2>3. QED BY <2>1, <2>2, <1>3 DEF CallRecord
<1>6. st \in Seq(Nat) /\ Len(st) = Len(stk)
  <2>1. NextArgOffset(Top) \in Nat /\ regs[res.reg] \in Nat
    <3>1. Len(Top.args) \in Nat
      BY <1>5
    <3>2. Word * Len(Top.args) \in Nat
      BY <3>1, WordMultiple
    <3>3. QED BY <3>2, <1>1, <1>4 DEF NextArgOffset
  <2>2. QED BY <2>1, <1>1, StoreFacts
<1> HIDE DEF c, st
<1>7. /\ used' = (IF res.leaked THEN used ELSE used \ {res.reg}) /\ used' \in SUBSET Regs
      /\ regs' \in [Regs -> Nat] /\ stk' \in Seq(Nat) /\ Len(stk') = Len(st) - LeakWord(res)
  <2>1. /\ res \in GPReg /\ res # NoReg /\ used \in SUBSET Regs /\ regs \in [Regs -> Nat]
        /\ st \in Seq(Nat) /\ LeakWord(res) <= Len(st) /\ FreeReg(res, used, regs, st)
    BY <1>1, <1>2, <1>4, <1>6
  <2>2. QED BY <2>1, FreeFacts, Zenon
<1>8. calls' = [calls EXCEPT ![n] = c]
  BY <1>2 DEF SetTop
<1>9. /\ calls' \in Seq(CallRecord) /\ Len(calls') = n
      /\ \A i \in 1 .. n : calls'[i] = IF i = n THEN c ELSE calls[i]
  <2>1. calls \in Seq(CallRecord) /\ c \in CallRecord /\ n \in Nat \ {0}
    BY <1>1, <1>3, <1>5
  <2>2. QED BY <2>1, <1>8
<1>10. /\ Owners' = [Owners EXCEPT ![n + 1] = NoReg]
       /\ \A q \in Places : q # n + 1 => Owners'[q] = Owners[q]
  <2>1. OwnersOf([calls EXCEPT ![n] = c], NoReg) =
          [OwnersOf(calls, res) EXCEPT ![n] = c.own, ![n + 1] = NoReg]
    <3>1. /\ calls \in Seq(CallRecord) /\ calls # << >> /\ res \in GPReg /\ NoReg \in GPReg
          /\ c \in CallRecord
      BY <1>1, <1>3, <1>4, <1>5, NoRegIsGPReg
    <3>2. QED BY <3>1, OwnersSetTop
  <2>2. Owners' = [Owners EXCEPT ![n] = c.own, ![n + 1] = NoReg]
    BY <2>1, <1>2, <1>8, Zenon DEF Owners
  <2>3. QED BY <2>2, <1>3, <1>5 DEF Owning
<1>11. TypeOK'
  BY <1>1, <1>2, <1>7, <1>9, NoRegIsGPReg DEF TypeOK
<1>12. PoolOK(Owners, used, kinds)'
  BY <1>2, <1>4, <1>7, <1>10
<1>13. DepthsExact(calls') /\ Len(stk') = Depth(calls') + LeakWord(res')
  <2>1. DepthsExact(calls') /\ Depth(calls') = After(c)
    BY <1>1, <1>3, <1>5, <1>8, DepthsSetTop DEF StackInv
  <2>2. After(c) = After(Top)
    BY <1>5 DEF After, CxWord
  <2>3. LeakWord(NoReg) = 0
    BY NoRegIsGPReg DEF LeakWord
  <2>4. QED BY <2>1, <2>2, <2>3, <1>2, <1>3, <1>4, <1>6, <1>7
<1>14. \A i \in 1 .. n : i < n \/ i = n
  BY <1>3
<1>15. CallsOK(calls, res, kinds)'
  <2>1. CallOK(c, kinds)
    <3>1. Len(c.args) <= Len(c.sizes)
      BY <1>3, <1>4, <1>5
    <3>2. QED BY <3>1, <1>2, <1>3, <1>5 DEF CallOK
  <2>2. \A i \in 1 .. n : CallOK(calls'[i], kinds)
    BY <2>1, <1>9 DEF StackInv, CallsOK
  <2>3. \A i \in 1 .. n : i < n /\ calls'[i].kind = "call" =>
          Len(calls'[i].args) < Len(calls'[i].sizes)
    BY <1>3, <1>9 DEF StackInv, CallsOK
  <2>4. QED BY <2>2, <2>3, <1>2, <1>9 DEF CallsOK
<1>16. Kept(calls, Owners)'
  <2>1. \A i \in 1 .. n : \A q \in Places : q <= i => q # n + 1
    BY <1>3 DEF Places
  <2>2. ASSUME NEW i \in 1 .. n PROVE KeptAt(calls[i], Owners', i)
    BY <2>1, <1>10, KeptSame DEF StackInv, Kept
  <2>3. KeptAt(c, Owners', n)
    <3>1. KeptAt(Top, Owners', n)
      BY <2>2, <1>3
    <3>2. QED BY <3>1, <1>5 DEF KeptAt, SpareAt
  <2>4. \A i \in 1 .. n : KeptAt(calls'[i], Owners', i)
    BY <2>2, <2>3, <1>9, <1>14
  <2>5. QED BY <2>4, <1>9 DEF Kept
<1>17. QED BY <1>2, <1>4, <1>11, <1>12, <1>13, <1>15, <1>16 DEF StackInv

\* When a call has its arguments, cx is in use if and only if it was saved.
LEMMA SavedIsUsed ==
    ASSUME StackInv, res = NoReg, Top.kind = "call"
    PROVE  Top.cx = (CX \in used)
<1> DEFINE n == Len(calls)
<1>1. /\ calls # << >> /\ n \in Nat \ {0} /\ FreeFrom(Owners, n + 1) /\ KeptAt(Top, Owners, n)
      /\ Top \in CallRecord
  BY TopFacts
<1>2. CX \in Regs
  BY ExprGenAssumption, NRegsAssumption DEF CX, Regs
<1>3. \A q \in Places : Flagged(Owners, q) => q <= n
  <2>1. \A q \in Places : q <= n \/ q >= n + 1
    BY <1>1 DEF Places
  <2>2. QED BY <2>1, <1>1, NoRegIsGPReg DEF FreeFrom, Flagged, Live
<1>4. CX \in used <=> CxHeld(Owners, n)
  BY <1>2, <1>3 DEF StackInv, PoolOK, FlagsExact, CxHeld
<1>5. Top.cx <=> CX \in used
  BY <1>1, <1>4 DEF KeptAt
<1>6. Top.cx \in BOOLEAN
  BY <1>1 DEF CallRecord
<1>7. QED BY <1>5, <1>6

LEMMA StackEmitCall ==
    ASSUME StackInv, EmitCall
    PROVE  StackInv'
<1> DEFINE ret == Top.own
           n == Len(calls)
           space == ArgsStackSpace(Top.sizes)
           added == Popped(stk, space)
           called == [regs EXCEPT ![AX] = Top.id, ![CX] = Junk]
           popped == IF CX \in used THEN [called EXCEPT ![CX] = WordAt(added, 0)] ELSE called
<1>1. /\ TypeOK /\ calls \in Seq(CallRecord) /\ used \in SUBSET Regs
      /\ regs \in [Regs -> Nat] /\ PoolOK(Owners, used, kinds) /\ stk \in Seq(Nat)
      /\ AX \in Regs /\ CX \in Regs
  BY ExprGenAssumption, NRegsAssumption DEF StackInv, TypeOK, AX, CX, Regs
<1>2. /\ res = NoReg /\ Top.kind = "call" /\ res' = ret /\ calls' = Front(calls)
      /\ stk' = (IF CX \in used THEN Popped(added, Word) ELSE added)
      /\ regs' = (IF ret.reg # AX
                   THEN [popped EXCEPT ![AX] = popped[ret.reg], ![ret.reg] = popped[AX]]
                   ELSE popped)
      /\ UNCHANGED <<pool, nodes, ctx>>
  BY DEF EmitCall
<1>3. /\ calls # << >> /\ n \in Nat \ {0} /\ n \in Places /\ n + 1 \in Places /\ Owners \in Owning
      /\ Top \in CallRecord /\ CallOK(Top, kinds) /\ Owners[n] = ret /\ Owners[n + 1] = res
      /\ Depth(calls) = After(Top) /\ Top.cx = (CX \in used)
  BY <1>2, TopFacts, SavedIsUsed
<1>4. /\ Top.id \in Nat /\ Top.depth \in Nat /\ ret \in GPReg /\ ret # NoReg /\ ret.reg \in Regs
  <2>1. Top.id \in Nat /\ Top.depth \in Nat /\ ret \in GPReg
    BY <1>3 DEF CallRecord
  <2>2. ret # NoReg
    BY <1>2, <1>3 DEF CallOK
  <2>3. QED BY <2>1, <2>2, HeldFacts
<1>5. /\ Len(stk) \in Nat /\ space \in Nat /\ LeakWord(ret) \in Nat /\ Word \in Nat
      /\ Len(stk) = Top.depth + LeakWord(ret) + (IF CX \in used THEN Word ELSE 0) + space
  <2>1. /\ After(Top) \in Nat /\ LeakWord(ret) \in Nat /\ space \in Nat
        /\ After(Top) = Top.depth + LeakWord(ret) + CxWord(Top) + space
    BY <1>3, AfterIsNat
  <2>2. LeakWord(res) = 0
    BY <1>2, NoRegIsGPReg DEF LeakWord
  <2>3. Len(stk) = After(Top)
    BY <2>1, <2>2, <1>3 DEF StackInv
  <2>4. CxWord(Top) = IF CX \in used THEN Word ELSE 0
    BY <1>3 DEF CxWord
  <2>5. QED BY <2>1, <2>3, <2>4, <1>1, ExprGenAssumption
<1>6. added \in Seq(Nat) /\ Len(added) = Top.depth + LeakWord(ret) + IF CX \in used THEN Word ELSE 0
  <2>1. space <= Len(stk)
    BY <1>4, <1>5
  <2> HIDE DEF space
  <2>2. added \in Seq(Nat) /\ Len(added) = Len(stk) - space
    BY <2>1, <1>1, <1>5, PopFacts
  <2>3. QED BY <2>2, <1>4, <1>5
<1> HIDE DEF added, space
<1>7. /\ stk' \in Seq(Nat) /\ Len(stk') = Top.depth + LeakWord(ret)
      /\ CX \in used => WordAt(added, 0) \in Nat
  <2>1. CASE CX \in used
    <3>1. Len(added) = Top.depth + LeakWord(ret) + Word
      BY <2>1, <1>6
    <3>2. Word <= Len(added) /\ 0 + Word <= Len(added)
          /\ Len(added) - Word = Top.depth + LeakWord(ret)
      BY <3>1, <1>4, <1>5
    <3>3. /\ Popped(added, Word) \in Seq(Nat) /\ Len(Popped(added, Word)) = Len(added) - Word
          /\ WordAt(added, 0) \in Nat
      BY <3>2, <1>5, <1>6, PopFacts, WordAtFacts
    <3>4. QED BY <2>1, <3>2, <3>3, <1>2
  <2>2. CASE CX \notin used
    BY <2>2, <1>2, <1>4, <1>5, <1>6
  <2>3. QED BY <2>1, <2>2
<1>8. regs' \in [Regs -> Nat]
  <2>1. called \in [Regs -> Nat]
    BY <1>1, <1>4 DEF Junk
  <2> HIDE DEF called
  <2>2. popped \in [Regs -> Nat]
    BY <2>1, <1>1, <1>7
  <2> HIDE DEF popped
  <2>3. QED BY <2>2, <1>1, <1>2, <1>4
<1>9. /\ calls' \in Seq(CallRecord)
      /\ Owners' \in Owning /\ Owners'[n] = ret /\ Owners'[n + 1] = NoReg
      /\ \A q \in Places : q # n /\ q # n + 1 => Owners'[q] = Owners[q]
      /\ DepthsExact(calls') /\ Depth(calls') = Top.depth
      /\ CallsOK(calls, res, kinds)' /\ Kept(calls, Owners)'
  BY <1>2, <1>3, <1>4, ReturnFacts DEF pool
<1>10. TypeOK'
  BY <1>1, <1>2, <1>4, <1>7, <1>8, <1>9 DEF TypeOK, pool
<1>11. Owners' = Owners
  BY <1>2, <1>3, <1>9 DEF Owning
<1>12. PoolOK(Owners, used, kinds)'
  BY <1>1, <1>2, <1>11 DEF pool
<1>13. ctx # "idle"
  BY <1>3 DEF StackInv
<1>14. QED BY <1>2, <1>7, <1>9, <1>10, <1>12, <1>13 DEF StackInv

LEMMA StackEnd ==
    ASSUME StackInv, End
    PROVE  StackInv'
<1>1. /\ TypeOK /\ calls \in Seq(CallRecord) /\ used \in SUBSET Regs
      /\ regs \in [Regs -> Nat] /\ stk \in Seq(Nat)
  BY DEF StackInv, TypeOK
<1>2. /\ calls = << >> /\ res # NoReg /\ FreeReg(res, used, regs, stk)
      /\ res' = NoReg /\ nodes' = 0 /\ ctx' = "idle"
      /\ UNCHANGED <<kinds, nextLeak, leaks, calls>>
  BY DEF End
<1>3. /\ res \in GPReg /\ Len(stk) \in Nat /\ Depth(calls) = 0 /\ LeakWord(res) \in Nat
      /\ Len(stk) = Depth(calls) + LeakWord(res) /\ LeakWord(res) <= Len(stk)
      /\ PoolOK([Owners EXCEPT ![Len(calls) + 1] = NoReg],
                IF res.leaked THEN used ELSE used \ {res.reg}, kinds)
  BY <1>2, ResultFacts DEF Depth
<1>4. /\ used' = (IF res.leaked THEN used ELSE used \ {res.reg}) /\ used' \in SUBSET Regs
      /\ regs' \in [Regs -> Nat] /\ stk' \in Seq(Nat) /\ Len(stk') = Len(stk) - LeakWord(res)
  <2>1. /\ res \in GPReg /\ res # NoReg /\ used \in SUBSET Regs /\ regs \in [Regs -> Nat]
        /\ stk \in Seq(Nat) /\ LeakWord(res) <= Len(stk) /\ FreeReg(res, used, regs, stk)
    BY <1>1, <1>2, <1>3
  <2>2. QED BY <2>1, FreeFacts, Zenon
<1>5. TypeOK'
  BY <1>1, <1>2, <1>4, NoRegIsGPReg DEF TypeOK
<1>6. Owners' = [Owners EXCEPT ![Len(calls) + 1] = NoReg]
  <2>1. OwnersOf(calls, NoReg) = [OwnersOf(calls, res) EXCEPT ![Len(calls) + 1] = NoReg]
    BY <1>1, <1>3, NoRegIsGPReg, OwnersResult
  <2>2. QED BY <2>1, <1>2 DEF Owners
<1>7. PoolOK(Owners, used, kinds)'
  BY <1>2, <1>3, <1>4, <1>6
<1>8. Len(stk') = Depth(calls') + LeakWord(res')
  BY <1>2, <1>3, <1>4, NoRegIsGPReg DEF LeakWord, Depth
<1>9. CallsOK(calls, res, kinds)' /\ Kept(calls, Owners)' /\ DepthsExact(calls)'
  BY <1>2 DEF CallsOK, Kept, DepthsExact
<1>10. QED BY <1>2, <1>5, <1>7, <1>8, <1>9 DEF StackInv

LEMMA StackBegin ==
    ASSUME StackInv, NEW c \in {"expr", "cond", "return"}, Begin(c)
    PROVE  StackInv'
<1>1. UNCHANGED <<kinds, used, nextLeak, leaks, stk, calls, res, nodes>> /\ ctx' = c
      /\ regs' = [r \in Regs |-> Junk]
  BY DEF Begin, pool
<1>2. regs' \in [Regs -> Nat]
  BY <1>1 DEF Junk
<1>3. QED BY <1>1, <1>2 DEF StackInv, TypeOK, Owners

LEMMA StackAbort ==
    ASSUME StackInv, Abort
    PROVE  StackInv'
<1>1. UNCHANGED <<kinds, used, nextLeak, leaks, regs, stk, calls, res, nodes>> /\ ctx' = "aborted"
  BY DEF Abort, pool
<1>2. QED BY <1>1 DEF StackInv, TypeOK, Owners

LEMMA StackStep ==
    ASSUME StackInv, [Next]_vars
    PROVE  StackInv'
<1>1. CASE \E c \in {"expr", "cond", "return"} : Begin(c)
  BY <1>1, StackBegin
<1>2. CASE EnterLeaf
  BY <1>2, StackEnterLeaf
<1>3. CASE \E k \in AllKinds : EnterOp(k)
  BY <1>3, StackEnterOp
<1>4. CASE \E sizes \in SeqOf(ArgSizes, MaxArgs) : EnterCall(sizes)
  BY <1>4, StackEnterCall
<1>5. CASE UnaryOp
  BY <1>5, StackUnaryOp
<1>6. CASE PostfixOp
  BY <1>6, StackPostfixOp
<1>7. CASE LhsDone
  BY <1>7, StackLhsDone
<1>8. CASE RhsDone
  BY <1>8, StackRhsDone
<1>9. CASE ArgDone
  BY <1>9, StackArgDone
<1>10. CASE EmitCall
  BY <1>10, StackEmitCall
<1>11. CASE End
  BY <1>11, StackEnd
<1>12. CASE Abort
  BY <1>12, StackAbort
<1>13. CASE UNCHANGED vars
  BY <1>13 DEF vars, StackInv, TypeOK, Owners
<1>14. QED
  BY <1>1, <1>2, <1>3, <1>4, <1>5, <1>6, <1>7, <1>8, <1>9, <1>10, <1>11, <1>12, <1>13 DEF Next

LEMMA StackInit ==
    ASSUME Init
    PROVE  StackInv
<1>1. /\ kinds \in KindSets /\ used = {} /\ nextLeak = 0 /\ leaks = 0
      /\ regs = [r \in Regs |-> Junk] /\ stk = << >>
      /\ calls = << >> /\ res = NoReg /\ nodes = 0 /\ ctx = "idle"
  BY DEF Init
<1>2. regs \in [Regs -> Nat] /\ 0 \in Regs /\ 0 \in 0 .. MaxLeaks
  BY <1>1, NRegsAssumption, ExprGenAssumption DEF Junk, Regs
<1>3. TypeOK
  BY <1>1, <1>2, NoRegIsGPReg DEF TypeOK
<1>4. Owners \in Owning /\ FreeFrom(Owners, 1)
  <2>1. << >> \in Seq(CallRecord) /\ Len(<< >>) + 1 = 1
    OBVIOUS
  <2>2. QED BY <2>1, <1>1, OwnersType, NoRegIsGPReg DEF Owners
<1>5. PoolOK(Owners, used, kinds)
  BY <1>1, <1>4, PoolEmpty
<1>6. Len(stk) = Depth(calls) + LeakWord(res)
  BY <1>1, NoRegIsGPReg DEF Depth, LeakWord
<1>7. QED BY <1>1, <1>3, <1>5, <1>6 DEF StackInv, CallsOK, Kept, DepthsExact

LEMMA StackAlways == Spec => []StackInv
<1>1. Init => StackInv
  BY StackInit
<1>2. StackInv /\ [Next]_vars => StackInv'
  BY StackStep
<1>3. QED BY <1>1, <1>2, PTL DEF Spec

-----------------------------------------------------------------------------
(* What the invariant means for the emitted code.                          *)

\* However an expression is nested and whatever it leaks, the generator stays
\* in its types: register numbers below n_gp_regs, cells that hold values, a
\* well-formed record for every activation.
THEOREM TypeCorrect == Spec => []TypeOK
<1>1. StackInv => TypeOK
  BY DEF StackInv
<1>2. QED BY <1>1, StackAlways, PTL

\* Every push of an expression has met its pop when the statement gets the
\* value: nothing is on the stack, the value's register is not a leaked one
\* (whose pop in free_reg comes after the jump of a condition), and after the
\* statement all registers are free.
THEOREM StatementsClean == Spec => []StatementClean
<1>1. StackInv => StatementClean
  <2> SUFFICES ASSUME StackInv PROVE StatementClean
    OBVIOUS
  <2>1. /\ Len(stk) = Depth(calls) + LeakWord(res) /\ PoolOK(Owners, used, kinds)
        /\ stk \in Seq(Nat) /\ used \in SUBSET Regs /\ res \in GPReg
        /\ (ctx = "idle" => calls = << >> /\ res = NoReg)
    BY DEF StackInv, TypeOK
  <2>2. ASSUME calls = << >> PROVE stk = << >> /\ ~res.leaked
    <3>1. Len(calls) = 0 /\ 1 \in Places /\ Owners[1] = res
      BY <2>2, TopFacts
    <3>2. 0 \in Regs /\ \A i \in Places : ~(i < 1)
      BY NRegsAssumption DEF Regs, Places
    <3>3. ~res.leaked
      BY <3>1, <3>2, <2>1 DEF PoolOK, LeakedLast
    <3>4. Len(stk) = 0
      BY <2>1, <2>2, <3>3 DEF Depth, LeakWord
    <3>5. QED BY <3>3, <3>4, <2>1, EmptySeq
  <2>3. ASSUME ctx = "idle" PROVE used = {}
    <3>1. FreeFrom(Owners, 1)
      BY <2>1, <2>3, TopFacts
    <3>2. \A i \in Places : i >= 1
      BY DEF Places
    <3>3. \A i \in Places : ~Flagged(Owners, i)
      BY <3>1, <3>2, NoRegIsGPReg DEF FreeFrom, Flagged, Live
    <3>4. QED BY <3>3, <2>1 DEF PoolOK, FlagsExact
  <2>4. QED BY <2>2, <2>3 DEF StatementClean
<1>2. QED BY <1>1, StackAlways, PTL

\* A call restores cx exactly when it has saved it: between the two looks at
\* gp_reg_used every argument has given back what it took.
THEOREM CallerSavesMatch == Spec => []CallerSavedMatched
<1>1. StackInv => CallerSavedMatched
  BY SavedIsUsed DEF CallerSavedMatched
<1>2. QED BY <1>1, StackAlways, PTL

\* A leak in the right operand of && or || would leave a push on one of the two
\* ways to the end label.  While two registers are free when such an operator
\* begins, the right operand's value never comes in a leaked register, and both
\* ways reach the label with the same stack pointer.
THEOREM LabelsBalanced ==
    ASSUME MinFree >= 2
    PROVE  Spec => []LabelBalanced
<1>1. StackInv => LabelBalanced
  <2> SUFFICES ASSUME StackInv, res # NoReg, Top.kind = "bool", Top.own # NoReg
               PROVE  Len(stk) = Top.jump
    BY DEF LabelBalanced
  <2> DEFINE n == Len(calls)
  <2>1. /\ n \in Nat /\ n \in Places /\ n + 1 \in Places /\ Owners[n + 1] = res
        /\ CallOK(Top, kinds) /\ KeptAt(Top, Owners, n)
        /\ Top \in CallRecord /\ Depth(calls) = After(Top)
    BY TopFacts
  <2>2. PICK r \in Regs : FreeUpTo(Owners, n, r)
    BY <2>1 DEF KeptAt, SpareAt
  <2>3. \A i \in Places : i < n + 1 => i <= n
    BY <2>1 DEF Places
  <2>4. ~res.leaked
    BY <2>1, <2>2, <2>3 DEF StackInv, PoolOK, LeakedLast, FreeUpTo
  <2>5. Len(stk) = After(Top) + 0
    BY <2>1, <2>4 DEF StackInv, LeakWord
  <2>6. After(Top) = Top.jump /\ After(Top) \in Nat
    <3>1. After(Top) \in Nat /\ Top.depth \in Nat /\ LeakWord(Top.own) \in Nat
          /\ After(Top) = Top.depth + LeakWord(Top.own) + CxWord(Top) + ArgsStackSpace(Top.sizes)
      BY <2>1, AfterIsNat
    <3>2. CxWord(Top) = 0 /\ ArgsStackSpace(Top.sizes) = 0
      BY <2>1, NoSpace DEF CallOK, CxWord
    <3>3. Top.jump = Top.depth + LeakWord(Top.own)
      BY <2>1 DEF CallOK
    <3>4. QED BY <3>1, <3>2, <3>3
  <2>7. QED BY <2>5, <2>6
<1>2. QED BY <1>1, StackAlways, PTL
-----------------------------------------------------------------------------
(* The code for an expression computes on the values it is meant to:       *)
(* whatever is evaluated, called or leaked between the load of an operand  *)
(* and its use, the operand is back in its register.                       *)
(*                                                                         *)
(* The invariant says where the value of every GPReg that is handed out    *)
(* is: in its register, or, from when the register is leaked to a later    *)
(* node until that node frees it, in the stack word that the leak has      *)
(* pushed.                                                                 *)

\* What the runs' bounds keep out: a leak of a leaked register, a call whose
\* result is asked for in cx, a leaked argument or right operand of && or ||,
\* and an argument of less than a word.  Each is a known error of the code.
Covered ==
    /\ MaxLeaks < NRegs
    /\ CX \notin CallRegs
    /\ MinFree >= 2
    /\ ArgSizes \subseteq {Word}

\* The i-th active call is one of get_func_call_expr_instructions.
IsCallAt(cs, i) == i \in 1 .. Len(cs) /\ cs[i].kind = "call"
\* The register of place i is given to the later place j too.
Takes(g, j, i) == i < j /\ Live(g, j) /\ g[j].reg = g[i].reg
Untaken(g, i) == \A j \in Places : ~Takes(g, j, i)
\* Of the places before i, p is the one whose value is in its register.
Newest(g, p, i) == p < i /\ Live(g, p) /\ \A q \in Places : q < i => ~Takes(g, q, p)

\* What is to be in the register of place i: its value, or, while a call is
\* being compiled for it, the value of ax that the call has put aside.
Right(g, cs, i, v) ==
    /\ ~IsCallAt(cs, i) => v = g[i].val
    /\ IsCallAt(cs, i) /\ g[i].reg # AX =>
         \A p \in Places : Newest(g, p, i) /\ g[p].reg = AX /\ ~IsCallAt(cs, p) => v = g[p].val

\* ... and is there, or in the stack word that the place's taker has pushed.
SlotAt(cs, j) == IF j \in 1 .. Len(cs) THEN cs[j].depth ELSE Depth(cs)
InRegister(g, cs, rg) ==
    \A i \in Places : Live(g, i) /\ Untaken(g, i) => Right(g, cs, i, rg[g[i].reg])
InSlot(g, cs, st) ==
    \A i, j \in Places : Live(g, i) /\ Takes(g, j, i) =>
      \A k \in WordOf(SlotAt(cs, j)) : Right(g, cs, i, st[k])

\* What a call has on the stack: cx, and the arguments so far.
CxStored(c, g, i, st) ==
    c.cx => \A q \in Places : Newest(g, q, i) /\ g[q].reg = CX =>
              \A k \in WordOf(c.depth + LeakWord(c.own)) : st[k] = g[q].val
ArgsStored(c, st) ==
    \A a \in 1 .. Len(c.args) : \A k \in WordOf(After(c) - Word * a) : st[k] = c.args[a]
Stored(g, cs, st) ==
    \A i \in 1 .. Len(cs) : CxStored(cs[i], g, i, st) /\ ArgsStored(cs[i], st)

\* Registers are leaked in the order of their numbers, each once; without
\* postfix operators they are also handed out in that order.
Ordered(g, u, ks, next) ==
    /\ \A i, j \in Places : g[i].leaked /\ g[j].leaked /\ g[i].reg = g[j].reg => i = j
    /\ \A j \in Places : g[j].leaked => g[j].reg < next
    /\ "postfix" \notin ks =>
         /\ \A i, j \in Places : i < j /\ Flagged(g, i) /\ Flagged(g, j) => g[i].reg < g[j].reg
         /\ \A r \in u : \A s \in Regs : s < r => s \in u

ValueInv ==
    /\ StackInv
    /\ nextLeak = leaks
    /\ Ordered(Owners, used, kinds, nextLeak)
    /\ \A i \in 1 .. Len(calls) : calls[i].kind = "call" => calls[i].own.val = calls[i].id
    /\ InRegister(Owners, calls, regs)
    /\ InSlot(Owners, calls, stk)
    /\ Stored(Owners, calls, stk)

-----------------------------------------------------------------------------
(* Holders of one register.                                                *)

\* A register is given to a second place only by a leak, and only once.
LEMMA TakerFacts ==
    ASSUME NEW g \in Owning, NEW u \in SUBSET Regs, NEW ks, NEW next,
           PoolOK(g, u, ks), Ordered(g, u, ks, next),
           NEW i \in Places, NEW j \in Places, Live(g, i), Takes(g, j, i)
    PROVE  /\ g[j].leaked /\ ~g[i].leaked
           /\ \A q \in Places : Takes(g, q, i) => q = j
           /\ \A p \in Places : Live(g, p) /\ Takes(g, j, p) => p = i
<1>1. ASSUME NEW a \in Places, NEW b \in Places, Live(g, a), Takes(g, b, a)
      PROVE  g[b].leaked /\ ~g[a].leaked
  <2>1. ASSUME g[a].leaked PROVE FALSE
    <3>1. g[b].reg \in Regs /\ g[b].reg = g[a].reg /\ a < b /\ a # b
      BY <1>1 DEF Takes, Live, Places
    <3>2. PICK e \in Places : e < a /\ Flagged(g, e) /\ g[e].reg = g[a].reg
      BY <1>1, <2>1 DEF PoolOK, LeakedLast, Live
    <3>3. CASE g[b].leaked
      BY <2>1, <3>1, <3>3 DEF Ordered
    <3>4. CASE ~g[b].leaked
      <4>1. Flagged(g, b)
        BY <3>1, <3>4 DEF Flagged, Live
      <4>2. e = b
        BY <3>1, <3>2, <4>1 DEF PoolOK, FlagsExact
      <4>3. QED BY <3>1, <3>2, <4>2 DEF Places
    <3>5. QED BY <3>3, <3>4
  <2>2. ASSUME ~g[b].leaked PROVE FALSE
    <3>1. Flagged(g, a) /\ Flagged(g, b) /\ g[b].reg = g[a].reg /\ a < b /\ a # b
      BY <1>1, <2>1, <2>2 DEF Takes, Flagged, Live, Places
    <3>2. QED BY <3>1 DEF PoolOK, FlagsExact
  <2>3. QED BY <2>1, <2>2
<1>2. ASSUME NEW q \in Places, Takes(g, q, i) PROVE q = j
  <2>1. g[q].leaked /\ g[j].leaked
    BY <1>1, <1>2
  <2>2. g[q].reg = g[j].reg
    BY <1>2 DEF Takes
  <2>3. QED BY <2>1, <2>2 DEF Ordered
<1>3. ASSUME NEW p \in Places, Live(g, p), Takes(g, j, p) PROVE p = i
  <2>1. Flagged(g, p) /\ Flagged(g, i)
    BY <1>1, <1>3 DEF Flagged
  <2>2. g[p].reg = g[i].reg
    BY <1>3 DEF Takes
  <2>3. QED BY <2>1, <2>2 DEF PoolOK, FlagsExact
<1>4. QED BY <1>1, <1>2, <1>3

\* What is right for a place depends on the places up to it only.
LEMMA RightSame ==
    ASSUME NEW g, NEW h, NEW cs, NEW ds, NEW i \in Places, NEW v,
           \A q \in Places : q <= i => g[q] = h[q] /\ (IsCallAt(cs, q) <=> IsCallAt(ds, q)),
           Right(g, cs, i, v)
    PROVE  Right(h, ds, i, v)
<1>1. g[i] = h[i] /\ (IsCallAt(cs, i) <=> IsCallAt(ds, i))
  BY DEF Places
<1>2. \A p \in Places : p < i => p <= i
  BY DEF Places
<1>3. ASSUME NEW p \in Places, Newest(h, p, i)
      PROVE  Newest(g, p, i) /\ g[p] = h[p] /\ (IsCallAt(cs, p) <=> IsCallAt(ds, p))
  BY <1>2, <1>3 DEF Newest, Takes, Live
<1>4. QED BY <1>1, <1>3 DEF Right

LEMMA WordMonotone ==
    ASSUME NEW a \in Nat \ {0}, NEW b \in Nat, a <= b
    PROVE  Word * a \in Nat /\ Word * a >= Word /\ Word * a <= Word * b
BY ExprGenAssumption

\* The same holds for what a call has stored, as long as its cells stay.
LEMMA StoredSame ==
    ASSUME NEW c \in CallRecord, NEW g, NEW h, NEW i \in Places, NEW st, NEW t,
           ArgSizes \subseteq {Word}, Len(c.args) <= Len(c.sizes),
           \A q \in Places : q < i => g[q] = h[q],
           SameBelow(st, t, After(c)),
           CxStored(c, g, i, st), ArgsStored(c, st)
    PROVE  CxStored(c, h, i, t) /\ ArgsStored(c, t)
<1>1. /\ c.depth \in Nat /\ LeakWord(c.own) \in Nat /\ CxWord(c) \in Nat /\ After(c) \in Nat
      /\ ArgsStackSpace(c.sizes) \in Nat
      /\ After(c) = c.depth + LeakWord(c.own) + CxWord(c) + ArgsStackSpace(c.sizes)
  BY AfterIsNat
<1>2. c.sizes \in Seq(ArgSizes) /\ c.args \in Seq(Nat)
  BY DEF CallRecord
<1>3. Word \in Nat \ {0} /\ Len(c.sizes) \in Nat /\ Len(c.args) \in Nat
  BY <1>2, ExprGenAssumption
<1>4. ArgsStackSpace(c.sizes) = Word * Len(c.sizes)
  BY <1>2, SpaceOfWords
<1>5. CxStored(c, h, i, t)
  <2> SUFFICES ASSUME c.cx, NEW q \in Places, Newest(h, q, i), h[q].reg = CX,
                      NEW k \in WordOf(c.depth + LeakWord(c.own))
               PROVE  t[k] = h[q].val
    BY DEF CxStored
  <2>1. Newest(g, q, i) /\ g[q] = h[q]
    BY DEF Newest, Takes, Live
  <2>2. st[k] = g[q].val
    BY <2>1 DEF CxStored
  <2>3. k \in 1 .. After(c)
    BY <1>1, <1>3 DEF WordOf, CxWord
  <2>4. QED BY <2>1, <2>2, <2>3 DEF SameBelow
<1>6. ArgsStored(c, t)
  <2> SUFFICES ASSUME NEW a \in 1 .. Len(c.args), NEW k \in WordOf(After(c) - Word * a)
               PROVE  t[k] = c.args[a]
    BY DEF ArgsStored
  <2>1. st[k] = c.args[a]
    BY DEF ArgsStored
  <2>2. Word * a \in Nat /\ Word * a >= Word /\ Word * a <= Word * Len(c.sizes)
    BY <1>3, WordMonotone
  <2>3. k \in 1 .. After(c)
    <3> DEFINE p == Word * a
               d == After(c)
    <3>1. p \in Nat /\ p >= Word /\ p <= ArgsStackSpace(c.sizes)
      BY <2>2, <1>4
    <3>2. d \in Nat /\ p <= d
      BY <3>1, <1>1
    <3>3. k \in d - p + 1 .. d - p + Word
      BY DEF WordOf
    <3> HIDE DEF p, d
    <3>4. k \in 1 .. d
      BY <3>1, <3>2, <3>3, <1>3
    <3>5. QED BY <3>4 DEF d
  <2>4. QED BY <2>1, <2>3 DEF SameBelow
<1>7. QED BY <1>5, <1>6

\* A word of the stack that is right cell by cell is right as a whole.
LEMMA RightWord ==
    ASSUME NEW g, NEW cs, NEW i \in Places, NEW st, NEW w, NEW W,
           \A k \in W : Right(g, cs, i, st[k]),
           \A v : (\A k \in W : st[k] = v) => w = v
    PROVE  Right(g, cs, i, w)
<1>1. ASSUME ~IsCallAt(cs, i) PROVE w = g[i].val
  BY <1>1 DEF Right
<1>2. ASSUME IsCallAt(cs, i), g[i].reg # AX,
             NEW p \in Places, Newest(g, p, i), g[p].reg = AX, ~IsCallAt(cs, p)
      PROVE  w = g[p].val
  BY <1>2 DEF Right
<1>3. QED BY <1>1, <1>2 DEF Right

-----------------------------------------------------------------------------
(* The order of the registers.                                             *)

LEMMA OrderedAdd ==
    ASSUME NEW g \in Owning, NEW u \in SUBSET Regs, NEW ks, NEW next \in Nat, NEW next2 \in Nat,
           PoolOK(g, u, ks), Ordered(g, u, ks, next),
           NEW m \in Places, FreeFrom(g, m), NEW x \in GPReg, x.reg \in Regs,
           ~x.leaked => x.reg \notin u /\ next2 = next
                        /\ \A s \in Regs : s \notin u => x.reg <= s,
           x.leaked => u = Regs /\ x.reg = next /\ next2 = next + 1
    PROVE  Ordered([g EXCEPT ![m] = x], u \cup {x.reg}, ks, next2)
<1> DEFINE h == [g EXCEPT ![m] = x]
           v == u \cup {x.reg}
<1>1. h[m] = x /\ \A i \in Places : i # m => h[i] = g[i]
  BY DEF Owning
<1>2. \A i \in Places : g[i].reg \in Regs \/ g[i].leaked => i < m
  <2>1. \A i \in Places : i >= m \/ i < m
    BY DEF Places
  <2>2. QED BY <2>1, NoRegIsGPReg DEF FreeFrom
<1>3. Regs \subseteq Nat /\ \A i \in Places : g[i] \in GPReg
  BY NRegsAssumption DEF Regs, Owning
<1> HIDE DEF h
<1>4. next <= next2
  <2>1. x.leaked \/ ~x.leaked
    OBVIOUS
  <2>2. QED BY <2>1
<1>5. ASSUME NEW j \in Places, g[j].leaked PROVE g[j].reg < next /\ g[j].reg \in Nat
  <2>1. g[j].reg \in Regs
    BY <1>3, <1>5, HeldFacts
  <2>2. QED BY <2>1, <1>3, <1>5 DEF Ordered
<1>6. \A i, j \in Places : h[i].leaked /\ h[j].leaked /\ h[i].reg = h[j].reg => i = j
  <2> SUFFICES ASSUME NEW i \in Places, NEW j \in Places, h[i].leaked, h[j].leaked,
                      h[i].reg = h[j].reg
               PROVE  i = j
    OBVIOUS
  <2>1. CASE i # m /\ j # m
    BY <2>1, <1>1 DEF Ordered
  <2>2. CASE i = m /\ j # m
    BY <2>2, <1>1, <1>5
  <2>3. CASE i # m /\ j = m
    BY <2>3, <1>1, <1>5
  <2>4. QED BY <2>1, <2>2, <2>3
<1>7. \A j \in Places : h[j].leaked => h[j].reg < next2
  <2> SUFFICES ASSUME NEW j \in Places, h[j].leaked PROVE h[j].reg < next2
    OBVIOUS
  <2>1. CASE j = m
    BY <2>1, <1>1
  <2>2. CASE j # m
    BY <2>2, <1>1, <1>4, <1>5
  <2>3. QED BY <2>1, <2>2
<1>8. ASSUME "postfix" \notin ks, NEW i \in Places, NEW j \in Places, i < j, Flagged(h, i), Flagged(h, j)
      PROVE  h[i].reg < h[j].reg
  <2>1. i # m
    <3>1. i = m => j # m /\ ~(j < m)
      BY <1>8 DEF Places
    <3>2. QED BY <3>1, <1>1, <1>2, <1>8 DEF Flagged, Live
  <2>2. CASE j # m
    BY <2>1, <2>2, <1>1, <1>8 DEF Ordered, Flagged, Live
  <2>3. CASE j = m
    <3>1. ~x.leaked /\ x.reg \notin u /\ x.reg \in Nat
      BY <2>3, <1>1, <1>3, <1>8 DEF Flagged
    <3>2. g[i].reg \in u /\ g[i].reg \in Regs /\ h[i] = g[i]
      BY <2>1, <1>1, <1>8 DEF PoolOK, FlagsExact, Flagged, Live
    <3>3. ~(x.reg < g[i].reg)
      BY <3>1, <3>2, <1>8 DEF Ordered
    <3>4. x.reg # g[i].reg /\ g[i].reg \in Nat
      BY <3>1, <3>2, <1>3
    <3>5. QED BY <2>3, <3>1, <3>2, <3>3, <3>4, <1>1
  <2>4. QED BY <2>2, <2>3
<1>9. ASSUME "postfix" \notin ks, NEW r \in v, NEW s \in Regs, s < r
      PROVE  s \in v
  <2>1. CASE r \in u
    BY <2>1, <1>9 DEF Ordered
  <2>2. CASE r = x.reg
    <3>1. CASE x.leaked
      BY <3>1
    <3>2. CASE ~x.leaked
      <4>1. s \notin u => x.reg <= s
        BY <3>2
      <4>2. s \in Nat /\ x.reg \in Nat
        BY <1>3
      <4>3. QED BY <4>1, <4>2, <2>2, <1>9
    <3>3. QED BY <3>1, <3>2
  <2>3. QED BY <2>1, <2>2
<1>10. Ordered(h, v, ks, next2)
  BY <1>6, <1>7, <1>8, <1>9 DEF Ordered
<1>11. QED BY <1>10 DEF h

\* The newest GPReg goes away, or changes its value, or changes its place.
LEMMA OrderedFree ==
    ASSUME NEW g \in Owning, NEW u \in SUBSET Regs, NEW ks, NEW next,
           PoolOK(g, u, ks), Ordered(g, u, ks, next),
           NEW m \in Places, FreeFrom(g, m + 1), Live(g, m)
    PROVE  Ordered([g EXCEPT ![m] = NoReg], IF g[m].leaked THEN u ELSE u \ {g[m].reg}, ks, next)
<1> DEFINE h == [g EXCEPT ![m] = NoReg]
           v == IF g[m].leaked THEN u ELSE u \ {g[m].reg}
<1>1. h[m] = NoReg /\ \A i \in Places : i # m => h[i] = g[i]
  BY DEF Owning
<1>2. Regs \subseteq Nat
  BY NRegsAssumption DEF Regs
<1>3. \A i \in Places : g[i].reg \in Regs => i <= m
  <2>1. \A i \in Places : i >= m + 1 \/ i <= m
    BY DEF Places
  <2>2. QED BY <2>1, NoRegIsGPReg DEF FreeFrom
<1> HIDE DEF h
<1>4. \A i \in Places : h[i].leaked \/ Flagged(h, i) => i # m /\ h[i] = g[i]
  BY <1>1, NoRegIsGPReg DEF Flagged, Live
<1>5. ASSUME "postfix" \notin ks, NEW r \in v, NEW s \in Regs, s < r
      PROVE  s \in v
  <2>1. r \in u /\ s \in u
    BY <1>5 DEF Ordered
  <2>2. CASE g[m].leaked
    BY <2>1, <2>2
  <2>3. CASE ~g[m].leaked
    <3>1. ASSUME s = g[m].reg PROVE FALSE
      <4>1. PICK i \in Places : Flagged(g, i) /\ g[i].reg = r
        BY <2>1 DEF PoolOK, FlagsExact
      <4>2. i # m
        BY <4>1, <3>1, <1>2, <1>5
      <4>3. i < m
        BY <4>1, <4>2, <1>3 DEF Flagged, Live, Places
      <4>4. Flagged(g, m)
        BY <2>3 DEF Flagged
      <4>5. g[i].reg < g[m].reg
        BY <4>1, <4>3, <4>4, <1>5 DEF Ordered
      <4>6. QED BY <4>1, <4>5, <3>1, <1>2, <1>5, <2>1
    <3>2. QED BY <2>1, <2>3, <3>1
  <2>4. QED BY <2>2, <2>3
<1>6. \A i \in Places : Flagged(h, i) => Flagged(g, i)
  BY <1>4 DEF Flagged, Live
<1>7. Ordered(h, v, ks, next)
  BY <1>4, <1>5, <1>6 DEF Ordered
<1>8. QED BY <1>7 DEF h

LEMMA OrderedSame ==
    ASSUME NEW g \in Owning, NEW u \in SUBSET Regs, NEW ks, NEW next, Ordered(g, u, ks, next),
           NEW m \in Places, NEW x \in GPReg, x.reg = g[m].reg, x.leaked = g[m].leaked
    PROVE  Ordered([g EXCEPT ![m] = x], u, ks, next)
<1> DEFINE h == [g EXCEPT ![m] = x]
<1>1. \A i \in Places : h[i].reg = g[i].reg /\ h[i].leaked = g[i].leaked
  BY DEF Owning
<1> HIDE DEF h
<1>2. \A i \in Places : Flagged(h, i) <=> Flagged(g, i)
  BY <1>1 DEF Flagged, Live
<1>3. Ordered(h, u, ks, next)
  BY <1>1, <1>2 DEF Ordered
<1>4. QED BY <1>3 DEF h

LEMMA OrderedMove ==
    ASSUME NEW g \in Owning, NEW u \in SUBSET Regs, NEW ks, NEW next, Ordered(g, u, ks, next),
           NEW m \in Places, g[m] = NoReg, FreeFrom(g, m + 2)
    PROVE  Ordered([g EXCEPT ![m] = g[m + 1], ![m + 1] = NoReg], u, ks, next)
<1> DEFINE h == [g EXCEPT ![m] = g[m + 1], ![m + 1] = NoReg]
           From(i) == IF i = m THEN m + 1 ELSE i
<1>1. m + 1 \in Places /\ m + 1 # m
  BY DEF Places
<1>2. /\ h[m] = g[m + 1] /\ h[m + 1] = NoReg
      /\ \A i \in Places : i # m /\ i # m + 1 => h[i] = g[i]
  BY <1>1 DEF Owning
<1> HIDE DEF h
<1>3. \A i \in Places : (Flagged(h, i) \/ h[i].leaked) =>
        /\ From(i) \in Places /\ h[i] = g[From(i)] /\ i # m + 1
        /\ (Flagged(h, i) <=> Flagged(g, From(i)))
  BY <1>1, <1>2, NoRegIsGPReg DEF Flagged, Live
<1>4. \A i, j \in Places : i # m + 1 /\ j # m + 1 /\ From(i) = From(j) => i = j
  OBVIOUS
<1>5. \A i, j \in Places : i # m + 1 /\ j # m + 1 /\ i < j => From(i) < From(j)
  BY DEF Places
<1>6. \A i, j \in Places : h[i].leaked /\ h[j].leaked /\ h[i].reg = h[j].reg => i = j
  BY <1>3, <1>4 DEF Ordered
<1>7. \A j \in Places : h[j].leaked => h[j].reg < next
  BY <1>3 DEF Ordered
<1>8. ASSUME "postfix" \notin ks, NEW i \in Places, NEW j \in Places, i < j, Flagged(h, i), Flagged(h, j)
      PROVE  h[i].reg < h[j].reg
  BY <1>3, <1>5, <1>8 DEF Ordered
<1>9. Ordered(h, u, ks, next)
  BY <1>6, <1>7, <1>8 DEF Ordered
<1>10. QED BY <1>9 DEF h

-----------------------------------------------------------------------------
(* Where the words of the active calls are.                                *)

LEMMA ZoneFacts ==
    ASSUME StackInv, NEW i \in 1 .. Len(calls)
    PROVE  /\ calls[i] \in CallRecord /\ i \in Places /\ calls # << >>
           /\ After(calls[i]) \in Nat /\ Depth(calls) \in Nat /\ Len(stk) \in Nat
           /\ After(calls[i]) <= Depth(calls) /\ Depth(calls) <= Len(stk)
           /\ i < Len(calls) => After(calls[i]) <= Top.depth
<1> DEFINE n == Len(calls)
<1>1. calls \in Seq(CallRecord) /\ stk \in Seq(Nat) /\ res \in GPReg
  BY DEF StackInv, TypeOK
<1>2. calls[i] \in CallRecord /\ i \in Places /\ calls # << >>
  BY <1>1, ElementOfSeq, EmptySeq DEF Places
<1>3. n \in 1 .. n /\ n \in Nat /\ Top = calls[n] /\ Top \in CallRecord /\ Depth(calls) = After(Top)
  BY <1>2, TopFacts
<1>4. After(calls[i]) \in Nat /\ Depth(calls) \in Nat /\ Len(stk) \in Nat
  <2>1. After(calls[i]) \in Nat
    BY ONLY <1>2, AfterIsNat
  <2>2. Depth(calls) \in Nat
    BY ONLY <1>1, DepthIsNat
  <2>3. Len(stk) \in Nat
    BY ONLY <1>1, LenProperties
  <2>4. QED BY <2>1, <2>2, <2>3
<1>5. i < n => After(calls[i]) <= Top.depth
  BY <1>3 DEF StackInv, DepthsExact
<1>6. Top.depth \in Nat /\ Top.depth <= After(Top)
  <2>1. /\ Top.depth \in Nat /\ LeakWord(Top.own) \in Nat /\ CxWord(Top) \in Nat
        /\ ArgsStackSpace(Top.sizes) \in Nat
        /\ Top.depth + LeakWord(Top.own) + CxWord(Top) + ArgsStackSpace(Top.sizes) = After(Top)
    BY <1>3, AfterIsNat
  <2>2. QED BY <2>1
<1>7. After(calls[i]) <= Depth(calls)
  <2>1. CASE i < n
    BY <2>1, <1>3, <1>4, <1>5, <1>6
  <2>2. CASE ~(i < n)
    BY <2>2, <1>3, <1>4
  <2>3. QED BY <2>1, <2>2
<1>8. Depth(calls) <= Len(stk)
  <2>1. LeakWord(res) \in Nat
    BY ExprGenAssumption DEF LeakWord
  <2>2. QED BY <2>1, <1>4 DEF StackInv
<1>9. QED BY <1>2, <1>4, <1>5, <1>7, <1>8

\* The word of a leak is below what its call has put on the stack.
LEMMA SlotFacts ==
    ASSUME StackInv, NEW j \in Places, Owners[j].leaked
    PROVE  /\ SlotAt(calls, j) \in Nat
           /\ j <= Len(calls) + 1
           /\ SlotAt(calls, j) + Word <= Len(stk)
           /\ j \in 1 .. Len(calls) => SlotAt(calls, j) + Word <= After(calls[j])
           /\ j = Len(calls) + 1 => SlotAt(calls, j) + Word = Len(stk)
<1> DEFINE n == Len(calls)
<1>1. n \in Nat /\ FreeFrom(Owners, n + 2) /\ Owners[n + 1] = res
  BY TopFacts
<1>2. j <= n + 1
  <2>1. j >= n + 2 \/ j <= n + 1
    BY <1>1 DEF Places
  <2>2. QED BY <2>1, <1>1, NoRegIsGPReg DEF FreeFrom
<1>3. Word \in Nat /\ Len(stk) \in Nat
  BY ExprGenAssumption DEF StackInv, TypeOK
<1>4. CASE j \in 1 .. n
  <2>1. /\ calls[j] \in CallRecord /\ After(calls[j]) <= Len(stk) /\ After(calls[j]) \in Nat
    BY <1>4, <1>3, ZoneFacts
  <2>2. calls \in Seq(CallRecord) /\ res \in GPReg
    BY DEF StackInv, TypeOK
  <2>3. Owners[j] = calls[j].own
    BY <1>4, <2>2, OwnersType DEF Owners
  <2>4. LeakWord(calls[j].own) = Word
    BY <2>3 DEF LeakWord
  <2>5. /\ calls[j].depth \in Nat /\ CxWord(calls[j]) \in Nat /\ ArgsStackSpace(calls[j].sizes) \in Nat
        /\ calls[j].depth + LeakWord(calls[j].own) + CxWord(calls[j])
             + ArgsStackSpace(calls[j].sizes) = After(calls[j])
    BY <2>1, AfterIsNat
  <2>6. SlotAt(calls, j) = calls[j].depth /\ j # n + 1
    BY <1>1, <1>4 DEF SlotAt
  <2>7. calls[j].depth + Word <= After(calls[j])
    BY <2>4, <2>5, <1>3
  <2>8. calls[j].depth + Word <= Len(stk)
    BY <2>1, <2>5, <2>7, <1>3
  <2>9. QED BY <2>5, <2>6, <2>7, <2>8, <1>2
<1>5. CASE j = n + 1
  <2>1. LeakWord(res) = Word /\ j \notin 1 .. n
    BY <1>1, <1>5 DEF LeakWord
  <2>2. SlotAt(calls, j) = Depth(calls) /\ Depth(calls) \in Nat
    BY <2>1, DepthIsNat DEF SlotAt, StackInv, TypeOK
  <2>3. QED BY <2>1, <2>2, <1>2, <1>3 DEF StackInv
<1>6. QED BY <1>1, <1>2, <1>4, <1>5 DEF Places

\* The round robin of the leaks has not come round.
LEMMA AllocOrdered ==
    ASSUME ValueInv, Covered, AllocReg, NEW v \in Nat, NEW m \in Places, FreeFrom(Owners, m)
    PROVE  /\ nextLeak' = leaks'
           /\ Ordered([Owners EXCEPT ![m] = Fresh(v)], used \cup {Fresh(v).reg}, kinds, nextLeak')
<1> DEFINE x == Fresh(v)
<1>1. /\ StackInv /\ TypeOK /\ PoolOK(Owners, used, kinds) /\ Ordered(Owners, used, kinds, nextLeak)
      /\ nextLeak = leaks /\ used \in SUBSET Regs /\ nextLeak \in Regs /\ leaks \in 0 .. MaxLeaks
  BY DEF ValueInv, StackInv, TypeOK
<1>2. Owners \in Owning
  BY <1>1, TopFacts
<1>3. /\ x \in GPReg /\ x.reg \in Regs
      /\ x.leaked = MustLeak(used)
      /\ x.leaked => used = Regs
      /\ ~x.leaked => x.reg \notin used
  BY <1>1, AllocFacts
<1>4. x.reg = AllocIdx(used, nextLeak)
  BY DEF Fresh
<1>5. nextLeak \in Nat /\ NRegs \in Nat \ {0} /\ MaxLeaks \in Nat
  BY <1>1, NRegsAssumption, ExprGenAssumption DEF Regs
<1>6. MustLeak(used) => nextLeak' = nextLeak + 1 /\ leaks' = leaks + 1 /\ x.reg = nextLeak
  <2>1. ASSUME MustLeak(used) PROVE (nextLeak + 1) % NRegs = nextLeak + 1
    <3>1. leaks < MaxLeaks
      BY <2>1 DEF AllocReg
    <3>2. nextLeak + 1 \in Nat /\ nextLeak + 1 < NRegs
      BY <3>1, <1>1, <1>5 DEF Covered
    <3>3. QED BY <3>2, <1>5
  <2>2. QED BY <2>1, <1>4 DEF AllocReg, NextToLeak, AllocIdx
<1>7. ~MustLeak(used) => nextLeak' = nextLeak /\ leaks' = leaks
  BY DEF AllocReg, NextToLeak
<1>8. ~MustLeak(used) => \A s \in Regs : s \notin used => x.reg <= s
  BY <1>1, <1>4, UnusedRegIsLeast DEF Unused
<1>9. MustLeak(used) \in BOOLEAN
  BY DEF MustLeak
<1>10. nextLeak' \in Nat /\ nextLeak' = leaks'
  BY <1>1, <1>5, <1>6, <1>7, <1>9
<1>11. /\ ~x.leaked => x.reg \notin used /\ nextLeak' = nextLeak
                       /\ \A s \in Regs : s \notin used => x.reg <= s
       /\ x.leaked => used = Regs /\ x.reg = nextLeak /\ nextLeak' = nextLeak + 1
  BY <1>3, <1>6, <1>7, <1>8
<1> HIDE DEF x
<1>12. Ordered([Owners EXCEPT ![m] = x], used \cup {x.reg}, kinds, nextLeak')
  BY <1>1, <1>2, <1>3, <1>5, <1>10, <1>11, OrderedAdd
<1>13. QED BY <1>10, <1>12 DEF x

-----------------------------------------------------------------------------
(* The actions, one by one.                                                *)

LEMMA ValueFacts ==
    ASSUME ValueInv
    PROVE  /\ StackInv /\ TypeOK /\ PoolOK(Owners, used, kinds)
           /\ Ordered(Owners, used, kinds, nextLeak)
           /\ calls \in Seq(CallRecord) /\ used \in SUBSET Regs /\ res \in GPReg
           /\ regs \in [Regs -> Nat] /\ stk \in Seq(Nat) /\ Len(stk) \in Nat /\ nodes \in Nat
           /\ AX \in Regs /\ CX \in Regs /\ AX # CX /\ Owners \in Owning
           /\ Word \in Nat \ {0}
           /\ res = NoReg => Len(stk) = Depth(calls)
<1>1. AX \in Regs /\ CX \in Regs /\ AX # CX /\ Word \in Nat \ {0}
  BY ExprGenAssumption, NRegsAssumption DEF AX, CX, Regs
<1>2. StackInv /\ Owners \in Owning
  BY TopFacts DEF ValueInv
<1>3. Depth(calls) \in Nat
  BY <1>2, DepthIsNat DEF StackInv, TypeOK
<1>4. res = NoReg => Len(stk) = Depth(calls)
  BY <1>2, <1>3, NoRegIsGPReg DEF StackInv, LeakWord
<1>5. QED BY <1>1, <1>2, <1>4 DEF ValueInv, StackInv, TypeOK

\* A register is handed out for the place after the active calls: cs are the
\* active calls after the step, w is loaded into the register, and t is the
\* stack after further pushes.
LEMMA ValueAlloc ==
    ASSUME ValueInv, Covered, AllocReg, res = NoReg, NEW v \in Nat, NEW w, NEW cs, NEW t,
           NEW h, h = [Owners EXCEPT ![Len(calls) + 1] = Fresh(v)],
           \A q \in Places : q <= Len(calls) =>
             (IsCallAt(calls, q) <=> IsCallAt(cs, q)) /\ SlotAt(calls, q) = SlotAt(cs, q),
           SlotAt(cs, Len(calls) + 1) = Len(stk),
           SameBelow(FreshStk, t, Len(FreshStk)),
           Right(h, cs, Len(calls) + 1, w)
    PROVE  /\ InRegister(h, cs, [regs EXCEPT ![Fresh(v).reg] = w])
           /\ InSlot(h, cs, t)
<1> DEFINE n == Len(calls)
           g == Owners
           x == Fresh(v)
           rg == [regs EXCEPT ![x.reg] = w]
<1>1. /\ StackInv /\ TypeOK /\ PoolOK(g, used, kinds) /\ Ordered(g, used, kinds, nextLeak)
      /\ g \in Owning /\ used \in SUBSET Regs /\ regs \in [Regs -> Nat]
      /\ Len(stk) \in Nat /\ Word \in Nat \ {0}
  BY ValueFacts
<1>2. n \in Nat /\ n + 1 \in Places /\ FreeFrom(g, n + 1)
  BY <1>1, TopFacts
<1>3. /\ x \in GPReg /\ x.reg \in Regs
      /\ ~x.leaked => x.reg \notin used
      /\ x.leaked => used = Regs /\ "postfix" \notin kinds
      /\ Len(FreshStk) = Len(stk) + LeakWord(x)
      /\ SameBelow(stk, FreshStk, Len(stk))
      /\ x.leaked => \A k \in WordOf(Len(stk)) : FreshStk[k] = regs[x.reg]
      /\ used \cup {x.reg} \in SUBSET Regs
  BY <1>1, AllocFacts
<1>4. Ordered(h, used \cup {x.reg}, kinds, nextLeak')
  BY <1>2, AllocOrdered
<1> HIDE DEF x
<1>5. PoolOK(h, used \cup {x.reg}, kinds)
  BY <1>1, <1>2, <1>3, PoolAdd DEF x
<1>6. h \in Owning /\ h[n + 1] = x /\ \A i \in Places : i # n + 1 => h[i] = g[i]
  BY <1>1, <1>2, <1>3 DEF Owning, x
<1>7. \A i \in Places : (Live(g, i) => i <= n) /\ (Live(h, i) => i <= n + 1) /\ (i <= n => i # n + 1)
  <2>1. \A i \in Places : i <= n \/ i >= n + 1
    BY <1>2 DEF Places
  <2>2. \A i \in Places : i >= n + 1 => g[i] = NoReg
    BY <1>2 DEF FreeFrom
  <2>3. \A i \in Places : i <= n => i # n + 1 /\ i <= n + 1
    BY <1>2 DEF Places
  <2>4. QED BY <2>1, <2>2, <2>3, <1>2, <1>6, NoRegIsGPReg DEF Live
<1>8. SameBelow(stk, t, Len(stk))
  <2>1. \A k \in 1 .. Len(stk) : k \in 1 .. Len(FreshStk)
    BY <1>1, <1>3 DEF LeakWord
  <2>2. QED BY <2>1, <1>3 DEF SameBelow
<1>9. \A i, j \in Places : j <= n /\ Takes(h, j, i) => i <= n /\ Takes(g, j, i)
  <2> SUFFICES ASSUME NEW i \in Places, NEW j \in Places, j <= n, Takes(h, j, i)
               PROVE  i <= n /\ Takes(g, j, i)
    OBVIOUS
  <2>1. i <= n
    BY <1>2 DEF Takes, Places
  <2>2. QED BY <2>1, <1>6, <1>7 DEF Takes, Live
<1>10. \A i, j \in Places : i <= n /\ Takes(g, j, i) => j <= n /\ Takes(h, j, i)
  BY <1>6, <1>7 DEF Takes, Live
<1>11. ASSUME NEW i \in Places, i <= n, NEW z, Right(g, calls, i, z) PROVE Right(h, cs, i, z)
  <2>1. \A q \in Places : q <= i => q <= n
    BY <1>2, <1>11 DEF Places
  <2>2. \A q \in Places : q <= i => g[q] = h[q] /\ (IsCallAt(calls, q) <=> IsCallAt(cs, q))
    BY <2>1, <1>6, <1>7
  <2>3. QED BY <2>2, <1>11, RightSame
<1>12. InRegister(h, cs, rg)
  <2> SUFFICES ASSUME NEW i \in Places, Live(h, i), Untaken(h, i)
               PROVE  Right(h, cs, i, rg[h[i].reg])
    BY DEF InRegister
  <2>1. CASE i = n + 1
    <3>1. rg[h[i].reg] = w
      BY <2>1, <1>1, <1>3, <1>6
    <3>2. QED BY <2>1, <3>1
  <2>2. CASE i # n + 1
    <3>1. i <= n /\ h[i] = g[i] /\ Live(g, i) /\ i < n + 1
      BY <2>2, <1>2, <1>6, <1>7 DEF Live, Places
    <3>2. h[i].reg # x.reg
      BY <3>1, <1>2, <1>3, <1>6 DEF Untaken, Takes, Live
    <3>3. Untaken(g, i)
      BY <3>1, <1>10 DEF Untaken
    <3>4. Right(g, calls, i, regs[g[i].reg])
      BY <3>1, <3>3 DEF ValueInv, InRegister
    <3>5. rg[h[i].reg] = regs[g[i].reg]
      BY <3>1, <3>2, <1>1 DEF Live
    <3>6. QED BY <3>1, <3>4, <3>5, <1>11
  <2>3. QED BY <2>1, <2>2
<1>13. InSlot(h, cs, t)
  <2> SUFFICES ASSUME NEW i \in Places, NEW j \in Places, Live(h, i), Takes(h, j, i),
                      NEW k \in WordOf(SlotAt(cs, j))
               PROVE  Right(h, cs, i, t[k])
    BY DEF InSlot
  <2>1. j <= n + 1 /\ (j <= n \/ j = n + 1)
    <3>1. Live(h, j)
      BY DEF Takes
    <3>2. j <= n + 1
      BY <3>1, <1>7
    <3>3. QED BY <3>2, <1>2 DEF Places
  <2>2. CASE j <= n
    <3>1. i <= n /\ Takes(g, j, i) /\ Live(g, i)
      BY <2>2, <1>6, <1>7, <1>9 DEF Live
    <3>2. g[j].leaked
      BY <3>1, <1>1, TakerFacts
    <3>3. SlotAt(calls, j) \in Nat /\ SlotAt(calls, j) + Word <= Len(stk)
      BY <3>2, <1>1, SlotFacts
    <3>4. k \in WordOf(SlotAt(calls, j))
      BY <2>2
    <3>5. Right(g, calls, i, stk[k])
      BY <3>1, <3>4 DEF ValueInv, InSlot
    <3>6. k \in 1 .. Len(stk)
      BY <3>3, <3>4, <1>1 DEF WordOf
    <3>7. t[k] = stk[k]
      BY <3>6, <1>8 DEF SameBelow
    <3>8. QED BY <3>1, <3>5, <3>7, <1>11
  <2>3. CASE j = n + 1
    <3>1. /\ x.leaked /\ \A q \in Places : Takes(h, q, i) => q = n + 1
      <4> DEFINE u == used \cup {x.reg}
      <4>1. u \in SUBSET Regs /\ PoolOK(h, u, kinds) /\ Ordered(h, u, kinds, nextLeak') /\ h \in Owning
        BY <1>3, <1>4, <1>5, <1>6
      <4> HIDE DEF u
      <4>2. h[j].leaked /\ \A q \in Places : Takes(h, q, i) => q = j
        BY <4>1, TakerFacts, Zenon
      <4>3. QED BY <4>2, <2>3, <1>6
    <3>2. i <= n /\ h[i] = g[i] /\ Live(g, i) /\ g[i].reg = x.reg
      BY <2>3, <1>2, <1>6 DEF Takes, Live, Places
    <3>3. Untaken(g, i)
      BY <3>1, <3>2, <1>7, <1>10 DEF Untaken
    <3>4. Right(g, calls, i, regs[x.reg])
      BY <3>2, <3>3 DEF ValueInv, InRegister
    <3>5. k \in WordOf(Len(stk)) /\ Len(FreshStk) = Len(stk) + Word
      BY <2>3, <3>1, <1>3 DEF LeakWord
    <3>6. t[k] = FreshStk[k] /\ FreshStk[k] = regs[x.reg]
      <4>1. k \in 1 .. Len(FreshStk)
        BY <3>5, <1>1 DEF WordOf
      <4>2. QED BY <4>1, <3>1, <3>5, <1>3 DEF SameBelow
    <3>7. QED BY <3>2, <3>4, <3>6, <1>11
  <2>4. QED BY <2>1, <2>2, <2>3
<1>14. QED BY <1>12, <1>13 DEF x

LEMMA ValueEnterLeaf ==
    ASSUME ValueInv, Covered, EnterLeaf
    PROVE  ValueInv'
<1> DEFINE x == Fresh(nodes + 1)
           n == Len(calls)
           h == [Owners EXCEPT ![n + 1] = x]
<1>1. /\ StackInv /\ TypeOK /\ calls \in Seq(CallRecord) /\ nodes + 1 \in Nat /\ res \in GPReg
      /\ Len(stk) \in Nat /\ regs \in [Regs -> Nat] /\ Owners \in Owning
      /\ res = NoReg => Len(stk) = Depth(calls)
  BY ValueFacts
<1>2. /\ AllocReg /\ regs' = [regs EXCEPT ![x.reg] = x.val]
      /\ stk' = FreshStk /\ used' = used \cup {x.reg} /\ res' = x
      /\ calls' = calls /\ res = NoReg
  BY DEF EnterLeaf, CanEnter
<1>3. StackInv'
  BY <1>1, StackEnterLeaf
<1>4. /\ x \in GPReg /\ x.val = nodes + 1 /\ Len(FreshStk) = Len(stk) + LeakWord(x)
      /\ SameBelow(stk, FreshStk, Len(stk)) /\ kinds' = kinds
  BY <1>1, <1>2, AllocFacts
<1>5. n \in Nat /\ n + 1 \in Places /\ FreeFrom(Owners, n + 1)
  BY <1>1, <1>2, TopFacts
<1>6. Owners' = h
  BY <1>1, <1>2, <1>4, NoRegIsGPReg, OwnersResult DEF Owners
<1>7. nextLeak' = leaks' /\ Ordered(h, used', kinds', nextLeak')
  BY <1>1, <1>2, <1>4, <1>5, AllocOrdered
<1>8. h[n + 1] = x /\ \A i \in Places : i # n + 1 => h[i] = Owners[i]
  BY <1>1, <1>4, <1>5 DEF Owning
<1>9. n + 1 \notin 1 .. n
  BY <1>5
<1> HIDE DEF x, h
<1>10. Right(h, calls, n + 1, x.val)
  BY <1>8, <1>9 DEF Right, IsCallAt
<1>11. SlotAt(calls, n + 1) = Len(stk)
  BY <1>1, <1>2, <1>9 DEF SlotAt
<1>12. SameBelow(FreshStk, FreshStk, Len(FreshStk))
  BY DEF SameBelow
<1>13. InRegister(h, calls, [regs EXCEPT ![x.reg] = x.val]) /\ InSlot(h, calls, FreshStk)
  BY <1>1, <1>2, <1>10, <1>11, <1>12, ValueAlloc DEF h, x
<1>14. Stored(h, calls, FreshStk)
  <2> SUFFICES ASSUME NEW i \in 1 .. n
               PROVE  CxStored(calls[i], h, i, FreshStk) /\ ArgsStored(calls[i], FreshStk)
    BY DEF Stored
  <2>1. /\ calls[i] \in CallRecord /\ i \in Places /\ After(calls[i]) \in Nat
        /\ After(calls[i]) <= Len(stk)
    BY <1>1, ZoneFacts
  <2>2. SameBelow(stk, FreshStk, After(calls[i]))
    BY <2>1, <1>1, <1>4 DEF SameBelow
  <2>3. \A q \in Places : q < i => Owners[q] = h[q]
    BY <1>5, <1>8 DEF Places
  <2>4. CxStored(calls[i], Owners, i, stk) /\ ArgsStored(calls[i], stk)
    BY DEF ValueInv, Stored
  <2>5. Len(calls[i].args) <= Len(calls[i].sizes)
    <3>1. CallOK(calls[i], kinds)
      BY <1>1 DEF StackInv, CallsOK
    <3>2. QED BY <3>1 DEF CallOK
  <2>6. QED BY <2>1, <2>2, <2>3, <2>4, <2>5, StoredSame DEF Covered
<1>15. \A i \in 1 .. n : calls[i].kind = "call" => calls[i].own.val = calls[i].id
  BY DEF ValueInv
<1>16. QED BY <1>2, <1>3, <1>6, <1>7, <1>13, <1>14, <1>15 DEF ValueInv

\* What the active calls have stored stays while only the places after them
\* and the cells above theirs change.
LEMMA StoredBelow ==
    ASSUME ValueInv, Covered, NEW i \in 1 .. Len(calls), NEW h, NEW t,
           \A q \in Places : q < i => Owners[q] = h[q],
           SameBelow(stk, t, After(calls[i]))
    PROVE  CxStored(calls[i], h, i, t) /\ ArgsStored(calls[i], t)
<1>1. StackInv
  BY DEF ValueInv
<1>2. calls[i] \in CallRecord /\ i \in Places
  BY <1>1, ZoneFacts
<1>3. CxStored(calls[i], Owners, i, stk) /\ ArgsStored(calls[i], stk)
  BY DEF ValueInv, Stored
<1>4. Len(calls[i].args) <= Len(calls[i].sizes)
  <2>1. CallOK(calls[i], kinds)
    BY <1>1 DEF StackInv, CallsOK
  <2>2. QED BY <2>1 DEF CallOK
<1>5. QED BY <1>2, <1>3, <1>4, StoredSame DEF Covered

LEMMA ValueEnterOp ==
    ASSUME ValueInv, Covered, NEW k \in AllKinds, EnterOp(k)
    PROVE  ValueInv'
<1> DEFINE c == NewCall(k)
           n == Len(calls)
           g == Owners
<1>1. /\ StackInv /\ TypeOK /\ calls \in Seq(CallRecord) /\ res \in GPReg
      /\ Len(stk) \in Nat /\ g \in Owning
      /\ res = NoReg => Len(stk) = Depth(calls)
  BY ValueFacts
<1>2. /\ k # "call" /\ UNCHANGED <<pool, regs, stk, res, ctx>> /\ res = NoReg
      /\ calls' = Append(calls, c)
  BY DEF EnterOp, CanEnter
<1>3. c \in CallRecord /\ c.kind = k /\ c.own = NoReg /\ c.depth = Len(stk) /\ c.cx = FALSE /\ c.args = << >>
  BY <1>1, NewCallFacts
<1> HIDE DEF c
<1>4. StackInv'
  BY <1>1, StackEnterOp
<1>5. /\ Len(calls') = n + 1 /\ calls'[n + 1] = c /\ \A i \in 1 .. n : calls'[i] = calls[i]
  BY <1>1, <1>2, <1>3, AppendProperties
<1>6. n \in Nat /\ n + 1 \in Places /\ FreeFrom(g, n + 1)
  BY <1>1, <1>2, TopFacts
<1>7. Owners' = g
  <2>1. OwnersOf(Append(calls, c), NoReg) = [OwnersOf(calls, NoReg) EXCEPT ![n + 1] = NoReg]
    BY <1>1, <1>3, OwnersEnter
  <2>2. Owners' = [g EXCEPT ![n + 1] = NoReg]
    BY <2>1, <1>2 DEF Owners
  <2>3. g[n + 1] = NoReg
    BY <1>6 DEF FreeFrom
  <2>4. QED BY <2>2, <2>3, <1>1 DEF Owning
<1>8. \A q \in Places : IsCallAt(calls, q) <=> IsCallAt(calls', q)
  <2>1. \A q \in Places : q \in 1 .. n + 1 <=> q \in 1 .. n \/ q = n + 1
    BY <1>6
  <2>2. n + 1 \notin 1 .. n
    BY <1>6
  <2>3. QED BY <2>1, <2>2, <1>2, <1>3, <1>5 DEF IsCallAt
<1>9. \A i \in Places : Live(g, i) => i <= n
  <2>1. \A i \in Places : i <= n \/ i >= n + 1
    BY <1>6 DEF Places
  <2>2. QED BY <2>1, <1>6, NoRegIsGPReg DEF FreeFrom, Live
<1>10. \A i \in Places : \A v : Right(g, calls, i, v) => Right(g, calls', i, v)
  BY <1>8, RightSame
<1>11. InRegister(Owners, calls, regs)'
  <2>1. InRegister(g, calls', regs)
    BY <1>10 DEF ValueInv, InRegister
  <2>2. QED BY <2>1, <1>2, <1>7
<1>12. InSlot(Owners, calls, stk)'
  <2>1. \A j \in Places : Live(g, j) => SlotAt(calls', j) = SlotAt(calls, j)
    <3>1. \A j \in Places : j <= n => j \in 1 .. n /\ j \in 1 .. n + 1
      BY <1>6 DEF Places
    <3>2. QED BY <3>1, <1>5, <1>9 DEF SlotAt
  <2>2. InSlot(g, calls', stk)
    <3> SUFFICES ASSUME NEW i \in Places, NEW j \in Places, Live(g, i), Takes(g, j, i),
                        NEW kk \in WordOf(SlotAt(calls', j))
                 PROVE  Right(g, calls', i, stk[kk])
      BY DEF InSlot
    <3>1. SlotAt(calls', j) = SlotAt(calls, j)
      BY <2>1 DEF Takes
    <3>2. QED BY <3>1, <1>10 DEF ValueInv, InSlot
  <2>3. QED BY <2>2, <1>2, <1>7
<1>13. \A i \in 1 .. n + 1 : i \in 1 .. n \/ i = n + 1
  BY <1>6
<1>14. Stored(Owners, calls, stk)'
  <2>1. ASSUME NEW i \in 1 .. n PROVE CxStored(calls[i], g, i, stk) /\ ArgsStored(calls[i], stk)
    BY DEF ValueInv, Stored
  <2>2. CxStored(c, g, n + 1, stk) /\ ArgsStored(c, stk)
    BY <1>3 DEF CxStored, ArgsStored
  <2>3. \A i \in 1 .. n + 1 : CxStored(calls'[i], g, i, stk) /\ ArgsStored(calls'[i], stk)
    BY <2>1, <2>2, <1>5, <1>13
  <2>4. QED BY <2>3, <1>2, <1>5, <1>7 DEF Stored
<1>15. \A i \in 1 .. n + 1 : calls'[i].kind = "call" => calls'[i].own.val = calls'[i].id
  BY <1>2, <1>3, <1>5, <1>13 DEF ValueInv
<1>16. nextLeak' = leaks' /\ Ordered(Owners, used, kinds, nextLeak)'
  BY <1>2, <1>7 DEF ValueInv, pool
<1>17. QED BY <1>4, <1>5, <1>11, <1>12, <1>14, <1>15, <1>16 DEF ValueInv

LEMMA ValueEnterCall ==
    ASSUME ValueInv, Covered, NEW sizes \in SeqOf(ArgSizes, MaxArgs), EnterCall(sizes)
    PROVE  ValueInv'
<1> DEFINE x == Fresh(nodes + 1)
           cx == CX \in used \cup {x.reg}
           saved == IF cx THEN Push(FreshStk, regs[CX]) ELSE FreshStk
           c == [NewCall("call") EXCEPT !.own = x, !.cx = cx, !.sizes = sizes]
           n == Len(calls)
           g == Owners
           h == [g EXCEPT ![n + 1] = x]
           cs == Append(calls, c)
           t == saved \o Cells(ArgsStackSpace(sizes), Junk)
<1>1. /\ StackInv /\ TypeOK /\ calls \in Seq(CallRecord) /\ res \in GPReg /\ nodes + 1 \in Nat
      /\ Len(stk) \in Nat /\ g \in Owning /\ regs \in [Regs -> Nat] /\ AX \in Regs /\ CX \in Regs
      /\ Word \in Nat \ {0}
      /\ sizes \in Seq(ArgSizes)
      /\ res = NoReg => Len(stk) = Depth(calls)
  <2>1. sizes \in Seq(ArgSizes)
    BY DEF SeqOf
  <2>2. QED BY <2>1, ValueFacts
<1>2. /\ res = NoReg /\ AllocReg /\ x.reg \in CallRegs
      /\ regs' = (IF x.reg # AX THEN [regs EXCEPT ![x.reg] = regs[AX]] ELSE regs)
      /\ stk' = t /\ used' = used \cup {x.reg} /\ calls' = cs /\ res' = res
  BY DEF EnterCall, CanEnter
<1>3. StackInv'
  BY <1>1, StackEnterCall
<1>4. /\ x \in GPReg /\ x.reg \in Regs /\ x.val = nodes + 1
      /\ FreshStk \in Seq(Nat) /\ Len(FreshStk) = Len(stk) + LeakWord(x)
      /\ SameBelow(stk, FreshStk, Len(stk)) /\ kinds' = kinds
  BY <1>1, <1>2, AllocFacts
<1>5. /\ c \in CallRecord /\ c.kind = "call" /\ c.own = x /\ c.depth = Len(stk)
      /\ c.cx = cx /\ c.args = << >> /\ c.id = nodes + 1
  <2> DEFINE d == NewCall("call")
  <2>1. /\ d \in CallRecord /\ d.kind = "call"
        /\ d.depth = Len(stk) /\ d.args = << >> /\ d.id = nodes + 1
    BY <1>1, NewCallFacts DEF AllKinds
  <2>5. cx \in BOOLEAN
    OBVIOUS
  <2>2. PICK b \in BOOLEAN : b = cx
    BY <2>5, Zenon
  <2>3. c = [d EXCEPT !.own = x, !.cx = b, !.sizes = sizes]
    BY <2>2
  <2> HIDE DEF c, d, x, cx, saved
  <2>4. /\ c \in CallRecord /\ c.own = x /\ c.cx = b /\ c.id = d.id
        /\ c.kind = d.kind /\ c.depth = d.depth /\ c.args = d.args
    BY <2>1, <2>3, <1>1, <1>4 DEF CallRecord
  <2>6. QED BY <2>1, <2>2, <2>4
<1> HIDE DEF c
<1>6. Len(cs) = n + 1 /\ cs[n + 1] = c /\ \A i \in 1 .. n : cs[i] = calls[i]
  BY <1>1, <1>5, AppendProperties
<1>7. n \in Nat /\ n + 1 \in Places /\ FreeFrom(g, n + 1)
  BY <1>1, <1>2, TopFacts
<1>8. Owners' = h
  BY <1>1, <1>2, <1>5, OwnersEnter DEF Owners
<1>9. nextLeak' = leaks' /\ Ordered(h, used', kinds', nextLeak')
  BY <1>1, <1>2, <1>4, <1>7, AllocOrdered
<1>10. h[n + 1] = x /\ \A i \in Places : i # n + 1 => h[i] = g[i]
  BY <1>1, <1>4, <1>7 DEF Owning
<1>11. /\ FreshStk \in Seq(Nat) /\ SameBelow(FreshStk, t, Len(FreshStk))
       /\ cx => \A k \in WordOf(Len(FreshStk)) : t[k] = regs[CX]
  <2>1. regs[CX] \in Nat /\ ArgsStackSpace(sizes) \in Nat /\ Junk \in Nat
    BY <1>1, SpaceIsNat DEF Junk
  <2>2. /\ Push(FreshStk, regs[CX]) \in Seq(Nat)
        /\ Len(Push(FreshStk, regs[CX])) = Len(FreshStk) + Word
        /\ SameBelow(FreshStk, Push(FreshStk, regs[CX]), Len(FreshStk))
        /\ \A k \in WordOf(Len(FreshStk)) : Push(FreshStk, regs[CX])[k] = regs[CX]
    BY <2>1, <1>4, PushFacts
  <2>3. /\ saved \in Seq(Nat) /\ Len(saved) >= Len(FreshStk) /\ SameBelow(FreshStk, saved, Len(FreshStk))
        /\ cx => Len(saved) = Len(FreshStk) + Word
                 /\ \A k \in WordOf(Len(FreshStk)) : saved[k] = regs[CX]
    <3>1. Len(FreshStk) \in Nat
      BY <1>4
    <3>2. CASE cx
      BY <2>2, <3>1, <3>2, <1>1
    <3>3. CASE ~cx
      BY <3>1, <3>3, <1>4 DEF SameBelow
    <3>4. QED BY <3>2, <3>3
  <2> HIDE DEF saved, cx
  <2>4. SameBelow(saved, t, Len(saved))
    BY <2>1, <2>3, GrowFacts
  <2>5. Len(saved) \in Nat /\ Len(FreshStk) \in Nat
    BY <2>3, <1>4
  <2> HIDE DEF t
  <2>6. SameBelow(FreshStk, t, Len(FreshStk))
    BY <2>3, <2>4, <2>5 DEF SameBelow
  <2>7. ASSUME cx, NEW k \in WordOf(Len(FreshStk)) PROVE t[k] = regs[CX]
    <3>1. k \in 1 .. Len(saved)
      BY <2>3, <2>5, <2>7, <1>1 DEF WordOf
    <3>2. QED BY <3>1, <2>3, <2>4, <2>7 DEF SameBelow
  <2>8. QED BY <2>6, <2>7, <1>4
<1> HIDE DEF x, h, cx, cs, t
<1>12. \A q \in Places : q <= n => (IsCallAt(calls, q) <=> IsCallAt(cs, q)) /\ SlotAt(calls, q) = SlotAt(cs, q)
  <2>1. \A q \in Places : q <= n => q \in 1 .. n /\ q \in 1 .. n + 1
    BY <1>7 DEF Places
  <2>2. QED BY <2>1, <1>6 DEF IsCallAt, SlotAt
<1>13. IsCallAt(cs, n + 1) /\ SlotAt(cs, n + 1) = Len(stk)
  BY <1>5, <1>6, <1>7 DEF IsCallAt, SlotAt
\* The value of an untaken place that is not a call is in its register.
<1>14. ASSUME NEW p \in Places, Newest(h, p, n + 1)
       PROVE  /\ p <= n /\ h[p] = g[p]
              /\ ~IsCallAt(calls, p) => regs[g[p].reg] = g[p].val
  <2>1. p <= n /\ h[p] = g[p] /\ Live(g, p)
    BY <1>7, <1>10, <1>14 DEF Newest, Live, Places
  <2>2. ASSUME NEW q \in Places, Takes(g, q, p) PROVE FALSE
    <3>1. q < n + 1
      <4>1. q >= n + 1 \/ q < n + 1
        BY <1>7 DEF Places
      <4>2. QED BY <4>1, <2>2, <1>7, NoRegIsGPReg DEF Takes, Live, FreeFrom
    <3>2. q # n + 1
      BY <3>1, <1>7 DEF Places
    <3>3. Takes(h, q, p)
      BY <3>2, <2>1, <2>2, <1>10 DEF Takes, Live
    <3>4. QED BY <3>1, <3>3, <1>14 DEF Newest
  <2>3. Right(g, calls, p, regs[g[p].reg])
    BY <2>1, <2>2 DEF Untaken, ValueInv, InRegister
  <2>4. QED BY <2>1, <2>3 DEF Right
<1>15. Right(h, cs, n + 1, regs[AX])
  <2> SUFFICES ASSUME NEW p \in Places, Newest(h, p, n + 1), h[p].reg = AX, ~IsCallAt(cs, p)
               PROVE  regs[AX] = h[p].val
    BY <1>13 DEF Right
  <2>1. ~IsCallAt(calls, p)
    BY <1>12, <1>14
  <2>2. QED BY <2>1, <1>14
<1>16. InRegister(h, cs, [regs EXCEPT ![x.reg] = regs[AX]]) /\ InSlot(h, cs, t)
  BY <1>1, <1>2, <1>11, <1>12, <1>13, <1>15, ValueAlloc DEF h, x
<1>17. regs' = [regs EXCEPT ![x.reg] = regs[AX]]
  BY <1>1, <1>2, <1>4
<1>18. \A i \in 1 .. n + 1 : i \in 1 .. n \/ i = n + 1
  BY <1>7
<1>19. Stored(h, cs, t)
  <2>1. ASSUME NEW i \in 1 .. n PROVE CxStored(calls[i], h, i, t) /\ ArgsStored(calls[i], t)
    <3>1. /\ calls[i] \in CallRecord /\ i \in Places /\ After(calls[i]) \in Nat
          /\ After(calls[i]) <= Len(stk)
      BY <1>1, ZoneFacts
    <3>2. \A q \in 1 .. After(calls[i]) : q \in 1 .. Len(stk) /\ q \in 1 .. Len(FreshStk)
      <4>1. After(calls[i]) <= Len(FreshStk) /\ Len(FreshStk) \in Nat /\ Len(stk) \in Nat
        BY <3>1, <1>1, <1>4 DEF LeakWord
      <4>2. QED BY ONLY <3>1, <4>1
    <3>3. SameBelow(stk, t, After(calls[i]))
      BY <3>2, <1>4, <1>11 DEF SameBelow
    <3>4. \A q \in Places : q < i => g[q] = h[q]
      BY <1>7, <1>10 DEF Places
    <3>5. QED BY <3>3, <3>4, StoredBelow
  <2>2. CxStored(c, h, n + 1, t) /\ ArgsStored(c, t)
    <3>1. ASSUME c.cx, NEW q \in Places, Newest(h, q, n + 1), h[q].reg = CX,
                 NEW k \in WordOf(c.depth + LeakWord(c.own))
          PROVE  t[k] = h[q].val
      <4>1. ~IsCallAt(calls, q)
        <5> SUFFICES ASSUME q \in 1 .. n, calls[q].kind = "call" PROVE FALSE
          BY DEF IsCallAt
        <5>1. CallOK(calls[q], kinds)
          BY <1>1 DEF StackInv, CallsOK
        <5>2. g[q] = calls[q].own
          BY <1>1, OwnersType DEF Owners
        <5>3. calls[q].own.reg \in CallRegs
          BY <5>1 DEF CallOK
        <5>4. QED BY <5>2, <5>3, <3>1, <1>14 DEF Covered
      <4>2. regs[CX] = h[q].val
        BY <4>1, <3>1, <1>14
      <4>3. t[k] = regs[CX]
        BY <3>1, <1>4, <1>5, <1>11
      <4>4. QED BY <4>2, <4>3
    <3>2. Len(c.args) = 0
      BY <1>5
    <3>3. QED BY <3>1, <3>2 DEF CxStored, ArgsStored
  <2>3. \A i \in 1 .. n + 1 : CxStored(cs[i], h, i, t) /\ ArgsStored(cs[i], t)
    BY <2>1, <2>2, <1>6, <1>18
  <2>4. QED BY <2>3, <1>6 DEF Stored
<1>20. \A i \in 1 .. n + 1 : cs[i].kind = "call" => cs[i].own.val = cs[i].id
  BY <1>4, <1>5, <1>6, <1>18 DEF ValueInv
<1>21. QED BY <1>2, <1>3, <1>6, <1>8, <1>9, <1>16, <1>17, <1>19, <1>20 DEF ValueInv

\* An activation returns or gets its first operand: the result, with the value
\* w, goes from the place after the calls to that of the innermost call.
LEMMA ValueMove ==
    ASSUME ValueInv, calls # << >>, res # NoReg, Top.own = NoReg,
           NEW x \in GPReg, x.reg = res.reg, x.leaked = res.leaked, NEW cs,
           NEW h, h = [Owners EXCEPT ![Len(calls)] = x, ![Len(calls) + 1] = NoReg],
           \A q \in Places : q < Len(calls) =>
             (IsCallAt(calls, q) <=> IsCallAt(cs, q)) /\ SlotAt(calls, q) = SlotAt(cs, q),
           ~IsCallAt(cs, Len(calls)), SlotAt(cs, Len(calls)) = Depth(calls)
    PROVE  /\ Ordered(h, used, kinds, nextLeak)
           /\ InRegister(h, cs, [regs EXCEPT ![res.reg] = x.val])
           /\ InSlot(h, cs, stk)
<1> DEFINE n == Len(calls)
           g == Owners
           rg == [regs EXCEPT ![res.reg] = x.val]
<1>1. /\ StackInv /\ TypeOK /\ PoolOK(g, used, kinds) /\ Ordered(g, used, kinds, nextLeak)
      /\ g \in Owning /\ used \in SUBSET Regs /\ regs \in [Regs -> Nat]
  BY ValueFacts
<1>2. /\ n \in Nat \ {0} /\ n \in Places /\ n + 1 \in Places
      /\ g[n] = NoReg /\ g[n + 1] = res /\ FreeFrom(g, n + 2)
  BY <1>1, TopFacts
<1>3. res.reg \in Regs
  BY <1>1, ResultFacts
<1>4. /\ h \in Owning /\ h[n] = x /\ h[n + 1] = NoReg
      /\ \A i \in Places : i # n /\ i # n + 1 => h[i] = g[i]
  BY <1>1, <1>2, NoRegIsGPReg DEF Owning
<1>5. Ordered(h, used, kinds, nextLeak)
  <2> DEFINE k == [g EXCEPT ![n] = g[n + 1], ![n + 1] = NoReg]
  <2>1. Ordered(k, used, kinds, nextLeak)
    BY <1>1, <1>2, OrderedMove
  <2>2. k \in Owning /\ k[n] = res
    BY <1>1, <1>2, NoRegIsGPReg DEF Owning
  <2>3. h = [k EXCEPT ![n] = x]
    BY <1>1, <1>2 DEF Owning
  <2> HIDE DEF k
  <2>4. Ordered([k EXCEPT ![n] = x], used, kinds, nextLeak)
    <3>1. /\ k \in Owning /\ used \in SUBSET Regs /\ Ordered(k, used, kinds, nextLeak)
          /\ n \in Places /\ x.reg = k[n].reg /\ x.leaked = k[n].leaked
      BY <2>1, <2>2, <1>1, <1>2
    <3>2. QED BY <3>1, OrderedSame
  <2>5. QED BY <2>3, <2>4
<1>6. \A i \in Places : /\ i < n \/ i = n \/ i = n + 1 \/ i >= n + 2
                        /\ i < n => i # n /\ i # n + 1
  BY <1>2 DEF Places
<1>7. \A i \in Places : (Live(g, i) => i < n \/ i = n + 1) /\ (Live(h, i) => i < n \/ i = n)
  BY <1>2, <1>4, <1>6, NoRegIsGPReg DEF Live, FreeFrom
<1>8. ASSUME NEW i \in Places, i < n, NEW z, Right(g, calls, i, z) PROVE Right(h, cs, i, z)
  <2>1. \A q \in Places : q <= i => q < n
    BY <1>2, <1>8 DEF Places
  <2>2. \A q \in Places : q <= i => g[q] = h[q] /\ (IsCallAt(calls, q) <=> IsCallAt(cs, q))
    BY <2>1, <1>4, <1>6
  <2> HIDE DEF n, g
  <2>3. Right(g, calls, i, z)
    BY <1>8
  <2>4. QED BY ONLY i \in Places, <2>2, <2>3, RightSame
<1>9. InRegister(h, cs, rg)
  <2> SUFFICES ASSUME NEW i \in Places, Live(h, i), Untaken(h, i)
               PROVE  Right(h, cs, i, rg[h[i].reg])
    BY DEF InRegister
  <2>1. CASE i = n
    <3>1. rg[h[i].reg] = x.val
      BY <2>1, <1>1, <1>3, <1>4
    <3>2. QED BY <2>1, <3>1, <1>4 DEF Right
  <2>2. CASE i < n
    <3>1. h[i] = g[i] /\ Live(g, i)
      BY <2>2, <1>4, <1>6 DEF Live
    <3>2. h[i].reg # res.reg
      BY <2>2, <1>2, <1>3, <1>4 DEF Untaken, Takes, Live
    <3>3. Untaken(g, i)
      <4> SUFFICES ASSUME NEW q \in Places, Takes(g, q, i) PROVE FALSE
        BY DEF Untaken
      <4>1. q # n + 1
        BY <3>1, <3>2, <1>2 DEF Takes
      <4>2. q < n
        BY <4>1, <1>7 DEF Takes
      <4>3. Takes(h, q, i)
        BY <4>2, <3>1, <1>4, <1>6 DEF Takes, Live
      <4>4. QED BY <4>3 DEF Untaken
    <3>4. Right(g, calls, i, regs[g[i].reg])
      BY <3>1, <3>3 DEF ValueInv, InRegister
    <3>5. rg[h[i].reg] = regs[g[i].reg]
      BY <3>1, <3>2, <1>1 DEF Live
    <3>6. QED BY <2>2, <3>4, <3>5, <1>8
  <2>3. QED BY <2>1, <2>2, <1>7
<1>10. InSlot(h, cs, stk)
  <2> SUFFICES ASSUME NEW i \in Places, NEW j \in Places, Live(h, i), Takes(h, j, i),
                      NEW k \in WordOf(SlotAt(cs, j))
               PROVE  Right(h, cs, i, stk[k])
    BY DEF InSlot
  <2>1. i < n /\ h[i] = g[i] /\ Live(g, i) /\ i < n + 1
    <3>1. i < j /\ (j < n \/ j = n)
      BY <1>7 DEF Takes
    <3>2. i < n /\ i < n + 1
      BY <3>1, <1>2 DEF Places
    <3>3. QED BY <3>2, <1>4, <1>6 DEF Live
  <2>2. CASE j < n
    <3>1. Takes(g, j, i) /\ k \in WordOf(SlotAt(calls, j))
      BY <2>1, <2>2, <1>4, <1>6 DEF Takes, Live
    <3>2. Right(g, calls, i, stk[k])
      BY <2>1, <3>1 DEF ValueInv, InSlot
    <3>3. QED BY <2>1, <3>2, <1>8
  <2>3. CASE j = n
    <3>1. SlotAt(calls, n + 1) = Depth(calls)
      <4>1. n + 1 \notin 1 .. n
        BY <1>2
      <4>2. QED BY <4>1 DEF SlotAt
    <3>2. Takes(g, n + 1, i) /\ k \in WordOf(SlotAt(calls, n + 1))
      BY <2>1, <2>3, <3>1, <1>2, <1>3, <1>4 DEF Takes, Live
    <3>3. Right(g, calls, i, stk[k])
      BY <2>1, <3>2, <1>2 DEF ValueInv, InSlot
    <3>4. QED BY <2>1, <3>3, <1>8
  <2>4. QED BY <2>2, <2>3, <1>7 DEF Takes
<1>11. QED BY <1>5, <1>9, <1>10

\* What the calls around the innermost one have stored is below its words.
LEMMA StoredAround ==
    ASSUME ValueInv, Covered, calls # << >>, NEW h, NEW t,
           \A q \in Places : q < Len(calls) => Owners[q] = h[q],
           SameBelow(stk, t, Top.depth), NEW i \in 1 .. Len(calls), i < Len(calls)
    PROVE  CxStored(calls[i], h, i, t) /\ ArgsStored(calls[i], t)
<1>1. StackInv
  BY DEF ValueInv
<1>2. /\ Len(calls) \in Nat /\ Top \in CallRecord /\ After(calls[i]) \in Nat
      /\ After(calls[i]) <= Top.depth
  BY <1>1, TopFacts, ZoneFacts
<1>3. Top.depth \in Nat
  BY <1>2 DEF CallRecord
<1>4. SameBelow(stk, t, After(calls[i]))
  BY <1>2, <1>3 DEF SameBelow
<1>5. \A q \in Places : q < i => q < Len(calls)
  BY <1>2 DEF Places
<1>6. QED BY <1>4, <1>5, StoredBelow

\* Both operands of an operator are there: they are in different registers.
LEMMA OperandsApart ==
    ASSUME ValueInv, Covered, calls # << >>, res # NoReg, Top.own # NoReg
    PROVE  Top.own.reg # res.reg /\ Top.own.reg \in Regs
<1> DEFINE n == Len(calls)
           g == Owners
<1>1. /\ StackInv /\ TypeOK /\ PoolOK(g, used, kinds) /\ Ordered(g, used, kinds, nextLeak)
      /\ g \in Owning /\ used \in SUBSET Regs /\ nextLeak = leaks /\ leaks \in 0 .. MaxLeaks
  BY ValueFacts DEF ValueInv, TypeOK
<1>2. /\ n \in Nat \ {0} /\ n \in Places /\ n + 1 \in Places
      /\ g[n] = Top.own /\ g[n + 1] = res /\ Top \in CallRecord
  BY <1>1, TopFacts
<1>3. res.reg \in Regs /\ Live(g, n + 1)
  BY <1>1, ResultFacts
<1>4. Top.own.reg \in Regs /\ Live(g, n)
  <2>1. Top.own \in GPReg
    BY <1>2 DEF CallRecord
  <2>2. QED BY <2>1, <1>2, HeldFacts DEF Live
<1>5. n < n + 1 /\ n # n + 1
  BY <1>2
<1>6. ASSUME Top.own.reg = res.reg PROVE FALSE
  <2>1. Takes(g, n + 1, n)
    BY <1>2, <1>3, <1>5, <1>6 DEF Takes
  <2>2. res.leaked /\ Flagged(g, n)
    BY <2>1, <1>1, <1>2, <1>4, TakerFacts DEF Flagged
  <2>3. Regs = 0 .. NRegs - 1 /\ NRegs \in Nat \ {0} /\ MaxLeaks \in Nat
    BY NRegsAssumption, ExprGenAssumption DEF Regs
  <2>4. PICK e \in Places : e < n + 1 /\ Flagged(g, e) /\ g[e].reg = NRegs - 1
    BY <2>2, <2>3, <1>1, <1>2 DEF PoolOK, LeakedLast
  <2>5. "postfix" \notin kinds
    BY <2>2, <1>1, <1>2 DEF PoolOK, LeakedLast
  <2>6. e < n \/ e = n
    BY <2>4, <1>2 DEF Places
  <2>7. ~(e < n)
    <3>1. e < n => g[e].reg < g[n].reg
      BY <2>2, <2>4, <2>5, <1>1, <1>2 DEF Ordered
    <3>2. QED BY <3>1, <2>3, <2>4, <1>2, <1>4
  <2>8. res.reg = NRegs - 1
    BY <2>4, <2>6, <2>7, <1>2, <1>6
  <2>9. res.reg < nextLeak
    BY <2>2, <1>1, <1>2 DEF Ordered
  <2>10. QED BY <2>3, <2>8, <2>9, <1>1 DEF Covered
<1>7. QED BY <1>4, <1>6

\* The value that was just computed is in its register.
LEMMA ResultRight ==
    ASSUME ValueInv, res # NoReg
    PROVE  regs[res.reg] = res.val
<1> DEFINE n == Len(calls)
           g == Owners
<1>1. StackInv
  BY DEF ValueInv
<1>2. n \in Nat /\ n + 1 \in Places /\ g[n + 1] = res /\ FreeFrom(g, n + 2)
  BY <1>1, TopFacts
<1>3. Live(g, n + 1)
  BY <1>1, ResultFacts
<1>4. Untaken(g, n + 1)
  <2>1. \A q \in Places : n + 1 < q => q >= n + 2
    BY <1>2 DEF Places
  <2>2. QED BY <2>1, <1>2, NoRegIsGPReg DEF Untaken, Takes, Live, FreeFrom
<1>5. Right(g, calls, n + 1, regs[res.reg])
  BY <1>2, <1>3, <1>4 DEF ValueInv, InRegister
<1>6. ~IsCallAt(calls, n + 1)
  BY <1>2 DEF IsCallAt
<1>7. QED BY <1>2, <1>5, <1>6 DEF Right

\* The calls that a return leaves are what they were.
LEMMA FrontSame ==
    ASSUME StackInv, calls # << >>
    PROVE  /\ Len(Front(calls)) = Len(calls) - 1
           /\ Len(calls) \in Nat \ {0}
           /\ \A i \in 1 .. Len(calls) - 1 :
                i \in 1 .. Len(calls) /\ i < Len(calls) /\ Front(calls)[i] = calls[i]
           /\ \A q \in Places : q < Len(calls) =>
                /\ IsCallAt(calls, q) <=> IsCallAt(Front(calls), q)
                /\ SlotAt(calls, q) = SlotAt(Front(calls), q)
           /\ ~IsCallAt(Front(calls), Len(calls))
           /\ SlotAt(Front(calls), Len(calls)) = Top.depth
           /\ Depth(Front(calls)) = Top.depth
<1> DEFINE n == Len(calls)
           cs == Front(calls)
<1>1. calls \in Seq(CallRecord)
  BY DEF StackInv, TypeOK
<1>2. n \in Nat \ {0} /\ Len(cs) = n - 1 /\ \A i \in 1 .. n - 1 : cs[i] = calls[i]
  BY <1>1, FrontFacts
<1>3. Top = calls[n]
  BY TopFacts
<1>4. Depth(cs) = Top.depth
  BY <1>1, <1>3, DepthsFront DEF StackInv
<1> HIDE DEF n, cs
<1>5. \A q \in Places : q < n => q \in 1 .. n - 1 /\ q \in 1 .. n
  BY <1>2 DEF Places
<1>6. n \notin 1 .. n - 1
  BY <1>2
<1>7. \A q \in Places : q < n => (IsCallAt(calls, q) <=> IsCallAt(cs, q)) /\ SlotAt(calls, q) = SlotAt(cs, q)
  BY <1>2, <1>5 DEF IsCallAt, SlotAt, n
<1>8. ~IsCallAt(cs, n) /\ SlotAt(cs, n) = Top.depth
  BY <1>2, <1>4, <1>6 DEF IsCallAt, SlotAt
<1>9. \A i \in 1 .. n - 1 : i \in 1 .. n /\ i < n
  BY <1>2
<1>10. QED BY <1>2, <1>4, <1>7, <1>8, <1>9 DEF n, cs

LEMMA ValueUnaryOp ==
    ASSUME ValueInv, Covered, UnaryOp
    PROVE  ValueInv'
<1> DEFINE x == [res EXCEPT !.val = Top.id]
           n == Len(calls)
           h == [Owners EXCEPT ![n] = x, ![n + 1] = NoReg]
           cs == Front(calls)
<1>1. StackInv /\ TypeOK /\ res \in GPReg
  BY ValueFacts
<1>2. /\ res # NoReg /\ Top.kind \in {"unary", "boolLit"} /\ res' = x /\ calls' = cs
      /\ regs' = [regs EXCEPT ![res.reg] = Top.id] /\ UNCHANGED <<pool, stk, nodes, ctx>>
  BY DEF UnaryOp
<1>3. StackInv'
  BY <1>1, StackUnaryOp
<1>4. /\ calls # << >> /\ n \in Nat \ {0} /\ Top \in CallRecord /\ CallOK(Top, kinds)
      /\ Depth(calls) = After(Top)
  BY <1>1, <1>2, TopFacts
<1>5. /\ x \in GPReg /\ x # NoReg /\ x.reg = res.reg /\ x.leaked = res.leaked /\ x.val = Top.id
  <2>1. res \in [reg : Regs, leaked : BOOLEAN, val : Nat] /\ Top.id \in Nat
    BY <1>1, <1>2, <1>4, HeldFacts DEF CallRecord
  <2>2. x \in [reg : Regs, leaked : BOOLEAN, val : Nat] /\ x.reg = res.reg /\ x.leaked = res.leaked
        /\ x.val = Top.id
    BY <2>1
  <2>3. QED BY <2>2, HeldFacts, NoRegIsGPReg DEF GPReg
<1> HIDE DEF x
<1>6. Top.own = NoReg /\ Depth(calls) = Top.depth /\ Top.depth \in Nat
  <2>1. Top.own = NoReg /\ Top.cx = FALSE /\ Top.sizes = << >>
    BY <1>2, <1>4 DEF CallOK
  <2>2. LeakWord(Top.own) = 0 /\ CxWord(Top) = 0 /\ ArgsStackSpace(Top.sizes) = 0
    BY <2>1, NoSpace, NoRegIsGPReg DEF LeakWord, CxWord
  <2>3. Top.depth \in Nat
    BY <1>4 DEF CallRecord
  <2>4. QED BY <2>1, <2>2, <2>3, <1>4 DEF After
<1>7. /\ Len(cs) = n - 1
      /\ \A i \in 1 .. n - 1 : i \in 1 .. n /\ i < n /\ cs[i] = calls[i]
      /\ \A q \in Places : q < n =>
           (IsCallAt(calls, q) <=> IsCallAt(cs, q)) /\ SlotAt(calls, q) = SlotAt(cs, q)
      /\ ~IsCallAt(cs, n) /\ SlotAt(cs, n) = Top.depth
  BY <1>1, <1>4, FrontSame
<1>8. Owners' = h /\ \A q \in Places : q < n => Owners[q] = h[q]
  <2>1. /\ Owners' = h /\ \A q \in Places : q # n /\ q # n + 1 => Owners'[q] = Owners[q]
    BY <1>1, <1>2, <1>4, <1>5, ReturnFacts DEF pool
  <2>2. \A q \in Places : q < n => q # n /\ q # n + 1
    BY <1>4 DEF Places
  <2>3. QED BY <2>1, <2>2
<1> HIDE DEF cs
<1>9. /\ Ordered(h, used, kinds, nextLeak)
      /\ InRegister(h, cs, [regs EXCEPT ![res.reg] = x.val]) /\ InSlot(h, cs, stk)
  BY <1>2, <1>4, <1>5, <1>6, <1>7, ValueMove
<1> HIDE DEF h
<1>10. Stored(h, cs, stk)
  <2>1. SameBelow(stk, stk, Top.depth)
    BY DEF SameBelow
  <2>2. ASSUME NEW i \in 1 .. n - 1 PROVE CxStored(calls[i], h, i, stk) /\ ArgsStored(calls[i], stk)
    BY <2>1, <1>4, <1>7, <1>8, StoredAround
  <2>3. QED BY <2>2, <1>7 DEF Stored
<1>11. \A i \in 1 .. n - 1 : cs[i].kind = "call" => cs[i].own.val = cs[i].id
  BY <1>7 DEF ValueInv
<1>12. nextLeak' = leaks'
  BY <1>2 DEF ValueInv, pool
<1>13. QED BY <1>2, <1>3, <1>5, <1>7, <1>8, <1>9, <1>10, <1>11, <1>12 DEF ValueInv, pool

LEMMA ValueLhsDone ==
    ASSUME ValueInv, Covered, LhsDone
    PROVE  ValueInv'
<1> DEFINE c == [Top EXCEPT !.own = res, !.jump = Len(stk)]
           n == Len(calls)
           h == [Owners EXCEPT ![n] = res, ![n + 1] = NoReg]
           cs == [calls EXCEPT ![n] = c]
<1>1. /\ StackInv /\ TypeOK /\ res \in GPReg /\ calls \in Seq(CallRecord) /\ Len(stk) \in Nat
      /\ regs \in [Regs -> Nat]
  BY ValueFacts
<1>2. /\ res # NoReg /\ Top.kind \in {"bin", "bool"} /\ Top.own = NoReg /\ calls' = SetTop(c)
      /\ res' = NoReg /\ UNCHANGED <<pool, regs, stk, nodes, ctx>>
  BY DEF LhsDone
<1>3. StackInv'
  BY <1>1, StackLhsDone
<1>4. /\ calls # << >> /\ n \in Nat \ {0} /\ Top \in CallRecord /\ CallOK(Top, kinds)
      /\ Depth(calls) = After(Top) /\ Top = calls[n]
  BY <1>1, <1>2, TopFacts
<1>5. /\ c \in CallRecord /\ c.own = res /\ c.kind = Top.kind /\ c.depth = Top.depth
      /\ c.cx = Top.cx /\ c.sizes = Top.sizes /\ c.args = Top.args
  BY <1>1, <1>4 DEF CallRecord
<1> HIDE DEF c
<1>6. calls' = cs
  BY <1>2 DEF SetTop
<1>7. /\ cs \in Seq(CallRecord) /\ Len(cs) = n
      /\ \A i \in 1 .. n : cs[i] = IF i = n THEN c ELSE calls[i]
  BY <1>1, <1>4, <1>5
<1> HIDE DEF cs
<1>8. Owners' = h
  <2>1. OwnersOf([calls EXCEPT ![n] = c], NoReg) =
          [OwnersOf(calls, res) EXCEPT ![n] = c.own, ![n + 1] = NoReg]
    BY <1>1, <1>4, <1>5, NoRegIsGPReg, OwnersSetTop
  <2>2. OwnersOf(cs, NoReg) = [Owners EXCEPT ![n] = res, ![n + 1] = NoReg]
    BY <2>1, <1>5, Zenon DEF Owners, cs
  <2>3. QED BY <2>2, <1>2, <1>6, Zenon DEF Owners
<1>9. /\ Top.cx = FALSE /\ Top.args = << >> /\ Depth(calls) = Top.depth
  <2>1. Top.own = NoReg /\ Top.cx = FALSE /\ Top.sizes = << >> /\ Top.args = << >>
    BY <1>2, <1>4 DEF CallOK
  <2>2. LeakWord(Top.own) = 0 /\ CxWord(Top) = 0 /\ ArgsStackSpace(Top.sizes) = 0
    BY <2>1, NoSpace, NoRegIsGPReg DEF LeakWord, CxWord
  <2>3. Top.depth \in Nat
    BY <1>4 DEF CallRecord
  <2>4. QED BY <2>1, <2>2, <2>3, <1>4 DEF After
<1>10. /\ \A q \in Places : q < n =>
            (IsCallAt(calls, q) <=> IsCallAt(cs, q)) /\ SlotAt(calls, q) = SlotAt(cs, q)
       /\ ~IsCallAt(cs, n) /\ SlotAt(cs, n) = Depth(calls)
  <2>1. \A q \in Places : q < n => q \in 1 .. n /\ q # n
    BY <1>4 DEF Places
  <2>2. n \in 1 .. n
    BY <1>4
  <2>3. QED BY <2>1, <2>2, <1>2, <1>5, <1>7, <1>9 DEF IsCallAt, SlotAt
<1>11. regs = [regs EXCEPT ![res.reg] = res.val]
  BY <1>1, <1>2, ResultRight
<1>12. /\ Ordered(h, used, kinds, nextLeak) /\ InRegister(h, cs, regs) /\ InSlot(h, cs, stk)
  <2>1. InRegister(h, cs, [regs EXCEPT ![res.reg] = res.val])
        /\ Ordered(h, used, kinds, nextLeak) /\ InSlot(h, cs, stk)
    BY <1>1, <1>2, <1>4, <1>10, ValueMove
  <2>2. QED BY <2>1, <1>11
<1>13. \A q \in Places : q < n => Owners[q] = h[q]
  <2>1. \A q \in Places : q < n => q # n /\ q # n + 1
    BY <1>4 DEF Places
  <2>2. QED BY <2>1, <1>1, TopFacts DEF Owning
<1> HIDE DEF h
<1>14. \A i \in 1 .. n : i = n \/ (i < n /\ cs[i] = calls[i])
  BY <1>4, <1>7
<1>15. Stored(h, cs, stk)
  <2>1. SameBelow(stk, stk, Top.depth)
    BY DEF SameBelow
  <2>2. ASSUME NEW i \in 1 .. n, i < n PROVE CxStored(calls[i], h, i, stk) /\ ArgsStored(calls[i], stk)
    BY <2>1, <2>2, <1>4, <1>13, StoredAround
  <2>3. CxStored(c, h, n, stk) /\ ArgsStored(c, stk)
    BY <1>5, <1>9 DEF CxStored, ArgsStored
  <2>4. \A i \in 1 .. n : CxStored(cs[i], h, i, stk) /\ ArgsStored(cs[i], stk)
    BY <2>2, <2>3, <1>7, <1>14
  <2>5. QED BY <2>4, <1>7 DEF Stored
<1>16. \A i \in 1 .. n : cs[i].kind = "call" => cs[i].own.val = cs[i].id
  BY <1>2, <1>5, <1>7, <1>14 DEF ValueInv
<1>17. nextLeak' = leaks'
  BY <1>2 DEF ValueInv, pool
<1>18. QED BY <1>2, <1>3, <1>6, <1>7, <1>8, <1>12, <1>15, <1>16, <1>17 DEF ValueInv, pool

LEMMA ValueRhsDone ==
    ASSUME ValueInv, Covered, RhsDone
    PROVE  ValueInv'
<1> DEFINE lhs == Top.own
           x == [lhs EXCEPT !.val = Top.id]
           n == Len(calls)
           rg == [regs EXCEPT ![lhs.reg] = Top.id]
           g == Owners
           h == [g EXCEPT ![n] = x, ![n + 1] = NoReg]
           cs == Front(calls)
<1>1. /\ StackInv /\ TypeOK /\ PoolOK(g, used, kinds) /\ Ordered(g, used, kinds, nextLeak)
      /\ g \in Owning /\ used \in SUBSET Regs /\ regs \in [Regs -> Nat] /\ stk \in Seq(Nat)
      /\ Word \in Nat \ {0}
  BY ValueFacts
<1>2. /\ res # NoReg /\ Top.kind \in {"bin", "bool"} /\ lhs # NoReg
      /\ FreeReg(res, used, rg, stk) /\ res' = x /\ calls' = cs
      /\ UNCHANGED <<kinds, nextLeak, leaks, nodes, ctx>>
  BY DEF RhsDone
<1>3. StackInv'
  BY <1>1, StackRhsDone
<1>4. /\ calls # << >> /\ n \in Nat \ {0} /\ n \in Places /\ n + 1 \in Places
      /\ Top \in CallRecord /\ CallOK(Top, kinds) /\ g[n] = lhs /\ g[n + 1] = res
      /\ FreeFrom(g, n + 2) /\ Depth(calls) = After(Top) /\ Top = calls[n]
  BY <1>1, <1>2, TopFacts
<1>5. /\ x \in GPReg /\ x # NoReg /\ x.reg = lhs.reg /\ x.leaked = lhs.leaked /\ x.val = Top.id
      /\ Top.id \in Nat
  <2>1. lhs \in [reg : Regs, leaked : BOOLEAN, val : Nat] /\ Top.id \in Nat
    BY <1>2, <1>4, HeldFacts DEF CallRecord
  <2>2. x \in [reg : Regs, leaked : BOOLEAN, val : Nat] /\ x.reg = lhs.reg /\ x.leaked = lhs.leaked
        /\ x.val = Top.id
    BY <2>1
  <2>3. QED BY <2>1, <2>2, HeldFacts, NoRegIsGPReg DEF GPReg
<1>6. lhs.reg # res.reg /\ lhs.reg \in Regs
  BY <1>2, <1>4, OperandsApart
<1>7. /\ res \in GPReg /\ res.reg \in Regs /\ Len(stk) \in Nat /\ Depth(calls) \in Nat
      /\ Len(stk) = Depth(calls) + LeakWord(res) /\ LeakWord(res) <= Len(stk)
      /\ LeakWord(res) \in Nat
  BY <1>1, <1>2, ResultFacts
<1>8. rg \in [Regs -> Nat] /\ rg[lhs.reg] = Top.id /\ \A r \in Regs : r # lhs.reg => rg[r] = regs[r]
  BY <1>1, <1>5, <1>6
<1>9. x.reg \in Regs /\ (LeakWord(res) = 0 \/ res.leaked)
  BY <1>5, <1>6 DEF LeakWord
<1> HIDE DEF x, rg
<1>10. /\ used' = (IF res.leaked THEN used ELSE used \ {res.reg})
       /\ SameBelow(stk, stk', Depth(calls))
       /\ \A r \in Regs : ~res.leaked \/ r # res.reg => regs'[r] = rg[r]
       /\ res.leaked => \A v : (\A k \in WordOf(Depth(calls)) : stk[k] = v) => regs'[res.reg] = v
  <2>1. /\ res \in GPReg /\ res # NoReg /\ used \in SUBSET Regs /\ rg \in [Regs -> Nat]
        /\ stk \in Seq(Nat) /\ LeakWord(res) <= Len(stk) /\ FreeReg(res, used, rg, stk)
    BY <1>1, <1>2, <1>7, <1>8
  <2>2. /\ used' = (IF res.leaked THEN used ELSE used \ {res.reg})
        /\ SameBelow(stk, stk', Len(stk) - LeakWord(res))
        /\ \A r \in Regs : ~res.leaked \/ r # res.reg => regs'[r] = rg[r]
        /\ res.leaked => \A v : (\A k \in WordOf(Len(stk) - Word) : stk[k] = v) => regs'[res.reg] = v
    <3>1. used' = (IF res.leaked THEN used ELSE used \ {res.reg})
      BY <2>1, FreeFacts, Zenon
    <3>2. SameBelow(stk, stk', Len(stk) - LeakWord(res))
      BY <2>1, FreeFacts, Zenon
    <3>3. /\ \A r \in Regs : ~res.leaked \/ r # res.reg => regs'[r] = rg[r]
          /\ res.leaked => regs'[res.reg] = WordAt(stk, 0)
      BY <2>1, <1>7 DEF FreeReg
    <3>4. ASSUME res.leaked
          PROVE  \A v : (\A k \in WordOf(Len(stk) - Word) : stk[k] = v) => regs'[res.reg] = v
      <4>1. 0 + Word <= Len(stk) /\ Len(stk) - 0 - Word = Len(stk) - Word
        BY <3>4, <1>1, <1>7 DEF LeakWord
      <4>2. \A v : (\A k \in WordOf(Len(stk) - 0 - Word) : stk[k] = v) => WordAt(stk, 0) = v
        BY <4>1, <1>1, WordAtFacts
      <4>3. QED BY <3>3, <3>4, <4>1, <4>2
    <3>5. QED BY <3>1, <3>2, <3>3, <3>4, Zenon
  <2>3. Len(stk) - LeakWord(res) = Depth(calls)
    BY <1>7
  <2>4. res.leaked => Len(stk) - Word = Depth(calls)
    BY <1>1, <1>7 DEF LeakWord
  <2>5. QED BY <2>2, <2>3, <2>4
<1>11. /\ Len(cs) = n - 1
       /\ \A i \in 1 .. n - 1 : i \in 1 .. n /\ i < n /\ cs[i] = calls[i]
       /\ \A q \in Places : q < n =>
            (IsCallAt(calls, q) <=> IsCallAt(cs, q)) /\ SlotAt(calls, q) = SlotAt(cs, q)
       /\ ~IsCallAt(cs, n) /\ SlotAt(cs, n) = Top.depth
  BY <1>1, <1>4, FrontSame
<1>12. /\ SlotAt(calls, n) = Top.depth /\ SlotAt(calls, n + 1) = Depth(calls)
       /\ Top.depth \in Nat /\ Top.depth <= Depth(calls)
  <2>1. n \in 1 .. n /\ n + 1 \notin 1 .. n
    BY <1>4
  <2>2. /\ Top.depth \in Nat /\ LeakWord(Top.own) \in Nat /\ CxWord(Top) \in Nat
        /\ ArgsStackSpace(Top.sizes) \in Nat
        /\ Top.depth + LeakWord(Top.own) + CxWord(Top) + ArgsStackSpace(Top.sizes) = After(Top)
    BY <1>4, AfterIsNat
  <2>3. Top.depth <= Depth(calls)
    BY <2>2, <1>4
  <2>4. QED BY <2>1, <2>2, <2>3, <1>4 DEF SlotAt
<1>13. /\ h \in Owning /\ h[n] = x /\ h[n + 1] = NoReg
       /\ \A i \in Places : i # n /\ i # n + 1 => h[i] = g[i]
  BY <1>1, <1>4, <1>5, NoRegIsGPReg DEF Owning
<1>14. Owners' = h
  BY <1>1, <1>2, <1>4, <1>5, ReturnFacts
<1>15. \A i \in Places : /\ i < n \/ i = n \/ i = n + 1 \/ i >= n + 2
                         /\ i < n => i # n /\ i # n + 1 /\ i < n + 1
  BY <1>4 DEF Places
<1>16. Ordered(h, used', kinds, nextLeak)
  <2> DEFINE k == [g EXCEPT ![n + 1] = NoReg]
             u == IF res.leaked THEN used ELSE used \ {res.reg}
  <2>1. Ordered(k, u, kinds, nextLeak)
    <3>1. FreeFrom(g, n + 1 + 1) /\ Live(g, n + 1)
      <4>1. n + 1 + 1 = n + 2
        BY <1>4
      <4>2. QED BY <4>1, <1>4, <1>7 DEF Live
    <3>2. Ordered([g EXCEPT ![n + 1] = NoReg],
                  IF g[n + 1].leaked THEN used ELSE used \ {g[n + 1].reg}, kinds, nextLeak)
      BY <3>1, <1>1, <1>4, OrderedFree
    <3>3. QED BY <3>2, <1>4
  <2>2. k \in Owning /\ k[n] = lhs /\ h = [k EXCEPT ![n] = x] /\ u \in SUBSET Regs
    <3>1. k \in Owning /\ k[n] = lhs
      BY <1>1, <1>4, NoRegIsGPReg DEF Owning
    <3>2. h = [k EXCEPT ![n] = x]
      <4> DEFINE l == [k EXCEPT ![n] = x]
      <4>1. l \in Owning /\ h \in Owning
        BY <3>1, <1>5, <1>13 DEF Owning
      <4>2. \A q \in Places : k[q] = IF q = n + 1 THEN NoReg ELSE g[q]
        BY <1>1 DEF Owning
      <4>3. \A q \in Places : l[q] = IF q = n THEN x ELSE k[q]
        BY <3>1 DEF Owning
      <4> HIDE DEF h, k, l
      <4>4. \A q \in Places : h[q] = l[q]
        BY <4>2, <4>3, <1>13, <1>15
      <4>5. h = l
        BY <4>1, <4>4 DEF Owning
      <4>6. QED BY <4>5 DEF l
    <3>3. u \in SUBSET Regs
      BY <1>1
    <3>4. QED BY <3>1, <3>2, <3>3
  <2> HIDE DEF k
  <2>3. Ordered([k EXCEPT ![n] = x], u, kinds, nextLeak)
    <3>1. /\ k \in Owning /\ u \in SUBSET Regs /\ Ordered(k, u, kinds, nextLeak)
          /\ n \in Places /\ x \in GPReg /\ x.reg = k[n].reg /\ x.leaked = k[n].leaked
      BY <2>1, <2>2, <1>4, <1>5
    <3> HIDE DEF u
    <3>2. QED BY <3>1, OrderedSame
  <2>4. QED BY <2>2, <2>3, <1>10
<1> HIDE DEF h, cs
<1>17. \A i \in Places : (Live(g, i) => i < n \/ i = n \/ i = n + 1) /\ (Live(h, i) => i < n \/ i = n)
  BY <1>4, <1>13, <1>15, NoRegIsGPReg DEF Live, FreeFrom
<1>18. \A i, j \in Places : Takes(h, j, i) /\ (j < n \/ j = n) => i < n /\ Takes(g, j, i)
  <2> SUFFICES ASSUME NEW i \in Places, NEW j \in Places, Takes(h, j, i), j < n \/ j = n
               PROVE  i < n /\ Takes(g, j, i)
    OBVIOUS
  <2>1. i < n
    BY <1>4 DEF Takes, Places
  <2>2. h[i] = g[i] /\ h[j].reg = g[j].reg
    BY <2>1, <1>4, <1>5, <1>13, <1>15
  <2>3. QED BY <2>1, <2>2 DEF Takes, Live
<1>19. ASSUME NEW i \in Places, i < n, NEW z, Right(g, calls, i, z) PROVE Right(h, cs, i, z)
  <2>1. \A q \in Places : q <= i => q < n
    BY <1>4, <1>19 DEF Places
  <2>2. \A q \in Places : q <= i => g[q] = h[q] /\ (IsCallAt(calls, q) <=> IsCallAt(cs, q))
    BY <2>1, <1>11, <1>13, <1>15
  <2> HIDE DEF n, g
  <2>3. Right(g, calls, i, z)
    BY <1>19
  <2>4. QED BY ONLY i \in Places, <2>2, <2>3, RightSame
<1>20. InRegister(h, cs, regs')
  <2> SUFFICES ASSUME NEW i \in Places, Live(h, i), Untaken(h, i)
               PROVE  Right(h, cs, i, regs'[h[i].reg])
    BY DEF InRegister
  <2>1. CASE i = n
    <3>1. regs'[h[i].reg] = x.val
      BY <2>1, <1>5, <1>6, <1>8, <1>10, <1>13
    <3>2. QED BY <2>1, <3>1, <1>11, <1>13 DEF Right
  <2>2. CASE i < n
    <3>1. h[i] = g[i] /\ Live(g, i) /\ g[i].reg \in Regs
      BY <2>2, <1>13, <1>15 DEF Live
    <3>2. g[i].reg # lhs.reg
      BY <2>2, <3>1, <1>4, <1>5, <1>6, <1>13 DEF Untaken, Takes, Live
    <3>3. CASE Takes(g, n + 1, i)
      <4>1. res.leaked /\ res.reg = g[i].reg
        BY <3>1, <3>3, <1>1, <1>4, TakerFacts DEF Takes
      <4>2. \A k \in WordOf(Depth(calls)) : Right(g, calls, i, stk[k])
        BY <3>1, <3>3, <1>4, <1>12 DEF ValueInv, InSlot
      <4>3. \A v : (\A k \in WordOf(Depth(calls)) : stk[k] = v) => regs'[res.reg] = v
        BY <4>1, <1>10
      <4>4. Right(g, calls, i, regs'[res.reg])
        <5> DEFINE w == regs'[res.reg]
        <5> HIDE DEF w, g
        <5>1. \A v : (\A k \in WordOf(Depth(calls)) : stk[k] = v) => w = v
          BY <4>3 DEF w
        <5>2. Right(g, calls, i, w)
          BY ONLY i \in Places, <4>2, <5>1, RightWord
        <5>3. QED BY <5>2 DEF w
      <4>5. QED BY <2>2, <3>1, <4>1, <4>4, <1>19
    <3>4. CASE ~Takes(g, n + 1, i)
      <4>1. g[i].reg # res.reg
        BY <2>2, <3>4, <1>4, <1>7, <1>15 DEF Takes, Live
      <4>2. Untaken(g, i)
        <5> SUFFICES ASSUME NEW q \in Places, Takes(g, q, i) PROVE FALSE
          BY DEF Untaken
        <5>1. q # n + 1 /\ q # n
          BY <3>2, <4>1, <1>4 DEF Takes
        <5>2. q < n
          BY <5>1, <1>17 DEF Takes
        <5>3. Takes(h, q, i)
          BY <5>2, <3>1, <1>13, <1>15 DEF Takes, Live
        <5>4. QED BY <5>3 DEF Untaken
      <4>3. Right(g, calls, i, regs[g[i].reg])
        BY <3>1, <4>2 DEF ValueInv, InRegister
      <4>4. regs'[g[i].reg] = regs[g[i].reg]
        BY <3>1, <3>2, <4>1, <1>8, <1>10
      <4>5. QED BY <2>2, <3>1, <4>3, <4>4, <1>19
    <3>5. QED BY <3>3, <3>4
  <2>3. QED BY <2>1, <2>2, <1>17
<1>21. InSlot(h, cs, stk')
  <2> SUFFICES ASSUME NEW i \in Places, NEW j \in Places, Live(h, i), Takes(h, j, i),
                      NEW k \in WordOf(SlotAt(cs, j))
               PROVE  Right(h, cs, i, stk'[k])
    BY DEF InSlot
  <2>1. j < n \/ j = n
    BY <1>17 DEF Takes
  <2>2. i < n /\ Takes(g, j, i) /\ Live(g, i)
    BY <2>1, <1>13, <1>15, <1>18 DEF Live
  <2>3. SlotAt(cs, j) = SlotAt(calls, j) /\ j \in 1 .. n
    BY <2>1, <1>4, <1>11, <1>12 DEF Places
  <2>4. Right(g, calls, i, stk[k])
    BY <2>2, <2>3 DEF ValueInv, InSlot
  <2>5. stk'[k] = stk[k]
    <3>1. g[j].leaked
      BY <2>2, <1>1, TakerFacts
    <3>2. SlotAt(calls, j) \in Nat /\ SlotAt(calls, j) + Word <= After(calls[j])
      BY <2>3, <3>1, <1>1, SlotFacts
    <3>3. After(calls[j]) \in Nat /\ After(calls[j]) <= Depth(calls)
      BY <2>3, <1>1, ZoneFacts
    <3>4. k \in 1 .. Depth(calls)
      BY <2>3, <3>2, <3>3, <1>1, <1>7 DEF WordOf
    <3>5. QED BY <3>4, <1>10 DEF SameBelow
  <2>6. QED BY <2>2, <2>4, <2>5, <1>19
<1>22. Stored(h, cs, stk')
  <2>1. SameBelow(stk, stk', Top.depth)
    BY <1>7, <1>10, <1>12 DEF SameBelow
  <2>2. \A q \in Places : q < n => g[q] = h[q]
    BY <1>13, <1>15
  <2>3. ASSUME NEW i \in 1 .. n - 1 PROVE CxStored(calls[i], h, i, stk') /\ ArgsStored(calls[i], stk')
    BY <2>1, <2>2, <1>4, <1>11, StoredAround
  <2>4. QED BY <2>3, <1>11 DEF Stored
<1>23. \A i \in 1 .. n - 1 : cs[i].kind = "call" => cs[i].own.val = cs[i].id
  BY <1>11 DEF ValueInv
<1>24. nextLeak' = leaks'
  BY <1>2 DEF ValueInv
<1>25. QED BY <1>2, <1>3, <1>11, <1>14, <1>16, <1>20, <1>21, <1>22, <1>23, <1>24 DEF ValueInv

\* A register is free while an argument is compiled: its value is not in a
\* leaked one.
LEMMA ArgNotLeaked ==
    ASSUME StackInv, MinFree >= 2, calls # << >>, res # NoReg, Top.sizes # << >>
    PROVE  ~res.leaked
<1> DEFINE n == Len(calls)
<1>1. /\ n \in Nat /\ n + 1 \in Places /\ Owners[n + 1] = res /\ KeptAt(Top, Owners, n)
  BY TopFacts
<1>2. PICK r \in Regs : FreeUpTo(Owners, n, r)
  BY <1>1 DEF KeptAt, SpareAt
<1>3. \A i \in Places : i < n + 1 => i <= n
  BY <1>1 DEF Places
<1>4. QED BY <1>1, <1>2, <1>3 DEF StackInv, PoolOK, LeakedLast, FreeUpTo

\* With `after' cells on the stack, the word of argument m + 1 is above d, and
\* apart from those of the arguments before it.
ArgApart(d, m, after) ==
    /\ after - Word * (m + 1) \in Nat /\ d <= after - Word * (m + 1)
    /\ after - Word * m - Word = after - Word * (m + 1)
    /\ after - Word * (m + 1) + Word <= after
    /\ Word * m \in Nat
    /\ \A k \in WordOf(after - Word * (m + 1)) : ~(k <= d)
    /\ \A a \in 1 .. m : \A k \in WordOf(after - Word * a) :
         k \notin WordOf(after - Word * (m + 1)) /\ k \in 1 .. after

LEMMA ArgWords ==
    ASSUME NEW d \in Nat, NEW s \in Nat, NEW m \in Nat, m < s, NEW after, after = d + Word * s
    PROVE  ArgApart(d, m, after)
<1>1. Word \in Nat \ {0}
  BY ExprGenAssumption
<1>2. /\ Word * s \in Nat /\ Word * (m + 1) \in Nat /\ Word * (m + 1) <= Word * s
      /\ Word * m \in Nat /\ Word * (m + 1) = Word * m + Word
  <2>1. m + 1 \in Nat \ {0} /\ m + 1 <= s
    OBVIOUS
  <2>2. QED BY <2>1, <1>1, WordMonotone, WordMultiple
<1>3. ASSUME NEW a \in 1 .. m
      PROVE  Word * a \in Nat /\ Word * a <= Word * m /\ Word * a >= Word
  <2>1. a \in Nat \ {0} /\ a <= m
    OBVIOUS
  <2>2. QED BY <2>1, WordMonotone
<1> DEFINE p == Word * (m + 1)
           t == Word * s
           u == Word * m
<1>4. p \in Nat /\ t \in Nat /\ u \in Nat /\ p <= t /\ p = u + Word /\ after = d + t
  BY <1>2
<1>5. \A a \in 1 .. m : Word * a \in Nat /\ Word * a <= u /\ Word * a >= Word
  BY <1>3
<1> HIDE DEF p, t, u
<1>6. after - p \in Nat /\ d <= after - p /\ after - u - Word = after - p /\ after - p + Word <= after
  BY <1>1, <1>4
<1>7. \A k \in WordOf(after - p) : ~(k <= d)
  BY <1>1, <1>4, <1>6 DEF WordOf
<1>8. ASSUME NEW a \in 1 .. m, NEW k \in WordOf(after - Word * a)
      PROVE  k \notin WordOf(after - p) /\ k \in 1 .. after
  <2> DEFINE q == Word * a
  <2>1. q \in Nat /\ q <= u /\ q >= Word
    BY <1>5
  <2>2. k \in after - q + 1 .. after - q + Word
    BY DEF WordOf
  <2> HIDE DEF q
  <2>3. QED BY <2>1, <2>2, <1>1, <1>4, <1>6 DEF WordOf
<1>9. QED BY <1>4, <1>6, <1>7, <1>8 DEF p, u, ArgApart

LEMMA ValueArgDone ==
    ASSUME ValueInv, Covered, ArgDone
    PROVE  ValueInv'
<1> DEFINE c == [Top EXCEPT !.args = Append(@, res.val)]
           n == Len(calls)
           st == Store(stk, NextArgOffset(Top), regs[res.reg])
           g == Owners
           h == [g EXCEPT ![n + 1] = NoReg]
           cs == [calls EXCEPT ![n] = c]
           d == Top.depth + LeakWord(Top.own) + CxWord(Top)
           m == Len(Top.args)
<1>1. /\ StackInv /\ TypeOK /\ PoolOK(g, used, kinds) /\ Ordered(g, used, kinds, nextLeak)
      /\ g \in Owning /\ used \in SUBSET Regs /\ regs \in [Regs -> Nat] /\ stk \in Seq(Nat)
      /\ Word \in Nat \ {0} /\ calls \in Seq(CallRecord) /\ res \in GPReg
  BY ValueFacts
<1>2. /\ res # NoReg /\ Top.kind = "call" /\ FreeReg(res, used, regs, st)
      /\ calls' = SetTop(c) /\ res' = NoReg /\ UNCHANGED <<kinds, nextLeak, leaks, nodes, ctx>>
  BY DEF ArgDone
<1>3. StackInv'
  BY <1>1, StackArgDone
<1>4. /\ calls # << >> /\ n \in Nat \ {0} /\ n \in Places /\ n + 1 \in Places
      /\ Top \in CallRecord /\ CallOK(Top, kinds) /\ g[n] = Top.own /\ g[n + 1] = res
      /\ FreeFrom(g, n + 2) /\ Depth(calls) = After(Top) /\ Top = calls[n]
      /\ m < Len(Top.sizes)
  BY <1>1, <1>2, TopFacts
<1>5. /\ c \in CallRecord /\ c.args = Append(Top.args, res.val) /\ Top.args \in Seq(Nat)
      /\ c.kind = Top.kind /\ c.depth = Top.depth /\ c.own = Top.own /\ c.id = Top.id
      /\ c.cx = Top.cx /\ c.sizes = Top.sizes /\ Top.sizes \in Seq(ArgSizes)
  <2>1. Top.args \in Seq(Nat) /\ Top.sizes \in Seq(ArgSizes)
    BY <1>4 DEF CallRecord
  <2>2. Append(Top.args, res.val) \in Seq(Nat)
    BY <2>1, <1>1, HeldFacts
  <2>3. QED BY <2>1, <2>2, <1>4 DEF CallRecord
<1>6. m \in Nat /\ Len(Top.sizes) \in Nat /\ m < Len(Top.sizes)
  BY <1>4, <1>5
<1>7. /\ ~res.leaked
      /\ res.reg \in Regs /\ Len(stk) \in Nat /\ Depth(calls) \in Nat
      /\ Len(stk) = Depth(calls)
  <2>1. Top.sizes # << >>
    BY <1>6, EmptySeq
  <2>2. ~res.leaked
    BY <2>1, <1>1, <1>2, <1>4, ArgNotLeaked DEF Covered
  <2>3. /\ res.reg \in Regs /\ Len(stk) \in Nat /\ Depth(calls) \in Nat
        /\ Len(stk) = Depth(calls) + LeakWord(res)
    BY <1>1, <1>2, ResultFacts
  <2>4. QED BY <2>2, <2>3 DEF LeakWord
<1>8. regs' = regs /\ stk' = st /\ used' = used \ {res.reg}
  BY <1>2, <1>7 DEF FreeReg
\* The word that is written, above the slots and the saved cx of this call.
<1>9. /\ d \in Nat /\ Top.depth \in Nat /\ After(Top) \in Nat
      /\ Top.depth + LeakWord(Top.own) <= d /\ After(Top) = d + Word * Len(Top.sizes)
      /\ (Top.cx => Top.depth + LeakWord(Top.own) + Word <= d)
      /\ LeakWord(Top.own) \in Nat
  <2>1. /\ Top.depth \in Nat /\ LeakWord(Top.own) \in Nat /\ CxWord(Top) \in Nat
        /\ After(Top) \in Nat
        /\ Top.depth + LeakWord(Top.own) + CxWord(Top) + ArgsStackSpace(Top.sizes) = After(Top)
    BY <1>4, AfterIsNat
  <2>2. ArgsStackSpace(Top.sizes) = Word * Len(Top.sizes)
    BY <1>5, SpaceOfWords DEF Covered
  <2>3. Top.cx => CxWord(Top) = Word
    BY DEF CxWord
  <2>4. QED BY <2>1, <2>2, <2>3
<1> HIDE DEF d
<1> DEFINE w0 == After(Top) - Word * (m + 1)
<1>10. /\ w0 \in Nat /\ After(Top) - Word * m - Word = w0 /\ w0 + Word <= After(Top)
       /\ Word * m \in Nat
       /\ \A k \in WordOf(w0) : ~(k <= d)
       /\ \A a \in 1 .. m : \A k \in WordOf(After(Top) - Word * a) :
            k \notin WordOf(w0) /\ k \in 1 .. After(Top)
  <2> DEFINE s == Len(Top.sizes)
             z == After(Top)
  <2>1. d \in Nat /\ s \in Nat /\ m \in Nat /\ m < s /\ z = d + Word * s
    BY <1>6, <1>9
  <2>2. w0 = z - Word * (m + 1)
    OBVIOUS
  <2> HIDE DEF m, s, z, w0
  <2>3. ArgApart(d, m, z)
    BY ONLY <2>1, ArgWords
  <2>4. QED BY <2>2, <2>3 DEF z, ArgApart
<1> HIDE DEF w0, c, cs, h, st
<1>11. \A k \in 1 .. Len(stk) : st[k] = IF k \in WordOf(w0) THEN res.val ELSE stk[k]
  <2>1. regs[res.reg] = res.val /\ res.val \in Nat
    BY <1>1, <1>2, ResultRight, HeldFacts
  <2>2. NextArgOffset(Top) = Word * m
    BY DEF NextArgOffset
  <2>3. \A k \in 1 .. Len(stk) : Store(stk, Word * m, res.val)[k] =
          IF k \in WordOf(Len(stk) - Word * m - Word) THEN res.val ELSE stk[k]
    <3> DEFINE p == Word * m
               v == res.val
    <3>1. stk \in Seq(Nat) /\ p \in Nat /\ v \in Nat
      BY <2>1, <1>1, <1>10
    <3> HIDE DEF p, v
    <3>2. \A k \in 1 .. Len(stk) : Store(stk, p, v)[k] =
            IF k \in WordOf(Len(stk) - p - Word) THEN v ELSE stk[k]
      BY ONLY <3>1, StoreFacts
    <3>3. QED BY <3>2 DEF p, v
  <2>4. Len(stk) - Word * m - Word = w0
    BY <1>4, <1>7, <1>10
  <2>5. QED BY <2>1, <2>2, <2>3, <2>4 DEF st
<1>12. d <= Len(stk) /\ SameBelow(stk, stk', d)
  <2>1. d <= Len(stk)
    <3>1. Word * Len(Top.sizes) \in Nat
      BY <1>6, WordMultiple
    <3>2. QED BY <3>1, <1>4, <1>7, <1>9
  <2>2. \A k \in 1 .. d : k <= d /\ k \in 1 .. Len(stk)
    BY <2>1, <1>7, <1>9
  <2>3. QED BY <2>1, <2>2, <1>8, <1>10, <1>11 DEF SameBelow
<1>13. calls' = cs
  BY <1>2 DEF SetTop, cs
<1>14. /\ cs \in Seq(CallRecord) /\ Len(cs) = n
       /\ \A i \in 1 .. n : cs[i] = IF i = n THEN c ELSE calls[i]
  BY <1>1, <1>4, <1>5 DEF cs
<1>15. /\ h \in Owning /\ h[n] = Top.own /\ h[n + 1] = NoReg
       /\ \A i \in Places : i # n + 1 => h[i] = g[i]
  BY <1>1, <1>4, NoRegIsGPReg DEF Owning, h
<1>16. Owners' = h
  <2>1. OwnersOf([calls EXCEPT ![n] = c], NoReg) =
          [OwnersOf(calls, res) EXCEPT ![n] = c.own, ![n + 1] = NoReg]
    <3>1. /\ calls \in Seq(CallRecord) /\ calls # << >> /\ res \in GPReg /\ NoReg \in GPReg
          /\ c \in CallRecord
      BY <1>1, <1>4, <1>5, NoRegIsGPReg
    <3>2. QED BY <3>1, OwnersSetTop
  <2>2. Owners' = [Owners EXCEPT ![n] = c.own, ![n + 1] = NoReg]
    BY <2>1, <1>2, <1>13, Zenon DEF Owners, cs
  <2>3. QED BY <2>2, <1>1, <1>4, <1>5 DEF Owning, h
<1>17. \A i \in Places : /\ i <= n \/ i = n + 1 \/ i >= n + 2
                         /\ i <= n => i # n + 1 /\ i < n + 1 /\ i \in 1 .. n
                         /\ i \in 1 .. n => i <= n
  BY <1>4 DEF Places
<1>18. Ordered(h, used', kinds, nextLeak)
  <2>1. FreeFrom(g, n + 1 + 1) /\ Live(g, n + 1)
    <3>1. n + 1 + 1 = n + 2
      BY <1>4
    <3>2. QED BY <3>1, <1>4, <1>7 DEF Live
  <2>2. Ordered([g EXCEPT ![n + 1] = NoReg],
                IF g[n + 1].leaked THEN used ELSE used \ {g[n + 1].reg}, kinds, nextLeak)
    BY <2>1, <1>1, <1>4, OrderedFree
  <2>3. QED BY <2>2, <1>4, <1>7, <1>8 DEF h
<1>19. \A i \in Places : (Live(g, i) => i <= n \/ i = n + 1) /\ (Live(h, i) => i <= n)
  BY <1>4, <1>15, <1>17, NoRegIsGPReg DEF Live, FreeFrom
<1>20. \A q \in Places : /\ IsCallAt(calls, q) <=> IsCallAt(cs, q)
                         /\ q <= n => SlotAt(calls, q) = SlotAt(cs, q)
  BY <1>4, <1>5, <1>14, <1>17 DEF IsCallAt, SlotAt
<1>21. ASSUME NEW i \in Places, i <= n, NEW z, Right(g, calls, i, z) PROVE Right(h, cs, i, z)
  <2>1. \A q \in Places : q <= i => q <= n
    BY <1>4, <1>21 DEF Places
  <2>2. \A q \in Places : q <= i => g[q] = h[q] /\ (IsCallAt(calls, q) <=> IsCallAt(cs, q))
    BY <2>1, <1>15, <1>17, <1>20
  <2> HIDE DEF n, g
  <2>3. Right(g, calls, i, z)
    BY <1>21
  <2>4. QED BY ONLY i \in Places, <2>2, <2>3, RightSame
<1>22. InRegister(h, cs, regs)
  <2> SUFFICES ASSUME NEW i \in Places, Live(h, i), Untaken(h, i)
               PROVE  Right(h, cs, i, regs[h[i].reg])
    BY DEF InRegister
  <2>1. i <= n /\ h[i] = g[i] /\ Live(g, i)
    BY <1>15, <1>17, <1>19 DEF Live
  <2>2. Untaken(g, i)
    <3> SUFFICES ASSUME NEW q \in Places, Takes(g, q, i) PROVE FALSE
      BY DEF Untaken
    <3>1. q # n + 1
      BY <2>1, <1>1, <1>4, <1>7, TakerFacts
    <3>2. q <= n
      BY <3>1, <1>19 DEF Takes
    <3>3. Takes(h, q, i)
      BY <3>2, <2>1, <1>15, <1>17 DEF Takes, Live
    <3>4. QED BY <3>3 DEF Untaken
  <2>3. Right(g, calls, i, regs[g[i].reg])
    BY <2>1, <2>2 DEF ValueInv, InRegister
  <2>4. QED BY <2>1, <2>3, <1>21
<1>23. InSlot(h, cs, stk')
  <2> SUFFICES ASSUME NEW i \in Places, NEW j \in Places, Live(h, i), Takes(h, j, i),
                      NEW k \in WordOf(SlotAt(cs, j))
               PROVE  Right(h, cs, i, stk'[k])
    BY DEF InSlot
  <2>1. j <= n /\ i <= n
    BY <1>19 DEF Takes
  <2>2. Takes(g, j, i) /\ Live(g, i)
    BY <2>1, <1>15, <1>17 DEF Takes, Live
  <2>3. k \in WordOf(SlotAt(calls, j)) /\ j \in 1 .. n
    BY <2>1, <1>17, <1>20
  <2>4. Right(g, calls, i, stk[k])
    BY <2>2, <2>3 DEF ValueInv, InSlot
  <2>5. g[j].leaked
    BY <2>2, <1>1, TakerFacts
  <2>6. SlotAt(calls, j) \in Nat /\ SlotAt(calls, j) + Word <= d
    <3>1. SlotAt(calls, j) \in Nat /\ SlotAt(calls, j) + Word <= After(calls[j])
      BY <2>3, <2>5, <1>1, SlotFacts
    <3>2. CASE j = n
      <4>1. SlotAt(calls, j) = Top.depth
        BY <2>3, <3>2, <1>4 DEF SlotAt
      <4>2. LeakWord(Top.own) = Word
        BY <2>5, <3>2, <1>4 DEF LeakWord
      <4>3. QED BY <3>1, <4>1, <4>2, <1>9
    <3>3. CASE j < n
      <4>1. After(calls[j]) \in Nat /\ After(calls[j]) <= Top.depth
        BY <2>3, <3>3, <1>1, ZoneFacts
      <4>2. QED BY <3>1, <4>1, <1>1, <1>9
    <3>4. j = n \/ j < n
      BY <2>1, <1>4 DEF Places
    <3>5. QED BY <3>2, <3>3, <3>4, <3>1
  <2>7. stk'[k] = stk[k]
    <3>1. k \in 1 .. d
      BY <2>3, <2>6, <1>1, <1>9 DEF WordOf
    <3>2. QED BY <3>1, <1>12 DEF SameBelow
  <2>8. QED BY <2>1, <2>4, <2>7, <1>21
<1>24. \A i \in 1 .. n : i = n \/ (i < n /\ cs[i] = calls[i])
  BY <1>4, <1>14
<1>25. Stored(h, cs, stk')
  <2>1. SameBelow(stk, stk', Top.depth)
    BY <1>9, <1>12 DEF SameBelow
  <2>2. \A q \in Places : q < n => g[q] = h[q]
    BY <1>4, <1>15 DEF Places
  <2>3. ASSUME NEW i \in 1 .. n, i < n PROVE CxStored(calls[i], h, i, stk') /\ ArgsStored(calls[i], stk')
    BY <2>1, <2>2, <2>3, <1>4, StoredAround
  <2>4. CxStored(Top, g, n, stk) /\ ArgsStored(Top, stk)
    BY <1>4 DEF ValueInv, Stored
  <2>5. CxStored(c, h, n, stk')
    <3> SUFFICES ASSUME c.cx, NEW q \in Places, Newest(h, q, n), h[q].reg = CX,
                        NEW k \in WordOf(c.depth + LeakWord(c.own))
                 PROVE  stk'[k] = h[q].val
      BY DEF CxStored
    <3>1. Newest(g, q, n) /\ g[q] = h[q]
      BY <2>2 DEF Newest, Takes, Live
    <3>2. stk[k] = g[q].val
      BY <2>4, <3>1, <1>5 DEF CxStored
    <3>3. k \in 1 .. d
      BY <1>1, <1>5, <1>9 DEF WordOf
    <3>4. QED BY <3>1, <3>2, <3>3, <1>12 DEF SameBelow
  <2>6. ArgsStored(c, stk')
    <3>1. After(c) = After(Top)
      BY <1>5 DEF After, CxWord
    <3>2. /\ Len(c.args) = m + 1 /\ c.args[m + 1] = res.val
          /\ \A a \in 1 .. m : c.args[a] = Top.args[a]
      BY <1>1, <1>5, HeldFacts, AppendProperties
    <3> SUFFICES ASSUME NEW a \in 1 .. m + 1, NEW k \in WordOf(After(Top) - Word * a)
                 PROVE  stk'[k] = c.args[a]
      BY <3>1, <3>2 DEF ArgsStored
    <3>3. CASE a = m + 1
      <4>1. k \in WordOf(w0)
        BY <3>3 DEF w0
      <4>2. k \in 1 .. Len(stk)
        <5>1. w0 + Word <= After(Top)
          BY <1>10
        <5>2. w0 \in Nat /\ Word \in Nat /\ Len(stk) \in Nat /\ After(Top) <= Len(stk)
          BY <1>1, <1>4, <1>7, <1>9, <1>10
        <5>3. QED BY ONLY <4>1, <5>1, <5>2, <1>9 DEF WordOf
      <4>3. stk'[k] = res.val
        BY <4>1, <4>2, <1>8, <1>11
      <4>4. QED BY <3>2, <3>3, <4>3
    <3>4. CASE a \in 1 .. m
      <4>1. k \notin WordOf(w0) /\ k \in 1 .. Len(stk)
        BY <3>4, <1>4, <1>7, <1>10
      <4>2. stk[k] = Top.args[a]
        BY <2>4, <3>4 DEF ArgsStored
      <4>3. QED BY <3>2, <3>4, <4>1, <4>2, <1>8, <1>11
    <3>5. QED BY <3>3, <3>4, <1>6
  <2>7. \A i \in 1 .. n : CxStored(cs[i], h, i, stk') /\ ArgsStored(cs[i], stk')
    BY <2>3, <2>5, <2>6, <1>14, <1>24
  <2>8. QED BY <2>7, <1>14 DEF Stored
<1>26. \A i \in 1 .. n : cs[i].kind = "call" => cs[i].own.val = cs[i].id
  BY <1>2, <1>4, <1>5, <1>14, <1>24 DEF ValueInv
<1>27. nextLeak' = leaks'
  BY <1>2 DEF ValueInv
<1>28. QED BY <1>2, <1>3, <1>8, <1>13, <1>14, <1>16, <1>18, <1>22, <1>23, <1>25, <1>26, <1>27 DEF ValueInv

\* What the instructions around a call do to the registers and the stack.
LEMMA CallMachine ==
    ASSUME StackInv, Covered, EmitCall
    PROVE  /\ Top.own.reg \in Regs /\ Top.own.reg # CX
           /\ regs'[Top.own.reg] = Top.id
           /\ Top.own.reg # AX => regs'[AX] = regs[Top.own.reg]
           /\ \A r \in Regs : r # AX /\ r # CX /\ r # Top.own.reg => regs'[r] = regs[r]
           /\ CX \in used =>
                \A v : (\A k \in WordOf(Top.depth + LeakWord(Top.own)) : stk[k] = v) => regs'[CX] = v
           /\ SameBelow(stk, stk', Top.depth + LeakWord(Top.own))
<1> DEFINE ret == Top.own
           n == Len(calls)
           space == ArgsStackSpace(Top.sizes)
           added == Popped(stk, space)
           called == [regs EXCEPT ![AX] = Top.id, ![CX] = Junk]
           w == WordAt(added, 0)
           popped == IF CX \in used THEN [called EXCEPT ![CX] = w] ELSE called
           base == Top.depth + LeakWord(ret)
<1>1. /\ TypeOK /\ calls \in Seq(CallRecord) /\ used \in SUBSET Regs
      /\ regs \in [Regs -> Nat] /\ stk \in Seq(Nat) /\ Len(stk) \in Nat
      /\ AX \in Regs /\ CX \in Regs /\ AX # CX /\ Word \in Nat \ {0}
  BY ExprGenAssumption, NRegsAssumption DEF StackInv, TypeOK, AX, CX, Regs
<1>2. /\ res = NoReg /\ Top.kind = "call"
      /\ stk' = (IF CX \in used THEN Popped(added, Word) ELSE added)
      /\ regs' = (IF ret.reg # AX
                   THEN [popped EXCEPT ![AX] = popped[ret.reg], ![ret.reg] = popped[AX]]
                   ELSE popped)
  BY DEF EmitCall
<1>3. /\ calls # << >> /\ Top \in CallRecord /\ CallOK(Top, kinds)
      /\ Depth(calls) = After(Top) /\ Top.cx = (CX \in used)
  BY <1>1, <1>2, TopFacts, SavedIsUsed
<1>4. ret.reg \in Regs /\ ret.reg # CX
  <2>1. ret.reg \in CallRegs
    BY <1>2, <1>3 DEF CallOK
  <2>2. QED BY <2>1, ExprGenAssumption DEF Covered
<1>5. /\ space \in Nat /\ base \in Nat
      /\ Len(stk) = base + (IF CX \in used THEN Word ELSE 0) + space
  <2>1. /\ After(Top) \in Nat /\ Top.depth \in Nat /\ LeakWord(ret) \in Nat /\ space \in Nat
        /\ After(Top) = Top.depth + LeakWord(ret) + CxWord(Top) + space
    BY <1>3, AfterIsNat
  <2>2. LeakWord(res) = 0
    BY <1>2, NoRegIsGPReg DEF LeakWord
  <2>3. Len(stk) = After(Top)
    BY <2>1, <2>2, <1>3 DEF StackInv
  <2>4. CxWord(Top) = IF CX \in used THEN Word ELSE 0
    BY <1>3 DEF CxWord
  <2>5. QED BY <2>1, <2>3, <2>4, <1>1
<1> HIDE DEF space, base, w
<1>6. /\ added \in Seq(Nat) /\ Len(added) = base + IF CX \in used THEN Word ELSE 0
      /\ SameBelow(stk, added, Len(added))
  <2>1. space <= Len(stk)
    BY <1>1, <1>5
  <2>2. /\ added \in Seq(Nat) /\ Len(added) = Len(stk) - space
        /\ SameBelow(stk, added, Len(stk) - space)
    BY <2>1, <1>1, <1>5, PopFacts
  <2>3. QED BY <2>2, <1>1, <1>5
<1>7. /\ called \in [Regs -> Nat \cup {Top.id, Junk}]
      /\ called[AX] = Top.id /\ \A r \in Regs : r # AX /\ r # CX => called[r] = regs[r]
  BY <1>1
<1> HIDE DEF added, called
<1>8. /\ DOMAIN popped = Regs /\ popped[AX] = Top.id
      /\ \A r \in Regs : r # AX /\ r # CX => popped[r] = regs[r]
      /\ CX \in used => popped[CX] = w
  <2>1. CASE CX \in used
    BY <2>1, <1>1, <1>7
  <2>2. CASE CX \notin used
    BY <2>2, <1>1, <1>7
  <2>3. QED BY <2>1, <2>2
<1> HIDE DEF popped
<1>9. /\ regs'[ret.reg] = Top.id
      /\ ret.reg # AX => regs'[AX] = regs[ret.reg]
      /\ \A r \in Regs : r # AX /\ r # CX /\ r # ret.reg => regs'[r] = regs[r]
      /\ CX \in used => regs'[CX] = w
  <2>1. CASE ret.reg = AX
    BY <2>1, <1>1, <1>2, <1>4, <1>8
  <2>2. CASE ret.reg # AX
    <3>1. regs' = [popped EXCEPT ![AX] = popped[ret.reg], ![ret.reg] = popped[AX]]
      BY <2>2, <1>2
    <3>2. \A r \in Regs : regs'[r] = IF r = ret.reg THEN popped[AX]
                                     ELSE IF r = AX THEN popped[ret.reg] ELSE popped[r]
      BY <3>1, <2>2, <1>1, <1>4, <1>8
    <3>3. QED BY <3>2, <2>2, <1>1, <1>4, <1>8
  <2>3. QED BY <2>1, <2>2
<1>10. CX \in used => \A v : (\A k \in WordOf(base) : stk[k] = v) => regs'[CX] = v
  <2> SUFFICES ASSUME CX \in used, NEW v, \A k \in WordOf(base) : stk[k] = v PROVE w = v
    BY <1>9
  <2>1. Len(added) = base + Word
    BY <1>6
  <2>2. 0 + Word <= Len(added) /\ Len(added) - 0 - Word = base
    BY <2>1, <1>1, <1>5
  <2>3. \A k \in WordOf(base) : added[k] = v
    <3>1. \A k \in WordOf(base) : k \in 1 .. Len(added)
      BY <2>1, <1>1, <1>5 DEF WordOf
    <3>2. QED BY <3>1, <1>6 DEF SameBelow
  <2>4. \A z : (\A k \in WordOf(Len(added) - 0 - Word) : added[k] = z) => WordAt(added, 0) = z
    BY <2>2, <1>6, WordAtFacts
  <2>5. QED BY <2>2, <2>3, <2>4 DEF w
<1>11. SameBelow(stk, stk', base)
  <2>1. CASE CX \in used
    <3>1. Len(added) = base + Word
      BY <2>1, <1>6
    <3>2. Word <= Len(added) /\ Len(added) - Word = base
      BY <3>1, <1>1, <1>5
    <3>3. SameBelow(added, Popped(added, Word), Len(added) - Word)
      BY <3>2, <1>1, <1>6, PopFacts
    <3>4. \A k \in 1 .. base : k \in 1 .. Len(added)
      BY <3>1, <1>1, <1>5
    <3>5. QED BY <2>1, <3>2, <3>3, <3>4, <1>2, <1>6 DEF SameBelow
  <2>2. CASE CX \notin used
    BY <2>2, <1>2, <1>5, <1>6 DEF SameBelow
  <2>3. QED BY <2>1, <2>2
<1>12. QED BY <1>4, <1>9, <1>10, <1>11 DEF base

LEMMA ValueEmitCall ==
    ASSUME ValueInv, Covered, EmitCall
    PROVE  ValueInv'
<1> DEFINE ret == Top.own
           n == Len(calls)
           g == Owners
           cs == Front(calls)
           base == Top.depth + LeakWord(ret)
<1>1. /\ StackInv /\ TypeOK /\ PoolOK(g, used, kinds) /\ Ordered(g, used, kinds, nextLeak)
      /\ g \in Owning /\ used \in SUBSET Regs /\ regs \in [Regs -> Nat]
      /\ AX \in Regs /\ CX \in Regs /\ AX # CX /\ Word \in Nat \ {0}
  BY ValueFacts
<1>2. /\ res = NoReg /\ Top.kind = "call" /\ res' = ret /\ calls' = cs
      /\ UNCHANGED <<pool, nodes, ctx>>
  BY DEF EmitCall
<1>3. StackInv'
  BY <1>1, StackEmitCall
<1>4. /\ calls # << >> /\ n \in Nat \ {0} /\ n \in Places /\ n + 1 \in Places
      /\ Top \in CallRecord /\ CallOK(Top, kinds) /\ g[n] = ret /\ g[n + 1] = NoReg
      /\ FreeFrom(g, n + 1) /\ Top = calls[n] /\ n \in 1 .. n
  BY <1>1, <1>2, TopFacts
<1>5. /\ ret.reg \in Regs /\ ret.reg # CX /\ regs'[ret.reg] = Top.id
      /\ ret.reg # AX => regs'[AX] = regs[ret.reg]
      /\ \A r \in Regs : r # AX /\ r # CX /\ r # ret.reg => regs'[r] = regs[r]
      /\ CX \in used => \A v : (\A k \in WordOf(base) : stk[k] = v) => regs'[CX] = v
      /\ SameBelow(stk, stk', base)
  BY <1>1, CallMachine
<1>6. ret \in GPReg /\ ret # NoReg /\ Top.depth \in Nat /\ LeakWord(ret) \in Nat /\ base \in Nat
  <2>1. ret \in GPReg /\ Top.depth \in Nat
    BY <1>4 DEF CallRecord
  <2>2. ret # NoReg
    BY <1>5, NoRegIsGPReg
  <2>3. LeakWord(ret) \in Nat
    BY <1>1 DEF LeakWord
  <2>4. QED BY <2>1, <2>2, <2>3
<1>7. Owners' = g
  <2>1. /\ Owners' \in Owning /\ Owners'[n] = ret /\ Owners'[n + 1] = NoReg
        /\ \A q \in Places : q # n /\ q # n + 1 => Owners'[q] = g[q]
    BY <1>1, <1>2, <1>4, <1>6, ReturnFacts DEF pool
  <2>2. \A q \in Places : Owners'[q] = g[q]
    BY <2>1, <1>4
  <2>3. QED BY <2>1, <2>2, <1>1 DEF Owning
<1>8. /\ Len(cs) = n - 1
      /\ \A i \in 1 .. n - 1 : i \in 1 .. n /\ i < n /\ cs[i] = calls[i]
      /\ \A q \in Places : q < n =>
           (IsCallAt(calls, q) <=> IsCallAt(cs, q)) /\ SlotAt(calls, q) = SlotAt(cs, q)
      /\ ~IsCallAt(cs, n) /\ SlotAt(cs, n) = Top.depth
  BY <1>1, <1>4, FrontSame
<1>9. SlotAt(calls, n) = Top.depth /\ IsCallAt(calls, n) /\ ret.val = Top.id
  BY <1>2, <1>4 DEF SlotAt, IsCallAt, ValueInv
<1> HIDE DEF cs, base
<1>10. \A i \in Places : Live(g, i) => i < n \/ i = n
  <2>1. \A i \in Places : i < n \/ i = n \/ i >= n + 1
    BY <1>4 DEF Places
  <2>2. QED BY <2>1, <1>4, NoRegIsGPReg DEF Live, FreeFrom
<1>11. ASSUME NEW i \in Places, i < n, NEW z, Right(g, calls, i, z) PROVE Right(g, cs, i, z)
  <2>1. \A q \in Places : q <= i => q < n
    BY <1>4, <1>11 DEF Places
  <2>2. \A q \in Places : q <= i => g[q] = g[q] /\ (IsCallAt(calls, q) <=> IsCallAt(cs, q))
    BY <2>1, <1>8
  <2> HIDE DEF n, g
  <2>3. Right(g, calls, i, z)
    BY <1>11
  <2>4. QED BY ONLY i \in Places, <2>2, <2>3, RightSame
<1>12. InRegister(g, cs, regs')
  <2> SUFFICES ASSUME NEW i \in Places, Live(g, i), Untaken(g, i)
               PROVE  Right(g, cs, i, regs'[g[i].reg])
    BY DEF InRegister
  <2>1. CASE i = n
    BY <2>1, <1>4, <1>5, <1>8, <1>9 DEF Right
  <2>2. CASE i < n
    <3>1. g[i].reg \in Regs
      BY DEF Live
    <3>2. g[i].reg # ret.reg
      BY <2>2, <1>4, <1>5 DEF Untaken, Takes, Live
    <3>3. Right(g, calls, i, regs[g[i].reg])
      BY DEF ValueInv, InRegister
    <3>4. Newest(g, i, n)
      BY <2>2 DEF Newest, Untaken
    <3>5. CASE g[i].reg = AX
      <4>1. ret.reg # AX /\ regs'[AX] = regs[ret.reg]
        BY <3>2, <3>5, <1>5
      <4>2. Untaken(g, n)
        <5> SUFFICES ASSUME NEW q \in Places, Takes(g, q, n) PROVE FALSE
          BY DEF Untaken
        <5>1. n < q /\ (q < n \/ q = n)
          BY <1>10 DEF Takes
        <5>2. QED BY <5>1, <1>4 DEF Places
      <4>3. Right(g, calls, n, regs[ret.reg])
        BY <4>2, <1>4, <1>5 DEF ValueInv, InRegister, Live
      <4>4. ~IsCallAt(calls, i) => regs[ret.reg] = g[i].val
        BY <4>1, <4>3, <3>4, <3>5, <1>4, <1>9 DEF Right
      <4>5. ~IsCallAt(cs, i) => regs'[AX] = g[i].val
        BY <4>1, <4>4, <2>2, <1>8
      <4>6. QED BY <4>5, <3>5 DEF Right
    <3>6. CASE g[i].reg = CX
      <4>1. ~IsCallAt(calls, i)
        <5> SUFFICES ASSUME i \in 1 .. n, calls[i].kind = "call" PROVE FALSE
          BY DEF IsCallAt
        <5>1. CallOK(calls[i], kinds)
          BY <1>1 DEF StackInv, CallsOK
        <5>2. g[i] = calls[i].own
          BY <1>1, OwnersType DEF Owners, TypeOK
        <5>3. QED BY <5>1, <5>2, <3>6 DEF CallOK, Covered
      <4>2. CX \in used
        BY <3>6, <1>1 DEF PoolOK, FlagsExact, LeakedLast, Flagged
      <4>3. Top.cx
        BY <4>2, <1>1, <1>2, SavedIsUsed
      <4>4. \A k \in WordOf(base) : stk[k] = g[i].val
        BY <4>3, <3>4, <3>6, <1>4 DEF ValueInv, Stored, CxStored, base
      <4>5. regs'[CX] = g[i].val
        BY <4>2, <4>4, <1>5
      <4>6. ~IsCallAt(cs, i)
        BY <4>1, <2>2, <1>8
      <4>7. QED BY <4>5, <4>6, <3>6 DEF Right
    <3>7. CASE g[i].reg # AX /\ g[i].reg # CX
      BY <2>2, <3>1, <3>2, <3>3, <3>7, <1>5, <1>11
    <3>8. QED BY <3>5, <3>6, <3>7
  <2>3. QED BY <2>1, <2>2, <1>10
<1>13. InSlot(g, cs, stk')
  <2> SUFFICES ASSUME NEW i \in Places, NEW j \in Places, Live(g, i), Takes(g, j, i),
                      NEW k \in WordOf(SlotAt(cs, j))
               PROVE  Right(g, cs, i, stk'[k])
    BY DEF InSlot
  <2>1. (j < n \/ j = n) /\ i < n
    <3>1. (j < n \/ j = n) /\ i < j
      BY <1>10 DEF Takes
    <3>2. QED BY <3>1, <1>4 DEF Places
  <2>2. SlotAt(cs, j) = SlotAt(calls, j) /\ j \in 1 .. n
    <3>1. j \in 1 .. n
      BY <2>1, <1>4 DEF Places
    <3>2. SlotAt(cs, j) = SlotAt(calls, j)
      BY <2>1, <1>8, <1>9
    <3>3. QED BY <3>1, <3>2
  <2>3. Right(g, calls, i, stk[k])
    BY <2>2 DEF ValueInv, InSlot
  <2>4. g[j].leaked
    BY <1>1, TakerFacts
  <2>5. SlotAt(calls, j) \in Nat /\ SlotAt(calls, j) + Word <= base
    <3>1. SlotAt(calls, j) \in Nat /\ SlotAt(calls, j) + Word <= After(calls[j])
      BY <2>2, <2>4, <1>1, SlotFacts
    <3>2. CASE j = n
      BY <2>4, <3>1, <3>2, <1>1, <1>4, <1>6, <1>9 DEF LeakWord, base
    <3>3. CASE j < n
      <4>1. After(calls[j]) \in Nat /\ After(calls[j]) <= Top.depth
        BY <2>2, <3>3, <1>1, ZoneFacts
      <4>2. Top.depth <= base
        BY <1>6 DEF base
      <4>3. QED BY <3>1, <4>1, <4>2, <1>1, <1>6
    <3>4. QED BY <2>1, <3>2, <3>3
  <2>6. stk'[k] = stk[k]
    <3>1. k \in 1 .. base
      BY <2>2, <2>5, <1>1, <1>6 DEF WordOf
    <3>2. QED BY <3>1, <1>5 DEF SameBelow
  <2>7. QED BY <2>1, <2>3, <2>6, <1>11
<1>14. Stored(g, cs, stk')
  <2>1. SameBelow(stk, stk', Top.depth)
    <3>1. \A k \in 1 .. Top.depth : k \in 1 .. base
      BY <1>6 DEF base
    <3>2. QED BY <3>1, <1>5 DEF SameBelow
  <2>2. ASSUME NEW i \in 1 .. n - 1 PROVE CxStored(calls[i], g, i, stk') /\ ArgsStored(calls[i], stk')
    BY <2>1, <1>4, <1>8, StoredAround
  <2>3. QED BY <2>2, <1>8 DEF Stored
<1>15. \A i \in 1 .. n - 1 : cs[i].kind = "call" => cs[i].own.val = cs[i].id
  BY <1>8 DEF ValueInv
<1>16. nextLeak' = leaks' /\ Ordered(g, used', kinds', nextLeak')
  BY <1>1, <1>2 DEF ValueInv, pool
<1>17. QED BY <1>2, <1>3, <1>7, <1>8, <1>12, <1>13, <1>14, <1>15, <1>16 DEF ValueInv

\* In a unit with postfix operators nothing is leaked: the new register is the
\* only holder of its number, and the one with the address is free.
LEMMA ValuePostfixOp ==
    ASSUME ValueInv, Covered, PostfixOp
    PROVE  ValueInv'
<1> DEFINE x == Fresh(Top.id)
           n == Len(calls)
           rg == [regs EXCEPT ![x.reg] = x.val]
           u == used \cup {x.reg}
           g == Owners
           h == [g EXCEPT ![n] = x, ![n + 1] = NoReg]
           cs == Front(calls)
<1>1. /\ StackInv /\ TypeOK /\ PoolOK(g, used, kinds) /\ Ordered(g, used, kinds, nextLeak)
      /\ g \in Owning /\ used \in SUBSET Regs /\ regs \in [Regs -> Nat] /\ Len(stk) \in Nat
  BY ValueFacts
<1>2. /\ res # NoReg /\ Top.kind = "postfix" /\ AllocReg /\ FreeReg(res, u, rg, FreshStk)
      /\ res' = x /\ calls' = cs /\ UNCHANGED <<nodes, ctx>>
  BY DEF PostfixOp
<1>3. StackInv'
  BY <1>1, StackPostfixOp
<1>4. /\ calls # << >> /\ n \in Nat \ {0} /\ n \in Places /\ n + 1 \in Places
      /\ Top \in CallRecord /\ CallOK(Top, kinds) /\ g[n + 1] = res
      /\ FreeFrom(g, n + 2) /\ Top = calls[n] /\ Depth(calls) = After(Top)
  BY <1>1, <1>2, TopFacts
<1>5. Top.id \in Nat /\ Top.depth \in Nat /\ "postfix" \in kinds /\ g[n] = NoReg
  BY <1>1, <1>2, <1>4, TopFacts DEF CallRecord, CallOK
<1>6. /\ x \in GPReg /\ x.reg \in Regs /\ x # NoReg /\ x.val = Top.id
      /\ ~x.leaked => x.reg \notin used
      /\ x.leaked => "postfix" \notin kinds
      /\ SameBelow(stk, FreshStk, Len(stk)) /\ kinds' = kinds
  BY <1>1, <1>2, <1>5, AllocFacts
<1>7. nextLeak' = leaks'
  <2>1. n + 2 \in Places
    BY <1>4 DEF Places
  <2>2. FreeFrom(Owners, n + 2) /\ Top.id \in Nat /\ AllocReg
    BY <1>2, <1>4, <1>5
  <2>3. QED BY ONLY <2>1, <2>2, ValueInv, Covered, AllocOrdered
<1> HIDE DEF x
<1>8. ~x.leaked /\ ~res.leaked /\ \A i \in Places : ~g[i].leaked
  BY <1>1, <1>4, <1>5, <1>6 DEF PoolOK, LeakedLast
<1>9. /\ regs' = rg /\ stk' = FreshStk
      /\ rg[x.reg] = x.val /\ \A r \in Regs : r # x.reg => rg[r] = regs[r]
  BY <1>1, <1>2, <1>6, <1>8 DEF FreeReg
<1> HIDE DEF rg
<1>10. /\ h \in Owning /\ h[n] = x /\ h[n + 1] = NoReg
       /\ \A i \in Places : i # n /\ i # n + 1 => h[i] = g[i]
  BY <1>1, <1>4, <1>6, NoRegIsGPReg DEF Owning
<1>11. Owners' = h
  BY <1>1, <1>2, <1>4, <1>6, ReturnFacts
<1>12. /\ Len(cs) = n - 1
       /\ \A i \in 1 .. n - 1 : i \in 1 .. n /\ i < n /\ cs[i] = calls[i]
       /\ \A q \in Places : q < n =>
            (IsCallAt(calls, q) <=> IsCallAt(cs, q)) /\ SlotAt(calls, q) = SlotAt(cs, q)
       /\ ~IsCallAt(cs, n)
  BY <1>1, <1>4, FrontSame
<1> HIDE DEF h, cs
<1>13. \A i \in Places : /\ i < n \/ i = n \/ i = n + 1 \/ i >= n + 2
                         /\ i < n => i # n /\ i # n + 1
  BY <1>4 DEF Places
<1>14. \A i \in Places : Live(h, i) => ~h[i].leaked /\ (i < n \/ i = n)
  BY <1>4, <1>8, <1>10, <1>13, NoRegIsGPReg DEF Live, FreeFrom
\* No register has two holders, before or after.
<1>15. \A i, j \in Places : Live(g, i) => ~Takes(g, j, i)
  <2> SUFFICES ASSUME NEW i \in Places, NEW j \in Places, Live(g, i), Takes(g, j, i) PROVE FALSE
    OBVIOUS
  <2>1. QED BY <1>1, <1>8, TakerFacts
<1>16. \A i, j \in Places : Live(h, i) => ~Takes(h, j, i)
  <2> SUFFICES ASSUME NEW i \in Places, NEW j \in Places, Live(h, i), Takes(h, j, i) PROVE FALSE
    OBVIOUS
  <2>1. Flagged(h, i) /\ Flagged(h, j) /\ h[i].reg = h[j].reg /\ i < j
    BY <1>14 DEF Takes, Flagged, Live
  <2>2. FlagsExact(h, used')
    BY <1>3, <1>11 DEF StackInv, PoolOK
  <2>3. i = j
    BY <2>1, <2>2 DEF FlagsExact
  <2>4. QED BY <2>1, <2>3 DEF Places
<1>17. Ordered(h, used', kinds, nextLeak')
  <2>1. \A i \in Places : ~h[i].leaked
    BY <1>8, <1>10, <1>13, NoRegIsGPReg
  <2>2. QED BY <2>1, <1>5 DEF Ordered
<1>18. ASSUME NEW i \in Places, i < n, NEW z, Right(g, calls, i, z) PROVE Right(h, cs, i, z)
  <2>1. \A q \in Places : q <= i => q < n
    BY <1>4, <1>18 DEF Places
  <2>2. \A q \in Places : q <= i => g[q] = h[q] /\ (IsCallAt(calls, q) <=> IsCallAt(cs, q))
    BY <2>1, <1>10, <1>12, <1>13
  <2> HIDE DEF n, g
  <2>3. Right(g, calls, i, z)
    BY <1>18
  <2>4. QED BY ONLY i \in Places, <2>2, <2>3, RightSame
<1>19. InRegister(h, cs, regs')
  <2> SUFFICES ASSUME NEW i \in Places, Live(h, i) PROVE Right(h, cs, i, regs'[h[i].reg])
    BY DEF InRegister
  <2>1. CASE i = n
    BY <2>1, <1>9, <1>10, <1>12 DEF Right
  <2>2. CASE i < n
    <3>1. h[i] = g[i] /\ Live(g, i) /\ Untaken(g, i) /\ g[i].reg \in Regs
      BY <2>2, <1>10, <1>13, <1>15 DEF Live, Untaken
    <3>2. Right(g, calls, i, regs[g[i].reg])
      BY <3>1 DEF ValueInv, InRegister
    <3>3. g[i].reg # x.reg
      BY <3>1, <1>1, <1>6, <1>8 DEF PoolOK, FlagsExact, Flagged
    <3>4. QED BY <2>2, <3>1, <3>2, <3>3, <1>9, <1>18
  <2>3. QED BY <2>1, <2>2, <1>14
<1>20. InSlot(h, cs, stk')
  BY <1>16 DEF InSlot
<1>21. Stored(h, cs, stk')
  <2>1. SameBelow(stk, stk', Top.depth)
    <3>1. Top.depth <= Len(stk)
      <4>1. /\ After(Top) \in Nat /\ LeakWord(Top.own) \in Nat /\ CxWord(Top) \in Nat
            /\ ArgsStackSpace(Top.sizes) \in Nat
            /\ Top.depth + LeakWord(Top.own) + CxWord(Top) + ArgsStackSpace(Top.sizes) = After(Top)
        BY <1>4, AfterIsNat
      <4>2. Len(stk) = Depth(calls) + LeakWord(res) /\ LeakWord(res) = 0
        BY <1>1, <1>8 DEF StackInv, LeakWord
      <4>3. QED BY <4>1, <4>2, <1>1, <1>4, <1>5
    <3>2. \A k \in 1 .. Top.depth : k \in 1 .. Len(stk)
      BY <3>1, <1>1, <1>5
    <3>3. QED BY <3>2, <1>6, <1>9 DEF SameBelow
  <2>2. \A q \in Places : q < n => g[q] = h[q]
    BY <1>10, <1>13
  <2>3. ASSUME NEW i \in 1 .. n - 1 PROVE CxStored(calls[i], h, i, stk') /\ ArgsStored(calls[i], stk')
    BY <2>1, <2>2, <1>4, <1>12, StoredAround
  <2>4. QED BY <2>3, <1>12 DEF Stored
<1>22. \A i \in 1 .. n - 1 : cs[i].kind = "call" => cs[i].own.val = cs[i].id
  BY <1>12 DEF ValueInv
<1>23. QED BY <1>2, <1>3, <1>6, <1>7, <1>11, <1>12, <1>17, <1>19, <1>20, <1>21, <1>22 DEF ValueInv

\* Between expressions nothing is handed out.
LEMMA NothingLive ==
    ASSUME NEW u \in SUBSET Regs, NEW ks, NEW next, NEW rg, NEW st,
           FlagsExact(OwnersOf(<< >>, NoReg), u)
    PROVE  /\ Ordered(OwnersOf(<< >>, NoReg), u, ks, next)
           /\ InRegister(OwnersOf(<< >>, NoReg), << >>, rg)
           /\ InSlot(OwnersOf(<< >>, NoReg), << >>, st)
           /\ Stored(OwnersOf(<< >>, NoReg), << >>, st)
<1> DEFINE g == OwnersOf(<< >>, NoReg)
<1>1. FreeFrom(g, 1)
  <2>1. << >> \in Seq(CallRecord) /\ Len(<< >>) + 1 = 1
    OBVIOUS
  <2>2. FreeFrom(OwnersOf(<< >>, NoReg), Len(<< >>) + 1)
    BY ONLY <2>1, OwnersType, NoRegIsGPReg
  <2>3. QED BY <2>1, <2>2
<1>2. \A i \in Places : ~Live(g, i) /\ g[i].leaked = FALSE
  <2>1. \A i \in Places : i >= 1
    BY DEF Places
  <2>2. QED BY <2>1, <1>1, NoRegIsGPReg DEF FreeFrom, Live
<1> HIDE DEF g
<1>3. u = {}
  BY <1>2 DEF FlagsExact, Flagged, g
<1>4. Ordered(g, u, ks, next)
  BY <1>2, <1>3 DEF Ordered, Flagged
<1>5. InRegister(g, << >>, rg) /\ InSlot(g, << >>, st)
  BY <1>2 DEF InRegister, InSlot
<1>6. Stored(g, << >>, st)
  BY DEF Stored
<1>7. QED BY <1>4, <1>5, <1>6 DEF g

LEMMA ValueEnd ==
    ASSUME ValueInv, End
    PROVE  ValueInv'
<1>1. StackInv /\ nextLeak = leaks
  BY DEF ValueInv
<1>2. calls' = << >> /\ res' = NoReg /\ UNCHANGED <<kinds, nextLeak, leaks>>
  BY DEF End
<1>3. StackInv'
  BY <1>1, StackEnd
<1>4. Owners' = OwnersOf(<< >>, NoReg)
  BY <1>2 DEF Owners
<1>5. used' \in SUBSET Regs /\ FlagsExact(OwnersOf(<< >>, NoReg), used')
  BY <1>3, <1>4 DEF StackInv, TypeOK, PoolOK
<1>6. /\ Ordered(OwnersOf(<< >>, NoReg), used', kinds', nextLeak')
      /\ InRegister(OwnersOf(<< >>, NoReg), << >>, regs')
      /\ InSlot(OwnersOf(<< >>, NoReg), << >>, stk')
      /\ Stored(OwnersOf(<< >>, NoReg), << >>, stk')
  BY <1>5, NothingLive
<1>7. QED BY <1>1, <1>2, <1>3, <1>4, <1>6 DEF ValueInv

LEMMA ValueBegin ==
    ASSUME ValueInv, NEW c \in {"expr", "cond", "return"}, Begin(c)
    PROVE  ValueInv'
<1>1. StackInv /\ nextLeak = leaks
  BY DEF ValueInv
<1>2. UNCHANGED <<kinds, used, nextLeak, leaks, stk, calls, res, nodes>> /\ ctx = "idle"
  BY DEF Begin, pool
<1>3. StackInv'
  BY <1>1, StackBegin
<1>4. calls' = << >> /\ res' = NoReg
  BY <1>1, <1>2 DEF StackInv
<1>5. Owners' = OwnersOf(<< >>, NoReg)
  BY <1>4 DEF Owners
<1>6. used' \in SUBSET Regs /\ FlagsExact(OwnersOf(<< >>, NoReg), used')
  BY <1>3, <1>5 DEF StackInv, TypeOK, PoolOK
<1>7. /\ Ordered(OwnersOf(<< >>, NoReg), used', kinds', nextLeak')
      /\ InRegister(OwnersOf(<< >>, NoReg), << >>, regs')
      /\ InSlot(OwnersOf(<< >>, NoReg), << >>, stk')
      /\ Stored(OwnersOf(<< >>, NoReg), << >>, stk')
  BY <1>6, NothingLive
<1>8. QED BY <1>1, <1>2, <1>3, <1>4, <1>5, <1>7 DEF ValueInv

LEMMA ValueStep ==
    ASSUME ValueInv, Covered, [Next]_vars
    PROVE  ValueInv'
<1>1. CASE \E c \in {"expr", "cond", "return"} : Begin(c)
  BY <1>1, ValueBegin
<1>2. CASE EnterLeaf
  BY <1>2, ValueEnterLeaf
<1>3. CASE \E k \in AllKinds : EnterOp(k)
  BY <1>3, ValueEnterOp
<1>4. CASE \E sizes \in SeqOf(ArgSizes, MaxArgs) : EnterCall(sizes)
  BY <1>4, ValueEnterCall
<1>5. CASE UnaryOp
  BY <1>5, ValueUnaryOp
<1>6. CASE PostfixOp
  BY <1>6, ValuePostfixOp
<1>7. CASE LhsDone
  BY <1>7, ValueLhsDone
<1>8. CASE RhsDone
  BY <1>8, ValueRhsDone
<1>9. CASE ArgDone
  BY <1>9, ValueArgDone
<1>10. CASE EmitCall
  BY <1>10, ValueEmitCall
<1>11. CASE End
  BY <1>11, ValueEnd
<1>12. CASE Abort \/ UNCHANGED vars
  <2>1. UNCHANGED <<kinds, used, nextLeak, leaks, regs, stk, calls, res>>
    BY <1>12 DEF Abort, pool, vars
  <2>2. StackInv'
    BY StackStep DEF ValueInv
  <2>3. QED BY <2>1, <2>2 DEF ValueInv, Owners
<1>13. QED
  BY <1>1, <1>2, <1>3, <1>4, <1>5, <1>6, <1>7, <1>8, <1>9, <1>10, <1>11, <1>12 DEF Next

LEMMA ValueInit ==
    ASSUME Init
    PROVE  ValueInv
<1>1. /\ used = {} /\ nextLeak = leaks /\ calls = << >> /\ res = NoReg
  BY DEF Init
<1>2. StackInv
  BY StackInit
<1>3. Owners = OwnersOf(<< >>, NoReg)
  BY <1>1 DEF Owners
<1>4. used \in SUBSET Regs /\ FlagsExact(OwnersOf(<< >>, NoReg), used)
  BY <1>2, <1>3 DEF StackInv, TypeOK, PoolOK
<1>5. /\ Ordered(Owners, used, kinds, nextLeak) /\ InRegister(Owners, calls, regs)
      /\ InSlot(Owners, calls, stk) /\ Stored(Owners, calls, stk)
  BY <1>1, <1>3, <1>4, NothingLive
<1>6. QED BY <1>1, <1>2, <1>5 DEF ValueInv

LEMMA ValueAlways ==
    ASSUME Covered
    PROVE  Spec => []ValueInv
<1>1. Init => ValueInv
  BY ValueInit
<1>2. ValueInv /\ [Next]_vars => ValueInv'
  BY ValueStep
<1>3. QED BY <1>1, <1>2, PTL DEF Spec

-----------------------------------------------------------------------------
(* What the invariant means for the emitted code.                          *)

\* Every operand that an instruction reads is the value of its subexpression,
\* for any expression and any number of registers: what was evaluated since it
\* was loaded has leaked its register and restored it, called functions around
\* it and shuffled ax and cx, and has put it back.
THEOREM OperandsKept ==
    ASSUME Covered
    PROVE  Spec => []OperandsIntact
<1>1. ValueInv => OperandsIntact
  <2> SUFFICES ASSUME ValueInv, res # NoReg PROVE OperandsIntact
    BY DEF OperandsIntact
  <2> DEFINE n == Len(calls)
  <2>1. regs[res.reg] = res.val
    BY ResultRight
  <2>2. ASSUME Top.kind \in {"bin", "bool"}, Top.own # NoReg
        PROVE  regs[Top.own.reg] = Top.own.val
    <3>1. /\ StackInv /\ calls # << >> /\ n \in Nat /\ n \in Places /\ n + 1 \in Places
          /\ Owners[n] = Top.own /\ Owners[n + 1] = res /\ FreeFrom(Owners, n + 2) /\ Top = calls[n]
      BY <2>2, TopFacts DEF ValueInv
    <3>2. Top.own.reg # res.reg /\ Top.own.reg \in Regs
      BY <2>2, <3>1, OperandsApart
    <3>3. Untaken(Owners, n)
      <4>1. \A q \in Places : n < q => q = n + 1 \/ q >= n + 2
        BY <3>1 DEF Places
      <4>2. QED BY <4>1, <3>1, <3>2, NoRegIsGPReg DEF Untaken, Takes, Live, FreeFrom
    <3>4. Right(Owners, calls, n, regs[Top.own.reg])
      BY <3>1, <3>2, <3>3 DEF ValueInv, InRegister, Live
    <3>5. QED BY <2>2, <3>1, <3>4 DEF Right, IsCallAt
  <2>3. QED BY <2>1, <2>2 DEF OperandsIntact
<1>2. QED BY <1>1, ValueAlways, PTL

\* At every call instruction each argument is in the word where the callee
\* looks for it, whatever the later arguments pushed and popped above it.
THEOREM ArgumentsInPlace ==
    ASSUME Covered
    PROVE  Spec => []ArgsInPlace
<1>1. ValueInv => ArgsInPlace
  <2> SUFFICES ASSUME ValueInv, res = NoReg, Top.kind = "call", NEW i \in 1 .. Len(Top.args)
               PROVE  WordAt(stk, Word * (i - 1)) = Top.args[i]
    BY DEF ArgsInPlace
  <2>1. /\ StackInv /\ stk \in Seq(Nat) /\ Len(stk) \in Nat /\ Len(stk) = Depth(calls)
        /\ Word \in Nat \ {0}
    BY ValueFacts
  <2>2. /\ Top \in CallRecord /\ Depth(calls) = After(Top) /\ Top = calls[Len(calls)]
        /\ Len(calls) \in 1 .. Len(calls) /\ CallOK(Top, kinds)
    BY <2>1, TopFacts
  <2>3. Top.sizes \in Seq(ArgSizes) /\ Top.args \in Seq(Nat) /\ Len(Top.args) <= Len(Top.sizes)
    BY <2>2 DEF CallRecord, CallOK
  <2>4. \A k \in WordOf(Len(stk) - Word * i) : stk[k] = Top.args[i]
    BY <2>1, <2>2 DEF ValueInv, Stored, ArgsStored
  <2>5. /\ Word * (i - 1) \in Nat /\ Word * (i - 1) + Word = Word * i /\ Word * i \in Nat
        /\ Word * i <= Len(stk)
    <3>1. i - 1 \in Nat /\ (i - 1) + 1 = i /\ i \in Nat \ {0} /\ Len(Top.sizes) \in Nat
          /\ i <= Len(Top.sizes)
      BY <2>3
    <3>2. Word * (i - 1) \in Nat /\ Word * (i - 1) + Word = Word * i
      BY <3>1, WordMultiple
    <3>3. Word * i <= Word * Len(Top.sizes) /\ Word * i \in Nat /\ Word * Len(Top.sizes) \in Nat
      BY <3>1, WordMonotone, WordMultiple
    <3>4. Word * Len(Top.sizes) <= After(Top)
      <4>1. /\ After(Top) \in Nat /\ Top.depth \in Nat /\ LeakWord(Top.own) \in Nat
            /\ CxWord(Top) \in Nat /\ ArgsStackSpace(Top.sizes) \in Nat
            /\ Top.depth + LeakWord(Top.own) + CxWord(Top) + ArgsStackSpace(Top.sizes) = After(Top)
        BY <2>2, AfterIsNat
      <4>2. ArgsStackSpace(Top.sizes) = Word * Len(Top.sizes)
        BY <2>3, SpaceOfWords DEF Covered
      <4>3. QED BY <4>1, <4>2
    <3> DEFINE p == Word * i
               t == Word * Len(Top.sizes)
    <3> HIDE DEF p, t
    <3>5. p <= Len(stk)
      BY <3>3, <3>4, <2>1, <2>2 DEF p, t
    <3>6. QED BY <3>2, <3>3, <3>5 DEF p
  <2> DEFINE off == Word * (i - 1)
             p == Word * i
  <2>6. off \in Nat /\ off + Word = p /\ p \in Nat /\ p <= Len(stk)
        /\ \A k \in WordOf(Len(stk) - p) : stk[k] = Top.args[i]
    BY <2>4, <2>5
  <2> HIDE DEF off, p
  <2>7. off + Word <= Len(stk) /\ Len(stk) - off - Word = Len(stk) - p
    BY <2>1, <2>6
  <2>8. \A v : (\A k \in WordOf(Len(stk) - off - Word) : stk[k] = v) => WordAt(stk, off) = v
    BY <2>1, <2>6, <2>7, WordAtFacts
  <2>9. QED BY <2>6, <2>7, <2>8 DEF off
<1>2. QED BY <1>1, ValueAlways, PTL
=============================================================================
