--------------------------- MODULE RegAllocProofs ---------------------------
(***************************************************************************)
(* Theorems of RegAlloc, for every number of registers, every value set    *)
(* and every operator.                                                     *)
(***************************************************************************)
EXTENDS RegAlloc, SequenceTheorems, FiniteSetTheorems, WellFoundedInduction, TLAPS

-----------------------------------------------------------------------------
(* The choices of alloc_reg.                                               *)

\* The least-number principle.
LEMMA LeastNatural ==
    ASSUME NEW S \in SUBSET Nat, S # {}
    PROVE  \E m \in S : \A s \in S : m <= s
<1> DEFINE Less == {p \in Nat \X Nat : p[1] < p[2]}
<1>1. IsWellFoundedOn(Less, Nat)
  BY NatLessThanWellFounded DEF OpToRel
<1>2. PICK m \in S : \A s \in S : <<s, m>> \notin Less
  BY <1>1, WFMin
<1>3. ASSUME NEW s \in S PROVE m <= s
  <2>1. m \in Nat /\ s \in Nat
    OBVIOUS
  <2>2. ~(s < m)
    BY <1>2, <2>1
  <2>3. QED BY <2>1, <2>2
<1>4. QED
  BY <1>3

\* unused_reg finds the least unused register whenever there is one.
LEMMA UnusedRegIsLeast ==
    ASSUME NEW u \in SUBSET Regs, NEW next \in Regs, ~MustLeak(u)
    PROVE  /\ AllocIdx(u, next) \in Unused(u)
           /\ \A s \in Unused(u) : AllocIdx(u, next) <= s
<1>1. Unused(u) \subseteq Nat /\ Unused(u) # {}
  BY NRegsAssumption DEF MustLeak, Unused, Regs
<1>2. \E m \in Unused(u) : \A s \in Unused(u) : m <= s
  BY <1>1, LeastNatural
<1>3. QED
  BY <1>2 DEF AllocIdx

LEMMA UnusedRegIsUnused ==
    ASSUME NEW u \in SUBSET Regs, NEW next \in Regs, ~MustLeak(u)
    PROVE  AllocIdx(u, next) \in Unused(u)
BY UnusedRegIsLeast

LEMMA AllocIdxIsReg ==
    ASSUME NEW u \in SUBSET Regs, NEW next \in Regs
    PROVE  AllocIdx(u, next) \in Regs
BY UnusedRegIsUnused DEF AllocIdx, Unused

LEMMA NextToLeakIsReg ==
    ASSUME NEW u \in SUBSET Regs, NEW next \in Regs
    PROVE  NextToLeak(u, next) \in Regs
BY NRegsAssumption DEF NextToLeak, Regs

GPRegRecord == [reg : Regs, slot : Nat]

-----------------------------------------------------------------------------
(* Facts about Front.                                                      *)

LEMMA FrontProperties ==
    ASSUME NEW S, NEW s \in Seq(S), Len(s) >= 1
    PROVE  /\ Front(s) \in Seq(S)
           /\ Len(Front(s)) = Len(s) - 1
           /\ \A i \in 1 .. Len(s) - 1 : Front(s)[i] = s[i]
<1>1. ASSUME NEW n \in Nat, \A i \in 1 .. n : s[i] \in S
      PROVE  /\ SubSeq(s, 1, n) \in Seq(S)
             /\ Len(SubSeq(s, 1, n)) = n
             /\ \A i \in 1 .. n : SubSeq(s, 1, n)[i] = s[i]
  <2>1. 1 \in Int /\ n \in Int
    OBVIOUS
  <2>2. /\ SubSeq(s, 1, n) \in Seq(S)
        /\ Len(SubSeq(s, 1, n)) = IF 1 <= n THEN n - 1 + 1 ELSE 0
        /\ \A i \in 1 .. n - 1 + 1 : SubSeq(s, 1, n)[i] = s[1 + i - 1]
    BY <1>1, <2>1, SubSeqProperties
  <2>3. (IF 1 <= n THEN n - 1 + 1 ELSE 0) = n /\ n - 1 + 1 = n
    OBVIOUS
  <2>4. \A i \in 1 .. n : 1 + i - 1 = i
    OBVIOUS
  <2>5. QED
    BY <2>2, <2>3, <2>4, Zenon
<1>2. Len(s) \in Nat /\ Len(s) - 1 \in Nat
  BY LenProperties
<1>3. \A i \in 1 .. Len(s) - 1 : s[i] \in S
  BY <1>2, ElementOfSeq
<1>4. QED
  BY <1>1, <1>2, <1>3 DEF Front
-----------------------------------------------------------------------------
(* The flags and the leaks of a sequence of GPRegs.                        *)

Base(l) == {l[i].reg : i \in {j \in 1 .. Len(l) : l[j].slot = 0}}
OneFlagEach(l) ==
    \A i, j \in 1 .. Len(l) :
      l[i].slot = 0 /\ l[j].slot = 0 /\ l[i].reg = l[j].reg => i = j
LeakedAt(l) == {i \in 1 .. Len(l) : l[i].slot # 0}

LEMMA UsedExactIs == UsedExact <=> used = Base(live) /\ OneFlagEach(live)
BY DEF UsedExact, Base, OneFlagEach, N

\* Handing out one more GPReg.
LEMMA BaseOfAppend ==
    ASSUME NEW l \in Seq(GPRegRecord), NEW g \in GPRegRecord,
           OneFlagEach(l), g.slot = 0 => g.reg \notin Base(l)
    PROVE  /\ Base(Append(l, g)) =
                IF g.slot = 0 THEN Base(l) \cup {g.reg} ELSE Base(l)
           /\ OneFlagEach(Append(l, g))
<1> DEFINE m == Append(l, g)
<1>1. /\ Len(l) \in Nat /\ Len(m) = Len(l) + 1 /\ m[Len(l) + 1] = g
      /\ \A i \in 1 .. Len(l) : m[i] = l[i]
  BY AppendProperties, LenProperties
<1> HIDE DEF m
<1>2. \A i \in 1 .. Len(m) : i \in 1 .. Len(l) \/ i = Len(l) + 1
  BY <1>1
<1>3. 1 .. Len(l) \subseteq 1 .. Len(m) /\ Len(l) + 1 \in 1 .. Len(m)
  BY <1>1
<1>4. Base(m) = IF g.slot = 0 THEN Base(l) \cup {g.reg} ELSE Base(l)
  <2>1. \A x : x \in Base(m) <=> \E i \in 1 .. Len(m) : m[i].slot = 0 /\ x = m[i].reg
    BY Zenon DEF Base
  <2>2. \A x : x \in Base(l) <=> \E i \in 1 .. Len(l) : l[i].slot = 0 /\ x = l[i].reg
    BY Zenon DEF Base
  <2>3. \A x : x \in Base(m) <=> x \in Base(l) \/ (g.slot = 0 /\ x = g.reg)
    <3>1. ASSUME NEW x, x \in Base(m) PROVE x \in Base(l) \/ (g.slot = 0 /\ x = g.reg)
      BY <3>1, <2>1, <2>2, <1>1, <1>2
    <3>2. ASSUME NEW x, x \in Base(l) PROVE x \in Base(m)
      BY <3>2, <2>1, <2>2, <1>1, <1>3
    <3>3. ASSUME g.slot = 0 PROVE g.reg \in Base(m)
      BY <3>3, <2>1, <1>1, <1>3
    <3>4. QED BY <3>1, <3>2, <3>3
  <2>4. CASE g.slot = 0
    BY <2>3, <2>4
  <2>5. CASE g.slot # 0
    BY <2>3, <2>5
  <2>6. QED BY <2>4, <2>5
<1>5. OneFlagEach(m)
  <2> SUFFICES ASSUME NEW i \in 1 .. Len(m), NEW j \in 1 .. Len(m),
                      m[i].slot = 0, m[j].slot = 0, m[i].reg = m[j].reg
               PROVE  i = j
    BY DEF OneFlagEach
  <2>1. CASE i \in 1 .. Len(l) /\ j \in 1 .. Len(l)
    BY <2>1, <1>1 DEF OneFlagEach
  <2>2. CASE i \in 1 .. Len(l) /\ j = Len(l) + 1
    BY <2>2, <1>1 DEF Base
  <2>3. CASE i = Len(l) + 1 /\ j \in 1 .. Len(l)
    BY <2>3, <1>1 DEF Base
  <2>4. QED BY <2>1, <2>2, <2>3, <1>2
<1>6. QED BY <1>4, <1>5 DEF m

\* Giving the newest GPReg back.
LEMMA BaseOfFront ==
    ASSUME NEW l \in Seq(GPRegRecord), Len(l) >= 1, OneFlagEach(l)
    PROVE  /\ Base(Front(l)) =
                IF l[Len(l)].slot = 0 THEN Base(l) \ {l[Len(l)].reg} ELSE Base(l)
           /\ OneFlagEach(Front(l))
<1> DEFINE m == Front(l)
           n == Len(l)
<1>1. /\ n \in Nat /\ n \in 1 .. n /\ Len(m) = n - 1
      /\ \A i \in 1 .. n - 1 : m[i] = l[i]
  BY FrontProperties, LenProperties
<1>2. \A i \in 1 .. n : i \in 1 .. n - 1 \/ i = n
  BY <1>1
<1>3. \A i \in 1 .. n - 1 : i \in 1 .. n /\ i # n
  BY <1>1
<1>4. \A i \in 1 .. n - 1 : l[n].slot = 0 /\ l[i].slot = 0 => l[i].reg # l[n].reg
  BY <1>1, <1>3 DEF OneFlagEach
<1> HIDE DEF m, n
<1>5. Base(m) = {l[i].reg : i \in {j \in 1 .. n - 1 : l[j].slot = 0}}
  BY <1>1, Zenon DEF Base
<1>6. Base(l) = {l[i].reg : i \in {j \in 1 .. n : l[j].slot = 0}}
  BY DEF Base, n
<1>7. Base(m) = IF l[n].slot = 0 THEN Base(l) \ {l[n].reg} ELSE Base(l)
  BY <1>1, <1>2, <1>3, <1>4, <1>5, <1>6, Zenon
<1>8. OneFlagEach(m)
  BY <1>1, <1>3 DEF OneFlagEach, n
<1>9. QED BY <1>7, <1>8 DEF m, n

LEMMA LeakedAtFinite ==
    ASSUME NEW l \in Seq(GPRegRecord)
    PROVE  IsFiniteSet(LeakedAt(l)) /\ Cardinality(LeakedAt(l)) \in Nat
<1>1. IsFiniteSet(1 .. Len(l))
  BY LenProperties, FS_Interval
<1>2. LeakedAt(l) \in SUBSET (1 .. Len(l))
  BY DEF LeakedAt
<1>3. IsFiniteSet(LeakedAt(l))
  BY <1>1, <1>2, FS_Subset
<1>4. QED BY <1>3, FS_CardinalityType

LEMMA LeakedOfAppend ==
    ASSUME NEW l \in Seq(GPRegRecord), NEW g \in GPRegRecord
    PROVE  Cardinality(LeakedAt(Append(l, g))) =
             Cardinality(LeakedAt(l)) + (IF g.slot = 0 THEN 0 ELSE 1)
<1> DEFINE m == Append(l, g)
           n == Len(l) + 1
<1>1. /\ Len(l) \in Nat /\ Len(m) = n /\ m[n] = g
      /\ \A i \in 1 .. Len(l) : m[i] = l[i]
  BY AppendProperties, LenProperties
<1>2. /\ \A i \in 1 .. n : i \in 1 .. Len(l) \/ i = n
      /\ 1 .. Len(l) \subseteq 1 .. n /\ n \in 1 .. n /\ n \notin 1 .. Len(l)
  BY <1>1
<1> HIDE DEF m, n
<1>3. LeakedAt(m) = IF g.slot = 0 THEN LeakedAt(l) ELSE LeakedAt(l) \cup {n}
  BY <1>1, <1>2, Zenon DEF LeakedAt
<1>4. n \notin LeakedAt(l)
  BY <1>2 DEF LeakedAt
<1>5. /\ IsFiniteSet(LeakedAt(l)) /\ Cardinality(LeakedAt(l)) \in Nat
      /\ Cardinality(LeakedAt(l) \cup {n}) = Cardinality(LeakedAt(l)) + 1
  BY <1>4, LeakedAtFinite, FS_AddElement
<1>6. QED
  BY <1>3, <1>5 DEF m

LEMMA LeakedOfFront ==
    ASSUME NEW l \in Seq(GPRegRecord), Len(l) >= 1
    PROVE  Cardinality(LeakedAt(l)) = Cardinality(LeakedAt(Front(l)))
             + (IF l[Len(l)].slot = 0 THEN 0 ELSE 1)
<1> DEFINE m == Front(l)
           n == Len(l)
<1>1. /\ n \in Nat /\ Len(m) = n - 1 /\ m \in Seq(GPRegRecord)
      /\ \A i \in 1 .. n - 1 : m[i] = l[i]
  BY FrontProperties, LenProperties
<1>2. /\ \A i \in 1 .. n : i \in 1 .. n - 1 \/ i = n
      /\ 1 .. n - 1 \subseteq 1 .. n /\ n \in 1 .. n /\ n \notin 1 .. n - 1
  BY <1>1
<1>3. LeakedAt(l) = {i \in 1 .. n : l[i].slot # 0}
  BY DEF LeakedAt
<1> HIDE DEF m, n
<1>4. LeakedAt(l) = IF l[n].slot = 0 THEN LeakedAt(m) ELSE LeakedAt(m) \cup {n}
  BY <1>1, <1>2, <1>3, Zenon DEF LeakedAt
<1>5. n \notin LeakedAt(m)
  BY <1>1, <1>2 DEF LeakedAt
<1>6. /\ IsFiniteSet(LeakedAt(m)) /\ Cardinality(LeakedAt(m)) \in Nat
      /\ Cardinality(LeakedAt(m) \cup {n}) = Cardinality(LeakedAt(m)) + 1
  BY <1>1, <1>5, LeakedAtFinite, FS_AddElement
<1>7. QED
  BY <1>4, <1>6 DEF m, n
-----------------------------------------------------------------------------
(* The pool's invariant, for every operator (Spec).                        *)

PoolInv ==
    /\ TypeOK
    /\ used = Base(live) /\ OneFlagEach(live)
    /\ Len(stk) = Cardinality(LeakedAt(live))

LEMMA PoolInvImplies == PoolInv => TypeOK /\ UsedExact /\ StackExact
BY UsedExactIs DEF PoolInv, StackExact, LeakedAt, N

\* What alloc_reg returns and pushes.
LEMMA GPRegFacts ==
    ASSUME TypeOK
    PROVE  /\ GPReg \in GPRegRecord
           /\ MustLeak(used) <=> GPReg.slot # 0
           /\ GPReg.slot = 0 => GPReg.reg \notin used
           /\ GPReg.slot # 0 => used = Regs
           /\ Leaked \in Seq(Vals)
           /\ Len(Leaked) = Len(stk) + (IF GPReg.slot = 0 THEN 0 ELSE 1)
           /\ NextToLeak(used, nextLeak) \in Regs
<1>1. /\ used \in SUBSET Regs /\ nextLeak \in Regs /\ stk \in Seq(Vals)
      /\ regs \in [Regs -> Vals] /\ Len(stk) \in Nat
  BY LenProperties DEF TypeOK
<1>2. AllocIdx(used, nextLeak) \in Regs
  BY <1>1, AllocIdxIsReg
<1>3. GPReg \in GPRegRecord
  BY <1>1, <1>2 DEF GPReg, GPRegRecord
<1>4. MustLeak(used) <=> GPReg.slot # 0
  BY <1>1 DEF GPReg
<1>5. GPReg.slot = 0 => GPReg.reg \notin used
  BY <1>1, <1>4, UnusedRegIsUnused DEF GPReg, Unused
<1>6. GPReg.slot # 0 => used = Regs
  BY <1>1, <1>4 DEF MustLeak, Unused
<1>7. regs[GPReg.reg] \in Vals
  BY <1>1, <1>2 DEF GPReg
<1>8. /\ Leaked \in Seq(Vals)
      /\ Len(Leaked) = Len(stk) + (IF GPReg.slot = 0 THEN 0 ELSE 1)
  BY <1>1, <1>4, <1>7, AppendProperties DEF Leaked
<1>9. QED
  BY <1>1, <1>3, <1>4, <1>5, <1>6, <1>8, NextToLeakIsReg

\* What free_reg does to flags, registers and stack, whatever they are.
LEMMA FreeRegFacts ==
    ASSUME NEW g \in GPRegRecord, NEW u \in SUBSET Regs,
           NEW rg \in [Regs -> Vals], NEW st \in Seq(Vals),
           g.slot # 0 => Len(st) >= 1,
           FreeReg(g, u, rg, st)
    PROVE  /\ used' = IF g.slot = 0 THEN u \ {g.reg} ELSE u
           /\ regs' \in [Regs -> Vals]
           /\ stk' \in Seq(Vals)
           /\ Len(stk') = Len(st) - (IF g.slot = 0 THEN 0 ELSE 1)
<1>0. Len(st) \in Nat
  BY LenProperties
<1>1. CASE g.slot = 0
  BY <1>0, <1>1 DEF FreeReg
<1>2. CASE g.slot # 0
  <2>1. st[Len(st)] \in Vals
    BY <1>0, <1>2, ElementOfSeq
  <2>2. Front(st) \in Seq(Vals) /\ Len(Front(st)) = Len(st) - 1
    BY <1>2, FrontProperties
  <2>3. QED BY <1>0, <1>2, <2>1, <2>2 DEF FreeReg
<1>3. QED BY <1>1, <1>2

LEMMA PoolInvInit == Init => PoolInv
<1> SUFFICES ASSUME Init PROVE PoolInv
  OBVIOUS
<1>1. live = << >> /\ stk = << >> /\ Len(live) = 0 /\ Len(stk) = 0
  BY DEF Init
<1>2. Base(live) = {} /\ OneFlagEach(live) /\ LeakedAt(live) = {}
  BY <1>1 DEF Base, OneFlagEach, LeakedAt
<1>3. 0 \in Regs
  BY NRegsAssumption DEF Regs
<1>4. << >> \in Seq([reg : Regs, slot : Nat]) /\ << >> \in Seq(Vals)
  BY EmptySeq
<1>5. QED
  BY <1>1, <1>2, <1>3, <1>4, FS_EmptySet DEF Init, PoolInv, TypeOK

LEMMA PoolInvLoad ==
    ASSUME PoolInv, NEW v \in Vals, Load(v)
    PROVE  PoolInv'
<1>1. /\ TypeOK /\ live \in Seq(GPRegRecord) /\ used \in SUBSET Regs
      /\ regs \in [Regs -> Vals] /\ leaks \in Nat
  BY DEF PoolInv, TypeOK, GPRegRecord
<1>2. /\ GPReg \in GPRegRecord /\ Leaked \in Seq(Vals)
      /\ GPReg.slot = 0 => GPReg.reg \notin used
      /\ GPReg.slot # 0 => used = Regs
      /\ Len(Leaked) = Len(stk) + (IF GPReg.slot = 0 THEN 0 ELSE 1)
      /\ NextToLeak(used, nextLeak) \in Regs
  BY <1>1, GPRegFacts
<1>3. GPReg.reg \in Regs
  BY <1>2 DEF GPRegRecord
<1>4. live' = Append(live, GPReg) /\ used' = used \cup {GPReg.reg} /\ stk' = Leaked
  BY DEF Load
<1>5. live' \in Seq(GPRegRecord)
  BY <1>1, <1>2, <1>4, AppendProperties
<1>6. TypeOK'
  BY <1>1, <1>2, <1>3, <1>4, <1>5 DEF TypeOK, Load, AllocReg, GPRegRecord
<1>7. used' = Base(live') /\ OneFlagEach(live')
  BY <1>1, <1>2, <1>3, <1>4, BaseOfAppend DEF PoolInv
<1>8. Len(stk') = Cardinality(LeakedAt(live'))
  BY <1>1, <1>2, <1>4, LeakedOfAppend DEF PoolInv
<1>9. QED BY <1>6, <1>7, <1>8 DEF PoolInv
LEMMA PoolInvApply ==
    ASSUME PoolInv, Apply
    PROVE  PoolInv'
<1>1. /\ live \in Seq(GPRegRecord) /\ N \in Nat /\ N \in 1 .. N
      /\ regs \in [Regs -> Vals]
  BY LenProperties DEF PoolInv, TypeOK, GPRegRecord, Apply, N
<1>2. live[N].reg \in Regs
  <2>1. live[N] \in GPRegRecord
    BY <1>1, ElementOfSeq DEF N
  <2>2. QED BY <2>1 DEF GPRegRecord
<1>3. UnaryOp[regs[live[N].reg]] \in Vals
  BY <1>1, <1>2, ValsAssumption
<1>4. regs' \in [Regs -> Vals]
  BY <1>1, <1>3 DEF Apply
<1>5. UNCHANGED <<used, nextLeak, leaks, live, stk, result>>
  BY DEF Apply
<1>6. TypeOK'
  BY <1>4, <1>5 DEF PoolInv, TypeOK
<1>7. (used = Base(live))' /\ OneFlagEach(live)'
  BY <1>5 DEF PoolInv, Base, OneFlagEach
<1>8. (Len(stk) = Cardinality(LeakedAt(live)))'
  BY <1>5 DEF PoolInv, LeakedAt
<1>9. QED BY <1>6, <1>7, <1>8 DEF PoolInv

\* The newest GPReg: its type, and the push there is to pop for it.
LEMMA NewestFacts ==
    ASSUME PoolInv, N >= 1
    PROVE  /\ live \in Seq(GPRegRecord) /\ Len(live) >= 1
           /\ live[N] \in GPRegRecord
           /\ live[N].slot # 0 => Len(stk) >= 1
           /\ live[N].slot = 0 => live[N].reg \in used
<1>1. live \in Seq(GPRegRecord) /\ Len(live) >= 1 /\ N \in 1 .. Len(live)
  BY LenProperties DEF PoolInv, TypeOK, GPRegRecord, N
<1>2. live[N] \in GPRegRecord
  BY <1>1, ElementOfSeq
<1>3. Front(live) \in Seq(GPRegRecord)
  BY <1>1, FrontProperties
<1>4. Cardinality(LeakedAt(Front(live))) \in Nat
  BY <1>3, LeakedAtFinite
<1>5. live[N].slot # 0 => Len(stk) >= 1
  BY <1>1, <1>4, LeakedOfFront DEF PoolInv, N
<1>6. live[N].slot = 0 => live[N].reg \in used
  BY <1>1 DEF PoolInv, Base
<1>7. QED BY <1>1, <1>2, <1>5, <1>6

\* free_reg of the newest GPReg, after the node's instructions have left the
\* registers at rg.
LEMMA PoolInvFreeNewest ==
    ASSUME PoolInv, N >= 1, NEW rg \in [Regs -> Vals],
           FreeReg(live[N], used, rg, stk),
           live' = Front(live), UNCHANGED <<nextLeak, leaks>>,
           result' \in Vals \cup {None}
    PROVE  PoolInv'
<1>1. /\ live \in Seq(GPRegRecord) /\ Len(live) >= 1
      /\ live[N] \in GPRegRecord
      /\ live[N].slot # 0 => Len(stk) >= 1
  BY NewestFacts
<1>2. used \in SUBSET Regs /\ stk \in Seq(Vals) /\ OneFlagEach(live)
  BY DEF PoolInv, TypeOK
<1>3. /\ used' = IF live[N].slot = 0 THEN used \ {live[N].reg} ELSE used
      /\ regs' \in [Regs -> Vals] /\ stk' \in Seq(Vals)
      /\ Len(stk') = Len(stk) - (IF live[N].slot = 0 THEN 0 ELSE 1)
  BY <1>1, <1>2, FreeRegFacts
<1>4. Front(live) \in Seq(GPRegRecord)
  BY <1>1, FrontProperties
<1>5. TypeOK'
  BY <1>2, <1>3, <1>4 DEF PoolInv, TypeOK, GPRegRecord
<1>6. used' = Base(live') /\ OneFlagEach(live')
  BY <1>1, <1>2, <1>3, BaseOfFront DEF PoolInv, N
<1>7. Len(stk') = Cardinality(LeakedAt(live'))
  <2>1. Cardinality(LeakedAt(Front(live))) \in Nat
    BY <1>4, LeakedAtFinite
  <2>2. QED BY <1>1, <1>3, <2>1, LeakedOfFront DEF PoolInv, N
<1>8. QED BY <1>5, <1>6, <1>7 DEF PoolInv

LEMMA PoolInvCombine ==
    ASSUME PoolInv, Combine
    PROVE  PoolInv'
<1> DEFINE value == BinaryOp[<<regs[live[N - 1].reg], regs[live[N].reg]>>]
           ops == [regs EXCEPT ![live[N - 1].reg] = value]
<1>1. /\ N >= 2 /\ FreeReg(live[N], used, ops, stk)
      /\ live' = Front(live) /\ UNCHANGED <<nextLeak, leaks, result>>
  BY DEF Combine
<1>2. live \in Seq(GPRegRecord) /\ N \in Nat /\ regs \in [Regs -> Vals]
  BY LenProperties DEF PoolInv, TypeOK, GPRegRecord, N
<1>3. live[N] \in GPRegRecord /\ live[N - 1] \in GPRegRecord
  <2>1. N >= 2
    BY <1>1
  <2>2. N - 1 \in 1 .. Len(live) /\ N \in 1 .. Len(live)
    BY <1>2, <2>1 DEF N
  <2>3. QED BY <1>2, <2>2, ElementOfSeq
<1>4. value \in Vals
  BY <1>2, <1>3, ValsAssumption DEF GPRegRecord
<1>5. ops \in [Regs -> Vals]
  BY <1>2, <1>4
<1>6. result' \in Vals \cup {None}
  BY <1>1 DEF PoolInv, TypeOK
<1>7. N >= 1
  <2>1. N >= 2 /\ N \in Nat
    BY <1>1, <1>2
  <2>2. QED BY <2>1
<1> HIDE DEF ops
<1>8. QED
  BY <1>1, <1>5, <1>6, <1>7, PoolInvFreeNewest

LEMMA PoolInvFinish ==
    ASSUME PoolInv, Finish
    PROVE  PoolInv'
<1>1. /\ N = 1 /\ FreeReg(live[N], used, regs, stk)
      /\ live' = << >> /\ UNCHANGED <<nextLeak, leaks>>
      /\ result' = regs[live[N].reg]
  BY DEF Finish
<1>2. live \in Seq(GPRegRecord) /\ regs \in [Regs -> Vals]
  BY DEF PoolInv, TypeOK, GPRegRecord
<1>3. live[N] \in GPRegRecord
  BY <1>1, NewestFacts
<1>4. result' \in Vals \cup {None}
  BY <1>1, <1>2, <1>3 DEF GPRegRecord
<1>5. live' = Front(live)
  BY <1>1, SubSeqEmpty DEF Front, N
<1>6. QED
  BY <1>1, <1>2, <1>4, <1>5, PoolInvFreeNewest

LEMMA PoolInvPostfix ==
    ASSUME PoolInv, Postfix
    PROVE  PoolInv'
<1> DEFINE lhs == live[N]
           mov == [regs EXCEPT ![GPReg.reg] = UnaryOp[regs[lhs.reg]]]
           u == used \cup {GPReg.reg}
<1>1. /\ N >= 1 /\ AllocReg /\ FreeReg(lhs, u, mov, Leaked)
      /\ live' = Append(Front(live), GPReg) /\ UNCHANGED result
  BY DEF Postfix
<1>2. /\ TypeOK /\ used \in SUBSET Regs /\ regs \in [Regs -> Vals]
      /\ leaks \in Nat /\ OneFlagEach(live) /\ used = Base(live)
  BY DEF PoolInv, TypeOK
<1>3. /\ live \in Seq(GPRegRecord) /\ Len(live) >= 1
      /\ lhs \in GPRegRecord
      /\ lhs.slot # 0 => Len(stk) >= 1
      /\ lhs.slot = 0 => lhs.reg \in used
  BY <1>1, NewestFacts
<1>4. /\ GPReg \in GPRegRecord /\ Leaked \in Seq(Vals)
      /\ GPReg.slot = 0 => GPReg.reg \notin used
      /\ GPReg.slot # 0 => used = Regs
      /\ Len(Leaked) = Len(stk) + (IF GPReg.slot = 0 THEN 0 ELSE 1)
      /\ NextToLeak(used, nextLeak) \in Regs
  BY <1>2, GPRegFacts
<1>5. GPReg.reg \in Regs /\ lhs.reg \in Regs
  BY <1>3, <1>4 DEF GPRegRecord
<1>6. mov \in [Regs -> Vals]
  BY <1>2, <1>5, ValsAssumption
<1>7. Len(stk) \in Nat /\ stk \in Seq(Vals)
  BY LenProperties DEF PoolInv, TypeOK
<1>8. u \in SUBSET Regs /\ (lhs.slot # 0 => Len(Leaked) >= 1)
  BY <1>2, <1>3, <1>4, <1>5, <1>7
<1>9. /\ used' = IF lhs.slot = 0 THEN u \ {lhs.reg} ELSE u
      /\ regs' \in [Regs -> Vals] /\ stk' \in Seq(Vals)
      /\ Len(stk') = Len(Leaked) - (IF lhs.slot = 0 THEN 0 ELSE 1)
  <2> HIDE DEF lhs, mov, u
  <2>1. QED BY <1>1, <1>3, <1>4, <1>6, <1>8, FreeRegFacts
<1>10. /\ Front(live) \in Seq(GPRegRecord)
       /\ Base(Front(live)) = IF lhs.slot = 0 THEN used \ {lhs.reg} ELSE used
       /\ OneFlagEach(Front(live))
  BY <1>2, <1>3, FrontProperties, BaseOfFront DEF N
<1>11. live' \in Seq(GPRegRecord)
  BY <1>1, <1>4, <1>10, AppendProperties
<1>12. TypeOK'
  <2>1. used' \in SUBSET Regs
    BY <1>8, <1>9
  <2>2. nextLeak' \in Regs /\ leaks' \in Nat
    BY <1>1, <1>2, <1>4 DEF AllocReg
  <2>3. QED BY <1>1, <1>2, <1>9, <1>11, <2>1, <2>2 DEF TypeOK, GPRegRecord
<1>13. used' = Base(live') /\ OneFlagEach(live')
  <2>1. GPReg.slot = 0 => GPReg.reg \notin Base(Front(live))
    BY <1>4, <1>10
  <2>2. /\ Base(live') = IF GPReg.slot = 0
                           THEN Base(Front(live)) \cup {GPReg.reg}
                           ELSE Base(Front(live))
        /\ OneFlagEach(live')
    BY <1>1, <1>4, <1>10, <2>1, BaseOfAppend
  <2> HIDE DEF lhs
  <2>3. QED BY <1>3, <1>4, <1>5, <1>9, <1>10, <2>2
<1>14. Len(stk') = Cardinality(LeakedAt(live'))
  <2>1. Cardinality(LeakedAt(live')) = Cardinality(LeakedAt(Front(live)))
          + (IF GPReg.slot = 0 THEN 0 ELSE 1)
    BY <1>1, <1>4, <1>10, LeakedOfAppend
  <2>2. Len(stk) = Cardinality(LeakedAt(Front(live)))
          + (IF lhs.slot = 0 THEN 0 ELSE 1)
    BY <1>3, LeakedOfFront DEF PoolInv, N
  <2>3. Cardinality(LeakedAt(Front(live))) \in Nat
    BY <1>10, LeakedAtFinite
  <2> HIDE DEF lhs
  <2>4. QED BY <1>4, <1>7, <1>9, <2>1, <2>2, <2>3
<1>15. QED BY <1>12, <1>13, <1>14 DEF PoolInv

LEMMA PoolInvStep == PoolInv /\ [Next]_vars => PoolInv'
<1> SUFFICES ASSUME PoolInv, [Next]_vars PROVE PoolInv'
  OBVIOUS
<1>1. ASSUME NEW v \in Vals, Load(v) PROVE PoolInv'
  BY <1>1, PoolInvLoad
<1>2. CASE Apply
  BY <1>2, PoolInvApply
<1>3. CASE Combine
  BY <1>3, PoolInvCombine
<1>4. CASE Finish
  BY <1>4, PoolInvFinish
<1>5. CASE Postfix
  BY <1>5, PoolInvPostfix
<1>6. CASE UNCHANGED vars
  BY <1>6 DEF vars, PoolInv, TypeOK, Base, OneFlagEach, LeakedAt
<1>7. QED
  BY <1>1, <1>2, <1>3, <1>4, <1>5, <1>6 DEF Next, LifoNext

\* For every program: the pool's state stays well typed, so that
\* next_reg_to_leak always names a register (the assertion of
\* leak_reg_to_stack) and no pop finds the stack empty.
THEOREM TypeCorrect == Spec => []TypeOK
<1>1. Spec => []PoolInv
  BY PoolInvInit, PoolInvStep, PTL DEF Spec
<1>2. PoolInv => TypeOK
  BY PoolInvImplies
<1>3. QED BY <1>1, <1>2, PTL

\* For every program, postfix operators and any number of leaks included:
\* gp_reg_used is exactly the set of registers handed out without a leak and
\* not yet freed, so every expression ends with the flags it started with.
THEOREM FlagsExact == Spec => []UsedExact
<1>1. Spec => []PoolInv
  BY PoolInvInit, PoolInvStep, PTL DEF Spec
<1>2. PoolInv => UsedExact
  BY PoolInvImplies
<1>3. QED BY <1>1, <1>2, PTL

\* For every program: pushes and pops of leaked registers pair up, so an
\* expression leaves the stack pointer where it found it.
THEOREM LeaksBalanced == Spec => []StackExact
<1>1. Spec => []PoolInv
  BY PoolInvInit, PoolInvStep, PTL DEF Spec
<1>2. PoolInv => StackExact
  BY PoolInvImplies
<1>3. QED BY <1>1, <1>2, PTL
-----------------------------------------------------------------------------
(* Without postfix operators, and with fewer leaks than registers: the     *)
(* pending operands are the registers 0, 1, 2, ... in order, and then the  *)
(* leaked ones, in the order they were leaked.                             *)

Shape(l, next) ==
    /\ \A i \in 1 .. Len(l) :
         i <= NRegs => l[i].slot = 0 /\ l[i].reg = i - 1
    /\ \A i \in 1 .. Len(l) :
         i > NRegs => l[i].slot = i - NRegs /\ l[i].reg < next
    /\ \A i, j \in 1 .. Len(l) :
         NRegs < i /\ i < j => l[i].reg < l[j].reg

LifoInv ==
    /\ PoolInv
    /\ leaks <= MaxLeaks
    /\ nextLeak = leaks
    /\ Shape(live, nextLeak)
    /\ Len(stk) = IF N > NRegs THEN N - NRegs ELSE 0

\* Under the invariant alloc_reg hands out the registers in order, and then
\* leaks number 0, 1, 2, ...
LEMMA LifoAlloc ==
    ASSUME MaxLeaks < NRegs, LifoInv
    PROVE  /\ N < NRegs => GPReg = [reg |-> N, slot |-> 0]
           /\ N >= NRegs => /\ GPReg = [reg |-> nextLeak, slot |-> N + 1 - NRegs]
                            /\ MustLeak(used)
           /\ MustLeak(used) <=> N >= NRegs
<1>1. /\ NRegs \in Nat \ {0} /\ N \in Nat /\ live \in Seq(GPRegRecord)
      /\ used = Base(live) /\ used \in SUBSET Regs
  BY NRegsAssumption, LenProperties DEF LifoInv, PoolInv, TypeOK, GPRegRecord, N
<1>2. \A i \in 1 .. N : i <= NRegs => live[i].slot = 0 /\ live[i].reg = i - 1
  BY DEF LifoInv, Shape, N
<1>3. \A i \in 1 .. N : i > NRegs => live[i].slot # 0
  BY <1>1 DEF LifoInv, Shape, N
<1>4. used = {live[i].reg : i \in {j \in 1 .. N : live[j].slot = 0}}
  BY <1>1 DEF Base, N
<1>5. CASE N < NRegs
  <2>1. N \in Regs /\ N \notin used
    BY <1>1, <1>2, <1>4, <1>5 DEF Regs
  <2>2. ASSUME NEW r \in Regs, r \notin used PROVE N <= r
    <3> SUFFICES ASSUME r < N PROVE FALSE
      BY <1>1, <2>2 DEF Regs
    <3>1. r + 1 \in 1 .. N /\ r + 1 <= NRegs /\ r \in Nat
      BY <1>1, <1>5 DEF Regs
    <3>2. live[r + 1].slot = 0 /\ live[r + 1].reg = r
      BY <1>2, <3>1
    <3>3. r \in used
      BY <1>4, <3>1, <3>2
    <3>4. QED BY <2>2, <3>3
  <2>3. ~MustLeak(used)
    BY <2>1 DEF MustLeak, Unused
  <2>4. ASSUME NEW r \in Unused(used), \A s \in Unused(used) : r <= s
        PROVE  r = N
    BY <1>1, <2>1, <2>2, <2>4 DEF Unused, Regs
  <2>5. N \in Unused(used) /\ \A s \in Unused(used) : N <= s
    BY <2>1, <2>2 DEF Unused
  <2>6. AllocIdx(used, nextLeak) = N
    BY <2>3, <2>4, <2>5 DEF AllocIdx
  <2>7. QED BY <1>1, <1>5, <2>3, <2>6 DEF GPReg
<1>6. CASE N >= NRegs
  <2>1. ASSUME NEW r \in Regs PROVE r \in used
    <3>1. r + 1 \in 1 .. N /\ r + 1 <= NRegs /\ r \in Nat
      BY <1>1, <1>6 DEF Regs
    <3>2. live[r + 1].slot = 0 /\ live[r + 1].reg = r
      BY <1>2, <3>1
    <3>3. QED BY <1>4, <3>1, <3>2
  <2>2. MustLeak(used)
    BY <2>1 DEF MustLeak, Unused
  <2>3. Len(stk) + 1 = N + 1 - NRegs
    BY <1>1, <1>6 DEF LifoInv
  <2>4. QED BY <1>1, <1>6, <2>2, <2>3 DEF GPReg, AllocIdx
<1>7. QED BY <1>1, <1>5, <1>6

LEMMA ShapeOfAppend ==
    ASSUME NEW l \in Seq(GPRegRecord), NEW next \in Nat, NEW g \in GPRegRecord,
           Shape(l, next),
           Len(l) < NRegs => g = [reg |-> Len(l), slot |-> 0],
           Len(l) >= NRegs => g = [reg |-> next, slot |-> Len(l) + 1 - NRegs]
    PROVE  Shape(Append(l, g), IF Len(l) < NRegs THEN next ELSE next + 1)
<1> DEFINE m == Append(l, g)
           n == Len(l) + 1
<1>1. /\ Len(l) \in Nat /\ Len(m) = n /\ m[n] = g /\ NRegs \in Nat
      /\ \A i \in 1 .. Len(l) : m[i] = l[i]
      /\ \A i \in 1 .. n : i \in 1 .. Len(l) \/ i = n
  BY NRegsAssumption, AppendProperties, LenProperties
<1>2. ASSUME NEW i \in 1 .. Len(l) PROVE l[i].reg \in Nat
  <2>1. l[i] \in GPRegRecord
    BY ElementOfSeq
  <2>2. QED BY <1>1, <2>1 DEF GPRegRecord, Regs
<1> HIDE DEF m
<1>3. CASE Len(l) < NRegs
  BY <1>1, <1>2, <1>3 DEF Shape, m
<1>4. CASE Len(l) >= NRegs
  <2>1. g.reg = next /\ g.slot = n - NRegs /\ n > NRegs
    BY <1>1, <1>4
  <2>2. \A i \in 1 .. n : i <= NRegs => m[i].slot = 0 /\ m[i].reg = i - 1
    BY <1>1, <2>1 DEF Shape
  <2>3. ASSUME NEW i \in 1 .. n, i > NRegs
        PROVE  m[i].slot = i - NRegs /\ m[i].reg < next + 1
    <3>1. CASE i = n
      BY <1>1, <2>1, <3>1
    <3>2. CASE i \in 1 .. Len(l)
      <4>1. m[i] = l[i] /\ l[i].reg \in Nat
        BY <1>1, <1>2, <3>2
      <4>2. l[i].slot = i - NRegs /\ l[i].reg < next
        BY <2>3, <3>2 DEF Shape
      <4>3. QED BY <4>1, <4>2
    <3>3. QED BY <1>1, <3>1, <3>2
  <2>4. \A i, j \in 1 .. n : NRegs < i /\ i < j => m[i].reg < m[j].reg
    <3> SUFFICES ASSUME NEW i \in 1 .. n, NEW j \in 1 .. n, NRegs < i, i < j
                 PROVE  m[i].reg < m[j].reg
      OBVIOUS
    <3>1. i \in 1 .. Len(l) /\ l[i].reg < next
      BY <1>1 DEF Shape
    <3>2. CASE j = n
      BY <1>1, <2>1, <3>1, <3>2
    <3>3. CASE j \in 1 .. Len(l)
      BY <1>1, <3>1, <3>3 DEF Shape
    <3>4. QED BY <1>1, <3>2, <3>3
  <2>5. Shape(m, next + 1)
    BY <1>1, <2>2, <2>3, <2>4 DEF Shape
  <2>6. QED BY <1>1, <1>4, <2>5 DEF m
<1>5. QED BY <1>1, <1>3, <1>4

LEMMA ShapeOfFront ==
    ASSUME NEW l \in Seq(GPRegRecord), NEW next, Len(l) >= 1, Shape(l, next)
    PROVE  Shape(Front(l), next)
<1>1. /\ Len(l) \in Nat /\ Len(Front(l)) = Len(l) - 1
      /\ \A i \in 1 .. Len(l) - 1 : Front(l)[i] = l[i]
  BY FrontProperties, LenProperties
<1>2. QED
  BY <1>1 DEF Shape
LEMMA LifoInvInit == Init => LifoInv
<1> SUFFICES ASSUME Init PROVE LifoInv
  OBVIOUS
<1>1. Len(live) = 0 /\ Len(stk) = 0 /\ leaks = 0 /\ nextLeak = 0 /\ N = 0
  BY DEF Init, N
<1>2. NRegs \in Nat \ {0} /\ MaxLeaks \in Nat
  BY NRegsAssumption, ValsAssumption
<1>3. Shape(live, nextLeak)
  BY <1>1 DEF Shape
<1>4. QED
  BY <1>1, <1>2, <1>3, PoolInvInit DEF LifoInv

LEMMA LifoInvLoad ==
    ASSUME MaxLeaks < NRegs, LifoInv, NEW v \in Vals, Load(v)
    PROVE  LifoInv'
<1>1. /\ NRegs \in Nat \ {0} /\ MaxLeaks \in Nat /\ N \in Nat
      /\ live \in Seq(GPRegRecord) /\ leaks \in Nat /\ nextLeak = leaks
      /\ TypeOK /\ leaks <= MaxLeaks
  BY NRegsAssumption, ValsAssumption, LenProperties
     DEF LifoInv, PoolInv, TypeOK, GPRegRecord, N
<1>2. /\ N < NRegs => GPReg = [reg |-> N, slot |-> 0]
      /\ N >= NRegs => GPReg = [reg |-> nextLeak, slot |-> N + 1 - NRegs]
      /\ MustLeak(used) <=> N >= NRegs
  BY LifoAlloc
<1>3. GPReg \in GPRegRecord /\ Len(Leaked) = Len(stk) + (IF GPReg.slot = 0 THEN 0 ELSE 1)
  BY <1>1, GPRegFacts
<1>4. live' = Append(live, GPReg) /\ stk' = Leaked /\ AllocReg
  BY DEF Load
<1>5. N' = N + 1
  BY <1>1, <1>3, <1>4, AppendProperties DEF N
<1>6. PoolInv'
  BY PoolInvLoad DEF LifoInv
<1>7. leaks' = (IF N < NRegs THEN leaks ELSE leaks + 1) /\ leaks' <= MaxLeaks
  BY <1>1, <1>2, <1>4 DEF AllocReg
<1>8. nextLeak' = leaks'
  <2>1. CASE N < NRegs
    BY <1>1, <1>2, <1>4, <1>7, <2>1 DEF AllocReg, NextToLeak
  <2>2. CASE N >= NRegs
    <3>1. leaks' = leaks + 1 /\ nextLeak + 1 \in 0 .. NRegs - 1
      BY <1>1, <1>7, <2>2
    <3>2. nextLeak' = (nextLeak + 1) % NRegs
      BY <1>2, <1>4, <2>2 DEF AllocReg, NextToLeak
    <3>3. (nextLeak + 1) % NRegs = nextLeak + 1
      BY <1>1, <3>1
    <3>4. QED BY <1>1, <3>1, <3>2, <3>3
  <2>3. QED BY <1>1, <2>1, <2>2
<1>9. Shape(live', nextLeak')
  <2>1. Shape(live, nextLeak) /\ nextLeak \in Nat
    BY <1>1 DEF LifoInv
  <2>2. Shape(live', IF Len(live) < NRegs THEN nextLeak ELSE nextLeak + 1)
    BY <1>1, <1>2, <1>3, <1>4, <2>1, ShapeOfAppend DEF N
  <2>3. nextLeak' = IF Len(live) < NRegs THEN nextLeak ELSE nextLeak + 1
    BY <1>1, <1>7, <1>8 DEF N
  <2>4. QED BY <2>2, <2>3
<1>10. Len(stk') = IF N' > NRegs THEN N' - NRegs ELSE 0
  <2>1. Len(stk) = IF N > NRegs THEN N - NRegs ELSE 0
    BY DEF LifoInv
  <2>2. CASE N < NRegs
    BY <1>1, <1>2, <1>3, <1>4, <1>5, <2>1, <2>2
  <2>3. CASE N >= NRegs
    <3>1. GPReg.slot # 0
      BY <1>1, <1>2, <2>3
    <3>2. QED BY <1>1, <1>3, <1>4, <1>5, <2>1, <2>3, <3>1
  <2>4. QED BY <1>1, <2>2, <2>3
<1>11. leaks' <= MaxLeaks
  BY <1>7
<1>12. QED BY <1>6, <1>8, <1>9, <1>10, <1>11 DEF LifoInv

LEMMA LifoInvFreeNewest ==
    ASSUME LifoInv, N >= 1, PoolInv',
           live' = Front(live), UNCHANGED <<nextLeak, leaks>>
    PROVE  LifoInv'
<1>1. /\ NRegs \in Nat \ {0} /\ N \in Nat /\ live \in Seq(GPRegRecord)
      /\ Len(live) = N /\ Len(live) >= 1
  BY NRegsAssumption, LenProperties DEF LifoInv, PoolInv, TypeOK, GPRegRecord, N
<1>2. Len(live') = N - 1 /\ live' \in Seq(GPRegRecord)
  BY <1>1, FrontProperties
<1>3. Shape(live', nextLeak')
  BY <1>1, ShapeOfFront DEF LifoInv
<1>4. LeakedAt(live') = NRegs + 1 .. N - 1
  <2>1. \A i \in 1 .. N - 1 : live'[i].slot # 0 <=> i > NRegs
    BY <1>1, <1>2, <1>3 DEF Shape
  <2>2. QED BY <1>1, <1>2, <2>1 DEF LeakedAt
<1>5. Len(stk') = IF N - 1 > NRegs THEN N - 1 - NRegs ELSE 0
  <2>1. Len(stk') = Cardinality(NRegs + 1 .. N - 1)
    BY <1>4 DEF PoolInv
  <2>2. Cardinality(NRegs + 1 .. N - 1)
          = IF NRegs + 1 > N - 1 THEN 0 ELSE N - 1 - (NRegs + 1) + 1
    BY <1>1, FS_Interval
  <2>3. QED BY <1>1, <2>1, <2>2
<1>6. leaks' <= MaxLeaks /\ nextLeak' = leaks'
  BY DEF LifoInv
<1>7. QED BY <1>2, <1>3, <1>5, <1>6 DEF LifoInv, N

LEMMA LifoInvStep ==
    ASSUME MaxLeaks < NRegs
    PROVE  LifoInv /\ [LifoNext]_vars => LifoInv'
<1> SUFFICES ASSUME LifoInv, [LifoNext]_vars PROVE LifoInv'
  OBVIOUS
<1>0. PoolInv'
  BY PoolInvStep DEF LifoInv, Next
<1>1. ASSUME NEW v \in Vals, Load(v) PROVE LifoInv'
  BY <1>1, LifoInvLoad
<1>2. CASE Apply
  BY <1>0, <1>2 DEF LifoInv, Apply, N, Shape
<1>3. CASE Combine
  <2>1. /\ live' = Front(live) /\ UNCHANGED <<nextLeak, leaks>> /\ N >= 2
    BY <1>3 DEF Combine
  <2>2. N >= 1
    BY <2>1, LenProperties DEF LifoInv, PoolInv, TypeOK, N
  <2>3. QED BY <1>0, <2>1, <2>2, LifoInvFreeNewest
<1>4. CASE Finish
  <2>1. live' = << >> /\ UNCHANGED <<nextLeak, leaks>> /\ N = 1
    BY <1>4 DEF Finish
  <2>2. live' = Front(live)
    BY <2>1, SubSeqEmpty DEF Front, N
  <2>3. N >= 1
    BY <2>1
  <2>4. QED BY <1>0, <2>1, <2>2, <2>3, LifoInvFreeNewest
<1>5. CASE UNCHANGED vars
  BY <1>0, <1>5 DEF vars, LifoInv, Shape, N
<1>6. QED
  BY <1>1, <1>2, <1>3, <1>4, <1>5 DEF LifoNext

LEMMA LifoInvImplies ==
    ASSUME MaxLeaks < NRegs
    PROVE  LifoInv => OperandsDistinct /\ LiveFlagged
<1> SUFFICES ASSUME LifoInv PROVE OperandsDistinct /\ LiveFlagged
  OBVIOUS
<1>1. /\ NRegs \in Nat \ {0} /\ MaxLeaks \in Nat /\ N \in Nat
      /\ live \in Seq(GPRegRecord) /\ leaks \in Nat /\ nextLeak = leaks
      /\ leaks <= MaxLeaks /\ used = Base(live) /\ Len(live) = N
  BY NRegsAssumption, ValsAssumption, LenProperties
     DEF LifoInv, PoolInv, TypeOK, GPRegRecord, N
<1>2. Shape(live, nextLeak)
  BY DEF LifoInv
<1>3. ASSUME NEW i \in 1 .. N PROVE live[i].reg \in Nat
  <2>1. live[i] \in GPRegRecord
    BY <1>1, ElementOfSeq
  <2>2. QED BY <1>1, <2>1 DEF GPRegRecord, Regs
<1>4. ASSUME N >= 2 PROVE live[N - 1].reg # live[N].reg
  <2>1. N - 1 \in 1 .. N /\ N \in 1 .. N
    BY <1>1, <1>4
  <2>2. CASE N <= NRegs
    BY <1>1, <1>2, <2>1, <2>2 DEF Shape
  <2>3. CASE N = NRegs + 1
    <3>1. live[N - 1].reg = NRegs - 1 /\ live[N].reg < nextLeak
      BY <1>1, <1>2, <2>1, <2>3 DEF Shape
    <3>2. QED BY <1>1, <1>3, <2>1, <3>1
  <2>4. CASE N > NRegs + 1
    <3>1. live[N - 1].reg < live[N].reg
      BY <1>1, <1>2, <2>1, <2>4 DEF Shape
    <3>2. QED BY <1>3, <2>1, <3>1
  <2>5. QED BY <1>1, <2>2, <2>3, <2>4
<1>5. ASSUME NEW i \in 1 .. N PROVE live[i].reg \in used
  <2>1. CASE i <= NRegs
    BY <1>1, <1>2, <2>1 DEF Shape, Base
  <2>2. CASE i > NRegs
    <3>1. live[i].reg < nextLeak /\ live[i].reg \in Nat
      BY <1>1, <1>2, <1>3, <2>2 DEF Shape
    <3>2. live[i].reg + 1 \in 1 .. N /\ live[i].reg + 1 <= NRegs
      BY <1>1, <2>2, <3>1
    <3>3. /\ live[live[i].reg + 1].slot = 0
          /\ live[live[i].reg + 1].reg = live[i].reg
      BY <1>1, <1>2, <3>1, <3>2 DEF Shape
    <3>4. QED BY <1>1, <3>2, <3>3 DEF Base
  <2>3. QED BY <1>1, <2>1, <2>2
<1>6. QED BY <1>4, <1>5 DEF OperandsDistinct, LiveFlagged

\* With fewer leaks than registers in the translation unit, alloc_reg never
\* takes the register of the operand it is about to be combined with, for
\* expressions of any depth.
THEOREM OperandsAreDistinct ==
    ASSUME MaxLeaks < NRegs
    PROVE  LifoSpec => []OperandsDistinct
<1>1. LifoSpec => []LifoInv
  BY LifoInvInit, LifoInvStep, PTL DEF LifoSpec
<1>2. LifoInv => OperandsDistinct
  BY LifoInvImplies
<1>3. QED BY <1>1, <1>2, PTL

\* ... and no register in use is ever handed out unsaved.
THEOREM LiveAreFlagged ==
    ASSUME MaxLeaks < NRegs
    PROVE  LifoSpec => []LiveFlagged
<1>1. LifoSpec => []LifoInv
  BY LifoInvInit, LifoInvStep, PTL DEF LifoSpec
<1>2. LifoInv => LiveFlagged
  BY LifoInvImplies
<1>3. QED BY <1>1, <1>2, PTL
-----------------------------------------------------------------------------
(* Where the pending operands are.                                         *)

LEMMA RegIsNat ==
    ASSUME NEW l \in Seq(GPRegRecord), NEW i \in 1 .. Len(l)
    PROVE  l[i].reg \in Nat /\ l[i].reg \in Regs /\ l[i].slot \in Nat
<1>1. l[i] \in GPRegRecord
  BY ElementOfSeq
<1>2. QED BY <1>1, NRegsAssumption DEF GPRegRecord, Regs

\* At most one later GPReg has taken an operand's register, by a leak.
LEMMA OneTaker ==
    ASSUME NEW l \in Seq(GPRegRecord), NEW next, Shape(l, next),
           NEW i \in 1 .. Len(l), NEW j \in Takers(l, i)
    PROVE  /\ j \in 1 .. Len(l) /\ j > NRegs /\ l[j].slot = j - NRegs
           /\ Takers(l, i) = {j}
<1>1. Len(l) \in Nat /\ NRegs \in Nat \ {0}
  BY LenProperties, NRegsAssumption
<1>2. j \in 1 .. Len(l) /\ i < j /\ l[j].reg = l[i].reg
  BY <1>1 DEF Takers
<1>3. j > NRegs
  <2> SUFFICES ASSUME j <= NRegs PROVE FALSE
    BY <1>1, <1>2
  <2>1. j \in Int /\ i \in Int /\ i <= NRegs
    BY <1>1, <1>2
  <2>2. l[j].reg = j - 1 /\ l[i].reg = i - 1
    BY <1>2, <2>1 DEF Shape
  <2>3. j - 1 = i - 1
    BY <1>2, <2>2
  <2>4. QED BY <1>2, <2>1, <2>3
<1>4. ASSUME NEW k \in Takers(l, i) PROVE k = j
  <2>1. k \in 1 .. Len(l) /\ i < k /\ l[k].reg = l[j].reg
    BY <1>1, <1>2 DEF Takers
  <2>2. k > NRegs
    <3> SUFFICES ASSUME k <= NRegs PROVE FALSE
      BY <1>1, <2>1
    <3>1. k \in Int /\ i \in Int /\ i <= NRegs
      BY <1>1, <2>1
    <3>2. l[k].reg = k - 1 /\ l[i].reg = i - 1
      BY <2>1, <3>1 DEF Shape
    <3>3. k - 1 = i - 1
      BY <1>2, <2>1, <3>2
    <3>4. QED BY <2>1, <3>1, <3>3
  <2>3. ~(k < j)
    <3> SUFFICES ASSUME k < j PROVE FALSE
      OBVIOUS
    <3>1. l[k].reg < l[j].reg
      BY <1>2, <2>1, <2>2 DEF Shape
    <3>2. QED BY <1>2, <2>1, <3>1, RegIsNat
  <2>4. ~(j < k)
    <3> SUFFICES ASSUME j < k PROVE FALSE
      OBVIOUS
    <3>1. l[j].reg < l[k].reg
      BY <1>2, <1>3, <2>1 DEF Shape
    <3>2. QED BY <1>2, <2>1, <3>1, RegIsNat
  <2>5. QED BY <1>1, <1>2, <2>1, <2>3, <2>4
<1>5. l[j].slot = j - NRegs
  BY <1>2, <1>3 DEF Shape
<1>6. QED BY <1>2, <1>3, <1>4, <1>5

LEMMA ContentTaken ==
    ASSUME NEW l \in Seq(GPRegRecord), NEW next, Shape(l, next),
           NEW rg, NEW st, NEW i \in 1 .. Len(l), NEW j \in Takers(l, i)
    PROVE  Content(l, rg, st, i) = st[j - NRegs]
<1>1. Takers(l, i) = {j} /\ l[j].slot = j - NRegs /\ j \in Int
  BY OneTaker
<1>2. (CHOOSE k \in Takers(l, i) : \A m \in Takers(l, i) : k <= m) = j
  BY <1>1
<1>3. QED BY <1>1, <1>2 DEF Content

LEMMA ContentKept ==
    ASSUME NEW l, NEW rg, NEW st, NEW i, Takers(l, i) = {}
    PROVE  Content(l, rg, st, i) = rg[l[i].reg]
BY DEF Content

\* The registers after v is written into register r, and the stack after
\* alloc_reg has returned g.
Written(rg2, rg, r, v) == rg2 = [rg EXCEPT ![r] = v]
Pushed(st2, st, g, rg) == st2 = IF g.slot # 0 THEN Append(st, rg[g.reg]) ELSE st

\* Writing into the register of an operand that still has it changes that
\* operand and no other.
WriteOf(ops, l, next, rg, k, v) ==
    /\ l \in Seq(GPRegRecord) /\ Shape(l, next)
    /\ rg \in [Regs -> Vals] /\ ops = [rg EXCEPT ![l[k].reg] = v]
    /\ k \in 1 .. Len(l) /\ Takers(l, k) = {}

LEMMA ContentOfWrite ==
    ASSUME NEW l, NEW next, NEW rg, NEW st, NEW k, NEW v, NEW ops,
           WriteOf(ops, l, next, rg, k, v), NEW i \in 1 .. Len(l)
    PROVE  Content(l, ops, st, i) = IF i = k THEN v ELSE Content(l, rg, st, i)
<1>0. /\ l \in Seq(GPRegRecord) /\ Shape(l, next) /\ rg \in [Regs -> Vals]
      /\ k \in 1 .. Len(l) /\ Takers(l, k) = {}
      /\ Written(ops, rg, l[k].reg, v)
  BY DEF WriteOf, Written
<1>1. l[k].reg \in Regs /\ l[i].reg \in Regs
  BY <1>0, RegIsNat
<1>2. CASE i = k
  <2>1. ops[l[k].reg] = v
    BY <1>0, <1>1 DEF Written
  <2>2. Content(l, ops, st, k) = ops[l[k].reg]
    BY <1>0, ContentKept
  <2>3. QED BY <1>2, <2>1, <2>2
<1>3. CASE i # k /\ Takers(l, i) = {}
  <2>1. l[i].reg # l[k].reg
    <3>1. Len(l) \in Nat
      BY <1>0, LenProperties
    <3>2. i < k \/ k < i
      BY <1>0, <1>3, <3>1
    <3>3. i < k => k \in i + 1 .. Len(l)
      BY <1>0, <3>1
    <3>4. k < i => i \in k + 1 .. Len(l)
      BY <1>0, <3>1
    <3>5. QED BY <1>3, <3>2, <3>3, <3>4, <1>0 DEF Takers
  <2>2. ops[l[i].reg] = rg[l[i].reg]
    BY <1>1, <1>0, <2>1 DEF Written
  <2>3. Content(l, ops, st, i) = ops[l[i].reg] /\ Content(l, rg, st, i) = rg[l[i].reg]
    BY <1>3, ContentKept
  <2>4. QED BY <1>3, <2>2, <2>3
<1>4. CASE i # k /\ Takers(l, i) # {}
  <2>1. PICK j \in Takers(l, i) : TRUE
    BY <1>4
  <2>2. Content(l, ops, st, i) = Content(l, rg, st, i)
    BY <1>0, <2>1, ContentTaken
  <2>3. QED BY <1>4, <2>2
<1>5. QED BY <1>2, <1>3, <1>4

\* Handing out a GPReg, with a push if it is leaked, moves no operand's value
\* out of reach.
HandOut(m, rg2, st2, l, next, after, rg, st, g, v) ==
    /\ l \in Seq(GPRegRecord) /\ g \in GPRegRecord /\ m = Append(l, g)
    /\ rg \in [Regs -> Vals] /\ rg2 = [rg EXCEPT ![g.reg] = v]
    /\ st \in Seq(Vals)
    /\ st2 = IF g.slot # 0 THEN Append(st, rg[g.reg]) ELSE st
    /\ Shape(l, next) /\ Shape(m, after)
    /\ g.slot # 0 => Len(st) = Len(l) - NRegs
    /\ g.slot = 0 => Len(l) < NRegs

LEMMA ContentOfAppend ==
    ASSUME NEW m, NEW rg2, NEW st2, NEW l, NEW next, NEW after, NEW rg, NEW st,
           NEW g, NEW v, HandOut(m, rg2, st2, l, next, after, rg, st, g, v)
    PROVE  /\ \A i \in 1 .. Len(l) :
                Content(m, rg2, st2, i) = Content(l, rg, st, i)
           /\ Content(m, rg2, st2, Len(l) + 1) = v
<1> DEFINE n == Len(l) + 1
<1>0. /\ l \in Seq(GPRegRecord) /\ g \in GPRegRecord
      /\ rg \in [Regs -> Vals] /\ st \in Seq(Vals)
      /\ Written(rg2, rg, g.reg, v) /\ Pushed(st2, st, g, rg)
      /\ Shape(l, next) /\ Shape(m, after)
      /\ g.slot # 0 => Len(st) = Len(l) - NRegs
      /\ g.slot = 0 => Len(l) < NRegs
  BY DEF HandOut, Written, Pushed
<1>1. /\ Len(l) \in Nat /\ Len(m) = n /\ m[n] = g /\ m \in Seq(GPRegRecord)
      /\ \A i \in 1 .. Len(l) : m[i] = l[i]
      /\ NRegs \in Nat \ {0} /\ Len(st) \in Nat
  <2>1. m = Append(l, g)
    BY DEF HandOut
  <2>2. QED BY <1>0, <2>1, NRegsAssumption, AppendProperties, LenProperties
<1>2. g.reg \in Regs /\ rg[g.reg] \in Vals
  BY <1>0 DEF GPRegRecord
<1>3. /\ \A k \in 1 .. Len(st) : st2[k] = st[k]
      /\ g.slot # 0 => st2[Len(st) + 1] = rg[g.reg]
  BY <1>0, <1>2, AppendProperties DEF Pushed
<1>4. Shape(m, after)
  BY <1>0
<1>5. ASSUME NEW i \in 1 .. Len(l)
      PROVE  Content(m, rg2, st2, i) = Content(l, rg, st, i)
  <2>1. i \in 1 .. Len(m) /\ m[i] = l[i]
    BY <1>0, <1>1
  <2>2. CASE Takers(l, i) # {}
    <3>1. PICK j \in Takers(l, i) : TRUE
      BY <1>0, <2>2
    <3>2. j \in 1 .. Len(l) /\ j > NRegs /\ Len(l) > NRegs
      BY <1>0, <1>1, <3>1, OneTaker
    <3>3. j \in Takers(m, i)
      BY <1>0, <1>1, <2>1, <3>1, <3>2 DEF Takers
    <3>4. j - NRegs \in 1 .. Len(st)
      <4>1. g.slot # 0
        BY <1>0, <1>1, <3>2
      <4>2. Len(st) = Len(l) - NRegs
        BY <1>0, <4>1
      <4>3. NRegs \in Nat /\ Len(l) \in Nat
        BY <1>1
      <4>4. QED BY <3>2, <4>2, <4>3
    <3>5. Content(m, rg2, st2, i) = st2[j - NRegs]
      <4>1. m \in Seq(GPRegRecord)
        BY <1>1
      <4>2. QED BY <1>4, <2>1, <3>3, <4>1, ContentTaken
    <3>6. Content(l, rg, st, i) = st[j - NRegs]
      BY <1>0, <3>1, ContentTaken
    <3>7. QED BY <1>3, <3>4, <3>5, <3>6
  <2>3. CASE Takers(l, i) = {} /\ g.reg = l[i].reg
    <3>1. n \in Takers(m, i)
      BY <1>0, <1>1, <2>1, <2>3 DEF Takers
    <3>2. n > NRegs
      BY <1>0, <1>1, <1>4, <2>1, <3>1, OneTaker
    <3>3. g.slot # 0 /\ n - NRegs = Len(st) + 1
      <4>1. NRegs \in Nat \ {0} /\ Len(l) \in Nat /\ Len(l) >= NRegs
        BY <1>1, <3>2
      <4>2. g.slot # 0
        BY <1>0, <4>1
      <4>3. QED BY <1>0, <4>1, <4>2
    <3>4. Content(m, rg2, st2, i) = st2[n - NRegs]
      <4>1. m \in Seq(GPRegRecord)
        BY <1>0, <1>1
      <4>2. QED BY <1>4, <2>1, <3>1, <4>1, ContentTaken
    <3>5. Content(l, rg, st, i) = rg[l[i].reg]
      BY <1>0, <2>3, ContentKept
    <3>6. QED BY <1>3, <2>3, <3>3, <3>4, <3>5
  <2>4. CASE Takers(l, i) = {} /\ g.reg # l[i].reg
    <3>1. Takers(m, i) = {}
      <4> SUFFICES ASSUME NEW j \in Takers(m, i) PROVE FALSE
        OBVIOUS
      <4>1. j \in i + 1 .. n /\ m[j].reg = l[i].reg
        BY <1>0, <1>1, <2>1 DEF Takers
      <4>2. j # n
        BY <1>0, <1>1, <2>4, <4>1
      <4>3. j \in i + 1 .. Len(l) /\ j \in 1 .. Len(l)
        <5>1. j \in Int /\ i \in Int /\ i >= 1 /\ i + 1 <= j /\ j <= Len(l) + 1
          BY <1>0, <1>1, <4>1
        <5>2. j <= Len(l) \/ j = n
          <6>1. Len(l) \in Nat
            BY <1>0, <1>1
          <6>2. QED BY <5>1, <6>1
        <5>3. j <= Len(l)
          BY <1>0, <4>2, <5>2, Zenon
        <5>4. QED BY <1>1, <5>1, <5>3
      <4>4. j \in Takers(l, i)
        BY <1>0, <1>1, <4>1, <4>3 DEF Takers
      <4>5. QED BY <2>4, <4>4
    <3>2. rg2[l[i].reg] = rg[l[i].reg]
      BY <1>0, <1>2, <2>4, RegIsNat DEF Written
    <3>3. Content(m, rg2, st2, i) = rg2[l[i].reg]
      BY <1>0, <2>1, <3>1, ContentKept
    <3>4. Content(l, rg, st, i) = rg[l[i].reg]
      BY <1>0, <2>4, ContentKept
    <3>5. QED BY <3>2, <3>3, <3>4
  <2>5. QED BY <2>2, <2>3, <2>4
<1>6. Content(m, rg2, st2, n) = v
  <2>1. Takers(m, n) = {}
    BY <1>0, <1>1 DEF Takers
  <2>2. rg2[g.reg] = v
    BY <1>0, <1>2 DEF Written
  <2>3. Content(m, rg2, st2, n) = rg2[g.reg]
    BY <1>0, <1>1, <2>1, ContentKept
  <2>4. QED BY <2>2, <2>3
<1>7. QED BY <1>5, <1>6

\* Giving the newest GPReg back restores the operand it was taken from.
LEMMA ContentOfFront ==
    ASSUME NEW l \in Seq(GPRegRecord), NEW next, Len(l) >= 1, Shape(l, next),
           NEW rg \in [Regs -> Vals], NEW st \in Seq(Vals),
           l[Len(l)].slot # 0 => Len(st) = Len(l) - NRegs,
           NEW i \in 1 .. Len(l) - 1
    PROVE  LET g == l[Len(l)]
               rg2 == IF g.slot # 0 THEN [rg EXCEPT ![g.reg] = st[Len(st)]] ELSE rg
               st2 == IF g.slot # 0 THEN Front(st) ELSE st
           IN  Content(Front(l), rg2, st2, i) = Content(l, rg, st, i)
<1> DEFINE m == Front(l)
           n == Len(l)
           g == l[n]
           rg2 == IF g.slot # 0 THEN [rg EXCEPT ![g.reg] = st[Len(st)]] ELSE rg
           st2 == IF g.slot # 0 THEN Front(st) ELSE st
<1>1. /\ n \in Nat /\ n \in 1 .. n /\ Len(m) = n - 1 /\ m \in Seq(GPRegRecord)
      /\ \A k \in 1 .. n - 1 : m[k] = l[k]
      /\ NRegs \in Nat \ {0} /\ Len(st) \in Nat
      /\ i \in 1 .. n /\ i # n
  BY NRegsAssumption, FrontProperties, LenProperties
<1>2. g.reg \in Regs
  BY <1>1, RegIsNat
<1>3. Shape(m, next)
  BY ShapeOfFront
<1>4. g.slot # 0 <=> n > NRegs
  BY <1>1 DEF Shape
<1>5. i \in 1 .. Len(m) /\ m[i] = l[i]
  BY <1>1
<1>6. \A k \in 1 .. n - 1 - NRegs : st2[k] = st[k]
  <2>1. CASE g.slot # 0
    <3>1. Len(st) = n - NRegs /\ Len(st) >= 1
      BY <1>1, <1>4, <2>1
    <3>2. \A k \in 1 .. Len(st) - 1 : st2[k] = st[k]
      BY <2>1, <3>1, FrontProperties
    <3>3. QED BY <1>1, <3>1, <3>2
  <2>2. QED BY <2>1
<1> HIDE DEF m, st2
<1>7. CASE \E j \in Takers(l, i) : j # n
  <2>1. PICK j \in Takers(l, i) : j # n
    BY <1>7
  <2>2. j \in 1 .. n /\ j > NRegs
    BY <1>1, <2>1, OneTaker
  <2>3. j \in 1 .. n - 1 /\ j \in i + 1 .. n - 1 /\ l[j].reg = l[i].reg
    <3>1. j \in i + 1 .. n /\ l[j].reg = l[i].reg
      BY DEF Takers
    <3>2. j \in Int /\ i \in Int /\ i + 1 <= j /\ j <= n
      BY <1>1, <2>2, <3>1
    <3>3. j <= n - 1 \/ j = n
      BY <1>1, <3>2
    <3>4. j <= n - 1
      BY <2>1, <3>3, Zenon
    <3>5. QED BY <1>1, <3>1, <3>2, <3>4, <2>2
  <2>4. j \in Takers(m, i) /\ j - NRegs \in 1 .. n - 1 - NRegs
    BY <1>1, <1>5, <2>2, <2>3 DEF Takers
  <2> HIDE DEF n, rg2, g
  <2>5. Content(m, rg2, st2, i) = st2[j - NRegs]
    <3>1. m \in Seq(GPRegRecord)
      BY <1>1
    <3>2. i \in 1 .. Len(m) /\ j \in Takers(m, i)
      BY <1>5, <2>4
    <3>3. QED BY <1>3, <3>1, <3>2, ContentTaken, SMTT(30)
  <2>6. Content(l, rg, st, i) = st[j - NRegs]
    BY <1>1, <2>1, ContentTaken DEF n
  <2>7. QED BY <1>6, <2>4, <2>5, <2>6 DEF m, st2, rg2, g, n
<1>8. CASE \A j \in Takers(l, i) : j = n
  <2>1. Takers(m, i) = {}
    <3> SUFFICES ASSUME NEW j \in Takers(m, i) PROVE FALSE
      OBVIOUS
    <3>1. j \in i + 1 .. n - 1 /\ m[j].reg = l[i].reg
      BY <1>1, <1>5 DEF Takers
    <3>2. j \in i + 1 .. n /\ j # n /\ j \in 1 .. n - 1
      BY <1>1, <3>1
    <3>3. j \in Takers(l, i)
      BY <1>1, <3>1, <3>2 DEF Takers
    <3>4. QED BY <1>8, <3>2, <3>3
  <2>2. Content(m, rg2, st2, i) = rg2[l[i].reg]
    <3> HIDE DEF rg2
    <3>1. QED BY <1>5, <2>1, ContentKept
  <2>3. l[i].reg \in Regs
    BY <1>1, RegIsNat
  <2>4. CASE n \in Takers(l, i)
    <3>1. n > NRegs /\ g.reg = l[i].reg
      BY <1>1, <2>4, OneTaker DEF Takers
    <3>2. Content(l, rg, st, i) = st[n - NRegs]
      BY <1>1, <2>4, ContentTaken
    <3>3. Len(st) = n - NRegs /\ g.slot # 0
      BY <1>1, <1>4, <3>1
    <3>4. rg2[l[i].reg] = st[Len(st)]
      BY <2>3, <3>1, <3>3
    <3>5. QED BY <2>2, <3>2, <3>3, <3>4 DEF m, st2
  <2>5. CASE n \notin Takers(l, i)
    <3>1. Takers(l, i) = {}
      BY <1>8, <2>5
    <3>2. g.reg # l[i].reg
      BY <1>1, <2>5 DEF Takers
    <3>3. rg2[l[i].reg] = rg[l[i].reg]
      BY <1>2, <2>3, <3>2
    <3>4. Content(l, rg, st, i) = rg[l[i].reg]
      BY <3>1, ContentKept
    <3>5. QED BY <2>2, <3>3, <3>4 DEF m, st2
  <2>6. QED BY <2>4, <2>5
<1>9. QED BY <1>7, <1>8
-----------------------------------------------------------------------------
(* RegAlloc implements OperandStack.                                       *)

Ops(l, rg, st) == [i \in 1 .. Len(l) |-> Content(l, rg, st, i)]

LEMMA OperandsAreOps == Operands = Ops(live, regs, stk)
BY DEF Operands, Ops, N

LEMMA OpsIsSeq ==
    ASSUME NEW l \in Seq(GPRegRecord), NEW next, Shape(l, next),
           NEW rg \in [Regs -> Vals], NEW st \in Seq(Vals),
           Len(st) = IF Len(l) > NRegs THEN Len(l) - NRegs ELSE 0
    PROVE  /\ Ops(l, rg, st) \in Seq(Vals)
           /\ Len(Ops(l, rg, st)) = Len(l)
           /\ \A i \in 1 .. Len(l) : Ops(l, rg, st)[i] = Content(l, rg, st, i)
<1>1. Len(l) \in Nat /\ NRegs \in Nat \ {0} /\ Len(st) \in Nat
  BY NRegsAssumption, LenProperties
<1>2. ASSUME NEW i \in 1 .. Len(l) PROVE Content(l, rg, st, i) \in Vals
  <2>1. CASE Takers(l, i) = {}
    <3>1. Content(l, rg, st, i) = rg[l[i].reg]
      BY <2>1, ContentKept
    <3>2. QED BY <3>1, RegIsNat
  <2>2. CASE Takers(l, i) # {}
    <3>1. PICK j \in Takers(l, i) : TRUE
      BY <2>2
    <3>2. j \in 1 .. Len(l) /\ j > NRegs
      BY <3>1, OneTaker
    <3>3. Content(l, rg, st, i) = st[j - NRegs]
      BY <3>1, ContentTaken
    <3>4. j - NRegs \in 1 .. Len(st)
      BY <1>1, <3>2
    <3>5. QED BY <3>3, <3>4, ElementOfSeq
  <2>3. QED BY <2>1, <2>2
<1>3. Ops(l, rg, st) \in [1 .. Len(l) -> Vals]
  BY <1>2 DEF Ops
<1>4. Ops(l, rg, st) \in Seq(Vals)
  BY <1>1, <1>3, SeqDef
<1>5. Len(Ops(l, rg, st)) = Len(l)
  BY <1>1, <1>3, <1>4, LenProperties
<1>6. QED BY <1>4, <1>5 DEF Ops

\* What the invariant says about the operands.
LEMMA OperandFacts ==
    ASSUME LifoInv
    PROVE  /\ live \in Seq(GPRegRecord) /\ Shape(live, nextLeak)
           /\ nextLeak \in Nat /\ regs \in [Regs -> Vals] /\ stk \in Seq(Vals)
           /\ NRegs \in Nat \ {0} /\ Len(live) \in Nat /\ N = Len(live)
           /\ Len(stk) = IF Len(live) > NRegs THEN Len(live) - NRegs ELSE 0
           /\ Operands \in Seq(Vals) /\ Len(Operands) = Len(live)
           /\ \A i \in 1 .. Len(live) :
                Operands[i] = Content(live, regs, stk, i)
<1>1. /\ live \in Seq(GPRegRecord) /\ Shape(live, nextLeak)
      /\ regs \in [Regs -> Vals] /\ stk \in Seq(Vals)
      /\ NRegs \in Nat \ {0} /\ Len(live) \in Nat /\ N = Len(live)
      /\ Len(stk) = IF Len(live) > NRegs THEN Len(live) - NRegs ELSE 0
  BY NRegsAssumption, LenProperties DEF LifoInv, PoolInv, TypeOK, GPRegRecord, N
<1>2. nextLeak \in Nat
  BY NRegsAssumption DEF LifoInv, PoolInv, TypeOK, Regs
<1>3. QED BY <1>1, <1>2, OpsIsSeq, OperandsAreOps

LEMMA OperandFactsPrimed ==
    ASSUME LifoInv'
    PROVE  /\ Operands' \in Seq(Vals) /\ Len(Operands') = Len(live')
           /\ \A i \in 1 .. Len(live') :
                Operands'[i] = Content(live', regs', stk', i)
           /\ Shape(live', nextLeak')
<1>1. /\ live' \in Seq(GPRegRecord) /\ Shape(live', nextLeak')
      /\ regs' \in [Regs -> Vals] /\ stk' \in Seq(Vals)
      /\ Len(stk') = IF Len(live') > NRegs THEN Len(live') - NRegs ELSE 0
  BY NRegsAssumption DEF LifoInv, PoolInv, TypeOK, GPRegRecord, N
<1>2. Operands' = Ops(live', regs', stk')
  BY DEF Operands, Ops, N
<1>3. QED BY <1>1, <1>2, OpsIsSeq

\* The newest operand, and the one below it, are in their own registers.
LEMMA NewestInRegister ==
    ASSUME LifoInv, MaxLeaks < NRegs
    PROVE  /\ N >= 1 => Takers(live, N) = {}
           /\ N >= 2 => Takers(live, N - 1) = {}
<1>1. N \in Nat /\ N = Len(live)
  BY OperandFacts
<1>2. Takers(live, N) = {}
  BY <1>1 DEF Takers
<1>3. ASSUME N >= 2 PROVE Takers(live, N - 1) = {}
  <2>1. live[N - 1].reg # live[N].reg
    BY <1>3, LifoInvImplies DEF OperandsDistinct
  <2>2. N - 1 + 1 .. Len(live) = {N}
    BY <1>1, <1>3
  <2>3. QED BY <2>1, <2>2 DEF Takers
<1>4. QED BY <1>2, <1>3

LEMMA LoadRefines ==
    ASSUME MaxLeaks < NRegs, LifoInv, LifoInv', NEW v \in Vals, Load(v)
    PROVE  Abstract!Load(v)
<1> DEFINE g == GPReg
<1>1. /\ live' = Append(live, g) /\ stk' = Leaked
      /\ regs' = [regs EXCEPT ![g.reg] = v] /\ UNCHANGED result
  BY DEF Load
<1>2. /\ live \in Seq(GPRegRecord) /\ Shape(live, nextLeak)
      /\ nextLeak \in Nat /\ regs \in [Regs -> Vals] /\ stk \in Seq(Vals)
      /\ NRegs \in Nat \ {0} /\ Len(live) \in Nat /\ N = Len(live)
      /\ Len(stk) = IF Len(live) > NRegs THEN Len(live) - NRegs ELSE 0
      /\ Operands \in Seq(Vals) /\ Len(Operands) = Len(live)
      /\ \A i \in 1 .. Len(live) : Operands[i] = Content(live, regs, stk, i)
  BY OperandFacts
<1>3. /\ g \in GPRegRecord /\ (MustLeak(used) <=> g.slot # 0)
  BY GPRegFacts DEF LifoInv, PoolInv
<1>4. /\ N < NRegs => g = [reg |-> N, slot |-> 0]
      /\ N >= NRegs => g = [reg |-> nextLeak, slot |-> N + 1 - NRegs]
  BY LifoAlloc
<1>5. stk' = IF g.slot # 0 THEN Append(stk, regs[g.reg]) ELSE stk
  BY <1>1, <1>3 DEF Leaked
<1>6. /\ Operands' \in Seq(Vals) /\ Len(Operands') = Len(live')
      /\ \A i \in 1 .. Len(live') : Operands'[i] = Content(live', regs', stk', i)
      /\ Shape(live', nextLeak')
  BY OperandFactsPrimed
<1> HIDE DEF g
<1>7. /\ g.slot # 0 => Len(stk) = Len(live) - NRegs
      /\ g.slot = 0 => Len(live) < NRegs
  BY <1>2, <1>4
<1>8. /\ \A i \in 1 .. Len(live) :
           Content(live', regs', stk', i) = Content(live, regs, stk, i)
      /\ Content(live', regs', stk', Len(live) + 1) = v
  <2>1. HandOut(live', regs', stk', live, nextLeak, nextLeak', regs, stk, g, v)
    BY <1>1, <1>2, <1>3, <1>5, <1>6, <1>7 DEF HandOut
  <2>2. QED BY <2>1, ContentOfAppend
<1>9. Len(live') = Len(live) + 1
  BY <1>1, <1>2, <1>3, AppendProperties
<1>10. Operands' = Append(Operands, v)
  <2>1. /\ Append(Operands, v) \in Seq(Vals)
        /\ Len(Append(Operands, v)) = Len(live) + 1
        /\ \A i \in 1 .. Len(live) : Append(Operands, v)[i] = Operands[i]
        /\ Append(Operands, v)[Len(live) + 1] = v
    BY <1>2, AppendProperties
  <2>2. ASSUME NEW i \in 1 .. Len(live) + 1
        PROVE  Operands'[i] = Append(Operands, v)[i]
    <3>1. CASE i = Len(live) + 1
      BY <1>6, <1>8, <1>9, <2>1, <3>1
    <3>2. CASE i \in 1 .. Len(live)
      <4>1. Operands'[i] = Content(live', regs', stk', i)
        BY <1>6, <1>9
      <4>2. QED BY <1>2, <1>8, <2>1, <3>2, <4>1
    <3>3. i = Len(live) + 1 \/ i \in 1 .. Len(live)
      BY <1>2
    <3>4. QED BY <3>1, <3>2, <3>3
  <2>3. QED BY <1>6, <1>9, <2>1, <2>2, SeqEqual
<1>11. QED BY <1>1, <1>10 DEF Abstract!Load

LEMMA ApplyRefines ==
    ASSUME MaxLeaks < NRegs, LifoInv, LifoInv', Apply
    PROVE  Abstract!Apply
<1> DEFINE n == Len(live)
           v == UnaryOp[regs[live[n].reg]]
<1>1. /\ n \in Nat /\ n >= 1 /\ N = n
      /\ regs' = [regs EXCEPT ![live[n].reg] = v]
      /\ live' = live /\ stk' = stk /\ result' = result
  BY OperandFacts DEF Apply, N
<1>2. /\ live \in Seq(GPRegRecord) /\ Shape(live, nextLeak)
      /\ regs \in [Regs -> Vals] /\ stk \in Seq(Vals)
      /\ Operands \in Seq(Vals) /\ Len(Operands) = n
      /\ \A i \in 1 .. n : Operands[i] = Content(live, regs, stk, i)
  BY OperandFacts
<1>3. /\ Operands' \in Seq(Vals) /\ Len(Operands') = n
      /\ \A i \in 1 .. n : Operands'[i] = Content(live, regs', stk, i)
  BY <1>1, OperandFactsPrimed
<1>4. Takers(live, n) = {}
  BY <1>1, NewestInRegister
<1>5. n \in 1 .. n
  BY <1>1
<1>6. Operands[n] = regs[live[n].reg] /\ Operands[n] \in Vals
  BY <1>2, <1>4, <1>5, ContentKept, ElementOfSeq
<1>7. UnaryOp[Operands[n]] = v /\ v \in Vals
  BY <1>6, ValsAssumption
<1> HIDE DEF v
<1>8. \A i \in 1 .. n : Content(live, regs', stk, i) =
                          IF i = n THEN v ELSE Content(live, regs, stk, i)
  <2>1. WriteOf(regs', live, nextLeak, regs, n, v)
    BY <1>1, <1>2, <1>4, <1>5 DEF WriteOf, v
  <2>2. QED BY <2>1, ContentOfWrite
<1>9. Operands' = [Operands EXCEPT ![n] = v]
  <2>1. [Operands EXCEPT ![n] = v] \in Seq(Vals)
    BY <1>2, <1>5, <1>7, ExceptSeq
  <2>2. Len([Operands EXCEPT ![n] = v]) = n
    BY <1>2, <1>5, <1>7, ExceptSeq
  <2>3. ASSUME NEW i \in 1 .. n
        PROVE  Operands'[i] = [Operands EXCEPT ![n] = v][i]
    <3>1. Operands'[i] = IF i = n THEN v ELSE Operands[i]
      BY <1>2, <1>3, <1>8
    <3>2. i \in DOMAIN Operands
      BY <1>2, SeqDef, LenProperties
    <3>3. QED BY <3>1, <3>2
  <2>4. QED BY <1>3, <2>1, <2>2, <2>3, SeqEqual
<1>10. QED BY <1>1, <1>2, <1>7, <1>9 DEF Abstract!Apply

\* free_reg of the newest operand leaves the values of the others alone.
LEMMA FreeKeepsOthers ==
    ASSUME LifoInv, LifoInv', N >= 1, NEW rg \in [Regs -> Vals],
           FreeReg(live[N], used, rg, stk), live' = Front(live)
    PROVE  /\ Operands' \in Seq(Vals) /\ Len(Operands') = N - 1
           /\ \A i \in 1 .. N - 1 : Operands'[i] = Content(live, rg, stk, i)
<1> DEFINE g == live[Len(live)]
           rg2 == IF g.slot # 0 THEN [rg EXCEPT ![g.reg] = stk[Len(stk)]] ELSE rg
           st2 == IF g.slot # 0 THEN Front(stk) ELSE stk
<1>1. /\ live \in Seq(GPRegRecord) /\ Shape(live, nextLeak)
      /\ stk \in Seq(Vals) /\ NRegs \in Nat \ {0}
      /\ Len(live) \in Nat /\ N = Len(live) /\ Len(live) >= 1
      /\ Len(stk) = IF Len(live) > NRegs THEN Len(live) - NRegs ELSE 0
  BY OperandFacts
<1>2. Len(live') = Len(live) - 1
  BY <1>1, FrontProperties
<1>3. regs' = rg2 /\ stk' = st2 /\ live' = Front(live)
  BY <1>1 DEF FreeReg
<1>4. g.slot # 0 => Len(stk) = Len(live) - NRegs
  <2>1. Len(live) \in 1 .. Len(live)
    BY <1>1
  <2>2. g.slot # 0 => Len(live) > NRegs
    BY <1>1, <2>1 DEF Shape
  <2>3. QED BY <1>1, <2>2
<1>5. \A i \in 1 .. Len(live) - 1 :
        Content(Front(live), rg2, st2, i) = Content(live, rg, stk, i)
  BY <1>1, <1>4, ContentOfFront
<1> HIDE DEF rg2, st2
<1>6. /\ Operands' \in Seq(Vals) /\ Len(Operands') = Len(live')
      /\ \A i \in 1 .. Len(live') : Operands'[i] = Content(live', regs', stk', i)
  BY OperandFactsPrimed
<1>7. QED BY <1>1, <1>2, <1>3, <1>5, <1>6

LEMMA CombineRefines ==
    ASSUME MaxLeaks < NRegs, LifoInv, LifoInv', Combine
    PROVE  Abstract!Combine
<1> DEFINE n == Len(live)
           k == n - 1
           v == BinaryOp[<<regs[live[k].reg], regs[live[n].reg]>>]
           rg == [regs EXCEPT ![live[k].reg] = v]
<1>1. /\ n \in Nat /\ n >= 2 /\ N = n /\ live' = Front(live)
      /\ FreeReg(live[N], used, rg, stk) /\ result' = result
  BY OperandFacts DEF Combine, N
<1>2. /\ live \in Seq(GPRegRecord) /\ Shape(live, nextLeak)
      /\ regs \in [Regs -> Vals] /\ stk \in Seq(Vals)
      /\ Operands \in Seq(Vals) /\ Len(Operands) = n
      /\ \A i \in 1 .. n : Operands[i] = Content(live, regs, stk, i)
  BY OperandFacts
<1>3. Takers(live, n) = {} /\ Takers(live, k) = {}
  BY <1>1, NewestInRegister
<1>4. n >= 1 /\ n \in 1 .. n /\ k \in 1 .. n /\ k # n /\ k \in Nat
      /\ n - 2 \in Nat /\ k = n - 2 + 1
  BY <1>1
<1>5. /\ Operands[n] = regs[live[n].reg] /\ Operands[n] \in Vals
      /\ Operands[k] = regs[live[k].reg] /\ Operands[k] \in Vals
  <2> HIDE DEF v, rg
  <2>1. ASSUME NEW i \in 1 .. n, Takers(live, i) = {}
        PROVE  Operands[i] = regs[live[i].reg]
    BY <1>2, <2>1 DEF Content
  <2>2. Operands[n] \in Vals /\ Operands[k] \in Vals
    BY <1>2, <1>4, ElementOfSeq
  <2>3. QED BY <1>3, <1>4, <2>1, <2>2
<1>6. BinaryOp[<<Operands[k], Operands[n]>>] = v /\ v \in Vals
  BY <1>5, ValsAssumption
<1>7. rg \in [Regs -> Vals]
  BY <1>2, <1>6
<1>8. /\ Operands' \in Seq(Vals) /\ Len(Operands') = k
      /\ \A i \in 1 .. k : Operands'[i] = Content(live, rg, stk, i)
  <2> HIDE DEF rg
  <2>1. N >= 1
    BY <1>1, <1>4
  <2>2. QED BY <1>1, <1>7, <2>1, FreeKeepsOthers
<1> HIDE DEF v
<1>9. \A i \in 1 .. n : Content(live, rg, stk, i) =
                          IF i = k THEN v ELSE Content(live, regs, stk, i)
  <2>1. WriteOf(rg, live, nextLeak, regs, k, v)
    BY <1>2, <1>3, <1>4 DEF WriteOf
  <2> HIDE DEF rg, k
  <2>2. QED BY <2>1, ContentOfWrite
<1> HIDE DEF k, rg
<1>10. Operands' = Append(SubSeq(Operands, 1, n - 2), v)
  <2> DEFINE s == SubSeq(Operands, 1, n - 2)
  <2>1. s \in Seq(Vals) /\ Len(s) = n - 2 /\ \A i \in 1 .. n - 2 : s[i] = Operands[i]
    <3>1. 1 \in Int /\ n - 2 \in Int
      BY <1>4
    <3>2. \A i \in 1 .. n - 2 : Operands[i] \in Vals
      BY <1>2, <1>4, ElementOfSeq
    <3>3. /\ s \in Seq(Vals)
          /\ Len(s) = IF 1 <= n - 2 THEN n - 2 - 1 + 1 ELSE 0
          /\ \A i \in 1 .. n - 2 - 1 + 1 : s[i] = Operands[1 + i - 1]
      BY <3>1, <3>2, SubSeqProperties
    <3>4. (IF 1 <= n - 2 THEN n - 2 - 1 + 1 ELSE 0) = n - 2 /\ n - 2 - 1 + 1 = n - 2
      BY <1>4
    <3>5. \A i \in 1 .. n - 2 : 1 + i - 1 = i
      OBVIOUS
    <3>6. QED BY <3>3, <3>4, <3>5, Zenon
  <2> HIDE DEF s
  <2>2. /\ Append(s, v) \in Seq(Vals) /\ Len(Append(s, v)) = n - 2 + 1
        /\ \A i \in 1 .. n - 2 : Append(s, v)[i] = s[i]
        /\ Append(s, v)[n - 2 + 1] = v
    BY <1>6, <2>1, AppendProperties
  <2>3. ASSUME NEW i \in 1 .. k PROVE Operands'[i] = Append(s, v)[i]
    <3>1. CASE i = k
      BY <1>4, <1>8, <1>9, <2>2, <3>1
    <3>2. CASE i \in 1 .. n - 2
      <4>1. i \in 1 .. n /\ i # k
        BY <1>1, <1>4, <3>2
      <4>2. QED BY <1>2, <1>8, <1>9, <2>1, <2>2, <3>2, <4>1
    <3>3. i = k \/ i \in 1 .. n - 2
      BY <1>4
    <3>4. QED BY <3>1, <3>2, <3>3
  <2>4. QED BY <1>4, <1>8, <2>2, <2>3, SeqEqual DEF s
<1>11. QED BY <1>1, <1>2, <1>6, <1>10 DEF Abstract!Combine, k

LEMMA FinishRefines ==
    ASSUME MaxLeaks < NRegs, LifoInv, LifoInv', Finish
    PROVE  Abstract!Finish
<1>1. N = 1 /\ Len(live) = 1 /\ result' = regs[live[1].reg] /\ live' = << >>
  BY DEF Finish, N
<1>2. /\ Operands \in Seq(Vals) /\ Len(Operands) = 1
      /\ \A i \in 1 .. 1 : Operands[i] = Content(live, regs, stk, i)
  BY <1>1, OperandFacts
<1>3. Takers(live, 1) = {}
  BY <1>1, NewestInRegister
<1>4. Operands[1] = regs[live[1].reg]
  BY <1>2, <1>3, ContentKept
<1>5. Operands' = << >>
  <2>1. Operands' \in Seq(Vals) /\ Len(Operands') = 0
    BY <1>1, OperandFactsPrimed
  <2>2. QED BY <2>1, EmptySeq
<1>6. QED BY <1>1, <1>2, <1>4, <1>5 DEF Abstract!Finish

\* The main result about the allocator: with fewer leaks than registers in
\* the translation unit, and without postfix operators, the code alloc_reg
\* and free_reg make get_expr_instructions emit computes what an operand
\* stack computes, whatever the depth of the expression and the operators in
\* it.
THEOREM ImplementsOperandStackTheorem ==
    ASSUME MaxLeaks < NRegs
    PROVE  LifoSpec => ImplementsOperandStack
<1>1. Init => Abstract!Init
  <2> SUFFICES ASSUME Init PROVE Abstract!Init
    OBVIOUS
  <2>1. LifoInv /\ live = << >> /\ result = None
    BY LifoInvInit DEF Init
  <2>2. Operands \in Seq(Vals) /\ Len(Operands) = 0
    BY <2>1, OperandFacts
  <2>3. QED BY <2>1, <2>2, EmptySeq DEF Abstract!Init
<1>2. LifoInv /\ LifoInv' /\ [LifoNext]_vars => [Abstract!Next]_(Abstract!vars)
  <2> SUFFICES ASSUME LifoInv, LifoInv', [LifoNext]_vars
               PROVE  [Abstract!Next]_(Abstract!vars)
    OBVIOUS
  <2>1. ASSUME NEW v \in Vals, Load(v) PROVE Abstract!Next
    BY <2>1, LoadRefines DEF Abstract!Next
  <2>2. CASE Apply
    BY <2>2, ApplyRefines DEF Abstract!Next
  <2>3. CASE Combine
    BY <2>3, CombineRefines DEF Abstract!Next
  <2>4. CASE Finish
    BY <2>4, FinishRefines DEF Abstract!Next
  <2>5. CASE UNCHANGED vars
    BY <2>5 DEF vars, Abstract!vars, Operands, Content, Takers, N
  <2>6. QED BY <2>1, <2>2, <2>3, <2>4, <2>5 DEF LifoNext
<1>3. LifoSpec => []LifoInv
  BY LifoInvInit, LifoInvStep, PTL DEF LifoSpec
<1>4. QED BY <1>1, <1>2, <1>3, PTL
            DEF LifoSpec, ImplementsOperandStack, Abstract!Spec
=============================================================================
