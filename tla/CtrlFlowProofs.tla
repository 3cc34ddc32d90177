--------------------------- MODULE CtrlFlowProofs ---------------------------
(***************************************************************************)
(* The control flow that ir.c emits, for every program: the machine keeps  *)
(* to its types, every label is placed once, a ret unwinds the frames that *)
(* are open, and where && and || work on 0 and 1 the code evaluates what   *)
(* the source statements evaluate.                                         *)
(*                                                                         *)
(* Every place of the code, of a part still to be compiled too, gets a     *)
(* note: what is left to run of the source when the machine is there, the  *)
(* frames that are open and the operands that registers hold.  The notes   *)
(* of neighbours and of a jump and its label fit each other (Marked); a    *)
(* step of the generation puts a part with its notes in the place of       *)
(* another (SplicedMarked), and a step of the machine goes from a note to  *)
(* one that fits it (StepKeeps).  What is left to run is compared up to    *)
(* the source statements that are nothing observable (Same).               *)
(***************************************************************************)
EXTENDS CtrlFlow, SequenceTheorems, FiniteSetTheorems, WellFoundedInduction, TLAPS

-----------------------------------------------------------------------------
(* Rows: sequences, whatever their elements are.                           *)

Row(s) == s \in Seq({s[i] : i \in DOMAIN s})

\* A sequence over any set is one.
LEMMA RowOf ==
    ASSUME NEW S, NEW s \in Seq(S)
    PROVE  Row(s)
<1> DEFINE T == {s[i] : i \in DOMAIN s}
<1>1. Len(s) \in Nat /\ DOMAIN s = 1 .. Len(s)
  OBVIOUS
<1>2. s \in [1 .. Len(s) -> T]
  <2>1. \A i \in DOMAIN s : s[i] \in T
    OBVIOUS
  <2>2. s = [i \in 1 .. Len(s) |-> s[i]]
    OBVIOUS
  <2> HIDE DEF T
  <2>3. QED BY <1>1, <2>1, <2>2
<1>3. s \in Seq(T)
  <2> HIDE DEF T
  <2>1. QED BY <1>1, <1>2
<1>4. QED
  BY <1>3 DEF Row

\* Its length, its domain and its elements.
LEMMA RowFacts ==
    ASSUME NEW s, Row(s)
    PROVE  /\ Len(s) \in Nat /\ DOMAIN s = 1 .. Len(s)
           /\ s = [i \in 1 .. Len(s) |-> s[i]]
BY DEF Row

\* A function on 1 .. n is one.
LEMMA RowIsSeq ==
    ASSUME NEW s, NEW n \in Nat, DOMAIN s = 1 .. n, s = [i \in 1 .. n |-> s[i]]
    PROVE  Row(s) /\ Len(s) = n
<1> DEFINE T == {s[i] : i \in DOMAIN s}
<1>1. \A i \in DOMAIN s : s[i] \in T
  OBVIOUS
<1>2. s \in Seq(T)
  <2> HIDE DEF T
  <2>1. s \in [1 .. n -> T]
    BY <1>1
  <2>2. QED BY <2>1
<1>3. Len(s) = n
  <2> HIDE DEF T
  <2>1. QED BY <1>2
<1>4. QED
  BY <1>2, <1>3 DEF Row

\* Two rows have their elements in a common set.
LEMMA RowsTogether ==
    ASSUME NEW s, Row(s), NEW t, Row(t)
    PROVE  \E S : s \in Seq(S) /\ t \in Seq(S)
<1> DEFINE P == {s[i] : i \in DOMAIN s}
           Q == {t[i] : i \in DOMAIN t}
<1>1. s \in Seq(P) /\ t \in Seq(Q)
  BY DEF Row
<1>2. s \in Seq(P \cup Q) /\ t \in Seq(P \cup Q)
  <2> HIDE DEF P, Q
  <2>1. s \in [1 .. Len(s) -> P \cup Q] /\ Len(s) \in Nat
    BY <1>1
  <2>2. t \in [1 .. Len(t) -> P \cup Q] /\ Len(t) \in Nat
    BY <1>1
  <2>3. QED BY <2>1, <2>2
<1>3. QED
  <2> HIDE DEF P, Q
  <2>1. QED BY <1>2

\* The elements of two joined rows.
LEMMA RowJoined ==
    ASSUME NEW s, Row(s), NEW t, Row(t)
    PROVE  /\ Row(s \o t) /\ Len(s \o t) = Len(s) + Len(t)
           /\ \A i \in 1 .. Len(s) : (s \o t)[i] = s[i]
           /\ \A i \in 1 .. Len(t) : (s \o t)[Len(s) + i] = t[i]
<1>1. PICK S : s \in Seq(S) /\ t \in Seq(S)
  BY RowsTogether
<1>2. s \o t \in Seq(S)
  BY <1>1
<1>3. Row(s \o t)
  BY <1>2, RowOf
<1>4. QED
  BY <1>1, <1>3

IsJoin(r, s, t) ==
    /\ Row(r) /\ Len(r) = Len(s) + Len(t)
    /\ \A i \in 1 .. Len(s) : r[i] = s[i]
    /\ \A i \in 1 .. Len(t) : r[Len(s) + i] = t[i]

\* The same, with the predicate IsJoin.
LEMMA RowIsJoin ==
    ASSUME NEW s, Row(s), NEW t, Row(t)
    PROVE  IsJoin(s \o t, s, t)
BY RowJoined DEF IsJoin

\* Two rows with the same elements are equal.
LEMMA RowSame ==
    ASSUME NEW s, Row(s), NEW t, Row(t), Len(s) = Len(t),
           \A i \in 1 .. Len(s) : s[i] = t[i]
    PROVE  s = t
BY RowFacts

\* Joining is associative.
LEMMA RowConcat ==
    ASSUME NEW r, Row(r), NEW s, Row(s), NEW t, Row(t)
    PROVE  (r \o s) \o t = r \o (s \o t)
<1>1. PICK S : s \in Seq(S) /\ t \in Seq(S)
  BY RowsTogether
<1>2. PICK U : r \in Seq(U) /\ (s \o t) \in Seq(U)
  BY RowsTogether, RowJoined
<1>3. PICK W : r \in Seq(W) /\ s \in Seq(W)
  BY RowsTogether
<1>4. Row(r \o s) /\ Row(s \o t) /\ Row((r \o s) \o t) /\ Row(r \o (s \o t))
  BY RowJoined
<1>5. Len((r \o s) \o t) = Len(r \o (s \o t))
  BY <1>4, RowJoined, RowFacts
<1>6. ASSUME NEW i \in 1 .. Len((r \o s) \o t)
      PROVE  ((r \o s) \o t)[i] = (r \o (s \o t))[i]
  <2>1. Len(r) \in Nat /\ Len(s) \in Nat /\ Len(t) \in Nat
        /\ Len(r \o s) = Len(r) + Len(s) /\ Len(s \o t) = Len(s) + Len(t)
        /\ Len((r \o s) \o t) = Len(r) + Len(s) + Len(t)
    BY <1>4, RowJoined, RowFacts
  <2>2. CASE i <= Len(r)
    <3>1. ((r \o s) \o t)[i] = (r \o s)[i]
      BY <2>1, <2>2, <1>4, RowJoined
    <3>2. (r \o s)[i] = r[i] /\ (r \o (s \o t))[i] = r[i]
      BY <2>1, <2>2, <1>4, RowJoined
    <3>3. QED BY <3>1, <3>2
  <2>3. CASE i > Len(r) /\ i <= Len(r) + Len(s)
    <3>1. PICK j \in 1 .. Len(s) : i = Len(r) + j
      <4>1. i - Len(r) \in 1 .. Len(s) /\ i = Len(r) + (i - Len(r))
        BY <2>1, <2>3
      <4>2. QED BY <4>1
    <3>2. j \in 1 .. Len(s \o t) /\ i \in 1 .. Len(r \o s)
      BY <3>1, <2>1
    <3>3. ((r \o s) \o t)[i] = (r \o s)[i]
      BY <3>2, <1>4, RowJoined
    <3>4. (r \o s)[i] = s[j]
      BY <3>1, RowJoined
    <3>5. (r \o (s \o t))[i] = (s \o t)[j]
      BY <3>1, <3>2, <1>4, RowJoined
    <3>6. (s \o t)[j] = s[j]
      BY RowJoined
    <3>7. QED BY <3>3, <3>4, <3>5, <3>6
  <2>4. CASE i > Len(r) + Len(s)
    <3>1. PICK j \in 1 .. Len(t) : i = Len(r) + Len(s) + j
      <4>1. i - (Len(r) + Len(s)) \in 1 .. Len(t) /\ i = Len(r) + Len(s) + (i - (Len(r) + Len(s)))
        BY <2>1, <2>4
      <4>2. QED BY <4>1
    <3>2. Len(s) + j \in 1 .. Len(s \o t) /\ i = Len(r) + (Len(s) + j) /\ i = Len(r \o s) + j
      BY <3>1, <2>1
    <3>3. ((r \o s) \o t)[i] = t[j]
      BY <3>2, <1>4, RowJoined
    <3>5. (r \o (s \o t))[i] = (s \o t)[Len(s) + j]
      BY <3>2, <1>4, RowJoined
    <3>6. (s \o t)[Len(s) + j] = t[j]
      BY RowJoined
    <3>7. QED BY <3>3, <3>5, <3>6
  <2>5. QED BY <2>1, <2>2, <2>3, <2>4
<1>7. QED
  BY <1>4, <1>5, <1>6, RowSame

\* The first element and the rest.
LEMMA RowHead ==
    ASSUME NEW x, NEW k, Row(k)
    PROVE  /\ Row(<<x>>) /\ Row(<<x>> \o k) /\ <<x>> \o k # << >>
           /\ Head(<<x>> \o k) = x /\ Tail(<<x>> \o k) = k
<1>1. Row(<<x>>) /\ Len(<<x>>) = 1
  <2>1. <<x>> \in Seq({x})
    OBVIOUS
  <2>2. QED BY <2>1, RowOf
<1>2. Row(<<x>> \o k) /\ Len(<<x>> \o k) = 1 + Len(k) /\ Len(k) \in Nat
  BY <1>1, RowJoined, RowFacts
<1>3. PICK S : <<x>> \in Seq(S) /\ k \in Seq(S)
  BY <1>1, RowsTogether
<1>4. x \in S
  BY <1>3
<1>5. Head(<<x>> \o k) = x /\ Tail(<<x>> \o k) = k
  BY <1>3, <1>4
<1>6. QED
  BY <1>1, <1>2, <1>5

\* The empty row joins to nothing.
LEMMA RowEmpty ==
    ASSUME NEW k, Row(k)
    PROVE  Row(<< >>) /\ << >> \o k = k /\ k \o << >> = k
<1>1. Row(<< >>) /\ Len(<< >>) = 0
  <2>1. << >> \in Seq({})
    OBVIOUS
  <2>2. QED BY <2>1, RowOf
<1>2. PICK S : k \in Seq(S)
  BY DEF Row
<1>3. QED
  BY <1>1, <1>2

\* Rows of one and of two elements.
LEMMA RowPair ==
    ASSUME NEW x, NEW y, NEW k, Row(k)
    PROVE  Row(<<x, y>>) /\ <<x, y>> \o k = <<x>> \o (<<y>> \o k)
<1>1. Row(<<x>>) /\ Row(<<y>>)
  BY RowHead
<1>2. Row(<<x, y>>)
  <2>1. <<x, y>> \in Seq({x, y})
    OBVIOUS
  <2>2. QED BY <2>1, RowOf
<1>3. <<x, y>> = <<x>> \o <<y>>
  <2>1. <<x>> \in Seq({x, y}) /\ <<y>> \in Seq({x, y}) /\ <<x, y>> \in Seq({x, y})
    OBVIOUS
  <2>2. Len(<<x>> \o <<y>>) = 2 /\ (<<x>> \o <<y>>)[1] = x /\ (<<x>> \o <<y>>)[2] = y
    BY <2>1
  <2>3. Row(<<x>> \o <<y>>)
    BY ONLY <1>1, RowJoined
  <2>4. Len(<<x, y>>) = 2 /\ <<x, y>>[1] = x /\ <<x, y>>[2] = y
    OBVIOUS
  <2> DEFINE p == <<x, y>>
             q == <<x>> \o <<y>>
  <2>5. Row(p) /\ Row(q) /\ Len(p) = 2 /\ Len(q) = 2 /\ p[1] = q[1] /\ p[2] = q[2]
    BY <1>2, <2>2, <2>3, <2>4
  <2>6. p = q
    <3> HIDE DEF p, q
    <3>1. \A i \in 1 .. Len(p) : p[i] = q[i]
      BY <2>5
    <3>2. QED BY ONLY <2>5, <3>1, RowSame
  <2>7. QED BY <2>6
<1>4. (<<x>> \o <<y>>) \o k = <<x>> \o (<<y>> \o k)
  BY ONLY <1>1, Row(k), RowConcat
<1>5. QED
  BY <1>2, <1>3, <1>4

\* Tuples are rows.
LEMMA RowFour ==
    ASSUME NEW u, NEW v, NEW x, NEW y
    PROVE  Row(<<u, v, x, y>>) /\ Len(<<u, v, x, y>>) = 4
<1>1. <<u, v, x, y>> \in Seq({u, v, x, y})
  OBVIOUS
<1>2. QED
  BY <1>1, RowOf

\* Tuples are rows.
LEMMA RowTuple8 ==
    ASSUME NEW s, NEW t, NEW u, NEW v, NEW w, NEW x, NEW y, NEW z, NEW r,
           r = <<s, t, u, v, w, x, y, z>>
    PROVE  /\ Row(r) /\ Len(r) = 8 /\ r[1] = s /\ r[2] = t /\ r[3] = u /\ r[4] = v
           /\ r[5] = w /\ r[6] = x /\ r[7] = y /\ r[8] = z
<1>1. r \in Seq({s, t, u, v, w, x, y, z})
  OBVIOUS
<1>2. Row(r)
  BY <1>1, RowOf
<1>3. QED
  BY <1>2
LEMMA RowTuple5 ==
    ASSUME NEW s, NEW t, NEW u, NEW v, NEW w, NEW r, r = <<s, t, u, v, w>>
    PROVE  /\ Row(r) /\ Len(r) = 5 /\ r[1] = s /\ r[2] = t /\ r[3] = u /\ r[4] = v /\ r[5] = w
<1>1. r \in Seq({s, t, u, v, w})
  OBVIOUS
<1>2. Row(r)
  BY <1>1, RowOf
<1>3. QED
  BY <1>2
LEMMA RowTuple7 ==
    ASSUME NEW s, NEW t, NEW u, NEW v, NEW w, NEW x, NEW y, NEW r, r = <<s, t, u, v, w, x, y>>
    PROVE  /\ Row(r) /\ Len(r) = 7 /\ r[1] = s /\ r[2] = t /\ r[3] = u /\ r[4] = v /\ r[5] = w
              /\ r[6] = x /\ r[7] = y
<1>1. r \in Seq({s, t, u, v, w, x, y})
  OBVIOUS
<1>2. Row(r)
  BY <1>1, RowOf
<1>3. QED
  BY <1>2
LEMMA RowTuple9 ==
    ASSUME NEW s, NEW t, NEW u, NEW v, NEW w, NEW x, NEW y, NEW z, NEW q, NEW r, r = <<s, t, u, v, w, x, y, z, q>>
    PROVE  /\ Row(r) /\ Len(r) = 9 /\ r[1] = s /\ r[2] = t /\ r[3] = u /\ r[4] = v /\ r[5] = w
              /\ r[6] = x /\ r[7] = y /\ r[8] = z /\ r[9] = q
<1>1. r \in Seq({s, t, u, v, w, x, y, z, q})
  OBVIOUS
<1>2. Row(r)
  BY <1>1, RowOf
<1>3. QED
  BY <1>2

\* The places of a row of eight.
LEMMA OneToEight ==
    ASSUME NEW i \in 1 .. 8
    PROVE  i \in {1, 2, 3, 4, 5, 6, 7, 8}
OBVIOUS

\* A row in which the element h is replaced by the row I.
Spliced(A, h, I) == SubSeq(A, 1, h - 1) \o I \o SubSeq(A, h + 1, Len(A))

\* A part of a row is one.
LEMMA RowPart ==
    ASSUME NEW A, Row(A), NEW m \in 1 .. Len(A) + 1, NEW n \in 0 .. Len(A), m <= n + 1
    PROVE  /\ Row(SubSeq(A, m, n)) /\ Len(SubSeq(A, m, n)) = n + 1 - m
           /\ \A i \in 1 .. n + 1 - m : SubSeq(A, m, n)[i] = A[m + i - 1]
<1>1. PICK S : A \in Seq(S)
  BY DEF Row
<1>2. Len(A) \in Nat /\ m \in Nat /\ n \in Nat
  BY <1>1
<1>3. SubSeq(A, m, n) \in Seq(S)
  BY <1>1, <1>2, SubSeqProperties
<1>4. Len(SubSeq(A, m, n)) = n + 1 - m
  BY <1>1, <1>2, SubSeqProperties
<1>5. \A i \in 1 .. n + 1 - m : SubSeq(A, m, n)[i] = A[m + i - 1]
  BY <1>1, <1>2, SubSeqProperties
<1>6. QED
  BY <1>3, <1>4, <1>5, RowOf

\* The elements of three joined rows.
LEMMA RowThree ==
    ASSUME NEW p, Row(p), NEW s, Row(s), NEW q, Row(q)
    PROVE  /\ Row((p \o s) \o q) /\ Len((p \o s) \o q) = Len(p) + Len(s) + Len(q)
           /\ \A i \in 1 .. Len(p) : ((p \o s) \o q)[i] = p[i]
           /\ \A i \in 1 .. Len(s) : ((p \o s) \o q)[Len(p) + i] = s[i]
           /\ \A i \in 1 .. Len(q) : ((p \o s) \o q)[Len(p) + Len(s) + i] = q[i]
<1>1. /\ Row(p \o s) /\ Len(p \o s) = Len(p) + Len(s)
      /\ \A i \in 1 .. Len(p) : (p \o s)[i] = p[i]
      /\ \A i \in 1 .. Len(s) : (p \o s)[Len(p) + i] = s[i]
  BY RowJoined
<1>2. Len(p) \in Nat /\ Len(s) \in Nat /\ Len(q) \in Nat
  BY RowFacts
<1>3. /\ Row((p \o s) \o q) /\ Len((p \o s) \o q) = Len(p \o s) + Len(q)
      /\ \A i \in 1 .. Len(p \o s) : ((p \o s) \o q)[i] = (p \o s)[i]
      /\ \A i \in 1 .. Len(q) : ((p \o s) \o q)[Len(p \o s) + i] = q[i]
  <2>1. Row(p \o s)
    BY <1>1
  <2>2. QED BY ONLY <2>1, Row(q), RowJoined
<1>4. ASSUME NEW i \in 1 .. Len(p) PROVE ((p \o s) \o q)[i] = p[i]
  BY <1>1, <1>2, <1>3
<1>5. ASSUME NEW i \in 1 .. Len(s) PROVE ((p \o s) \o q)[Len(p) + i] = s[i]
  <2>1. Len(p) + i \in 1 .. Len(p \o s)
    BY <1>1, <1>2
  <2>2. QED BY <2>1, <1>1, <1>3
<1>6. QED
  BY <1>1, <1>2, <1>3, <1>4, <1>5

\* B is A with I in the place of the element h.
IsSplice(B, A, h, I) ==
    /\ Row(B) /\ Len(B) = Len(A) + Len(I) - 1
    /\ \A i \in 1 .. h - 1 : B[i] = A[i]
    /\ \A i \in 1 .. Len(I) : B[h - 1 + i] = I[i]
    /\ \A i \in h + 1 .. Len(A) : B[i + Len(I) - 1] = A[i]

\* The elements of a row in which another stands in the place of one element.
LEMMA SplicedFacts ==
    ASSUME NEW A, Row(A), NEW h \in 1 .. Len(A), NEW I, Row(I), Len(I) >= 1
    PROVE  IsSplice(Spliced(A, h, I), A, h, I)
<1>0. PICK P, Q, B : /\ P = SubSeq(A, 1, h - 1) /\ Q = SubSeq(A, h + 1, Len(A))
                     /\ B = Spliced(A, h, I)
  OBVIOUS
<1>1. Len(A) \in Nat /\ Len(I) \in Nat /\ h \in Nat
  BY RowFacts
<1>2. /\ Row(P) /\ Len(P) = h - 1
      /\ \A i \in 1 .. h - 1 : P[i] = A[i]
  <2>1. 1 \in 1 .. Len(A) + 1 /\ h - 1 \in 0 .. Len(A) /\ 1 <= (h - 1) + 1
    BY <1>1
  <2>2. /\ Row(P) /\ Len(P) = h - 1 + 1 - 1
        /\ \A i \in 1 .. h - 1 + 1 - 1 : P[i] = A[1 + i - 1]
    BY <2>1, <1>0, RowPart
  <2>3. QED BY <1>1, <2>2
<1>3. /\ Row(Q) /\ Len(Q) = Len(A) - h
      /\ \A i \in 1 .. Len(A) - h : Q[i] = A[h + i]
  <2>1. h + 1 \in 1 .. Len(A) + 1 /\ Len(A) \in 0 .. Len(A) /\ h + 1 <= Len(A) + 1
    BY <1>1
  <2>2. /\ Row(Q) /\ Len(Q) = Len(A) + 1 - (h + 1)
        /\ \A i \in 1 .. Len(A) + 1 - (h + 1) : Q[i] = A[h + 1 + i - 1]
    BY <2>1, <1>0, RowPart
  <2>3. QED BY <1>1, <2>2
<1>4. B = (P \o I) \o Q
  BY <1>0 DEF Spliced
<1>5. Row(P) /\ Row(I) /\ Row(Q)
  BY <1>2, <1>3
<1>6. /\ Row((P \o I) \o Q) /\ Len((P \o I) \o Q) = Len(P) + Len(I) + Len(Q)
      /\ \A i \in 1 .. Len(P) : ((P \o I) \o Q)[i] = P[i]
      /\ \A i \in 1 .. Len(I) : ((P \o I) \o Q)[Len(P) + i] = I[i]
      /\ \A i \in 1 .. Len(Q) : ((P \o I) \o Q)[Len(P) + Len(I) + i] = Q[i]
  <2>1. Row((P \o I) \o Q) /\ Len((P \o I) \o Q) = Len(P) + Len(I) + Len(Q)
    BY ONLY <1>5, RowThree
  <2>2. \A i \in 1 .. Len(P) : ((P \o I) \o Q)[i] = P[i]
    BY ONLY <1>5, RowThree
  <2>3. \A i \in 1 .. Len(I) : ((P \o I) \o Q)[Len(P) + i] = I[i]
    BY ONLY <1>5, RowThree
  <2>4. \A i \in 1 .. Len(Q) : ((P \o I) \o Q)[Len(P) + Len(I) + i] = Q[i]
    BY ONLY <1>5, RowThree
  <2>5. QED BY <2>1, <2>2, <2>3, <2>4
<1>7. /\ Row(B) /\ Len(B) = h - 1 + Len(I) + (Len(A) - h)
      /\ \A i \in 1 .. h - 1 : B[i] = P[i]
      /\ \A i \in 1 .. Len(I) : B[h - 1 + i] = I[i]
      /\ \A i \in 1 .. Len(A) - h : B[h - 1 + Len(I) + i] = Q[i]
  <2>1. Len(P) = h - 1 /\ Len(Q) = Len(A) - h
    BY <1>2, <1>3
  <2>2. QED BY ONLY <1>4, <1>6, <2>1
<1>8. \A i \in 1 .. h - 1 : B[i] = A[i]
  BY <1>2, <1>7
<1>9. ASSUME NEW i \in h + 1 .. Len(A) PROVE B[i + Len(I) - 1] = A[i]
  <2>1. PICK j \in 1 .. Len(A) - h : i = h + j
    <3>1. i - h \in 1 .. Len(A) - h /\ i = h + (i - h)
      BY <1>1
    <3>2. QED BY <3>1
  <2>2. i + Len(I) - 1 = h - 1 + Len(I) + j
    BY <2>1, <1>1
  <2>3. QED BY <2>1, <2>2, <1>3, <1>7
<1>10. Len(B) = Len(A) + Len(I) - 1
  BY <1>1, <1>7
<1>11. IsSplice(B, A, h, I)
  BY <1>7, <1>8, <1>9, <1>10 DEF IsSplice
<1>12. QED
  BY <1>0, <1>11

\* Where the elements of a spliced row come from.
LEMMA SplicedFrom ==
    ASSUME NEW a \in Nat, NEW m \in Nat, m >= 1, NEW h \in 1 .. a, NEW p \in 1 .. a + m - 1
    PROVE  \/ p \in 1 .. h - 1
           \/ \E j \in 1 .. m : p = h - 1 + j
           \/ \E i \in h + 1 .. a : p = i + m - 1
<1>1. CASE p <= h - 1
  BY <1>1
<1>2. CASE p > h - 1 /\ p <= h - 1 + m
  <2>1. p - (h - 1) \in 1 .. m /\ p = h - 1 + (p - (h - 1))
    BY <1>2
  <2>2. QED BY <2>1
<1>3. CASE p > h - 1 + m
  <2>1. p - m + 1 \in h + 1 .. a /\ p = (p - m + 1) + m - 1
    BY <1>3
  <2>2. QED BY <2>1
<1>4. QED
  BY <1>1, <1>2, <1>3
-----------------------------------------------------------------------------
(* What two sequences of source statements have in common.                 *)

\* The source goes on from a to the settled x, by unfolding.
Leads(a, x) ==
    /\ Settled(x)
    /\ \E n \in Nat : \E f :
         /\ f[0] = a /\ f[n] = x
         /\ \A i \in 0 .. n - 1 : ~Settled(f[i]) /\ f[i + 1] = Unfolded(f[i])

\* The same events come next from a and from b.
Same(a, b) == \A x : Leads(a, x) <=> Leads(b, x)

\* A row that is settled leads only to itself.
LEMMA LeadsSettled ==
    ASSUME NEW a, Settled(a), NEW x
    PROVE  Leads(a, x) <=> x = a
<1>1. ASSUME Leads(a, x) PROVE x = a
  <2>1. PICK n \in Nat : \E f :
          /\ f[0] = a /\ f[n] = x
          /\ \A i \in 0 .. n - 1 : ~Settled(f[i]) /\ f[i + 1] = Unfolded(f[i])
    BY <1>1 DEF Leads
  <2>2. PICK f :
          /\ f[0] = a /\ f[n] = x
          /\ \A i \in 0 .. n - 1 : ~Settled(f[i]) /\ f[i + 1] = Unfolded(f[i])
    BY <2>1
  <2>3. n = 0
    <3>1. n # 0 => 0 \in 0 .. n - 1
      OBVIOUS
    <3>2. QED BY ONLY <3>1, <2>2, Settled(a)
  <2>4. QED BY <2>2, <2>3
<1>2. Leads(a, a)
  <2> DEFINE f == [i \in {0} |-> a]
  <2>1. f[0] = a /\ \A i \in 0 .. 0 - 1 : ~Settled(f[i]) /\ f[i + 1] = Unfolded(f[i])
    OBVIOUS
  <2> HIDE DEF f
  <2>2. 0 \in Nat
    OBVIOUS
  <2>3. QED BY <2>1, <2>2 DEF Leads
<1>3. QED
  BY <1>1, <1>2

\* What an unfolded row leads to, the row leads to.
LEMMA LeadsUnfolded ==
    ASSUME NEW a, ~Settled(a), NEW x
    PROVE  Leads(a, x) <=> Leads(Unfolded(a), x)
<1>1. ASSUME Leads(a, x) PROVE Leads(Unfolded(a), x)
  <2>1. PICK n \in Nat : \E f :
          /\ f[0] = a /\ f[n] = x
          /\ \A i \in 0 .. n - 1 : ~Settled(f[i]) /\ f[i + 1] = Unfolded(f[i])
    BY <1>1 DEF Leads
  <2>2. PICK f :
          /\ f[0] = a /\ f[n] = x
          /\ \A i \in 0 .. n - 1 : ~Settled(f[i]) /\ f[i + 1] = Unfolded(f[i])
    BY <2>1
  <2>3. Settled(x)
    BY <1>1 DEF Leads
  <2>4. n # 0
    BY ONLY <2>2, <2>3, ~Settled(a)
  <2>5. n - 1 \in Nat
    BY <2>4
  <2> DEFINE g == [i \in 0 .. n - 1 |-> f[i + 1]]
  <2>6. g[0] = Unfolded(a)
    <3>1. 0 \in 0 .. n - 1
      BY <2>5
    <3>2. g[0] = f[0 + 1] /\ f[0 + 1] = Unfolded(f[0])
      BY <3>1, <2>2
    <3>3. QED BY <3>2, <2>2
  <2>7. g[n - 1] = x
    <3>1. n - 1 \in 0 .. n - 1 /\ (n - 1) + 1 = n
      BY <2>5
    <3>2. QED BY <3>1, <2>2
  <2>8. ASSUME NEW i \in 0 .. (n - 1) - 1
        PROVE  ~Settled(g[i]) /\ g[i + 1] = Unfolded(g[i])
    <3>1. i \in 0 .. n - 1 /\ i + 1 \in 0 .. n - 1
      BY <2>5
    <3>2. g[i] = f[i + 1] /\ g[i + 1] = f[i + 1 + 1]
      BY <3>1
    <3> HIDE DEF g
    <3>3. QED BY <3>1, <3>2, <2>2
  <2> HIDE DEF g
  <2>9. QED BY <2>3, <2>5, <2>6, <2>7, <2>8 DEF Leads
<1>2. ASSUME Leads(Unfolded(a), x) PROVE Leads(a, x)
  <2>1. PICK n \in Nat : \E f :
          /\ f[0] = Unfolded(a) /\ f[n] = x
          /\ \A i \in 0 .. n - 1 : ~Settled(f[i]) /\ f[i + 1] = Unfolded(f[i])
    BY <1>2 DEF Leads
  <2>2. PICK f :
          /\ f[0] = Unfolded(a) /\ f[n] = x
          /\ \A i \in 0 .. n - 1 : ~Settled(f[i]) /\ f[i + 1] = Unfolded(f[i])
    BY <2>1
  <2>3. Settled(x)
    BY <1>2 DEF Leads
  <2> DEFINE g == [i \in 0 .. n + 1 |-> IF i = 0 THEN a ELSE f[i - 1]]
  <2>4. g[0] = a /\ g[n + 1] = x /\ n + 1 \in Nat
    <3>1. 0 \in 0 .. n + 1 /\ n + 1 \in 0 .. n + 1 /\ n + 1 # 0 /\ (n + 1) - 1 = n
      OBVIOUS
    <3>2. QED BY <3>1, <2>2
  <2>5. ASSUME NEW i \in 0 .. (n + 1) - 1
        PROVE  ~Settled(g[i]) /\ g[i + 1] = Unfolded(g[i])
    <3>1. i \in 0 .. n + 1 /\ i + 1 \in 0 .. n + 1 /\ i + 1 # 0 /\ (i + 1) - 1 = i
      OBVIOUS
    <3>2. g[i + 1] = f[i]
      BY <3>1
    <3>3. CASE i = 0
      <4>1. g[i] = a /\ f[i] = Unfolded(a)
        BY <3>1, <3>3, <2>2
      <4> HIDE DEF g
      <4>2. QED BY <4>1, <3>2
    <3>4. CASE i # 0
      <4>1. PICK j \in 0 .. n - 1 : i = j + 1
        <5>1. i - 1 \in 0 .. n - 1 /\ i = (i - 1) + 1
          BY <3>4
        <5>2. QED BY <5>1
      <4>2. g[i] = f[j]
        <5>1. i - 1 = j
          BY <4>1
        <5>2. QED BY <5>1, <3>1, <3>4
      <4> HIDE DEF g
      <4>3. QED BY <4>1, <4>2, <3>2, <2>2
    <3>5. QED BY <3>3, <3>4
  <2> HIDE DEF g
  <2>6. QED BY <2>3, <2>4, <2>5 DEF Leads
<1>3. QED
  BY <1>1, <1>2

\* A row and what it unfolds to run the same.
LEMMA SameUnfolded ==
    ASSUME NEW a, ~Settled(a)
    PROVE  Same(a, Unfolded(a))
BY LeadsUnfolded DEF Same

\* Two settled rows that run the same are equal.
LEMMA SameSettled ==
    ASSUME NEW a, NEW b, Settled(a), Settled(b), Same(a, b)
    PROVE  a = b
BY LeadsSettled DEF Same

\* Same is an equivalence.
LEMMA SameRefl ==
    ASSUME NEW a
    PROVE  Same(a, a)
BY DEF Same

LEMMA SameSym ==
    ASSUME NEW a, NEW b, Same(a, b)
    PROVE  Same(b, a)
BY DEF Same

LEMMA SameTrans ==
    ASSUME NEW a, NEW b, NEW c, Same(a, b), Same(b, c)
    PROVE  Same(a, c)
BY DEF Same

\* A statement that is no event, before others.
LEMMA SameParts ==
    ASSUME NEW s, ~IsEvent(s), NEW k, Row(k)
    PROVE  Same(<<s>> \o k, Parts(s) \o k)
<1>1. <<s>> \o k # << >> /\ Head(<<s>> \o k) = s /\ Tail(<<s>> \o k) = k
  BY RowHead
<1>2. ~Settled(<<s>> \o k)
  BY <1>1 DEF Settled
<1>3. Unfolded(<<s>> \o k) = Parts(s) \o k
  BY <1>1 DEF Unfolded
<1>4. QED
  BY <1>2, <1>3, SameUnfolded

\* A settled row that runs as an event and a rest is these.
LEMMA SameEvent ==
    ASSUME NEW s, IsEvent(s), NEW k, Row(k), NEW x, Settled(x), Same(x, <<s>> \o k)
    PROVE  x = <<s>> \o k /\ x # << >> /\ Head(x) = s /\ Tail(x) = k
<1>1. <<s>> \o k # << >> /\ Head(<<s>> \o k) = s /\ Tail(<<s>> \o k) = k
  BY RowHead
<1>2. Settled(<<s>> \o k)
  BY <1>1 DEF Settled
<1>3. QED
  BY <1>1, <1>2, SameSettled

-----------------------------------------------------------------------------
(* What is known at every place of the code.                               *)

\* A note on the state in which a place is reached: the frames that are open;
\* the values of the registers that hold the left operands around; whether a
\* condition is still to start (or there is none), the next register has its
\* value, or that has been tested, which zf tells; what is left to run of the
\* source, and what is when the condition is false.
Note(fr, held, at, yes, no) ==
    [frames |-> fr, held |-> held, at |-> at, yes |-> yes, no |-> no]
Truths == {{}, {0}}
IsNote(a) ==
    /\ a.frames \in Nat /\ a.held \in Seq(Truths)
    /\ a.at \in {"start", "value", "tested"}
    /\ Row(a.yes) /\ Row(a.no)
Plain(a) == a.at = "start" /\ a.held = << >>

Jumps == {"jmp", "je", "jne"}
Ops == {"stmt", "cond", "act", "atom", "cmp", "and", "or", "setne", "mask",
        "label", "enter", "leave", "ret"} \cup Jumps

\* A statement is made of statements and conditions of the program.
MadeOfParts(s) ==
    /\ s.t \in {"act", "ret", "block", "if", "while", "for"}
    /\ s.t = "block" => s.body \in Seq(Stmts)
    /\ s.t \in {"if", "while", "for"} => s.c \in Conds /\ s.body \in Stmts
    /\ s.t = "if" => s.else \in Stmts \cup {None}
    /\ s.t = "for" => {s.init, s.inc} \subseteq Stmts

\* Where the source returns.
Returns(list) == \E x : Settled(x) /\ NextEvent(x) = <<"return">> /\ Same(list, x)

\* e may stand at a place with the note a.
Stands(e, a) ==
    /\ e.op = "stmt" => Plain(a) /\ a.frames = e.deep /\ MadeOfParts(e.s)
    /\ e.op = "cond" => a.at = "start" /\ Len(a.held) = e.d /\ e.c \in Conds
    /\ e.op \in {"act", "jmp", "enter", "leave"} => Plain(a)
    /\ e.op = "atom" => a.at = "start" /\ Len(a.held) = e.arg
    /\ e.op \in {"cmp", "setne", "mask"} => a.at = "value" /\ Len(a.held) = e.arg
    /\ e.op \in {"and", "or"} => a.at = "value" /\ e.arg \in Nat /\ Len(a.held) = e.arg + 1
    /\ e.op \in {"je", "jne"} => a.at = "tested"
    /\ e.op = "label" => a.at # "tested"
    /\ e.op = "ret" => Plain(a) /\ a.frames = e.arg /\ Returns(a.yes)

\* The condition c takes the note a to b.
Tests(c, a, b) ==
    /\ b.at = "value" /\ b.frames = a.frames /\ b.held = a.held
    /\ \E y, n, k :
         /\ Row(y) /\ Row(n) /\ Row(k)
         /\ Same(a.yes, <<Branch(c, y, n)>> \o k)
         /\ Same(b.yes, y \o k) /\ Same(b.no, n \o k)
Continues(a, b) ==
    /\ b.frames = a.frames /\ Same(a.yes, b.yes)
    /\ a.at # "start" => Same(a.no, b.no)

\* e takes the note a to the note b of the next place.
Linked(e, a, b) ==
    /\ e.op = "stmt" => Plain(b) /\ b.frames = a.frames /\ Same(a.yes, <<e.s>> \o b.yes)
    /\ e.op = "act" =>
         /\ Plain(b) /\ b.frames = a.frames
         /\ \E s : s.t = "act" /\ s.name = e.name /\ Same(a.yes, <<s>> \o b.yes)
    /\ e.op = "cond" => Tests(e.c, a, b)
    /\ e.op = "atom" => \E c : c.t = "atom" /\ c.name = e.name /\ Tests(c, a, b)
    /\ e.op = "cmp" => Continues(a, b) /\ b.held = a.held /\ b.at = "tested"
    /\ e.op \in {"setne", "mask", "label"} =>
         Continues(a, b) /\ b.held = a.held /\ b.at = a.at
    /\ e.op = "and" => Continues(a, b) /\ a.held = Append(b.held, {0}) /\ b.at = "value"
    /\ e.op = "or" => Continues(a, b) /\ a.held = Append(b.held, {}) /\ b.at = "value"
    /\ e.op = "je" =>
         /\ b.at = "start" /\ b.frames = a.frames /\ Same(a.yes, b.yes)
         /\ b.held = a.held \/ b.held = Append(a.held, {0})
    /\ e.op = "jne" =>
         /\ b.at = "start" /\ b.frames = a.frames /\ Same(a.no, b.yes)
         /\ b.held = Append(a.held, {})
    /\ e.op = "enter" => Plain(b) /\ b.frames = a.frames + 1 /\ Same(a.yes, b.yes)
    /\ e.op = "leave" => Plain(b) /\ a.frames = b.frames + 1 /\ Same(a.yes, b.yes)

\* The jump e takes the note a to the note b of its label.
Lands(e, a, b) ==
    /\ b.frames = a.frames /\ b.held = a.held
    /\ e.op = "jmp" => b.at = "start" /\ Same(a.yes, b.yes)
    /\ e.op = "je" => \/ b.at = "start" /\ Same(a.no, b.yes)
                      \/ b.at = "value" /\ Same(a.no, b.no)
    /\ e.op = "jne" => b.at = "value" /\ Same(a.yes, b.yes)

\* Code A with the notes N.
Marked(A, N) ==
    /\ Row(A) /\ Row(N) /\ Len(A) >= 1 /\ Len(N) = Len(A)
    /\ \A i \in 1 .. Len(A) : A[i].op \in Ops /\ IsNote(N[i]) /\ Stands(A[i], N[i])
    /\ \A i \in 1 .. Len(A) - 1 : Linked(A[i], N[i], N[i + 1])
    /\ \A i, t \in 1 .. Len(A) :
         A[i].op \in Jumps /\ A[t] = Instr("label", A[i].arg) => Lands(A[i], N[i], N[t])
\* A part of the code that takes the note b to the note c.
Fits(A, N, b, c) ==
    Marked(A, N) /\ N[1] = b /\ Linked(A[Len(A)], N[Len(A)], c)
\* The labels of A are those from m up to n.
Labelled(A, m, n) ==
    /\ \A i \in 1 .. Len(A) : A[i].op \in Jumps \cup {"label"} => A[i].arg \in m .. n - 1
    /\ \A l \in m .. n - 1 : \E i \in 1 .. Len(A) : A[i] = Instr("label", l)
    /\ \A i, j \in 1 .. Len(A) :
         A[i].op = "label" /\ A[j].op = "label" /\ A[i].arg = A[j].arg => i = j

IsHole(e) == e.op \in {"stmt", "cond"}

\* The fields of an instruction.
LEMMA InstrFields ==
    ASSUME NEW op, NEW arg
    PROVE  Instr(op, arg).op = op /\ Instr(op, arg).arg = arg
BY DEF Instr

\* The place where the machine starts and the last instruction.
SameEnds(B, M, A, N) == M[1] = N[1] /\ B[Len(B)] = A[Len(A)]

\* A part may stand for what it was generated from.
LEMMA SplicedMarked ==
    ASSUME NEW A, NEW N, Marked(A, N), NEW h \in 1 .. Len(A) - 1, IsHole(A[h]),
           NEW n \in Nat, NEW k \in Nat, Labelled(A, 0, n),
           NEW I, NEW J, Fits(I, J, N[h], N[h + 1]), Labelled(I, n, n + k)
    PROVE  /\ Marked(Spliced(A, h, I), Spliced(N, h, J))
           /\ Labelled(Spliced(A, h, I), 0, n + k)
           /\ SameEnds(Spliced(A, h, I), Spliced(N, h, J), A, N)
<1>0. PICK B, M, a, m : B = Spliced(A, h, I) /\ M = Spliced(N, h, J) /\ a = Len(A) /\ m = Len(I)
  OBVIOUS
<1>1. /\ Row(A) /\ Row(N) /\ Row(I) /\ Row(J) /\ a \in Nat /\ m \in Nat /\ m >= 1
      /\ h \in 1 .. a /\ h \in 1 .. a - 1 /\ Len(N) = a /\ Len(J) = m
  BY <1>0, RowFacts DEF Fits, Marked
<1>2. /\ Row(B) /\ Len(B) = a + m - 1
      /\ \A i \in 1 .. h - 1 : B[i] = A[i]
      /\ \A i \in 1 .. m : B[h - 1 + i] = I[i]
      /\ \A i \in h + 1 .. a : B[i + m - 1] = A[i]
  <2>1. h \in 1 .. Len(A) /\ Len(I) >= 1
    BY <1>0, <1>1
  <2>2. IsSplice(B, A, h, I)
    BY ONLY <1>0, <1>1, <2>1, SplicedFacts
  <2>3. QED BY ONLY <1>0, <1>1, <2>2 DEF IsSplice
<1>3. /\ Row(M) /\ Len(M) = a + m - 1
      /\ \A i \in 1 .. h - 1 : M[i] = N[i]
      /\ \A i \in 1 .. m : M[h - 1 + i] = J[i]
      /\ \A i \in h + 1 .. a : M[i + m - 1] = N[i]
  <2>1. h \in 1 .. Len(N) /\ Len(J) >= 1
    BY <1>1
  <2>2. IsSplice(M, N, h, J)
    BY ONLY <1>0, <1>1, <2>1, SplicedFacts
  <2>3. QED BY ONLY <1>0, <1>1, <2>2 DEF IsSplice
<1>4. ASSUME NEW p \in 1 .. a + m - 1
      PROVE  \/ \E i \in 1 .. h - 1 : p = i /\ B[p] = A[i] /\ M[p] = N[i]
             \/ \E j \in 1 .. m : p = h - 1 + j /\ B[p] = I[j] /\ M[p] = J[j]
             \/ \E i \in h + 1 .. a : p = i + m - 1 /\ B[p] = A[i] /\ M[p] = N[i]
  <2>1. \/ p \in 1 .. h - 1
        \/ \E j \in 1 .. m : p = h - 1 + j
        \/ \E i \in h + 1 .. a : p = i + m - 1
    BY <1>1, SplicedFrom
  <2>2. QED BY ONLY <2>1, <1>2, <1>3
\* Outside of what has been replaced, or inside.
<1> DEFINE Out(p) == \E i \in 1 .. a : /\ i # h /\ B[p] = A[i] /\ M[p] = N[i]
                                       /\ i < h => p = i
                                       /\ i > h => p = i + m - 1
           In(p) == \E j \in 1 .. m : p = h - 1 + j /\ B[p] = I[j] /\ M[p] = J[j]
<1>5. ASSUME NEW p \in 1 .. a + m - 1 PROVE Out(p) \/ In(p)
  <2>1. CASE \E i \in 1 .. h - 1 : p = i /\ B[p] = A[i] /\ M[p] = N[i]
    <3>1. PICK i \in 1 .. h - 1 : p = i /\ B[p] = A[i] /\ M[p] = N[i]
      BY <2>1
    <3>2. i \in 1 .. a /\ i < h
      BY <1>1
    <3>3. QED BY <3>1, <3>2
  <2>2. CASE \E i \in h + 1 .. a : p = i + m - 1 /\ B[p] = A[i] /\ M[p] = N[i]
    <3>1. PICK i \in h + 1 .. a : p = i + m - 1 /\ B[p] = A[i] /\ M[p] = N[i]
      BY <2>2
    <3>2. i \in 1 .. a /\ i > h
      BY <1>1
    <3>3. QED BY <3>1, <3>2
  <2>3. QED BY <2>1, <2>2, <1>4
<1>6. \A i \in 1 .. m : I[i].op \in Ops /\ IsNote(J[i]) /\ Stands(I[i], J[i])
  BY <1>0 DEF Fits, Marked
<1>7. \A i \in 1 .. a : A[i].op \in Ops /\ IsNote(N[i]) /\ Stands(A[i], N[i])
  BY <1>0 DEF Marked
<1>8. \A p \in 1 .. a + m - 1 : B[p].op \in Ops /\ IsNote(M[p]) /\ Stands(B[p], M[p])
  BY <1>5, <1>6, <1>7
<1>9. /\ \A i \in 1 .. a - 1 : Linked(A[i], N[i], N[i + 1])
      /\ \A i \in 1 .. m - 1 : Linked(I[i], J[i], J[i + 1])
      /\ Linked(I[m], J[m], N[h + 1]) /\ J[1] = N[h]
  BY <1>0 DEF Fits, Marked
<1>10. ASSUME NEW p \in 1 .. a + m - 2 PROVE Linked(B[p], M[p], M[p + 1])
  <2>1. CASE \E i \in 1 .. h - 1 : p = i /\ B[p] = A[i] /\ M[p] = N[i]
    <3>1. p \in 1 .. h - 1 /\ p \in 1 .. a - 1
      BY <2>1, <1>1
    <3>2. M[p + 1] = N[p + 1]
      <4>1. CASE p = h - 1
        <5>1. p + 1 = h - 1 + 1 /\ 1 \in 1 .. m
          BY <4>1, <1>1
        <5>2. M[h - 1 + 1] = J[1]
          BY <5>1, <1>3
        <5>3. p + 1 = h
          BY <4>1, <1>1
        <5>4. QED BY <5>1, <5>2, <5>3, <1>9
      <4>2. CASE p # h - 1
        <5>1. p + 1 \in 1 .. h - 1
          BY <4>2, <3>1, <1>1
        <5>2. QED BY <5>1, <1>3
      <4>3. QED BY <4>1, <4>2
    <3>3. QED BY <3>1, <3>2, <2>1, <1>9
  <2>2. CASE \E j \in 1 .. m : p = h - 1 + j /\ B[p] = I[j] /\ M[p] = J[j]
    <3>1. PICK j \in 1 .. m : p = h - 1 + j /\ B[p] = I[j] /\ M[p] = J[j]
      BY <2>2
    <3>2. CASE j = m
      <4>1. h + 1 \in h + 1 .. a /\ p + 1 = h + 1 + m - 1
        BY ONLY <3>1, <3>2, <1>1
      <4>2. M[p + 1] = N[h + 1]
        BY <4>1, <1>3
      <4>3. QED BY <4>2, <3>1, <3>2, <1>9
    <3>3. CASE j # m
      <4>1. j \in 1 .. m - 1 /\ j + 1 \in 1 .. m /\ p + 1 = h - 1 + (j + 1)
        BY <3>1, <3>3, <1>1
      <4>2. M[p + 1] = J[j + 1]
        BY <4>1, <1>3
      <4>3. QED BY <4>1, <4>2, <3>1, <1>9
    <3>4. QED BY <3>2, <3>3
  <2>3. CASE \E i \in h + 1 .. a : p = i + m - 1 /\ B[p] = A[i] /\ M[p] = N[i]
    <3>1. PICK i \in h + 1 .. a : p = i + m - 1 /\ B[p] = A[i] /\ M[p] = N[i]
      BY <2>3
    <3>2. i \in 1 .. a - 1 /\ i + 1 \in h + 1 .. a /\ p + 1 = (i + 1) + m - 1
      BY <3>1, <1>1
    <3>3. M[p + 1] = N[i + 1]
      BY <3>2, <1>3
    <3>4. QED BY <3>1, <3>2, <3>3, <1>9
  <2>4. p \in 1 .. a + m - 1
    BY <1>1
  <2>5. QED BY <2>1, <2>2, <2>3, <2>4, <1>4
<1>11. /\ \A i \in 1 .. a : A[i].op \in Jumps \cup {"label"} => A[i].arg \in 0 .. n - 1
       /\ \A i \in 1 .. m : I[i].op \in Jumps \cup {"label"} => I[i].arg \in n .. n + k - 1
  BY <1>0 DEF Labelled
<1>12. /\ \A i, t \in 1 .. a :
            A[i].op \in Jumps /\ A[t] = Instr("label", A[i].arg) => Lands(A[i], N[i], N[t])
       /\ \A i, t \in 1 .. m :
            I[i].op \in Jumps /\ I[t] = Instr("label", I[i].arg) => Lands(I[i], J[i], J[t])
  BY <1>0 DEF Fits, Marked
<1>13. ASSUME NEW p \in 1 .. a + m - 1, NEW t \in 1 .. a + m - 1,
              B[p].op \in Jumps, B[t] = Instr("label", B[p].arg)
       PROVE  Lands(B[p], M[p], M[t])
  <2>1. B[t].op = "label" /\ B[t].arg = B[p].arg
    BY ONLY <1>13, InstrFields
  <2>2. ~(Out(p) /\ In(t)) /\ ~(In(p) /\ Out(t))
    <3>1. Out(p) => B[p].arg \in 0 .. n - 1
      BY <1>11, <1>13
    <3>2. In(p) => B[p].arg \in n .. n + k - 1
      BY <1>11, <1>13
    <3>3. Out(t) => B[t].arg \in 0 .. n - 1
      BY <1>11, <2>1
    <3>4. In(t) => B[t].arg \in n .. n + k - 1
      BY <1>11, <2>1
    <3> HIDE DEF Out, In
    <3>5. QED BY <3>1, <3>2, <3>3, <3>4, <2>1
  <2>3. CASE Out(p) /\ Out(t)
    BY <2>3, <1>12, <1>13
  <2>4. CASE In(p) /\ In(t)
    BY <2>4, <1>12, <1>13
  <2> HIDE DEF Out, In
  <2>5. QED BY <2>2, <2>3, <2>4, <1>5
<1>14. Marked(B, M)
  <2>1. Len(B) >= 1 /\ Len(B) - 1 = a + m - 2
    BY <1>1, <1>2
  <2> HIDE DEF Out, In
  <2>2. QED BY <2>1, <1>2, <1>3, <1>8, <1>10, <1>13 DEF Marked
<1>15. ASSUME NEW p \in 1 .. a + m - 1, B[p].op \in Jumps \cup {"label"}
       PROVE  B[p].arg \in 0 .. n + k - 1
  <2>1. Out(p) => B[p].arg \in 0 .. n - 1
    BY <1>11, <1>15
  <2>2. In(p) => B[p].arg \in n .. n + k - 1
    BY <1>11, <1>15
  <2> HIDE DEF Out, In
  <2>3. QED BY <2>1, <2>2, <1>5
<1>16. ASSUME NEW l \in 0 .. n + k - 1
       PROVE  \E p \in 1 .. a + m - 1 : B[p] = Instr("label", l)
  <2>1. CASE l < n
    <3>1. PICK i \in 1 .. a : A[i] = Instr("label", l)
      BY <2>1, <1>0 DEF Labelled
    <3>2. i # h
      <4>1. A[i].op = "label"
        BY ONLY <3>1, InstrFields
      <4>2. QED BY <4>1 DEF IsHole
    <3>3. CASE i < h
      <4>1. i \in 1 .. h - 1 /\ i \in 1 .. a + m - 1
        BY <3>3, <1>1
      <4>2. QED BY <4>1, <3>1, <1>2
    <3>4. CASE i > h
      <4>1. i \in h + 1 .. a /\ i + m - 1 \in 1 .. a + m - 1
        BY <3>4, <1>1
      <4>2. B[i + m - 1] = A[i]
        BY <4>1, <1>2
      <4>3. QED BY <4>1, <4>2, <3>1
    <3>5. QED BY <3>2, <3>3, <3>4, <1>1
  <2>2. CASE l >= n
    <3>1. PICK j \in 1 .. m : I[j] = Instr("label", l)
      <4>1. l \in n .. n + k - 1
        BY <2>2
      <4>2. QED BY <4>1, <1>0 DEF Labelled
    <3>2. h - 1 + j \in 1 .. a + m - 1 /\ B[h - 1 + j] = I[j]
      BY <1>1, <1>2
    <3>3. QED BY <3>1, <3>2
  <2>3. QED BY <2>1, <2>2
<1>17. ASSUME NEW p \in 1 .. a + m - 1, NEW q \in 1 .. a + m - 1,
              B[p].op = "label", B[q].op = "label", B[p].arg = B[q].arg
       PROVE  p = q
  <2>1. ASSUME NEW r \in {p, q} PROVE (Out(r) => B[r].arg \in 0 .. n - 1) /\ (In(r) => B[r].arg \in n .. n + k - 1)
    BY <1>11, <1>17
  <2>2. CASE Out(p) /\ Out(q)
    <3>1. \A i, j \in 1 .. a :
            A[i].op = "label" /\ A[j].op = "label" /\ A[i].arg = A[j].arg => i = j
      BY <1>0 DEF Labelled
    <3>2. PICK i \in 1 .. a : i # h /\ B[p] = A[i] /\ (i < h => p = i) /\ (i > h => p = i + m - 1)
      BY <2>2
    <3>3. PICK j \in 1 .. a : j # h /\ B[q] = A[j] /\ (j < h => q = j) /\ (j > h => q = j + m - 1)
      BY <2>2
    <3>4. i = j
      BY <3>1, <3>2, <3>3, <1>17
    <3> HIDE DEF Out, In
    <3>5. QED BY <3>2, <3>3, <3>4, <1>1
  <2>3. CASE In(p) /\ In(q)
    <3>1. \A i, j \in 1 .. m :
            I[i].op = "label" /\ I[j].op = "label" /\ I[i].arg = I[j].arg => i = j
      BY <1>0 DEF Labelled
    <3>2. QED BY <3>1, <2>3, <1>17
  <2> HIDE DEF Out, In
  <2>4. QED BY <2>1, <2>2, <2>3, <1>5, <1>17
<1>18. Labelled(B, 0, n + k)
  <2> HIDE DEF Out, In
  <2>1. QED BY <1>2, <1>15, <1>16, <1>17 DEF Labelled
<1>19. M[1] = N[1]
  <2>1. CASE h = 1
    <3>1. 1 \in 1 .. m /\ h - 1 + 1 = 1
      BY <2>1, <1>1
    <3>2. QED BY <3>1, <2>1, <1>3, <1>9
  <2>2. CASE h # 1
    <3>1. 1 \in 1 .. h - 1
      BY <2>2, <1>1
    <3>2. QED BY <3>1, <1>3
  <2>3. QED BY <2>1, <2>2
<1>20. B[Len(B)] = A[a]
  <2>1. a \in h + 1 .. a
    BY <1>1
  <2>2. QED BY <2>1, <1>2
<1>21. SameEnds(B, M, A, N)
  BY <1>0, <1>19, <1>20 DEF SameEnds
<1>22. QED
  BY <1>0, <1>14, <1>18, <1>21

-----------------------------------------------------------------------------
(* The notes of the instructions of a condition.                           *)

\* The fields of the parts that are still to be compiled.
LEMMA HoleFields ==
    ASSUME NEW x, NEW d
    PROVE  /\ Stmt(x, d).op = "stmt" /\ Stmt(x, d).s = x /\ Stmt(x, d).deep = d
           /\ Cond(x, d).op = "cond" /\ Cond(x, d).c = x /\ Cond(x, d).d = d
BY DEF Stmt, Cond

\* What a condition made of two others branches to.
LEMMA SameLogical ==
    ASSUME NEW c, c.t \in {"and", "or"}, NEW y, NEW n, NEW k, Row(k), Row(y), Row(n)
    PROVE  Same(<<Branch(c, y, n)>> \o k, BranchParts(Branch(c, y, n)) \o k)
<1> DEFINE s == Branch(c, y, n)
<1>1. s.t = "branch" /\ s.c = c
  BY DEF Branch
<1>2. ~IsEvent(s)
  BY <1>1 DEF IsEvent
<1>3. Parts(s) = BranchParts(s)
  <2> HIDE DEF s
  <2>1. QED BY <1>1 DEF Parts
<1> HIDE DEF s
<1>4. Same(<<s>> \o k, Parts(s) \o k)
  BY <1>2, SameParts
<1>5. QED
  BY <1>3, <1>4 DEF s

\* The eight items of a condition.
LEMMA CondItemsAre ==
    ASSUME NEW c, NEW d, NEW end, NEW I, I = CondItems(c, d, end)
    PROVE  /\ Row(I) /\ Len(I) = 8
           /\ I[1] = Cond(c.l, d) /\ I[2] = Instr("cmp", d)
           /\ I[3] = Instr(ShortCircuit(c), end) /\ I[4] = Cond(c.r, d + 1)
           /\ c.t = "and" => /\ I[5] = Instr("and", d) /\ I[6] = Instr("setne", d)
                             /\ I[7] = Instr("mask", d) /\ I[8] = Instr("label", end)
           /\ c.t # "and" => /\ I[5] = Instr("or", d) /\ I[6] = Instr("setne", d)
                             /\ I[7] = Instr("label", end) /\ I[8] = Instr("mask", d)
<1>1. PICK P : P = <<Cond(c.l, d), Instr("cmp", d), Instr(ShortCircuit(c), end), Cond(c.r, d + 1)>>
  OBVIOUS
<1>2. PICK Q : Q = IF c.t = "and" THEN AndTail(d, end) ELSE OrTail(d, end)
  OBVIOUS
<1>3. I = P \o Q
  BY <1>1, <1>2 DEF CondItems
<1>4. Row(P) /\ Len(P) = 4
  BY <1>1, RowFour
<1>5. Row(Q) /\ Len(Q) = 4
  BY <1>2, RowFour DEF AndTail, OrTail
<1>6. IsJoin(I, P, Q)
  BY ONLY <1>3, <1>4, <1>5, RowIsJoin
<1>7. Row(I) /\ Len(I) = 8 /\ \A i \in 1 .. 4 : I[i] = P[i]
  BY ONLY <1>4, <1>5, <1>6 DEF IsJoin
<1>8. \A i \in 1 .. 4 : I[4 + i] = Q[i]
  BY ONLY <1>4, <1>5, <1>6 DEF IsJoin
<1>9. I[1] = P[1] /\ I[2] = P[2] /\ I[3] = P[3] /\ I[4] = P[4]
  BY <1>7
<1>10. I[5] = Q[1] /\ I[6] = Q[2] /\ I[7] = Q[3] /\ I[8] = Q[4]
  <2>1. 5 = 4 + 1 /\ 6 = 4 + 2 /\ 7 = 4 + 3 /\ 8 = 4 + 4
    OBVIOUS
  <2>2. QED BY <2>1, <1>8
<1>11. /\ P[1] = Cond(c.l, d) /\ P[2] = Instr("cmp", d)
       /\ P[3] = Instr(ShortCircuit(c), end) /\ P[4] = Cond(c.r, d + 1)
  BY <1>1
<1>12. c.t = "and" => /\ Q[1] = Instr("and", d) /\ Q[2] = Instr("setne", d)
                      /\ Q[3] = Instr("mask", d) /\ Q[4] = Instr("label", end)
  BY <1>2 DEF AndTail
<1>13. c.t # "and" => /\ Q[1] = Instr("or", d) /\ Q[2] = Instr("setne", d)
                      /\ Q[3] = Instr("label", end) /\ Q[4] = Instr("mask", d)
  BY <1>2 DEF OrTail
<1>14. QED
  BY <1>7, <1>9, <1>10, <1>11, <1>12, <1>13
\* A part of length 8 fits when each of its items does; it has one jump, the
\* third item, to its only label, the item t.
LEMMA LogicalFits ==
    ASSUME NEW I, Row(I), Len(I) = 8, NEW J, Row(J), Len(J) = 8, NEW b, NEW n \in Nat, NEW t \in 7 .. 8,
           \A i \in 1 .. 8 : I[i].op \in Ops /\ IsNote(J[i]) /\ Stands(I[i], J[i]),
           \A i \in 1 .. 7 : Linked(I[i], J[i], J[i + 1]),
           Linked(I[8], J[8], b),
           \A i \in 1 .. 8 : (I[i].op \in Jumps => i = 3) /\ (I[i].op = "label" => i = t),
           I[3].arg = n, I[t] = Instr("label", n), Lands(I[3], J[3], J[t])
    PROVE  Fits(I, J, J[1], b) /\ Labelled(I, n, n + 1)
<1>1. ASSUME NEW i \in 1 .. 8, NEW u \in 1 .. 8, I[i].op \in Jumps, I[u] = Instr("label", I[i].arg)
      PROVE  Lands(I[i], J[i], J[u])
  <2>1. I[u].op = "label"
    BY ONLY <1>1, InstrFields
  <2>2. i = 3 /\ u = t
    BY <1>1, <2>1
  <2>3. QED BY <2>2
<1>2. Marked(I, J)
  BY <1>1 DEF Marked
<1>3. Fits(I, J, J[1], b)
  BY <1>2 DEF Fits
<1>4. I[t].arg = n /\ t \in 1 .. 8
  <2>1. I[t].arg = n
    BY ONLY I[t] = Instr("label", n), InstrFields
  <2>2. QED BY <2>1
<1>5. \A i \in 1 .. 8 : I[i].op \in Jumps \cup {"label"} => I[i].arg \in n .. n + 1 - 1
  <2>1. \A i \in 1 .. 8 : I[i].op \in Jumps \cup {"label"} => I[i].arg = n
    BY <1>4
  <2>2. n \in n .. n + 1 - 1
    OBVIOUS
  <2>3. QED BY ONLY <2>1, <2>2
<1>6. \A l \in n .. n + 1 - 1 : \E i \in 1 .. 8 : I[i] = Instr("label", l)
  <2>1. \A l \in n .. n + 1 - 1 : l = n
    OBVIOUS
  <2>2. QED BY <2>1, <1>4
<1>7. \A i, j \in 1 .. 8 : I[i].op = "label" /\ I[j].op = "label" /\ I[i].arg = I[j].arg => i = j
  OBVIOUS
<1>8. QED
  BY <1>3, <1>5, <1>6, <1>7 DEF Labelled

\* &&: the jump leaves it false, the four instructions at the end give the right operand.
LEMMA AndFits ==
    ASSUME NEW a, IsNote(a), NEW b, IsNote(b), NEW n \in Nat, NEW c \in Conds, c.t = "and", NEW d \in Nat,
           Stands(Cond(c, d), a), Linked(Cond(c, d), a, b)
    PROVE  \E J : Fits(CondItems(c, d, n), J, a, b) /\ Labelled(CondItems(c, d, n), n, n + 1)
<1>1. a.at = "start" /\ Len(a.held) = d /\ a.held \in Seq(Truths) /\ a.frames \in Nat
  BY HoleFields DEF Stands, IsNote
<1>2. Tests(c, a, b)
  BY HoleFields DEF Linked
<1>3. PICK y, no, k :
        /\ Row(y) /\ Row(no) /\ Row(k)
        /\ Same(a.yes, <<Branch(c, y, no)>> \o k)
        /\ Same(b.yes, y \o k) /\ Same(b.no, no \o k)
  BY <1>2 DEF Tests
<1>4. b.at = "value" /\ b.frames = a.frames /\ b.held = a.held
  BY <1>2 DEF Tests
\* The parts of the source.
<1>5. PICK R : R = <<Branch(c.r, y, no)>>
  OBVIOUS
<1>6. Row(R)
  BY <1>3, <1>5, RowHead
<1>7. Same(a.yes, <<Branch(c.l, R, no)>> \o k)
  <2>1. Same(<<Branch(c, y, no)>> \o k, BranchParts(Branch(c, y, no)) \o k)
    BY <1>3, SameLogical
  <2>2. BranchParts(Branch(c, y, no)) = <<Branch(c.l, R, no)>>
    BY <1>5 DEF BranchParts, Branch
  <2>3. QED BY <1>3, <2>1, <2>2, SameTrans
<1>8. Row(y \o k) /\ Row(no \o k) /\ Row(R \o k)
  BY <1>3, <1>6, RowJoined
\* The notes.
<1>9. PICK h : h = Append(a.held, {0})
  OBVIOUS
<1>10. h \in Seq(Truths) /\ Len(h) = d + 1
  BY <1>1, <1>9 DEF Truths
<1>11. PICK j2, j3, j4, j5, j6 :
         /\ j2 = Note(a.frames, a.held, "value", R \o k, no \o k)
         /\ j3 = Note(a.frames, a.held, "tested", R \o k, no \o k)
         /\ j4 = Note(a.frames, h, "start", R \o k, << >>)
         /\ j5 = Note(a.frames, h, "value", y \o k, no \o k)
         /\ j6 = Note(a.frames, a.held, "value", y \o k, no \o k)
  OBVIOUS
<1>12. /\ j2.frames = a.frames /\ j2.held = a.held /\ j2.at = "value"
       /\ j2.yes = R \o k /\ j2.no = no \o k
  BY ONLY <1>11 DEF Note
<1>13. /\ j3.frames = a.frames /\ j3.held = a.held /\ j3.at = "tested"
       /\ j3.yes = R \o k /\ j3.no = no \o k
  BY ONLY <1>11 DEF Note
<1>14. /\ j4.frames = a.frames /\ j4.held = h /\ j4.at = "start"
       /\ j4.yes = R \o k /\ j4.no = << >>
  BY ONLY <1>11 DEF Note
<1>15. /\ j5.frames = a.frames /\ j5.held = h /\ j5.at = "value"
       /\ j5.yes = y \o k /\ j5.no = no \o k
  BY ONLY <1>11 DEF Note
<1>16. /\ j6.frames = a.frames /\ j6.held = a.held /\ j6.at = "value"
       /\ j6.yes = y \o k /\ j6.no = no \o k
  BY ONLY <1>11 DEF Note
<1>17. IsNote(j2) /\ IsNote(j3) /\ IsNote(j5) /\ IsNote(j6)
  BY <1>1, <1>8, <1>10, <1>12, <1>13, <1>15, <1>16 DEF IsNote
<1>18. IsNote(j4)
  BY <1>1, <1>8, <1>10, <1>14, RowEmpty DEF IsNote
\* The items.
<1>19. PICK I : I = CondItems(c, d, n)
  OBVIOUS
<1>20. /\ Row(I) /\ Len(I) = 8
       /\ I[1] = Cond(c.l, d) /\ I[2] = Instr("cmp", d)
       /\ I[3] = Instr("je", n) /\ I[4] = Cond(c.r, d + 1)
       /\ I[5] = Instr("and", d) /\ I[6] = Instr("setne", d)
       /\ I[7] = Instr("mask", d) /\ I[8] = Instr("label", n)
  BY <1>19, CondItemsAre DEF ShortCircuit
<1>21. c.l \in Conds /\ c.r \in Conds
  BY SyntaxAssumption DEF SyntaxAssumption
<1>22. /\ I[1].op = "cond" /\ I[1].c = c.l /\ I[1].d = d /\ I[4].op = "cond" /\ I[4].c = c.r
          /\ I[4].d = d + 1
       /\ I[2].op = "cmp" /\ I[2].arg = d /\ I[3].op = "je" /\ I[3].arg = n
       /\ I[5].op = "and" /\ I[5].arg = d /\ I[6].op = "setne" /\ I[6].arg = d
       /\ I[7].op = "mask" /\ I[7].arg = d /\ I[8].op = "label" /\ I[8].arg = n
  BY ONLY <1>20, InstrFields, HoleFields
<1>23. Stands(I[1], a) /\ Stands(I[4], j4)
  BY <1>1, <1>10, <1>14, <1>21, <1>22 DEF Stands
<1>24. Stands(I[2], j2) /\ Stands(I[3], j3) /\ Stands(I[5], j5)
  BY <1>1, <1>10, <1>12, <1>13, <1>15, <1>22 DEF Stands
<1>25. Stands(I[6], j6) /\ Stands(I[7], j6) /\ Stands(I[8], j6)
  BY <1>1, <1>16, <1>22 DEF Stands
<1>26. Linked(I[1], a, j2)
  <2>1. Tests(c.l, a, j2)
    BY <1>3, <1>6, <1>7, <1>12, SameRefl DEF Tests
  <2>2. QED BY <2>1, <1>22 DEF Linked
<1>27. Linked(I[2], j2, j3)
  BY <1>12, <1>13, <1>22, SameRefl DEF Linked, Continues
<1>28. Linked(I[3], j3, j4)
  BY <1>9, <1>13, <1>14, <1>22, SameRefl DEF Linked
<1>29. Linked(I[4], j4, j5)
  <2>1. Tests(c.r, j4, j5)
    BY <1>3, <1>5, <1>14, <1>15, SameRefl DEF Tests
  <2>2. QED BY <2>1, <1>22 DEF Linked
<1>30. Linked(I[5], j5, j6)
  BY <1>9, <1>15, <1>16, <1>22, SameRefl DEF Linked, Continues
<1>31. Linked(I[6], j6, j6) /\ Linked(I[7], j6, j6)
  BY <1>16, <1>22, SameRefl DEF Linked, Continues
<1>32. Linked(I[8], j6, b)
  BY <1>3, <1>4, <1>16, <1>22, SameSym DEF Linked, Continues
<1>33. Lands(I[3], j3, j6)
  BY <1>13, <1>16, <1>22, SameRefl DEF Lands
<1>34. PICK J : J = <<a, j2, j3, j4, j5, j6, j6, j6>>
  OBVIOUS
<1>35. /\ Row(J) /\ Len(J) = 8 /\ J[1] = a /\ J[2] = j2 /\ J[3] = j3 /\ J[4] = j4 /\ J[5] = j5
       /\ J[6] = j6 /\ J[7] = j6 /\ J[8] = j6
  BY ONLY <1>34, RowTuple8
<1>36. \A i \in 1 .. 8 : I[i].op \in Ops /\ IsNote(J[i]) /\ Stands(I[i], J[i])
  <2>1. \A i \in 1 .. 8 : I[i].op \in Ops
    BY <1>22, OneToEight DEF Ops, Jumps
  <2>2. QED BY ONLY <2>1, <1>17, <1>18, <1>23, <1>24, <1>25, <1>35, IsNote(a), OneToEight
<1>37. \A i \in 1 .. 7 : Linked(I[i], J[i], J[i + 1])
  <2>1. /\ Linked(I[1], J[1], J[2]) /\ Linked(I[2], J[2], J[3]) /\ Linked(I[3], J[3], J[4])
        /\ Linked(I[4], J[4], J[5]) /\ Linked(I[5], J[5], J[6]) /\ Linked(I[6], J[6], J[7])
        /\ Linked(I[7], J[7], J[8])
    BY ONLY <1>26, <1>27, <1>28, <1>29, <1>30, <1>31, <1>35
  <2>2. QED BY ONLY <2>1
<1>38. \A i \in 1 .. 8 : (I[i].op \in Jumps => i = 3) /\ (I[i].op = "label" => i = 8)
  BY ONLY <1>22, OneToEight DEF Jumps
<1>39. Fits(I, J, J[1], b) /\ Labelled(I, n, n + 1)
  <2>1. Linked(I[8], J[8], b) /\ Lands(I[3], J[3], J[8]) /\ 8 \in 7 .. 8
    BY <1>32, <1>33, <1>35
  <2>2. QED BY ONLY <1>20, <1>22, <1>35, <1>36, <1>37, <1>38, <2>1, n \in Nat, LogicalFits
<1>40. QED
  BY <1>19, <1>35, <1>39

\* ||: the jump leaves it true.
LEMMA OrFits ==
    ASSUME NEW a, IsNote(a), NEW b, IsNote(b), NEW n \in Nat, NEW c \in Conds, c.t = "or", NEW d \in Nat,
           Stands(Cond(c, d), a), Linked(Cond(c, d), a, b)
    PROVE  \E J : Fits(CondItems(c, d, n), J, a, b) /\ Labelled(CondItems(c, d, n), n, n + 1)
<1>1. a.at = "start" /\ Len(a.held) = d /\ a.held \in Seq(Truths) /\ a.frames \in Nat
  BY HoleFields DEF Stands, IsNote
<1>2. Tests(c, a, b)
  BY HoleFields DEF Linked
<1>3. PICK y, no, k :
        /\ Row(y) /\ Row(no) /\ Row(k)
        /\ Same(a.yes, <<Branch(c, y, no)>> \o k)
        /\ Same(b.yes, y \o k) /\ Same(b.no, no \o k)
  BY <1>2 DEF Tests
<1>4. b.at = "value" /\ b.frames = a.frames /\ b.held = a.held
  BY <1>2 DEF Tests
\* The parts of the source.
<1>5. PICK R : R = <<Branch(c.r, y, no)>>
  OBVIOUS
<1>6. Row(R)
  BY <1>3, <1>5, RowHead
<1>7. Same(a.yes, <<Branch(c.l, y, R)>> \o k)
  <2>1. Same(<<Branch(c, y, no)>> \o k, BranchParts(Branch(c, y, no)) \o k)
    BY <1>3, SameLogical
  <2>2. BranchParts(Branch(c, y, no)) = <<Branch(c.l, y, R)>>
    BY <1>5 DEF BranchParts, Branch
  <2>3. QED BY <1>3, <2>1, <2>2, SameTrans
<1>8. Row(y \o k) /\ Row(no \o k) /\ Row(R \o k)
  BY <1>3, <1>6, RowJoined
\* The notes.
<1>9. PICK h : h = Append(a.held, {})
  OBVIOUS
<1>10. h \in Seq(Truths) /\ Len(h) = d + 1
  BY <1>1, <1>9 DEF Truths
<1>11. PICK j2, j3, j4, j5, j6 :
         /\ j2 = Note(a.frames, a.held, "value", y \o k, R \o k)
         /\ j3 = Note(a.frames, a.held, "tested", y \o k, R \o k)
         /\ j4 = Note(a.frames, h, "start", R \o k, << >>)
         /\ j5 = Note(a.frames, h, "value", y \o k, no \o k)
         /\ j6 = Note(a.frames, a.held, "value", y \o k, no \o k)
  OBVIOUS
<1>12. /\ j2.frames = a.frames /\ j2.held = a.held /\ j2.at = "value"
       /\ j2.yes = y \o k /\ j2.no = R \o k
  BY ONLY <1>11 DEF Note
<1>13. /\ j3.frames = a.frames /\ j3.held = a.held /\ j3.at = "tested"
       /\ j3.yes = y \o k /\ j3.no = R \o k
  BY ONLY <1>11 DEF Note
<1>14. /\ j4.frames = a.frames /\ j4.held = h /\ j4.at = "start"
       /\ j4.yes = R \o k /\ j4.no = << >>
  BY ONLY <1>11 DEF Note
<1>15. /\ j5.frames = a.frames /\ j5.held = h /\ j5.at = "value"
       /\ j5.yes = y \o k /\ j5.no = no \o k
  BY ONLY <1>11 DEF Note
<1>16. /\ j6.frames = a.frames /\ j6.held = a.held /\ j6.at = "value"
       /\ j6.yes = y \o k /\ j6.no = no \o k
  BY ONLY <1>11 DEF Note
<1>17. IsNote(j2) /\ IsNote(j3) /\ IsNote(j5) /\ IsNote(j6)
  BY <1>1, <1>8, <1>10, <1>12, <1>13, <1>15, <1>16 DEF IsNote
<1>18. IsNote(j4)
  BY <1>1, <1>8, <1>10, <1>14, RowEmpty DEF IsNote
\* The items.
<1>19. PICK I : I = CondItems(c, d, n)
  OBVIOUS
<1>20. /\ Row(I) /\ Len(I) = 8
       /\ I[1] = Cond(c.l, d) /\ I[2] = Instr("cmp", d)
       /\ I[3] = Instr("jne", n) /\ I[4] = Cond(c.r, d + 1)
       /\ I[5] = Instr("or", d) /\ I[6] = Instr("setne", d)
       /\ I[7] = Instr("label", n) /\ I[8] = Instr("mask", d)
  BY <1>19, CondItemsAre DEF ShortCircuit
<1>21. c.l \in Conds /\ c.r \in Conds
  BY SyntaxAssumption DEF SyntaxAssumption
<1>22. /\ I[1].op = "cond" /\ I[1].c = c.l /\ I[1].d = d /\ I[4].op = "cond" /\ I[4].c = c.r
          /\ I[4].d = d + 1
       /\ I[2].op = "cmp" /\ I[2].arg = d /\ I[3].op = "jne" /\ I[3].arg = n
       /\ I[5].op = "or" /\ I[5].arg = d /\ I[6].op = "setne" /\ I[6].arg = d
       /\ I[7].op = "label" /\ I[7].arg = n /\ I[8].op = "mask" /\ I[8].arg = d
  BY ONLY <1>20, InstrFields, HoleFields
<1>23. Stands(I[1], a) /\ Stands(I[4], j4)
  BY <1>1, <1>10, <1>14, <1>21, <1>22 DEF Stands
<1>24. Stands(I[2], j2) /\ Stands(I[3], j3) /\ Stands(I[5], j5)
  BY <1>1, <1>10, <1>12, <1>13, <1>15, <1>22 DEF Stands
<1>25. Stands(I[6], j6) /\ Stands(I[7], j6) /\ Stands(I[8], j6)
  BY <1>1, <1>16, <1>22 DEF Stands
<1>26. Linked(I[1], a, j2)
  <2>1. Tests(c.l, a, j2)
    BY <1>3, <1>6, <1>7, <1>12, SameRefl DEF Tests
  <2>2. QED BY <2>1, <1>22 DEF Linked
<1>27. Linked(I[2], j2, j3)
  BY <1>12, <1>13, <1>22, SameRefl DEF Linked, Continues
<1>28. Linked(I[3], j3, j4)
  BY <1>9, <1>13, <1>14, <1>22, SameRefl DEF Linked
<1>29. Linked(I[4], j4, j5)
  <2>1. Tests(c.r, j4, j5)
    BY <1>3, <1>5, <1>14, <1>15, SameRefl DEF Tests
  <2>2. QED BY <2>1, <1>22 DEF Linked
<1>30. Linked(I[5], j5, j6)
  BY <1>9, <1>15, <1>16, <1>22, SameRefl DEF Linked, Continues
<1>31. Linked(I[6], j6, j6) /\ Linked(I[7], j6, j6)
  BY <1>16, <1>22, SameRefl DEF Linked, Continues
<1>32. Linked(I[8], j6, b)
  BY <1>3, <1>4, <1>16, <1>22, SameSym DEF Linked, Continues
<1>33. Lands(I[3], j3, j6)
  BY <1>13, <1>16, <1>22, SameRefl DEF Lands
<1>34. PICK J : J = <<a, j2, j3, j4, j5, j6, j6, j6>>
  OBVIOUS
<1>35. /\ Row(J) /\ Len(J) = 8 /\ J[1] = a /\ J[2] = j2 /\ J[3] = j3 /\ J[4] = j4 /\ J[5] = j5
       /\ J[6] = j6 /\ J[7] = j6 /\ J[8] = j6
  BY ONLY <1>34, RowTuple8
<1>36. \A i \in 1 .. 8 : I[i].op \in Ops /\ IsNote(J[i]) /\ Stands(I[i], J[i])
  <2>1. \A i \in 1 .. 8 : I[i].op \in Ops
    BY <1>22, OneToEight DEF Ops, Jumps
  <2>2. QED BY ONLY <2>1, <1>17, <1>18, <1>23, <1>24, <1>25, <1>35, IsNote(a), OneToEight
<1>37. \A i \in 1 .. 7 : Linked(I[i], J[i], J[i + 1])
  <2>1. /\ Linked(I[1], J[1], J[2]) /\ Linked(I[2], J[2], J[3]) /\ Linked(I[3], J[3], J[4])
        /\ Linked(I[4], J[4], J[5]) /\ Linked(I[5], J[5], J[6]) /\ Linked(I[6], J[6], J[7])
        /\ Linked(I[7], J[7], J[8])
    BY ONLY <1>26, <1>27, <1>28, <1>29, <1>30, <1>31, <1>35
  <2>2. QED BY ONLY <2>1
<1>38. \A i \in 1 .. 8 : (I[i].op \in Jumps => i = 3) /\ (I[i].op = "label" => i = 7)
  BY ONLY <1>22, OneToEight DEF Jumps
<1>39. Fits(I, J, J[1], b) /\ Labelled(I, n, n + 1)
  <2>1. Linked(I[8], J[8], b) /\ Lands(I[3], J[3], J[7]) /\ 7 \in 7 .. 8
    BY <1>32, <1>33, <1>35
  <2>2. QED BY ONLY <1>20, <1>22, <1>35, <1>36, <1>37, <1>38, <2>1, n \in Nat, LogicalFits
<1>40. QED
  BY <1>19, <1>35, <1>39
-----------------------------------------------------------------------------
(* The notes of the instructions of a statement.                           *)

\* What each statement unfolds to.
LEMMA SameStatement ==
    ASSUME NEW s, NEW k, Row(k)
    PROVE  /\ s = None => Same(<<s>> \o k, k)
           /\ s.t = "block" => Same(<<s>> \o k, s.body \o k)
           /\ s.t = "if" => Same(<<s>> \o k, <<Branch(s.c, <<s.body>>, <<s.else>>)>> \o k)
           /\ s.t = "while" => Same(<<s>> \o k, <<Branch(s.c, <<s.body, s>>, << >>)>> \o k)
           /\ s.t = "for" =>
                Same(<<s>> \o k, <<s.init, While(s.c, Block(<<s.body, s.inc>>))>> \o k)
<1>1. s.t \in {"none", "block", "if", "while", "for"} => Same(<<s>> \o k, Parts(s) \o k)
  <2>1. s.t \in {"none", "block", "if", "while", "for"} => ~IsEvent(s)
    BY DEF IsEvent
  <2>2. QED BY <2>1, SameParts
<1>2. s = None => s.t = "none"
  BY DEF None
<1>3. s.t = "none" => Parts(s) = << >>
  BY DEF Parts
<1>4. s.t = "block" => Parts(s) = s.body
  BY DEF Parts
<1>5. s.t = "if" => Parts(s) = <<Branch(s.c, <<s.body>>, <<s.else>>)>>
  BY DEF Parts
<1>6. s.t = "while" => Parts(s) = <<Branch(s.c, <<s.body, s>>, << >>)>>
  BY DEF Parts
<1>7. s.t = "for" => Parts(s) = <<s.init, While(s.c, Block(<<s.body, s.inc>>))>>
  BY DEF Parts
<1>8. << >> \o k = k
  BY RowEmpty
<1>9. QED
  BY ONLY <1>1, <1>2, <1>3, <1>4, <1>5, <1>6, <1>7, <1>8

\* Short rows, element by element.
LEMMA ShortRows ==
    ASSUME NEW u, NEW v, NEW x, NEW y
    PROVE  /\ Row(<<u>>) /\ Len(<<u>>) = 1
           /\ Row(<<u, v>>) /\ Len(<<u, v>>) = 2
           /\ Row(<<u, v, x>>) /\ Len(<<u, v, x>>) = 3
           /\ Row(<<u, v, x, y>>) /\ Len(<<u, v, x, y>>) = 4
<1>1. /\ <<u>> \in Seq({u}) /\ <<u, v>> \in Seq({u, v}) /\ <<u, v, x>> \in Seq({u, v, x})
      /\ <<u, v, x, y>> \in Seq({u, v, x, y})
  OBVIOUS
<1>2. Row(<<u>>) /\ Row(<<u, v>>) /\ Row(<<u, v, x>>) /\ Row(<<u, v, x, y>>)
  BY <1>1, RowOf
<1>3. QED
  BY <1>2

\* A part of one instruction, which is not a jump and not a label.
LEMMA OneFits ==
    ASSUME NEW e, e.op \in Ops \ (Jumps \cup {"label"}), NEW a, IsNote(a), NEW b, NEW n \in Nat,
           Stands(e, a), Linked(e, a, b)
    PROVE  Fits(<<e>>, <<a>>, a, b) /\ Labelled(<<e>>, n, n + 0)
<1>1. PICK I, J : I = <<e>> /\ J = <<a>>
  OBVIOUS
<1>2. Row(I) /\ Len(I) = 1 /\ I[1] = e /\ Row(J) /\ Len(J) = 1 /\ J[1] = a
  <2>1. Row(I) /\ Row(J)
    BY ONLY <1>1, ShortRows
  <2>2. QED BY <1>1, <2>1
<1>3. I[1].op \notin Jumps /\ I[1].op # "label" /\ I[1].op \in Ops
  BY <1>2
<1>4. \A i \in 1 .. 1 : i = 1
  OBVIOUS
<1>5. Marked(I, J)
  BY ONLY <1>2, <1>3, <1>4, IsNote(a), Stands(e, a) DEF Marked
<1>6. Fits(I, J, a, b)
  BY <1>2, <1>5 DEF Fits
<1>7. Labelled(I, n, n + 0)
  <2>1. ~\E l : l \in n .. n + 0 - 1
    OBVIOUS
  <2>2. QED BY <1>2, <1>3, <1>4, <2>1 DEF Labelled
<1>8. QED
  BY <1>1, <1>6, <1>7

\* The rows of the items.
IsThree(r, p, s, q) ==
    /\ Row(r) /\ Len(r) = Len(p) + Len(s) + Len(q)
    /\ \A i \in 1 .. Len(p) : r[i] = p[i]
    /\ \A i \in 1 .. Len(s) : r[Len(p) + i] = s[i]
    /\ \A i \in 1 .. Len(q) : r[Len(p) + Len(s) + i] = q[i]

\* Three joined rows, with the predicate IsThree.
LEMMA RowIsThree ==
    ASSUME NEW p, Row(p), NEW s, Row(s), NEW q, Row(q)
    PROVE  IsThree((p \o s) \o q, p, s, q)
<1>1. Row((p \o s) \o q) /\ Len((p \o s) \o q) = Len(p) + Len(s) + Len(q)
  BY RowThree
<1>2. \A i \in 1 .. Len(p) : ((p \o s) \o q)[i] = p[i]
  BY RowThree
<1>3. \A i \in 1 .. Len(s) : ((p \o s) \o q)[Len(p) + i] = s[i]
  BY RowThree
<1>4. \A i \in 1 .. Len(q) : ((p \o s) \o q)[Len(p) + Len(s) + i] = q[i]
  BY RowThree
<1>5. QED
  BY ONLY <1>1, <1>2, <1>3, <1>4 DEF IsThree

\* The instructions of each statement, one by one.
LEMMA TestIs ==
    ASSUME NEW c, NEW past, NEW T, T = Test(c, past)
    PROVE  /\ Row(T) /\ Len(T) = 3
           /\ T[1] = Cond(c, 0) /\ T[2] = Instr("cmp", 0) /\ T[3] = Instr("je", past)
<1>1. T \in Seq({Cond(c, 0), Instr("cmp", 0), Instr("je", past)})
  BY DEF Test
<1>2. Row(T)
  BY <1>1, RowOf
<1>3. QED
  BY <1>2 DEF Test

LEMMA WhileItemsAre ==
    ASSUME NEW s, NEW deep, NEW start, NEW end, NEW I, I = WhileItems(s, deep, start, end)
    PROVE  /\ Row(I) /\ Len(I) = 7
           /\ I[1] = Instr("label", start) /\ I[2] = Cond(s.c, 0) /\ I[3] = Instr("cmp", 0)
           /\ I[4] = Instr("je", end) /\ I[5] = Stmt(s.body, deep)
           /\ I[6] = Instr("jmp", start) /\ I[7] = Instr("label", end)
<1>1. PICK p, t, q : /\ p = <<Instr("label", start)>> /\ t = Test(s.c, end)
                     /\ q = <<Stmt(s.body, deep), Instr("jmp", start), Instr("label", end)>>
  OBVIOUS
<1>2. I = (p \o t) \o q
  BY <1>1 DEF WhileItems
<1>3. /\ Row(p) /\ Len(p) = 1 /\ p[1] = Instr("label", start)
      /\ Row(q) /\ Len(q) = 3 /\ q[1] = Stmt(s.body, deep) /\ q[2] = Instr("jmp", start)
      /\ q[3] = Instr("label", end)
  BY ONLY <1>1, ShortRows
<1>4. /\ Row(t) /\ Len(t) = 3
      /\ t[1] = Cond(s.c, 0) /\ t[2] = Instr("cmp", 0) /\ t[3] = Instr("je", end)
  BY ONLY <1>1, TestIs
<1>5. IsThree(I, p, t, q)
  BY ONLY <1>2, <1>3, <1>4, RowIsThree
<1>6. /\ Row(I) /\ Len(I) = 7 /\ I[1] = p[1]
      /\ I[1 + 1] = t[1] /\ I[1 + 2] = t[2] /\ I[1 + 3] = t[3]
      /\ I[1 + 3 + 1] = q[1] /\ I[1 + 3 + 2] = q[2] /\ I[1 + 3 + 3] = q[3]
  BY ONLY <1>3, <1>4, <1>5 DEF IsThree
<1>7. QED
  BY <1>3, <1>4, <1>6

LEMMA ForItemsAre ==
    ASSUME NEW s, NEW deep, NEW start, NEW end, NEW I, I = ForItems(s, deep, start, end)
    PROVE  /\ Row(I) /\ Len(I) = 9
           /\ I[1] = Stmt(s.init, deep)
           /\ I[2] = Instr("label", start) /\ I[3] = Cond(s.c, 0) /\ I[4] = Instr("cmp", 0)
           /\ I[5] = Instr("je", end) /\ I[6] = Stmt(s.body, deep) /\ I[7] = Stmt(s.inc, deep)
           /\ I[8] = Instr("jmp", start) /\ I[9] = Instr("label", end)
<1>1. PICK p, t, q : /\ p = <<Stmt(s.init, deep), Instr("label", start)>> /\ t = Test(s.c, end)
                     /\ q = <<Stmt(s.body, deep), Stmt(s.inc, deep),
                              Instr("jmp", start), Instr("label", end)>>
  OBVIOUS
<1>2. I = (p \o t) \o q
  BY <1>1 DEF ForItems
<1>3. /\ Row(p) /\ Len(p) = 2 /\ p[1] = Stmt(s.init, deep) /\ p[2] = Instr("label", start)
      /\ Row(q) /\ Len(q) = 4 /\ q[1] = Stmt(s.body, deep) /\ q[2] = Stmt(s.inc, deep)
      /\ q[3] = Instr("jmp", start) /\ q[4] = Instr("label", end)
  BY ONLY <1>1, ShortRows
<1>4. /\ Row(t) /\ Len(t) = 3
      /\ t[1] = Cond(s.c, 0) /\ t[2] = Instr("cmp", 0) /\ t[3] = Instr("je", end)
  BY ONLY <1>1, TestIs
<1>5. IsThree(I, p, t, q)
  BY ONLY <1>2, <1>3, <1>4, RowIsThree
<1>6. /\ Row(I) /\ Len(I) = 9 /\ I[1] = p[1] /\ I[2] = p[2]
      /\ I[2 + 1] = t[1] /\ I[2 + 2] = t[2] /\ I[2 + 3] = t[3]
      /\ I[2 + 3 + 1] = q[1] /\ I[2 + 3 + 2] = q[2] /\ I[2 + 3 + 3] = q[3] /\ I[2 + 3 + 4] = q[4]
  BY ONLY <1>3, <1>4, <1>5 DEF IsThree
<1>7. QED
  BY <1>3, <1>4, <1>6

LEMMA IfItemsAre ==
    ASSUME NEW s, NEW deep, NEW ifEnd, NEW elseEnd, NEW I, I = IfItems(s, deep, ifEnd, elseEnd)
    PROVE  /\ Row(I) /\ Len(I) = IF s.else = None THEN 5 ELSE 8
           /\ I[1] = Cond(s.c, 0) /\ I[2] = Instr("cmp", 0) /\ I[3] = Instr("je", ifEnd)
           /\ I[4] = Stmt(s.body, deep)
           /\ s.else = None => I[5] = Instr("label", ifEnd)
           /\ s.else # None => /\ I[5] = Instr("jmp", elseEnd) /\ I[6] = Instr("label", ifEnd)
                               /\ I[7] = Stmt(s.else, deep) /\ I[8] = Instr("label", elseEnd)
<1>1. PICK t, p, q : /\ t = Test(s.c, ifEnd) /\ p = <<Stmt(s.body, deep)>>
                     /\ q = IF s.else = None THEN <<Instr("label", ifEnd)>>
                            ELSE <<Instr("jmp", elseEnd), Instr("label", ifEnd),
                                   Stmt(s.else, deep), Instr("label", elseEnd)>>
  OBVIOUS
<1>2. I = (t \o p) \o q
  BY <1>1 DEF IfItems
<1>3. Row(p) /\ Len(p) = 1 /\ p[1] = Stmt(s.body, deep)
  BY ONLY <1>1, ShortRows
<1>4. /\ Row(t) /\ Len(t) = 3
      /\ t[1] = Cond(s.c, 0) /\ t[2] = Instr("cmp", 0) /\ t[3] = Instr("je", ifEnd)
  BY ONLY <1>1, TestIs
<1>5. CASE s.else = None
  <2>1. q = <<Instr("label", ifEnd)>>
    BY <1>1, <1>5
  <2>2. Row(q) /\ Len(q) = 1 /\ q[1] = Instr("label", ifEnd)
    BY ONLY <2>1, ShortRows
  <2>3. IsThree(I, t, p, q)
    BY ONLY <1>2, <1>3, <1>4, <2>2, RowIsThree
  <2>4. /\ Row(I) /\ Len(I) = 5 /\ I[1] = t[1] /\ I[2] = t[2] /\ I[3] = t[3]
        /\ I[3 + 1] = p[1] /\ I[3 + 1 + 1] = q[1]
    BY ONLY <1>3, <1>4, <2>2, <2>3 DEF IsThree
  <2>5. QED BY <1>3, <1>4, <1>5, <2>2, <2>4
<1>6. CASE s.else # None
  <2>1. q = <<Instr("jmp", elseEnd), Instr("label", ifEnd), Stmt(s.else, deep), Instr("label", elseEnd)>>
    BY <1>1, <1>6
  <2>2. /\ Row(q) /\ Len(q) = 4 /\ q[1] = Instr("jmp", elseEnd) /\ q[2] = Instr("label", ifEnd)
        /\ q[3] = Stmt(s.else, deep) /\ q[4] = Instr("label", elseEnd)
    BY ONLY <2>1, ShortRows
  <2>3. IsThree(I, t, p, q)
    BY ONLY <1>2, <1>3, <1>4, <2>2, RowIsThree
  <2>4. /\ Row(I) /\ Len(I) = 8 /\ I[1] = t[1] /\ I[2] = t[2] /\ I[3] = t[3]
        /\ I[3 + 1] = p[1] /\ I[3 + 1 + 1] = q[1] /\ I[3 + 1 + 2] = q[2]
        /\ I[3 + 1 + 3] = q[3] /\ I[3 + 1 + 4] = q[4]
    BY ONLY <1>3, <1>4, <2>2, <2>3 DEF IsThree
  <2>5. QED BY <1>3, <1>4, <1>6, <2>2, <2>4
<1>7. QED
  BY <1>5, <1>6

\* while: the body's end jumps back to where the whole statement is left to run.
LEMMA WhileFits ==
    ASSUME NEW a, IsNote(a), NEW b, IsNote(b), NEW n \in Nat, NEW s, MadeOfParts(s), NEW deep,
           s.t = "while", Stands(Stmt(s, deep), a), Linked(Stmt(s, deep), a, b)
    PROVE  \E J : Fits(WhileItems(s, deep, n, n + 1), J, a, b)
           /\ Labelled(WhileItems(s, deep, n, n + 1), n, n + 2)
<1>1. PICK k : k = b.yes
  OBVIOUS
<1>2. /\ Row(k) /\ Plain(a) /\ Plain(b) /\ a.frames = deep /\ b.frames = deep /\ deep \in Nat
      /\ Same(a.yes, <<s>> \o k) /\ Row(a.yes)
  BY <1>1, HoleFields DEF Stands, Linked, IsNote
\* The parts of the source.
<1>3. Same(<<s>> \o k, <<Branch(s.c, <<s.body, s>>, << >>)>> \o k)
  BY <1>2, SameStatement
<1>4. Row(<<s.body, s>>) /\ <<s.body, s>> \o k = <<s.body>> \o (<<s>> \o k)
  BY <1>2, RowPair
<1>5. Row(<< >>) /\ << >> \o k = k /\ Row(<<s>> \o k) /\ Row(<<s.body, s>>) /\ Row(<<s.body, s>> \o k)
  BY <1>2, <1>4, RowEmpty, RowHead, RowJoined
\* The notes.
<1>6. PICK j2, j3, j4, j5, j6, j7 :
         /\ j2 = Note(deep, << >>, "start", <<s>> \o k, << >>)
         /\ j3 = Note(deep, << >>, "value", <<s.body, s>> \o k, k)
         /\ j4 = Note(deep, << >>, "tested", <<s.body, s>> \o k, k)
         /\ j5 = Note(deep, << >>, "start", <<s.body, s>> \o k, << >>)
         /\ j6 = Note(deep, << >>, "start", <<s>> \o k, << >>)
         /\ j7 = Note(deep, << >>, "start", k, << >>)
  OBVIOUS
<1>7. /\ j2.frames = deep /\ j2.held = << >> /\ j2.at = "start" /\ j2.yes = <<s>> \o k /\ j2.no = << >>
      /\ j3.frames = deep /\ j3.held = << >> /\ j3.at = "value" /\ j3.yes = <<s.body, s>> \o k /\ j3.no = k
      /\ j4.frames = deep /\ j4.held = << >> /\ j4.at = "tested" /\ j4.yes = <<s.body, s>> \o k /\ j4.no = k
      /\ j5.frames = deep /\ j5.held = << >> /\ j5.at = "start" /\ j5.yes = <<s.body, s>> \o k
         /\ j5.no = << >>
      /\ j6.frames = deep /\ j6.held = << >> /\ j6.at = "start" /\ j6.yes = <<s>> \o k /\ j6.no = << >>
      /\ j7.frames = deep /\ j7.held = << >> /\ j7.at = "start" /\ j7.yes = k /\ j7.no = << >>
  BY ONLY <1>6 DEF Note
<1>8. << >> \in Seq(Truths) /\ Row(<< >>)
  BY <1>2, RowEmpty
<1>9. IsNote(j2) /\ IsNote(j3) /\ IsNote(j4) /\ IsNote(j5) /\ IsNote(j6) /\ IsNote(j7)
  BY <1>2, <1>5, <1>7, <1>8 DEF IsNote
\* The items.
<1>10. PICK I : I = WhileItems(s, deep, n, n + 1)
  OBVIOUS
<1>11. /\ Row(I) /\ Len(I) = 7
       /\ I[1] = Instr("label", n)
       /\ I[2] = Cond(s.c, 0)
       /\ I[3] = Instr("cmp", 0)
       /\ I[4] = Instr("je", n + 1)
       /\ I[5] = Stmt(s.body, deep)
       /\ I[6] = Instr("jmp", n)
       /\ I[7] = Instr("label", n + 1)
  BY <1>10, WhileItemsAre
<1>12. /\ I[1].op = "label" /\ I[1].arg = n
       /\ I[2].op = "cond" /\ I[2].c = s.c /\ I[2].d = 0
       /\ I[3].op = "cmp" /\ I[3].arg = 0
       /\ I[4].op = "je" /\ I[4].arg = n + 1
       /\ I[5].op = "stmt" /\ I[5].s = s.body /\ I[5].deep = deep
       /\ I[6].op = "jmp" /\ I[6].arg = n
       /\ I[7].op = "label" /\ I[7].arg = n + 1
  BY ONLY <1>11, InstrFields, HoleFields
<1>13. s.c \in Conds /\ MadeOfParts(s.body)
  BY SyntaxAssumption DEF SyntaxAssumption, MadeOfParts
<1>14. Stands(I[1], a) /\ Stands(I[2], j2) /\ Stands(I[3], j3) /\ Stands(I[4], j4) /\ Stands(I[5], j5)
       /\ Stands(I[6], j6) /\ Stands(I[7], j7)
  BY <1>2, <1>7, <1>12, <1>13, <1>8 DEF Stands, Plain
<1>15. Linked(I[1], a, j2)
  BY <1>2, <1>7, <1>12 DEF Linked, Continues, Plain
<1>16. Linked(I[2], j2, j3)
  <2>1. Tests(s.c, j2, j3)
    BY <1>2, <1>5, <1>3, <1>7, <1>8, SameRefl DEF Tests
  <2>2. QED BY <2>1, <1>12 DEF Linked
<1>17. Linked(I[3], j3, j4)
  BY <1>7, <1>12, SameRefl DEF Linked, Continues
<1>18. Linked(I[4], j4, j5)
  BY <1>7, <1>12, SameRefl DEF Linked
<1>19. Linked(I[5], j5, j6)
  BY <1>7, <1>12, <1>4, SameRefl DEF Linked, Plain
<1>20. Linked(I[6], j6, j7)
  BY <1>12 DEF Linked
<1>21. Linked(I[7], j7, b)
  BY <1>1, <1>2, <1>7, <1>12, SameRefl DEF Linked, Continues, Plain
<1>22. Lands(I[4], j4, j7)
  BY <1>7, <1>12, SameRefl DEF Lands
<1>23. Lands(I[6], j6, a)
  BY <1>2, <1>7, <1>12, SameSym DEF Lands, Plain
\* All together.
<1>24. PICK J : J = <<a, j2, j3, j4, j5, j6, j7>>
  OBVIOUS
<1>25. /\ Row(J) /\ Len(J) = 7 /\ J[1] = a /\ J[2] = j2 /\ J[3] = j3 /\ J[4] = j4 /\ J[5] = j5
          /\ J[6] = j6 /\ J[7] = j7
  BY ONLY <1>24, RowTuple7
<1>26. \A i \in 1 .. 7 : i \in {1, 2, 3, 4, 5, 6, 7}
  OBVIOUS
<1>27. \A i \in 1 .. 7 : I[i].op \in Ops
  BY <1>12, <1>26 DEF Ops, Jumps
<1>28. \A i \in 1 .. 7 : I[i].op \in Ops /\ IsNote(J[i]) /\ Stands(I[i], J[i])
  BY ONLY IsNote(a), <1>27, <1>9, <1>14, <1>25, <1>26
<1>29. \A i \in 1 .. 7 - 1 : Linked(I[i], J[i], J[i + 1])
  <2>1. /\ Linked(I[1], J[1], J[2])
        /\ Linked(I[2], J[2], J[3])
        /\ Linked(I[3], J[3], J[4])
        /\ Linked(I[4], J[4], J[5])
        /\ Linked(I[5], J[5], J[6])
        /\ Linked(I[6], J[6], J[7])
    BY ONLY <1>15, <1>16, <1>17, <1>18, <1>19, <1>20, <1>25
  <2>2. QED BY ONLY <2>1
<1>30. \A i \in 1 .. 7 : /\ I[i].op \in Jumps => i \in {4, 6}
                         /\ I[i].op = "label" => i \in {1, 7}
  BY <1>12, <1>26 DEF Jumps
<1>31. ASSUME NEW i \in 1 .. 7, NEW t \in 1 .. 7, I[i].op \in Jumps, I[t] = Instr("label", I[i].arg)
      PROVE  Lands(I[i], J[i], J[t])
  <2>1. I[t].op = "label" /\ I[t].arg = I[i].arg
    BY ONLY <1>31, InstrFields
  <2>2. (i = 4 /\ t = 7) \/ (i = 6 /\ t = 1)
    BY ONLY n \in Nat, <2>1, <1>31, <1>30, <1>12
  <2>3. QED BY ONLY <2>2, <1>25, <1>22, <1>23
<1>32. Marked(I, J)
  BY ONLY <1>11, <1>25, <1>28, <1>29, <1>31 DEF Marked
<1>33. Fits(I, J, a, b)
  BY ONLY <1>32, <1>11, <1>25, <1>21 DEF Fits
<1>34. Labelled(I, n, n + 2)
  <2>1. \A i \in 1 .. 7 : I[i].op \in Jumps \cup {"label"} => I[i].arg \in n .. n + 2 - 1
    <3>1. I[1].arg \in n .. n + 2 - 1 /\ I[4].arg \in n .. n + 2 - 1 /\ I[6].arg \in n .. n + 2 - 1
          /\ I[7].arg \in n .. n + 2 - 1
      BY ONLY n \in Nat, <1>12
    <3>2. QED BY <3>1, <1>30
  <2>2. ASSUME NEW l \in n .. n + 2 - 1 PROVE \E i \in 1 .. 7 : I[i] = Instr("label", l)
    <3>1. l \in {n, n + 1}
      BY ONLY n \in Nat, l \in n .. n + 2 - 1
    <3>2. QED BY <3>1, <1>11
  <2>3. \A i, j \in 1 .. 7 : I[i].op = "label" /\ I[j].op = "label" /\ I[i].arg = I[j].arg => i = j
    BY ONLY n \in Nat, <1>30, <1>12
  <2>4. QED BY ONLY <2>1, <2>2, <2>3, <1>11 DEF Labelled
<1>35. QED
  BY <1>10, <1>33, <1>34

\* for: it is its initialisation and a while.
LEMMA ForFits ==
    ASSUME NEW a, IsNote(a), NEW b, IsNote(b), NEW n \in Nat, NEW s, MadeOfParts(s), NEW deep,
           s.t = "for", Stands(Stmt(s, deep), a), Linked(Stmt(s, deep), a, b)
    PROVE  \E J : Fits(ForItems(s, deep, n, n + 1), J, a, b)
           /\ Labelled(ForItems(s, deep, n, n + 1), n, n + 2)
<1>1. PICK k : k = b.yes
  OBVIOUS
<1>2. /\ Row(k) /\ Plain(a) /\ Plain(b) /\ a.frames = deep /\ b.frames = deep /\ deep \in Nat
      /\ Same(a.yes, <<s>> \o k) /\ Row(a.yes)
  BY <1>1, HoleFields DEF Stands, Linked, IsNote
\* The parts of the source.
<1>3. PICK B, W : B = Block(<<s.body, s.inc>>) /\ W = While(s.c, B)
  OBVIOUS
<1>4. Row(<<W>> \o k) /\ Row(<<s.inc>> \o (<<W>> \o k)) /\ Row(<<s.body>> \o (<<s.inc>> \o (<<W>> \o k)))
  BY <1>2, RowHead
<1>5. Same(a.yes, <<s.init>> \o (<<W>> \o k))
  <2>1. Same(<<s>> \o k, <<s.init, W>> \o k)
    BY <1>2, <1>3, SameStatement
  <2>2. <<s.init, W>> \o k = <<s.init>> \o (<<W>> \o k)
    BY <1>2, RowPair
  <2>3. QED BY <1>2, <2>1, <2>2, SameTrans
<1>6. Same(<<W>> \o k, <<Branch(s.c, <<B, W>>, << >>)>> \o k)
  <2>1. W.t = "while" /\ W.c = s.c /\ W.body = B
    BY <1>3 DEF While
  <2>2. QED BY <1>2, <2>1, SameStatement
<1>7. Same(<<B, W>> \o k, <<s.body>> \o (<<s.inc>> \o (<<W>> \o k)))
  <2>1. B.t = "block" /\ B.body = <<s.body, s.inc>>
    BY <1>3 DEF Block
  <2>2. Same(<<B>> \o (<<W>> \o k), <<s.body, s.inc>> \o (<<W>> \o k))
    BY <1>4, <2>1, SameStatement
  <2>3. <<B, W>> \o k = <<B>> \o (<<W>> \o k)
    BY <1>2, RowPair
  <2>4. <<s.body, s.inc>> \o (<<W>> \o k) = <<s.body>> \o (<<s.inc>> \o (<<W>> \o k))
    <3>1. PICK q : q = <<W>> \o k
      OBVIOUS
    <3>2. Row(q)
      BY <1>4, <3>1
    <3>3. <<s.body, s.inc>> \o q = <<s.body>> \o (<<s.inc>> \o q)
      BY ONLY <3>2, RowPair
    <3>4. QED BY <3>1, <3>3
  <2>5. QED BY <2>2, <2>3, <2>4
<1>8. Row(<< >>) /\ << >> \o k = k /\ Row(<<B, W>>) /\ Row(<<B, W>> \o k) /\ Row(<<W>> \o k)
      /\ Row(<<s.inc>> \o (<<W>> \o k)) /\ Row(<<s.body>> \o (<<s.inc>> \o (<<W>> \o k)))
  BY <1>2, <1>4, RowEmpty, RowPair, RowJoined
\* The notes.
<1>9. PICK j2, j3, j4, j5, j6, j7, j8, j9 :
         /\ j2 = Note(deep, << >>, "start", <<W>> \o k, << >>)
         /\ j3 = Note(deep, << >>, "start", <<W>> \o k, << >>)
         /\ j4 = Note(deep, << >>, "value", <<B, W>> \o k, k)
         /\ j5 = Note(deep, << >>, "tested", <<B, W>> \o k, k)
         /\ j6 = Note(deep, << >>, "start", <<s.body>> \o (<<s.inc>> \o (<<W>> \o k)), << >>)
         /\ j7 = Note(deep, << >>, "start", <<s.inc>> \o (<<W>> \o k), << >>)
         /\ j8 = Note(deep, << >>, "start", <<W>> \o k, << >>)
         /\ j9 = Note(deep, << >>, "start", k, << >>)
  OBVIOUS
<1>10. /\ j2.frames = deep /\ j2.held = << >> /\ j2.at = "start" /\ j2.yes = <<W>> \o k /\ j2.no = << >>
       /\ j3.frames = deep /\ j3.held = << >> /\ j3.at = "start" /\ j3.yes = <<W>> \o k /\ j3.no = << >>
       /\ j4.frames = deep /\ j4.held = << >> /\ j4.at = "value" /\ j4.yes = <<B, W>> \o k /\ j4.no = k
       /\ j5.frames = deep /\ j5.held = << >> /\ j5.at = "tested" /\ j5.yes = <<B, W>> \o k /\ j5.no = k
       /\ j6.frames = deep /\ j6.held = << >> /\ j6.at = "start"
          /\ j6.yes = <<s.body>> \o (<<s.inc>> \o (<<W>> \o k)) /\ j6.no = << >>
       /\ j7.frames = deep /\ j7.held = << >> /\ j7.at = "start" /\ j7.yes = <<s.inc>> \o (<<W>> \o k)
          /\ j7.no = << >>
       /\ j8.frames = deep /\ j8.held = << >> /\ j8.at = "start" /\ j8.yes = <<W>> \o k /\ j8.no = << >>
       /\ j9.frames = deep /\ j9.held = << >> /\ j9.at = "start" /\ j9.yes = k /\ j9.no = << >>
  BY ONLY <1>9 DEF Note
<1>11. << >> \in Seq(Truths) /\ Row(<< >>)
  BY <1>2, RowEmpty
<1>12. IsNote(j2) /\ IsNote(j3) /\ IsNote(j4) /\ IsNote(j5) /\ IsNote(j6) /\ IsNote(j7) /\ IsNote(j8)
       /\ IsNote(j9)
  BY <1>2, <1>8, <1>10, <1>11 DEF IsNote
\* The items.
<1>13. PICK I : I = ForItems(s, deep, n, n + 1)
  OBVIOUS
<1>14. /\ Row(I) /\ Len(I) = 9
       /\ I[1] = Stmt(s.init, deep)
       /\ I[2] = Instr("label", n)
       /\ I[3] = Cond(s.c, 0)
       /\ I[4] = Instr("cmp", 0)
       /\ I[5] = Instr("je", n + 1)
       /\ I[6] = Stmt(s.body, deep)
       /\ I[7] = Stmt(s.inc, deep)
       /\ I[8] = Instr("jmp", n)
       /\ I[9] = Instr("label", n + 1)
  BY <1>13, ForItemsAre
<1>15. /\ I[1].op = "stmt" /\ I[1].s = s.init /\ I[1].deep = deep
       /\ I[2].op = "label" /\ I[2].arg = n
       /\ I[3].op = "cond" /\ I[3].c = s.c /\ I[3].d = 0
       /\ I[4].op = "cmp" /\ I[4].arg = 0
       /\ I[5].op = "je" /\ I[5].arg = n + 1
       /\ I[6].op = "stmt" /\ I[6].s = s.body /\ I[6].deep = deep
       /\ I[7].op = "stmt" /\ I[7].s = s.inc /\ I[7].deep = deep
       /\ I[8].op = "jmp" /\ I[8].arg = n
       /\ I[9].op = "label" /\ I[9].arg = n + 1
  BY ONLY <1>14, InstrFields, HoleFields
<1>16. s.c \in Conds /\ MadeOfParts(s.init) /\ MadeOfParts(s.body) /\ MadeOfParts(s.inc)
  BY SyntaxAssumption DEF SyntaxAssumption, MadeOfParts
<1>17. Stands(I[1], a) /\ Stands(I[2], j2) /\ Stands(I[3], j3) /\ Stands(I[4], j4) /\ Stands(I[5], j5)
       /\ Stands(I[6], j6) /\ Stands(I[7], j7) /\ Stands(I[8], j8) /\ Stands(I[9], j9)
  BY <1>2, <1>10, <1>15, <1>16, <1>11 DEF Stands, Plain
<1>18. Linked(I[1], a, j2)
  BY <1>2, <1>5, <1>10, <1>15 DEF Linked, Plain
<1>19. Linked(I[2], j2, j3)
  BY <1>10, <1>15, SameRefl DEF Linked, Continues
<1>20. Linked(I[3], j3, j4)
  <2>1. Tests(s.c, j3, j4)
    BY <1>2, <1>8, <1>6, <1>10, <1>11, SameRefl DEF Tests
  <2>2. QED BY <2>1, <1>15 DEF Linked
<1>21. Linked(I[4], j4, j5)
  BY <1>10, <1>15, SameRefl DEF Linked, Continues
<1>22. Linked(I[5], j5, j6)
  BY <1>7, <1>10, <1>15 DEF Linked
<1>23. Linked(I[6], j6, j7)
  BY <1>10, <1>15, SameRefl DEF Linked, Plain
<1>24. Linked(I[7], j7, j8)
  BY <1>10, <1>15, SameRefl DEF Linked, Plain
<1>25. Linked(I[8], j8, j9)
  BY <1>15 DEF Linked
<1>26. Linked(I[9], j9, b)
  BY <1>1, <1>2, <1>10, <1>15, SameRefl DEF Linked, Continues, Plain
<1>27. Lands(I[5], j5, j9)
  BY <1>10, <1>15, SameRefl DEF Lands
<1>28. Lands(I[8], j8, j2)
  BY <1>10, <1>15, SameRefl DEF Lands
\* All together.
<1>29. PICK J : J = <<a, j2, j3, j4, j5, j6, j7, j8, j9>>
  OBVIOUS
<1>30. /\ Row(J) /\ Len(J) = 9 /\ J[1] = a /\ J[2] = j2 /\ J[3] = j3 /\ J[4] = j4 /\ J[5] = j5
          /\ J[6] = j6 /\ J[7] = j7 /\ J[8] = j8 /\ J[9] = j9
  BY ONLY <1>29, RowTuple9
<1>31. \A i \in 1 .. 9 : i \in {1, 2, 3, 4, 5, 6, 7, 8, 9}
  OBVIOUS
<1>32. \A i \in 1 .. 9 : I[i].op \in Ops
  BY <1>15, <1>31 DEF Ops, Jumps
<1>33. \A i \in 1 .. 9 : I[i].op \in Ops /\ IsNote(J[i]) /\ Stands(I[i], J[i])
  BY ONLY IsNote(a), <1>32, <1>12, <1>17, <1>30, <1>31
<1>34. \A i \in 1 .. 9 - 1 : Linked(I[i], J[i], J[i + 1])
  <2>1. /\ Linked(I[1], J[1], J[2])
        /\ Linked(I[2], J[2], J[3])
        /\ Linked(I[3], J[3], J[4])
        /\ Linked(I[4], J[4], J[5])
        /\ Linked(I[5], J[5], J[6])
        /\ Linked(I[6], J[6], J[7])
        /\ Linked(I[7], J[7], J[8])
        /\ Linked(I[8], J[8], J[9])
    BY ONLY <1>18, <1>19, <1>20, <1>21, <1>22, <1>23, <1>24, <1>25, <1>30
  <2>2. QED BY ONLY <2>1
<1>35. \A i \in 1 .. 9 : /\ I[i].op \in Jumps => i \in {5, 8}
                         /\ I[i].op = "label" => i \in {2, 9}
  BY <1>15, <1>31 DEF Jumps
<1>36. ASSUME NEW i \in 1 .. 9, NEW t \in 1 .. 9, I[i].op \in Jumps, I[t] = Instr("label", I[i].arg)
      PROVE  Lands(I[i], J[i], J[t])
  <2>1. I[t].op = "label" /\ I[t].arg = I[i].arg
    BY ONLY <1>36, InstrFields
  <2>2. (i = 5 /\ t = 9) \/ (i = 8 /\ t = 2)
    BY ONLY n \in Nat, <2>1, <1>36, <1>35, <1>15
  <2>3. QED BY ONLY <2>2, <1>30, <1>27, <1>28
<1>37. Marked(I, J)
  BY ONLY <1>14, <1>30, <1>33, <1>34, <1>36 DEF Marked
<1>38. Fits(I, J, a, b)
  BY ONLY <1>37, <1>14, <1>30, <1>26 DEF Fits
<1>39. Labelled(I, n, n + 2)
  <2>1. \A i \in 1 .. 9 : I[i].op \in Jumps \cup {"label"} => I[i].arg \in n .. n + 2 - 1
    <3>1. I[2].arg \in n .. n + 2 - 1 /\ I[5].arg \in n .. n + 2 - 1 /\ I[8].arg \in n .. n + 2 - 1
          /\ I[9].arg \in n .. n + 2 - 1
      BY ONLY n \in Nat, <1>15
    <3>2. QED BY <3>1, <1>35
  <2>2. ASSUME NEW l \in n .. n + 2 - 1 PROVE \E i \in 1 .. 9 : I[i] = Instr("label", l)
    <3>1. l \in {n, n + 1}
      BY ONLY n \in Nat, l \in n .. n + 2 - 1
    <3>2. QED BY <3>1, <1>14
  <2>3. \A i, j \in 1 .. 9 : I[i].op = "label" /\ I[j].op = "label" /\ I[i].arg = I[j].arg => i = j
    BY ONLY n \in Nat, <1>35, <1>15
  <2>4. QED BY ONLY <2>1, <2>2, <2>3, <1>14 DEF Labelled
<1>40. QED
  BY <1>13, <1>38, <1>39

\* if without else.
LEMMA IfFits ==
    ASSUME NEW a, IsNote(a), NEW b, IsNote(b), NEW n \in Nat, NEW s, MadeOfParts(s), NEW deep,
           s.t = "if", s.else = None, Stands(Stmt(s, deep), a), Linked(Stmt(s, deep), a, b)
    PROVE  \E J : Fits(IfItems(s, deep, n, n + 1), J, a, b)
           /\ Labelled(IfItems(s, deep, n, n + 1), n, n + 1)
<1>1. PICK k : k = b.yes
  OBVIOUS
<1>2. /\ Row(k) /\ Plain(a) /\ Plain(b) /\ a.frames = deep /\ b.frames = deep /\ deep \in Nat
      /\ Same(a.yes, <<s>> \o k) /\ Row(a.yes)
  BY <1>1, HoleFields DEF Stands, Linked, IsNote
\* The parts of the source.
<1>3. Same(<<s>> \o k, <<Branch(s.c, <<s.body>>, <<s.else>>)>> \o k)
  BY <1>2, SameStatement
<1>4. /\ Row(<< >>) /\ << >> \o k = k /\ Row(<<s.body>>) /\ Row(<<s.else>>)
      /\ Row(<<s.body>> \o k) /\ Row(<<s.else>> \o k)
  BY <1>2, RowEmpty, RowHead
<1>5. Same(<<s.else>> \o k, k)
  BY <1>2, SameStatement
\* The notes.
<1>6. PICK j2, j3, j4, j5 :
         /\ j2 = Note(deep, << >>, "value", <<s.body>> \o k, <<s.else>> \o k)
         /\ j3 = Note(deep, << >>, "tested", <<s.body>> \o k, <<s.else>> \o k)
         /\ j4 = Note(deep, << >>, "start", <<s.body>> \o k, << >>)
         /\ j5 = Note(deep, << >>, "start", k, << >>)
  OBVIOUS
<1>7. /\ j2.frames = deep /\ j2.held = << >> /\ j2.at = "value" /\ j2.yes = <<s.body>> \o k
         /\ j2.no = <<s.else>> \o k
      /\ j3.frames = deep /\ j3.held = << >> /\ j3.at = "tested" /\ j3.yes = <<s.body>> \o k
         /\ j3.no = <<s.else>> \o k
      /\ j4.frames = deep /\ j4.held = << >> /\ j4.at = "start" /\ j4.yes = <<s.body>> \o k /\ j4.no = << >>
      /\ j5.frames = deep /\ j5.held = << >> /\ j5.at = "start" /\ j5.yes = k /\ j5.no = << >>
  BY ONLY <1>6 DEF Note
<1>8. << >> \in Seq(Truths) /\ Row(<< >>)
  BY <1>2, RowEmpty
<1>9. IsNote(j2) /\ IsNote(j3) /\ IsNote(j4) /\ IsNote(j5)
  BY <1>2, <1>4, <1>7, <1>8 DEF IsNote
\* The items.
<1>10. PICK I : I = IfItems(s, deep, n, n + 1)
  OBVIOUS
<1>11. /\ Row(I) /\ Len(I) = 5
       /\ I[1] = Cond(s.c, 0)
       /\ I[2] = Instr("cmp", 0)
       /\ I[3] = Instr("je", n)
       /\ I[4] = Stmt(s.body, deep)
       /\ I[5] = Instr("label", n)
  BY <1>10, IfItemsAre
<1>12. /\ I[1].op = "cond" /\ I[1].c = s.c /\ I[1].d = 0
       /\ I[2].op = "cmp" /\ I[2].arg = 0
       /\ I[3].op = "je" /\ I[3].arg = n
       /\ I[4].op = "stmt" /\ I[4].s = s.body /\ I[4].deep = deep
       /\ I[5].op = "label" /\ I[5].arg = n
  BY ONLY <1>11, InstrFields, HoleFields
<1>13. s.c \in Conds /\ MadeOfParts(s.body)
  BY SyntaxAssumption DEF SyntaxAssumption, MadeOfParts
<1>14. Stands(I[1], a) /\ Stands(I[2], j2) /\ Stands(I[3], j3) /\ Stands(I[4], j4) /\ Stands(I[5], j5)
  BY <1>2, <1>7, <1>12, <1>13, <1>8 DEF Stands, Plain
<1>15. Linked(I[1], a, j2)
  <2>1. Tests(s.c, a, j2)
    BY <1>2, <1>4, <1>3, <1>7, <1>8, SameRefl, SameTrans DEF Tests, Plain
  <2>2. QED BY <2>1, <1>12 DEF Linked
<1>16. Linked(I[2], j2, j3)
  BY <1>7, <1>12, SameRefl DEF Linked, Continues
<1>17. Linked(I[3], j3, j4)
  BY <1>7, <1>12, SameRefl DEF Linked
<1>18. Linked(I[4], j4, j5)
  BY <1>7, <1>12, SameRefl DEF Linked, Plain
<1>19. Linked(I[5], j5, b)
  BY <1>1, <1>2, <1>7, <1>12, SameRefl DEF Linked, Continues, Plain
<1>20. Lands(I[3], j3, j5)
  BY <1>5, <1>7, <1>12 DEF Lands
\* All together.
<1>21. PICK J : J = <<a, j2, j3, j4, j5>>
  OBVIOUS
<1>22. /\ Row(J) /\ Len(J) = 5 /\ J[1] = a /\ J[2] = j2 /\ J[3] = j3 /\ J[4] = j4 /\ J[5] = j5
  BY ONLY <1>21, RowTuple5
<1>23. \A i \in 1 .. 5 : i \in {1, 2, 3, 4, 5}
  OBVIOUS
<1>24. \A i \in 1 .. 5 : I[i].op \in Ops
  BY <1>12, <1>23 DEF Ops, Jumps
<1>25. \A i \in 1 .. 5 : I[i].op \in Ops /\ IsNote(J[i]) /\ Stands(I[i], J[i])
  BY ONLY IsNote(a), <1>24, <1>9, <1>14, <1>22, <1>23
<1>26. \A i \in 1 .. 5 - 1 : Linked(I[i], J[i], J[i + 1])
  <2>1. /\ Linked(I[1], J[1], J[2])
        /\ Linked(I[2], J[2], J[3])
        /\ Linked(I[3], J[3], J[4])
        /\ Linked(I[4], J[4], J[5])
    BY ONLY <1>15, <1>16, <1>17, <1>18, <1>22
  <2>2. QED BY ONLY <2>1
<1>27. \A i \in 1 .. 5 : /\ I[i].op \in Jumps => i \in {3}
                         /\ I[i].op = "label" => i \in {5}
  BY <1>12, <1>23 DEF Jumps
<1>28. ASSUME NEW i \in 1 .. 5, NEW t \in 1 .. 5, I[i].op \in Jumps, I[t] = Instr("label", I[i].arg)
      PROVE  Lands(I[i], J[i], J[t])
  <2>1. I[t].op = "label" /\ I[t].arg = I[i].arg
    BY ONLY <1>28, InstrFields
  <2>2. (i = 3 /\ t = 5)
    BY ONLY n \in Nat, <2>1, <1>28, <1>27, <1>12
  <2>3. QED BY ONLY <2>2, <1>22, <1>20
<1>29. Marked(I, J)
  BY ONLY <1>11, <1>22, <1>25, <1>26, <1>28 DEF Marked
<1>30. Fits(I, J, a, b)
  BY ONLY <1>29, <1>11, <1>22, <1>19 DEF Fits
<1>31. Labelled(I, n, n + 1)
  <2>1. \A i \in 1 .. 5 : I[i].op \in Jumps \cup {"label"} => I[i].arg \in n .. n + 1 - 1
    <3>1. I[3].arg \in n .. n + 1 - 1 /\ I[5].arg \in n .. n + 1 - 1
      BY ONLY n \in Nat, <1>12
    <3>2. QED BY <3>1, <1>27
  <2>2. ASSUME NEW l \in n .. n + 1 - 1 PROVE \E i \in 1 .. 5 : I[i] = Instr("label", l)
    <3>1. l \in {n}
      BY ONLY n \in Nat, l \in n .. n + 1 - 1
    <3>2. QED BY <3>1, <1>11
  <2>3. \A i, j \in 1 .. 5 : I[i].op = "label" /\ I[j].op = "label" /\ I[i].arg = I[j].arg => i = j
    BY ONLY n \in Nat, <1>27, <1>12
  <2>4. QED BY ONLY <2>1, <2>2, <2>3, <1>11 DEF Labelled
<1>32. QED
  BY <1>10, <1>30, <1>31

\* if with else.
LEMMA IfElseFits ==
    ASSUME NEW a, IsNote(a), NEW b, IsNote(b), NEW n \in Nat, NEW s, MadeOfParts(s), NEW deep,
           s.t = "if", s.else # None, Stands(Stmt(s, deep), a), Linked(Stmt(s, deep), a, b)
    PROVE  \E J : Fits(IfItems(s, deep, n, n + 1), J, a, b)
           /\ Labelled(IfItems(s, deep, n, n + 1), n, n + 2)
<1>1. PICK k : k = b.yes
  OBVIOUS
<1>2. /\ Row(k) /\ Plain(a) /\ Plain(b) /\ a.frames = deep /\ b.frames = deep /\ deep \in Nat
      /\ Same(a.yes, <<s>> \o k) /\ Row(a.yes)
  BY <1>1, HoleFields DEF Stands, Linked, IsNote
\* The parts of the source.
<1>3. Same(<<s>> \o k, <<Branch(s.c, <<s.body>>, <<s.else>>)>> \o k)
  BY <1>2, SameStatement
<1>4. /\ Row(<< >>) /\ << >> \o k = k /\ Row(<<s.body>>) /\ Row(<<s.else>>)
      /\ Row(<<s.body>> \o k) /\ Row(<<s.else>> \o k)
  BY <1>2, RowEmpty, RowHead
\* The notes.
<1>5. PICK j2, j3, j4, j5, j6, j7, j8 :
         /\ j2 = Note(deep, << >>, "value", <<s.body>> \o k, <<s.else>> \o k)
         /\ j3 = Note(deep, << >>, "tested", <<s.body>> \o k, <<s.else>> \o k)
         /\ j4 = Note(deep, << >>, "start", <<s.body>> \o k, << >>)
         /\ j5 = Note(deep, << >>, "start", k, << >>)
         /\ j6 = Note(deep, << >>, "start", <<s.else>> \o k, << >>)
         /\ j7 = Note(deep, << >>, "start", <<s.else>> \o k, << >>)
         /\ j8 = Note(deep, << >>, "start", k, << >>)
  OBVIOUS
<1>6. /\ j2.frames = deep /\ j2.held = << >> /\ j2.at = "value" /\ j2.yes = <<s.body>> \o k
         /\ j2.no = <<s.else>> \o k
      /\ j3.frames = deep /\ j3.held = << >> /\ j3.at = "tested" /\ j3.yes = <<s.body>> \o k
         /\ j3.no = <<s.else>> \o k
      /\ j4.frames = deep /\ j4.held = << >> /\ j4.at = "start" /\ j4.yes = <<s.body>> \o k /\ j4.no = << >>
      /\ j5.frames = deep /\ j5.held = << >> /\ j5.at = "start" /\ j5.yes = k /\ j5.no = << >>
      /\ j6.frames = deep /\ j6.held = << >> /\ j6.at = "start" /\ j6.yes = <<s.else>> \o k /\ j6.no = << >>
      /\ j7.frames = deep /\ j7.held = << >> /\ j7.at = "start" /\ j7.yes = <<s.else>> \o k /\ j7.no = << >>
      /\ j8.frames = deep /\ j8.held = << >> /\ j8.at = "start" /\ j8.yes = k /\ j8.no = << >>
  BY ONLY <1>5 DEF Note
<1>7. << >> \in Seq(Truths) /\ Row(<< >>)
  BY <1>2, RowEmpty
<1>8. IsNote(j2) /\ IsNote(j3) /\ IsNote(j4) /\ IsNote(j5) /\ IsNote(j6) /\ IsNote(j7) /\ IsNote(j8)
  BY <1>2, <1>4, <1>6, <1>7 DEF IsNote
\* The items.
<1>9. PICK I : I = IfItems(s, deep, n, n + 1)
  OBVIOUS
<1>10. /\ Row(I) /\ Len(I) = 8
       /\ I[1] = Cond(s.c, 0)
       /\ I[2] = Instr("cmp", 0)
       /\ I[3] = Instr("je", n)
       /\ I[4] = Stmt(s.body, deep)
       /\ I[5] = Instr("jmp", n + 1)
       /\ I[6] = Instr("label", n)
       /\ I[7] = Stmt(s.else, deep)
       /\ I[8] = Instr("label", n + 1)
  BY <1>9, IfItemsAre
<1>11. /\ I[1].op = "cond" /\ I[1].c = s.c /\ I[1].d = 0
       /\ I[2].op = "cmp" /\ I[2].arg = 0
       /\ I[3].op = "je" /\ I[3].arg = n
       /\ I[4].op = "stmt" /\ I[4].s = s.body /\ I[4].deep = deep
       /\ I[5].op = "jmp" /\ I[5].arg = n + 1
       /\ I[6].op = "label" /\ I[6].arg = n
       /\ I[7].op = "stmt" /\ I[7].s = s.else /\ I[7].deep = deep
       /\ I[8].op = "label" /\ I[8].arg = n + 1
  BY ONLY <1>10, InstrFields, HoleFields
<1>12. s.c \in Conds /\ MadeOfParts(s.body) /\ MadeOfParts(s.else)
  BY SyntaxAssumption DEF SyntaxAssumption, MadeOfParts
<1>13. Stands(I[1], a) /\ Stands(I[2], j2) /\ Stands(I[3], j3) /\ Stands(I[4], j4) /\ Stands(I[5], j5)
       /\ Stands(I[6], j6) /\ Stands(I[7], j7) /\ Stands(I[8], j8)
  BY <1>2, <1>6, <1>11, <1>12, <1>7 DEF Stands, Plain
<1>14. Linked(I[1], a, j2)
  <2>1. Tests(s.c, a, j2)
    BY <1>2, <1>4, <1>3, <1>6, <1>7, SameRefl, SameTrans DEF Tests, Plain
  <2>2. QED BY <2>1, <1>11 DEF Linked
<1>15. Linked(I[2], j2, j3)
  BY <1>6, <1>11, SameRefl DEF Linked, Continues
<1>16. Linked(I[3], j3, j4)
  BY <1>6, <1>11, SameRefl DEF Linked
<1>17. Linked(I[4], j4, j5)
  BY <1>6, <1>11, SameRefl DEF Linked, Plain
<1>18. Linked(I[5], j5, j6)
  BY <1>11 DEF Linked
<1>19. Linked(I[6], j6, j7)
  BY <1>6, <1>11, SameRefl DEF Linked, Continues
<1>20. Linked(I[7], j7, j8)
  BY <1>6, <1>11, SameRefl DEF Linked, Plain
<1>21. Linked(I[8], j8, b)
  BY <1>1, <1>2, <1>6, <1>11, SameRefl DEF Linked, Continues, Plain
<1>22. Lands(I[3], j3, j6)
  BY <1>6, <1>11, SameRefl DEF Lands
<1>23. Lands(I[5], j5, j8)
  BY <1>6, <1>11, SameRefl DEF Lands
\* All together.
<1>24. PICK J : J = <<a, j2, j3, j4, j5, j6, j7, j8>>
  OBVIOUS
<1>25. /\ Row(J) /\ Len(J) = 8 /\ J[1] = a /\ J[2] = j2 /\ J[3] = j3 /\ J[4] = j4 /\ J[5] = j5
          /\ J[6] = j6 /\ J[7] = j7 /\ J[8] = j8
  BY ONLY <1>24, RowTuple8
<1>26. \A i \in 1 .. 8 : i \in {1, 2, 3, 4, 5, 6, 7, 8}
  OBVIOUS
<1>27. \A i \in 1 .. 8 : I[i].op \in Ops
  BY <1>11, <1>26 DEF Ops, Jumps
<1>28. \A i \in 1 .. 8 : I[i].op \in Ops /\ IsNote(J[i]) /\ Stands(I[i], J[i])
  BY ONLY IsNote(a), <1>27, <1>8, <1>13, <1>25, <1>26
<1>29. \A i \in 1 .. 8 - 1 : Linked(I[i], J[i], J[i + 1])
  <2>1. /\ Linked(I[1], J[1], J[2])
        /\ Linked(I[2], J[2], J[3])
        /\ Linked(I[3], J[3], J[4])
        /\ Linked(I[4], J[4], J[5])
        /\ Linked(I[5], J[5], J[6])
        /\ Linked(I[6], J[6], J[7])
        /\ Linked(I[7], J[7], J[8])
    BY ONLY <1>14, <1>15, <1>16, <1>17, <1>18, <1>19, <1>20, <1>25
  <2>2. QED BY ONLY <2>1
<1>30. \A i \in 1 .. 8 : /\ I[i].op \in Jumps => i \in {3, 5}
                         /\ I[i].op = "label" => i \in {6, 8}
  BY <1>11, <1>26 DEF Jumps
<1>31. ASSUME NEW i \in 1 .. 8, NEW t \in 1 .. 8, I[i].op \in Jumps, I[t] = Instr("label", I[i].arg)
      PROVE  Lands(I[i], J[i], J[t])
  <2>1. I[t].op = "label" /\ I[t].arg = I[i].arg
    BY ONLY <1>31, InstrFields
  <2>2. (i = 3 /\ t = 6) \/ (i = 5 /\ t = 8)
    BY ONLY n \in Nat, <2>1, <1>31, <1>30, <1>11
  <2>3. QED BY ONLY <2>2, <1>25, <1>22, <1>23
<1>32. Marked(I, J)
  BY ONLY <1>10, <1>25, <1>28, <1>29, <1>31 DEF Marked
<1>33. Fits(I, J, a, b)
  BY ONLY <1>32, <1>10, <1>25, <1>21 DEF Fits
<1>34. Labelled(I, n, n + 2)
  <2>1. \A i \in 1 .. 8 : I[i].op \in Jumps \cup {"label"} => I[i].arg \in n .. n + 2 - 1
    <3>1. I[3].arg \in n .. n + 2 - 1 /\ I[5].arg \in n .. n + 2 - 1 /\ I[6].arg \in n .. n + 2 - 1
          /\ I[8].arg \in n .. n + 2 - 1
      BY ONLY n \in Nat, <1>11
    <3>2. QED BY <3>1, <1>30
  <2>2. ASSUME NEW l \in n .. n + 2 - 1 PROVE \E i \in 1 .. 8 : I[i] = Instr("label", l)
    <3>1. l \in {n, n + 1}
      BY ONLY n \in Nat, l \in n .. n + 2 - 1
    <3>2. QED BY <3>1, <1>10
  <2>3. \A i, j \in 1 .. 8 : I[i].op = "label" /\ I[j].op = "label" /\ I[i].arg = I[j].arg => i = j
    BY ONLY n \in Nat, <1>30, <1>11
  <2>4. QED BY ONLY <2>1, <2>2, <2>3, <1>10 DEF Labelled
<1>35. QED
  BY <1>9, <1>33, <1>34

\* A row without its first elements.
LEMMA RestOfRow ==
    ASSUME NEW A, Row(A), NEW i \in 1 .. Len(A)
    PROVE  SubSeq(A, i, Len(A)) = <<A[i]>> \o SubSeq(A, i + 1, Len(A))
<1>1. PICK m : m = Len(A)
  OBVIOUS
<1>2. m \in Nat /\ i \in 1 .. m
  BY <1>1, RowFacts
<1>3. PICK p, q : p = SubSeq(A, i, m) /\ q = SubSeq(A, i + 1, m)
  OBVIOUS
<1>4. Row(p) /\ Len(p) = m + 1 - i /\ \A j \in 1 .. m + 1 - i : p[j] = A[i + j - 1]
  <2>1. i \in 1 .. Len(A) + 1 /\ m \in 0 .. Len(A) /\ i <= m + 1
    BY <1>1, <1>2
  <2>2. QED BY <1>3, <2>1, RowPart
<1>5. Row(q) /\ Len(q) = m + 1 - (i + 1) /\ \A j \in 1 .. m + 1 - (i + 1) : q[j] = A[i + 1 + j - 1]
  <2>1. i + 1 \in 1 .. Len(A) + 1 /\ m \in 0 .. Len(A) /\ i + 1 <= m + 1
    BY <1>1, <1>2
  <2>2. QED BY <1>3, <2>1, RowPart
<1>6. PICK u, r : u = <<A[i]>> /\ r = u \o q
  OBVIOUS
<1>7. Row(u) /\ Len(u) = 1 /\ u[1] = A[i]
  BY ONLY <1>6, ShortRows
<1>8. IsJoin(r, u, q)
  BY ONLY <1>5, <1>6, <1>7, RowIsJoin
<1>9. /\ Row(r) /\ Len(r) = 1 + (m - i) /\ r[1] = A[i]
      /\ \A j \in 1 .. m - i : r[1 + j] = A[i + j]
  <2>1. Row(r) /\ Len(r) = 1 + Len(q) /\ r[1] = u[1] /\ \A j \in 1 .. Len(q) : r[1 + j] = q[j]
    BY ONLY <1>7, <1>8 DEF IsJoin
  <2>2. Len(q) = m - i
    BY <1>2, <1>5
  <2>3. \A j \in 1 .. m - i : q[j] = A[i + j]
    BY <1>2, <1>5
  <2>4. QED BY ONLY <2>1, <2>2, <2>3, <1>7
<1>10. ASSUME NEW j \in 1 .. m + 1 - i PROVE p[j] = r[j]
  <2>1. CASE j = 1
    BY <2>1, <1>2, <1>4, <1>9
  <2>2. CASE j # 1
    <3>1. PICK l \in 1 .. m - i : j = 1 + l
      <4>1. j - 1 \in 1 .. m - i /\ j = 1 + (j - 1)
        BY <2>2, <1>2
      <4>2. QED BY <4>1
    <3>2. p[j] = A[i + j - 1]
      BY <1>4
    <3>3. i + j - 1 = i + l
      BY <3>1, <1>2
    <3>4. QED BY <3>1, <3>2, <3>3, <1>9
  <2>3. QED BY <2>1, <2>2
<1>11. Len(p) = Len(r) /\ Len(p) = m + 1 - i
  BY <1>2, <1>4, <1>9
<1>12. p = r
  BY ONLY <1>4, <1>9, <1>10, <1>11, RowSame
<1>13. QED
  BY <1>1, <1>3, <1>6, <1>12

\* The instructions of a block, one by one.
LEMMA BlockItemsAre ==
    ASSUME NEW s, s.body \in Seq(Stmts), NEW deep, NEW I, I = BlockItems(s, deep), NEW m, m = Len(s.body)
    PROVE  /\ Row(I) /\ Len(I) = m + 2 /\ m \in Nat
           /\ I[1] = Instr("enter", 0) /\ I[m + 2] = Instr("leave", 0)
           /\ \A i \in 1 .. m : I[i + 1] = Stmt(s.body[i], deep + 1)
<1>1. PICK p, t, q : /\ p = <<Instr("enter", 0)>> /\ t = BlockStmts(s.body, deep)
                     /\ q = <<Instr("leave", 0)>>
  OBVIOUS
<1>2. I = (p \o t) \o q
  BY <1>1 DEF BlockItems
<1>3. /\ Row(p) /\ Len(p) = 1 /\ p[1] = Instr("enter", 0)
      /\ Row(q) /\ Len(q) = 1 /\ q[1] = Instr("leave", 0)
  BY ONLY <1>1, ShortRows
<1>4. m \in Nat /\ DOMAIN s.body = 1 .. m
  OBVIOUS
<1>5. DOMAIN t = 1 .. m /\ t = [i \in 1 .. m |-> t[i]] /\ \A i \in 1 .. m : t[i] = Stmt(s.body[i], deep + 1)
  BY <1>1, <1>4 DEF BlockStmts
<1>6. Row(t) /\ Len(t) = m
  BY <1>4, <1>5, RowIsSeq
<1>7. IsThree(I, p, t, q)
  BY ONLY <1>2, <1>3, <1>6, RowIsThree
<1>8. /\ Row(I) /\ Len(I) = 1 + m + 1 /\ I[1] = p[1] /\ I[1 + m + 1] = q[1]
      /\ \A i \in 1 .. m : I[1 + i] = t[i]
  BY ONLY <1>3, <1>4, <1>6, <1>7 DEF IsThree
<1>9. 1 + m + 1 = m + 2 /\ \A i \in 1 .. m : 1 + i = i + 1
  BY <1>4
<1>10. QED
  BY ONLY <1>3, <1>4, <1>5, <1>8, <1>9

\* A block: between enter and leave one more frame is open.
LEMMA BlockFits ==
    ASSUME NEW a, IsNote(a), NEW b, IsNote(b), NEW n \in Nat, NEW s, MadeOfParts(s), NEW deep,
           s.t = "block", Stands(Stmt(s, deep), a), Linked(Stmt(s, deep), a, b)
    PROVE  \E J : Fits(BlockItems(s, deep), J, a, b) /\ Labelled(BlockItems(s, deep), n, n + 0)
<1>1. PICK k, m : k = b.yes /\ m = Len(s.body)
  OBVIOUS
<1>2. /\ Row(k) /\ Plain(a) /\ Plain(b) /\ a.frames = deep /\ b.frames = deep /\ deep \in Nat
      /\ Same(a.yes, <<s>> \o k) /\ Row(a.yes)
  BY <1>1, HoleFields DEF Stands, Linked, IsNote
<1>3. s.body \in Seq(Stmts) /\ m \in Nat /\ Row(s.body) /\ Len(s.body) = m
  <2>1. s.body \in Seq(Stmts)
    BY DEF MadeOfParts
  <2>2. QED BY <2>1, <1>1, RowOf
\* The parts of the source: what is left of the block, and k.
<1> DEFINE Rest(i) == SubSeq(s.body, i, m) \o k
<1>4. ASSUME NEW i \in 1 .. m + 1 PROVE Row(SubSeq(s.body, i, m)) /\ Row(Rest(i))
  <2>1. i \in 1 .. Len(s.body) + 1 /\ m \in 0 .. Len(s.body) /\ i <= m + 1
    BY <1>3
  <2>2. Row(SubSeq(s.body, i, m))
    BY <1>3, <2>1, RowPart
  <2>3. QED BY <2>2, <1>2, RowJoined
<1>5. Same(a.yes, Rest(1))
  <2>1. SubSeq(s.body, 1, m) = s.body
    BY <1>3
  <2>2. Same(<<s>> \o k, s.body \o k)
    BY <1>2, SameStatement
  <2>3. QED BY <2>1, <2>2, <1>2, SameTrans
<1>6. Rest(m + 1) = k
  <2>1. SubSeq(s.body, m + 1, m) = << >>
    BY <1>3
  <2>2. QED BY <2>1, <1>2, RowEmpty
<1>7. ASSUME NEW i \in 1 .. m PROVE Rest(i) = <<s.body[i]>> \o Rest(i + 1)
  <2>1. PICK p, q : p = <<s.body[i]>> /\ q = SubSeq(s.body, i + 1, m)
    OBVIOUS
  <2>2. SubSeq(s.body, i, m) = p \o q
    BY ONLY <2>1, <1>3, i \in 1 .. m, RestOfRow
  <2>3. i + 1 \in 1 .. m + 1
    BY <1>3
  <2>4. Row(p) /\ Row(q) /\ Row(k)
    BY <2>1, <2>3, <1>2, <1>4, ShortRows
  <2>5. (p \o q) \o k = p \o (q \o k)
    BY ONLY <2>4, RowConcat
  <2>6. QED BY <2>1, <2>2, <2>5
<1> HIDE DEF Rest
\* The notes.
<1>8. PICK J : J = [i \in 1 .. m + 2 |-> IF i = 1 THEN a
                       ELSE Note(deep + 1, << >>, "start", Rest(i - 1), << >>)]
  OBVIOUS
<1>9. Row(J) /\ Len(J) = m + 2 /\ J[1] = a
  <2>1. DOMAIN J = 1 .. m + 2 /\ J = [i \in 1 .. m + 2 |-> J[i]] /\ m + 2 \in Nat
    BY <1>3, <1>8
  <2>2. Row(J) /\ Len(J) = m + 2
    BY ONLY <2>1, RowIsSeq
  <2>3. QED BY <2>2, <1>3, <1>8
<1>10. ASSUME NEW i \in 1 .. m + 1
       PROVE  /\ J[i + 1].frames = deep + 1 /\ J[i + 1].held = << >> /\ J[i + 1].at = "start"
              /\ J[i + 1].yes = Rest(i) /\ J[i + 1].no = << >>
  <2>1. i + 1 \in 1 .. m + 2 /\ i + 1 # 1 /\ (i + 1) - 1 = i
    BY <1>3
  <2>2. J[i + 1] = Note(deep + 1, << >>, "start", Rest(i), << >>)
    BY <1>8, <2>1
  <2>3. QED BY <2>2 DEF Note
<1>11. << >> \in Seq(Truths) /\ Row(<< >>)
  BY <1>2, RowEmpty
<1>12. ASSUME NEW i \in 1 .. m + 1 PROVE IsNote(J[i + 1]) /\ Plain(J[i + 1])
  <2>1. Row(Rest(i)) /\ deep + 1 \in Nat
    BY <1>2, <1>4
  <2>2. QED BY <2>1, <1>10, <1>11 DEF IsNote, Plain
\* The items.
<1>13. PICK I : I = BlockItems(s, deep)
  OBVIOUS
<1>14. /\ Row(I) /\ Len(I) = m + 2
       /\ I[1] = Instr("enter", 0) /\ I[m + 2] = Instr("leave", 0)
       /\ \A i \in 1 .. m : I[i + 1] = Stmt(s.body[i], deep + 1)
  BY ONLY <1>1, <1>3, <1>13, BlockItemsAre
<1>15. /\ I[1].op = "enter" /\ I[m + 2].op = "leave"
       /\ \A i \in 1 .. m : I[i + 1].op = "stmt" /\ I[i + 1].s = s.body[i] /\ I[i + 1].deep = deep + 1
  BY ONLY <1>14, InstrFields, HoleFields
<1>16. ASSUME NEW p \in 1 .. m + 2 PROVE p = 1 \/ p = m + 2 \/ \E i \in 1 .. m : p = i + 1
  <2>1. CASE p # 1 /\ p # m + 2
    <3>1. p - 1 \in 1 .. m /\ p = (p - 1) + 1
      BY <2>1, <1>3
    <3>2. QED BY <3>1
  <2>2. QED BY <2>1
<1>17. Stands(I[1], J[1]) /\ Linked(I[1], J[1], J[2])
  <2>1. 1 \in 1 .. m + 1 /\ 1 + 1 = 2
    BY <1>3
  <2>2. /\ J[2].frames = deep + 1 /\ J[2].held = << >> /\ J[2].at = "start" /\ J[2].yes = Rest(1)
    BY ONLY <2>1, <1>10
  <2>3. QED BY <2>2, <1>2, <1>5, <1>9, <1>15 DEF Stands, Linked, Plain
<1>18. ASSUME NEW i \in 1 .. m
       PROVE  Stands(I[i + 1], J[i + 1]) /\ Linked(I[i + 1], J[i + 1], J[i + 2])
  <2>1. i \in 1 .. m + 1 /\ i + 1 \in 1 .. m + 1 /\ (i + 1) + 1 = i + 2
    BY <1>3
  <2>2. MadeOfParts(s.body[i])
    <3>1. s.body[i] \in Stmts
      BY <1>3
    <3>2. QED BY <3>1, SyntaxAssumption DEF SyntaxAssumption, MadeOfParts
  <2>3. Stands(I[i + 1], J[i + 1])
    BY <2>1, <2>2, <1>10, <1>15 DEF Stands, Plain
  <2>4. /\ J[i + 2].frames = deep + 1 /\ J[i + 2].held = << >> /\ J[i + 2].at = "start"
        /\ J[i + 2].yes = Rest(i + 1)
    BY ONLY <2>1, <1>10
  <2>5. Same(J[i + 1].yes, <<s.body[i]>> \o J[i + 2].yes)
    BY <2>1, <2>4, <1>7, <1>10, SameRefl
  <2>6. Linked(I[i + 1], J[i + 1], J[i + 2])
    BY <2>1, <2>4, <2>5, <1>10, <1>15 DEF Linked, Plain
  <2>7. QED BY <2>3, <2>6
<1>19. Stands(I[m + 2], J[m + 2]) /\ Linked(I[m + 2], J[m + 2], b)
  <2>1. m + 1 \in 1 .. m + 1 /\ (m + 1) + 1 = m + 2
    BY <1>3
  <2>2. /\ J[m + 2].frames = deep + 1 /\ J[m + 2].held = << >> /\ J[m + 2].at = "start"
        /\ J[m + 2].yes = k
    BY ONLY <2>1, <1>6, <1>10
  <2>3. QED BY <2>2, <1>1, <1>2, <1>15, SameRefl DEF Stands, Linked, Plain
<1>20. ASSUME NEW p \in 1 .. m + 2
       PROVE  /\ I[p].op \in Ops \ (Jumps \cup {"label"})
              /\ IsNote(J[p]) /\ Stands(I[p], J[p])
  <2>1. CASE p = 1
    BY <2>1, <1>9, <1>15, <1>17 DEF Ops, Jumps
  <2>2. CASE p = m + 2
    <3>1. m + 1 \in 1 .. m + 1 /\ (m + 1) + 1 = m + 2
      BY <1>3
    <3>2. IsNote(J[m + 2])
      BY ONLY <3>1, <1>12
    <3>3. QED BY <2>2, <3>2, <1>15, <1>19 DEF Ops, Jumps
  <2>3. CASE \E i \in 1 .. m : p = i + 1
    <3>1. PICK i \in 1 .. m : p = i + 1
      BY <2>3
    <3>2. i \in 1 .. m + 1
      BY <1>3
    <3>3. QED BY <3>1, <3>2, <1>12, <1>15, <1>18 DEF Ops, Jumps
  <2>4. QED BY <2>1, <2>2, <2>3, <1>16
<1>21. ASSUME NEW p \in 1 .. m + 2 - 1 PROVE Linked(I[p], J[p], J[p + 1])
  <2>1. CASE p = 1
    BY <2>1, <1>17
  <2>2. CASE \E i \in 1 .. m : p = i + 1
    <3>1. PICK i \in 1 .. m : p = i + 1
      BY <2>2
    <3>2. p + 1 = i + 2
      BY <3>1, <1>3
    <3>3. QED BY <3>1, <3>2, <1>18
  <2>3. p \in 1 .. m + 2 /\ p # m + 2
    BY <1>3
  <2>4. QED BY <2>1, <2>2, <2>3, <1>16
<1>22. Marked(I, J)
  <2>1. Len(I) >= 1
    BY <1>3, <1>14
  <2>2. PICK l : l = m + 2
    OBVIOUS
  <2>3. Row(I) /\ Row(J) /\ Len(I) = l /\ Len(J) = l
    BY <2>2, <1>9, <1>14
  <2>4. ASSUME NEW p \in 1 .. l
        PROVE  I[p].op \in Ops /\ I[p].op \notin Jumps /\ IsNote(J[p]) /\ Stands(I[p], J[p])
    <3>1. p \in 1 .. m + 2
      BY <2>2
    <3>2. QED BY ONLY <3>1, <1>20
  <2>5. ASSUME NEW p \in 1 .. l - 1 PROVE Linked(I[p], J[p], J[p + 1])
    <3>1. p \in 1 .. m + 2 - 1
      BY <1>3, <2>2
    <3>2. QED BY ONLY <3>1, <1>21
  <2>6. QED BY ONLY <2>1, <2>3, <2>4, <2>5 DEF Marked
<1>23. Fits(I, J, a, b)
  BY ONLY <1>9, <1>14, <1>19, <1>22 DEF Fits
<1>24. Labelled(I, n, n + 0)
  <2>1. ~\E l : l \in n .. n + 0 - 1
    OBVIOUS
  <2>2. \A p \in 1 .. m + 2 : I[p].op \notin Jumps /\ I[p].op # "label"
    BY <1>20
  <2>3. QED BY ONLY <2>1, <2>2, <1>14 DEF Labelled
<1>25. QED
  BY <1>13, <1>23, <1>24

-----------------------------------------------------------------------------
(* The invariant.                                                          *)

\* The operands of && and || are comparisons or other values that are 0 or 1.
Truthful == Vals \subseteq Truths

\* The machine and the source are where the note a says.
Agrees(a, rs, z, td) ==
    /\ \A i \in 1 .. Len(a.held) : rs[i] = a.held[i]
    /\ a.at = "start" => Same(a.yes, td)
    /\ a.at # "start" =>
         /\ rs[Len(a.held) + 1] \in Truths
         /\ rs[Len(a.held) + 1] # {} => Same(a.yes, td)
         /\ rs[Len(a.held) + 1] = {} => Same(a.no, td)
    /\ a.at = "tested" => z = (rs[Len(a.held) + 1] = {})
Reached(a, fr, rs, z, td) ==
    /\ fr = a.frames
    /\ Len(rs) >= Len(a.held)
    /\ a.at # "start" => Len(rs) >= Len(a.held) + 1
    /\ Truthful => Agrees(a, rs, z, td)

FlowInv ==
    /\ label \in Nat /\ lit \in Nat
    /\ pc \in 1 .. Len(code) /\ (~Generated => pc = 1)
    /\ regs \in Seq(SUBSET Bits) /\ zf \in BOOLEAN /\ frames \in Nat
    /\ code[Len(code)].op = "ret"
    /\ Labelled(code, 0, label)
    /\ \E N : Marked(code, N) /\ Reached(N[pc], frames, regs, zf, todo)

-----------------------------------------------------------------------------
(* Every step of the generation keeps it.                                  *)

\* The least-number principle.
LEMMA LeastNatural ==
    ASSUME NEW S \in SUBSET Nat, S # {}
    PROVE  \E m \in S : \A s \in S : m <= s
<1> DEFINE Less == {p \in Nat \X Nat : p[1] < p[2]}
<1>1. IsWellFoundedOn(Less, Nat)
  BY NatLessThanWellFounded DEF OpToRel
<1>2. PICK m \in S : \A s \in S : <<s, m>> \notin Less
  BY <1>1, WFMin
<1>3. ASSUME NEW s \in S PROVE m <= s
  <2>1. m \in Nat /\ s \in Nat
    OBVIOUS
  <2>2. ~(s < m)
    BY <1>2, <2>1
  <2>3. QED BY <2>1, <2>2
<1>4. QED
  BY <1>3

\* The leftmost part is one of those that are left.
LEMMA HoleIsPending ==
    ASSUME FlowInv, ~Generated
    PROVE  Hole \in 1 .. Len(code) - 1 /\ IsHole(code[Hole]) /\ Row(code)
<1>1. Row(code)
  BY DEF FlowInv, Marked
<1>2. Len(code) \in Nat /\ DOMAIN code = 1 .. Len(code)
  BY <1>1, RowFacts
<1>3. Pending \in SUBSET Nat /\ Pending # {}
  BY <1>2 DEF Pending, Generated
<1>4. \E m \in Pending : \A s \in Pending : m <= s
  BY <1>3, LeastNatural
<1>5. Hole \in Pending
  BY <1>4 DEF Hole, Min
<1>6. Hole \in 1 .. Len(code) /\ code[Hole].op \in {"stmt", "cond"}
  BY <1>2, <1>5 DEF Pending
<1>7. Hole # Len(code)
  BY <1>6 DEF FlowInv
<1>8. Hole \in 1 .. Len(code) - 1
  BY ONLY <1>2, <1>6, <1>7
<1>9. QED
  BY <1>1, <1>6, <1>8 DEF IsHole

\* What a step needs to know of the part it generates.
LEMMA HoleNotes ==
    ASSUME FlowInv, ~Generated, NEW N, Marked(code, N)
    PROVE  /\ IsNote(N[Hole]) /\ IsNote(N[Hole + 1])
           /\ Stands(code[Hole], N[Hole]) /\ Linked(code[Hole], N[Hole], N[Hole + 1])
<1>1. Hole \in 1 .. Len(code) - 1 /\ Len(code) \in Nat
  BY HoleIsPending, RowFacts
<1>2. Hole \in 1 .. Len(code) /\ Hole + 1 \in 1 .. Len(code)
  BY <1>1
<1>3. QED
  BY <1>1, <1>2 DEF Marked

\* A part that fits replaces what it was generated from and keeps the invariant.
LEMMA PartGenerated ==
    ASSUME FlowInv, ~Generated, NEW I, NEW k \in Nat, Becomes(I, k), lit' \in Nat,
           ASSUME NEW N, Marked(code, N)
           PROVE  \E J : Fits(I, J, N[Hole], N[Hole + 1]) /\ Labelled(I, label, label + k)
    PROVE  FlowInv'
<1>1. PICK N : Marked(code, N) /\ Reached(N[pc], frames, regs, zf, todo)
  BY DEF FlowInv
<1>2. PICK J : Fits(I, J, N[Hole], N[Hole + 1]) /\ Labelled(I, label, label + k)
  BY <1>1
<1>3. /\ code' = Spliced(code, Hole, I) /\ label' = label + k
      /\ UNCHANGED <<body, pc, regs, zf, frames, todo>>
  BY DEF Becomes, Spliced, machine
<1>4. Hole \in 1 .. Len(code) - 1 /\ IsHole(code[Hole])
  BY HoleIsPending
<1>5. label \in Nat /\ Labelled(code, 0, label) /\ pc = 1
  BY DEF FlowInv
<1>6. PICK h, n : h = Hole /\ n = label
  OBVIOUS
<1>7. PICK M : M = Spliced(N, h, J)
  OBVIOUS
<1>8. /\ Marked(code', M) /\ Labelled(code', 0, n + k) /\ M[1] = N[1]
      /\ code'[Len(code')] = code[Len(code)]
  <2>1. PICK A, B : A = code /\ B = code'
    OBVIOUS
  <2>2. /\ Marked(A, N) /\ h \in 1 .. Len(A) - 1 /\ IsHole(A[h]) /\ n \in Nat /\ Labelled(A, 0, n)
        /\ Fits(I, J, N[h], N[h + 1]) /\ Labelled(I, n, n + k)
    BY <1>1, <1>2, <1>4, <1>5, <1>6, <2>1
  <2>3. B = Spliced(A, h, I)
    BY <1>3, <1>6, <2>1
  <2>4. /\ Marked(Spliced(A, h, I), Spliced(N, h, J)) /\ Labelled(Spliced(A, h, I), 0, n + k)
        /\ SameEnds(Spliced(A, h, I), Spliced(N, h, J), A, N)
    <3>1. Marked(Spliced(A, h, I), Spliced(N, h, J))
      BY ONLY <2>2, k \in Nat, SplicedMarked
    <3>2. Labelled(Spliced(A, h, I), 0, n + k)
      BY ONLY <2>2, k \in Nat, SplicedMarked
    <3>3. SameEnds(Spliced(A, h, I), Spliced(N, h, J), A, N)
      BY ONLY <2>2, k \in Nat, SplicedMarked
    <3>4. QED BY <3>1, <3>2, <3>3
  <2>5. QED BY ONLY <1>7, <2>1, <2>3, <2>4 DEF SameEnds
<1>9. pc' \in 1 .. Len(code') /\ pc' = 1
  <2>1. Len(code') >= 1 /\ Len(code') \in Nat
    BY <1>8, RowFacts DEF Marked
  <2>2. QED BY <1>3, <1>5, <2>1
<1>10. label' \in Nat
  BY <1>3, <1>5
<1>11. Labelled(code', 0, label')
  BY <1>3, <1>6, <1>8
<1>12. code'[Len(code')].op = "ret"
  BY <1>8 DEF FlowInv
<1>13. Reached(M[pc'], frames', regs', zf', todo')
  BY <1>1, <1>3, <1>5, <1>8, <1>9
<1>14. regs' \in Seq(SUBSET Bits) /\ zf' \in BOOLEAN /\ frames' \in Nat
  BY <1>3 DEF FlowInv
<1>15. \E M0 : Marked(code', M0) /\ Reached(M0[pc'], frames', regs', zf', todo')
  BY <1>8, <1>13
<1>16. QED
  BY ONLY <1>9, <1>10, <1>11, <1>12, <1>14, <1>15, lit' \in Nat DEF FlowInv

\* The items of the code are told apart by their fields.
LEMMA ItemNotes ==
    ASSUME NEW e, NEW a, NEW b, Stands(e, a), Linked(e, a, b)
    PROVE  /\ e.op = "stmt" => /\ Stands(Stmt(e.s, e.deep), a) /\ Linked(Stmt(e.s, e.deep), a, b)
                               /\ MadeOfParts(e.s)
           /\ e.op = "cond" => /\ Stands(Cond(e.c, e.d), a) /\ Linked(Cond(e.c, e.d), a, b)
                               /\ e.c \in Conds
<1>1. CASE e.op = "stmt"
  <2>1. PICK x : x = Stmt(e.s, e.deep)
    OBVIOUS
  <2>2. x.op = "stmt" /\ x.s = e.s /\ x.deep = e.deep
    BY ONLY <2>1, HoleFields
  <2>3. Stands(x, a) /\ Linked(x, a, b) /\ MadeOfParts(e.s)
    BY <1>1, <2>2 DEF Stands, Linked
  <2>4. QED BY <1>1, <2>1, <2>3
<1>2. CASE e.op = "cond"
  <2>1. PICK x : x = Cond(e.c, e.d)
    OBVIOUS
  <2>2. x.op = "cond" /\ x.c = e.c /\ x.d = e.d
    BY ONLY <2>1, HoleFields
  <2>3. Stands(x, a) /\ Linked(x, a, b) /\ e.c \in Conds
    BY <1>2, <2>2 DEF Stands, Linked
  <2>4. QED BY <1>2, <2>1, <2>3
<1>3. QED
  BY <1>1, <1>2

\* An expression.
LEMMA GenExprKeeps ==
    ASSUME FlowInv, ~Generated, NEW op \in {"act", "atom"}, NEW d, NEW name, GenExpr(op, d, name),
           ASSUME NEW N, Marked(code, N), NEW e, e.op = op, e.arg = d, e.name = name
           PROVE  Stands(e, N[Hole]) /\ Linked(e, N[Hole], N[Hole + 1])
    PROVE  FlowInv'
<1>1. PICK e : e = [op |-> op, arg |-> d, name |-> name,
                    lit |-> IF name \in Literals THEN lit ELSE NoLit]
  OBVIOUS
<1>2. Becomes(<<e>>, 0) /\ lit' \in Nat
  BY <1>1 DEF GenExpr, FlowInv
<1>3. e.op = op /\ e.arg = d /\ e.name = name
  BY <1>1
<1>4. e.op \in Ops \ (Jumps \cup {"label"})
  BY <1>3 DEF Ops, Jumps
<1>5. ASSUME NEW N, Marked(code, N)
      PROVE  \E J : Fits(<<e>>, J, N[Hole], N[Hole + 1]) /\ Labelled(<<e>>, label, label + 0)
  <2>1. Stands(e, N[Hole]) /\ Linked(e, N[Hole], N[Hole + 1])
    BY <1>3, <1>5
  <2>2. IsNote(N[Hole])
    BY <1>5, HoleNotes
  <2>3. label \in Nat
    BY DEF FlowInv
  <2>4. QED BY ONLY <2>1, <2>2, <2>3, <1>4, OneFits
<1>6. QED
  BY <1>2, <1>5, PartGenerated

\* A step that compiles a condition keeps the invariant.
LEMMA GenCondKeeps ==
    ASSUME FlowInv, ~Generated, GenCond
    PROVE  FlowInv'
<1>1. PICK e : e = code[Hole]
  OBVIOUS
<1>2. e.op = "cond" /\ (GenAtom(e.c, e.d) \/ GenLogical(e.c, e.d))
  BY <1>1 DEF GenCond
<1>3. ASSUME NEW N, Marked(code, N)
      PROVE  /\ IsNote(N[Hole]) /\ IsNote(N[Hole + 1])
             /\ Stands(e, N[Hole]) /\ Linked(e, N[Hole], N[Hole + 1])
             /\ Stands(Cond(e.c, e.d), N[Hole]) /\ Linked(Cond(e.c, e.d), N[Hole], N[Hole + 1])
             /\ e.c \in Conds /\ e.d \in Nat
  <2>1. /\ IsNote(N[Hole]) /\ IsNote(N[Hole + 1])
        /\ Stands(e, N[Hole]) /\ Linked(e, N[Hole], N[Hole + 1])
    BY <1>1, <1>3, HoleNotes
  <2>2. e.d = Len(N[Hole].held) /\ N[Hole].held \in Seq(Truths)
    BY <2>1, <1>2 DEF Stands, IsNote
  <2>3. e.d \in Nat
    BY <2>2
  <2>4. QED BY <2>1, <2>3, <1>2, ItemNotes
<1>4. CASE GenAtom(e.c, e.d)
  <2>1. e.c.t = "atom" /\ GenExpr("atom", e.d, e.c.name)
    BY <1>4 DEF GenAtom
  <2>2. ASSUME NEW N, Marked(code, N), NEW x, x.op = "atom", x.arg = e.d, x.name = e.c.name
        PROVE  Stands(x, N[Hole]) /\ Linked(x, N[Hole], N[Hole + 1])
    <3>1. N[Hole].at = "start" /\ Len(N[Hole].held) = e.d /\ Tests(e.c, N[Hole], N[Hole + 1])
      BY <2>2, <1>2, <1>3 DEF Stands, Linked
    <3>2. QED BY <2>1, <2>2, <3>1 DEF Stands, Linked
  <2>3. QED BY <2>1, <2>2, GenExprKeeps
<1>5. CASE GenLogical(e.c, e.d)
  <2>1. /\ e.c.t \in {"and", "or"} /\ Becomes(CondItems(e.c, e.d, label), 1) /\ lit' = lit
    BY <1>5 DEF GenLogical
  <2>2. label \in Nat /\ lit' \in Nat
    BY <2>1 DEF FlowInv
  <2>3. ASSUME NEW N, Marked(code, N)
        PROVE  \E J : /\ Fits(CondItems(e.c, e.d, label), J, N[Hole], N[Hole + 1])
                      /\ Labelled(CondItems(e.c, e.d, label), label, label + 1)
    <3>1. /\ IsNote(N[Hole]) /\ IsNote(N[Hole + 1])
          /\ Stands(Cond(e.c, e.d), N[Hole]) /\ Linked(Cond(e.c, e.d), N[Hole], N[Hole + 1])
          /\ e.c \in Conds /\ e.d \in Nat
      BY <2>3, <1>3
    <3>2. QED BY ONLY <2>1, <2>2, <3>1, AndFits, OrFits
  <2>4. 1 \in Nat
    OBVIOUS
  <2>5. QED BY <2>1, <2>2, <2>3, <2>4, PartGenerated
<1>6. QED
  BY <1>2, <1>4, <1>5

\* A step that compiles a statement keeps the invariant.
LEMMA GenStmtKeeps ==
    ASSUME FlowInv, ~Generated, GenStmt
    PROVE  FlowInv'
<1>1. PICK e : e = code[Hole]
  OBVIOUS
<1>2. e.op = "stmt" /\ \/ GenAct(e.s) \/ GenRet(e.s, e.deep) \/ GenBlock(e.s, e.deep)
                       \/ GenIf(e.s, e.deep) \/ GenWhile(e.s, e.deep) \/ GenFor(e.s, e.deep)
  BY <1>1 DEF GenStmt
<1>3. ASSUME NEW N, Marked(code, N)
      PROVE  /\ IsNote(N[Hole]) /\ IsNote(N[Hole + 1])
             /\ Stands(e, N[Hole]) /\ Linked(e, N[Hole], N[Hole + 1])
             /\ Stands(Stmt(e.s, e.deep), N[Hole])
             /\ Linked(Stmt(e.s, e.deep), N[Hole], N[Hole + 1])
             /\ MadeOfParts(e.s)
  <2>1. /\ IsNote(N[Hole]) /\ IsNote(N[Hole + 1])
        /\ Stands(e, N[Hole]) /\ Linked(e, N[Hole], N[Hole + 1])
    BY <1>1, <1>3, HoleNotes
  <2>2. QED BY <2>1, <1>2, ItemNotes
<1>4. label \in Nat /\ lit \in Nat /\ 0 \in Nat /\ 1 \in Nat /\ 2 \in Nat
  BY DEF FlowInv
<1>5. CASE GenAct(e.s)
  <2>1. e.s.t = "act" /\ GenExpr("act", 0, e.s.name)
    BY <1>5 DEF GenAct
  <2>2. ASSUME NEW N, Marked(code, N), NEW x, x.op = "act", x.arg = 0, x.name = e.s.name
        PROVE  Stands(x, N[Hole]) /\ Linked(x, N[Hole], N[Hole + 1])
    <3>1. /\ Plain(N[Hole]) /\ Plain(N[Hole + 1]) /\ N[Hole + 1].frames = N[Hole].frames
          /\ Same(N[Hole].yes, <<e.s>> \o N[Hole + 1].yes)
      BY <2>2, <1>2, <1>3 DEF Stands, Linked
    <3>2. QED BY <2>1, <2>2, <3>1 DEF Stands, Linked
  <2>3. QED BY <2>1, <2>2, GenExprKeeps
<1>6. CASE GenRet(e.s, e.deep)
  <2>1. e.s.t = "ret" /\ Becomes(<<Instr("ret", e.deep)>>, 0) /\ lit' = lit
    BY <1>6 DEF GenRet
  <2>2. PICK x : x = Instr("ret", e.deep)
    OBVIOUS
  <2>3. x.op = "ret" /\ x.arg = e.deep
    BY ONLY <2>2, InstrFields
  <2>4. x.op \in Ops \ (Jumps \cup {"label"})
    BY <2>3 DEF Ops, Jumps
  <2>5. ASSUME NEW N, Marked(code, N)
        PROVE  \E J : Fits(<<x>>, J, N[Hole], N[Hole + 1]) /\ Labelled(<<x>>, label, label + 0)
    <3>1. PICK k : k = N[Hole + 1].yes
      OBVIOUS
    <3>2. Row(k) /\ Plain(N[Hole]) /\ N[Hole].frames = e.deep /\ Same(N[Hole].yes, <<e.s>> \o k)
      BY <2>5, <3>1, <1>2, <1>3 DEF Stands, Linked, IsNote
    <3>3. Returns(N[Hole].yes)
      <4>1. <<e.s>> \o k # << >> /\ Head(<<e.s>> \o k) = e.s
        BY <3>2, RowHead
      <4>2. Settled(<<e.s>> \o k) /\ NextEvent(<<e.s>> \o k) = <<"return">>
        BY <4>1, <2>1 DEF Settled, IsEvent, NextEvent
      <4>3. QED BY <4>2, <3>2 DEF Returns
    <3>4. Stands(x, N[Hole]) /\ Linked(x, N[Hole], N[Hole + 1])
      BY <2>3, <3>2, <3>3 DEF Stands, Linked
    <3>5. IsNote(N[Hole])
      BY <2>5, <1>3
    <3>6. QED BY ONLY <1>4, <2>4, <3>4, <3>5, OneFits
  <2>6. lit' \in Nat /\ Becomes(<<x>>, 0)
    BY <2>1, <2>2, <1>4
  <2>7. QED BY <1>4, <2>5, <2>6, PartGenerated
<1>7. CASE GenBlock(e.s, e.deep)
  <2>1. e.s.t = "block" /\ Becomes(BlockItems(e.s, e.deep), 0) /\ lit' \in Nat
    BY <1>4, <1>7 DEF GenBlock
  <2>2. ASSUME NEW N, Marked(code, N)
        PROVE  \E J : /\ Fits(BlockItems(e.s, e.deep), J, N[Hole], N[Hole + 1])
                      /\ Labelled(BlockItems(e.s, e.deep), label, label + 0)
    <3>1. /\ IsNote(N[Hole]) /\ IsNote(N[Hole + 1]) /\ MadeOfParts(e.s)
          /\ Stands(Stmt(e.s, e.deep), N[Hole])
          /\ Linked(Stmt(e.s, e.deep), N[Hole], N[Hole + 1])
      BY <2>2, <1>3
    <3>2. QED BY ONLY <1>4, <2>1, <3>1, BlockFits
  <2>3. QED BY <1>4, <2>1, <2>2, PartGenerated
<1>8. CASE GenIf(e.s, e.deep)
  <2>1. PICK k : k = IfLabels(e.s)
    OBVIOUS
  <2>2. /\ e.s.t = "if" /\ Becomes(IfItems(e.s, e.deep, label, label + 1), k) /\ lit' \in Nat
        /\ k \in Nat /\ (e.s.else = None => k = 1) /\ (e.s.else # None => k = 2)
    BY <1>4, <1>8, <2>1 DEF GenIf, IfLabels
  <2>3. ASSUME NEW N, Marked(code, N)
        PROVE  \E J : /\ Fits(IfItems(e.s, e.deep, label, label + 1), J, N[Hole], N[Hole + 1])
                      /\ Labelled(IfItems(e.s, e.deep, label, label + 1), label, label + k)
    <3>1. /\ IsNote(N[Hole]) /\ IsNote(N[Hole + 1]) /\ MadeOfParts(e.s)
          /\ Stands(Stmt(e.s, e.deep), N[Hole])
          /\ Linked(Stmt(e.s, e.deep), N[Hole], N[Hole + 1])
      BY <2>3, <1>3
    <3>2. CASE e.s.else = None
      <4>1. k = 1 /\ e.s.t = "if" /\ label \in Nat
        BY <1>4, <2>2, <3>2
      <4>2. QED BY ONLY <3>1, <3>2, <4>1, IfFits
    <3>3. CASE e.s.else # None
      <4>1. k = 2 /\ e.s.t = "if" /\ label \in Nat
        BY <1>4, <2>2, <3>3
      <4>2. QED BY ONLY <3>1, <3>3, <4>1, IfElseFits
    <3>4. QED BY <3>2, <3>3
  <2>4. QED BY <2>2, <2>3, PartGenerated
<1>9. CASE GenWhile(e.s, e.deep)
  <2>1. /\ e.s.t = "while" /\ Becomes(WhileItems(e.s, e.deep, label, label + 1), 2) /\ lit' \in Nat
    BY <1>4, <1>9 DEF GenWhile
  <2>2. ASSUME NEW N, Marked(code, N)
        PROVE  \E J : /\ Fits(WhileItems(e.s, e.deep, label, label + 1), J, N[Hole], N[Hole + 1])
                      /\ Labelled(WhileItems(e.s, e.deep, label, label + 1), label, label + 2)
    <3>1. /\ IsNote(N[Hole]) /\ IsNote(N[Hole + 1]) /\ MadeOfParts(e.s)
          /\ Stands(Stmt(e.s, e.deep), N[Hole])
          /\ Linked(Stmt(e.s, e.deep), N[Hole], N[Hole + 1])
      BY <2>2, <1>3
    <3>2. QED BY ONLY <1>4, <2>1, <3>1, WhileFits
  <2>3. QED BY <1>4, <2>1, <2>2, PartGenerated
<1>10. CASE GenFor(e.s, e.deep)
  <2>1. /\ e.s.t = "for" /\ Becomes(ForItems(e.s, e.deep, label, label + 1), 2) /\ lit' \in Nat
    BY <1>4, <1>10 DEF GenFor
  <2>2. ASSUME NEW N, Marked(code, N)
        PROVE  \E J : /\ Fits(ForItems(e.s, e.deep, label, label + 1), J, N[Hole], N[Hole + 1])
                      /\ Labelled(ForItems(e.s, e.deep, label, label + 1), label, label + 2)
    <3>1. /\ IsNote(N[Hole]) /\ IsNote(N[Hole + 1]) /\ MadeOfParts(e.s)
          /\ Stands(Stmt(e.s, e.deep), N[Hole])
          /\ Linked(Stmt(e.s, e.deep), N[Hole], N[Hole + 1])
      BY <2>2, <1>3
    <3>2. QED BY ONLY <1>4, <2>1, <3>1, ForFits
  <2>3. QED BY <1>4, <2>1, <2>2, PartGenerated
<1>11. QED
  BY <1>2, <1>5, <1>6, <1>7, <1>8, <1>9, <1>10

\* The function's block and its ret fit.
LEMMA InitFlow ==
    ASSUME Init
    PROVE  FlowInv
<1>1. PICK s, e, r : s = Block(body) /\ e = Stmt(s, 0) /\ r = Instr("ret", 0)
  OBVIOUS
<1>2. /\ body \in Seq(Stmts) /\ code = <<e, r>> /\ label = 0 /\ lit = 0
      /\ pc = 1 /\ regs = << >> /\ zf = FALSE /\ frames = 0 /\ todo = body
  BY <1>1, SyntaxAssumption DEF Init, FuncItems, SyntaxAssumption
<1>3. s.t = "block" /\ s.body = body /\ MadeOfParts(s)
  <2>1. s.t = "block" /\ s.body = body
    BY <1>1 DEF Block
  <2>2. QED BY <2>1, <1>2 DEF MadeOfParts
<1>4. e.op = "stmt" /\ e.s = s /\ e.deep = 0 /\ r.op = "ret" /\ r.arg = 0
  BY ONLY <1>1, HoleFields, InstrFields
<1>5. Row(code) /\ Len(code) = 2 /\ code[1] = e /\ code[2] = r
  BY ONLY <1>2, ShortRows
<1>6. Row(body)
  BY <1>2, RowOf
<1>7. Row(<< >>) /\ body \o << >> = body /\ Row(<<s>>) /\ <<s>> \o << >> = <<s>>
  <2>1. Row(<< >>) /\ body \o << >> = body
    BY <1>6, RowEmpty
  <2>2. Row(<<s>>)
    BY ShortRows
  <2>3. QED BY <2>1, <2>2, RowEmpty
<1>8. PICK a, b : /\ a = Note(0, << >>, "start", <<s>>, << >>)
                  /\ b = Note(0, << >>, "start", << >>, << >>)
  OBVIOUS
<1>9. /\ a.frames = 0 /\ a.held = << >> /\ a.at = "start" /\ a.yes = <<s>> /\ a.no = << >>
      /\ b.frames = 0 /\ b.held = << >> /\ b.at = "start" /\ b.yes = << >> /\ b.no = << >>
  BY ONLY <1>8 DEF Note
<1>10. << >> \in Seq(Truths)
  OBVIOUS
<1>11. IsNote(a) /\ IsNote(b)
  BY <1>7, <1>9, <1>10 DEF IsNote
<1>12. Stands(e, a) /\ Linked(e, a, b)
  <2>1. Same(a.yes, <<e.s>> \o b.yes)
    BY <1>4, <1>7, <1>9, SameRefl
  <2>2. QED BY <2>1, <1>3, <1>4, <1>9 DEF Stands, Linked, Plain
<1>13. Stands(r, b)
  <2>1. Settled(<< >>) /\ NextEvent(<< >>) = <<"return">>
    BY DEF Settled, NextEvent
  <2>2. Returns(b.yes)
    BY <2>1, <1>9, SameRefl DEF Returns
  <2>3. QED BY <2>2, <1>4, <1>9 DEF Stands, Plain
<1>14. PICK N : N = <<a, b>>
  OBVIOUS
<1>15. Row(N) /\ Len(N) = 2 /\ N[1] = a /\ N[2] = b
  BY ONLY <1>14, ShortRows
<1>16. Marked(code, N)
  <2>1. \A i \in 1 .. 2 : code[i].op \in Ops /\ IsNote(N[i]) /\ Stands(code[i], N[i])
    <3>1. code[1].op \in Ops /\ code[2].op \in Ops
      BY <1>4, <1>5 DEF Ops
    <3>2. \A i \in 1 .. 2 : i = 1 \/ i = 2
      OBVIOUS
    <3>3. QED BY ONLY <3>1, <3>2, <1>5, <1>11, <1>12, <1>13, <1>15
  <2>2. \A i \in 1 .. 2 - 1 : Linked(code[i], N[i], N[i + 1])
    <3>1. \A i \in 1 .. 2 - 1 : i = 1 /\ i + 1 = 2
      OBVIOUS
    <3>2. QED BY ONLY <3>1, <1>5, <1>12, <1>15
  <2>3. \A i \in 1 .. 2 : code[i].op \notin Jumps
    <3>1. \A i \in 1 .. 2 : i = 1 \/ i = 2
      OBVIOUS
    <3>2. QED BY <3>1, <1>4, <1>5 DEF Jumps
  <2>4. QED BY <2>1, <2>2, <2>3, <1>5, <1>15 DEF Marked
<1>17. Labelled(code, 0, 0)
  <2>1. \A i \in 1 .. 2 : code[i].op \notin Jumps \cup {"label"}
    <3>1. \A i \in 1 .. 2 : i = 1 \/ i = 2
      OBVIOUS
    <3>2. QED BY <3>1, <1>4, <1>5 DEF Jumps
  <2>2. ~\E l : l \in 0 .. 0 - 1
    OBVIOUS
  <2>3. QED BY <2>1, <2>2, <1>5 DEF Labelled
<1>18. Reached(N[1], frames, regs, zf, todo)
  <2>1. Same(a.yes, todo)
    <3>1. Same(<<s>> \o << >>, body \o << >>)
      BY <1>3, <1>7, SameStatement
    <3>2. QED BY <3>1, <1>2, <1>7, <1>9
  <2>2. Len(a.held) = 0 /\ Len(regs) = 0
    BY <1>2, <1>9
  <2>3. Agrees(a, regs, zf, todo)
    BY <2>1, <2>2, <1>9 DEF Agrees
  <2>4. QED BY <2>2, <2>3, <1>2, <1>9, <1>15 DEF Reached
<1>19. pc \in 1 .. Len(code) /\ (~Generated => pc = 1) /\ code[Len(code)].op = "ret"
  BY <1>2, <1>4, <1>5
<1>20. \E M : Marked(code, M) /\ Reached(M[pc], frames, regs, zf, todo)
  BY <1>2, <1>16, <1>18
<1>21. regs \in Seq(SUBSET Bits) /\ zf \in BOOLEAN /\ frames \in Nat /\ label \in Nat /\ lit \in Nat
  <2>1. << >> \in Seq(SUBSET Bits) /\ FALSE \in BOOLEAN /\ 0 \in Nat
    OBVIOUS
  <2>2. zf \in BOOLEAN
    BY <1>2, <2>1
  <2>3. QED BY <1>2, <2>1, <2>2
<1>22. QED
  BY <1>2, <1>17, <1>19, <1>20, <1>21 DEF FlowInv

-----------------------------------------------------------------------------
(* Every step of the machine and of the source keeps it.                   *)

\* The place where a step begins.
LEMMA PlaceNotes ==
    ASSUME FlowInv, Generated, NEW N, Marked(code, N)
    PROVE  /\ Len(code) \in Nat /\ DOMAIN code = 1 .. Len(code)
           /\ Here.op \in Ops \ {"stmt", "cond"} /\ IsNote(N[pc]) /\ Stands(Here, N[pc])
           /\ Here.op # "ret" =>
                /\ pc + 1 \in 1 .. Len(code)
                /\ IsNote(N[pc + 1]) /\ Linked(Here, N[pc], N[pc + 1])
<1>1. Len(code) \in Nat /\ DOMAIN code = 1 .. Len(code)
  BY RowFacts DEF Marked
<1>2. pc \in 1 .. Len(code) /\ code[Len(code)].op = "ret"
  BY DEF FlowInv
<1>3. Here.op \in Ops /\ IsNote(N[pc]) /\ Stands(Here, N[pc])
  BY <1>2 DEF Marked, Here
<1>4. Here.op \notin {"stmt", "cond"}
  BY <1>1, <1>2 DEF Generated, Pending, Here
<1>5. ASSUME Here.op # "ret"
      PROVE  /\ pc + 1 \in 1 .. Len(code)
             /\ IsNote(N[pc + 1]) /\ Linked(Here, N[pc], N[pc + 1])
  <2>1. pc # Len(code)
    BY <1>2, <1>5 DEF Here
  <2>2. pc \in 1 .. Len(code) - 1 /\ pc + 1 \in 1 .. Len(code)
    <3>1. Len(code) \in Nat /\ pc \in 1 .. Len(code)
      BY <1>1, <1>2
    <3>2. QED BY ONLY <2>1, <3>1
  <2>3. QED BY <2>2 DEF Marked, Here
<1>6. QED
  BY <1>1, <1>3, <1>4, <1>5

\* A step of the machine to a place whose note holds keeps the invariant.
LEMMA StepKeeps ==
    ASSUME FlowInv, Generated, NEW N, Marked(code, N), NEW i \in 1 .. Len(code), Goto(i),
           regs' \in Seq(SUBSET Bits), zf' \in BOOLEAN, frames' \in Nat,
           Reached(N[i], frames', regs', zf', todo')
    PROVE  FlowInv'
<1>1. UNCHANGED <<code, label, lit>> /\ pc' = i
  BY DEF Goto
<1>2. Generated'
  BY <1>1 DEF Generated, Pending
<1>3. \E M : Marked(code', M) /\ Reached(M[pc'], frames', regs', zf', todo')
  BY <1>1
<1>4. /\ label' \in Nat /\ lit' \in Nat /\ pc' \in 1 .. Len(code')
      /\ code'[Len(code')].op = "ret" /\ Labelled(code', 0, label')
  BY <1>1 DEF FlowInv
<1>5. QED
  BY <1>2, <1>3, <1>4 DEF FlowInv

\* A register gets a value.
LEMMA AssignedRegs ==
    ASSUME NEW rs \in Seq(SUBSET Bits), NEW d \in Nat, d <= Len(rs), NEW v \in SUBSET Bits,
           NEW q, q = Append(SubSeq(rs, 1, d), v)
    PROVE  /\ q \in Seq(SUBSET Bits) /\ Len(q) = d + 1 /\ q[d + 1] = v
           /\ \A i \in 1 .. d : q[i] = rs[i]
<1>1. PICK T : T = SUBSET Bits
  OBVIOUS
<1>2. PICK p : p = SubSeq(rs, 1, d)
  OBVIOUS
<1>3. rs \in Seq(T) /\ v \in T
  BY <1>1
<1>4. p \in Seq(T) /\ Len(p) = d /\ \A i \in 1 .. d : p[i] = rs[i]
  <2>1. 1 \in 1 .. Len(rs) + 1 /\ d \in 0 .. Len(rs) /\ Len(rs) \in Nat
    BY <1>3
  <2>2. Row(rs)
    BY <1>3, RowOf
  <2>3. Row(p) /\ Len(p) = d + 1 - 1 /\ \A i \in 1 .. d + 1 - 1 : p[i] = rs[1 + i - 1]
    BY <2>1, <2>2, <1>2, RowPart
  <2>4. Len(p) = d /\ \A i \in 1 .. d : p[i] = rs[i]
    BY <2>3
  <2>5. \A i \in 1 .. d : rs[i] \in T
    BY <2>1, <1>3
  <2>6. p \in [1 .. d -> T]
    <3>1. p = [i \in 1 .. Len(p) |-> p[i]]
      BY ONLY <2>3, RowFacts
    <3>2. QED BY <3>1, <2>4, <2>5
  <2>7. QED BY <2>4, <2>6
<1>5. q = Append(p, v)
  BY <1>2
<1>6. q \in Seq(T) /\ Len(q) = d + 1 /\ q[d + 1] = v /\ \A i \in 1 .. d : q[i] = p[i]
  BY ONLY <1>3, <1>4, <1>5
<1>7. QED
  BY <1>1, <1>4, <1>6

\* The machine's steps, one action each.
LEMMA DoActKeeps ==
    ASSUME FlowInv, Generated, Settled(todo), DoAct
    PROVE  FlowInv'
<1>1. PICK N : Marked(code, N) /\ Reached(N[pc], frames, regs, zf, todo)
  BY DEF FlowInv
<1>2. PICK a, b : a = N[pc] /\ b = N[pc + 1]
  OBVIOUS
<1>3. /\ Here.op = "act" /\ Goto(pc + 1) /\ todo' = Tail(todo)
      /\ regs' = regs /\ zf' = zf /\ frames' = frames
  BY DEF DoAct, AfterAct
<1>4. pc + 1 \in 1 .. Len(code) /\ IsNote(b) /\ Stands(Here, a) /\ Linked(Here, a, b)
  BY <1>1, <1>2, <1>3, PlaceNotes
<1>5. Plain(a) /\ Plain(b) /\ b.frames = a.frames
  BY <1>3, <1>4 DEF Stands, Linked
<1>6. PICK s : s.t = "act" /\ Same(a.yes, <<s>> \o b.yes)
  BY <1>3, <1>4 DEF Linked
<1>7. Truthful => Same(b.yes, todo')
  <2>1. ASSUME Truthful PROVE Same(b.yes, todo')
    <3>1. Same(a.yes, todo)
      BY <1>1, <1>2, <1>5, <2>1 DEF Reached, Agrees, Plain
    <3>2. Same(todo, <<s>> \o b.yes)
      BY <3>1, <1>6, SameSym, SameTrans
    <3>3. IsEvent(s) /\ Row(b.yes)
      BY <1>4, <1>6 DEF IsEvent, IsNote
    <3>4. Tail(todo) = b.yes
      BY <3>2, <3>3, SameEvent
    <3>5. QED BY <3>4, <1>3, SameRefl
  <2>2. QED BY <2>1
<1>8. Reached(b, frames', regs', zf', todo')
  <2>1. regs \in Seq(SUBSET Bits) /\ frames = a.frames
    BY <1>1, <1>2 DEF FlowInv, Reached
  <2>2. Len(b.held) = 0 /\ Len(regs') >= 0 /\ b.at = "start"
    BY <2>1, <1>3, <1>5 DEF Plain
  <2>3. Truthful => Agrees(b, regs', zf', todo')
    BY <2>2, <1>7 DEF Agrees
  <2>4. QED BY <2>1, <2>2, <2>3, <1>3, <1>5 DEF Reached
<1>9. regs' \in Seq(SUBSET Bits) /\ zf' \in BOOLEAN /\ frames' \in Nat
  BY <1>3 DEF FlowInv
<1>10. QED
  BY <1>1, <1>2, <1>3, <1>4, <1>8, <1>9, StepKeeps

LEMMA DoAtomKeeps ==
    ASSUME FlowInv, Generated, Settled(todo), DoAtom
    PROVE  FlowInv'
<1>1. PICK N : Marked(code, N) /\ Reached(N[pc], frames, regs, zf, todo)
  BY DEF FlowInv
<1>2. PICK a, b, d : a = N[pc] /\ b = N[pc + 1] /\ d = Here.arg
  OBVIOUS
<1>3. /\ Here.op = "atom" /\ Goto(pc + 1) /\ zf' = zf /\ frames' = frames
  BY DEF DoAtom
<1>4. PICK v \in Vals : regs' = Append(SubSeq(regs, 1, d), v) /\ todo' = AfterAtom(todo, v # {})
  BY <1>2 DEF DoAtom, Assign
<1>5. pc + 1 \in 1 .. Len(code) /\ IsNote(a) /\ IsNote(b) /\ Stands(Here, a) /\ Linked(Here, a, b)
  BY <1>1, <1>2, <1>3, PlaceNotes
<1>6. a.at = "start" /\ Len(a.held) = d /\ d \in Nat
  <2>1. a.at = "start" /\ Len(a.held) = d
    BY <1>2, <1>3, <1>5 DEF Stands
  <2>2. QED BY <2>1, <1>5 DEF IsNote
<1>7. PICK c : c.t = "atom" /\ Tests(c, a, b)
  BY <1>3, <1>5 DEF Linked
<1>8. PICK y, n, k :
        /\ Row(y) /\ Row(n) /\ Row(k)
        /\ Same(a.yes, <<Branch(c, y, n)>> \o k)
        /\ Same(b.yes, y \o k) /\ Same(b.no, n \o k)
  BY <1>7 DEF Tests
<1>9. b.at = "value" /\ b.frames = a.frames /\ b.held = a.held
  BY <1>7 DEF Tests
<1>10. regs \in Seq(SUBSET Bits) /\ d <= Len(regs) /\ v \in SUBSET Bits /\ frames = a.frames
  BY <1>1, <1>2, <1>6, ValsAssumption DEF FlowInv, Reached, ValsAssumption
<1>11. /\ regs' \in Seq(SUBSET Bits) /\ Len(regs') = d + 1 /\ regs'[d + 1] = v
       /\ \A i \in 1 .. d : regs'[i] = regs[i]
  BY ONLY <1>4, <1>6, <1>10, AssignedRegs
<1>12. ASSUME Truthful PROVE Agrees(b, regs', zf', todo')
  <2>1. Same(a.yes, todo) /\ \A i \in 1 .. Len(a.held) : regs[i] = a.held[i]
    BY <1>1, <1>2, <1>6, <1>12 DEF Reached, Agrees
  <2>2. PICK s : s = Branch(c, y, n)
    OBVIOUS
  <2>3. s.t = "branch" /\ s.c = c /\ s.yes = y /\ s.no = n
    BY <2>2 DEF Branch
  <2>4. IsEvent(s) /\ Same(todo, <<s>> \o k)
    BY <2>1, <2>2, <2>3, <1>7, <1>8, SameSym, SameTrans DEF IsEvent
  <2>5. Head(todo) = s /\ Tail(todo) = k
    BY <2>4, <1>8, SameEvent
  <2>6. todo' = IF v # {} THEN y \o k ELSE n \o k
    BY <2>3, <2>5, <1>4 DEF AfterAtom
  <2>7. v \in Truths
    BY <1>12 DEF Truthful
  <2>8. /\ \A i \in 1 .. Len(b.held) : regs'[i] = b.held[i]
        /\ regs'[Len(b.held) + 1] = v
    BY <2>1, <1>6, <1>9, <1>11
  <2>9. (v # {} => Same(b.yes, todo')) /\ (v = {} => Same(b.no, todo'))
    BY <2>6, <1>8
  <2>10. QED BY <2>7, <2>8, <2>9, <1>9 DEF Agrees
<1>13. Reached(b, frames', regs', zf', todo')
  <2>1. Len(regs') >= Len(b.held) /\ Len(regs') >= Len(b.held) + 1
    BY <1>6, <1>9, <1>11
  <2>2. frames' = b.frames
    BY <1>3, <1>9, <1>10
  <2>3. QED BY <2>1, <2>2, <1>12 DEF Reached
<1>14. zf' \in BOOLEAN /\ frames' \in Nat
  BY <1>3 DEF FlowInv
<1>15. QED
  BY <1>1, <1>2, <1>3, <1>5, <1>11, <1>13, <1>14, StepKeeps

LEMMA DoLogicKeeps ==
    ASSUME FlowInv, Generated, Settled(todo), DoLogic
    PROVE  FlowInv'
<1>1. PICK N : Marked(code, N) /\ Reached(N[pc], frames, regs, zf, todo)
  BY DEF FlowInv
<1>2. PICK a, b, d : a = N[pc] /\ b = N[pc + 1] /\ d = Here.arg
  OBVIOUS
<1>3. /\ Here.op \in {"and", "or", "mask", "setne"} /\ Goto(pc + 1)
      /\ zf' = zf /\ frames' = frames /\ todo' = todo
  BY DEF DoLogic
<1>4. PICK v : /\ d \in Nat /\ regs' = Append(SubSeq(regs, 1, d), v)
               /\ Here.op = "and" => v = regs[d + 1] \cap regs[d + 2]
               /\ Here.op = "or" => v = regs[d + 1] \cup regs[d + 2]
               /\ Here.op = "mask" => v = LowByte(regs[d + 1])
               /\ Here.op = "setne" => v = (regs[d + 1] \ LowByte(regs[d + 1]))
                                             \cup (IF regs[d + 1] # {} THEN {0} ELSE {})
  <2>1. PICK w : w = CASE Here.op = "and"    -> regs[d + 1] \cap regs[(d + 1) + 1]
                       [] Here.op = "or"     -> regs[d + 1] \cup regs[(d + 1) + 1]
                       [] Here.op = "mask" -> LowByte(regs[d + 1])
                       [] Here.op = "setne"  -> (regs[d + 1] \ LowByte(regs[d + 1]))
                                                  \cup (IF regs[d + 1] # {} THEN {0} ELSE {})
    OBVIOUS
  <2>2. regs' = Append(SubSeq(regs, 1, d), w)
    BY <2>1, <1>2 DEF DoLogic, Assign
  <2>3. d \in Nat
    <3>1. IsNote(a) /\ Stands(Here, a)
      BY <1>1, <1>2, PlaceNotes
    <3>2. CASE Here.op \in {"and", "or"}
      BY <3>1, <3>2, <1>2 DEF Stands
    <3>3. CASE Here.op \in {"mask", "setne"}
      BY <3>1, <3>3, <1>2 DEF IsNote, Stands
    <3>4. QED BY <3>2, <3>3, <1>3
  <2>4. (d + 1) + 1 = d + 2
    BY <2>3
  <2>5. Here.op = "and" => w = regs[d + 1] \cap regs[d + 2]
    BY ONLY <2>1, <2>4
  <2>6. Here.op = "or" => w = regs[d + 1] \cup regs[d + 2]
    BY ONLY <2>1, <2>4
  <2>7. Here.op = "mask" => w = LowByte(regs[d + 1])
    BY ONLY <2>1
  <2>8. Here.op = "setne" => w = (regs[d + 1] \ LowByte(regs[d + 1]))
                                   \cup (IF regs[d + 1] # {} THEN {0} ELSE {})
    BY ONLY <2>1
  <2>9. QED BY ONLY <2>2, <2>3, <2>5, <2>6, <2>7, <2>8
<1>5. pc + 1 \in 1 .. Len(code) /\ IsNote(a) /\ IsNote(b) /\ Stands(Here, a) /\ Linked(Here, a, b)
  BY <1>1, <1>2, <1>3, PlaceNotes
<1>6. PICK m : m = Len(a.held)
  OBVIOUS
<1>7. /\ a.at = "value" /\ b.at = "value" /\ Continues(a, b) /\ Len(b.held) = d /\ d \in Nat /\ m \in Nat
      /\ m = IF Here.op \in {"and", "or"} THEN d + 1 ELSE d
      /\ \A i \in 1 .. d : b.held[i] = a.held[i]
      /\ Here.op = "and" => a.held[d + 1] = {0}
      /\ Here.op = "or" => a.held[d + 1] = {}
  <2>1. a.held \in Seq(Truths) /\ b.held \in Seq(Truths) /\ m \in Nat
    BY <1>5, <1>6 DEF IsNote
  <2>5. d \in Nat
    BY <1>2, <1>3, <1>4
  <2>2. CASE Here.op \in {"mask", "setne"}
    <3>1. a.at = "value" /\ m = d /\ b.held = a.held /\ b.at = "value" /\ Continues(a, b)
      BY <2>2, <1>2, <1>5, <1>6 DEF Stands, Linked
    <3>2. QED BY <3>1, <2>1, <2>2, <1>6
  <2>3. CASE Here.op \in {"and", "or"}
    <3>1. /\ a.at = "value" /\ m = d + 1 /\ b.at = "value" /\ Continues(a, b)
          /\ Here.op = "and" => a.held = Append(b.held, {0})
          /\ Here.op = "or" => a.held = Append(b.held, {})
      BY <2>3, <1>2, <1>5, <1>6 DEF Stands, Linked
    <3>2. PICK x : a.held = Append(b.held, x) /\ (Here.op = "and" => x = {0}) /\ (Here.op = "or" => x = {})
      BY <2>3, <3>1
    <3>3. Len(a.held) = Len(b.held) + 1 /\ Len(b.held) \in Nat
      BY <2>1, <3>2
    <3>4. Len(b.held) = d
      BY <2>5, <3>1, <3>3, <1>6
    <3>5. a.held[d + 1] = x /\ \A i \in 1 .. d : b.held[i] = a.held[i]
      BY <2>1, <2>5, <3>2, <3>4
    <3>6. QED BY <2>1, <2>3, <2>5, <3>1, <3>2, <3>4, <3>5
  <2>4. QED BY <2>2, <2>3, <1>3
<1>8. /\ regs \in Seq(SUBSET Bits) /\ Len(regs) >= m + 1 /\ Len(regs) \in Nat /\ frames = a.frames
  BY <1>1, <1>2, <1>6, <1>7 DEF FlowInv, Reached
<1>9. v \in SUBSET Bits /\ d <= Len(regs)
  <2>1. regs[d + 1] \in SUBSET Bits /\ (Here.op \in {"and", "or"} => regs[d + 2] \in SUBSET Bits)
    <3>1. \A i \in 1 .. Len(regs) : regs[i] \in SUBSET Bits
      BY <1>8
    <3>2. d + 1 \in 1 .. Len(regs) /\ (Here.op \in {"and", "or"} => d + 2 \in 1 .. Len(regs))
      BY <1>7, <1>8
    <3>3. QED BY ONLY <3>1, <3>2
  <2>2. 0 \in Bits
    BY DEF Bits
  <2>3. QED BY <2>1, <2>2, <1>3, <1>4, <1>7, <1>8 DEF LowByte
<1>10. /\ regs' \in Seq(SUBSET Bits) /\ Len(regs') = d + 1 /\ regs'[d + 1] = v
       /\ \A i \in 1 .. d : regs'[i] = regs[i]
  BY ONLY <1>4, <1>7, <1>8, <1>9, AssignedRegs
<1>11. ASSUME Truthful PROVE Agrees(b, regs', zf', todo')
  <2>1. /\ \A i \in 1 .. m : regs[i] = a.held[i]
        /\ regs[m + 1] \in Truths
        /\ regs[m + 1] # {} => Same(a.yes, todo)
        /\ regs[m + 1] = {} => Same(a.no, todo)
    BY <1>1, <1>2, <1>6, <1>7, <1>11 DEF Reached, Agrees
  <2>2. v = regs[m + 1]
    <3>1. CASE Here.op = "and"
      <4>1. m = d + 1 /\ d + 1 \in 1 .. m /\ m + 1 = d + 2
        BY <3>1, <1>7
      <4>2. regs[d + 1] = {0} /\ v = regs[d + 1] \cap regs[d + 2] /\ regs[d + 2] \in Truths
        BY <4>1, <2>1, <3>1, <1>4, <1>7
      <4>3. QED BY <4>1, <4>2 DEF Truths
    <3>2. CASE Here.op = "or"
      <4>1. m = d + 1 /\ d + 1 \in 1 .. m /\ m + 1 = d + 2
        BY <3>2, <1>7
      <4>2. regs[d + 1] = {} /\ v = regs[d + 1] \cup regs[d + 2] /\ regs[d + 2] \in Truths
        BY <4>1, <2>1, <3>2, <1>4, <1>7
      <4>3. QED BY <4>1, <4>2 DEF Truths
    <3>3. CASE Here.op \in {"mask", "setne"}
      <4>1. m = d /\ regs[d + 1] \in Truths
        BY <3>3, <2>1, <1>7
      <4>2. \A w \in Truths : LowByte(w) = w
        BY DEF Truths, LowByte
      <4>3. \A w \in Truths : (w \ w) \cup (IF w # {} THEN {0} ELSE {}) = w
        BY DEF Truths
      <4>4. QED BY <4>1, <4>2, <4>3, <3>3, <1>4
    <3>4. QED BY <3>1, <3>2, <3>3, <1>3
  <2>3. \A i \in 1 .. Len(b.held) : regs'[i] = b.held[i]
    <3>1. \A i \in 1 .. d : i \in 1 .. m
      BY <1>7
    <3>2. QED BY <3>1, <2>1, <1>7, <1>10
  <2>4. regs'[Len(b.held) + 1] = regs[m + 1]
    BY <2>2, <1>7, <1>10
  <2>5. /\ regs[m + 1] # {} => Same(b.yes, todo')
        /\ regs[m + 1] = {} => Same(b.no, todo')
    BY <2>1, <1>3, <1>7, SameSym, SameTrans DEF Continues
  <2>6. QED BY <2>1, <2>3, <2>4, <2>5, <1>7 DEF Agrees
<1>12. Reached(b, frames', regs', zf', todo')
  <2>1. Len(regs') >= Len(b.held) /\ Len(regs') >= Len(b.held) + 1
    BY <1>7, <1>10
  <2>2. frames' = b.frames
    BY <1>3, <1>7, <1>8 DEF Continues
  <2>3. QED BY <2>1, <2>2, <1>11 DEF Reached
<1>13. zf' \in BOOLEAN /\ frames' \in Nat
  BY <1>3 DEF FlowInv
<1>14. QED
  BY <1>1, <1>2, <1>3, <1>5, <1>10, <1>12, <1>13, StepKeeps

LEMMA DoCmpKeeps ==
    ASSUME FlowInv, Generated, Settled(todo), DoCmp
    PROVE  FlowInv'
<1>1. PICK N : Marked(code, N) /\ Reached(N[pc], frames, regs, zf, todo)
  BY DEF FlowInv
<1>2. PICK a, b, d : a = N[pc] /\ b = N[pc + 1] /\ d = Here.arg
  OBVIOUS
<1>3. /\ Here.op = "cmp" /\ Goto(pc + 1) /\ regs' = regs
      /\ zf' = (regs[d + 1] = {}) /\ frames' = frames /\ todo' = todo
  BY <1>2 DEF DoCmp
<1>4. pc + 1 \in 1 .. Len(code) /\ Stands(Here, a) /\ Linked(Here, a, b)
  BY <1>1, <1>2, <1>3, PlaceNotes
<1>5. a.at = "value" /\ Len(a.held) = d /\ Continues(a, b) /\ b.held = a.held /\ b.at = "tested"
  BY <1>2, <1>3, <1>4 DEF Stands, Linked
<1>6. ASSUME Truthful PROVE Agrees(b, regs', zf', todo')
  <2>1. /\ \A i \in 1 .. Len(a.held) : regs[i] = a.held[i]
        /\ regs[d + 1] \in Truths
        /\ regs[d + 1] # {} => Same(a.yes, todo)
        /\ regs[d + 1] = {} => Same(a.no, todo)
    BY <1>1, <1>2, <1>5, <1>6 DEF Reached, Agrees
  <2>2. /\ regs[d + 1] # {} => Same(b.yes, todo)
        /\ regs[d + 1] = {} => Same(b.no, todo)
    BY <2>1, <1>5, SameSym, SameTrans DEF Continues
  <2>3. QED BY <2>1, <2>2, <1>3, <1>5 DEF Agrees
<1>7. Reached(b, frames', regs', zf', todo')
  <2>1. Len(regs) >= Len(a.held) /\ Len(regs) >= Len(a.held) + 1 /\ frames = a.frames
    BY <1>1, <1>2, <1>5 DEF Reached
  <2>2. QED BY <2>1, <1>3, <1>5, <1>6 DEF Reached, Continues
<1>8. regs' \in Seq(SUBSET Bits) /\ frames' \in Nat
  BY <1>3 DEF FlowInv
<1>9. zf' \in BOOLEAN
  BY <1>3
<1>10. QED
  BY <1>1, <1>2, <1>3, <1>4, <1>7, <1>8, <1>9, StepKeeps

\* One more operand is held.
LEMMA HeldMore ==
    ASSUME NEW held \in Seq(Truths), NEW x
    PROVE  /\ Len(Append(held, x)) = Len(held) + 1 /\ Len(held) \in Nat
           /\ Append(held, x)[Len(held) + 1] = x
           /\ \A i \in 1 .. Len(held) : Append(held, x)[i] = held[i]
OBVIOUS

\* The registers hold it too, when the next one has its value.
Holds(rs, held) == \A i \in 1 .. Len(held) : rs[i] = held[i]
LEMMA HeldToo ==
    ASSUME NEW held \in Seq(Truths), NEW x, NEW rs,
           Holds(rs, held), rs[Len(held) + 1] = x
    PROVE  Holds(rs, Append(held, x))
<1>1. PICK m, more : m = Len(held) /\ more = Append(held, x)
  OBVIOUS
<1>2. Len(more) = m + 1 /\ m \in Nat /\ more[m + 1] = x /\ \A i \in 1 .. m : more[i] = held[i]
  BY <1>1, HeldMore
<1>3. \A i \in 1 .. m : rs[i] = held[i]
  BY <1>1 DEF Holds
<1>4. \A i \in 1 .. m + 1 : i \in 1 .. m \/ i = m + 1
  BY <1>2
<1>5. rs[m + 1] = x
  BY <1>1
<1>6. \A i \in 1 .. m + 1 : rs[i] = more[i]
  BY ONLY <1>2, <1>3, <1>4, <1>5
<1>7. QED
  BY ONLY <1>1, <1>2, <1>6 DEF Holds

\* Every label that a jump names is there.
LEMMA TargetIsLabel ==
    ASSUME FlowInv, Row(code), NEW l \in 0 .. label - 1
    PROVE  Target(l) \in 1 .. Len(code) /\ code[Target(l)] = Instr("label", l)
<1>1. \E i \in 1 .. Len(code) : code[i] = Instr("label", l)
  BY DEF FlowInv, Labelled
<1>2. DOMAIN code = 1 .. Len(code)
  BY RowFacts
<1>3. QED
  BY <1>1, <1>2 DEF Target

LEMMA DoJumpKeeps ==
    ASSUME FlowInv, Generated, Settled(todo), DoJump
    PROVE  FlowInv'
<1>1. PICK N : Marked(code, N) /\ Reached(N[pc], frames, regs, zf, todo)
  BY DEF FlowInv
<1>2. PICK a, b, t : a = N[pc] /\ b = N[pc + 1] /\ t = Target(Here.arg)
  OBVIOUS
<1>3. /\ Here.op \in {"jmp", "je", "jne", "label"} /\ Goto(IF Taken THEN t ELSE pc + 1)
      /\ regs' = regs /\ zf' = zf /\ frames' = frames /\ todo' = todo
  BY <1>2 DEF DoJump
<1>4. pc + 1 \in 1 .. Len(code) /\ Stands(Here, a) /\ Linked(Here, a, b) /\ IsNote(a)
  BY <1>1, <1>2, <1>3, PlaceNotes
<1>5. regs' \in Seq(SUBSET Bits) /\ zf' \in BOOLEAN /\ frames' \in Nat
  BY <1>3 DEF FlowInv
<1>6. /\ frames = a.frames /\ Len(regs) >= Len(a.held) /\ (a.at # "start" => Len(regs) >= Len(a.held) + 1)
      /\ Truthful => Agrees(a, regs, zf, todo)
  BY <1>1, <1>2 DEF Reached
<1>7. CASE Taken
  <2>1. Here.op \in Jumps /\ pc \in 1 .. Len(code)
    BY <1>7 DEF Taken, Jumps, FlowInv
  <2>2. Here.arg \in 0 .. label - 1 /\ Row(code)
    BY <2>1, <1>1 DEF FlowInv, Labelled, Marked, Here
  <2>3. t \in 1 .. Len(code) /\ code[t] = Instr("label", Here.arg)
    BY <2>2, <1>2, TargetIsLabel
  <2>4. Lands(Here, a, N[t])
    BY <2>1, <2>3, <1>1, <1>2 DEF Marked, Here
  <2>5. PICK c : c = N[t]
    OBVIOUS
  <2>6. c.frames = a.frames /\ c.held = a.held
    BY <2>4, <2>5 DEF Lands
  <2>7. ASSUME Here.op = "jmp"
        PROVE  Reached(c, frames, regs, zf, todo)
    <3>1. a.at = "start" /\ c.at = "start" /\ Same(a.yes, c.yes)
      BY <2>4, <2>5, <2>7, <1>4 DEF Stands, Lands, Plain
    <3>2. Truthful => Agrees(c, regs, zf, todo)
      BY <3>1, <2>6, <1>6, SameSym, SameTrans DEF Agrees
    <3>3. QED BY <3>1, <3>2, <2>6, <1>6 DEF Reached
  <2>8. ASSUME Here.op = "je"
        PROVE  Reached(c, frames, regs, zf, todo)
    <3>1. /\ a.at = "tested" /\ zf = TRUE
          /\ \/ c.at = "start" /\ Same(a.no, c.yes)
             \/ c.at = "value" /\ Same(a.no, c.no)
      BY <2>4, <2>5, <2>8, <1>4, <1>7 DEF Stands, Lands, Taken, FlowInv
    <3>2. ASSUME Truthful PROVE Agrees(c, regs, zf, todo)
      <4>1. Agrees(a, regs, zf, todo)
        BY <3>2, <1>6
      <4>2. /\ \A i \in 1 .. Len(a.held) : regs[i] = a.held[i]
            /\ regs[Len(a.held) + 1] \in Truths
            /\ regs[Len(a.held) + 1] = {} => Same(a.no, todo)
            /\ zf = (regs[Len(a.held) + 1] = {})
        BY <3>1, <4>1 DEF Agrees
      <4>3. regs[Len(a.held) + 1] = {}
        BY ONLY <3>1, <4>2
      <4>4. Same(a.no, todo)
        BY <4>2, <4>3
      <4>5. CASE c.at = "start"
        <5>1. Same(c.yes, todo)
          BY <3>1, <4>4, <4>5, SameSym, SameTrans
        <5>2. QED BY <5>1, <4>2, <4>5, <2>6 DEF Agrees
      <4>6. CASE c.at = "value"
        <5>1. Same(c.no, todo)
          BY <3>1, <4>4, <4>6, SameSym, SameTrans
        <5>2. QED BY <5>1, <4>2, <4>3, <4>6, <2>6 DEF Agrees
      <4>7. QED BY <3>1, <4>5, <4>6
    <3>3. QED BY <3>1, <3>2, <2>6, <1>6 DEF Reached
  <2>9. ASSUME Here.op = "jne"
        PROVE  Reached(c, frames, regs, zf, todo)
    <3>1. a.at = "tested" /\ ~zf /\ c.at = "value" /\ Same(a.yes, c.yes)
      BY <2>4, <2>5, <2>9, <1>4, <1>7 DEF Stands, Lands, Taken
    <3>2. ASSUME Truthful PROVE Agrees(c, regs, zf, todo)
      <4>1. Agrees(a, regs, zf, todo)
        BY <3>2, <1>6
      <4>2. /\ \A i \in 1 .. Len(a.held) : regs[i] = a.held[i]
            /\ regs[Len(a.held) + 1] \in Truths
            /\ regs[Len(a.held) + 1] # {} => Same(a.yes, todo)
            /\ zf = (regs[Len(a.held) + 1] = {})
        BY <3>1, <4>1 DEF Agrees
      <4>3. regs[Len(a.held) + 1] # {}
        BY ONLY <3>1, <4>2
      <4>4. Same(c.yes, todo)
        BY <3>1, <4>2, <4>3, SameSym, SameTrans
      <4>5. QED BY <3>1, <4>2, <4>3, <4>4, <2>6 DEF Agrees
    <3>3. QED BY <3>1, <3>2, <2>6, <1>6 DEF Reached
  <2>10. Reached(c, frames, regs, zf, todo)
    BY <2>1, <2>7, <2>8, <2>9 DEF Jumps
  <2>11. Goto(t) /\ Reached(N[t], frames', regs', zf', todo')
    BY <2>5, <2>10, <1>3, <1>7
  <2>12. QED BY <2>3, <2>11, <1>1, <1>5, StepKeeps
<1>8. CASE ~Taken
  <2>1. ASSUME Here.op = "label"
        PROVE  Reached(b, frames, regs, zf, todo)
    <3>1. Continues(a, b) /\ b.held = a.held /\ b.at = a.at /\ a.at # "tested"
      BY <2>1, <1>4 DEF Stands, Linked
    <3>2. Truthful => Agrees(b, regs, zf, todo)
      BY <3>1, <1>6, SameSym, SameTrans DEF Agrees, Continues
    <3>3. QED BY <3>1, <3>2, <1>6 DEF Reached, Continues
  <2>2. ASSUME Here.op = "je"
        PROVE  Reached(b, frames, regs, zf, todo)
    <3>1. /\ a.at = "tested" /\ ~zf /\ b.at = "start" /\ b.frames = a.frames /\ Same(a.yes, b.yes)
          /\ b.held = a.held \/ b.held = Append(a.held, {0})
      BY <2>2, <1>4, <1>8 DEF Stands, Linked, Taken
    <3>2. a.held \in Seq(Truths)
      BY <1>4 DEF IsNote
    <3>3. ASSUME Truthful PROVE Agrees(b, regs, zf, todo)
      <4>1. Agrees(a, regs, zf, todo)
        BY <3>3, <1>6
      <4>2. /\ \A i \in 1 .. Len(a.held) : regs[i] = a.held[i]
            /\ regs[Len(a.held) + 1] \in Truths
            /\ regs[Len(a.held) + 1] # {} => Same(a.yes, todo)
            /\ zf = (regs[Len(a.held) + 1] = {})
        BY <3>1, <4>1 DEF Agrees
      <4>3. regs[Len(a.held) + 1] # {}
        BY ONLY <3>1, <4>2
      <4>4. regs[Len(a.held) + 1] = {0}
        BY <4>2, <4>3 DEF Truths
      <4>5. Same(b.yes, todo)
        BY <3>1, <4>2, <4>3, SameSym, SameTrans
      <4>6. \A i \in 1 .. Len(b.held) : regs[i] = b.held[i]
        <5>1. CASE b.held = Append(a.held, {0})
          <6>1. Holds(regs, a.held)
            BY ONLY <4>2 DEF Holds
          <6>2. regs[Len(a.held) + 1] = {0}
            BY ONLY <4>4
          <6>3. Holds(regs, b.held)
            BY ONLY <3>2, <5>1, <6>1, <6>2, HeldToo
          <6>4. QED BY ONLY <6>3 DEF Holds
        <5>2. CASE b.held = a.held
          BY ONLY <5>2, <4>2
        <5>3. QED BY ONLY <3>1, <5>1, <5>2
      <4>7. QED BY <3>1, <4>5, <4>6 DEF Agrees
    <3>4. Len(regs) >= Len(b.held)
      BY ONLY <3>1, <3>2, <1>6, HeldMore
    <3>5. QED BY <3>1, <3>3, <3>4, <1>6 DEF Reached
  <2>3. ASSUME Here.op = "jne"
        PROVE  Reached(b, frames, regs, zf, todo)
    <3>1. /\ a.at = "tested" /\ zf /\ b.at = "start" /\ b.frames = a.frames /\ Same(a.no, b.yes)
          /\ b.held = Append(a.held, {})
      BY <2>3, <1>4, <1>8 DEF Stands, Linked, Taken
    <3>2. a.held \in Seq(Truths)
      BY <1>4 DEF IsNote
    <3>3. ASSUME Truthful PROVE Agrees(b, regs, zf, todo)
      <4>1. Agrees(a, regs, zf, todo)
        BY <3>3, <1>6
      <4>2. /\ \A i \in 1 .. Len(a.held) : regs[i] = a.held[i]
            /\ regs[Len(a.held) + 1] = {} => Same(a.no, todo)
            /\ zf = (regs[Len(a.held) + 1] = {})
        BY <3>1, <4>1 DEF Agrees
      <4>3. regs[Len(a.held) + 1] = {}
        BY ONLY <3>1, <4>2
      <4>5. Same(b.yes, todo)
        BY <3>1, <4>2, <4>3, SameSym, SameTrans
      <4>6. \A i \in 1 .. Len(b.held) : regs[i] = b.held[i]
        <5>1. CASE b.held = Append(a.held, {})
          <6>1. Holds(regs, a.held)
            BY ONLY <4>2 DEF Holds
          <6>2. regs[Len(a.held) + 1] = {}
            BY ONLY <4>3
          <6>3. Holds(regs, b.held)
            BY ONLY <3>2, <5>1, <6>1, <6>2, HeldToo
          <6>4. QED BY ONLY <6>3 DEF Holds
        <5>2. CASE b.held = a.held
          BY ONLY <5>2, <4>2
        <5>3. QED BY ONLY <3>1, <5>1, <5>2
      <4>7. QED BY <3>1, <4>5, <4>6 DEF Agrees
    <3>4. Len(regs) >= Len(b.held)
      BY ONLY <3>1, <3>2, <1>6, HeldMore
    <3>5. QED BY <3>1, <3>3, <3>4, <1>6 DEF Reached
  <2>4. Here.op # "jmp"
    BY <1>8 DEF Taken
  <2>5. Reached(b, frames, regs, zf, todo)
    BY <2>1, <2>2, <2>3, <2>4, <1>3
  <2>6. Goto(pc + 1) /\ Reached(N[pc + 1], frames', regs', zf', todo')
    BY <2>5, <1>2, <1>3, <1>8
  <2>7. QED BY <2>6, <1>1, <1>4, <1>5, StepKeeps
<1>9. QED
  BY <1>7, <1>8

LEMMA DoFrameKeeps ==
    ASSUME FlowInv, Generated, Settled(todo), DoFrame
    PROVE  FlowInv'
<1>1. PICK N : Marked(code, N) /\ Reached(N[pc], frames, regs, zf, todo)
  BY DEF FlowInv
<1>2. PICK a, b : a = N[pc] /\ b = N[pc + 1]
  OBVIOUS
<1>3. /\ Here.op \in {"enter", "leave"} /\ Goto(pc + 1) /\ regs' = regs /\ zf' = zf /\ todo' = todo
      /\ frames' = IF Here.op = "enter" THEN frames + 1 ELSE frames - 1
  BY DEF DoFrame
<1>4. /\ pc + 1 \in 1 .. Len(code) /\ Stands(Here, a) /\ Linked(Here, a, b)
      /\ IsNote(a) /\ IsNote(b)
  BY <1>1, <1>2, <1>3, PlaceNotes
<1>5. /\ Plain(a) /\ Plain(b) /\ Same(a.yes, b.yes)
      /\ Here.op = "enter" => b.frames = a.frames + 1
      /\ Here.op = "leave" => a.frames = b.frames + 1
  BY <1>3, <1>4 DEF Stands, Linked
<1>6. frames = a.frames /\ a.frames \in Nat /\ b.frames \in Nat
  BY <1>1, <1>2, <1>4 DEF Reached, IsNote
<1>7. frames' = b.frames
  BY <1>3, <1>5, <1>6
<1>8. Truthful => Agrees(b, regs, zf, todo)
  <2>1. Truthful => Agrees(a, regs, zf, todo)
    BY <1>1, <1>2 DEF Reached
  <2>2. QED BY <2>1, <1>5, SameSym, SameTrans DEF Agrees, Plain
<1>9. Reached(b, frames', regs', zf', todo')
  <2>1. Len(regs) >= Len(b.held) /\ b.at = "start"
    BY <1>1, <1>2, <1>5 DEF Reached, Plain
  <2>2. QED BY <2>1, <1>3, <1>7, <1>8 DEF Reached
<1>10. regs' \in Seq(SUBSET Bits) /\ zf' \in BOOLEAN /\ frames' \in Nat
  BY <1>3, <1>6, <1>7 DEF FlowInv
<1>11. QED
  BY <1>1, <1>2, <1>3, <1>4, <1>9, <1>10, StepKeeps

\* The source may go on to its next event.
LEMMA UnfoldKeeps ==
    ASSUME FlowInv, Unfold
    PROVE  FlowInv'
<1>1. PICK N : Marked(code, N) /\ Reached(N[pc], frames, regs, zf, todo)
  BY DEF FlowInv
<1>2. /\ Generated /\ ~Settled(todo) /\ todo' = Unfolded(todo)
      /\ UNCHANGED <<code, label, lit, pc, regs, zf, frames>>
  BY DEF Unfold, machine
<1>3. Same(todo, todo')
  BY <1>2, SameUnfolded
<1>4. PICK a : a = N[pc]
  OBVIOUS
<1>5. Truthful => Agrees(a, regs, zf, todo')
  <2>1. Truthful => Agrees(a, regs, zf, todo)
    BY <1>1, <1>4 DEF Reached
  <2>2. QED BY <2>1, <1>3, SameTrans DEF Agrees
<1>6. Reached(a, frames', regs', zf', todo')
  BY <1>1, <1>2, <1>4, <1>5 DEF Reached
<1>7. Goto(pc)
  BY <1>2 DEF Goto, Unfold
<1>8. regs' \in Seq(SUBSET Bits) /\ zf' \in BOOLEAN /\ frames' \in Nat /\ pc \in 1 .. Len(code)
  BY <1>2 DEF FlowInv
<1>9. QED
  BY <1>1, <1>2, <1>4, <1>6, <1>7, <1>8, StepKeeps

\* Every step keeps the invariant.
LEMMA NextKeeps ==
    ASSUME FlowInv, [Next]_vars
    PROVE  FlowInv'
<1>1. CASE Gen
  BY <1>1, GenCondKeeps, GenStmtKeeps DEF Gen
<1>2. CASE Run
  BY <1>2, DoActKeeps, DoAtomKeeps, DoLogicKeeps, DoCmpKeeps, DoJumpKeeps, DoFrameKeeps
     DEF Run, Running
<1>3. CASE Unfold
  BY <1>3, UnfoldKeeps
<1>4. CASE UNCHANGED vars
  <2>1. UNCHANGED <<code, label, lit, pc, regs, zf, frames, todo>>
    BY <1>4 DEF vars, machine
  <2>2. Generated' = Generated
    BY <2>1 DEF Generated, Pending
  <2>3. \E N : Marked(code', N) /\ Reached(N[pc'], frames', regs', zf', todo')
    BY <2>1 DEF FlowInv
  <2>4. /\ label' \in Nat /\ lit' \in Nat
        /\ pc' \in 1 .. Len(code') /\ (~Generated' => pc' = 1)
        /\ regs' \in Seq(SUBSET Bits) /\ zf' \in BOOLEAN /\ frames' \in Nat
        /\ code'[Len(code')].op = "ret" /\ Labelled(code', 0, label')
    BY <2>1, <2>2 DEF FlowInv
  <2>5. QED BY ONLY <2>3, <2>4 DEF FlowInv
<1>5. QED
  BY <1>1, <1>2, <1>3, <1>4 DEF Next
-----------------------------------------------------------------------------
(* The theorems.                                                           *)

\* The code that is there, with the parts still to be compiled, has notes that
\* fit, and the machine is in the state that the note of its place tells.
THEOREM FlowInvariant == Spec => []FlowInv
<1>1. FlowInv /\ [Next]_vars => FlowInv'
  BY NextKeeps
<1>2. QED
  BY InitFlow, <1>1, PTL DEF Spec

\* The counters and the machine keep to their types, whatever the program:
\* no jump leaves the code, and nothing but the ret at its end ends it.
THEOREM TypeCorrect == Spec => []TypeOK
<1>1. FlowInv => TypeOK
  <2>1. FlowInv => DOMAIN code = 1 .. Len(code)
    BY RowFacts DEF FlowInv, Marked
  <2>2. QED BY <2>1 DEF FlowInv, TypeOK
<1>2. QED
  BY FlowInvariant, <1>1, PTL

\* A ret removes as many frames as are open where it stands, on every path
\* to it, for every program and whatever the conditions give.
THEOREM EveryFrameUnwound == Spec => []FramesUnwound
<1>1. ASSUME FlowInv PROVE FramesUnwound
  <2>1. SUFFICES ASSUME Generated, Here.op = "ret" PROVE frames = Here.arg
    BY DEF FramesUnwound
  <2>2. PICK N : Marked(code, N) /\ Reached(N[pc], frames, regs, zf, todo)
    BY <1>1 DEF FlowInv
  <2>3. Stands(Here, N[pc])
    BY <1>1, <2>1, <2>2, PlaceNotes
  <2>4. QED BY <2>1, <2>2, <2>3 DEF Stands, Reached
<1>2. QED
  BY FlowInvariant, <1>1, PTL

\* Every label that the code names is placed in it, and once.
THEOREM EveryLabelResolved == Spec => []LabelsResolve
<1>1. ASSUME FlowInv PROVE LabelsResolve
  <2>1. DOMAIN code = 1 .. Len(code) /\ Labelled(code, 0, label)
    BY <1>1, RowFacts DEF FlowInv, Marked
  <2>2. ASSUME NEW i \in DOMAIN code, code[i].op \in {"jmp", "je", "jne", "label"}
        PROVE  Cardinality({j \in DOMAIN code : code[j] = Instr("label", code[i].arg)}) = 1
    <3>1. PICK l : l = code[i].arg
      OBVIOUS
    <3>2. l \in 0 .. label - 1
      BY <2>1, <2>2, <3>1 DEF Labelled, Jumps
    <3>3. PICK j \in DOMAIN code : code[j] = Instr("label", l)
      BY <2>1, <3>2 DEF Labelled
    <3>4. ASSUME NEW m \in DOMAIN code, code[m] = Instr("label", l) PROVE m = j
      <4>1. code[m].op = "label" /\ code[m].arg = l /\ code[j].op = "label" /\ code[j].arg = l
        BY ONLY <3>3, <3>4, InstrFields
      <4>2. QED BY <4>1, <2>1 DEF Labelled
    <3>5. {m \in DOMAIN code : code[m] = Instr("label", l)} = {j}
      BY <3>3, <3>4
    <3>6. QED BY <3>1, <3>5, FS_Singleton
  <2>3. QED BY <2>2 DEF LabelsResolve
<1>2. QED
  BY FlowInvariant, <1>1, PTL

\* The code evaluates what the statements evaluate, in the same order and on
\* the same paths, for every program whose operands of && and || are 0 or 1.
THEOREM EventsAreTheSame ==
    ASSUME Vals \subseteq {{}, {0}}
    PROVE  Spec => []SameEvents
<1>1. ASSUME FlowInv PROVE SameEvents
  <2>1. SUFFICES ASSUME Generated, Settled(todo)
        PROVE  /\ Here.op = "act"  => NextEvent(todo) = <<"act", Here.name>>
               /\ Here.op = "atom" => NextEvent(todo) = <<"atom", Here.name>>
               /\ Here.op = "ret"  => NextEvent(todo) = <<"return">>
    BY DEF SameEvents
  <2>2. PICK N : Marked(code, N) /\ Reached(N[pc], frames, regs, zf, todo)
    BY <1>1 DEF FlowInv
  <2>3. PICK a, b : a = N[pc] /\ b = N[pc + 1]
    OBVIOUS
  <2>4. /\ Stands(Here, a)
        /\ Here.op # "ret" => IsNote(b) /\ Linked(Here, a, b)
    BY <1>1, <2>1, <2>2, <2>3, PlaceNotes
  <2>5. Agrees(a, regs, zf, todo)
    BY <2>2, <2>3 DEF Reached, Truthful, Truths
  <2>6. ASSUME Here.op = "act" PROVE NextEvent(todo) = <<"act", Here.name>>
    <3>1. Same(a.yes, todo)
      BY <2>4, <2>5, <2>6 DEF Stands, Plain, Agrees
    <3>2. PICK s : s.t = "act" /\ s.name = Here.name /\ Same(a.yes, <<s>> \o b.yes)
      BY <2>4, <2>6 DEF Linked
    <3>3. IsEvent(s) /\ Row(b.yes) /\ Same(todo, <<s>> \o b.yes)
      BY <2>4, <2>6, <3>1, <3>2, SameSym, SameTrans DEF IsEvent, IsNote
    <3>4. todo # << >> /\ Head(todo) = s
      BY <2>1, <3>3, SameEvent
    <3>5. QED BY <3>2, <3>4 DEF NextEvent
  <2>7. ASSUME Here.op = "atom" PROVE NextEvent(todo) = <<"atom", Here.name>>
    <3>1. Same(a.yes, todo)
      BY <2>4, <2>5, <2>7 DEF Stands, Agrees
    <3>2. PICK c : c.t = "atom" /\ c.name = Here.name /\ Tests(c, a, b)
      BY <2>4, <2>7 DEF Linked
    <3>3. PICK y, n, k : Row(k) /\ Same(a.yes, <<Branch(c, y, n)>> \o k)
      BY <3>2 DEF Tests
    <3>4. PICK s : s = Branch(c, y, n)
      OBVIOUS
    <3>5. s.t = "branch" /\ s.c = c
      BY <3>4 DEF Branch
    <3>6. IsEvent(s) /\ Same(todo, <<s>> \o k)
      BY <3>1, <3>2, <3>3, <3>4, <3>5, SameSym, SameTrans DEF IsEvent
    <3>7. todo # << >> /\ Head(todo) = s
      BY <2>1, <3>3, <3>6, SameEvent
    <3>8. QED BY <3>2, <3>5, <3>7 DEF NextEvent
  <2>8. ASSUME Here.op = "ret" PROVE NextEvent(todo) = <<"return">>
    <3>1. Same(a.yes, todo)
      BY <2>4, <2>5, <2>8 DEF Stands, Plain, Agrees
    <3>2. PICK x : Settled(x) /\ NextEvent(x) = <<"return">> /\ Same(a.yes, x)
      BY <2>4, <2>8 DEF Stands, Returns
    <3>3. todo = x
      BY <2>1, <3>1, <3>2, SameSym, SameTrans, SameSettled
    <3>4. QED BY <3>2, <3>3
  <2>9. QED BY <2>6, <2>7, <2>8
<1>2. QED
  BY FlowInvariant, <1>1, PTL
=============================================================================
