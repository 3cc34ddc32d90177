---------------------------- MODULE FramesProofs ----------------------------
(***************************************************************************)
(* Theorems of Frames, for every word width, number of parameters, set of  *)
(* variable sizes and depth of nesting.                                    *)
(***************************************************************************)
EXTENDS Frames, SequenceTheorems, TLAPS

BlockRecord == [bp : U32, sp : U32, var_bytes : U32, can_decl : BOOLEAN,
                old_vars : Nat, framed : BOOLEAN, ebp : U32, pushed : U32]
VarRecord == [stack_pos : U32, size : Nat, at : U32]

-----------------------------------------------------------------------------
(* Facts about u32 arithmetic.                                             *)

LEMMA U32Facts ==
    /\ Modulus \in Nat /\ Modulus > 20 /\ Modulus % Word = 0
    /\ Word \in U32 /\ Word = 4
    /\ 0 \in U32 /\ 12 \in U32 /\ Base \in U32
    /\ Sizes \subseteq U32
BY FramesAssumption DEF U32, Word

LEMMA U32Closed ==
    ASSUME NEW a \in U32, NEW b \in U32
    PROVE  Plus(a, b) \in U32 /\ Minus(a, b) \in U32
BY U32Facts DEF Plus, Minus, U32

\* Adding the same number commutes with taking another away.
LEMMA PlusMinus ==
    ASSUME NEW a \in U32, NEW b \in U32, NEW c \in U32
    PROVE  /\ Minus(Plus(a, b), c) = Plus(Minus(a, c), b)
           /\ Minus(Minus(a, b), c) = Minus(a, Plus(b, c))
           /\ Minus(a, 0) = a
           /\ Minus(a, Minus(a, b)) = b
BY U32Facts DEF Plus, Minus, U32

LEMMA PlusPlus ==
    ASSUME NEW a \in U32, NEW b \in U32, NEW c \in U32
    PROVE  /\ Plus(Plus(a, b), c) = Plus(Plus(c, a), b)
           /\ Plus(Plus(a, b), Minus(c, a)) = Plus(c, b)
BY U32Facts DEF Plus, Minus, U32

LEMMA RoundDownInU32 ==
    ASSUME NEW n \in U32, NEW size \in Sizes
    PROVE  RoundDown(n, size) \in U32
<1>1. /\ size \in Nat \ {0} /\ n \in Nat /\ n < Modulus /\ Modulus \in Nat
  BY FramesAssumption DEF U32
<1>2. /\ n \div size \in Nat /\ (n \div size) * size \in Nat /\ (n \div size) * size <= n
  BY <1>1
<1>3. QED
  BY <1>1, <1>2 DEF RoundDown, U32

LEMMA FrameSizeInU32 ==
    ASSUME NEW b, b.var_bytes \in U32
    PROVE  /\ FrameSize(b) \in U32
           /\ b.var_bytes % Word = 0 => FrameSize(b) = b.var_bytes
<1>1. b.var_bytes % Word \in 0 .. 3 /\ b.var_bytes \in Nat
  BY U32Facts DEF U32
<1>2. b.var_bytes % Word # 0 => Word - (b.var_bytes % Word) \in U32
  BY <1>1, U32Facts DEF U32
<1>3. QED
  BY <1>2, U32Closed DEF FrameSize, RoundUp

LEMMA EspInU32 ==
    ASSUME NEW b \in BlockRecord
    PROVE  Esp(b) \in U32
<1>1. b.var_bytes \in U32 /\ b.ebp \in U32 /\ b.pushed \in U32
  BY DEF BlockRecord
<1>2. QED
  BY <1>1, FrameSizeInU32, U32Closed DEF Esp
-----------------------------------------------------------------------------
(* Types.  A block that closes leaves the variables that were there before *)
(* it, so types are kept only together with the nesting of the scopes.     *)

Scopes ==
    /\ Len(blocks) >= 1
    /\ \A k \in 1 .. Len(blocks) : blocks[k].old_vars <= Len(vars)
    /\ \A j, k \in 1 .. Len(blocks) : j <= k => blocks[j].old_vars <= blocks[k].old_vars

TypeInv == TypeOK /\ Scopes

LEMMA TypeInvInit == Init => TypeInv
<1> SUFFICES ASSUME Init PROVE TypeInv
  OBVIOUS
<1>1. ASSUME NEW i \in 1 .. NParams PROVE ParamOffset(i) \in U32 /\ ArgAddress(i) \in U32
  <2>1. NParams \in Nat /\ 20 + Word * NParams < Modulus /\ i \in Nat /\ 1 <= i /\ i <= NParams
    BY FramesAssumption
  <2>2. 20 + Word * (i - 1) \in U32
    BY <2>1, U32Facts DEF U32
  <2>3. QED
    BY <2>2, U32Facts, U32Closed DEF ParamOffset, ArgAddress, Word, U32
<1>2. vars \in Seq(VarRecord) /\ Len(vars) = NParams
  <2>1. \A i \in 1 .. NParams :
          [stack_pos |-> ParamOffset(i), size |-> Word, at |-> ArgAddress(i)] \in VarRecord
    BY <1>1, U32Facts DEF VarRecord, Word
  <2>2. vars \in [1 .. NParams -> VarRecord] /\ NParams \in Nat
    BY <2>1, FramesAssumption DEF Init
  <2>3. QED
    BY <2>2
<1>3. blocks \in Seq(BlockRecord) /\ Len(blocks) = 1 /\ blocks[1].old_vars = NParams
  BY U32Facts, FramesAssumption DEF Init, BlockRecord
<1>4. QED
  BY <1>2, <1>3, FramesAssumption DEF TypeInv, TypeOK, Scopes, BlockRecord, VarRecord

LEMMA InnermostType ==
    ASSUME TypeInv
    PROVE  /\ blocks \in Seq(BlockRecord) /\ vars \in Seq(VarRecord)
           /\ Len(blocks) \in Nat /\ Len(blocks) >= 1 /\ Len(vars) \in Nat
           /\ Innermost = blocks[Len(blocks)] /\ Innermost \in BlockRecord
           /\ \A k \in 1 .. Len(blocks) : blocks[k] \in BlockRecord
<1>1. blocks \in Seq(BlockRecord) /\ vars \in Seq(VarRecord) /\ Len(blocks) >= 1
  BY DEF TypeInv, TypeOK, Scopes, BlockRecord, VarRecord
<1>2. Len(blocks) \in Nat /\ Len(vars) \in Nat
  BY <1>1, LenProperties
<1>3. \A k \in 1 .. Len(blocks) : blocks[k] \in BlockRecord
  BY <1>1, ElementOfSeq
<1>4. QED
  BY <1>1, <1>2, <1>3 DEF Innermost

\* What opening a block or a body does to the two lists.
LEMMA Opened ==
    ASSUME TypeInv, NEW new \in BlockRecord, NEW old \in BlockRecord,
           new.old_vars = Len(vars), old.old_vars = Innermost.old_vars,
           blocks' = Append(SetInnermost(old), new), vars' = vars
    PROVE  /\ TypeInv'
           /\ Len(blocks') = Len(blocks) + 1
           /\ \A k \in 1 .. Len(blocks) - 1 : blocks'[k] = blocks[k]
           /\ blocks'[Len(blocks)] = old
           /\ blocks'[Len(blocks) + 1] = new
           /\ \A k \in 1 .. Len(blocks) : blocks'[k].old_vars = blocks[k].old_vars
<1> DEFINE n == Len(blocks)
           replaced == SetInnermost(old)
<1>1. /\ blocks \in Seq(BlockRecord) /\ n \in Nat /\ n >= 1 /\ n \in 1 .. n
      /\ Innermost = blocks[n] /\ vars \in Seq(VarRecord) /\ Len(vars) \in Nat
      /\ \A k \in 1 .. n : blocks[k] \in BlockRecord
  BY InnermostType
<1>2. /\ replaced \in Seq(BlockRecord) /\ Len(replaced) = n /\ replaced[n] = old
      /\ \A k \in 1 .. n - 1 : replaced[k] = blocks[k]
  BY <1>1, ExceptSeq DEF SetInnermost
<1>3. /\ blocks' \in Seq(BlockRecord) /\ Len(blocks') = n + 1 /\ blocks'[n + 1] = new
      /\ \A k \in 1 .. n : blocks'[k] = replaced[k]
  <2>1. blocks' = Append(replaced, new)
    OBVIOUS
  <2> HIDE DEF replaced, n
  <2>2. QED
    BY <1>2, <2>1, AppendProperties
<1>4. blocks'[n] = old /\ \A k \in 1 .. n - 1 : blocks'[k] = blocks[k]
  BY <1>1, <1>2, <1>3
<1>5. ASSUME NEW k \in 1 .. n PROVE blocks'[k].old_vars = blocks[k].old_vars
  <2>1. CASE k = n
    BY <1>1, <1>4, <2>1
  <2>2. CASE k # n
    <3>1. k \in 1 .. n - 1
      BY <1>1, <2>2
    <3>2. QED
      BY <1>4, <3>1
  <2>3. QED
    BY <2>1, <2>2
<1>6. \A k \in 1 .. n : blocks[k].old_vars \in Nat
  BY <1>1 DEF BlockRecord
<1>7. Scopes'
  <2>1. /\ \A k \in 1 .. n : blocks[k].old_vars <= Len(vars)
        /\ \A j, k \in 1 .. n : j <= k => blocks[j].old_vars <= blocks[k].old_vars
    BY DEF TypeInv, Scopes
  <2>2. ASSUME NEW k \in 1 .. n + 1 PROVE blocks'[k].old_vars <= Len(vars)
    <3>1. CASE k = n + 1
      BY <1>1, <1>3, <3>1
    <3>2. CASE k # n + 1
      <4>1. k \in 1 .. n
        BY <1>1, <3>2
      <4>2. QED
        BY <1>5, <2>1, <4>1
    <3>3. QED
      BY <3>1, <3>2
  <2>3. ASSUME NEW j \in 1 .. n + 1, NEW k \in 1 .. n + 1, j <= k
        PROVE  blocks'[j].old_vars <= blocks'[k].old_vars
    <3>1. CASE k = n + 1
      BY <1>3, <2>2, <3>1
    <3>2. CASE k # n + 1
      <4>1. j \in 1 .. n /\ k \in 1 .. n
        BY <1>1, <2>3, <3>2
      <4>2. QED
        BY <1>5, <2>1, <2>3, <4>1
    <3>3. QED
      BY <3>1, <3>2
  <2>4. Len(blocks') >= 1
    BY <1>1, <1>3
  <2>5. QED
    BY <1>3, <2>2, <2>3, <2>4 DEF Scopes
<1>8. QED
  BY <1>1, <1>3, <1>4, <1>5, <1>7 DEF TypeInv, TypeOK, BlockRecord, VarRecord

\* The record of a declared variable, and of its block after it.
LEMMA DeclaredTypes ==
    ASSUME TypeInv, NEW size \in Sizes, NEW init \in Inits
    PROVE  LET b == Innermost
               aligned == RoundDown(b.sp, size)
               offset == Minus(Minus(aligned, b.bp), size)
               sp == Minus(aligned, size)
           IN /\ [stack_pos |-> Plus(offset, b.bp), size |-> size,
                   at |-> Plus(b.ebp, offset)] \in VarRecord
              /\ [b EXCEPT !.sp = sp, !.var_bytes = Plus(@, Minus(b.sp, sp)),
                           !.pushed = Plus(@, MemcpyArgs(init))] \in BlockRecord
              /\ aligned \in U32 /\ offset \in U32 /\ sp \in U32 /\ size \in U32
<1> DEFINE b == Innermost
           aligned == RoundDown(b.sp, size)
           offset == Minus(Minus(aligned, b.bp), size)
           sp == Minus(aligned, size)
<1>1. b \in BlockRecord
  BY InnermostType
<1>2. b.sp \in U32 /\ b.bp \in U32 /\ b.ebp \in U32 /\ b.var_bytes \in U32 /\ b.pushed \in U32
  BY <1>1 DEF BlockRecord
<1>3. size \in U32 /\ aligned \in U32 /\ size \in Nat
  BY <1>2, RoundDownInU32, U32Facts DEF U32
<1>4. offset \in U32 /\ sp \in U32
  BY <1>2, <1>3, U32Closed
<1>5. MemcpyArgs(init) \in U32
  BY U32Facts DEF MemcpyArgs, Word
<1>6. /\ Plus(offset, b.bp) \in U32 /\ Plus(b.ebp, offset) \in U32
      /\ Plus(b.var_bytes, Minus(b.sp, sp)) \in U32
      /\ Plus(b.pushed, MemcpyArgs(init)) \in U32
  BY <1>2, <1>4, <1>5, U32Closed
<1> HIDE DEF b, aligned, offset, sp
<1>7. [stack_pos |-> Plus(offset, b.bp), size |-> size, at |-> Plus(b.ebp, offset)] \in VarRecord
  BY <1>3, <1>6 DEF VarRecord
<1>8. [b EXCEPT !.sp = sp, !.var_bytes = Plus(@, Minus(b.sp, sp)),
               !.pushed = Plus(@, MemcpyArgs(init))] \in BlockRecord
  BY <1>1, <1>4, <1>6 DEF BlockRecord
<1>9. QED
  BY <1>3, <1>4, <1>7, <1>8 DEF b, aligned, offset, sp

\* What a declaration does to the two lists.
LEMMA Declared ==
    ASSUME TypeInv, NEW b \in BlockRecord, NEW v \in VarRecord,
           b.old_vars = Innermost.old_vars,
           vars' = Append(vars, v), blocks' = SetInnermost(b)
    PROVE  /\ TypeInv'
           /\ Len(blocks') = Len(blocks) /\ Len(vars') = Len(vars) + 1
           /\ \A k \in 1 .. Len(blocks) - 1 : blocks'[k] = blocks[k]
           /\ blocks'[Len(blocks)] = b
           /\ \A i \in 1 .. Len(vars) : vars'[i] = vars[i]
           /\ vars'[Len(vars) + 1] = v
           /\ \A k \in 1 .. Len(blocks) : blocks'[k].old_vars = blocks[k].old_vars
<1> DEFINE n == Len(blocks)
<1>1. /\ blocks \in Seq(BlockRecord) /\ n \in Nat /\ n >= 1 /\ n \in 1 .. n
      /\ Innermost = blocks[n] /\ vars \in Seq(VarRecord) /\ Len(vars) \in Nat
      /\ \A k \in 1 .. n : blocks[k] \in BlockRecord
  BY InnermostType
<1>2. /\ blocks' \in Seq(BlockRecord) /\ Len(blocks') = n /\ blocks'[n] = b
      /\ \A k \in 1 .. n - 1 : blocks'[k] = blocks[k]
  BY <1>1, ExceptSeq DEF SetInnermost
<1>3. /\ vars' \in Seq(VarRecord) /\ Len(vars') = Len(vars) + 1
      /\ vars'[Len(vars) + 1] = v /\ \A i \in 1 .. Len(vars) : vars'[i] = vars[i]
  BY <1>1, AppendProperties
<1>4. ASSUME NEW k \in 1 .. n PROVE blocks'[k].old_vars = blocks[k].old_vars
  <2>1. CASE k = n
    BY <1>1, <1>2, <2>1
  <2>2. CASE k \in 1 .. n - 1
    BY <1>2, <2>2
  <2>3. QED
    BY <1>1, <2>1, <2>2
<1>5. \A k \in 1 .. n : blocks[k].old_vars \in Nat
  BY <1>1 DEF BlockRecord
<1>6. Scopes'
  <2>1. /\ \A k \in 1 .. n : blocks[k].old_vars <= Len(vars)
        /\ \A j, k \in 1 .. n : j <= k => blocks[j].old_vars <= blocks[k].old_vars
    BY DEF TypeInv, Scopes
  <2>2. \A k \in 1 .. n : blocks'[k].old_vars <= Len(vars) + 1
    BY <1>1, <1>4, <1>5, <2>1
  <2>3. \A j, k \in 1 .. n : j <= k => blocks'[j].old_vars <= blocks'[k].old_vars
    BY <1>4, <2>1
  <2>4. QED
    BY <1>1, <1>2, <1>3, <2>2, <2>3 DEF Scopes
<1>7. QED
  BY <1>1, <1>2, <1>3, <1>4, <1>6 DEF TypeInv, TypeOK, BlockRecord, VarRecord

LEMMA PrefixProperties ==
    ASSUME NEW S, NEW s \in Seq(S), NEW n \in Nat, n <= Len(s)
    PROVE  /\ SubSeq(s, 1, n) \in Seq(S) /\ Len(SubSeq(s, 1, n)) = n
           /\ \A i \in 1 .. n : SubSeq(s, 1, n)[i] = s[i]
<1>1. \A i \in 1 .. n : s[i] \in S
  BY ElementOfSeq, LenProperties
<1>2. /\ SubSeq(s, 1, n) \in Seq(S)
      /\ Len(SubSeq(s, 1, n)) = IF 1 <= n THEN n - 1 + 1 ELSE 0
      /\ \A i \in 1 .. n - 1 + 1 : SubSeq(s, 1, n)[i] = s[1 + i - 1]
  <2>1. 1 \in Int /\ n \in Int
    OBVIOUS
  <2>2. QED
    BY <1>1, <2>1, SubSeqProperties
<1>3. QED
  BY <1>2

\* What the end of a block does to the two lists.
LEMMA Closed ==
    ASSUME TypeInv, Close
    PROVE  /\ TypeInv'
           /\ Len(blocks') = Len(blocks) - 1 /\ Len(blocks) > 1
           /\ \A k \in 1 .. Len(blocks) - 1 : blocks'[k] = blocks[k]
           /\ Innermost.old_vars <= Len(vars) /\ Len(vars') = Innermost.old_vars
           /\ \A i \in 1 .. Innermost.old_vars : vars'[i] = vars[i]
<1> DEFINE n == Len(blocks)
<1>1. /\ blocks \in Seq(BlockRecord) /\ n \in Nat /\ n > 1 /\ n - 1 \in Nat /\ n - 1 <= n
      /\ Innermost = blocks[n] /\ vars \in Seq(VarRecord) /\ Len(vars) \in Nat
      /\ \A k \in 1 .. n : blocks[k] \in BlockRecord
  BY InnermostType DEF Close
<1>2. Innermost.old_vars \in Nat /\ Innermost.old_vars <= Len(vars)
  BY <1>1 DEF TypeInv, Scopes, BlockRecord
<1>3. /\ blocks' \in Seq(BlockRecord) /\ Len(blocks') = n - 1
      /\ \A k \in 1 .. n - 1 : blocks'[k] = blocks[k]
  BY <1>1, PrefixProperties DEF Close
<1>4. /\ vars' \in Seq(VarRecord) /\ Len(vars') = Innermost.old_vars
      /\ \A i \in 1 .. Innermost.old_vars : vars'[i] = vars[i]
  BY <1>1, <1>2, PrefixProperties DEF Close
<1>5. Scopes'
  BY <1>1, <1>2, <1>3, <1>4 DEF TypeInv, Scopes
<1>6. QED
  BY <1>1, <1>2, <1>3, <1>4, <1>5 DEF TypeInv, TypeOK, BlockRecord, VarRecord

\* The records that OpenBlock and OpenBody append, and the block below.
LEMMA OpenedTypes ==
    ASSUME TypeInv
    PROVE  LET b == Innermost IN
           /\ [b EXCEPT !.can_decl = FALSE] \in BlockRecord
           /\ NewBlock(Minus(b.sp, Word), Minus(b.sp, Word), TRUE, Minus(Esp(b), Word), 0)
                \in BlockRecord
           /\ NewBlock(b.bp, b.sp, FALSE, b.ebp, Plus(FrameSize(b), b.pushed)) \in BlockRecord
<1> DEFINE b == Innermost
<1>1. b \in BlockRecord /\ Len(vars) \in Nat
  BY InnermostType
<1>2. b.sp \in U32 /\ b.bp \in U32 /\ b.ebp \in U32 /\ b.var_bytes \in U32 /\ b.pushed \in U32
  BY <1>1 DEF BlockRecord
<1>3. Esp(b) \in U32 /\ FrameSize(b) \in U32
  BY <1>1, <1>2, EspInU32, FrameSizeInU32
<1>4. /\ Minus(b.sp, Word) \in U32 /\ Minus(Esp(b), Word) \in U32
      /\ Plus(FrameSize(b), b.pushed) \in U32 /\ 0 \in U32
  BY <1>2, <1>3, U32Facts, U32Closed
<1> HIDE DEF b
<1>5. [b EXCEPT !.can_decl = FALSE] \in BlockRecord
  BY <1>1 DEF BlockRecord
<1>6. QED
  BY <1>1, <1>2, <1>4, <1>5 DEF b, NewBlock, BlockRecord

LEMMA TypeInvNext == TypeInv /\ [Next]_state => TypeInv'
<1> SUFFICES ASSUME TypeInv, [Next]_state PROVE TypeInv'
  OBVIOUS
<1>0. Innermost \in BlockRecord
  BY InnermostType
<1>1. ASSUME NEW size \in Sizes, NEW init \in Inits, Declare(size, init) PROVE TypeInv'
  <2> DEFINE aligned == RoundDown(Innermost.sp, size)
             offset == Minus(Minus(aligned, Innermost.bp), size)
             sp == Minus(aligned, size)
             v == [stack_pos |-> Plus(offset, Innermost.bp), size |-> size,
                   at |-> Plus(Innermost.ebp, offset)]
             c == [Innermost EXCEPT !.sp = sp, !.var_bytes = Plus(@, Minus(Innermost.sp, sp)),
                                    !.pushed = Plus(@, MemcpyArgs(init))]
  <2>1. v \in VarRecord /\ c \in BlockRecord
    BY DeclaredTypes
  <2>2. c.old_vars = Innermost.old_vars
    BY <1>0 DEF BlockRecord
  <2>3. vars' = Append(vars, v) /\ blocks' = SetInnermost(c)
    BY <1>1 DEF Declare
  <2> HIDE DEF v, c
  <2>4. QED
    BY <2>1, <2>2, <2>3, Declared
<1>2. CASE OpenBlock
  <2> DEFINE old == [Innermost EXCEPT !.can_decl = FALSE]
             new == NewBlock(Minus(Innermost.sp, Word), Minus(Innermost.sp, Word), TRUE,
                             Minus(Esp(Innermost), Word), 0)
  <2>1. old \in BlockRecord /\ new \in BlockRecord
    BY OpenedTypes
  <2>2. old.old_vars = Innermost.old_vars /\ new.old_vars = Len(vars)
    BY <1>0 DEF BlockRecord, NewBlock
  <2>3. blocks' = Append(SetInnermost(old), new) /\ vars' = vars
    BY <1>2 DEF OpenBlock
  <2> HIDE DEF old, new
  <2>4. QED
    BY <2>1, <2>2, <2>3, Opened
<1>3. CASE OpenBody
  <2> DEFINE old == [Innermost EXCEPT !.can_decl = FALSE]
             new == NewBlock(Innermost.bp, Innermost.sp, FALSE, Innermost.ebp,
                             Plus(FrameSize(Innermost), Innermost.pushed))
  <2>1. old \in BlockRecord /\ new \in BlockRecord
    BY OpenedTypes
  <2>2. old.old_vars = Innermost.old_vars /\ new.old_vars = Len(vars)
    BY <1>0 DEF BlockRecord, NewBlock
  <2>3. blocks' = Append(SetInnermost(old), new) /\ vars' = vars
    BY <1>3 DEF OpenBody
  <2> HIDE DEF old, new
  <2>4. QED
    BY <2>1, <2>2, <2>3, Opened
<1>4. CASE Close
  BY <1>4, Closed
<1>5. CASE UNCHANGED state
  BY <1>5 DEF state, TypeInv, TypeOK, Scopes
<1>6. QED
  BY <1>1, <1>2, <1>3, <1>4, <1>5 DEF Next

\* The parser's and the machine's numbers are 32-bit words in every block, and
\* the list of visible variables never names one that is not there.
THEOREM FramesTypeCorrect == Spec => []TypeOK
<1>1. TypeInv => TypeOK
  BY DEF TypeInv
<1>2. QED
  BY <1>1, TypeInvInit, TypeInvNext, PTL DEF Spec

-----------------------------------------------------------------------------
(* One place per variable.  In the outermost frame ebp - bp is Base.  A    *)
(* frame keeps this difference exactly if the one below it is regular, so  *)
(* what holds of block k depends on the blocks below it, and of a variable *)
(* on the blocks below the one that declares it.                           *)

Whole(b) == b.framed => b.var_bytes % Word = 0 /\ b.pushed = 0
Below(k) == \A j \in 1 .. k - 1 : Whole(blocks[j])
Visible(k) == IF k = Len(blocks) THEN Len(vars) ELSE blocks[k + 1].old_vars

\* The parser's sp against its own bp; ebp and esp against bp and sp.
SpFollows(b) == b.framed => b.sp = Minus(b.bp, b.var_bytes)
EbpMeetsBp(b) == b.ebp = Plus(b.bp, Base)
EspMeetsSp(b) == Esp(b) = Plus(b.sp, Base)
VarMeets(v) == v.at = Plus(v.stack_pos, Base)

Placed(k) ==
    /\ EbpMeetsBp(blocks[k])
    /\ ~blocks[k].framed => EspMeetsSp(blocks[k])
    /\ \A i \in 1 .. Visible(k) : VarMeets(vars[i])

Layout ==
    /\ \A k \in 1 .. Len(blocks) : SpFollows(blocks[k])
    /\ \A k \in 1 .. Len(blocks) : Below(k) => Placed(k)

FramesInv == TypeInv /\ Layout

\* In a regular block below which all is regular, esp is where the parser
\* puts sp.
LEMMA WholeMeets ==
    ASSUME NEW b \in BlockRecord, SpFollows(b), EbpMeetsBp(b), b.framed, Whole(b)
    PROVE  EspMeetsSp(b)
<1>1. b.bp \in U32 /\ b.sp \in U32 /\ b.ebp \in U32 /\ b.var_bytes \in U32 /\ b.pushed = 0
  BY DEF BlockRecord, Whole
<1>2. FrameSize(b) = b.var_bytes
  BY <1>1, FrameSizeInU32 DEF Whole
<1>3. Esp(b) = Minus(Minus(Plus(b.bp, Base), b.var_bytes), 0)
  BY <1>1, <1>2 DEF Esp, EbpMeetsBp
<1>4. Minus(Plus(b.bp, Base), b.var_bytes) = Plus(Minus(b.bp, b.var_bytes), Base)
  <2>1. b.bp \in U32 /\ b.var_bytes \in U32 /\ Base \in U32
    BY <1>1, U32Facts
  <2>2. QED
    BY <2>1, PlusMinus
<1>5. Minus(Plus(b.bp, Base), b.var_bytes) \in U32
  BY <1>1, U32Facts, U32Closed
<1>6. QED
  BY <1>3, <1>4, <1>5, PlusMinus, U32Facts DEF SpFollows, EspMeetsSp

LEMMA LayoutInit == Init => Layout
<1> SUFFICES ASSUME Init PROVE Layout
  OBVIOUS
<1>1. ASSUME NEW i \in 1 .. NParams PROVE ArgAddress(i) = Plus(ParamOffset(i), Base)
  BY FramesAssumption DEF ArgAddress, ParamOffset, Plus, Word
<1>2. Len(vars) = NParams /\ \A i \in 1 .. NParams : VarMeets(vars[i])
  BY <1>1, TypeInvInit, FramesAssumption DEF Init, VarMeets
<1>3. Len(blocks) = 1 /\ blocks[1].framed /\ SpFollows(blocks[1]) /\ EbpMeetsBp(blocks[1])
  BY U32Facts DEF Init, SpFollows, EbpMeetsBp, Plus, Minus, U32
<1>4. QED
  BY <1>2, <1>3 DEF Layout, Placed, Visible

\* Opening a block or body whose own numbers fit.
LEMMA OpenedLayout ==
    ASSUME FramesInv, NEW new \in BlockRecord, NEW old \in BlockRecord,
           new.old_vars = Len(vars), old = [Innermost EXCEPT !.can_decl = FALSE],
           blocks' = Append(SetInnermost(old), new), vars' = vars,
           SpFollows(new),
           Below(Len(blocks)) /\ Whole(Innermost) =>
             EbpMeetsBp(new) /\ (~new.framed => EspMeetsSp(new))
    PROVE  FramesInv'
<1>0. PICK n \in Nat : n = Len(blocks)       \* rigid: n' is n
  BY InnermostType DEF FramesInv
<1> DEFINE Numbers(b) == <<b.bp, b.sp, b.var_bytes, b.framed, b.ebp, b.pushed>>
<1>1. /\ n \in Nat /\ n = Len(blocks) /\ n >= 1 /\ Innermost = blocks[n] /\ Innermost \in BlockRecord
      /\ \A k \in 1 .. n : blocks[k] \in BlockRecord
  BY <1>0, InnermostType DEF FramesInv
<1>2. old.old_vars = Innermost.old_vars /\ Numbers(old) = Numbers(Innermost)
  BY <1>1 DEF BlockRecord
<1>3. /\ TypeInv' /\ Len(blocks') = n + 1
      /\ \A k \in 1 .. n - 1 : blocks'[k] = blocks[k]
      /\ blocks'[n] = old /\ blocks'[n + 1] = new
      /\ \A k \in 1 .. n : blocks'[k].old_vars = blocks[k].old_vars
  BY <1>1, <1>2, Opened DEF FramesInv
<1>4. ASSUME NEW k \in 1 .. n PROVE Numbers(blocks'[k]) = Numbers(blocks[k])
  <2>1. CASE k = n
    BY <1>1, <1>2, <1>3, <2>1
  <2>2. CASE k # n
    <3>1. k \in 1 .. n - 1
      BY <1>1, <2>2
    <3>2. QED
      BY <1>3, <3>1
  <2>3. QED
    BY <2>1, <2>2
<1>5. ASSUME NEW k \in 1 .. n
      PROVE  /\ SpFollows(blocks'[k]) <=> SpFollows(blocks[k])
             /\ EbpMeetsBp(blocks'[k]) <=> EbpMeetsBp(blocks[k])
             /\ EspMeetsSp(blocks'[k]) <=> EspMeetsSp(blocks[k])
             /\ Whole(blocks'[k]) <=> Whole(blocks[k])
             /\ blocks'[k].framed <=> blocks[k].framed
  BY <1>4 DEF SpFollows, EbpMeetsBp, EspMeetsSp, Whole, Esp, FrameSize
<1>6. ASSUME NEW k \in 1 .. n, Below(k)' PROVE Below(k) /\ Placed(k)
  <2>1. \A j \in 1 .. k - 1 : j \in 1 .. n
    BY <1>1
  <2>2. Below(k)
    BY <1>5, <1>6, <2>1 DEF Below
  <2>3. QED
    BY <1>1, <2>2 DEF FramesInv, Layout
<1>7. ASSUME NEW k \in 1 .. n, Below(k)' PROVE Placed(k)'
  <2>1. Placed(k)
    BY <1>6, <1>7
  <2>2. Visible(k)' = Visible(k)
    <3>1. CASE k = n
      BY <1>1, <1>3, <3>1 DEF Visible
    <3>2. CASE k # n
      <4>1. k + 1 \in 1 .. n /\ k # n + 1
        BY <1>1, <3>2
      <4>2. QED
        BY <1>1, <1>3, <3>2, <4>1 DEF Visible
    <3>3. QED
      BY <3>1, <3>2
  <2>3. QED
    BY <1>5, <2>1, <2>2 DEF Placed, VarMeets
<1>8. ASSUME NEW m \in Nat, m = n + 1, Below(m)' PROVE Placed(m)'
  <2>1. n \in 1 .. n /\ 1 .. m - 1 = 1 .. n /\ 1 .. n - 1 \subseteq 1 .. n
    BY <1>1, <1>8
  <2>2. Below(n)' /\ Whole(blocks'[n])
    <3>1. \A j \in 1 .. n : Whole(blocks'[j])
      BY <1>8, <2>1 DEF Below
    <3>2. QED
      BY <2>1, <3>1 DEF Below
  <2>3. Below(n) /\ Placed(n) /\ Whole(Innermost)
    BY <1>1, <1>5, <1>6, <2>1, <2>2
  <2>4. EbpMeetsBp(new) /\ (~new.framed => EspMeetsSp(new))
    BY <1>1, <2>3
  <2>5. Visible(m)' = Len(vars) /\ Visible(n) = Len(vars)
    BY <1>1, <1>3, <1>8 DEF Visible
  <2>6. QED
    BY <1>3, <1>8, <2>3, <2>4, <2>5 DEF Placed, VarMeets, EbpMeetsBp, EspMeetsSp, Esp, FrameSize
<1>9. ASSUME NEW k \in 1 .. n + 1
      PROVE  SpFollows(blocks'[k]) /\ (Below(k)' => Placed(k)')
  <2>1. CASE k = n + 1
    <3>1. SpFollows(blocks'[k])
      BY <1>3, <2>1
    <3>2. k \in Nat
      BY <1>1
    <3>3. QED
      BY <1>8, <2>1, <3>1, <3>2
  <2>2. CASE k # n + 1
    <3>1. k \in 1 .. n
      BY <1>1, <2>2
    <3>2. SpFollows(blocks[k])
      BY <1>1, <3>1 DEF FramesInv, Layout
    <3>3. QED
      BY <1>5, <1>7, <3>1, <3>2
  <2>3. QED
    BY <2>1, <2>2
<1>10. QED
  BY <1>3, <1>9 DEF FramesInv, Layout, SpFollows

\* sp and var_bytes move together.
LEMMA DeclaredSp ==
    ASSUME NEW bp \in U32, NEW vb \in U32, NEW new \in U32
    PROVE  Minus(bp, Plus(vb, Minus(Minus(bp, vb), new))) = new
<1>1. Minus(bp, vb) \in U32 /\ Minus(Minus(bp, vb), new) \in U32
  BY U32Closed
<1>2. Minus(Minus(bp, vb), Minus(Minus(bp, vb), new)) = new
  BY <1>1, PlusMinus
<1>3. QED
  BY <1>1, <1>2, PlusMinus

LEMMA DeclaredLayout ==
    ASSUME FramesInv, NEW size \in Sizes, NEW init \in Inits, Declare(size, init)
    PROVE  FramesInv'
<1>0. PICK n \in Nat : n = Len(blocks)       \* rigid: n' is n
  BY InnermostType DEF FramesInv
<1> DEFINE b == Innermost
           aligned == RoundDown(b.sp, size)
           offset == Minus(Minus(aligned, b.bp), size)
           sp == Minus(aligned, size)
           v == [stack_pos |-> Plus(offset, b.bp), size |-> size, at |-> Plus(b.ebp, offset)]
           c == [b EXCEPT !.sp = sp, !.var_bytes = Plus(@, Minus(b.sp, sp)),
                          !.pushed = Plus(@, MemcpyArgs(init))]
<1>1. /\ n \in Nat /\ n = Len(blocks) /\ n >= 1 /\ n \in 1 .. n
      /\ b = blocks[n] /\ b \in BlockRecord /\ Len(vars) \in Nat
  BY <1>0, InnermostType DEF FramesInv
<1>2. /\ v \in VarRecord /\ c \in BlockRecord
      /\ offset \in U32 /\ sp \in U32
  BY DeclaredTypes DEF FramesInv
<1>3. /\ b.bp \in U32 /\ b.sp \in U32 /\ b.ebp \in U32 /\ b.var_bytes \in U32
      /\ b.framed
  BY <1>1 DEF BlockRecord, Declare
<1>4. /\ c.old_vars = b.old_vars /\ c.bp = b.bp /\ c.ebp = b.ebp /\ c.framed
      /\ c.sp = sp /\ c.var_bytes = Plus(b.var_bytes, Minus(b.sp, sp))
  BY <1>1, <1>3 DEF BlockRecord
<1>5. vars' = Append(vars, v) /\ blocks' = SetInnermost(c)
  BY DEF Declare
<1>6. v.at = Plus(b.ebp, offset) /\ v.stack_pos = Plus(offset, b.bp)
  OBVIOUS
<1> HIDE DEF v, c, offset, sp, aligned
<1>7. /\ TypeInv' /\ Len(blocks') = n /\ Len(vars') = Len(vars) + 1
      /\ \A k \in 1 .. n - 1 : blocks'[k] = blocks[k]
      /\ blocks'[n] = c
      /\ \A i \in 1 .. Len(vars) : vars'[i] = vars[i]
      /\ vars'[Len(vars) + 1] = v
      /\ \A k \in 1 .. n : blocks'[k].old_vars = blocks[k].old_vars
  BY <1>1, <1>2, <1>4, <1>5, Declared DEF FramesInv
<1>8. SpFollows(c)
  <2>1. b.sp = Minus(b.bp, b.var_bytes)
    BY <1>1, <1>3 DEF FramesInv, Layout, SpFollows
  <2>2. QED
    BY <1>2, <1>3, <1>4, <2>1, DeclaredSp DEF SpFollows
<1>9. ASSUME NEW k \in 1 .. n PROVE Below(k)' <=> Below(k)
  <2>1. \A j \in 1 .. k - 1 : j \in 1 .. n - 1
    BY <1>1
  <2>2. QED
    BY <1>7, <2>1 DEF Below
<1>10. ASSUME Below(n) PROVE Placed(n)'
  <2>1. EbpMeetsBp(b) /\ Visible(n) = Len(vars) /\ \A i \in 1 .. Len(vars) : VarMeets(vars[i])
    BY <1>1, <1>10 DEF FramesInv, Layout, Placed, Visible
  <2>2. EbpMeetsBp(c)
    BY <1>4, <2>1 DEF EbpMeetsBp
  <2>3. VarMeets(v)
    <3>1. Plus(Plus(b.bp, Base), offset) = Plus(Plus(offset, b.bp), Base)
      <4>1. b.bp \in U32 /\ Base \in U32 /\ offset \in U32
        BY <1>2, <1>3, U32Facts
      <4> HIDE DEF b
      <4>2. QED
        BY <4>1, PlusPlus
    <3>2. QED
      BY <1>6, <2>1, <3>1 DEF VarMeets, EbpMeetsBp
  <2>4. ASSUME NEW i \in 1 .. Len(vars) + 1 PROVE VarMeets(vars'[i])
    <3>1. CASE i = Len(vars) + 1
      BY <1>7, <2>3, <3>1
    <3>2. CASE i # Len(vars) + 1
      <4>1. i \in 1 .. Len(vars)
        BY <1>1, <3>2
      <4>2. QED
        BY <1>7, <2>1, <4>1
    <3>3. QED
      BY <3>1, <3>2
  <2>5. QED
    BY <1>4, <1>7, <2>2, <2>4 DEF Placed, Visible, EbpMeetsBp, VarMeets
<1>11. ASSUME NEW k \in 1 .. n PROVE SpFollows(blocks'[k]) /\ (Below(k)' => Placed(k)')
  <2>1. CASE k = n
    BY <1>1, <1>7, <1>8, <1>9, <1>10, <2>1
  <2>2. CASE k # n
    <3>1. k \in 1 .. n - 1 /\ k \in 1 .. n /\ k + 1 \in 1 .. n
      BY <1>1, <2>2
    <3>2. SpFollows(blocks[k]) /\ (Below(k) => Placed(k))
      BY <1>1 DEF FramesInv, Layout
    <3>3. Visible(k) = blocks[k + 1].old_vars /\ Visible(k)' = Visible(k)
      BY <1>1, <1>7, <2>2, <3>1 DEF Visible
    <3>4. blocks[k + 1].old_vars \in Nat /\ blocks[k + 1].old_vars <= Len(vars)
      BY <1>1, <3>1, InnermostType DEF FramesInv, TypeInv, Scopes, BlockRecord
    <3>5. \A i \in 1 .. Visible(k) : vars'[i] = vars[i]
      BY <1>1, <1>7, <3>3, <3>4
    <3>6. QED
      BY <1>7, <1>9, <3>1, <3>2, <3>3, <3>5
         DEF Placed, EbpMeetsBp, EspMeetsSp, VarMeets, SpFollows, Esp, FrameSize
  <2>3. QED
    BY <2>1, <2>2
<1>12. QED
  BY <1>7, <1>11 DEF FramesInv, Layout, SpFollows

LEMMA ClosedLayout ==
    ASSUME FramesInv, Close
    PROVE  FramesInv'
<1>0. PICK n \in Nat : n = Len(blocks)       \* rigid: n' is n
  BY InnermostType DEF FramesInv
<1>1. /\ n \in Nat /\ n = Len(blocks) /\ n > 1 /\ Innermost = blocks[n]
      /\ TypeInv' /\ Len(blocks') = n - 1
      /\ \A k \in 1 .. n - 1 : blocks'[k] = blocks[k]
      /\ Innermost.old_vars <= Len(vars) /\ Len(vars') = Innermost.old_vars
      /\ \A i \in 1 .. Innermost.old_vars : vars'[i] = vars[i]
  BY <1>0, Closed, InnermostType DEF FramesInv
<1>2. /\ \A k \in 1 .. n : blocks[k].old_vars \in Nat /\ Len(vars) \in Nat
      /\ \A j, k \in 1 .. n : j <= k => blocks[j].old_vars <= blocks[k].old_vars
  BY <1>1, InnermostType DEF FramesInv, TypeInv, Scopes, BlockRecord
<1>3. ASSUME NEW k \in 1 .. n - 1 PROVE SpFollows(blocks'[k]) /\ (Below(k)' => Placed(k)')
  <2>1. k \in 1 .. n /\ k + 1 \in 1 .. n /\ k # n /\ \A j \in 1 .. k - 1 : j \in 1 .. n - 1
    BY <1>1
  <2>2. SpFollows(blocks[k]) /\ (Below(k) => Placed(k))
    BY <1>1, <2>1 DEF FramesInv, Layout
  <2>3. Below(k)' <=> Below(k)
    BY <1>1, <2>1 DEF Below
  <2>4. Visible(k) = blocks[k + 1].old_vars
    BY <1>1, <2>1 DEF Visible
  <2>5. Visible(k)' = Visible(k)
    <3>1. CASE k = n - 1
      BY <1>1, <2>4, <3>1 DEF Visible
    <3>2. CASE k # n - 1
      <4>1. k + 1 \in 1 .. n - 1
        BY <1>1, <3>2
      <4>2. QED
        BY <1>1, <2>4, <3>2, <4>1 DEF Visible
    <3>3. QED
      BY <3>1, <3>2
  <2>6. \A i \in 1 .. Visible(k) : vars'[i] = vars[i]
    <3>1. n \in 1 .. n /\ k + 1 <= n
      BY <1>1
    <3>2. Visible(k) \in Nat /\ blocks[n].old_vars \in Nat /\ Visible(k) <= blocks[n].old_vars
      BY <1>2, <2>1, <2>4, <3>1
    <3>3. QED
      BY <1>1, <3>2
  <2>7. QED
    BY <1>1, <2>2, <2>3, <2>5, <2>6
       DEF Placed, EbpMeetsBp, EspMeetsSp, VarMeets, SpFollows, Esp, FrameSize
<1>4. QED
  BY <1>1, <1>3 DEF FramesInv, Layout, SpFollows

LEMMA FramesInvInit == Init => FramesInv
BY TypeInvInit, LayoutInit DEF FramesInv

LEMMA FramesInvNext == FramesInv /\ [Next]_state => FramesInv'
<1> SUFFICES ASSUME FramesInv, [Next]_state PROVE FramesInv'
  OBVIOUS
<1> DEFINE b == Innermost
           n == Len(blocks)
           old == [b EXCEPT !.can_decl = FALSE]
<1>1. /\ b \in BlockRecord /\ b = blocks[n] /\ n \in 1 .. n
  BY InnermostType DEF FramesInv
<1>2. /\ b.sp \in U32 /\ b.bp \in U32 /\ b.ebp \in U32 /\ b.var_bytes \in U32
      /\ b.pushed \in U32 /\ Esp(b) \in U32 /\ FrameSize(b) \in U32
  BY <1>1, EspInU32, FrameSizeInU32 DEF BlockRecord
<1>3. ASSUME Below(n) PROVE EbpMeetsBp(b) /\ (Whole(b) => EspMeetsSp(b))
  <2>1. SpFollows(b) /\ EbpMeetsBp(b) /\ (~b.framed => EspMeetsSp(b))
    BY <1>1, <1>3 DEF FramesInv, Layout, Placed
  <2>2. QED
    BY <1>1, <2>1, WholeMeets
<1>4. ASSUME NEW size \in Sizes, NEW init \in Inits, Declare(size, init) PROVE FramesInv'
  BY <1>4, DeclaredLayout
<1>5. CASE OpenBlock
  <2> DEFINE bp == Minus(b.sp, Word)
             new == NewBlock(bp, bp, TRUE, Minus(Esp(b), Word), 0)
  <2>1. old \in BlockRecord /\ new \in BlockRecord
    BY OpenedTypes DEF FramesInv
  <2>2. /\ new.old_vars = Len(vars) /\ new.framed
        /\ new.bp = bp /\ new.sp = bp /\ new.var_bytes = 0 /\ new.ebp = Minus(Esp(b), Word)
    BY DEF NewBlock
  <2>3. blocks' = Append(SetInnermost(old), new) /\ vars' = vars
    BY <1>5 DEF OpenBlock
  <2>4. bp \in U32 /\ Word \in U32 /\ Base \in U32 /\ 0 \in U32
    BY <1>2, U32Facts, U32Closed
  <2>5. SpFollows(new)
    <3>1. Minus(bp, 0) = bp
      BY <2>4, PlusMinus
    <3>2. QED
      BY <2>2, <3>1 DEF SpFollows
  <2>6. ASSUME Below(n), Whole(b) PROVE EbpMeetsBp(new)
    <3>1. Esp(b) = Plus(b.sp, Base)
      BY <1>3, <2>6 DEF EspMeetsSp
    <3>2. Minus(Plus(b.sp, Base), Word) = Plus(bp, Base)
      BY <1>2, <2>4, PlusMinus
    <3>3. QED
      BY <2>2, <3>1, <3>2 DEF EbpMeetsBp
  <2> HIDE DEF new
  <2>7. QED
    BY <2>1, <2>2, <2>3, <2>5, <2>6, OpenedLayout
<1>6. CASE OpenBody
  <2> DEFINE pushed == Plus(FrameSize(b), b.pushed)
             new == NewBlock(b.bp, b.sp, FALSE, b.ebp, pushed)
  <2>1. old \in BlockRecord /\ new \in BlockRecord
    BY OpenedTypes DEF FramesInv
  <2>2. /\ new.old_vars = Len(vars) /\ ~new.framed /\ new.pushed = pushed
        /\ new.bp = b.bp /\ new.sp = b.sp /\ new.var_bytes = 0 /\ new.ebp = b.ebp
    BY DEF NewBlock
  <2>3. blocks' = Append(SetInnermost(old), new) /\ vars' = vars
    BY <1>6 DEF OpenBody
  <2>4. SpFollows(new)
    BY <2>2 DEF SpFollows
  <2>5. Esp(new) = Esp(b)
    <3>1. FrameSize(new) = 0
      <4>1. 0 \in U32 /\ 0 % Word = 0
        BY U32Facts DEF Word
      <4> HIDE DEF new
      <4>2. QED
        BY <2>2, <4>1, FrameSizeInU32
    <3>2. Minus(b.ebp, 0) = b.ebp
      BY <1>2, U32Facts, PlusMinus
    <3>3. Minus(Minus(b.ebp, FrameSize(b)), b.pushed) = Minus(b.ebp, pushed)
      BY <1>2, PlusMinus
    <3> HIDE DEF new, pushed
    <3>4. QED
      BY <2>2, <3>1, <3>2, <3>3 DEF Esp
  <2>6. ASSUME Below(n), Whole(b) PROVE EbpMeetsBp(new) /\ EspMeetsSp(new)
    BY <1>3, <2>2, <2>5, <2>6 DEF EbpMeetsBp, EspMeetsSp
  <2> HIDE DEF new
  <2>7. QED
    BY <2>1, <2>2, <2>3, <2>4, <2>6, OpenedLayout
<1>7. CASE Close
  BY <1>7, ClosedLayout
<1>8. CASE UNCHANGED state
  BY <1>8 DEF state, FramesInv, TypeInv, TypeOK, Scopes, Layout, Placed, Below, Visible
<1>9. QED
  BY <1>4, <1>5, <1>6, <1>7, <1>8 DEF Next

LEMMA FramesInvSameAddress == FramesInv => SameAddress
<1> SUFFICES ASSUME FramesInv, Regular, NEW i \in 1 .. Len(vars)
             PROVE  Address(vars[i], Innermost) = vars[i].at
  BY DEF SameAddress
<1> DEFINE b == Innermost
           v == vars[i]
<1>1. /\ b = blocks[Len(blocks)] /\ Len(blocks) \in 1 .. Len(blocks) /\ b \in BlockRecord
      /\ vars \in Seq(VarRecord)
  BY InnermostType DEF FramesInv
<1>2. b.bp \in U32 /\ v.stack_pos \in U32 /\ Base \in U32
  <2>1. v \in VarRecord
    BY <1>1, ElementOfSeq
  <2>2. QED
    BY <1>1, <2>1, U32Facts DEF BlockRecord, VarRecord
<1>3. Below(Len(blocks))
  BY DEF Regular, Below, Whole
<1>4. Placed(Len(blocks))
  BY <1>1, <1>3 DEF FramesInv, Layout
<1>5. b.ebp = Plus(b.bp, Base) /\ v.at = Plus(v.stack_pos, Base)
  BY <1>1, <1>4 DEF Placed, EbpMeetsBp, VarMeets, Visible
<1> HIDE DEF b, v
<1>6. Plus(Plus(b.bp, Base), Minus(v.stack_pos, b.bp)) = Plus(v.stack_pos, Base)
  BY <1>2, PlusPlus
<1>7. QED
  BY <1>5, <1>6 DEF b, v, Address, BpOffset

\* As long as every enclosing block has whole words of variables and no
\* initialised array, the offset that the parser computes for a variable, in
\* whatever block it is used, leads to the place it was given where it was
\* declared: the frames that src/x86/ir.c emits are those src/parser.c counts
\* on, for every depth of nesting and every mixture of blocks and bodies.
THEOREM SameAddressEverywhere == Spec => []SameAddress
BY FramesInvInit, FramesInvNext, FramesInvSameAddress, PTL DEF Spec

-----------------------------------------------------------------------------
(* Alignment.  The parser aligns offsets from bp, so addresses are aligned *)
(* where bp and ebp differ by a multiple of a word: in the outermost frame *)
(* always, in a nested one not, as Frames says of Aligned.                 *)

OutermostInv ==
    /\ blocks[1].bp = 0 /\ blocks[1].ebp = Base
    /\ \A i \in 1 .. Visible(1) : Aligned(vars[i])

AlignInv == TypeInv /\ OutermostInv

LEMMA AlignedOffset ==
    ASSUME NEW n \in U32, NEW size \in Sizes, size \in {1, 2, 4}
    PROVE  Plus(Base, Minus(Minus(RoundDown(n, size), 0), size)) % size = 0
<1> DEFINE a == RoundDown(n, size)
<1>1. /\ a \in U32 /\ size \in U32 /\ Base \in U32 /\ 0 \in U32
      /\ Base % 4 = 0 /\ Modulus % 4 = 0 /\ Modulus \in Nat /\ n \in Nat
  BY RoundDownInU32, U32Facts, FramesAssumption DEF Word, U32
<1>2. a % size = 0 /\ Base % size = 0 /\ Modulus % size = 0
  <2>1. CASE size = 1
    BY <1>1, <2>1 DEF RoundDown, U32
  <2>2. CASE size = 2
    BY <1>1, <2>2 DEF RoundDown, U32
  <2>3. CASE size = 4
    BY <1>1, <2>3 DEF RoundDown, U32
  <2>4. QED
    BY <2>1, <2>2, <2>3
<1> HIDE DEF a
<1>3. Minus(a, 0) = a
  BY <1>1, PlusMinus
<1>4. Minus(a, size) \in U32 /\ Minus(a, size) % size = 0
  <2>1. Minus(a, size) \in U32
    BY <1>1, U32Closed
  <2>2. CASE size = 1
    BY <1>1, <2>1, <2>2 DEF U32
  <2>3. CASE size = 2
    BY <1>1, <1>2, <2>3 DEF Minus, U32
  <2>4. CASE size = 4
    BY <1>1, <1>2, <2>4 DEF Minus, U32
  <2>5. QED
    BY <2>1, <2>2, <2>3, <2>4
<1>5. ASSUME NEW d \in U32, d % size = 0 PROVE Plus(Base, d) % size = 0
  <2>1. Plus(Base, d) \in U32
    BY <1>1, U32Closed
  <2>2. CASE size = 1
    BY <1>1, <2>1, <2>2 DEF U32
  <2>3. CASE size = 2
    BY <1>1, <1>2, <1>5, <2>3 DEF Plus, U32
  <2>4. CASE size = 4
    BY <1>1, <1>2, <1>5, <2>4 DEF Plus, U32
  <2>5. QED
    BY <2>2, <2>3, <2>4
<1>6. QED
  BY <1>3, <1>4, <1>5 DEF a

LEMMA AlignInvInit == Init => AlignInv
<1> SUFFICES ASSUME Init PROVE OutermostInv
  BY TypeInvInit DEF AlignInv
<1>1. ASSUME NEW i \in 1 .. NParams PROVE ArgAddress(i) % 4 = 0
  <2>1. /\ NParams \in Nat /\ i \in Nat /\ 1 <= i
        /\ Base \in Nat /\ Base % 4 = 0 /\ Modulus \in Nat /\ Modulus % 4 = 0
    BY FramesAssumption DEF Word
  <2>2. QED
    BY <2>1 DEF ArgAddress, Plus, Word
<1>2. Len(vars) = NParams /\ \A i \in 1 .. NParams : Aligned(vars[i])
  BY <1>1, FramesAssumption DEF Init, Aligned, Word
<1>3. Len(blocks) = 1 /\ blocks[1].bp = 0 /\ blocks[1].ebp = Base
  BY DEF Init
<1>4. QED
  BY <1>2, <1>3 DEF OutermostInv, Visible

\* Opening a block or body, whatever its own numbers are.
LEMMA OpenedAlign ==
    ASSUME AlignInv, NEW new \in BlockRecord, NEW old \in BlockRecord,
           new.old_vars = Len(vars), old = [Innermost EXCEPT !.can_decl = FALSE],
           blocks' = Append(SetInnermost(old), new), vars' = vars
    PROVE  AlignInv'
<1>0. PICK n \in Nat : n = Len(blocks)       \* rigid: n' is n
  BY InnermostType DEF AlignInv
<1>1. n >= 1 /\ n = Len(blocks) /\ Innermost = blocks[n] /\ Innermost \in BlockRecord
  BY <1>0, InnermostType DEF AlignInv
<1>2. old.old_vars = Innermost.old_vars /\ old.bp = Innermost.bp /\ old.ebp = Innermost.ebp
  BY <1>1 DEF BlockRecord
<1>3. /\ TypeInv' /\ Len(blocks') = n + 1
      /\ \A k \in 1 .. n - 1 : blocks'[k] = blocks[k]
      /\ blocks'[n] = old /\ blocks'[n + 1] = new
      /\ \A k \in 1 .. n : blocks'[k].old_vars = blocks[k].old_vars
  BY <1>1, <1>2, Opened DEF AlignInv
<1>4. blocks'[1].bp = 0 /\ blocks'[1].ebp = Base
  <2>1. CASE n = 1
    BY <1>1, <1>2, <1>3, <2>1 DEF AlignInv, OutermostInv
  <2>2. CASE n # 1
    <3>1. 1 \in 1 .. n - 1
      BY <1>1, <2>2
    <3>2. QED
      BY <1>3, <3>1 DEF AlignInv, OutermostInv
  <2>3. QED
    BY <2>1, <2>2
<1>5. Visible(1)' = Visible(1)
  <2>1. CASE n = 1
    BY <1>1, <1>3, <2>1 DEF Visible
  <2>2. CASE n # 1
    <3>1. 2 \in 1 .. n /\ n + 1 # 1
      BY <1>1, <2>2
    <3>2. Visible(1) = blocks[2].old_vars
      BY <1>1, <2>2 DEF Visible
    <3>3. Visible(1)' = blocks'[2].old_vars
      <4>1. Len(blocks') # 1
        BY <1>3, <3>1
      <4>2. QED
        BY <4>1 DEF Visible
    <3>4. QED
      BY <1>3, <3>1, <3>2, <3>3
  <2>3. QED
    BY <2>1, <2>2
<1>6. QED
  BY <1>3, <1>4, <1>5 DEF AlignInv, OutermostInv, Aligned

LEMMA DeclaredAlign ==
    ASSUME AlignInv, NEW size \in Sizes, NEW init \in Inits, Declare(size, init)
    PROVE  AlignInv'
<1>0. PICK n \in Nat : n = Len(blocks)       \* rigid: n' is n
  BY InnermostType DEF AlignInv
<1> DEFINE b == Innermost
           aligned == RoundDown(b.sp, size)
           offset == Minus(Minus(aligned, b.bp), size)
           sp == Minus(aligned, size)
           v == [stack_pos |-> Plus(offset, b.bp), size |-> size, at |-> Plus(b.ebp, offset)]
           c == [b EXCEPT !.sp = sp, !.var_bytes = Plus(@, Minus(b.sp, sp)),
                          !.pushed = Plus(@, MemcpyArgs(init))]
<1>1. n >= 1 /\ n = Len(blocks) /\ b = blocks[n] /\ b \in BlockRecord /\ Len(vars) \in Nat
  BY <1>0, InnermostType DEF AlignInv
<1>2. v \in VarRecord /\ c \in BlockRecord
  BY DeclaredTypes DEF AlignInv
<1>3. c.old_vars = b.old_vars /\ c.bp = b.bp /\ c.ebp = b.ebp /\ b.sp \in U32
  BY <1>1 DEF BlockRecord
<1>4. vars' = Append(vars, v) /\ blocks' = SetInnermost(c)
  BY DEF Declare
<1>5. ASSUME n = 1 PROVE Aligned(v)
  <2>1. b.bp = 0 /\ b.ebp = Base
    BY <1>1, <1>5 DEF AlignInv, OutermostInv
  <2>2. v.size = size /\ v.at = Plus(Base, Minus(Minus(RoundDown(b.sp, size), 0), size))
    BY <2>1
  <2> HIDE DEF v
  <2>3. QED
    BY <1>3, <2>2, AlignedOffset DEF Aligned
<1> HIDE DEF v, c
<1>6. /\ TypeInv' /\ Len(blocks') = n /\ Len(vars') = Len(vars) + 1
      /\ \A k \in 1 .. n - 1 : blocks'[k] = blocks[k]
      /\ blocks'[n] = c
      /\ \A i \in 1 .. Len(vars) : vars'[i] = vars[i]
      /\ vars'[Len(vars) + 1] = v
      /\ \A k \in 1 .. n : blocks'[k].old_vars = blocks[k].old_vars
  BY <1>1, <1>2, <1>3, <1>4, Declared DEF AlignInv
<1>7. CASE n = 1
  <2>1. Visible(1) = Len(vars) /\ Visible(1)' = Len(vars) + 1
    BY <1>1, <1>6, <1>7 DEF Visible
  <2>2. ASSUME NEW i \in 1 .. Len(vars) + 1 PROVE Aligned(vars'[i])
    <3>1. CASE i = Len(vars) + 1
      BY <1>5, <1>6, <1>7, <3>1
    <3>2. CASE i # Len(vars) + 1
      <4>1. i \in 1 .. Len(vars)
        BY <1>1, <3>2
      <4>2. QED
        BY <1>6, <2>1, <4>1 DEF AlignInv, OutermostInv
    <3>3. QED
      BY <3>1, <3>2
  <2>3. blocks'[1].bp = 0 /\ blocks'[1].ebp = Base
    BY <1>1, <1>3, <1>6, <1>7 DEF AlignInv, OutermostInv
  <2>4. QED
    BY <1>6, <2>1, <2>2, <2>3 DEF AlignInv, OutermostInv, Aligned
<1>8. CASE n # 1
  <2>1. 1 \in 1 .. n - 1 /\ 2 \in 1 .. n
    BY <1>1, <1>8
  <2>2. Visible(1) = blocks[2].old_vars /\ Visible(1)' = Visible(1)
    BY <1>1, <1>6, <1>8, <2>1 DEF Visible
  <2>3. blocks[2].old_vars \in Nat /\ blocks[2].old_vars <= Len(vars)
    BY <1>1, <2>1, InnermostType DEF AlignInv, TypeInv, Scopes, BlockRecord
  <2>4. \A i \in 1 .. Visible(1) : vars'[i] = vars[i]
    BY <1>1, <1>6, <2>2, <2>3
  <2>5. QED
    BY <1>6, <2>1, <2>2, <2>4 DEF AlignInv, OutermostInv, Aligned
<1>9. QED
  BY <1>7, <1>8

LEMMA ClosedAlign ==
    ASSUME AlignInv, Close
    PROVE  AlignInv'
<1>0. PICK n \in Nat : n = Len(blocks)       \* rigid: n' is n
  BY InnermostType DEF AlignInv
<1>1. /\ n = Len(blocks) /\ n > 1 /\ Innermost = blocks[n] /\ Len(vars) \in Nat
      /\ TypeInv' /\ Len(blocks') = n - 1
      /\ \A k \in 1 .. n - 1 : blocks'[k] = blocks[k]
      /\ Innermost.old_vars <= Len(vars) /\ Len(vars') = Innermost.old_vars
      /\ \A i \in 1 .. Innermost.old_vars : vars'[i] = vars[i]
  BY <1>0, Closed, InnermostType DEF AlignInv
<1>2. 1 \in 1 .. n - 1 /\ 2 \in 1 .. n /\ n \in 1 .. n /\ 2 <= n
  BY <1>1
<1>3. Visible(1) = blocks[2].old_vars /\ Visible(1)' = Visible(1)
  <2>1. CASE n = 2
    BY <1>1, <2>1 DEF Visible
  <2>2. CASE n # 2
    <3>1. 2 \in 1 .. n - 1 /\ n - 1 # 1
      BY <1>1, <2>2
    <3>2. QED
      BY <1>1, <3>1 DEF Visible
  <2>3. QED
    BY <2>1, <2>2
<1>4. /\ blocks[2].old_vars \in Nat /\ blocks[n].old_vars \in Nat
      /\ blocks[2].old_vars <= blocks[n].old_vars
  BY <1>1, <1>2, InnermostType DEF AlignInv, TypeInv, Scopes, BlockRecord
<1>5. \A i \in 1 .. Visible(1) : vars'[i] = vars[i]
  BY <1>1, <1>3, <1>4
<1>6. QED
  BY <1>1, <1>2, <1>3, <1>5 DEF AlignInv, OutermostInv, Aligned

LEMMA AlignInvNext == AlignInv /\ [Next]_state => AlignInv'
<1> SUFFICES ASSUME AlignInv, [Next]_state PROVE AlignInv'
  OBVIOUS
<1> DEFINE old == [Innermost EXCEPT !.can_decl = FALSE]
<1>1. ASSUME NEW size \in Sizes, NEW init \in Inits, Declare(size, init) PROVE AlignInv'
  BY <1>1, DeclaredAlign
<1>2. CASE OpenBlock
  <2> DEFINE new == NewBlock(Minus(Innermost.sp, Word), Minus(Innermost.sp, Word), TRUE,
                             Minus(Esp(Innermost), Word), 0)
  <2>1. old \in BlockRecord /\ new \in BlockRecord
    BY OpenedTypes DEF AlignInv
  <2>2. new.old_vars = Len(vars)
    BY DEF NewBlock
  <2>3. blocks' = Append(SetInnermost(old), new) /\ vars' = vars
    BY <1>2 DEF OpenBlock
  <2> HIDE DEF new
  <2>4. QED
    BY <2>1, <2>2, <2>3, OpenedAlign
<1>3. CASE OpenBody
  <2> DEFINE new == NewBlock(Innermost.bp, Innermost.sp, FALSE, Innermost.ebp,
                             Plus(FrameSize(Innermost), Innermost.pushed))
  <2>1. old \in BlockRecord /\ new \in BlockRecord
    BY OpenedTypes DEF AlignInv
  <2>2. new.old_vars = Len(vars)
    BY DEF NewBlock
  <2>3. blocks' = Append(SetInnermost(old), new) /\ vars' = vars
    BY <1>3 DEF OpenBody
  <2> HIDE DEF new
  <2>4. QED
    BY <2>1, <2>2, <2>3, OpenedAlign
<1>4. CASE Close
  BY <1>4, ClosedAlign
<1>5. CASE UNCHANGED state
  BY <1>5 DEF state, AlignInv, TypeInv, TypeOK, Scopes, OutermostInv, Visible
<1>6. QED
  BY <1>1, <1>2, <1>3, <1>4, <1>5 DEF Next

\* "align the variable to its size": true of every variable, whatever is
\* declared before it, while only the function's outermost block is open.
THEOREM OutermostVarsAligned == Spec => []OutermostAligned
<1>1. AlignInv => OutermostAligned
  BY InnermostType DEF AlignInv, OutermostInv, OutermostAligned, Visible
<1>2. QED
  BY <1>1, AlignInvInit, AlignInvNext, PTL DEF Spec
-----------------------------------------------------------------------------
(* No overlap, on a stack that is large enough.  u32 arithmetic makes a    *)
(* program whose frames exceed the address space wrap around to its own    *)
(* parameters; Fits says how much is certainly enough: for each variable   *)
(* its size, as much again for its alignment, and the arguments of memcpy; *)
(* for each block the word of ebp and the rounding of its frame.           *)

Room(n, s) == n * (2 * s + 12)
Fits(s) ==
    /\ s \in Nat /\ \A size \in Sizes : size <= s
    /\ NParams <= MaxVars
    /\ Room(MaxVars, s) + 8 * (MaxDepth + 1) <= Base
    /\ Base + 20 + Word * NParams <= Modulus

\* Below ebp a block has its variables, and below those what it pushed; the
\* variables that a body without braces finds in its frame count as pushed.
Depth(b) == Base - b.ebp + b.var_bytes + b.pushed
Low(b) == b.ebp - b.var_bytes - (IF b.framed THEN 0 ELSE b.pushed)

\* The blocks use no more of the stack than there is room for ...
InRoom(k, s) ==
    /\ blocks[k].ebp <= Base
    /\ ~blocks[k].framed => blocks[k].var_bytes = 0
    /\ Depth(blocks[k]) <= Room(Visible(k), s) + 8 * (k - 1)
    /\ blocks[k].old_vars >= NParams
    /\ \A i \in 1 .. Visible(k) : vars[i].at >= Low(blocks[k])
\* ... and each variable is below those declared before it and clear of every
\* saved ebp.
IsParam(i) == i <= NParams /\ vars[i].at = Base + 20 + Word * (i - 1) /\ vars[i].size = Word
IsLocal(i) ==
    /\ i > NParams /\ vars[i].at + vars[i].size <= Base
    /\ \A h \in 1 .. i - 1 : vars[i].at + vars[i].size <= vars[h].at
ClearOf(v, b) == v.at >= b.ebp + Word \/ v.at + v.size <= b.ebp

Apart ==
    /\ \A i \in 1 .. Len(vars) : IsParam(i) \/ IsLocal(i)
    /\ \A i \in 1 .. Len(vars), k \in 1 .. Len(blocks) : ClearOf(vars[i], blocks[k])
    /\ \A j, k \in 1 .. Len(blocks) : j <= k => blocks[k].ebp <= blocks[j].ebp

RoomInv(s) ==
    /\ FramesInv
    /\ Len(vars) <= MaxVars /\ Len(blocks) <= MaxDepth + 1
    /\ \A k \in 1 .. Len(blocks) : InRoom(k, s)
    /\ Apart

\* The room for one more variable, or for fewer.
LEMMA RoomFacts ==
    ASSUME NEW s \in Nat, NEW n \in Nat, NEW m \in Nat
    PROVE  /\ Room(n, s) \in Nat
           /\ Room(n + 1, s) = Room(n, s) + 2 * s + 12
           /\ m <= n => Room(m, s) <= Room(n, s)
<1> DEFINE c == 2 * s + 12
<1>1. c \in Nat /\ Room(n, s) = n * c /\ Room(m, s) = m * c /\ Room(n + 1, s) = (n + 1) * c
  BY DEF Room
<1>2. c = 2 * s + 12
  OBVIOUS
<1> HIDE DEF c
<1>3. n * c \in Nat /\ m * c \in Nat /\ (n + 1) * c = n * c + c
  BY <1>1
<1>4. ASSUME m <= n PROVE m * c <= n * c
  <2>1. n - m \in Nat /\ n = m + (n - m)
    BY <1>4
  <2>2. (n - m) * c \in Nat
    BY <1>1, <2>1
  <2>3. n * c = m * c + (n - m) * c
    BY <1>1, <2>1
  <2>4. QED
    BY <1>3, <2>2, <2>3
<1>5. QED
  BY <1>1, <1>2, <1>3, <1>4

LEMMA FitsFacts ==
    ASSUME NEW s, Fits(s)
    PROVE  /\ s \in Nat /\ NParams \in Nat /\ MaxVars \in Nat /\ MaxDepth \in Nat
           /\ Base \in Nat /\ Modulus \in Nat /\ Base < Modulus
           /\ NParams <= MaxVars /\ Room(MaxVars, s) \in Nat
           /\ Room(MaxVars, s) + 8 * (MaxDepth + 1) <= Base
           /\ Base + 20 + Word * NParams <= Modulus
BY FramesAssumption, RoomFacts DEF Fits, Word

\* Rounding a size up to words takes at most three bytes more.
LEMMA FrameSizeBounds ==
    ASSUME NEW b, b.var_bytes \in U32, b.var_bytes + Word <= Modulus
    PROVE  /\ FrameSize(b) \in U32
           /\ b.var_bytes <= FrameSize(b) /\ FrameSize(b) <= b.var_bytes + 3
           /\ b.var_bytes = 0 => FrameSize(b) = 0
<1>1. /\ b.var_bytes \in Nat /\ Modulus \in Nat /\ Modulus % 4 = 0 /\ Word = 4
      /\ b.var_bytes < Modulus
  BY U32Facts DEF U32, Word
<1>2. b.var_bytes % 4 \in 0 .. 3
  BY <1>1
<1>3. FrameSize(b) \in U32
  BY FrameSizeInU32
<1>4. CASE b.var_bytes % 4 = 0
  <2>1. FrameSize(b) = b.var_bytes
    BY <1>1, <1>4, FrameSizeInU32
  <2>2. QED
    BY <1>1, <1>3, <2>1
<1>5. CASE b.var_bytes % 4 # 0
  <2>1. FrameSize(b) = Plus(b.var_bytes, 4 - (b.var_bytes % 4))
    BY <1>1, <1>5 DEF FrameSize, RoundUp
  <2>2. b.var_bytes # 0
    BY <1>5
  <2>3. Plus(b.var_bytes, 4 - (b.var_bytes % 4)) \in b.var_bytes .. b.var_bytes + 3
    BY <1>1, <1>2, <1>5 DEF Plus
  <2>4. QED
    BY <1>1, <1>3, <2>1, <2>2, <2>3
<1>6. QED
  BY <1>4, <1>5

\* While a block is in the room there is for it nothing wraps: esp is below
\* ebp by what the block has and pushed.
LEMMA EspExact ==
    ASSUME NEW b \in BlockRecord, b.ebp <= Base, Depth(b) + 8 <= Base, Base + Word <= Modulus
    PROVE  /\ Esp(b) = b.ebp - FrameSize(b) - b.pushed
           /\ FrameSize(b) \in Nat
           /\ b.var_bytes <= FrameSize(b) /\ FrameSize(b) <= b.var_bytes + 3
           /\ b.var_bytes = 0 => FrameSize(b) = 0
           /\ Esp(b) >= 5
<1>1. /\ b.var_bytes \in U32 /\ b.ebp \in U32 /\ b.pushed \in U32
      /\ b.var_bytes \in Nat /\ b.ebp \in Nat /\ b.pushed \in Nat
      /\ Base \in Nat /\ Modulus \in Nat /\ Word = 4
  BY U32Facts, FramesAssumption DEF BlockRecord, U32
<1>2. b.ebp - b.var_bytes - b.pushed >= 8
  BY <1>1 DEF Depth
<1>3. b.var_bytes + Word <= Modulus
  BY <1>1, <1>2
<1>4. /\ FrameSize(b) \in Nat /\ FrameSize(b) \in U32
      /\ b.var_bytes <= FrameSize(b) /\ FrameSize(b) <= b.var_bytes + 3
      /\ b.var_bytes = 0 => FrameSize(b) = 0
  BY <1>1, <1>3, FrameSizeBounds DEF U32
<1>5. Minus(Minus(b.ebp, FrameSize(b)), b.pushed) = b.ebp - FrameSize(b) - b.pushed
  BY <1>1, <1>2, <1>4 DEF Minus
<1>6. QED
  BY <1>1, <1>2, <1>4, <1>5 DEF Esp

LEMMA RoundDownRest ==
    ASSUME NEW n \in Nat, NEW size \in Nat \ {0}
    PROVE  n - RoundDown(n, size) \in 0 .. size - 1
<1>1. n = size * (n \div size) + (n % size) /\ n % size \in 0 .. size - 1 /\ n \div size \in Nat
  OBVIOUS
<1>2. (n \div size) * size = size * (n \div size) /\ (n \div size) * size \in Nat
  BY <1>1
<1>3. QED
  BY <1>1, <1>2 DEF RoundDown

\* The parser's wrapped numbers in terms of the bytes they stand for, r of
\* them to align the variable.
LEMMA DeclaredBytes ==
    ASSUME NEW bp \in U32, NEW vb \in U32, NEW ebp \in U32, NEW aligned \in U32,
           NEW size \in Nat \ {0}, NEW r \in 0 .. size - 1,
           aligned = Minus(bp, vb) - r, vb + r + size <= ebp
    PROVE  /\ Minus(Minus(bp, vb), Minus(aligned, size)) = r + size
           /\ Plus(vb, r + size) = vb + r + size
           /\ Plus(ebp, Minus(Minus(aligned, bp), size)) = ebp - vb - r - size
BY U32Facts DEF Minus, Plus, U32

\* What a declaration reserves, and where the variable is.
LEMMA DeclaredNumbers ==
    ASSUME NEW b \in BlockRecord, b.framed, SpFollows(b), NEW size \in Sizes, NEW init \in Inits,
           b.ebp <= Base, Depth(b) + 2 * size + 12 <= Base
    PROVE  LET aligned == RoundDown(b.sp, size)
               offset == Minus(Minus(aligned, b.bp), size)
               d == Minus(b.sp, Minus(aligned, size))
           IN /\ size \in Nat \ {0} /\ d \in size .. 2 * size - 1
              /\ Plus(b.var_bytes, d) = b.var_bytes + d
              /\ Plus(b.ebp, offset) = b.ebp - b.var_bytes - d
              /\ Plus(b.pushed, MemcpyArgs(init)) \in b.pushed .. b.pushed + 12
<1> DEFINE aligned == RoundDown(b.sp, size)
           r == b.sp - aligned
<1>1. /\ b.bp \in U32 /\ b.sp \in U32 /\ b.ebp \in U32 /\ b.var_bytes \in U32 /\ b.pushed \in U32
      /\ b.sp = Minus(b.bp, b.var_bytes)
      /\ b.sp \in Nat /\ b.ebp \in Nat /\ b.var_bytes \in Nat /\ b.pushed \in Nat
      /\ Base \in Nat /\ Modulus \in Nat /\ Base < Modulus
  BY U32Facts DEF BlockRecord, SpFollows, U32
<1>2. size \in Nat \ {0} /\ aligned \in U32 /\ aligned \in Nat
  BY <1>1, FramesAssumption, RoundDownInU32 DEF U32
<1>3. r \in 0 .. size - 1
  BY <1>1, <1>2, RoundDownRest
<1>4. aligned = Minus(b.bp, b.var_bytes) - r
  BY <1>1, <1>2
<1>5. b.ebp - b.var_bytes - b.pushed >= 2 * size + 12
  BY <1>1, <1>2 DEF Depth
<1> HIDE DEF aligned, r
<1>6. b.var_bytes + r + size <= b.ebp
  BY <1>1, <1>2, <1>3, <1>5
<1>7. /\ Minus(Minus(b.bp, b.var_bytes), Minus(aligned, size)) = r + size
      /\ Plus(b.var_bytes, r + size) = b.var_bytes + r + size
      /\ Plus(b.ebp, Minus(Minus(aligned, b.bp), size)) = b.ebp - b.var_bytes - r - size
  <2>1. /\ b.bp \in U32 /\ b.var_bytes \in U32 /\ b.ebp \in U32 /\ aligned \in U32
        /\ size \in Nat \ {0} /\ r \in 0 .. size - 1
        /\ aligned = Minus(b.bp, b.var_bytes) - r /\ b.var_bytes + r + size <= b.ebp
    BY <1>1, <1>2, <1>3, <1>4, <1>6
  <2>2. PICK bp \in U32, vb \in U32, ebp \in U32 : bp = b.bp /\ vb = b.var_bytes /\ ebp = b.ebp
    BY <2>1
  <2>3. aligned = Minus(bp, vb) - r /\ vb + r + size <= ebp
    BY <2>1, <2>2
  <2>4. /\ Minus(Minus(bp, vb), Minus(aligned, size)) = r + size
        /\ Plus(vb, r + size) = vb + r + size
        /\ Plus(ebp, Minus(Minus(aligned, bp), size)) = ebp - vb - r - size
    BY ONLY <2>1, <2>3, DeclaredBytes
  <2>5. QED
    BY <2>2, <2>4
<1>8. Plus(b.pushed, MemcpyArgs(init)) \in b.pushed .. b.pushed + 12
  <2>1. MemcpyArgs(init) \in {0, 12}
    BY DEF MemcpyArgs, Word
  <2>2. b.pushed + 12 < Modulus
    BY <1>1, <1>2, <1>5
  <2>3. QED
    BY <1>1, <2>1, <2>2 DEF Plus
<1>9. r + size \in size .. 2 * size - 1 /\ r \in Nat /\ size \in Nat
  BY <1>2, <1>3
<1>10. QED
  BY <1>1, <1>2, <1>7, <1>8, <1>9 DEF aligned

LEMMA SpentRoom ==
    ASSUME NEW d \in Int, NEW room \in Nat, NEW all \in Nat, NEW n \in Nat, NEW max \in Nat,
           NEW base \in Nat, d <= room + 8 * (n - 1), n <= max + 1, all + 8 * (max + 1) <= base
    PROVE  \A e \in Nat : room + e <= all => d + e + 8 <= base
OBVIOUS

\* The room that is left to the innermost block.
LEMMA RoomLeft ==
    ASSUME NEW s, Fits(s), RoomInv(s)
    PROVE  /\ Innermost \in BlockRecord /\ Innermost.ebp <= Base
           /\ Visible(Len(blocks)) = Len(vars)
           /\ Depth(Innermost) \in Int
           /\ Depth(Innermost) + 8 <= Base /\ Base + Word <= Modulus
           /\ Len(vars) < MaxVars => Depth(Innermost) + 2 * s + 12 + 8 <= Base
<1> DEFINE n == Len(blocks)
<1>1. /\ n \in Nat /\ n >= 1 /\ n \in 1 .. n /\ Innermost = blocks[n] /\ Innermost \in BlockRecord
      /\ Len(vars) \in Nat /\ Len(vars) <= MaxVars /\ n <= MaxDepth + 1
  BY InnermostType DEF RoomInv, FramesInv
<1>2. /\ Innermost.ebp <= Base /\ Visible(n) = Len(vars)
      /\ Depth(Innermost) <= Room(Len(vars), s) + 8 * (n - 1)
  BY <1>1 DEF RoomInv, InRoom, Visible
<1>3. /\ s \in Nat /\ MaxVars \in Nat /\ MaxDepth \in Nat /\ Base \in Nat /\ Modulus \in Nat
      /\ Room(MaxVars, s) \in Nat /\ Room(MaxVars, s) + 8 * (MaxDepth + 1) <= Base
      /\ Base + 20 + Word * NParams <= Modulus /\ NParams \in Nat
  BY FitsFacts
<1>4. Depth(Innermost) \in Int
  <2>1. /\ Innermost.ebp \in U32 /\ Innermost.var_bytes \in U32 /\ Innermost.pushed \in U32
        /\ \A x \in U32 : x \in Int
    BY <1>1, U32Facts DEF BlockRecord, U32
  <2>2. QED
    BY <1>3, <2>1 DEF Depth
<1>5. /\ Room(Len(vars), s) \in Nat
      /\ Room(Len(vars) + 1, s) = Room(Len(vars), s) + 2 * s + 12
  BY <1>1, <1>3, RoomFacts
<1>6. Room(Len(vars), s) <= Room(MaxVars, s)
  BY <1>1, <1>3, RoomFacts
<1>7. Len(vars) < MaxVars => Room(Len(vars) + 1, s) <= Room(MaxVars, s)
  <2>1. Len(vars) + 1 \in Nat /\ (Len(vars) < MaxVars => Len(vars) + 1 <= MaxVars)
    BY <1>1, <1>3
  <2>2. QED
    BY <1>3, <2>1, RoomFacts
<1> HIDE DEF n
<1>8. \A e \in Nat : Room(Len(vars), s) + e <= Room(MaxVars, s) => Depth(Innermost) + e + 8 <= Base
  <2>1. /\ Depth(Innermost) \in Int /\ Room(Len(vars), s) \in Nat /\ Room(MaxVars, s) \in Nat
        /\ n \in Nat /\ MaxDepth \in Nat /\ Base \in Nat
        /\ Depth(Innermost) <= Room(Len(vars), s) + 8 * (n - 1)
        /\ n <= MaxDepth + 1 /\ Room(MaxVars, s) + 8 * (MaxDepth + 1) <= Base
    BY <1>1, <1>2, <1>3, <1>4, <1>5
  <2>2. QED
    BY ONLY <2>1, SpentRoom
<1>9. Base + Word <= Modulus
  BY <1>3 DEF Word
<1>10. Depth(Innermost) + 8 <= Base
  <2>1. Room(Len(vars), s) + 0 <= Room(MaxVars, s) /\ 0 \in Nat
    BY <1>5, <1>6
  <2>2. Depth(Innermost) + 0 + 8 <= Base
    BY <1>8, <2>1
  <2>3. QED
    BY <1>4, <2>2
<1>11. ASSUME Len(vars) < MaxVars PROVE Depth(Innermost) + 2 * s + 12 + 8 <= Base
  <2>1. Room(Len(vars), s) + (2 * s + 12) <= Room(MaxVars, s) /\ 2 * s + 12 \in Nat
    BY <1>3, <1>5, <1>7, <1>11
  <2>2. Depth(Innermost) + (2 * s + 12) + 8 <= Base
    BY <1>8, <2>1
  <2>3. QED
    BY <1>3, <1>4, <2>2
<1>12. QED
  BY <1>1, <1>2, <1>4, <1>9, <1>10, <1>11 DEF n

LEMMA RoomInvInit == ASSUME NEW s, Fits(s), Init PROVE RoomInv(s)
<1>1. /\ s \in Nat /\ NParams \in Nat /\ MaxVars \in Nat /\ MaxDepth \in Nat /\ Base \in Nat
      /\ Modulus \in Nat /\ NParams <= MaxVars /\ Base + 20 + Word * NParams <= Modulus
  BY FitsFacts
<1>2. FramesInv
  BY FramesInvInit
<1>3. ASSUME NEW i \in 1 .. NParams PROVE ArgAddress(i) = Base + 20 + Word * (i - 1)
  <2>1. Base + (20 + Word * (i - 1)) < Modulus
    BY <1>1 DEF Word
  <2>2. Word * (1 + 3 + 1) + Word * (i - 1) = 20 + Word * (i - 1)
    BY <1>1 DEF Word
  <2>3. QED
    BY <1>1, <2>1, <2>2 DEF ArgAddress, Plus, Word
<1>4. /\ Len(vars) = NParams
      /\ \A i \in 1 .. NParams : vars[i].at = Base + 20 + Word * (i - 1) /\ vars[i].size = Word
  BY <1>1, <1>3 DEF Init
<1>5. /\ Len(blocks) = 1 /\ blocks[1].ebp = Base /\ blocks[1].framed /\ blocks[1].var_bytes = 0
      /\ blocks[1].pushed = 0 /\ blocks[1].old_vars = NParams
  BY DEF Init
<1>6. \A i \in 1 .. NParams : vars[i].at \in Nat /\ vars[i].at >= Base + 20
  BY <1>1, <1>4 DEF Word
<1>7. InRoom(1, s)
  <2>1. Depth(blocks[1]) = 0 /\ Low(blocks[1]) = Base
    BY <1>1, <1>5 DEF Depth, Low
  <2>2. Visible(1) = NParams /\ Room(NParams, s) \in Nat
    BY <1>1, <1>4, <1>5, RoomFacts DEF Visible
  <2>3. Depth(blocks[1]) <= Room(Visible(1), s) + 8 * (1 - 1)
    BY <2>1, <2>2
  <2>4. QED
    BY <1>1, <1>5, <1>6, <2>1, <2>2, <2>3 DEF InRoom
<1>8. Apart
  <2>1. \A i \in 1 .. Len(vars) : IsParam(i)
    BY <1>1, <1>4 DEF IsParam
  <2>2. \A i \in 1 .. Len(vars), k \in 1 .. Len(blocks) : ClearOf(vars[i], blocks[k])
    BY <1>1, <1>4, <1>5, <1>6 DEF ClearOf, Word
  <2>3. QED
    BY <1>1, <1>5, <2>1, <2>2 DEF Apart
<1>9. QED
  BY <1>1, <1>2, <1>4, <1>5, <1>7, <1>8 DEF RoomInv

\* What opening a block or a body leaves as it was.
LEMMA OpenedSame ==
    ASSUME TypeInv, NEW new \in BlockRecord, NEW n \in Nat, n = Len(blocks),
           new.old_vars = Len(vars), vars' = vars,
           blocks' = Append(SetInnermost([Innermost EXCEPT !.can_decl = FALSE]), new)
    PROVE  /\ Len(blocks') = n + 1 /\ blocks'[n + 1] = new
           /\ Visible(n + 1)' = Len(vars) /\ Visible(n) = Len(vars)
           /\ \A k \in 1 .. n :
                /\ blocks'[k].ebp = blocks[k].ebp /\ blocks'[k].framed = blocks[k].framed
                /\ blocks'[k].var_bytes = blocks[k].var_bytes
                /\ blocks'[k].pushed = blocks[k].pushed
                /\ blocks'[k].old_vars = blocks[k].old_vars
                /\ Visible(k)' = Visible(k)
<1> DEFINE old == [Innermost EXCEPT !.can_decl = FALSE]
<1>1. /\ n >= 1 /\ n \in 1 .. n /\ Innermost = blocks[n] /\ Innermost \in BlockRecord
      /\ Len(vars) \in Nat
  BY InnermostType
<1>2. /\ old \in BlockRecord /\ old.old_vars = Innermost.old_vars
      /\ old.ebp = Innermost.ebp /\ old.framed = Innermost.framed
      /\ old.var_bytes = Innermost.var_bytes /\ old.pushed = Innermost.pushed
  BY <1>1 DEF BlockRecord
<1> HIDE DEF old
<1>3. /\ Len(blocks') = n + 1
      /\ \A k \in 1 .. n - 1 : blocks'[k] = blocks[k]
      /\ blocks'[n] = old /\ blocks'[n + 1] = new
      /\ \A k \in 1 .. n : blocks'[k].old_vars = blocks[k].old_vars
  <2>1. blocks' = Append(SetInnermost(old), new)
    BY DEF old
  <2>2. QED
    BY <1>1, <1>2, <2>1, Opened
<1>4. Visible(n + 1)' = Len(vars) /\ Visible(n) = Len(vars)
  BY <1>1, <1>3 DEF Visible
<1>5. ASSUME NEW k \in 1 .. n
      PROVE  /\ blocks'[k].ebp = blocks[k].ebp /\ blocks'[k].framed = blocks[k].framed
             /\ blocks'[k].var_bytes = blocks[k].var_bytes
             /\ blocks'[k].pushed = blocks[k].pushed
  <2>1. CASE k = n
    BY <1>1, <1>2, <1>3, <2>1
  <2>2. CASE k # n
    <3>1. k \in 1 .. n - 1
      BY <1>1, <2>2
    <3>2. QED
      BY <1>3, <3>1
  <2>3. QED
    BY <2>1, <2>2
<1>6. ASSUME NEW k \in 1 .. n PROVE Visible(k)' = Visible(k)
  <2>1. CASE k = n
    BY <1>1, <1>3, <2>1 DEF Visible
  <2>2. CASE k # n
    <3>1. k + 1 \in 1 .. n /\ k # n + 1
      BY <1>1, <2>2
    <3>2. QED
      BY <1>1, <1>3, <2>2, <3>1 DEF Visible
  <2>3. QED
    BY <2>1, <2>2
<1>7. QED
  BY <1>3, <1>4, <1>5, <1>6

LEMMA BlockInts ==
    ASSUME NEW b \in BlockRecord
    PROVE  /\ b.ebp \in Nat /\ b.var_bytes \in Nat /\ b.pushed \in Nat
           /\ Depth(b) \in Int /\ Low(b) \in Int
<1>1. b.ebp \in U32 /\ b.var_bytes \in U32 /\ b.pushed \in U32
  BY DEF BlockRecord
<1>2. \A x \in U32 : x \in Nat
  BY U32Facts DEF U32
<1>3. b.ebp \in Nat /\ b.var_bytes \in Nat /\ b.pushed \in Nat /\ Base \in Nat
  BY <1>1, <1>2, U32Facts
<1>4. QED
  BY <1>3 DEF Depth, Low

LEMMA VarInts ==
    ASSUME TypeInv, NEW i \in 1 .. Len(vars)
    PROVE  vars[i].at \in Nat /\ vars[i].size \in Nat
<1>1. vars[i] \in VarRecord
  BY InnermostType, ElementOfSeq
<1>2. QED
  BY <1>1, U32Facts DEF VarRecord, U32

\* Opening a block or body that lies below what its surroundings have and
\* takes no more than eight bytes for itself.
LEMMA OpenedRoom ==
    ASSUME NEW s, Fits(s), RoomInv(s), FramesInv', Len(blocks) < MaxDepth,
           NEW new \in BlockRecord, new.old_vars = Len(vars), vars' = vars,
           blocks' = Append(SetInnermost([Innermost EXCEPT !.can_decl = FALSE]), new),
           new.var_bytes = 0, new.ebp <= Innermost.ebp, Low(new) <= Low(Innermost),
           Depth(new) <= Depth(Innermost) + 8,
           \A i \in 1 .. Len(vars) : ClearOf(vars[i], new)
    PROVE  RoomInv(s)'
<1>0. PICK n \in Nat : n = Len(blocks)       \* rigid: n' is n
  BY InnermostType DEF RoomInv, FramesInv
<1>1. /\ n >= 1 /\ n \in 1 .. n /\ Innermost = blocks[n] /\ Innermost \in BlockRecord
      /\ \A k \in 1 .. n : blocks[k] \in BlockRecord
      /\ Len(vars) \in Nat /\ vars \in Seq(VarRecord)
  BY <1>0, InnermostType DEF RoomInv, FramesInv
<1>2. /\ s \in Nat /\ NParams \in Nat /\ MaxDepth \in Nat /\ Base \in Nat /\ Room(Len(vars), s) \in Nat
  BY <1>1, FitsFacts, RoomFacts
<1>3. /\ Len(blocks') = n + 1 /\ blocks'[n + 1] = new
      /\ Visible(n + 1)' = Len(vars) /\ Visible(n) = Len(vars)
      /\ \A k \in 1 .. n :
           /\ blocks'[k].ebp = blocks[k].ebp /\ blocks'[k].framed = blocks[k].framed
           /\ blocks'[k].var_bytes = blocks[k].var_bytes
           /\ blocks'[k].pushed = blocks[k].pushed
           /\ blocks'[k].old_vars = blocks[k].old_vars
           /\ Visible(k)' = Visible(k)
  BY <1>0, OpenedSame DEF RoomInv, FramesInv
<1>4. \A k \in 1 .. n : InRoom(k, s)
  BY <1>0 DEF RoomInv
<1>5. ASSUME NEW k \in 1 .. n PROVE InRoom(k, s)'
  <2>1. InRoom(k, s)
    BY <1>4
  <2>2. QED
    BY <1>3, <2>1 DEF InRoom, Depth, Low
<1>6. ASSUME NEW m \in Nat, m = n + 1 PROVE InRoom(m, s)'
  <2>1. \A b \in BlockRecord : b.ebp \in Int /\ Depth(b) \in Int /\ Low(b) \in Int
    BY BlockInts
  <2>2. /\ Innermost.ebp <= Base /\ Innermost.old_vars >= NParams
        /\ Depth(Innermost) <= Room(Len(vars), s) + 8 * (n - 1)
        /\ \A i \in 1 .. Len(vars) : vars[i].at >= Low(Innermost)
    BY <1>1, <1>3, <1>4 DEF InRoom
  <2>3. /\ new.ebp <= Base
        /\ Depth(new) <= Room(Len(vars), s) + 8 * (m - 1)
    <3>1. /\ new.ebp \in Int /\ Innermost.ebp \in Int
          /\ Depth(new) \in Int /\ Depth(Innermost) \in Int
      BY <1>1, <2>1
    <3>2. new.ebp <= Innermost.ebp /\ Depth(new) <= Depth(Innermost) + 8
      OBVIOUS
    <3>3. m = n + 1 /\ n \in Nat
      BY <1>6
    <3>4. PICK x \in Int, y \in Int, r \in Nat : x = Depth(new) /\ y = Depth(Innermost) /\ r = Room(Len(vars), s)
      BY ONLY <1>2, <3>1
    <3>5. x <= y + 8 /\ y <= r + 8 * (n - 1)
      BY ONLY <2>2, <3>2, <3>4
    <3>6. x <= r + 8 * (m - 1)
      BY ONLY <3>3, <3>5
    <3>7. new.ebp <= Base
      BY ONLY <1>2, <2>2, <3>1, <3>2
    <3>8. QED
      BY ONLY <3>4, <3>6, <3>7
  <2>4. Len(vars) >= NParams
    <3>1. Innermost.old_vars <= Len(vars)
      BY <1>0, <1>1 DEF RoomInv, FramesInv, TypeInv, Scopes
    <3>2. Innermost.old_vars \in Nat /\ Innermost.old_vars >= NParams
      BY <1>1, <2>2 DEF BlockRecord
    <3>3. QED
      BY ONLY <1>1, <1>2, <3>1, <3>2
  <2>5. \A i \in 1 .. Len(vars) : vars[i].at >= Low(new)
    <3>1. \A i \in 1 .. Len(vars) : vars[i].at \in Int
      BY VarInts DEF RoomInv, FramesInv
    <3>2. Low(new) \in Int /\ Low(Innermost) \in Int /\ Low(new) <= Low(Innermost)
      BY <1>1, <2>1
    <3>3. QED
      BY ONLY <2>2, <3>1, <3>2
  <2>6. blocks'[m] = new /\ Visible(m)' = Len(vars)
    BY <1>3, <1>6
  <2>7. QED
    BY <2>3, <2>4, <2>5, <2>6 DEF InRoom, Depth, Low
<1>7. \A k \in 1 .. n + 1 : InRoom(k, s)'
  <2> TAKE k \in 1 .. n + 1
  <2>1. k \in Nat /\ (k \in 1 .. n \/ k = n + 1)
    BY <1>1
  <2>2. QED
    BY <1>5, <1>6, <2>1
<1>8. Apart'
  <2>1. \A i \in 1 .. Len(vars) : IsParam(i)' \/ IsLocal(i)'
    BY DEF RoomInv, Apart, IsParam, IsLocal
  <2>2. ASSUME NEW i \in 1 .. Len(vars), NEW k \in 1 .. n + 1 PROVE ClearOf(vars[i], blocks'[k])
    <3>1. CASE k = n + 1
      BY <1>3, <3>1
    <3>2. CASE k # n + 1
      <4>1. k \in 1 .. n
        BY <1>1, <3>2
      <4>2. ClearOf(vars[i], blocks[k])
        BY <1>0, <4>1 DEF RoomInv, Apart
      <4>3. QED
        BY <1>3, <4>1, <4>2 DEF ClearOf
    <3>3. QED
      BY <3>1, <3>2
  <2>3. ASSUME NEW j \in 1 .. n + 1, NEW k \in 1 .. n + 1, j <= k PROVE blocks'[k].ebp <= blocks'[j].ebp
    <3>1. \A a, b \in 1 .. n : a <= b => blocks[b].ebp <= blocks[a].ebp
      BY <1>0 DEF RoomInv, Apart
    <3>2. \A b \in BlockRecord : b.ebp \in Int
      BY U32Facts DEF U32, BlockRecord
    <3>3. CASE k # n + 1
      <4>1. j \in 1 .. n /\ k \in 1 .. n
        BY <1>1, <2>3, <3>3
      <4>2. QED
        BY <1>3, <2>3, <3>1, <4>1
    <3>4. CASE k = n + 1 /\ j # n + 1
      <4>1. j \in 1 .. n /\ j <= n
        BY <1>1, <3>4
      <4>2. new.ebp <= blocks[j].ebp
        <5>1. Innermost.ebp <= blocks[j].ebp /\ new.ebp <= Innermost.ebp
          BY <1>1, <3>1, <4>1
        <5>2. Innermost.ebp \in Int /\ blocks[j].ebp \in Int /\ new.ebp \in Int
          BY <1>1, <3>2, <4>1
        <5>3. PICK x \in Int, y \in Int, z \in Int :
                x = Innermost.ebp /\ y = blocks[j].ebp /\ z = new.ebp
          BY ONLY <5>2
        <5>4. z <= y
          BY ONLY <5>1, <5>3
        <5>5. QED
          BY ONLY <5>3, <5>4
      <4>3. QED
        BY <1>3, <3>4, <4>1, <4>2
    <3>5. CASE k = n + 1 /\ j = n + 1
      BY <1>3, <3>2, <3>5
    <3>6. QED
      BY <3>3, <3>4, <3>5
  <2>4. QED
    BY <1>3, <2>1, <2>2, <2>3 DEF Apart
<1>9. Len(vars') <= MaxVars /\ Len(blocks') <= MaxDepth + 1
  <2>1. Len(vars) <= MaxVars /\ vars' = vars /\ n < MaxDepth
    BY <1>0 DEF RoomInv
  <2>2. n + 1 <= MaxDepth + 1
    BY <1>2, <2>1
  <2>3. QED
    BY <1>3, <2>1, <2>2
<1>10. QED
  BY <1>3, <1>7, <1>8, <1>9 DEF RoomInv

\* esp is below all that the block has, and far enough from 0.
LEMMA EspBelow ==
    ASSUME NEW s, Fits(s), RoomInv(s)
    PROVE  LET b == Innermost IN
           /\ FrameSize(b) \in Nat /\ FrameSize(b) <= b.var_bytes + 3
           /\ Esp(b) \in Nat /\ Esp(b) = b.ebp - FrameSize(b) - b.pushed /\ Esp(b) >= 5
           /\ Esp(b) <= Low(b) /\ Base - Esp(b) <= Depth(b) + 3
           /\ \A i \in 1 .. Len(vars) : vars[i].at >= Low(b)
<1> DEFINE b == Innermost
<1>1. /\ b \in BlockRecord /\ b.ebp <= Base /\ Visible(Len(blocks)) = Len(vars)
      /\ Depth(b) + 8 <= Base /\ Base + Word <= Modulus
  BY RoomLeft
<1>2. /\ b = blocks[Len(blocks)] /\ Len(blocks) \in 1 .. Len(blocks)
  BY InnermostType DEF RoomInv, FramesInv
<1>3. InRoom(Len(blocks), s)
  BY <1>2 DEF RoomInv
<1>4. /\ b.ebp \in Nat /\ b.var_bytes \in Nat /\ b.pushed \in Nat /\ Base \in Nat
      /\ Depth(b) \in Int /\ Low(b) \in Int
  BY <1>1, BlockInts, FitsFacts
<1>5. \A i \in 1 .. Len(vars) : vars[i].at >= Low(b)
  BY <1>1, <1>2, <1>3 DEF InRoom
<1> HIDE DEF b
<1>6. /\ Esp(b) = b.ebp - FrameSize(b) - b.pushed /\ Esp(b) >= 5
      /\ FrameSize(b) \in Nat
      /\ b.var_bytes <= FrameSize(b) /\ FrameSize(b) <= b.var_bytes + 3
  BY <1>1, EspExact
<1>7. Esp(b) <= Low(b) /\ Base - Esp(b) <= Depth(b) + 3
  BY <1>4, <1>6 DEF Low, Depth
<1>8. Esp(b) \in Nat
  BY <1>4, <1>6
<1>9. QED
  BY <1>5, <1>6, <1>7, <1>8 DEF b

LEMMA OpenBlockRoom ==
    ASSUME NEW s, Fits(s), RoomInv(s), FramesInv', OpenBlock
    PROVE  RoomInv(s)'
<1> DEFINE b == Innermost
           bp == Minus(b.sp, Word)
           new == NewBlock(bp, bp, TRUE, Minus(Esp(b), Word), 0)
<1>1. /\ FrameSize(b) \in Nat /\ FrameSize(b) <= b.var_bytes + 3
      /\ Esp(b) \in Nat /\ Esp(b) = b.ebp - FrameSize(b) - b.pushed /\ Esp(b) >= 5
      /\ Esp(b) <= Low(b) /\ Base - Esp(b) <= Depth(b) + 3
      /\ \A i \in 1 .. Len(vars) : vars[i].at >= Low(b)
  BY EspBelow
<1>2. /\ b \in BlockRecord /\ b.ebp \in Nat /\ b.pushed \in Nat /\ Base \in Nat
      /\ Depth(b) \in Int /\ Low(b) \in Int
  BY RoomLeft, BlockInts, FitsFacts
<1>3. new \in BlockRecord /\ new.old_vars = Len(vars)
  BY OpenedTypes DEF RoomInv, FramesInv, NewBlock
<1>4. /\ Len(blocks) < MaxDepth /\ vars' = vars
      /\ blocks' = Append(SetInnermost([b EXCEPT !.can_decl = FALSE]), new)
  BY DEF OpenBlock, CanNest
<1>5. new.framed /\ new.var_bytes = 0 /\ new.pushed = 0 /\ new.ebp = Minus(Esp(b), Word)
  BY DEF NewBlock
<1> HIDE DEF new, b, bp
<1>6. new.ebp = Esp(b) - 4
  <2>1. Esp(b) >= 4
    BY ONLY <1>1
  <2>2. Minus(Esp(b), 4) = Esp(b) - 4
    BY ONLY <2>1 DEF Minus
  <2>3. QED
    BY <1>5, <2>2 DEF Word
<1>7. /\ new.ebp <= b.ebp /\ new.ebp \in Nat
      /\ Low(new) = Esp(b) - 4 /\ Low(new) <= Low(b)
      /\ Depth(new) = Base - Esp(b) + 4 /\ Depth(new) <= Depth(b) + 8
  <2>0. PICK e \in Nat, p \in Nat, f \in Nat, q \in Nat, d \in Int, l \in Int :
          /\ e = Esp(b) /\ p = b.ebp /\ f = FrameSize(b) /\ q = b.pushed
          /\ d = Depth(b) /\ l = Low(b)
    BY ONLY <1>1, <1>2
  <2>1. new.ebp \in Nat /\ new.ebp <= b.ebp
    <3>1. e = p - f - q /\ e >= 5
      BY ONLY <1>1, <2>0
    <3>2. e - 4 \in Nat /\ e - 4 <= p
      BY ONLY <3>1
    <3>3. QED
      BY ONLY <1>6, <2>0, <3>2
  <2>2. Low(new) = Esp(b) - 4
    BY ONLY <1>1, <1>5, <1>6 DEF Low
  <2>3. Depth(new) = Base - Esp(b) + 4
    BY ONLY <1>1, <1>2, <1>5, <1>6 DEF Depth
  <2>4. Low(new) <= Low(b) /\ Depth(new) <= Depth(b) + 8
    <3>1. e <= l /\ Base - e <= d + 3 /\ Base \in Nat
      BY ONLY <1>1, <1>2, <2>0
    <3>2. e - 4 <= l /\ Base - e + 4 <= d + 8
      BY ONLY <3>1
    <3>3. QED
      BY ONLY <2>0, <2>2, <2>3, <3>2
  <2>5. QED
    BY <2>1, <2>2, <2>3, <2>4
<1>8. ASSUME NEW i \in 1 .. Len(vars) PROVE ClearOf(vars[i], new)
  <2>1. vars[i].at \in Nat /\ vars[i].at >= Low(b)
    BY <1>1, VarInts DEF RoomInv, FramesInv
  <2>2. vars[i].at >= new.ebp + Word
    BY <1>1, <1>2, <1>6, <2>1 DEF Word
  <2>3. QED
    BY <2>2 DEF ClearOf
<1>9. QED
  BY <1>3, <1>4, <1>5, <1>7, <1>8, OpenedRoom DEF b

LEMMA OpenBodyRoom ==
    ASSUME NEW s, Fits(s), RoomInv(s), FramesInv', OpenBody
    PROVE  RoomInv(s)'
<1> DEFINE b == Innermost
           pushed == Plus(FrameSize(b), b.pushed)
           new == NewBlock(b.bp, b.sp, FALSE, b.ebp, pushed)
<1>1. /\ FrameSize(b) \in Nat /\ FrameSize(b) <= b.var_bytes + 3
      /\ Esp(b) \in Nat /\ Esp(b) = b.ebp - FrameSize(b) - b.pushed /\ Esp(b) >= 5
      /\ Esp(b) <= Low(b) /\ Base - Esp(b) <= Depth(b) + 3
  BY EspBelow
<1>2. /\ b \in BlockRecord /\ b.ebp \in Nat /\ b.pushed \in Nat /\ Base \in Nat
      /\ b.ebp <= Base /\ Base + Word <= Modulus /\ Modulus \in Nat
      /\ Depth(b) \in Int /\ Low(b) \in Int
  BY RoomLeft, BlockInts, FitsFacts
<1>3. new \in BlockRecord /\ new.old_vars = Len(vars)
  BY OpenedTypes DEF RoomInv, FramesInv, NewBlock
<1>4. /\ Len(blocks) < MaxDepth /\ vars' = vars
      /\ blocks' = Append(SetInnermost([b EXCEPT !.can_decl = FALSE]), new)
  BY DEF OpenBody, CanNest
<1>5. ~new.framed /\ new.var_bytes = 0 /\ new.pushed = pushed /\ new.ebp = b.ebp
  BY DEF NewBlock
<1>6. pushed = FrameSize(b) + b.pushed
  BY <1>1, <1>2 DEF Plus, Word
<1> HIDE DEF new, b, pushed
<1>7. /\ new.ebp <= b.ebp
      /\ Low(new) = Esp(b) /\ Low(new) <= Low(b)
      /\ Depth(new) = Base - Esp(b) /\ Depth(new) <= Depth(b) + 8
  BY <1>1, <1>2, <1>5, <1>6 DEF Low, Depth
<1>8. ASSUME NEW i \in 1 .. Len(vars) PROVE ClearOf(vars[i], new)
  <2>1. ClearOf(vars[i], b)
    BY InnermostType DEF RoomInv, FramesInv, Apart, b
  <2>2. QED
    BY <1>5, <2>1 DEF ClearOf
<1>9. QED
  BY <1>3, <1>4, <1>5, <1>7, <1>8, OpenedRoom DEF b

\* What the end of a block leaves as it was.
LEMMA ClosedSame ==
    ASSUME TypeInv, Close, NEW n \in Nat, n = Len(blocks)
    PROVE  /\ n > 1 /\ Len(blocks') = n - 1
           /\ Len(vars') \in Nat /\ Len(vars) \in Nat /\ Len(vars') <= Len(vars)
           /\ \A i \in 1 .. Len(vars') : i \in 1 .. Len(vars) /\ vars'[i] = vars[i]
           /\ \A k \in 1 .. n - 1 :
                /\ k \in 1 .. n /\ blocks'[k] = blocks[k] /\ Visible(k)' = Visible(k)
                /\ \A i \in 1 .. Visible(k) : i \in 1 .. Len(vars')
<1>1. /\ n > 1 /\ Innermost = blocks[n] /\ Len(blocks') = n - 1 /\ Len(vars) \in Nat
      /\ \A k \in 1 .. n - 1 : blocks'[k] = blocks[k]
      /\ Innermost.old_vars <= Len(vars) /\ Len(vars') = Innermost.old_vars
      /\ \A i \in 1 .. Innermost.old_vars : vars'[i] = vars[i]
  BY Closed, InnermostType
<1>2. /\ \A k \in 1 .. n : blocks[k].old_vars \in Nat
      /\ \A j, k \in 1 .. n : j <= k => blocks[j].old_vars <= blocks[k].old_vars
  BY <1>1, InnermostType DEF TypeInv, Scopes, BlockRecord
<1>3. n \in 1 .. n /\ Innermost.old_vars \in Nat
  BY <1>1, <1>2
<1>4. ASSUME NEW k \in 1 .. n - 1
      PROVE  /\ k \in 1 .. n /\ Visible(k)' = Visible(k)
             /\ Visible(k) \in Nat /\ Visible(k) <= Len(vars')
  <2>1. k \in 1 .. n /\ k + 1 \in 1 .. n /\ k # n /\ k + 1 <= n
    BY <1>1
  <2>2. Visible(k) = blocks[k + 1].old_vars
    BY <1>1, <2>1 DEF Visible
  <2>3. Visible(k)' = Visible(k)
    <3>1. CASE k = n - 1
      BY <1>1, <2>2, <3>1 DEF Visible
    <3>2. CASE k # n - 1
      <4>1. k + 1 \in 1 .. n - 1
        BY <1>1, <3>2
      <4>2. QED
        BY <1>1, <2>2, <3>2, <4>1 DEF Visible
    <3>3. QED
      BY <3>1, <3>2
  <2>4. QED
    BY <1>1, <1>2, <1>3, <2>1, <2>2, <2>3
<1>5. \A i \in 1 .. Len(vars') : i \in 1 .. Len(vars) /\ vars'[i] = vars[i]
  BY <1>1, <1>3
<1>6. QED
  BY <1>1, <1>3, <1>4, <1>5

LEMMA CloseRoom ==
    ASSUME NEW s, Fits(s), RoomInv(s), FramesInv', Close
    PROVE  RoomInv(s)'
<1>0. PICK n \in Nat : n = Len(blocks)       \* rigid: n' is n
  BY InnermostType DEF RoomInv, FramesInv
<1>1. /\ n > 1 /\ Len(blocks') = n - 1
      /\ Len(vars') \in Nat /\ Len(vars) \in Nat /\ Len(vars') <= Len(vars)
      /\ \A i \in 1 .. Len(vars') : i \in 1 .. Len(vars) /\ vars'[i] = vars[i]
      /\ \A k \in 1 .. n - 1 :
           /\ k \in 1 .. n /\ blocks'[k] = blocks[k] /\ Visible(k)' = Visible(k)
           /\ \A i \in 1 .. Visible(k) : i \in 1 .. Len(vars')
  BY <1>0, ClosedSame DEF RoomInv, FramesInv
<1>2. ASSUME NEW k \in 1 .. n - 1 PROVE InRoom(k, s)'
  <2>1. InRoom(k, s)
    BY <1>0, <1>1 DEF RoomInv
  <2>2. QED
    BY <1>1, <2>1 DEF InRoom, Depth, Low
<1>3. Apart'
  <2>1. ASSUME NEW i \in 1 .. Len(vars') PROVE (IsParam(i) \/ IsLocal(i))'
    <3>1. IsParam(i) \/ IsLocal(i)
      BY <1>1 DEF RoomInv, Apart
    <3>2. \A h \in 1 .. i - 1 : h \in 1 .. Len(vars')
      BY <1>1
    <3>3. QED
      BY <1>1, <3>1, <3>2 DEF IsParam, IsLocal
  <2>2. \A i \in 1 .. Len(vars'), k \in 1 .. n - 1 : ClearOf(vars[i], blocks[k])
    BY <1>0, <1>1 DEF RoomInv, Apart
  <2>3. \A j, k \in 1 .. n - 1 : j <= k => blocks[k].ebp <= blocks[j].ebp
    BY <1>0, <1>1 DEF RoomInv, Apart
  <2>4. QED
    BY <1>1, <2>1, <2>2, <2>3 DEF Apart, ClearOf
<1>4. Len(vars') <= MaxVars /\ Len(blocks') <= MaxDepth + 1
  <2>1. Len(vars) <= MaxVars /\ n <= MaxDepth + 1 /\ MaxVars \in Nat /\ MaxDepth \in Nat
    BY <1>0, FitsFacts DEF RoomInv
  <2>2. QED
    BY <1>1, <2>1
<1>5. QED
  BY <1>1, <1>2, <1>3, <1>4 DEF RoomInv

\* A declaration takes its variable and its alignment from below all that the
\* block has.
LEMMA DeclaredInRoom ==
    ASSUME NEW b \in BlockRecord, NEW size \in Sizes, NEW init \in Inits, NEW s \in Nat,
           b.framed, SpFollows(b), size <= s, b.ebp <= Base, Depth(b) + 2 * s + 12 + 8 <= Base
    PROVE  LET aligned == RoundDown(b.sp, size)
               offset == Minus(Minus(aligned, b.bp), size)
               sp == Minus(aligned, size)
               c == [b EXCEPT !.sp = sp, !.var_bytes = Plus(@, Minus(b.sp, sp)),
                              !.pushed = Plus(@, MemcpyArgs(init))]
           IN /\ Plus(b.ebp, offset) = Low(c) /\ Low(c) + size <= Low(b) /\ Low(b) <= b.ebp
              /\ Depth(c) <= Depth(b) + (2 * s + 12)
              /\ size \in Nat /\ Low(c) \in Int /\ Depth(c) \in Int
<1> DEFINE aligned == RoundDown(b.sp, size)
           offset == Minus(Minus(aligned, b.bp), size)
           sp == Minus(aligned, size)
           d == Minus(b.sp, sp)
           c == [b EXCEPT !.sp = sp, !.var_bytes = Plus(@, Minus(b.sp, sp)),
                          !.pushed = Plus(@, MemcpyArgs(init))]
<1>1. /\ b.ebp \in Nat /\ b.var_bytes \in Nat /\ b.pushed \in Nat /\ Base \in Nat
      /\ Depth(b) \in Int /\ Low(b) \in Int
  BY BlockInts, U32Facts
<1>2. size \in Nat
  BY FramesAssumption
<1>3. Depth(b) + 2 * size + 12 <= Base
  BY <1>1, <1>2
<1>4. /\ d \in size .. 2 * size - 1
      /\ Plus(b.var_bytes, d) = b.var_bytes + d
      /\ Plus(b.ebp, offset) = b.ebp - b.var_bytes - d
      /\ Plus(b.pushed, MemcpyArgs(init)) \in b.pushed .. b.pushed + 12
  BY <1>3, DeclaredNumbers
<1>5. /\ c.ebp = b.ebp /\ c.framed /\ c.var_bytes = Plus(b.var_bytes, d)
      /\ c.pushed = Plus(b.pushed, MemcpyArgs(init))
  BY DEF BlockRecord
<1> HIDE DEF aligned, offset, sp, d, c
<1>6. PICK p \in Nat, w \in Nat, q \in Nat, e \in Nat, r \in Nat :
        /\ p = b.ebp /\ w = b.var_bytes /\ q = b.pushed /\ e = d
        /\ r = Plus(b.pushed, MemcpyArgs(init))
  <2>1. /\ d \in Nat /\ Plus(b.pushed, MemcpyArgs(init)) \in Nat
    BY <1>1, <1>2, <1>4
  <2>2. QED
    BY <1>1, <2>1
<1>7. e >= size /\ e <= 2 * size - 1 /\ r <= q + 12
  BY ONLY <1>2, <1>4, <1>6
<1>8. /\ Low(b) = p - w /\ Low(c) = p - (w + e) /\ Plus(b.ebp, offset) = p - w - e
      /\ Depth(b) = Base - p + w + q /\ Depth(c) = Base - p + (w + e) + r
  BY ONLY <1>4, <1>5, <1>6, b.framed DEF Low, Depth
<1>9. /\ Plus(b.ebp, offset) = Low(c) /\ Low(c) + size <= Low(b) /\ Low(b) <= b.ebp
      /\ Low(c) \in Int /\ Depth(c) \in Int
  BY ONLY <1>1, <1>2, <1>6, <1>7, <1>8
<1>10. Depth(c) <= Depth(b) + (2 * s + 12)
  <2>1. Base - p + (w + e) + r <= Base - p + w + q + (2 * s + 12)
    BY ONLY size <= s, s \in Nat, <1>1, <1>2, <1>6, <1>7
  <2>2. QED
    BY ONLY <1>8, <2>1
<1>11. QED
  BY <1>2, <1>9, <1>10 DEF aligned, offset, sp, c

LEMMA DeclareRoom ==
    ASSUME NEW s, Fits(s), RoomInv(s), FramesInv',
           NEW size \in Sizes, NEW init \in Inits, Declare(size, init)
    PROVE  RoomInv(s)'
<1>0. PICK n \in Nat, m \in Nat : n = Len(blocks) /\ m = Len(vars)      \* rigid
  BY InnermostType DEF RoomInv, FramesInv
<1> DEFINE b == Innermost
           aligned == RoundDown(b.sp, size)
           offset == Minus(Minus(aligned, b.bp), size)
           sp == Minus(aligned, size)
           v == [stack_pos |-> Plus(offset, b.bp), size |-> size, at |-> Plus(b.ebp, offset)]
           c == [b EXCEPT !.sp = sp, !.var_bytes = Plus(@, Minus(b.sp, sp)),
                          !.pushed = Plus(@, MemcpyArgs(init))]
<1>1. /\ n >= 1 /\ n \in 1 .. n /\ b = blocks[n] /\ b \in BlockRecord
      /\ \A k \in 1 .. n : blocks[k] \in BlockRecord
  BY <1>0, InnermostType DEF RoomInv, FramesInv
<1>2. /\ s \in Nat /\ NParams \in Nat /\ MaxVars \in Nat /\ Base \in Nat
      /\ size \in Nat /\ size <= s
      /\ Room(m, s) \in Nat /\ Room(m + 1, s) = Room(m, s) + (2 * s + 12)
  <2>1. s \in Nat /\ NParams \in Nat /\ MaxVars \in Nat /\ Base \in Nat
    BY FitsFacts
  <2>2. size \in Nat /\ size <= s
    BY FramesAssumption DEF Fits
  <2>3. Room(m, s) \in Nat /\ Room(m + 1, s) = Room(m, s) + 2 * s + 12
    BY ONLY <2>1, m \in Nat, RoomFacts
  <2>4. QED
    BY <2>1, <2>2, <2>3
<1>3. /\ m < MaxVars /\ b.framed /\ vars' = Append(vars, v) /\ blocks' = SetInnermost(c)
  BY <1>0 DEF Declare
<1>4. /\ b.ebp <= Base /\ Depth(b) + 2 * s + 12 + 8 <= Base /\ SpFollows(b)
      /\ Visible(n) = m
  BY <1>0, <1>1, <1>3, RoomLeft DEF RoomInv, FramesInv, Layout
<1>5. /\ v.at = Low(c) /\ v.size = size
      /\ Low(c) + size <= Low(b) /\ Low(b) <= b.ebp
      /\ Depth(c) <= Depth(b) + (2 * s + 12)
      /\ Low(c) \in Int /\ Depth(c) \in Int
  <2>1. /\ Plus(b.ebp, offset) = Low(c) /\ Low(c) + size <= Low(b) /\ Low(b) <= b.ebp
        /\ Depth(c) <= Depth(b) + (2 * s + 12) /\ Low(c) \in Int /\ Depth(c) \in Int
    <3> HIDE DEF b
    <3>1. /\ b \in BlockRecord /\ s \in Nat /\ b.framed /\ SpFollows(b) /\ size <= s
          /\ b.ebp <= Base /\ Depth(b) + 2 * s + 12 + 8 <= Base
      BY ONLY <1>1, <1>2, <1>3, <1>4
    <3>2. QED
      BY ONLY <3>1, size \in Sizes, init \in Inits, DeclaredInRoom
  <2>2. v.at = Plus(b.ebp, offset) /\ v.size = size
    OBVIOUS
  <2>3. QED
    BY ONLY <2>1, <2>2
<1>6. v \in VarRecord /\ c \in BlockRecord
  BY DeclaredTypes DEF RoomInv, FramesInv
<1>7. c.old_vars = b.old_vars /\ c.ebp = b.ebp /\ c.framed = b.framed
  BY <1>1 DEF BlockRecord
<1>8. /\ b.ebp \in Int /\ b.old_vars \in Nat /\ Low(b) \in Int /\ Depth(b) \in Int
      /\ \A k \in 1 .. n : blocks[k].ebp \in Int /\ blocks[k].old_vars \in Nat
      /\ \A i \in 1 .. m : vars[i].at \in Int
  <2>1. \A x \in BlockRecord :
          x.ebp \in Int /\ x.old_vars \in Nat /\ Low(x) \in Int /\ Depth(x) \in Int
    BY BlockInts DEF BlockRecord
  <2>2. \A i \in 1 .. m : vars[i].at \in Int
    BY <1>0, VarInts DEF RoomInv, FramesInv
  <2>3. QED
    BY <1>1, <2>1, <2>2
<1> HIDE DEF b, aligned, offset, sp, v, c
<1>9. /\ Len(blocks') = n /\ Len(vars') = m + 1
      /\ \A k \in 1 .. n - 1 : blocks'[k] = blocks[k]
      /\ blocks'[n] = c
      /\ \A i \in 1 .. m : vars'[i] = vars[i]
      /\ vars'[m + 1] = v
      /\ \A k \in 1 .. n : blocks'[k].old_vars = blocks[k].old_vars
  <2>1. TypeInv /\ c.old_vars = Innermost.old_vars
    BY <1>7 DEF RoomInv, FramesInv, b
  <2>2. QED
    BY ONLY <1>0, <1>3, <1>6, <2>1, Declared
<1>10. \A k \in 1 .. n : blocks'[k].ebp = blocks[k].ebp
  BY <1>1, <1>7, <1>9
<1>11. \A k \in 1 .. n : InRoom(k, s)
  BY <1>0 DEF RoomInv
<1>12. ASSUME NEW k \in 1 .. n - 1 PROVE InRoom(k, s)'
  <2>1. k \in 1 .. n /\ k + 1 \in 1 .. n /\ k # n
    BY <1>1
  <2>2. Visible(k)' = Visible(k) /\ Visible(k) = blocks[k + 1].old_vars
    BY <1>0, <1>9, <2>1 DEF Visible
  <2>3. Visible(k) \in Nat /\ Visible(k) <= m
    BY <1>0, <1>8, <2>1, <2>2 DEF RoomInv, FramesInv, TypeInv, Scopes
  <2>4. \A i \in 1 .. Visible(k) : i \in 1 .. m
    BY <2>3
  <2>5. blocks'[k] = blocks[k] /\ InRoom(k, s)
    BY <1>9, <1>11, <2>1
  <2>6. QED
    BY <1>9, <2>2, <2>4, <2>5 DEF InRoom, Depth, Low
<1>13. InRoom(n, s)'
  <2>1. Visible(n)' = m + 1
    BY <1>9 DEF Visible
  <2>2. /\ Depth(b) <= Room(m, s) + 8 * (n - 1) /\ b.old_vars >= NParams
        /\ \A i \in 1 .. m : vars[i].at >= Low(b)
    BY <1>1, <1>4, <1>11 DEF InRoom
  <2>3. Depth(c) <= Room(m + 1, s) + 8 * (n - 1)
    <3>1. PICK x \in Int, y \in Int, r \in Nat, r1 \in Nat :
            /\ x = Depth(b) /\ y = Depth(c) /\ r = Room(m, s) /\ r1 = Room(m + 1, s)
      <4>1. Room(m + 1, s) \in Nat
        BY ONLY <1>2
      <4>2. QED
        BY ONLY <1>2, <1>5, <1>8, <4>1
    <3>2. x <= r + 8 * (n - 1) /\ y <= x + (2 * s + 12) /\ r1 = r + (2 * s + 12) /\ s \in Nat
      BY ONLY <1>2, <1>5, <2>2, <3>1
    <3>3. y <= r1 + 8 * (n - 1)
      BY ONLY n \in Nat, <3>2
    <3>4. QED
      BY ONLY <3>1, <3>3
  <2>4. ASSUME NEW i \in 1 .. m + 1 PROVE vars'[i].at >= Low(c)
    <3>1. CASE i = m + 1
      BY <1>5, <1>9, <3>1
    <3>2. CASE i # m + 1
      <4>1. i \in 1 .. m
        BY <3>2
      <4>2. vars'[i].at \in Int /\ vars'[i].at >= Low(b)
        BY <1>8, <1>9, <2>2, <4>1
      <4>3. QED
        BY <1>2, <1>5, <1>8, <4>2
    <3>3. QED
      BY <3>1, <3>2
  <2>5. QED
    BY <1>3, <1>4, <1>7, <1>9, <2>1, <2>2, <2>3, <2>4 DEF InRoom, Depth, Low
<1>14. Apart'
  <2>1. /\ \A i \in 1 .. m : IsParam(i) \/ IsLocal(i)
        /\ \A i \in 1 .. m, k \in 1 .. n : ClearOf(vars[i], blocks[k])
        /\ \A j, k \in 1 .. n : j <= k => blocks[k].ebp <= blocks[j].ebp
    BY <1>0 DEF RoomInv, Apart
  <2>2. ASSUME NEW i \in 1 .. m PROVE (IsParam(i) \/ IsLocal(i))'
    <3>1. \A h \in 1 .. i - 1 : h \in 1 .. m
      OBVIOUS
    <3>2. IsParam(i) \/ IsLocal(i)
      BY <2>1
    <3>3. QED
      BY <1>9, <3>1, <3>2 DEF IsParam, IsLocal
  <2>3. ASSUME NEW i \in Nat, i = m + 1 PROVE IsLocal(i)'
    <3>1. b.old_vars >= NParams /\ b.old_vars <= m /\ \A h \in 1 .. m : vars[h].at >= Low(b)
      BY <1>0, <1>1, <1>4, <1>11 DEF InRoom, RoomInv, FramesInv, TypeInv, Scopes
    <3>2. i > NParams
      BY <1>2, <1>8, <2>3, <3>1
    <3>3. v.at + v.size <= Low(b) /\ v.at + v.size \in Int
      BY <1>2, <1>5
    <3>4. v.at + v.size <= Base
      BY <1>2, <1>4, <1>5, <1>8, <3>3
    <3>5. ASSUME NEW h \in 1 .. i - 1 PROVE v.at + v.size <= vars'[h].at
      <4>1. h \in 1 .. m
        BY <2>3
      <4>2. vars'[h] = vars[h] /\ vars[h].at \in Int /\ vars[h].at >= Low(b)
        BY <1>8, <1>9, <3>1, <4>1
      <4>3. QED
        BY <1>8, <3>3, <4>2
    <3>6. vars'[i] = v
      BY <1>9, <2>3
    <3>7. QED
      BY <3>2, <3>4, <3>5, <3>6 DEF IsLocal
  <2>4. ASSUME NEW k \in 1 .. n PROVE ClearOf(v, blocks[k])
    <3>1. n \in 1 .. n /\ k <= n
      BY <1>1
    <3>2. b.ebp <= blocks[k].ebp
      BY <1>1, <2>1, <3>1
    <3>3. v.at + v.size <= blocks[k].ebp
      BY <1>2, <1>5, <1>8, <3>2
    <3>4. QED
      BY <3>3 DEF ClearOf
  <2>5. \A i \in 1 .. m + 1 : i \in 1 .. m \/ (i \in Nat /\ i = m + 1)
    OBVIOUS
  <2>6. \A i \in 1 .. m + 1 : (IsParam(i) \/ IsLocal(i))'
    BY <2>2, <2>3, <2>5
  <2>7. \A i \in 1 .. m + 1, k \in 1 .. n : ClearOf(vars'[i], blocks'[k])
    <3>1. \A k \in 1 .. n : ClearOf(v, blocks'[k])
      BY <1>10, <2>4 DEF ClearOf
    <3>2. \A i \in 1 .. m, k \in 1 .. n : ClearOf(vars'[i], blocks'[k])
      BY <1>9, <1>10, <2>1 DEF ClearOf
    <3>3. QED
      BY <1>9, <2>5, <3>1, <3>2
  <2>8. \A j, k \in 1 .. n : j <= k => blocks'[k].ebp <= blocks'[j].ebp
    BY <1>10, <2>1
  <2>9. QED
    BY <1>9, <2>6, <2>7, <2>8 DEF Apart, ClearOf
<1>15. Len(vars') <= MaxVars /\ Len(blocks') <= MaxDepth + 1
  <2>1. n <= MaxDepth + 1
    BY <1>0 DEF RoomInv
  <2>2. m + 1 <= MaxVars
    BY <1>0, <1>2, <1>3
  <2>3. QED
    BY <1>9, <2>1, <2>2
<1>16. \A k \in 1 .. n : InRoom(k, s)'
  <2>1. \A k \in 1 .. n : k \in 1 .. n - 1 \/ k = n
    OBVIOUS
  <2>2. QED
    BY <1>12, <1>13, <2>1
<1>17. QED
  BY <1>9, <1>14, <1>15, <1>16 DEF RoomInv

LEMMA RoomInvNext == ASSUME NEW s, Fits(s), RoomInv(s), [Next]_state PROVE RoomInv(s)'
<1>1. FramesInv'
  BY FramesInvNext DEF RoomInv
<1>2. ASSUME NEW size \in Sizes, NEW init \in Inits, Declare(size, init) PROVE RoomInv(s)'
  BY <1>1, <1>2, DeclareRoom
<1>3. CASE OpenBlock
  BY <1>1, <1>3, OpenBlockRoom
<1>4. CASE OpenBody
  BY <1>1, <1>4, OpenBodyRoom
<1>5. CASE Close
  BY <1>1, <1>5, CloseRoom
<1>6. CASE UNCHANGED state
  BY <1>1, <1>6 DEF RoomInv, InRoom, Apart, IsParam, IsLocal, Visible, state
<1>7. QED
  BY <1>2, <1>3, <1>4, <1>5, <1>6 DEF Next

\* Bytes that do not wrap around are those of an interval.
LEMMA BytesInterval ==
    ASSUME NEW at \in Nat, NEW size \in Nat, at + size <= Modulus, NEW x \in Bytes(at, size)
    PROVE  x \in Nat /\ at <= x /\ x < at + size
<1>1. PICK k \in 0 .. size - 1 : x = Plus(at, k)
  BY DEF Bytes
<1>2. at + k < Modulus /\ k \in Nat
  BY U32Facts
<1>3. QED
  BY <1>1, <1>2 DEF Plus

LEMMA BytesDisjoint ==
    ASSUME NEW at \in Nat, NEW size \in Nat, NEW at2 \in Nat, NEW size2 \in Nat,
           at + size <= Modulus, at2 + size2 <= Modulus,
           at + size <= at2 \/ at2 + size2 <= at
    PROVE  Bytes(at, size) \cap Bytes(at2, size2) = {}
<1> SUFFICES ASSUME NEW x \in Bytes(at, size), x \in Bytes(at2, size2) PROVE FALSE
  OBVIOUS
<1>1. x \in Nat /\ at <= x /\ x < at + size
  BY BytesInterval
<1>2. at2 <= x /\ x < at2 + size2
  BY BytesInterval
<1>3. QED
  BY <1>1, <1>2

LEMMA RoomInvNoOverlap == ASSUME NEW s, Fits(s), RoomInv(s) PROVE NoOverlap
<1>1. /\ \A i \in 1 .. Len(vars) : IsParam(i) \/ IsLocal(i)
      /\ \A i \in 1 .. Len(vars), k \in 1 .. Len(blocks) : ClearOf(vars[i], blocks[k])
      /\ \A k \in 1 .. Len(blocks) : blocks[k].ebp <= Base
  BY DEF RoomInv, Apart, InRoom
<1>2. \A i \in 1 .. Len(vars) : vars[i].at \in Nat /\ vars[i].size \in Nat
  BY VarInts DEF RoomInv, FramesInv
<1>3. \A k \in 1 .. Len(blocks) : blocks[k].ebp \in Nat
  BY InnermostType, BlockInts DEF RoomInv, FramesInv
<1>4. /\ NParams \in Nat /\ Base \in Nat /\ Modulus \in Nat /\ Base < Modulus
      /\ Base + 20 + 4 * NParams <= Modulus /\ Word = 4 /\ Len(vars) \in Nat
  BY FitsFacts, InnermostType DEF RoomInv, FramesInv, Word
<1>5. ASSUME NEW i \in 1 .. Len(vars) PROVE vars[i].at + vars[i].size <= Modulus
  <2>1. CASE IsParam(i)
    BY <1>4, <2>1 DEF IsParam
  <2>2. CASE IsLocal(i)
    BY <1>2, <1>4, <2>2 DEF IsLocal
  <2>3. QED
    BY <1>1, <2>1, <2>2
<1>6. ASSUME NEW i \in 1 .. Len(vars), NEW j \in 1 .. Len(vars), i < j
      PROVE  \/ vars[j].at + vars[j].size <= vars[i].at
             \/ vars[i].at + vars[i].size <= vars[j].at
  <2>1. CASE IsLocal(j)
    BY <1>6, <2>1 DEF IsLocal
  <2>2. CASE IsParam(j)
    <3>1. IsParam(i)
      BY <1>1, <1>4, <1>6, <2>2 DEF IsParam, IsLocal
    <3>2. QED
      BY <1>4, <1>6, <2>2, <3>1 DEF IsParam
  <2>3. QED
    BY <1>1, <2>1, <2>2
<1>7. ASSUME NEW i \in 1 .. Len(vars), NEW j \in 1 .. Len(vars), i # j
      PROVE  Bytes(vars[i].at, vars[i].size) \cap Bytes(vars[j].at, vars[j].size) = {}
  <2>1. \/ vars[j].at + vars[j].size <= vars[i].at
        \/ vars[i].at + vars[i].size <= vars[j].at
    <3>1. i < j \/ j < i
      BY <1>7
    <3>2. QED
      BY <1>6, <3>1
  <2>2. QED
    BY <1>2, <1>5, <2>1, BytesDisjoint
<1>8. ASSUME NEW i \in 1 .. Len(vars), NEW k \in 1 .. Len(blocks)
      PROVE  Bytes(vars[i].at, vars[i].size) \cap Bytes(blocks[k].ebp, Word) = {}
  <2>1. blocks[k].ebp \in Nat /\ blocks[k].ebp + Word <= Modulus /\ Word \in Nat
    BY <1>1, <1>3, <1>4
  <2>2. vars[i].at >= blocks[k].ebp + Word \/ vars[i].at + vars[i].size <= blocks[k].ebp
    BY <1>1 DEF ClearOf
  <2>3. blocks[k].ebp + Word <= vars[i].at \/ vars[i].at + vars[i].size <= blocks[k].ebp
    BY <1>2, <2>1, <2>2
  <2>4. QED
    BY <1>2, <1>5, <2>1, <2>3, BytesDisjoint
<1>9. ASSUME NEW i \in 1 .. Len(vars) PROVE vars[i].at >= Esp(Innermost)
  <2>1. /\ Esp(Innermost) \in Nat /\ Esp(Innermost) <= Low(Innermost)
        /\ vars[i].at >= Low(Innermost)
    BY EspBelow
  <2>2. Low(Innermost) \in Int
    BY RoomLeft, BlockInts
  <2>3. QED
    BY <1>2, <2>1, <2>2
<1>10. QED
  BY <1>7, <1>8, <1>9 DEF NoOverlap

\* However blocks and bodies are nested, as long as the stack is large enough
\* for all that is declared (Fits), no two visible variables share a byte, no
\* variable is where src/x86/ir.c saves the ebp of an enclosing block, and no
\* push of an expression reaches a variable.
THEOREM NoOverlapWhileItFits == ASSUME NEW s, Fits(s) PROVE Spec => []NoOverlap
<1>1. Init => RoomInv(s)
  BY RoomInvInit
<1>2. RoomInv(s) /\ [Next]_state => RoomInv(s)'
  BY RoomInvNext
<1>3. RoomInv(s) => NoOverlap
  BY RoomInvNoOverlap
<1>4. QED
  BY <1>1, <1>2, <1>3, PTL DEF Spec

=============================================================================
