---------------------------- MODULE ShuntingYard ----------------------------
(***************************************************************************)
(* SY_shunting_yard of src/shunting_yard.c on the token table the passes   *)
(* leave.  The function calls itself for every argument, subscript and     *)
(* initialiser element: `yards' holds one record per active call,          *)
(* innermost last.  A step handles one token, or moves one operator to the *)
(* output queue, or returns from a call.                                   *)
(*                                                                         *)
(* A tree in an output queue is written in postfix order, every node given *)
(* by the place of its token, and stands there with its root's levels of   *)
(* indirection.  What is declared is part of the input; the other part of  *)
(* the nodes' types, and Expr_verify except where it fails, are left out.  *)
(***************************************************************************)
EXTENDS TokenPasses, Integers

CONSTANT Sources     \* the expressions to read, records as CExpr!In gives, with
                     \* the names of `declared' objects and functions, the
                     \* `functions' among them, their levels of indirection
                     \* `lvls', and the `types'

ASSUME SourcesAssumption ==
    \A s \in Sources : s.lex \in Seq(STRING) /\ s.lex # << >> /\ s.lvls \in [Idents -> Nat]

VARIABLES
  src,      \* the expression that is read
  toks,     \* the token table, from the token before the expression on
  i,        \* the place of the current token
  yards,    \* the active calls of SY_shunting_yard, innermost last
  err,      \* SY_error_occurred
  status,   \* "run", "done", "abort" (an assertion), "undefined" (behaviour)
  result    \* the tree the outermost call has returned

vars == <<src, toks, i, yards, err, status, result>>

Null == << >>      \* no tree
NodeOf(tree, lvl) == [tree |-> tree, lvl |-> lvl]
Y == Last(yards)
SetY(y) == [yards EXCEPT ![Len(yards)] = y]

\* One call: `at', `items' and `old' belong to its caller: the token it reads
\* arguments or elements for, those read so far, and its old_error_occurred.
NewYard(kind, at, start, items, old) ==
    [kind |-> kind, at |-> at, start |-> start, items |-> items, old |-> old,
     out |-> << >>, ops |-> << >>, parens |-> 0]

Init ==
    /\ src \in Sources
    /\ toks = Passes(src.lex)
    /\ i = 2
    /\ yards = <<NewYard("expr", 0, 2, << >>, FALSE)>>
    /\ err = FALSE /\ status = "run" /\ result = Null
-----------------------------------------------------------------------------
StopTypes == CASE Y.kind = "expr"  -> src.stop
               [] Y.kind = "arg"   -> {")", ","}
               [] Y.kind = "index" -> {"]"}
               [] Y.kind = "elem"  -> {",", "}"}
Ended == i \in DOMAIN toks =>
           toks[i] = ";" \/ (Y.parens = 0 /\ toks[i] \in StopTypes)
Reading(types) == status = "run" /\ ~Ended /\ toks[i] \in types

\* Token_precedence: 1 binds tightest.
Precedence(t) ==
    CASE t = ","  -> 15 [] t = "="  -> 14 [] t = "||" -> 12 [] t = "&&" -> 11
      [] t = "&"  -> 8  [] t = "==" -> 7  [] t = "<"  -> 6
      [] t \in {"+", "-"} -> 4 [] t \in {"*", "/"} -> 3
      [] t \in {"[", "post++"} -> 1
      [] t \in UnaryOps \ {"post++"} -> 2
LToRightAsso(t) == Precedence(t) \notin {2, 13, 14}
Arity(t) == IF t \in BinaryOps THEN 2 ELSE 1

\* The operator on top of the stack goes before the operator t.
NoAssociativity(o2, t) ==                \* mutant
    Precedence(o2) <= Precedence(t)
GoesBefore(o2, t) ==
    \/ Precedence(o2) < Precedence(t)
    \/ LToRightAsso(t) /\ Precedence(o2) = Precedence(t)

Operator(t, at) == [type |-> t, at |-> at]
TopOp == Last(Y.ops)
PushOp(t) == [Y EXCEPT !.ops = Append(@, Operator(t, i))]
PushOut(y, node) == [y EXCEPT !.out = Append(@, node)]

\* Expr_lvls_of_indir of a leaf, a call or an array literal; of a cast, the
\* asterisks up to the end of its type.
LeafLvls(at) == CASE toks[at] \in Idents -> src.lvls[toks[at]]
                  [] toks[at] \in {"str", "{"} -> 1
                  [] OTHER -> 0
TypeEnd(name) == Min({k \in name + 1 .. Len(toks) : toks[k] \notin Stars} \cup {Len(toks) + 1})
CastLvls(at) == Cardinality(at + 2 .. TypeEnd(at + 1) - 1)

\* The operands of the operator on top: one of its own is both.
Lhs == Y.out[Len(Y.out) - Arity(TopOp.type) + 1]
Rhs == Last(Y.out)
Present == Len(Y.out) >= Arity(TopOp.type) /\ Lhs.tree # Null /\ Rhs.tree # Null
Operation == Append(IF Arity(TopOp.type) = 2 THEN Lhs.tree \o Rhs.tree ELSE Lhs.tree, TopOp.at)

\* Expr_lvls_of_indir of the operator, and what it asserts.
MostLvls == IF Lhs.lvl > Rhs.lvl THEN Lhs.lvl ELSE Rhs.lvl
Dereferences == TopOp.type \in {"deref", "["}
NoPointer == Present /\ Dereferences /\ MostLvls = 0
LvlsOfIndir == CASE TopOp.type = "cast" -> CastLvls(TopOp.at)
                 [] Dereferences        -> MostLvls - 1
                 [] TopOp.type = "ref"  -> MostLvls + 1
                 [] OTHER               -> MostLvls

\* move_operator_to_out_queue.
MoveOperator ==
    \/ /\ Y.out = << >>
       /\ status' = IF err THEN "run" ELSE "abort"
       /\ yards' = SetY([Y EXCEPT !.ops = Front(@)])
    \/ /\ Y.out # << >> /\ ~Present
       /\ status' = "undefined"
       /\ UNCHANGED yards
    \/ /\ NoPointer
       /\ status' = "abort"
       /\ UNCHANGED yards
    \/ /\ Present /\ ~NoPointer
       /\ yards' = SetY([Y EXCEPT !.ops = Front(@),
                           !.out = Append(SubSeq(@, 1, Len(@) - Arity(TopOp.type)),
                                          NodeOf(Operation, LvlsOfIndir))])
       /\ UNCHANGED status
-----------------------------------------------------------------------------
(* Tokens.                                                                 *)

\* push_operator_to_stack: its loop, with the assertion, and its end.
MustPop == Y.ops # << >> /\ TopOp.type # "(" /\ GoesBefore(TopOp.type, toks[i])
PopOperator ==
    /\ Reading(Operators \ {"["}) /\ MustPop
    /\ Len(Y.out) >= Arity(TopOp.type)
    /\ MoveOperator
    /\ UNCHANGED <<src, toks, i, err, result>>
MissingOperand ==
    /\ Reading(Operators \ {"["}) /\ MustPop
    /\ Len(Y.out) < Arity(TopOp.type)
    /\ status' = "abort"
    /\ UNCHANGED <<src, toks, i, yards, err, result>>
PushOperator ==
    /\ Reading(Operators \ {"["}) /\ ~MustPop
    /\ yards' = SetY(PushOp(toks[i]))
    /\ i' = i + 1
    /\ UNCHANGED <<src, toks, err, status, result>>

\* A ( that a type follows is a cast; it ends after the asterisks.
IsCast == i < Len(toks) /\ toks[i + 1] \in src.types
ReadTypeCast ==
    LET end == TypeEnd(i + 1) IN
    /\ Reading({"("}) /\ IsCast
    /\ yards' = SetY(PushOp("cast"))
    /\ err' = (err \/ end > Len(toks) \/ toks[end] # ")")
    /\ i' = end + 1
    /\ UNCHANGED <<src, toks, status, result>>
ForgetDepth(y) == y                              \* mutant
Deeper(y) == [y EXCEPT !.parens = @ + 1]
ReadLParen ==
    /\ Reading({"("}) /\ ~IsCast
    /\ yards' = SetY(Deeper(PushOp("(")))
    /\ i' = i + 1
    /\ UNCHANGED <<src, toks, err, status, result>>

\* read_r_paren: its loop, and its end.
InParens == Y.ops # << >> /\ TopOp.type # "("
PopInParens ==
    /\ Reading({")"}) /\ InParens
    /\ MoveOperator
    /\ UNCHANGED <<src, toks, i, err, result>>
ReadRParen ==
    /\ Reading({")"}) /\ ~InParens
    /\ yards' = SetY([Y EXCEPT !.ops = IF @ = << >> THEN @ ELSE Front(@),
                               !.parens = @ - 1])
    /\ err' = (err \/ Y.ops = << >>)
    /\ i' = i + 1
    /\ UNCHANGED <<src, toks, status, result>>

IsCall == i < Len(toks) /\ toks[i] \in Idents /\ toks[i + 1] = "("
AnyOperands == Idents \cup {"lit", "str"}         \* mutant: declared or not
Operands == src.declared \cup {"lit", "str"}
ReadOperand ==
    /\ Reading(Operands) /\ ~IsCall
    /\ yards' = SetY(PushOut(Y, NodeOf(<<i>>, LeafLvls(i))))
    /\ i' = i + 1
    /\ UNCHANGED <<src, toks, err, status, result>>

\* What is not declared is an error and no operand; a call of it is skipped,
\* up to the next ) or the last token.
Undeclared == Idents \ src.declared
ReadUndeclared ==
    /\ Reading(Undeclared) /\ ~IsCall
    /\ err' = TRUE
    /\ i' = i + 1
    /\ UNCHANGED <<src, toks, yards, status, result>>
CallUndeclared ==
    LET parens == {k \in i .. Len(toks) : toks[k] = ")"} IN
    /\ Reading(Undeclared) /\ IsCall
    /\ err' = TRUE
    /\ i' = 1 + Min(parens \cup {Len(toks)})
    /\ UNCHANGED <<src, toks, yards, status, result>>

\* read_func_call's loop at place j: `callers' are the calls below the
\* argument's, `args' the arguments read so far.
KeepComma(j) == j                                \* mutant
SkipComma(j) == IF toks[j] = "," THEN j + 1 ELSE j
EndItems(callers, at, items, j) ==
    /\ yards' = [callers EXCEPT ![Len(callers)] =
                   PushOut(@, NodeOf(Append(items, at), LeafLvls(at)))]
    /\ i' = j + 1
NextItem(callers, kind, at, items, j, error) ==
    /\ yards' = Append(callers, NewYard(kind, at, j, items, error))
    /\ i' = j
    /\ err' = FALSE
NextArg(callers, at, args, j, error) ==
    IF j > Len(toks) \/ toks[j] = ")"
      THEN EndItems(callers, at, args, j) /\ err' = (error \/ j > Len(toks))
      ELSE NextItem(callers, "arg", at, args, SkipComma(j), error)
ReadFuncCall ==
    /\ Reading(src.declared) /\ IsCall
    /\ NextArg(yards, i, << >>, i + 2, err)
    /\ UNCHANGED <<src, toks, status, result>>

\* read_array_initializer's loop at place j.
NextElem(callers, at, values, j, error) ==
    LET elems == {k \in j .. Len(toks) : toks[k] # ","}
        value == IF elems # {} THEN Min(elems) ELSE IF j > Len(toks) THEN j ELSE Len(toks) + 1
    IN IF value > Len(toks) \/ toks[value] = "}"
         THEN EndItems(callers, at, values, value) /\ err' = (error \/ value > Len(toks))
         ELSE NextItem(callers, "elem", at, values, value, error)
ReadArrayInitializer ==
    /\ Reading({"{"})
    /\ NextElem(yards, i, << >>, i + 1, err)
    /\ UNCHANGED <<src, toks, status, result>>

\* push_array_subscr_to_stack up to its call.
ReadSubscript ==
    /\ Reading({"["})
    /\ NextItem(yards, "index", i, << >>, i + 1, err)
    /\ UNCHANGED <<src, toks, status, result>>

\* assert(false) for any other token.
UnknownToken ==
    /\ Reading({"]", "}"} \cup Keywords)
    /\ status' = "abort"
    /\ UNCHANGED <<src, toks, i, yards, err, result>>
-----------------------------------------------------------------------------
(* The end of a call.                                                      *)

\* The loop that empties the operator stack.
FlushOperator ==
    /\ status = "run" /\ Ended /\ i # Y.start /\ Y.ops # << >>
    /\ IF Len(Y.out) < Arity(TopOp.type)
         THEN /\ yards' = SetY([Y EXCEPT !.ops = Front(@)])
              /\ err' = TRUE
              /\ UNCHANGED status
         ELSE MoveOperator /\ UNCHANGED err
    /\ UNCHANGED <<src, toks, i, result>>

\* Expr_verify: verify_func_call takes what is called for a function, and the
\* arguments of a variable are a null pointer.
CallsVariable(tree) ==
    \E k \in ToSet(tree) \cap 1 .. Len(toks) - 1 :
      toks[k] \in src.declared \ src.functions /\ toks[k + 1] = "("
Flushed == status = "run" /\ Ended /\ (i = Y.start \/ Y.ops = << >>)
VerifyFails == Len(Y.out) = 1 /\ (Y.out[1].tree = Null \/ CallsVariable(Y.out[1].tree))
VerifyCrash ==
    /\ Flushed /\ VerifyFails
    /\ status' = "undefined"
    /\ UNCHANGED <<src, toks, i, yards, err, result>>

Returning(kind) ==
    /\ Flushed /\ ~VerifyFails /\ Y.kind = kind
Value == IF Len(Y.out) = 1 THEN Y.out[1] ELSE NodeOf(Null, 0)
Error == err \/ (i # Y.start /\ Len(Y.out) # 1)

ReturnExpr ==
    /\ Returning("expr")
    /\ result' = Value.tree /\ err' = Error /\ status' = "done"
    /\ UNCHANGED <<src, toks, i, yards>>

ReturnArg ==
    /\ Returning("arg")
    /\ NextArg(Front(yards), Y.at, Y.items \o Value.tree, i, Error \/ Y.old)
    /\ UNCHANGED <<src, toks, status, result>>

ReturnSubscript ==
    LET caller == yards[Len(yards) - 1] IN
    /\ Returning("index")
    /\ yards' = Append(Front(Front(yards)),
                  PushOut([caller EXCEPT !.ops = Append(@, Operator("[", Y.at))], Value))
    /\ i' = i + 1
    /\ err' = (Error \/ Y.old)
    /\ UNCHANGED <<src, toks, status, result>>

\* Expr_statically_evaluatable.
Static(tree) ==
    \A k \in ToSet(tree) : toks[k] \notin Idents \cup {"ref", "deref", "[", "++", "post++"}
ReturnElem ==
    /\ Returning("elem")
    /\ IF Value.tree = Null /\ ~Error
         THEN /\ status' = "undefined"
              /\ UNCHANGED <<i, yards, err>>
         ELSE /\ NextElem(Front(yards), Y.at, Y.items \o Value.tree, i,
                          Error \/ ~Static(Value.tree) \/ Y.old)
              /\ UNCHANGED status
    /\ UNCHANGED <<src, toks, result>>

Next ==
    \/ PopOperator \/ MissingOperand \/ PushOperator
    \/ ReadTypeCast \/ ReadLParen \/ PopInParens \/ ReadRParen
    \/ ReadOperand \/ ReadUndeclared \/ CallUndeclared
    \/ ReadFuncCall \/ ReadArrayInitializer \/ ReadSubscript
    \/ UnknownToken
    \/ FlushOperator \/ VerifyCrash
    \/ ReturnExpr \/ ReturnArg \/ ReturnSubscript \/ ReturnElem

\* The compiler runs until it is done: it takes every step it can.
Spec == Init /\ [][Next]_vars /\ WF_vars(Next)
-----------------------------------------------------------------------------
\* A tree names only what is declared.
TreeOK(tree) ==
    \A k \in ToSet(tree) : k \in DOMAIN toks /\ (toks[k] \in Idents => toks[k] \in src.declared)
YardOK(y) ==
    /\ y.kind \in {"expr", "arg", "index", "elem"}
    /\ y.start \in 1 .. Len(toks) + 1 /\ y.old \in BOOLEAN /\ y.parens \in Int
    /\ TreeOK(y.items)
    /\ \A n \in DOMAIN y.out : TreeOK(y.out[n].tree) /\ y.out[n].lvl \in Nat
    /\ \A n \in DOMAIN y.ops :
         y.ops[n].type \in Operators \cup {"("} /\ y.ops[n].at \in DOMAIN toks
\* Every call that is still active when the table ends takes the position one
\* further: it has no bound but the number of calls, which is at most that of
\* the tokens.
TypeOK ==
    /\ i \in 1 .. 2 * Len(toks) + 2
    /\ yards # << >> /\ \A n \in DOMAIN yards : YardOK(yards[n])
    /\ err \in BOOLEAN /\ status \in {"run", "done", "abort", "undefined"}
    /\ TreeOK(result)

\* What the passes must get right for the yard to have a chance: which ++ are
\* postfix.  (A + - * or & that is taken for the wrong kind shows up as a
\* missing or superfluous operand.)
IncrementsRead ==
    \A k \in DOMAIN toks : toks[k] = "post++" <=> src.want[k] = "post++"
\* a[1][2] and a++[1]: a subscript is not compared with the operator below.
DoublePostfix ==
    \E k \in DOMAIN toks : toks[k] = "[" /\ toks[k - 1] \in {"]", "post++"}

\* The tree that is built without an error is the one C's grammar gives the
\* tokens: precedence, associativity, parentheses, and the nesting of calls,
\* subscripts and initialisers.  In particular a - or * that the passes took
\* for the wrong kind is never compiled silently.
SameTree ==
    status = "done" /\ src.valid /\ ~err /\ IncrementsRead /\ ~DoublePostfix =>
      result = src.tree

\* An expression of C whose tokens the passes read as the grammar does is
\* accepted: no error from parentheses, arguments or missing operands.
Accepted ==
    status = "done" /\ src.valid /\ toks = src.want => ~err

\* (a) * b, f(a) * b, a[1] * b, a++ * b: the * behind (a), a ] or a ++ is taken
\* for a dereference.
MisreadStar == \E k \in DOMAIN toks : toks[k] = "deref" /\ src.want[k] = "*"

\* No expression of C, read rightly or wrongly by the passes, makes the
\* compiler read what is not there, close more parentheses than it has opened
\* (n_parens_deep is a u32) or fail an assertion (assert(SY_error_occurred), the
\* operands of an operator that is popped), with one exception: it fails
\* assert(lvls_of_indir > 0) of Expr_lvls_of_indir on what is no pointer in C
\* either, and on a * or a second subscript that it has misread.
NoCrash ==
    src.valid =>
      /\ status # "undefined"
      /\ status = "abort" => /\ Y.ops # << >> /\ NoPointer
                             /\ ~src.typed \/ MisreadStar \/ DoublePostfix
      /\ \A n \in DOMAIN yards : yards[n].parens \in Nat

\* Every call returns: the loops over arguments and elements get past every
\* token ("returns the index of the function call's right parenthesis, or
\* token_tbl->size if there was no right parenthesis").
Terminates == <>(status # "run")
=============================================================================
