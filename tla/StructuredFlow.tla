--------------------------- MODULE StructuredFlow ---------------------------
(***************************************************************************)
(* The statements and conditions that src/ast.h can represent, reduced to  *)
(* what decides the control flow, and what C says of them: which action or *)
(* condition comes next.  `todo' is a sequence of statements still to be   *)
(* run; its head is unfolded, part by part, until that is one observable   *)
(* event.                                                                  *)
(***************************************************************************)
EXTENDS Sequences

\* Conditions: an atom is an expression without || and &&.
Atom(name) == [t |-> "atom", name |-> name]
AndCond(l, r) == [t |-> "and", l |-> l, r |-> r]
OrCond(l, r) == [t |-> "or", l |-> l, r |-> r]

\* Statements.  Act is an expression statement or a declaration with an
\* initialiser; none is a missing else.
None == [t |-> "none"]
Act(name) == [t |-> "act", name |-> name]
Ret == [t |-> "ret"]
Block(body) == [t |-> "block", body |-> body]
If(c, body, else) == [t |-> "if", c |-> c, body |-> body, else |-> else]
While(c, body) == [t |-> "while", c |-> c, body |-> body]
For(init, c, inc, body) ==
    [t |-> "for", init |-> init, c |-> c, inc |-> inc, body |-> body]

\* A test of c that goes on with `yes' or with `no'.
Branch(c, yes, no) == [t |-> "branch", c |-> c, yes |-> yes, no |-> no]
BranchParts(b) ==
    IF b.c.t = "and" THEN <<Branch(b.c.l, <<Branch(b.c.r, b.yes, b.no)>>, b.no)>>
                     ELSE <<Branch(b.c.l, b.yes, <<Branch(b.c.r, b.yes, b.no)>>)>>

\* What running s amounts to.
Parts(s) ==
    CASE s.t = "none"   -> << >>
      [] s.t = "block"  -> s.body
      [] s.t = "if"     -> <<Branch(s.c, <<s.body>>, <<s.else>>)>>
      [] s.t = "while"  -> <<Branch(s.c, <<s.body, s>>, << >>)>>
      [] s.t = "for"    -> <<s.init, While(s.c, Block(<<s.body, s.inc>>))>>
      [] s.t = "branch" -> BranchParts(s)

IsEvent(s) == s.t \in {"act", "ret"} \/ (s.t = "branch" /\ s.c.t = "atom")
Settled(todo) == todo # << >> => IsEvent(Head(todo))
Unfolded(todo) == Parts(Head(todo)) \o Tail(todo)

\* What is observed next of a settled one: an action, an atom, or that the
\* function returns.
NextEvent(todo) ==
    IF todo = << >> \/ Head(todo).t = "ret" THEN <<"return">>
    ELSE IF Head(todo).t = "act" THEN <<"act", Head(todo).name>>
    ELSE <<"atom", Head(todo).c.name>>

\* What remains after it; whether an atom is true says which way the test goes.
AfterAct(todo) == Tail(todo)
AfterAtom(todo, true) == (IF true THEN Head(todo).yes ELSE Head(todo).no) \o Tail(todo)
=============================================================================
