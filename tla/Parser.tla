------------------------------- MODULE Parser -------------------------------
(***************************************************************************)
(* parse() of src/parser.c and what it calls, with the lists of variables  *)
(* and of typedefs that it keeps, on the token table.  The functions call  *)
(* each other: `calls' holds one record per active call, innermost last,   *)
(* and `turn' says what the innermost does next.  Every expression is read *)
(* by SY_shunting_yard (module ShuntingYard), whose steps are steps here.  *)
(*                                                                         *)
(* Tokens are counted from 1, so token_tbl.size is Size + 1 as an index.   *)
(* The tree is written as in CProgram.  Pointers, arrays, modifiers,       *)
(* variadic functions and stack positions are left out (the positions are  *)
(* in Frames), and so is missing_r_curly, which only keeps a second        *)
(* message about the same brace from being printed.                        *)
(***************************************************************************)
EXTENDS TokenPasses, Integers

CONSTANTS
  Texts,    \* the token tables
  Past      \* what the memory after a table's last token may be taken for

ASSUME TextsAssumption == Texts \subseteq Seq(STRING)

VARIABLES
  src, toks, i, yards, err, status, result,   \* ShuntingYard's
  calls,                   \* the active calls, innermost last
  turn,                    \* what happens next: see Turns
  ret,                     \* what the call that has returned gave: end_idx and tree
  Parser_error_occurred,
  vars, typedefs,          \* the lists
  uses                     \* <<use, declaration>> of every name in an expression

yardVars == <<src, toks, i, yards, err, status, result>>
listVars == <<vars, typedefs>>
allVars == <<yardVars, calls, turn, ret, Parser_error_occurred, listVars, uses>>

SY == INSTANCE ShuntingYard WITH Sources <- {}

Turns == {"statement", "argument", "arguments_read", "value", "block_read", "end"}
Top == Last(calls)
Outer == Front(calls)

\* The token at k; past the table's end, whatever is taken for one there.
Size == Len(toks)
Type(k) == IF k \in 1 .. Size THEN toks[k] ELSE src.past

\* skip_to_token_type_alt and its variant for several types.
SkipTo(start, types) == Min({k \in start .. Size : toks[k] \in types} \cup {Size})
-----------------------------------------------------------------------------
(* Names.                                                                  *)

\* ParVarList_find_var: the place in vars, 0 if there is none.
FindFirst(name) == SelectInSeq(vars, LAMBDA v : v.name = name)      \* mutant
FindVar(name) == SelectLastInSeq(vars, LAMBDA v : v.name = name)

\* Ident_type_spec, and TypeSpec_read: where the type ends, which it is.
TypeSpec(name) ==
    LET k == SelectInSeq(typedefs, LAMBDA d : d.name = name) IN
    IF name \in {"ty", "void"} THEN name ELSE IF k = 0 THEN "none" ELSE typedefs[k].conv
IsType(name) == TypeSpec(name) # "none"
TypeEnd(k) == IF IsType(toks[k]) THEN k + 1 ELSE k
TypeRead(k) == IF IsType(toks[k]) THEN TypeSpec(toks[k]) ELSE "ty"

\* An element of vars; a variable's args are a null pointer.
Variable(name, at, parent, type) ==
    [name |-> name, at |-> at, parent |-> parent, type |-> type, args |-> "null",
     params |-> << >>, void |-> FALSE, defined |-> FALSE]
Redeclared(name, parent) == FindVar(name) # 0 /\ vars[FindVar(name)].parent = parent

KeepVars(list, n) == list                                            \* mutant
Truncated(list, n) == SubSeq(list, 1, n)

\* What the yard is told of them.
Scope(stop) ==
    [src EXCEPT !.stop = stop,
       !.declared = {v.name : v \in ToSet(vars)},
       !.functions = {n \in {v.name : v \in ToSet(vars)} : vars[FindVar(n)].args # "null"},
       !.types = {"ty", "void"} \cup {d.name : d \in ToSet(typedefs)}]
UsesIn(tree) ==
    {<<k, vars[FindVar(toks[k])].at>> : k \in {k \in ToSet(tree) : toks[k] \in Idents}}
-----------------------------------------------------------------------------
(* Calls and returns.                                                      *)
Group(at, tree) == <<at>> \o tree \o <<-at>>

\* A call of parse(): `single' is n_instr_to_parse = 1, `func' what parent_func
\* returns.
Block(start, deep, detect, single, func) ==
    [kind |-> "block", start |-> start, prev |-> start - 1, parsed |-> FALSE, single |-> single,
     deep |-> deep, detect |-> detect, can_decl |-> TRUE, func |-> func,
     old_vars |-> Len(vars), old_typedefs |-> Len(typedefs), tree |-> << >>]
Pending(kind, at, tree) == [kind |-> kind, at |-> at, tree |-> tree]

Init ==
    /\ \E text \in Texts, past \in Past :
         /\ toks = Passes(text)
         /\ src = [stop |-> {}, declared |-> {}, functions |-> {}, types |-> {}, past |-> past,
                   lvls |-> [name \in Idents |-> 0]]
    /\ i = 0 /\ yards = << >> /\ err = FALSE /\ status = "done" /\ result = << >>
    /\ vars = << >> /\ typedefs = << >>
    /\ calls = <<Block(1, 0, TRUE, FALSE, "none")>>
    /\ turn = "statement" /\ ret = [end |-> 0, tree |-> << >>]
    /\ Parser_error_occurred = FALSE /\ uses = {}

Error(cond) == Parser_error_occurred' = (Parser_error_occurred \/ cond)
Idle == status = "done"
Crash ==
    /\ status' = "undefined"
    /\ UNCHANGED <<src, toks, i, yards, err, result, calls, turn, ret,
                   Parser_error_occurred, listVars, uses>>

\* The block on top of `stack' goes on after a statement that ended at `end'.
GoOn(stack, prev, tree, declared) ==
    LET b == Last(stack) IN
    /\ calls' = [stack EXCEPT ![Len(stack)] =
                   [b EXCEPT !.prev = prev, !.parsed = TRUE, !.tree = @ \o tree,
                             !.can_decl = @ /\ (declared \/ b.func = "none")]]
    /\ turn' = "statement"
GoOnAt(stack, end, tree, declared) == GoOn(stack, end - 1, tree, declared)  \* mutant
Continue(stack, end, tree, declared) == GoOn(stack, end, tree, declared)
CallYard(stack, start, stop) ==
    /\ calls' = stack /\ turn' = "value"
    /\ src' = Scope(stop) /\ i' = start
    /\ yards' = <<SY!NewYard("expr", 0, start, << >>, FALSE)>>
    /\ err' = FALSE /\ status' = "run" /\ result' = << >>
CallParse(stack, block) == calls' = Append(stack, block) /\ turn' = "statement"

\* The steps of a call of the yard.
Yard ==
    /\ turn = "value" /\ SY!Next
    /\ UNCHANGED <<calls, turn, ret, Parser_error_occurred, listVars, uses>>
-----------------------------------------------------------------------------
(* One turn of parse()'s loop.                                             *)
Start == Top.prev + 1
AtStatement == Idle /\ turn = "statement"
InLoop == AtStatement /\ Start <= Size /\ ~(Top.single /\ Top.parsed)
At(types) == InLoop /\ toks[Start] \in types
\* Words are looked at before tokens.
Starts == {"{", "}", "return", "if", "while", "for", "typedef"}

\* The end of parse(), reached by one of three ways out of the loop.
SeenAlways(end) == Top.deep = 1 => Type(end) = "}"                   \* mutant
CurlySeen(end) == Top.deep = 1 /\ Top.detect => Type(end) = "}"
Leave(end) ==
    /\ ret' = [end |-> end, tree |-> Top.tree]
    /\ Error(~CurlySeen(end))
    /\ vars' = Truncated(vars, Top.old_vars)
    /\ typedefs' = Truncated(typedefs, Top.old_typedefs)
    /\ calls' = Outer
    /\ turn' = IF Outer = << >> THEN "end" ELSE "block_read"
    /\ UNCHANGED <<yardVars, uses>>
EndParse == AtStatement /\ ~InLoop /\ Leave(Top.prev)
RightCurly == At({"}"}) /\ Leave(Start)

NestedBlock ==
    /\ At({"{"})
    /\ CallParse(Append(calls, Pending("nested", Start, << >>)),
                 Block(Start + 1, Top.deep + 1, TRUE, FALSE, Top.func))
    /\ UNCHANGED <<yardVars, ret, Parser_error_occurred, listVars, uses>>
\* check_if_missing_r_curly; its message names the { of the block around,
\* which the outermost does not have.
MissingCurly(atEnd) == Type(ret.end) # "}" \/ (atEnd /\ ret.end = Size)
EndNestedBlock ==
    LET around == Last(Outer) IN
    /\ Idle /\ turn = "block_read" /\ Top.kind = "nested"
    /\ IF MissingCurly(TRUE) /\ around.start = 1
         THEN Crash
         ELSE /\ Error(MissingCurly(TRUE))
              /\ Continue(Outer, ret.end, Group(Top.at, ret.tree), FALSE)
              /\ UNCHANGED <<yardVars, ret, listVars, uses>>

Expression ==
    /\ InLoop /\ toks[Start] \notin Starts /\ ~IsType(toks[Start])
    /\ CallYard(Append(calls, Pending("expression", Start, << >>)), Start, {})
    /\ UNCHANGED <<toks, ret, Parser_error_occurred, listVars, uses>>

\* The yard has returned to a call of this kind.
Read(kinds) == Idle /\ turn = "value" /\ Top.kind \in kinds
NoteUses == uses' = uses \cup UsesIn(result)
EndExpression ==
    /\ Read({"expression"})
    /\ Error(err \/ i = Size + 1)
    /\ Continue(Outer, i, IF result = << >> THEN << >> ELSE Group(Top.at, result), FALSE)
    /\ NoteUses
    /\ UNCHANGED <<yardVars, ret, listVars>>

\* parse_ret_stmt.
Return ==
    /\ At({"return"})
    /\ \/ /\ Top.func = "none"
          /\ Error(TRUE) /\ Continue(calls, SkipTo(Start, {";"}), << >>, FALSE)
          /\ UNCHANGED yardVars
       \/ /\ Top.func # "none" /\ Start < Size /\ toks[Start + 1] = ";"
          /\ Error(FALSE) /\ Continue(calls, Start + 1, Group(Start, << >>), FALSE)
          /\ UNCHANGED yardVars
       \/ /\ Top.func = "void" /\ (Start < Size => toks[Start + 1] # ";")
          /\ Error(TRUE)
          /\ Continue(calls, SkipTo(Start, {";"}), Group(Start, << >>), FALSE)
          /\ UNCHANGED yardVars
       \/ /\ Top.func = "ty" /\ (Start < Size => toks[Start + 1] # ";")
          /\ Error(FALSE)
          /\ CallYard(Append(calls, Pending("return", Start, << >>)), Start + 1, {";"})
          /\ UNCHANGED toks
    /\ UNCHANGED <<ret, listVars, uses>>
\* The type of the value is read, of a rejected expression too.
EndReturn ==
    /\ Read({"return"})
    /\ IF result = << >>
         THEN Crash
         ELSE /\ Error(err)
              /\ Continue(Outer, i, Group(Top.at, result), FALSE)
              /\ NoteUses
              /\ UNCHANGED <<yardVars, ret, listVars>>
-----------------------------------------------------------------------------
(* Variables and typedefs.                                                 *)

\* parse_var_decl of a variable that is no parameter.
IsFunction == Start + 2 <= Size /\ toks[Start + 2] = "("
AtVariable == InLoop /\ IsType(toks[Start]) /\ ~IsFunction
Ident == Start + 1
Unnamed == Ident <= Size => toks[Ident] \notin Idents
UnnamedVariable ==
    /\ AtVariable /\ Unnamed
    /\ Error(TRUE)
    /\ Continue(calls, SkipTo(Start, {";", ",", ")"}), << >>, TRUE)
    /\ UNCHANGED <<yardVars, ret, listVars, uses>>
VoidVariable ==
    /\ AtVariable /\ ~Unnamed /\ TypeSpec(toks[Start]) = "void"
    /\ Error(TRUE)
    /\ Continue(calls, SkipTo(Start, {";"}), << >>, TRUE)
    /\ UNCHANGED <<yardVars, ret, listVars, uses>>

\* Its end: at is the declaration's place, end its semicolon's.
AddVariable(stack, at, end, value, error) ==
    LET name == toks[at + 1] IN
    /\ Error(\/ error
             \/ ~Last(stack).can_decl
             \/ Redeclared(name, Len(stack))
             \/ Type(end) # ";")
    /\ vars' = Append(vars, Variable(name, at + 1, Len(stack), TypeSpec(toks[at])))
    /\ Continue(stack, end, Group(at, <<at + 1>> \o value), TRUE)
DeclareVariable ==
    LET eq == Ident + 1
        semicolons == {k \in Ident .. Size : toks[k] = ";"}
    IN
    /\ AtVariable /\ ~Unnamed /\ TypeSpec(toks[Start]) # "void"
    /\ \/ /\ eq < Size => toks[eq] = ";"
          /\ AddVariable(calls, Start, eq, << >>, FALSE)
          /\ UNCHANGED <<yardVars, ret, typedefs, uses>>
       \/ /\ eq < Size /\ toks[eq] \notin {";", "="} /\ semicolons # {}
          /\ AddVariable(calls, Start, Min(semicolons), << >>, TRUE)
          /\ UNCHANGED <<yardVars, ret, typedefs, uses>>
       \/ /\ eq < Size /\ toks[eq] \notin {";", "="} /\ semicolons = {}
          /\ Crash
       \/ /\ eq < Size /\ toks[eq] = "="
          /\ CallYard(Append(calls, Pending("variable", Start, << >>)), eq + 1, {})
          /\ UNCHANGED <<toks, ret, Parser_error_occurred, listVars, uses>>
EndVariable ==
    /\ Read({"variable"})
    /\ AddVariable(Outer, Top.at, i, result, err)
    /\ NoteUses
    /\ UNCHANGED <<yardVars, ret, typedefs>>

\* parse_typedef: a name that is a type already must be the same one.
Typedef ==
    LET k == Start + 1
        name == TypeEnd(k)
        old == TypeSpec(toks[name])
        clash == old \notin {"none", TypeRead(k)}
    IN
    /\ At({"typedef"})
    /\ \/ k > Size /\ Crash
       \/ /\ k <= Size /\ Type(name) \notin Idents
          /\ Error(TRUE)
          /\ Continue(calls, SkipTo(Start, {";"}), << >>, FALSE)
          /\ UNCHANGED <<yardVars, ret, listVars, uses>>
       \/ /\ k <= Size /\ Type(name) \in Idents
          /\ Error(~IsType(toks[k]) \/ clash \/ Type(name + 1) # ";")
          /\ typedefs' = IF clash THEN typedefs
                         ELSE Append(typedefs, [name |-> toks[name], conv |-> TypeRead(k)])
          /\ Continue(calls, name + 1, << >>, FALSE)
          /\ UNCHANGED <<yardVars, ret, vars, uses>>
-----------------------------------------------------------------------------
(* Functions.                                                              *)

\* parse_func_decl up to its arguments: `prev' is prev_func_decl_var_idx,
\* `at' the place of the argument that is read next.
BeginFunction ==
    LET prev == FindVar(toks[Ident])
        symbol == [Variable(toks[Ident], Ident, Len(calls), TypeSpec(toks[Start]))
                     EXCEPT !.args = "live"]
    IN
    /\ InLoop /\ IsType(toks[Start]) /\ IsFunction
    /\ vars' = IF prev = 0 THEN Append(vars, symbol) ELSE vars
    /\ calls' = Append(calls,
         [kind |-> "function", at |-> Start, prev |-> prev, arg |-> Start + 3,
          type |-> TypeSpec(toks[Start]), params |-> << >>, void |-> FALSE, tree |-> <<Ident>>,
          old_vars |-> Len(vars'), body |-> 0])
    /\ turn' = "argument"
    /\ UNCHANGED <<yardVars, ret, Parser_error_occurred, typedefs, uses>>

\* One turn of parse_func_args.
AtArgument == Idle /\ turn = "argument"
FirstArgument == Top.arg = Top.at + 3
ArgumentsEnd(f, end) ==
    /\ calls' = Append(Outer, f)
    /\ ret' = [end |-> end, tree |-> << >>]
    /\ turn' = "arguments_read"
IsVoid ==
    /\ FirstArgument /\ TypeSpec(toks[Top.arg]) = "void"
    /\ Top.arg < Size => toks[Top.arg + 1] \notin Idents
\* The name of a token past the end is read, here or for a message.
PastEnd == Top.arg > Size \/ (Top.arg = Size /\ toks[Size] \notin {")", ","} /\ ~IsVoid)
MissingArgument == AtArgument /\ PastEnd /\ Crash
VoidArguments ==
    /\ AtArgument /\ Top.arg <= Size /\ IsVoid
    /\ Top.arg < Size /\ toks[Top.arg + 1] = ")"
    /\ ArgumentsEnd([Top EXCEPT !.void = TRUE], Top.arg + 1)
    /\ UNCHANGED <<yardVars, Parser_error_occurred, listVars, uses>>
\* No ) after void: the declaration is given up and its node freed, which the
\* symbol's args still point into.
GiveUpFunction ==
    /\ AtArgument /\ Top.arg <= Size /\ IsVoid
    /\ Top.arg < Size => toks[Top.arg + 1] # ")"
    /\ vars' = IF Top.prev # 0 THEN vars
               ELSE [vars EXCEPT ![Top.old_vars].args = "freed", ![Top.old_vars].void = TRUE]
    /\ Error(TRUE)
    /\ Continue(Outer, SkipTo(Top.at, {";"}), << >>, FALSE)
    /\ UNCHANGED <<yardVars, ret, typedefs, uses>>
NoArguments ==
    /\ AtArgument /\ FirstArgument /\ Top.arg <= Size /\ toks[Top.arg] = ")"
    /\ ArgumentsEnd(Top, Top.arg)
    /\ UNCHANGED <<yardVars, Parser_error_occurred, listVars, uses>>
Argument ==
    LET a == Top.arg
        name == TypeEnd(a)
        unnamed == name > Size \/ toks[name] \notin Idents
        isVoid == ~unnamed /\ TypeRead(a) = "void"
        end == IF unnamed THEN SkipTo(a, {";", ",", ")"})
               ELSE IF isVoid THEN SkipTo(a, {";"}) ELSE name + 1
        f == IF unnamed \/ isVoid THEN Top
             ELSE [Top EXCEPT !.params = Append(@, TypeRead(a)), !.tree = Append(@, name)]
    IN
    /\ AtArgument /\ ~PastEnd /\ ~IsVoid
    /\ ~(FirstArgument /\ toks[a] = ")")
    /\ IF unnamed \/ isVoid THEN UNCHANGED vars
       ELSE vars' = Append(vars, Variable(toks[name], name, Len(calls), TypeRead(a)))
    /\ Error(\/ ~IsType(toks[a]) \/ unnamed \/ isVoid
             \/ Redeclared(toks[name], Len(calls))
             \/ Type(end) \notin {",", ")"})
    /\ \/ /\ Type(end) = ")" /\ ArgumentsEnd(f, end)
       \/ /\ Type(end) \notin {",", ")"}
          /\ ArgumentsEnd(f, SkipTo(end - 1, {"{"}) - 1)
       \/ /\ Type(end) = ","
          /\ calls' = Append(Outer, [f EXCEPT !.arg = end + 1])
          /\ UNCHANGED <<turn, ret>>
    /\ UNCHANGED <<yardVars, typedefs, uses>>

\* func_prototypes_match reads the arguments that the symbol points to, a null
\* pointer for a variable; those of a freed node may still be there.
Matches(v, f) == v.type = f.type /\ v.params = f.params /\ v.void = f.void
EndArguments ==
    LET f == Top
        old == vars[f.prev]
        body == ret.end < Size /\ toks[ret.end + 1] = "{"
        twice == f.prev # 0 /\ body /\ old.defined
        known == IF f.prev # 0 THEN vars
                 ELSE [vars EXCEPT ![f.old_vars] =
                         [@ EXCEPT !.params = f.params, !.void = f.void, !.defined = body]]
    IN
    /\ Idle /\ turn = "arguments_read"
    /\ \/ f.prev # 0 /\ old.args # "live" /\ Crash
       \/ /\ f.prev # 0 => old.args # "null"
          /\ Error((f.prev # 0 /\ ~Matches(old, f)) \/ twice)
          /\ IF body
               THEN /\ CallParse([calls EXCEPT ![Len(calls)].body = ret.end + 1],
                                 Block(ret.end + 2, 1, TRUE, FALSE, f.type))
                    /\ vars' = known
               ELSE /\ Continue(Outer, ret.end + 1, Group(f.at, f.tree), FALSE)
                    /\ vars' = Truncated(known, f.old_vars)
          /\ UNCHANGED <<yardVars, ret, typedefs, uses>>
EndFunction ==
    /\ Idle /\ turn = "block_read" /\ Top.kind = "function"
    /\ Error(MissingCurly(FALSE))
    /\ vars' = Truncated(vars, Top.old_vars)
    /\ Continue(Outer, ret.end, Group(Top.at, Top.tree \o Group(Top.body, ret.tree)), FALSE)
    /\ UNCHANGED <<yardVars, ret, typedefs, uses>>
-----------------------------------------------------------------------------
(* if, while and for.                                                      *)
NoParen == Start < Size => toks[Start + 1] # "("
StatementHead ==
    /\ At({"if", "while", "for"})
    /\ \/ /\ NoParen
          /\ Error(TRUE) /\ Continue(calls, SkipTo(Start, {";"}), << >>, FALSE)
          /\ UNCHANGED yardVars
       \/ /\ ~NoParen
          /\ CallYard(Append(calls, Pending(toks[Start], Start, << >>)), Start + 2,
                      IF toks[Start] = "for" THEN {} ELSE {")"})
          /\ UNCHANGED <<toks, Parser_error_occurred>>
    /\ UNCHANGED <<ret, listVars, uses>>

\* The three expressions of a for: init_end_idx, cond_end_idx.
NextInHead ==
    LET next == [Top EXCEPT !.kind = IF @ = "for" THEN "for_cond" ELSE "for_inc",
                            !.tree = @ \o result]
    IN
    /\ Read({"for", "for_cond"}) /\ i <= Size
    /\ CallYard(Append(Outer, next), i + 1, IF Top.kind = "for" THEN {} ELSE {")"})
    /\ Error(err) /\ NoteUses
    /\ UNCHANGED <<toks, ret, listVars>>

HeadKinds == {"if", "while", "for_inc"}
NoBody == i < Size /\ toks[i + 1] = ";"
BrokenHead ==
    /\ \/ Read({"for", "for_cond"}) /\ i > Size
       \/ Read(HeadKinds) /\ ~NoBody /\ i + 2 > Size
    /\ Error(TRUE)
    /\ Continue(Outer, SkipTo(Top.at, {";"}), << >>, FALSE)
    /\ UNCHANGED <<yardVars, ret, listVars, uses>>
EmptyBody ==
    /\ Read(HeadKinds) /\ NoBody
    /\ Error(err)
    /\ Continue(Outer, IF Top.kind = "if" THEN i ELSE i + 1, Group(Top.at, Top.tree \o result), FALSE)
    /\ NoteUses
    /\ UNCHANGED <<yardVars, ret, listVars>>

\* The body: body_in_block if a { follows.
CallBody(pending, first, curly) ==
    LET b == Last(Outer) IN
    CallParse(Append(Outer, pending),
              IF curly THEN Block(first + 1, b.deep + 1, TRUE, FALSE, b.func)
              ELSE Block(first, b.deep, FALSE, TRUE, b.func))
BeginBody ==
    LET curly == toks[i + 1] = "{" IN
    /\ Read(HeadKinds) /\ ~NoBody /\ i + 2 <= Size
    /\ CallBody([kind |-> "body", at |-> Top.at, tree |-> Top.tree \o result,
                 first |-> i + 1, curly |-> curly, isElse |-> FALSE], i + 1, curly)
    /\ Error(err) /\ NoteUses
    /\ UNCHANGED <<yardVars, ret, listVars>>
BodyTree ==
    LET body == IF Top.curly THEN Group(Top.first, ret.tree) ELSE ret.tree
    IN Top.tree \o (IF Top.isElse THEN Group(Top.first - 1, body) ELSE body)
AtElse == /\ toks[Top.at] = "if" /\ ~Top.isElse
          /\ ret.end < Size /\ toks[ret.end + 1] = "else"
BodyRead == Idle /\ turn = "block_read" /\ Top.kind = "body"
BeginElse ==
    LET first == ret.end + 2
        curly == Type(first) = "else"      \* parser.c:786, sic
    IN
    /\ BodyRead /\ AtElse
    /\ CallBody([Top EXCEPT !.tree = BodyTree, !.first = first, !.curly = curly, !.isElse = TRUE],
                first, curly)
    /\ Error(Top.curly /\ MissingCurly(FALSE))
    /\ UNCHANGED <<yardVars, ret, listVars, uses>>
EndBody ==
    /\ BodyRead /\ ~AtElse
    /\ Error(Top.curly /\ MissingCurly(FALSE))
    /\ Continue(Outer, ret.end, Group(Top.at, BodyTree), FALSE)
    /\ UNCHANGED <<yardVars, ret, listVars, uses>>

Next ==
    \/ Yard
    \/ EndParse \/ RightCurly \/ NestedBlock \/ EndNestedBlock
    \/ Expression \/ EndExpression \/ Return \/ EndReturn
    \/ UnnamedVariable \/ VoidVariable \/ DeclareVariable \/ EndVariable \/ Typedef
    \/ BeginFunction \/ MissingArgument \/ VoidArguments \/ GiveUpFunction
    \/ NoArguments \/ Argument \/ EndArguments \/ EndFunction
    \/ StatementHead \/ NextInHead \/ BrokenHead \/ EmptyBody \/ BeginBody \/ BeginElse \/ EndBody

Spec == Init /\ [][Next]_allVars /\ WF_allVars(Next)
-----------------------------------------------------------------------------
CallOK(c) ==
    /\ c.kind \in {"block", "nested", "expression", "return", "variable", "function",
                   "if", "while", "for", "for_cond", "for_inc", "body"}
    /\ c.kind = "block" => /\ c.old_vars \in 0 .. Len(vars)
                           /\ c.old_typedefs \in 0 .. Len(typedefs)
                           /\ c.prev \in 0 .. 2 * Size + 2
    /\ c.kind # "block" => c.at \in DOMAIN toks
\* Every call sees a list that has grown since it began, never one that a call
\* within it has cut below its own mark; parse() and parse_func_decl assert it.
\* What is in the list belongs to a block or function that is still read: a
\* declaration is never compared with one of a block that has ended (`parent').
TypeOK ==
    /\ turn \in Turns
    /\ \A n \in DOMAIN calls : CallOK(calls[n])
    /\ turn = "end" => vars = << >> /\ typedefs = << >> /\ calls = << >>
    /\ \A v \in ToSet(vars) :
         /\ v.at \in DOMAIN toks
         /\ v.parent \in DOMAIN calls /\ calls[v.parent].kind \in {"block", "function"}
    /\ \A use \in uses : use[1] \in DOMAIN toks /\ use[2] \in DOMAIN toks
    /\ status \in {"run", "done", "abort", "undefined"}

Ended == turn = "end" \/ status \in {"abort", "undefined"}
=============================================================================
