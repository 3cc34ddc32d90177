------------------------------- MODULE Driver -------------------------------
(***************************************************************************)
(* main() and compile() of src/main.c with CompArgs_get_args: which stage  *)
(* runs after which, what becomes of the output file, and the exit status. *)
(* The preprocessor and the lexer are FrontEnd's.  What the parser and the *)
(* code generator make of the tokens is a choice of everything that their  *)
(* own modules know them to do: an error, assembly, an assertion or a      *)
(* crash, and a loop that never ends.                                      *)
(***************************************************************************)
EXTENDS FrontEnd

CONSTANT ArgVectors    \* the argument vectors, without the program's name

VARIABLES
  argv,     \* the argument vector
  args,     \* CompArgs_args
  disk,     \* what can be opened: <<the source, the output file>>
  file,     \* the output file: "old", "empty", "part" of the assembly or "asm"
  parErr,   \* Parser_error_occurred
  exit      \* the exit status, or "running"

driverVars == <<argv, args, disk, file, parErr, exit>>
vars == <<feVars, driverVars>>

NoPath == "none"
-----------------------------------------------------------------------------
\* CompArgs_get_args; `waits' is set while -o waits for its operand, and
\* `told' when a message has been printed.  No message stops the compiler.
NoArgs == [src |-> NoPath, out |-> NoPath, optimize |-> FALSE, waits |-> FALSE, told |-> FALSE]
ReadArg(a, arg) ==
    IF a.waits THEN [a EXCEPT !.out = arg, !.waits = FALSE]
    ELSE CASE arg = "-o" -> [a EXCEPT !.waits = TRUE]
           [] arg = "-O" -> [a EXCEPT !.optimize = TRUE]
           [] arg = "-?" -> [a EXCEPT !.told = TRUE]     \* an unknown option
           [] OTHER -> [a EXCEPT !.src = arg]
CompArgs(v) ==
    LET a == FoldLeft(ReadArg, NoArgs, v) IN [a EXCEPT !.told = @ \/ a.waits]

SourceOpens == disk[1]
OutputOpens == disk[2]

Init ==
    /\ FrontEndInit
    /\ argv \in ArgVectors /\ args = NoArgs
    /\ disk \in BOOLEAN \X BOOLEAN
    /\ file = "old" /\ parErr = FALSE /\ exit = "running"

\* main, up to its call of compile(): opening the output file empties it.
GetArgs ==
    /\ stage = "args"
    /\ args' = CompArgs(argv)
    /\ told' = told \cup (IF CompArgs(argv).told THEN {"args"} ELSE {})
    /\ UNCHANGED <<src, preVars, lexVars, status, argv, disk, parErr>>

NothingToCompile ==
    /\ GetArgs /\ args'.src = NoPath
    /\ exit' = "0" /\ stage' = "done"
    /\ UNCHANGED file

CannotOpen ==
    /\ GetArgs /\ args'.src # NoPath
    /\ ~SourceOpens \/ (args'.out # NoPath /\ ~OutputOpens)
    /\ exit' = "1" /\ stage' = "done"
    /\ UNCHANGED file

Start ==
    /\ GetArgs /\ args'.src # NoPath
    /\ SourceOpens /\ (args'.out # NoPath => OutputOpens)
    /\ file' = IF args'.out = NoPath THEN file ELSE "empty"
    /\ stage' = "pre"
    /\ UNCHANGED exit

\* The parser and what follows it.  It says that the tokens are in error, or
\* says so of an argument of a call, whose errors Expr_verify drops.  Code is
\* generated for what was accepted.
AtParser == stage = "lexed" /\ status = "ok"
Says(message) ==
    /\ told' = told \cup message
    /\ parErr' = IF "parse" \in message THEN TRUE ELSE FALSE

ParserFails ==
    /\ AtParser
    /\ Says({"parse"})
    /\ stage' = "done"
    /\ UNCHANGED <<src, preVars, lexVars, status, argv, args, disk, file, exit>>

GenerateAlways == TRUE     \* mutant: code is generated without an output
GenerateIf == args.out # NoPath
ParserAccepts ==
    /\ AtParser
    /\ \E argument \in {{}, {"argument"}} : Says(argument)
    /\ file' = IF GenerateIf THEN "asm" ELSE file
    /\ stage' = "done"
    /\ UNCHANGED <<src, preVars, lexVars, status, argv, args, disk, exit>>

\* Parser or code generator fail an assertion (ast.c Expr_lvls_of_indir,
\* shunting_yard.c, gen_asm.c) or read what is not there: what has been told
\* and written before stays.
ParserKilled ==
    /\ AtParser
    /\ status' \in {"abort", "crash"}
    /\ \E message \in {{}, {"parse"}, {"argument"}} : Says(message)
    /\ file' = file \/ (GenerateIf /\ ~parErr' /\ file' = "part")
    /\ stage' = "parse"
    /\ UNCHANGED <<src, preVars, lexVars, argv, args, disk, exit>>

\* f(a; is read for ever (shunting_yard.c read_func_call, MCShuntingYard).
ParserHangs ==
    /\ AtParser
    /\ \E message \in {{}, {"parse"}, {"argument"}} : Says(message)
    /\ stage' = "parse"
    /\ UNCHANGED <<src, preVars, lexVars, status, argv, args, disk, file, exit>>

\* The end of compile(), and the value of main.
ErrorOccurredLexerOnly == lexErr \/ parErr     \* mutant
ErrorOccurred == preErr \/ lexErr \/ parErr \/ args.out = NoPath
Exit ==
    /\ stage = "done" /\ exit = "running" /\ status = "ok"
    /\ exit' = IF ErrorOccurred THEN "1" ELSE "0"
    /\ UNCHANGED <<feVars, argv, args, disk, file, parErr>>

Killed ==
    /\ exit = "running" /\ status # "ok"
    /\ exit' = "killed"
    /\ UNCHANGED <<feVars, argv, args, disk, file, parErr>>

Next ==
    \/ NothingToCompile \/ CannotOpen \/ Start
    \/ (PreProcess \/ LexStr) /\ UNCHANGED driverVars
    \/ ParserFails \/ ParserAccepts \/ ParserKilled \/ ParserHangs
    \/ Exit \/ Killed

\* One thread that never waits.
Spec == Init /\ [][Next]_vars /\ WF_vars(Next)
-----------------------------------------------------------------------------
Statuses == {"ok", "overread", "abort", "crash"}

\* The types of the state; who may have printed a message, and what a file
\* may hold.
TypeOK ==
    /\ stage \in {"args", "pre", "lex", "lexed", "parse", "done"}
    /\ pos \in 1 .. Len(src) + 3 /\ {onlyWs, preErr, lexErr, parErr} \subseteq BOOLEAN
    /\ \A m \in DOMAIN macros : macros[m].name # << >>
    /\ \A k \in DOMAIN insts : Word(src, insts[k].at)
    /\ \A f \in DOMAIN frames : frames[f].pos \in 1 .. Len(frames[f].text) + 3
    /\ told \subseteq {"args", "pre", "lex", "parse", "argument"}
    /\ status \in Statuses /\ file \in {"old", "empty", "part", "asm"}
    /\ exit \in {"running", "killed", "0", "1"}

\* The exit status tells whether the assembly was written (main.c).
ExitMeansAsm ==
    exit \in {"0", "1"} /\ args.src # NoPath => (exit = "0" <=> file = "asm")

\* What printed an error message makes main return 1, except the arguments, a
\* call's argument, and the lexer before it meets a macro's use (main.c,
\* lexer.c lex_str, which clears the flag of its caller).
Reported ==
    exit = "0" /\ told \cap {"pre", "lex", "parse"} # {} => told \cap {"pre", "parse"} = {} /\ insts # << >>

\* The arguments are read, and the preprocessor's and the lexer's walks end,
\* whatever the text is: comments, strings and directives that are not closed,
\* and macros used within the text of macros.  Nothing is said of the parser,
\* which may never return: see ParserHangs.
FrontEndEnds == <>(stage = "lexed" \/ exit # "running")
=============================================================================
