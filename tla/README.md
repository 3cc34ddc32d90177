# A verification of mcc, the Mid C Compiler

mcc compiles a subset of C to 32-bit x86 assembly for nasm. It is one
sequential C89 program: there are no threads, no messages and nothing that is
stored between runs. What is hard in it is the discipline between parts that
each keep a little global state and rely on the others to leave it in order: a
pool of three registers that is never reset, a machine stack that several
functions push to and pop from, two numberings of the same labels and literals,
a parser that predicts the frames a later pass emits, two stacks that put
expressions together. A mistake there is a miscompiled program, found by no
test that does not happen to nest the right constructs.

The modules here model the core of the compiler *together with the machine that
runs its output*, and the front end together with the C that its input is: an
instruction is modelled by what it does to registers, memory and frames when the
emitted code reaches it, and beside the compiler's state stands what C's grammar,
scopes, types or macros make of the same text. Paths below are
relative to the repository's `src/` directory.

## The system

| component | state it keeps | operations | correct when |
|---|---|---|---|
| Register pool (`x86/ir.c`) | `gp_reg_used`, `next_reg_to_leak`, for the whole unit | `alloc_reg`, `free_reg` (and the push and pop they emit) | two live operands never share a register; a leaked value comes back; all flags clear between statements |
| Expression code generation (`x86/ir.c`) | the pool, recursion of `get_expr_instructions` | one case per operator, `get_func_call_expr_instructions`, `&&`/`\|\|` | every operand is intact when used; arguments are where the callee looks; the stack is balanced on every path |
| Statement code generation (`x86/ir.c`) | `label_counter`, `array_lit_counter`, frame count of a return | one function per statement | the code runs the statements the source says; every jump has one target; a return pops the frames that are open |
| Frame layout (`parser.c`, `parser_var.c`) | `bp`, `sp`, `var_bytes`, the list of visible variables, all u32 | declaration, block, bodies with and without braces | parser and emitted code agree where each variable is; no overlap; alignment |
| Array literals (`ast.c`, `x86/code_gen.c`) | two numberings | emission order, order of `.rodata` | the two agree |
| Token passes (`merge_strings.c`, `bin_to_unary.c`, `pre_to_post_fix.c`, `token.c`) | the token table | three rewriting passes | each operator is read as C's grammar reads it |
| Shunting yard (`shunting_yard.c`) | operator stack, output queue, depth of parentheses, error flag | one case per token, calls of itself for arguments, subscripts, initialisers | the tree is the grammar's; no assertion fails, but for `ast.c:274` as below; it ends |
| Statement parser (`parser.c`) | token index of every active call, lists of variables and typedefs, `Parser_error_occurred` | `parse` and one function per declaration or statement, each with its error paths | accepted text is C and its tree C's; C is accepted; it ends |
| Symbol table (`parser_var.c`, `identifier.c`, `typedef.c`, `type_spec.c`) | two lists, truncated at scope exit | find, declare, redeclare, match prototypes | a name means the declaration that C's scopes give it |
| Types and evaluation (`ast.c`, `prim_type.c`, `expr_verify.c`) | types cached in nodes | promotion, verification, `Expr_evaluate` | the types are C's; what is let pass can be compiled |
| Constant folding (`const_fold.c`) | the tree | one rewrite per node | same value with and without `-O` |
| Preprocessor and lexer (`pre_proc.c`, `lexer.c`) | position in the text, macros and the positions of their uses | one case per character class | C's tokens; no read past the text |
| Assembly writer (`x86/code_gen.c`) | none | one case per instruction, sequences for mul, div, mod | registers saved around the sequences |
| Vectors (`vector_impl.h`, `safe_mem.c`) | size, capacity | push, pop, erase | capacity grows, no wrap |
| Driver (`main.c`, `comp_args.c`, `file_io.c`, `err_msg.c`) | one error flag per stage, the output file | `main`, `compile`, `CompArgs_get_args` | the exit status tells whether there is assembly |

`main.c`'s `compile` calls the components in the order preprocessor, lexer, token
passes, parser (which calls the shunting yard for every expression), constant
folding with `-O`, code generation. They communicate by data structures (source
text, token table, AST, instruction list) and by file-scope variables:
`SY_error_occurred` and `Parser_error_occurred`, the parser's `vars` and
`typedefs`, and the pool and the counters of `x86/ir.c`. There are no callbacks.

`PROJECT.json` lists every component with its status, and under `hazards` what
can go wrong in this code that a test would hardly reach, with the properties
that speak of it.

## The modules

| module | models | checked by | proved in |
|---|---|---|---|
| `GPRegs` | the choice functions of `alloc_reg`, shared by `RegAlloc` and `ExprGen` | through them | `RegAllocProofs`, `ExprGenProofs` |
| `OperandStack` | abstract: what the pool promises | as `ImplementsOperandStack` | `RegAllocProofs` |
| `RegAlloc` | `alloc_reg`, `free_reg` and their client's discipline | `MCRegAlloc` | `RegAllocProofs` |
| `ExprGen` | the recursion of expression code generation | `MCExprGen` | `ExprGenProofs` |
| `StructuredFlow` | abstract: the meaning of C's statements and of `&&`, `\|\|` | through `CtrlFlow` | |
| `CtrlFlow` | statement code generation and the execution of the code | `MCCtrlFlow` | `CtrlFlowProofs` |
| `ArrayLits` | the order of the array literals in `.rodata`, next to `CtrlFlow` | `MCCtrlFlow` | |
| `Frames` | the parser's layout against the emitted frames | `MCFrames` | `FramesProofs` |
| `CExpr` | reference: expressions of C with their tokens and trees | through `ShuntingYard` | |
| `TokenPasses` | the three passes, token classes | through `ShuntingYard` | |
| `ShuntingYard` | `SY_shunting_yard` | `MCShuntingYard`, `MCParser` | `ShuntingYardProofs` |
| `Texts` | characters, words, ends of comments; shared by the next two | through them | |
| `FrontEnd` | `process` of `pre_proc.c` and `lex_str` of `lexer.c` | through `Driver` | `DriverProofs` |
| `CSource` | reference: comments, directives, macros and tokens of C | through `SourceTokens` | |
| `SourceTokens` | `Driver` next to `CSource`: `SameTokens` | `MCDriver` | |
| `Driver` | `main`, `compile`, `CompArgs_get_args`, composed with `FrontEnd` | `MCDriver` | `DriverProofs` |
| `CProgram` | reference: declarations, statements and scopes of C | through `MCParser` | |
| `Parser` | `parse` and all it calls, composed with `ShuntingYard` | `MCParser` | `ParserProofs` |
| `PrimTypes` | `prim_type.c`, the type of a binary node | through `Values` | `ValuesProofs` |
| `CValues` | reference: types and values of C's expressions | through `Values` | `ValuesProofs` |
| `Values` | types, verdict, folding and emitted code of expressions | `MCValues` | `ValuesProofs` |

### Register pool: `GPRegs`, `OperandStack`, `RegAlloc`

`used` is the set of registers whose `gp_reg_used` flag is true, `nextLeak` is
`next_reg_to_leak`. `live` holds the `GPReg` values that pending activations of
`get_expr_instructions` own, `regs` and `stk` are the machine's registers and
stack. The actions are what one activation does once its operands are there:
`Load` (a leaf), `Apply` (works in place), `Combine` (two operands, then
`free_reg` of the right one), `Postfix` (allocates a second register and frees
the first, the one place that does not free in LIFO order) and `Finish` (the
statement takes the value). `Operands` reads the pending values from where they
physically are, in a register or in the stack slot a leak pushed them to, and
`ImplementsOperandStack` says that, read so, the pool behaves as an operand
stack that has no registers at all. The place of a push (`slot`) is a note of
the model; the code keeps only whether there was one.

`LifoSpec` is the compiler on units without postfix operators, `Spec` on all.

### Expressions: `ExprGen`

The recursion is explicit: `calls` holds one record per activation of
`get_expr_instructions` and `get_func_call_expr_instructions`, and the
expression is chosen while it is compiled. A node's value is the node's number,
so a register or a stack word tells whose value it holds. A call pushes what
`push_used_caller_saved_regs` pushes, reserves the arguments' space, stores each
argument when it is there, executes the call (which destroys `ax` and `cx`), and
undoes all of it; `&&` and `||` are followed on the path that evaluates the
right operand, and `LabelBalanced` says what the path that skips it needs. An
assignment is an ordinary operator here; that its value in this compiler is an
address is not the model's concern.

### Statements: `StructuredFlow`, `CtrlFlow`, `ArrayLits`

`code` is the list of instructions in which a statement or a condition that is
still to be compiled stands in the place of its instructions. A step of the
generation is what one call of `get_*_stmt_instructions` (or of the `&&` and `||`
part of `get_expr_instructions`) does itself, for the leftmost such part, since
the calls follow each other from left to right: it takes labels from
`label_counter` and a number from `array_lit_counter`, and puts its instructions
around its own parts, a block one level deeper. When nothing is left to compile,
the code is executed one instruction a step, each condition operand taking any
value of `Vals`. Beside it runs `StructuredFlow`: `todo`, what the C program still
has to do, unfolded one statement a step up to the next observable event.
`SameEvents` says that the statement or operand the machine has reached is the one
the source wants next, so the two agree on every path of every program of the run.
A value is the set of its bits that are 1.

`ArrayLits` lists the literals as `BlockNode_get_array_lits` does for `.rodata`, by
recursion over the syntax tree, and compares that order with the numbers that the
code has taken (`LiteralsMatch`). It is a module of its own because the provers
cannot work where an operator is recursive.

The comment at `ast.h:337` says `else_body_in_block` tells whether the else body
is in braces; `parser.c:786` sets it from the `else` token and not from the brace
after it, so every else is parsed as a body without braces. Its braces are then a
nested block, which is why nothing goes wrong; the model does the same.

### Frames: `Frames`

A block record has the parser's `bp`, `sp`, `var_bytes` and the machine's `ebp`;
a variable has the parser's `stack_pos` and the address it really has in the
block that declares it. Arithmetic wraps as u32 does. `Declare`, `OpenBlock`
(braces), `OpenBody` (a body without) and `Close` do what the parser and the
emitted code do for one construct. The memory of `memcpy`'s arguments, which an
array initialiser leaves on the stack, is `pushed`.

### Tokens and trees: `CExpr`, `TokenPasses`, `ShuntingYard`

`CExpr` builds expressions by C's grammar, one operator per production, each
with the tokens the lexer makes of it, the tokens as the grammar reads them and
its tree. `TokenPasses` are the passes. `ShuntingYard` reads the table that they
leave: `yards` has one record per active call of `SY_shunting_yard`; a step
handles one token, moves one operator to the output queue or returns from a
call. `abort` stands for a failed assertion, `undefined` for a read of what is
not there. An undeclared name is an error and no operand; a call of one is
skipped to the next `)`. Casts are well-formed. A tree stands in an output queue
with its levels of indirection, as `Expr_lvls_of_indir` computes them when an
operator is moved there (`LvlsOfIndir`): a dereference or a subscript of operands
without a level fails `assert(lvls_of_indir > 0)` at `ast.c:274` and aborts the
compiler (`NoPointer`). `Source` gives every name its levels, and `MCShuntingYard`
the fewest with which the expression is C. The rest of the types of nodes and
`Expr_verify` are left out, since they do not change the tree, except that
`Expr_verify` reads a null pointer when a variable is called.

### From the text to the exit status: `Texts`, `FrontEnd`, `CSource`, `Driver`, `SourceTokens`

`FrontEnd` has one action per turn of the two loops: `pos` and `onlyWs` are
`src_i` and `only_whitespace` of `process`, `macros` and `insts` the two lists it
fills, `frames` the active calls of `lex_str`, which calls itself for every
macro's replacement. A letter of a text stands for a word; `define` is one.
`overread`, `abort` and `crash` are the three ways in which the code leaves its
text or itself. `Driver` reads an argument vector, opens the files (a choice),
runs `FrontEnd`, chooses what parser and code generator make of the tokens (their
own behaviour is in the other modules), and sets the exit status and what the
output file then holds. The choice is between all that those modules know of: the
tokens are rejected (`ParserFails`) or accepted (`ParserAccepts`), with or without
a message about a call's argument; an assertion fails or something is read that is
not there, perhaps with a part of the assembly written (`ParserKilled`); or the
parser never returns, as on `f(a;` (`ParserHangs`).

`CSource` scans and preprocesses the same text as C does. `SameTokens` (in
`SourceTokens`, so that `Driver` is free of recursive operators) compares the two on plain texts, whose definition names, one conjunct each, the texts on
which preprocessor and lexer do not do what C says: a last line without newline
that has a directive or a comment (`lexer.c:282`); something at the first
character after a directive (`pre_proc.c:287`); a directive without name or
replacement, or with a comment that is not closed on its line; a comment after
whose end its slash makes another (`pre_proc.c:267`); a directive after a line
that ends in a `//` comment (`pre_proc.c:260`); comments inside quotes and
escaped quotes and backslashes (`lexer.c:198`). `Unmixed` leaves out macros in
the replacements of macros, which are not expanded, or are when they happen to
stand at an offset where the source has a use (`lexer.c:259`).

### Declarations, statements and scopes: `CProgram`, `Parser`

The functions of `parser.c` call each other, so `calls` has one record per active
call and `turn` says what the innermost does next. A block's record has
`prev_end_idx`, the lengths of the lists to go back to (`old_vars_size`,
`old_typedefs_size`), `can_decl_vars`, the depth and the parent function; the
records of statements and declarations hold what their local variables keep over
a call of `parse` or of the yard. `ret` is what a call has returned. Expressions
are read by `ShuntingYard` itself, instantiated on the parser's variables, so
that an error inside an expression leaves the parser where the code leaves it. Pointers
are left out here, so every name has no level of indirection and a `*` that a pass
has misread aborts, as in the code.
`vars` has the symbols with the pointer to their arguments, which is null for a
variable, and freed after the error path of `parser.c:561`. A read past the last
token finds what `Past` says, nothing or what looks like a `}` or a `;`.

`CProgram` reads the same tokens by C's grammar with C's scopes and gives a tree
and the declaration of every name used. `SameProgram` says that accepted text has
this tree and these declarations. What mcc accepts and C does not is told by the
shape of the text (`Granted` in `MCParser`): a `}` too many at file scope ends
the program silently; the last `}` of a program may be missing after a body in
braces, whose own is taken twice; a `}` in the place of a body ends body and
block; a second `else` is taken for the brace of the first one's body; a `(` is
left open where its expression ends; an operator before or after both operands.
Some liberties are granted by `CProgram` itself and named in `lax`: `if ()`,
`int a = ;`, any token in place of the semicolon of a prototype, statements
outside of functions, functions in functions, a declaration as a body, a type
redeclared, a parameter redeclared in the body, a second definition after a
prototype (which never marks the function as defined), keywords as names.
Constructs of C that mcc reads otherwise are in `odd`: a variable in its own
initialiser means the outer one, a variable cannot hide a type, an inner
typedef cannot change one, a prototype cannot hide a variable (its null
arguments are read), a variable cannot follow a typedef or a prototype in a
function, unnamed parameters, tentative definitions, old-style prototypes, an
`else` after an empty body. `AcceptsC` says that C without these is accepted.

### Types and values: `PrimTypes`, `CValues`, `Values`

An expression is built in postfix order, the order in which the yard builds nodes
and the code evaluates them, one action a node; `stack` has the subexpressions
that no node has taken yet. A node's record has the attributes that `ast.c`
computes (type before and after promotion, levels of indirection, verdict of
`Expr_verify`), what the emitted code leaves in its register when a value or an
address is asked for, what `Expr_evaluate` gives, and C's type, value and
address. Memory is `mem` for the code and `cmem` for C. With `optimize` a static
operand is what folding makes of it. A dereference or a subscript without a
pointer aborts the compiler (`ast.c:274`) and is the end of the expression, so
`Verdict` says nothing of such a subscript. The size of a byte (`ByteMod`) and the bitwise
and (`BitAnd`) are parameters. `MCValues` gives bytes of two bits, so a word has
eight: all overflows happen and TLC can enumerate values.

Where the code does not do what C says, the node gets the name of the deviation
and everything above it is released: `narrow` (loads zero-extend, `ir.c:661`),
`cast` (no instruction), `typed` (comparisons and logic by an unsigned type),
`difference`, `comma`, `scale` (an integer plus a pointer), `index`
(`ir.c:710`), `assigned` (the register has the address, `ir.c:677`), `step`
(`ir.c:796`), `and`, `or` (`ir.c:556`, `602`), `unsupported` (bitwise and),
`unsigned division`, `unsigned remainder`, `not in ax` (`code_gen.c:308` on),
`string`, `skipped` (folding). Each is attached exactly where its condition
holds, so `ValueAgrees` and `MemoryAgrees` are about all other nodes.

## The runs

No run uses symmetry: registers are ordered by the code and values are compared.
`CHECK_DEADLOCK FALSE` is given only where the system stops: a function has
returned, an assertion has failed, or (`RegAlloc`, `ExprGen`) an expression has
used up the bound on its size or on the leaks of a unit.

| run | question | bounds |
|---|---|---|
| `ra_lifo` | does the pool implement an operand stack? | 6 operands, 2 leaks: one fewer than registers |
| `ra_flags` | are flags and pushes exact, whatever is compiled? | 6 operands, 4 leaks, postfix operators |
| `ra_wraps` | expected violation: as many leaks as registers | 4 operands, 3 leaks |
| `eg_units` | do whole expressions keep operands, arguments and stack? | 8 nodes, 2 arguments a call; 2 leaks, or postfix operators |
| `eg_call_in_cx` | expected violation: `a + (b + f())` | |
| `cf_programs` | does the code do what the statements say? | two levels of nesting, 4792 programs |
| `fr_layout` | do parser and machine agree on every variable? | sizes 1, 2, 3, 4, 12; 5 variables, 3 blocks deep |
| `sy_exprs` | is every expression given the grammar's tree? | all of depth 2, chains of three operators |
| `sy_unclosed` | expected violation: `f(a;` never ends | |
| `fe_driver` | from arguments and text to exit status: C's tokens, errors reported, an end of both walks over the text | up to three lines out of 21, with and without the last newline |
| `pa_programs` | is what is accepted the C program that was written? | 100 small programs; each with a token lost, repeated, or exchanged with the next; 3 choices for the memory past the table |
| `va_exprs` | do the types, the code and the folding agree with C? | 6 nodes; chars, shorts, ints, unsigned and pointers of 2-bit bytes; with and without `-O` |

Why the bounds are enough to see the interesting cases. With three registers, a
fourth pending operand leaks; right-nested binary operators need a node more
than operands on each level, so eight nodes leak inside a call inside an
operator. Two leaks that are open at once nest; the third is the one that goes
wrong. Two levels of statements put every construct into every other, with a
return inside each; a third level repeats the same emission with other labels.
Three blocks give a variable that is seen from two levels below and one whose
frame lies between two others; the odd sizes 1 and 3 and the size 12 meet every
case of rounding. In expressions, precedence and associativity are about three
neighbouring operators, and every operator class stands beside every other at
depth 2. Three lines of source put every construct of the preprocessor before
and after every other, and a macro's definition, use and redefinition fit. The
programs of `MCParser` have each statement with each kind of body, each
declaration in each scope; the edits then reach every error path (no action or
disjunct of `Parser` is left untaken). Six nodes are an assignment of a sum of two
operands that are themselves expressions. `2^16` for the width of u32 keeps all residues that the layout uses.

Preconditions of the passing runs, each with the reason it is there:

- `ra_lifo`: fewer leaks than registers in the unit, no postfix operators.
  `ra_wraps` shows the first to be needed: the round robin of `ir.c:110` is never
  reset, so the third leak of a unit can hand out the register of the newest
  operand. The second is needed with leaks: in `i++ + (j + k++)` the postfix
  operator has changed the order and one leak is enough.
- `eg_units`: a unit has leaks or postfix operators, not both; calls, `&&` and
  `||` occur while two registers are free (`MinFree`). Without the latter a call
  can get `cx` (`eg_call_in_cx`), an argument can be computed in a leaked
  register and is then stored a word too low, and a leak in the right operand of
  `||` is pushed on one path only. Arguments are words: `ir.c:484` reserves one
  byte for an argument cast to `char` and stores four.
- `cf_programs`: condition operands are 0 or 1 (`1 && 2` is compiled to a bitwise
  and, which is 0), bodies are present (a lone `;` as a body is dropped together
  with the condition, or dereferences null), a `for` has a condition, and its
  third expression has no array literal (it is emitted after the body and
  numbered before it).
- `SameAddress`: the enclosing blocks hold whole words and no initialised array
  (`Regular`). After a `char` the frame is rounded and `sp` is not
  (`parser.c:1110`), and a nested block finds every outer variable at a wrong
  address.
- `SameTree`: the `++` of the expression were read as the grammar reads them
  (`return ++x` and `(T)++x` become postfix, `a[1]++` stays prefix) and no
  subscript follows a subscript (`a[1][2]` is read as `a[1[2]]`). Nothing is
  assumed about `-`, `*` and `&`, which the passes also misread (`(a) - b`,
  `f(a) - 1`, `a[1] - 2`, `return -1`): the property says that such an
  expression is never compiled silently.
- `Accepted`: the passes read the tokens as the grammar does, and no assertion has
  failed, which is `NoCrash`'s concern.
- `NoCrash`: an expression of C aborts the compiler in one place only, the assertion
  at `ast.c:274`, and only where it must: the expression dereferences or subscripts
  what is no pointer in C either; a `*` behind `(a)`, a `]` or a `++` was made a
  dereference (`MisreadStar`: `(a) * b`, `f(a) * b`, `a[1] * b` and `a++ * b` on ints
  are C, and `mcc` aborts); or a subscript follows a subscript or a postfix operator
  (`DoublePostfix`: in `a[1][2]`, read as `a[1[2]]`, the `1` has no level). The last
  two are errors of the code: valid C aborts `mcc`.
- `FrontEndEnds`: none. It says only that the reading of the arguments and the walks
  of preprocessor and lexer end, since the parser may hang.
- `SameTokens`: `Plain` and `Unmixed`, above.
- `Reported`: errors in the arguments of a call and in `mcc`'s own arguments do not
  change the exit status, and an error of the lexer is forgotten at the next use of a
  macro (`lexer.c:254`).
- `SameProgram`, `AcceptsC`: `Granted`, `lax` and `odd`, above.
- `Ends` of `pa_programs`: no call is cut off by a semicolon, which `sy_unclosed`
  shows to loop.
- `ValueAgrees`, `MemoryAgrees`, `TypesAgree`: the deviations, above.

## Fairness

`ShuntingYard`, `Driver` and `Parser` have a liveness property: that the reading of
an expression, of arguments and text, and of a program comes to an end, for every
input of the run. Nothing says that the whole compiler ends: on `f(a;` it does not.
The three specifications have weak fairness of `Next`: the
compiler is one process that takes its next step as long as it has one, and
nothing else competes with it. A loop of the code that changes nothing, as the
argument loop on `f(a;`, is a step that changes no variable and so counts as
stopping, which is what `sy_unclosed` shows. The other modules state safety only
and no fairness.

## The proofs

`RegAllocProofs` proves, for every number of registers, every set of values,
every pair of operators and every bound:

- of `Spec`, postfix operators and any number of leaks included: `TypeCorrect`
  (`TypeOK`), `FlagsExact` (`UsedExact`), `LeaksBalanced` (`StackExact`). None
  is inductive alone: the flags stay exact only if at most one operand without
  a leak holds each register, and if a pop finds on the stack as many values as
  operands still have one there. `PoolInv` is `TypeOK`, `used = Base(live)`,
  `OneFlagEach(live)` and `Len(stk) = Cardinality(LeakedAt(live))`.
- of `LifoSpec`, assuming `MaxLeaks < NRegs`: `OperandsAreDistinct`,
  `LiveAreFlagged` and `ImplementsOperandStackTheorem`. The inductive invariant
  `LifoInv` adds to `PoolInv` the shape of `live`: the first `NRegs` operands
  have no leak and hold the registers in order; operand `i > NRegs` saved its
  register's value in slot `i - NRegs`, and the registers of these operands
  increase strictly below the round robin's next, which therefore has not
  wrapped (`nextLeak = leaks`).
  From it every register has at most one taker, the place of each pending value
  can be computed, and every step of the pool is a step of `OperandStack`
  (`Load`, `Apply`, `Combine`, `Finish` to their namesakes).

The assumptions are those on the constants (`NRegsAssumption`,
`ValsAssumption`), which TLC evaluates in every run of `MCRegAlloc`, and the
theorem's own `MaxLeaks < NRegs`, which `ra_wraps` shows to be necessary. The
lemmas are about appending to and dropping from a sequence of operands and about
`Content`, the place where a value is.

`FramesProofs` proves, for every modulus that is a multiple of a word, every set
of sizes, number of parameters and depth:

- `FramesTypeCorrect`: `TypeOK`, from `Scopes`: the number of variables a block
  found grows from a block to the next and never exceeds those there are.
- `SameAddressEverywhere`: `SameAddress`. It is not inductive: an irregular block
  spoils only the blocks opened inside it, and closing those makes `Regular` true
  again. `Layout` therefore states, for each open block, what holds if the blocks
  below it are regular: `ebp` is `bp` plus `Base`, `esp` of a body without braces
  is `sp` plus `Base`, and so is the address of each variable that was visible
  when the next block was opened. That `sp` is `bp` less `var_bytes` in a frame
  (`SpFollows`) links the two counts at every `{`.
- `OutermostVarsAligned`: `OutermostAligned`, from the same two differences in the
  outermost block, for its variables even while other blocks are open.
- `NoOverlapWhileItFits`: `NoOverlap`, for every `s` with `Fits(s)`: no variable
  is larger than `s`, and the stack has room for `MaxVars` variables with their
  alignment and for the frames around them. Without such a bound it is false: the
  code's u32 arithmetic wraps and a frame that exceeds the address space comes
  around to its own parameters. The bounds of `fr_layout` satisfy it. `RoomInv`
  adds to `Layout` that every block is within its share of the room (`InRoom`),
  that each local variable lies below all those declared before it (`IsLocal`)
  and that every variable is clear of the saved `ebp` of every open block
  (`ClearOf`).

They rest on `FramesAssumption`, which the runs of `MCFrames` evaluate. Only
`NoOverlapWhileItFits` uses the bounds `MaxVars` and `MaxDepth`.

`ExprGenProofs` proves, for every number of registers, set of operators, sizes of arguments and bounds on nodes, arguments and leaks:

- `TypeCorrect`, `StatementsClean` and `CallerSavesMatch` of `Spec` without any
  condition, and `LabelsBalanced` where `MinFree >= 2`, that is, where two
  registers are free when a call with arguments, `&&` or `||` begins. Their
  invariant is `StackInv`. Every active call and the result in flight own at most
  one register, and these owners are read as one row (`Owners`): a register is
  flagged exactly if it belongs to an owner that is not leaked (`PoolOK`); each
  call's depth is that of the call around it plus what that one has pushed
  (`DepthsExact`); the stack is as deep as the innermost call says, plus a word if
  the result is leaked; and what a call decided when it began still holds (`Kept`):
  `cx` is saved exactly if an owner around it has `cx`, and some register is still
  free for the arguments or the right operand.
- `OperandsKept` and `ArgumentsInPlace`, under `Covered`: fewer leaks than
  registers, no call's result asked for in `cx`, two registers free where a call
  with arguments, `&&` or `||` begins, arguments of a word. Each of the four is a
  place where the compiled code is known to be wrong (`ra_wraps`,
  `eg_call_in_cx`, and the two hazards at `ir.c`'s arguments), and the run
  `eg_units` keeps to the same four. The invariant `ValueInv` adds to `StackInv`
  that leaks have not wrapped and are ordered in the row (`Ordered`), and where
  the value of every owner is: in its register if nobody later in the row has the
  same one (`InRegister`), else in the word that the next taker's leak pushed
  (`InSlot`); `Stored` says the same of what a call saves around itself and of its
  arguments. That no step disturbs these for any other owner is most of the proof.

They rest on `NRegsAssumption` and `ExprGenAssumption`, which the runs of
`MCExprGen` evaluate.

`DriverProofs` proves, for every set of source texts (`SourcesAssumption`), every
argument vector and every set of letters: `TypeIsOK` (`TypeOK`), that neither walk
over a text gets further than two characters behind its end, whatever directives,
comments, macros and strings it has met, and that the recorded uses of macros are
words of the source; `ExitTellsAsm` (`ExitMeansAsm`) and `ErrorsReported`
(`Reported`). `DriverInv` has a part for each stage's types, and three that say
what has happened by each stage (`StageInv`), what a message means (`ToldInv`) and
what the file and the exit status mean (`ExitInv`). The exit status alone is not
inductive: it depends on the error flags, which are forgotten on the way.

`ShuntingYardProofs` proves `TypeIsOK` (`TypeOK`) for every row of tokens, valid or
not, that is, also for what the grammar never makes. What it says beyond types is
how far the position goes: at most `2 * Len(toks) + 2`. A call on an opened
parenthesis that the table's end has cut off takes the position one further at
each level, which is why the invariant `YardInv` bounds position and number of
active calls together (`InReach`). A bound of `Len(toks) + 2`, which all rows of
the runs keep, could not be proved and is false for calls nested deeper. The steps
are lemmas about any state in which `YardInv` holds, so that `Parser` can use them.

`ParserProofs` proves `TypeIsOK` (`TypeOK`) of the statement parser for every token
table (`TextsAssumption`), valid or not. Its conjuncts are what the assertions at
`parser.c:629`, `1250` and `1254` and the code between them rely on: the lists of
variables and typedefs are never shorter than the mark of a call that is still
active, every variable in them was declared by a block or function that is still
being read, every name in a tree was found in the list, and both lists are empty in
the end. The invariant `ParserInv` says that active calls are by turns a block and
what is read in it, that the marks ascend from the outermost call to the innermost
(`Around`), that below a call's mark there is nothing of its own (`Marked`), and
what the innermost call waits for at each turn (`TopIs`); while an expression is
read it contains `YardInv`, and those steps are `ShuntingYardProofs`' (`SameYard`).

`CtrlFlowProofs` proves, for all conditions, statements and programs
(`SyntaxAssumption`: they are made of each other), however deep they nest:

- `TypeCorrect` (`TypeOK`): the machine never leaves the code, in which only a
  `ret` ends; `EveryLabelResolved` (`LabelsResolve`); `EveryFrameUnwound`
  (`FramesUnwound`), on every path and for all values of the conditions.
- `EventsAreTheSame` (`SameEvents`), for all `Vals` that hold 0 and 1 only. The
  hypothesis is the precondition of `cf_programs`; with other values `&&` is a
  bitwise and, and the theorem is false.

The invariant `FlowInv` gives every place of the code a note: what is left to run
of the source when the machine is there, the open frames, and the values that the
registers of the pending conditions hold. A part that is still to be compiled has
a note too, at its beginning and at its end. `Marked` says that neighbours fit
(`Linked`) and that a jump fits its label (`Lands`), and `Labelled` that the labels
in use are those that the counter has given. The generation keeps it because the
notes of what a construct becomes can be chosen to fit between those of its ends
(`AndFits`, `OrFits`, `IfFits`, `IfElseFits`, `WhileFits`, `ForFits`, `BlockFits`;
`SplicedMarked` puts them in place); the machine keeps it because a step goes from
a note to one that fits (`StepKeeps`). Since the source takes steps at which
nothing is to be seen, what is left to run is compared up to such steps: `Leads` is
defined by a recursive function on the number of steps, and `Same` relates lists
that lead to the same events. This replaces an induction over the syntax: nothing
is said of a whole statement, only of what one call puts in its place.

`ValuesProofs` proves, for every size of byte, set of objects, contents of memory and
grammar of expressions:

- `TypesAreCs` (`TypesAgree`) and `VerdictIsCs` (`Verdict`), from `AttributesInv`.
  The properties speak of a finished expression and of the two topmost
  subexpressions; the invariant says the same of every one on the stack (`NodeInv`):
  if it is accepted, C gives it a type and none of the deviations of types is in it,
  then its levels of indirection are C's, its promoted type is unsigned exactly if
  C's is, and for a pointer or an lvalue the type before promotion is C's (`Noted`).
  The code promotes a
  node's type where C promotes an operand, so signedness is all that the two have in
  common at every node; `ArithmeticType` shows that it is enough for the type of a
  word on both sides. With `-O` a static operand is replaced by its folded value and
  sheds the deviations of its code, so the invariant also says that it does not shed
  those of its type (`FoldsClean`). `VerdictOfTypes` compares `Expr_verify`
  with C for each kind of operator; where the two differ, one of the cases that
  `TooStrict` and `TooLax` name holds.
- `TypeCorrect` (`TypeOK`), from `FitsInv` next to `AttributesInv`: every value and
  address that the code computes is a word or one of the marked outcomes, through
  each instruction with its wrap, sign and size; either memory keeps bytes; and the
  registers of pending operands are distinct, since the one `FreeReg` gives is in no
  place below (`FreshReg`).

They rest on `ByteAssumption` (a byte has two values at least, and a bitwise and of
words is a word) and `ValuesAssumption` (objects lie in memory, their addresses are
words), which `va_exprs` evaluates.

TLC finds the invariants of the other modules to hold as an invariant of the
corresponding run (those of `ExprGen` with seven nodes and the row of owners cut off
at twelve). `FlowInv` TLC cannot evaluate, since it says that notes exist; the four
properties it gives are invariants of `cf_programs`. The longest proofs are those
of `ParserProofs` and `ExprGenProofs`, five to six minutes each.

The lemmas about the choice of the least free register are in `RegAllocProofs` and
in `ExprGenProofs`, next to the allocation each is about.

Only model-checked, and why:

- `Ends`, `FrontEndEnds` and `Terminates`: liveness under fairness.
- `LiteralsMatch`; `SameTokens`; `SameProgram` and `AcceptsC`; `SameTree` and
  `Accepted`: they compare the code with a reference that is recursive over the
  syntax (an order of a whole tree, a token row of a whole expression), which asks
  for induction over data. `SameEvents` is not of this kind: its reference is a
  machine that takes steps of its own.
- `NoCrash` of `ShuntingYard`: it holds for the expressions that the grammar makes,
  not for every row of tokens, so it too would need the grammar's induction.
- `ValueAgrees` and `MemoryAgrees` of `Values`. They compare what the code computes
  with C modulo a word, which is arithmetic with products, quotients and remainders
  of unknowns that the SMT solver does not decide. Nor is their agreement inductive a
  node at a time: an operand that is undefined in C excuses its node, but the right
  operand of an `&&` that C skips no longer excuses the node above.

## What is not modelled

- Wording and positions of messages, the text of the assembly, and the C library:
  files and allocation.
- In `Parser`: pointers, arrays, `static`, `signed` and `unsigned`, variadic
  functions, `DEBUG_PRINT_RAX`. Stack positions are in `Frames`, types and verdicts
  of expressions in `Values`; arguments of calls are not compared with parameters
  (`VarDeclPtrList_equivalent_expr`).
- In `CtrlFlow`: bodies that are a lone semicolon and a `for` without a condition,
  whose compilation is undefined behaviour.
- The bytes of array literals, and the characters of strings (`read_string`).
- Vectors: they are sequences here. The capacity is squared when it is full and
  wraps at 65536 (`vector_impl.h:46`), for a source of 65535 tokens, which no run
  can reach.

## Plan

1. `Parser`: asterisks, arrays and modifiers in declarations, with
   `type_spec.c`'s loops, and the comparison of arguments with parameters.
2. `CtrlFlow`: the empty bodies that `Parser` accepts, as undefined outcomes.
3. Theorems. Of `ShuntingYard`, that no operand is lost or duplicated between its
   two stacks, from `YardInv`. Of `Parser`, that a name means the innermost
   declaration that is visible (a part of `SameProgram` that needs no reference).
