# A verification project for the Negi language

The Negi language (ネギ言語) is a small interpreted language with two
implementations in this repository: `src/src/negi_lang.hsp`, written in HSP
(Hot Soup Processor), and a port of it to C, `src/c/negi_lang.c`. This
directory holds TLA+ models of the parts of both where correctness is hard to
see and to test, the TLC configurations that check them on small instances,
and theorems that TLAPS proves for every size.

## 1. Inventory

Both implementations are pipelines: a source text becomes tokens, a syntax
tree, a list of commands, and an exit code. Nothing runs concurrently, nothing
is persisted, and each stage is one call that nothing interrupts. What is hard
is inside: long sequences of commands on a shared memory, errors in the middle
of a command, limits of the memory, and a garbage collector that moves
everything the program holds.

| Component | State | Operations | Used by |
|---|---|---|---|
| HSP tokenizer, parser | token list, expression list | `negi_lang_tokenize`, `negi_lang_parse_*` | the generator |
| HSP code generator | commands, labels, scopes, locals | `negi_lang_gen_*` | the evaluator |
| HSP evaluator | cells (stack and heap), arrays, maps, environments, frames, closures, strings | one handler for each command, the built-in functions | the host, through `negi_lang_eval_main` |
| HSP garbage collector | marks and maps of cells and arrays, two mark stacks | `negi_lang_gc_run`: begin, mark, move, rewrite | the main loop of the evaluator, between two commands, when an allocation has set `s_gc_force` |
| C tokenizer | the source, the vector of tokens, the places `l` and `r` | `tokenize`, `tok_add` | the parser, the error list |
| C parser | expressions | `parse_*` | the generator |
| C error list and source positions | the vector of errors, each at the place of a token | `err_add`, `find_pos`, `err_summary`, the dump of tokens | parser, generator, machine; the caller |
| C code generator | commands, data area, labels, scopes, locals, loops, functions | `gen_*` | the stack machine |
| C stack machine | cells, arrays, environments, frames, closures, strings, errors, exit code, program counter | `eval_*`, one for each command | the caller of `negi_lang_eval` |
| C built-in functions | the result cell of a call | `builtin_*`, reached by `extern_fun_get` | `eval_call` |
| C utilities | vectors and string builders | `vec_grow`, `mem_reserve`, `string_slice`, `sb_*` | everything |
| test runners, tests, demo, TOML library | | | |

What makes each of them correct:

* **Tokenizer**: it ends; the tokens are in the order of the source and inside
  it, each is as long as it can be and is named by what its characters are; a
  program that is written out, with any blanks and comments, is read back.
* **Parser**: every list of tokens ends in a tree or in reported errors, and
  the tree has every token and binds as the grammar says.
* **Error list and utilities**: each error is reported once, where it is; what
  is put in a vector or a string builder stays there when it grows.
* **Code generator and stack machine**: a program computes what it means; each
  statement and call takes back the operands it pushed, on every way out;
  variables of the functions around are found from closures called anywhere;
  assignments to an array change that array only; an error is reported, ends
  the program, and leaves no reference to nothing.
* **Evaluator memory**: no operation leaves the stack, the heap or the range of
  an array.
* **Garbage collector**: it keeps exactly what the program can reach, moves it
  without overwriting what it has not read, renumbers every reference, ends,
  and the program cannot tell that it ran.

`PROJECT.json` lists these components, the hazards of the code at their lines,
and the properties that cover them.

## 2. The modules

Three groups of modules: one for the memory of the HSP implementation (the C
port has no collector), one for the way from a source text to tokens, trees and
error messages in the C port, and one for the translation and execution of
programs there.

| Module | Models | Uses |
|---|---|---|
| `NegiHeap` | the memory of the HSP evaluator and the commands that change it | |
| `NegiGc` | the collector, on that memory, and the main loop that calls it | `NegiHeap` |
| `NegiHeap_proofs`, `NegiGc_proofs` | theorems about memory and collector | `NegiGc` |
| `MCGc` | instances for TLC: programs of at most `MaxCommands` commands | `NegiGc` |
| `NegiUtils` | vectors, strings and the string builder, as operators on records | |
| `NegiTokenize` | the tokenizer, one action for each turn of each loop | `NegiUtils` |
| `NegiLex` | what a tokenizer promises: whole tokens, blanks and comments, described by their characters | |
| `NegiRead` | what the parser reads in the text of a token | `NegiTokenize`, `NegiParse` |
| `NegiReport` | the error list, the summary, the dump of the tokens | `NegiTokenize` |
| `NegiTokenize_proofs`, `NegiReport_proofs` | theorems about the tokenizer and the utilities, and about errors and reports | `NegiTokenize`, `NegiReport` |
| `MCFront` | all short texts, and programs written out in several ways | `NegiReport`, `NegiRead`, `NegiLex`, `NegiPrint` |
| `NegiData` | the data area, in which the generator puts string constants | |
| `NegiSyntax` | the nodes of the syntax tree, and the trees of each depth | |
| `NegiLoop` | the loops over lists, as an operator on functions | |
| `NegiParse` | the parser, a function from lists of tokens to trees | `NegiSyntax` |
| `NegiPrint` | the grammar of `src/README.md`, as a printer of trees with no parentheses but the needed ones | `NegiSyntax` |
| `MCParse` | the parser on all short continuations of fifteen beginnings, compared with the grammar | `NegiParse`, `NegiPrint` |
| `NegiGen` | the code generator, a function from trees to commands | `NegiData`, `NegiSyntax`, `NegiLoop` |
| `NegiVm` | the stack machine, one action for each command, operator and built-in function | `NegiData` |
| `NegiBalance` | the labels and the stack discipline of generated commands, and what the machine keeps to when it runs them | `NegiVm`, `NegiLoop` |
| `NegiArrays` | the ranges of the machine's arrays, and what a program sees of them | `NegiVm`, `NegiStore` |
| `NegiVm_proofs`, `NegiBalance_proofs`, `NegiArrays_proofs` | theorems about the stack machine | `NegiBalance`, `NegiArrays` |
| `NegiGen_proofs` | theorems about the generator, and about the machine on what it makes | `NegiGen`, `NegiBalance_proofs` |
| `NegiMeaning` | what a program means: an evaluator on trees without commands, labels, stack, cells or limits | `NegiSyntax` |
| `NegiStore` | what a program may rely on of its arrays: each is a sequence of its own | |
| `NegiPrograms` | families of programs | `NegiSyntax` |
| `MCVm` | two families of programs written, parsed, compiled and run, compared with their meaning, the discipline and the store | the ones from `NegiData` on, but `MCParse` |

### NegiHeap and NegiGc

The command stream is open: in every state every command may come next, so a
behaviour is a run of *some* program, and the properties hold for all of them.
The variables are the lists of the code under shorter names (`cells`, `top`,
`heapEnd`, `arr`, `envs`, `frames`, `maps`, `gcForce`; the comment beside each
names its original). An action is one handler of `negi_lang_eval_main` with all
that it calls; operators that map a memory to a memory (`Push`, `Alloc`,
`ArrayPush`, ...) are the functions the handlers share. Values that refer to
nothing (integers, strings, extern functions) are one kind. A run is followed
up to its first reported error (`status`).

The collector is one action for each turn of each loop of `negi_lang_gc_run`
(`GcBegin`, `MarkCell`, `CellsMarked`, `MarkArray`, `ArraysMarked`,
`MoveCell`, `CellsMoved`, `MoveArray`, `ArraysMoved`, `Rewrite`, `GcEnd`);
`phase` is the place in `gc_run`. The mark stacks are sets, as their order is
of no account. The ghost variable `snap` keeps the memory as it was when the
collection began, so that properties can compare; no guard reads it.

### NegiUtils, NegiTokenize, NegiLex, NegiRead and NegiReport

A block of memory is a sequence and its capacity is its length; growing copies
the elements in use into a larger one, as `mem_reserve` does, and a string ends
at its first Nul. The source is a sequence of characters, and places count from
0, as in the code. `mode` is the place in `tokenize`: the head of the outer loop,
or the inner loop that runs; an action reads one character. `Char(i)` at the
end of the source is the Nul that follows it.

`NegiLex` reads no character by character: a step takes one whole token, blank
or comment `to` some place, and says of its characters what it must be (`IsInt`,
`IsWord`, `IsQuoted` with the escapes counted by the parity of the backslashes
before a place, ...) and that none more belongs to it. `Lexes` is the
refinement mapping: the abstract reader is at `r` at the head of the loop, and
at `l` as long as an inner loop runs.

`NegiRead` turns tokens into those of `NegiParse` (numbers, unescaped
characters, contents of strings, operators). `NegiReport` adds errors at any
tokens in any order, up to `MaxErrs`, since a program may fail anywhere, and
writes the summary through the string builder. What the summary should say
(`ErrorText`) is stated without a walk over the source: the line of a place is
the number of line ends before it, and its column is counted from the last of
these.

### NegiParse, NegiPrint and MCParse

A `parse_` function of the code moves an index into the list of tokens and adds
a node; here it takes a record (tokens, index, node, number of errors) and
returns the next one. `Parsing` is the one recursive operator through which the
functions that call each other come back. A failed assertion or `failwith`
(`crash`) and a loop of `parse_semi` that reads nothing (`hang`) are ends that
the record remembers, so that TLC can look at both. Tokens are their kind and,
for names, numbers and operators, their text; the kind `lone` is a quote with
nothing after it, on which `parse_str` fails its assertion. `NegiPrint` shares nothing with
the parser but the nodes.

### NegiGen, NegiVm and NegiMeaning

`NegiGen` threads a record `g` (commands, data, labels, scopes, locals, loops,
functions, errors) through the `gen_` functions in the order in which the code
calls them; a place in a scope, a level or a label number is computed as the
code does. `gen_exp` calls itself on the parts of a node. `Gen[n]` is what it does on
trees of depth up to `n`, a function of the state of the generator (`Generators`) and
the tree (`Trees[n]`); `GenNode` is its body, and takes the function for one depth
less. `Compile(n, e)` is `gen` on a tree of depth up to `n`; `MCVm` takes 16, and no
program of its families is deeper. `MCVm` gives it what the parser makes of a printed program, and
keeps the tree that was printed in the field `source`, which only properties
read: a wrong parse would be a wrong result.

`NegiVm` has the tables of the code in one record `ctx`; `eval_abort` in
the middle of a command does not end the command in the code, so neither does
it in the model: the rest of the handler works on the context it left. A failed
assertion or `failwith` is the end `"crash"`, and so is a division by zero; the
assertions of `stack_pop` and of `env_get` for an outer environment are in `Do`
and `PushEnv`, and the ones for other references are what `VmTypeOK` says.
Integers are those between `-IntMax - 1` and `IntMax`; a sum, difference or
product outside is wrapped. `ProgramOK` is what the machine relies on of a
program: each command has an operand of its kind, labels and functions lead into
the program, its last command is the exit, and no single array, call or function
is larger than the heap. TLC evaluates it on every program that a run compiles.

`NegiMeaning` is written from the language's side and shares nothing with the
generator or the machine but the syntax and the list of operators: variables
are names in environments, arrays are sequences, a break or a return is an
outcome. Two independent computations of the result are what `ResultRight`
compares. A program that divides by zero, leaves the range of integers, cuts a
slice that ends before it begins, or calls a function with too few arguments
comes to what no document describes: its meaning is `undef`, and any end will
do. No other program may end like that.

`NegiBalance` says of a list of commands, without running it, that it keeps a
stack discipline (`Balanced`): every place that can be reached is reached at one
height of the stack, counted from where the function that runs began; each
command finds its operands there; a function begins at height 0 and returns at
height 1; the exit belongs to the main program, at height 1. No code checks this.
Each `gen_` function is written to leave one value, and `eval` relies on it. The
places are found in one pass over the commands (`PlacesOf`); a jump that is no
branch is an integer 0 and a `jump_unless`, and a place remembers (`zero`) when
its top is that 0, so that what follows the jump is not reached by it.

Not every tree is compiled to such commands. A break in a function that is defined in a
loop leaves the function. A return or a break among the operands of an expression would
leave the operands that wait; the parser makes no such tree, as a statement is no operand. `Trees[n]` is therefore a record of
sets, one for each place where a tree may stand (`Surroundings`): in a function or the
main program, in a loop of one, among operands, in a function in a loop. `Nodes` says
what may stand there: a return only in `ReturnContexts`, a break only in
`BreakContexts`. The trees that are `main` are the regular programs. What is `free` may
stand anywhere, so these are all the trees that the parser can make. `SourcesAssumption`
of `MCVm`, which every run of it evaluates, says that the parser makes a `main` tree of each
program of `Sources` and a `free` tree of each one of `Others`.

`NegiStore` is what a program may rely on of its arrays: a command changes one
element of one array, makes one longer or shorter by one, or makes a new one,
and never touches another. The machine keeps the arrays side by side in one
memory, together with the variables of functions and the arguments of calls,
and moves them; `NegiArrays` says that until there is an error or an array has
grown beyond its range (the finding `vm_growth`), it implements the store.

## 3. What is checked

Bounds are the constants of the configurations.

| Run | Question | Result |
|---|---|---|
| `gc_safety` | Does a collection keep what is reachable and nothing else (`MarkExact`), never forget a reference while it marks (`MarkInvariant`), never overwrite what it has not read (`MoveSafe`), stay invisible (`ContentsKept`) and leave no garbage (`NothingDeadLeft`), within the bounds of the memory (`GcTypeOK`)? Does every step of a collection bring its end nearer (`GcProgress`), and does every collection end (`GcTerminates`)? | holds |
| `gc_ranges`, `gc_cellrefs`, `gc_maps` | Do the promises of comments and README about ranges, rewriting and maps hold? | violated |
| `front` | Are the tokens in order and inside the source (`TokensOK`) and those that `NegiLex` describes (`LexImplemented`), does every turn bring the end of the tokenizer nearer (`TokenizerProgress`), and does it end (`TokenizerEnds`), except with `//` in the last line (`OnlyCommentCrashes`)? Is a written program read back (`ReadsBack`)? Is every error reported where it is (`ReportRight`), and do the list of errors and the string builder keep their assertions (`FrontOK`)? | holds |
| `parse_tokens` | Is every token of an accepted program in its tree, in order (`NothingLost`)? Do parser and grammar agree on how operators bind (`WrittenAgain`)? Does an error always leave its node (`ErrorsKept`)? | holds |
| `parse_reported` | Is every list of tokens accepted or reported (`ProblemsReported`)? | violated |
| `vm_programs` | Do programs, from their tokens on, compute what they mean (`ResultRight`), and end (`Terminates`)? Does the generator set every label once and resolve it (`LabelsOnce`) and keep the stack discipline (`GeneratorBalanced`), and the machine with it (`ReturnsOne`, `EndsClean`)? Does the machine keep arrays apart (`ArraysApart`), present them as a store of sequences (`StoreImplemented`) and stay in a proper state (`VmTypeOK`, `StackSuffices`), in these and in programs that no document gives a meaning to? | holds |
| `vm_tight` | With too little stack and heap, is a program ever wrong without a report (`RightOrReported`)? | holds |
| `vm_range`, `vm_growth`, `vm_newline` | Do the promises of comments and README about exit codes, ranges and string constants hold? | violated |

**Bounds, and why they are enough.** `gc_safety` has 3 stack cells, 6 heap
cells, 7 commands, and a collection after each allocation that leaves three free
cells or fewer: enough for
two arrays of different capacities, one in an element of the other, one of them
dropped between two survivors, a growth that moves a range, a call with its own
environment, and a second collection on the result of the first. `MarkExact`
needs two rounds of the mark loops, which an array in an array in a variable
gives; `LiveArrays`, with which it compares, is the least set that holds the roots
and all that its members refer to, and does not look at the marks. The theorems
of section 5 hold without bounds. `gc_cellrefs` collects later, with one free cell
left: a collection at each allocation would find the cells below a variable dropped
already, and `CellReferencesFollow` speaks only of cells that survive.

`parse_tokens` goes on from each of fifteen beginnings, which put the parser
inside every kind of node, with up to three of 23 tokens; the lists have up to
nine. A list is continued as long as the parser reads it to its end, and so no
list is left out for what follows its first wrong token. Three tokens after a
beginning of two operands are two more operators, or an operator and a bracket:
every pair of neighbouring levels meets in both orders.

`front` has 5560 texts: every one of up to three of eleven characters, which
stand for each class that the tokenizer tells apart; every one of up to five of
two kinds of quotes' worth of characters (quote, backslash, newline, letter,
slash), where three backslashes before a quote still fit; and some fifty programs,
with every operator and keyword, written with four kinds of blanks and comments
between their tokens, and with none but the needed ones. Two errors at any two
tokens, in any order, are enough for a place that would be kept from one to the
next, and for three growths of the string builder.

`vm_programs` runs 3538 programs: every operator on each pair of eleven
operands of all types; every sequence of three of eight statements, twice around
a loop, followed by an expression that shows all three variables in the exit
code; closures in closures, each program with two instances of one function
that write to its variables and to shadowed and global ones, in six orders of
call; every sequence of three of eight array statements on arrays of four
elements that are shared or apart; each built-in function on right and wrong
arguments; arithmetic at the ends of the integers, division by zero, slices of
all orders, calls with too few arguments. `IntLimit` is 32767, so that a
product of two integers is still one of TLC's. Twice around a loop is enough to
meet the labels in both directions and to see an operand that was left over.
The longest program executes 1184 commands. The stack has 36 cells, because one
program has a call with 32 arguments, which the code counts as too many, and the
heap 36, which no program of the family needs, so that an error of memory would
be a wrong result. `vm_tight` runs the ones with functions and arrays on a stack
of 5 cells and a heap of 19, where many run out of one or the other.

The family `Others` of `vm_programs` has what the code does otherwise than
documents say or what these say nothing of: superfluous arguments, breaks out of
a function, reads out of range, arrays that grow, a second declaration of a
name. `ResultRight` and `GeneratorBalanced` leave them out (`Regular`, the field `regular` of
`source`): their commands may break the discipline, as a break out of a function does.
The other properties are checked of them as well, `ReturnsOne` and `EndsClean` where the commands are
`Balanced`.

**Fairness.** The only processes are the main loop of the evaluator and, inside
it, a call to the collector. A call runs on by itself, so weak fairness of the
steps of the collector (`MCFairSpec`) and of the machine (`Spec` of `NegiVm`)
is what the code gives; the tokenizer is one call as well (`WF_vars(Next)` of
`NegiTokenize`, which says nothing of errors and reports). No fairness is
assumed of the commands a program chooses in `NegiHeap`. Deadlock is not checked, because evaluation really
stops: at the exit command, at an error, or at the bounds of `MCGc`.

## 4. Where code and documents disagree

Each of these is a run that ends in a violation, with the behaviour as the
trace.

* `gc_ranges`: a collection moves the elements of an array and keeps its
  capacity, so that its spare cells overlap the cells of the next array; a
  later push into them overwrites the neighbour.
* `gc_cellrefs`: a reference to a cell that waits on the stack is not rewritten
  when a collection moves the cell. In `int_to_str(0); f()`, where `f` assigns an array
  to its own variable, the reference to the variable is on the stack when the
  array is allocated; the collection drops the cells of the first call, the
  variable moves down into them, and the assignment then writes to the cell it has
  left.
* `gc_maps`: the arrays of the keys and values of a live map are not marked.
* `vm_range`: `[0][5]` reports an index error and exits with 0, because
  `op_index` pushes an item over the exit code that `eval_abort` pushed.
* `vm_growth`: `array_reserve` copies the elements to the larger range and does
  not store that range, so the array grows into its neighbour.
* `vm_newline`: a string constant that ends in a newline reads without it,
  because constants are separated by an empty line that `data_get` finds one
  character too early.
* `parse_reported`: an operator that is no prefix, as in the program `:`, is
  reported by `parse_prefix` but not read, and `parse_semi` takes it for the
  beginning of the next statement, for ever.

The models show more of the kind, for which there are no runs: a source that
ends in a comment, with no line end after it, is read beyond its end
(`CommentOverrun`; `OnlyCommentCrashes` says that none without `//` in its last line is); a quote as
the last character fails an assertion of `parse_str` (`lone` in `ReadTok`), and
a string that is cut at a line end takes the line end for its closing quote
(`Quoted`); `1[0] = 2`
reaches `failwith` after the reported error, as `op_index_ref` goes on to the
operators below it; `1 + )` and `- -2` reach the assertion and the `failwith` at
the end of `parse_atom` (`Stopped`); a division by
zero is not guarded (`NoQuotient`, `OpArith`); after a superfluous argument the
function is still run (`CallClosure`), though evaluation should end at an
error; a break in a function that is defined in a loop jumps out of the
function (`GenBreak`; a FIXME in `negi_lang.hsp:1914`); in HSP, `stack_push` on
a full stack and `eval_abort` call each other without end (`Push` of
`NegiHeap`, status `overflow`), and the overlapping ranges of `gc_ranges` make
an assertion about empty arrays fail at the next collection (`Rewrite`, status
`failed`).

## 5. What is proved

`NegiGc_proofs` proves, for every size of memory, every bound and every
sequence of commands:

* `GcInvariant`: the inductive invariant `GcInv` always holds.
* `TypeCorrect`: `GcTypeOK`, and with it the bounds of stack, heap and ranges.
* `MarkCorrect`: `MarkInvariant`.
* `MarkingExact`: `MarkExact`, that marking ends with exactly what is live.
* `MoveCorrect`: `MoveSafe`.
* `CollectionInvisible`: `ContentsKept`.
* `NothingLeft`: `NothingDeadLeft`, that a collection leaves nothing but what is live
  in the memory that it leaves.
* `CollectionProgress`: `GcProgress`, that no step of a collection leaves as much to
  do as there was.

Assumptions: `StackAssumption` and `DataAssumption` of `NegiHeap`, which say
that the constants are natural numbers and that the stack and the global
environment fit into the cells. `NegiHeap_proofs` has the lemmas on which these
rest: that each function on the memory keeps it typed, one for each function,
and then one for each command.

**The argument.** `MoveSafe` and `ContentsKept` are not inductive. What
`GcInv` adds:

* `PhaseInv`: what each phase leaves alone. While it marks, the memory is the
  one of the snapshot; the program does not run during a collection.
* `KeptClosed`: at the end of marking, `MarkInvariant` with empty mark stacks
  says that what a survivor refers to survives. This is what makes the
  renumbering total on the references that are kept.
* `CellMapInv`, `ArrMapInv`: the maps send the survivors among the objects that
  were visited onto an initial segment, below or at their old place; therefore
  the next target is never an object that was not read. Neighbours that both
  survive stay neighbours, so that the elements of an array, which all survive
  with it, are still a range after the move.

With these, `Rewrite` keeps the bounds of every range (`NewArrayTyped`): a
range that keeps its capacity still ends within the memory, because it moved
down. That it may then overlap another range is the finding `gc_ranges`, and
the reason that disjointness of ranges is no part of the invariant.

Reachability is a fixed point, but no induction along paths is needed. `LiveArrays`
is the intersection of all sets of arrays that are closed under references.
`MarkSound`, which each marking step keeps, says that whatever is marked or waits
on a mark stack is in every such set; at the end `MarkInvariant`, with both stacks
empty, says that the marked arrays are such a set themselves (`LiveLeast`), and
the two inclusions meet.

`NothingDeadLeft` speaks of the memory after the collection, in which every object has
a new number, and so no equality with what was marked would do. `KeptLive` carries the
minimality of the survivors through the move loops: they are in every set that is
closed in the snapshot. A set that is closed in the new memory, read backwards
through the array map, is closed in the snapshot (`ClosedBefore`, which needs
`ContentsKept` and that the elements of an array stay together), so it holds every
survivor; and the map reaches every number below the new length (`ArrMapInv`), so the
set is all of the list.

`GcProgress` is the part of `GcTerminates` that can be proved here. The mark loops run
until a round finds nothing, so that their number is not known beforehand. What falls
with every visit is `Visits`: objects not marked and objects on a mark stack, because
an object is pushed only when it is marked, and marked only once. A visit lowers
`stuck`, which costs another round of two steps; three times `Visits` outweighs that.
The move loops count up to the end of their list.

`NegiTokenize_proofs` proves, for every source text:

* `LexInvariant`: the inductive invariant `LexInv` always holds.
* `TokenizerImplementsLex`: `LexImplemented`, that each turn takes a whole
  token, blank or comment and names it by its characters.
* `TokensInOrder`: `TokensOK`, and with it the assertions of `tok_add`,
  `src_slice` and `vec_grow`.
* `CrashIsComment`: `OnlyCommentCrashes`, that the tokenizer fails for no source
  but one with `//` in its last line.
* `TokenizerMoves`: `TokenizerProgress`. A turn of the loop takes a part of the
  source (which the steps of `NegiLex` do, so this is a consequence of the refinement), and
  a turn of an inner loop moves on within it.

Assumption: `SourcesAssumption` of `NegiTokenize`, that a source is a sequence of
characters without a Nul, as a C string is.

**The argument.** In an inner loop the code only knows where the token began;
`LexInv` adds what the characters so far have in common (`PartInv`,
`CommentInv`) and that all tokens before lie before it (`OrderInv`), so that
when the loop ends the token is as long as it can be. A quoted token is the hard
one: the code skips two characters at a backslash, while `NegiLex` counts the
backslashes before a place. `QuotedInv` says that an even number of them
precedes the place of the loop, and the lemmas `EvenUnhidden` and `EvenHides`
that each further backslash turns this around. `PushAppends` is the lemma about
vectors: an element that is added comes after all others, which stay where the
vector grows.

`NegiReport_proofs` proves, for every source and any number of errors at any
tokens, in any order:

* `ReportKeepsTokens`: errors and reports leave the tokenizer alone, so that
  `NegiReport`, which the run checks, has the properties above as well.
* `ErrorsHaveRoom`: `FrontOK`, the assertions of `vec_grow`, `sb_append` and
  `find_pos`.
* `ReportsAreRight`: `ReportRight`. The summary has every error, in order, with the
  lines and columns of its two ends and its text, and the dump has every token.

**The argument.** The invariant `ReportInv` says that the string builder holds
(`Holds`) the text that was to be written so far: a block with that text in it
and a Nul after it, whose recorded size is the length of the text. `AppendHolds`
shows that one append adds its string, whether or not the block has to grow and
whatever it had behind the Nul before, because no text has a Nul in it; the last is why
`SourcesAssumption` is needed. That `find_pos`, which counts as it walks, gives
the number of line ends before a place (`FindPosCounts`), that `string_format`
writes a text for every number (`DecimalText`), and that the concatenation of one more
sequence is one more append (`FlattenAdds`) are inductions over numbers. The
library states induction for an operator, which none of the provers here can
instantiate; `Induct` states it for a set, from the least element that every set of
numbers has (`WFMin`).

`NegiVm_proofs` proves, for every program and every size of stack and heap:

* `VmInvariant`: the inductive invariant `VmInv` always holds.
* `ReferencesHold`: `VmTypeOK`. A cell or a table of the machine never names an
  array, string, environment, closure or function that is not there, and a
  reference to a cell is always to one of the heap: what an error leaves behind in
  the middle of a command, and what a full stack or heap gives in place of a
  range, is no exception.

Assumptions: `VmAssumption`, that the stack is smaller than the memory and that
its addresses and the numbers of the types are ints; and `ProgramsAssumption`,
that `ProgramOK` holds of each program and that the input is a string. The second
is about the generator: `TranslatedOK` below proves it of what the generator makes,
but for the sizes, as it is false for a program with an array literal or a call that is
larger than the whole heap. TLC evaluates it on every program of the runs. Arithmetic needs `WrappedOK`
and `QuotientOK`: that a wrapped result and a quotient that is not too great, with
its remainder, are ints again.

**The argument.** `VmTypeOK` is not inductive, because an array is read at
places that are computed from its range. `VmInv` adds `Ranges`, that the elements
of every array, and the range up to which it grows without asking for more, are in
the memory. That does not survive every error: `array_push` without room in the
heap makes the array longer all the same. So the invariant keeps `Ranges` only
while the machine is not at its exit command, which reads no array, and the hard
part is that whatever breaks it has called `eval_abort` and no one has moved the
program counter since. `CallClosure` does move it after an error, and there the
error can only be one that leaves the ranges as they are: `heap_alloc` without
room returns the first cells of the heap, which by `ProgramOK` are enough for an
array of that size (`ArrayAddOK`). There is one lemma for each function on the
context, and one for each command.

`NegiBalance_proofs` proves, for every size of stack and heap, every list of
built-in functions and every input:

* `DisciplineKeeps`: a machine that runs a `Balanced` program keeps `BalanceInv`.
* `OperandsSuffice`: on a `Balanced` program `StackSuffices` holds, so that the
  assertion of `stack_pop` never fails, not even after an error.
* `ReturnsOneHolds`, `EndsCleanHolds`: `ReturnsOne` and `EndsClean`, of which
  `Balanced` is a part.

That the generator makes `Balanced` commands is the hypothesis. `GeneratorBalances`
below proves it, and `TranslatedRuns` puts the two together.

**The argument.** While the program runs, the stack of the running function is as
high as its place says (`InPlace`), and every frame returns to a place where the
caller waits with its own operands and one more (`Returns`). The hard part is
errors, which do not stop the command they happen in: `eval_abort` pushes a value
and moves the program counter to the exit, the rest of the handler may push another
one, and a call goes on into the function. Then the frame returns to the exit,
where any number of values may lie (`AtExit`), so the invariant has no height
there, and asks for an error instead. Inside such a function the heights are still
those of its commands, as they are counted from its own base.

`NegiArrays_proofs` proves, for every program and every size of stack and heap:

* `OrderHolds`: until there is an error, the ranges of the arrays lie in the heap
  one after the other, in the order of their numbers.
* `ArraysApartHolds`: `ArraysApart`.
* `StoreRefined`: `StoreImplemented`, that every step of the machine is a step of
  `NegiStore` or leaves the store as it is.

**The argument.** Whatever a command does, and a call may make an array for the
variables of the function, an environment, a closure's frame and an error in one
step, it is one of four kinds as far as arrays go (one lemma for each command and each kind): `Silent` (nothing
or one new array), assigned (one cell in the range of one array), pushed (one
array is longer by one and perhaps in another range) or shortened. Each kind keeps
the ranges in order and is a step of the store. The order must be of the ranges,
and not only of the elements, because `array_push` writes into the rest of a range
without looking at other arrays. The step that spoils it is the one of the finding
`vm_growth`, after which the elements of an array are not in its range any more:
`ArraysApart` is about the others, and `StoreImplemented` about steps that end with
`ElementsInRange`, the negation of which that run exhibits.

`NegiGen_proofs` proves, for every depth and size of trees and every list of built-in
functions:

* `LabelsResolve`: `LabelsOnce`, on every program that the generator makes of a tree
  (`Translated(p, "free")`). The assertion of `label_set` and the check of
  `gen_resolve_labels` never fail.
* `GeneratorBalances`: `GeneratorBalanced`, on every regular program that the generator
  makes of a tree (`Translated(p, "main")`).
* `TranslatedOK`: whatever the generator makes of a tree is `ProgramOK`, when the
  literals are integers of the machine and no array, call or function is larger than its
  memory (`Fitting`). This is the part of `ProgramsAssumption` that is about programs.
* `TranslatedRuns`: the generator and the machine together. When all programs are made
  of `main` trees, commands find their operands, a function returns with one
  value more than it was called with, and a program that ends without an error leaves
  nothing on the stack. `Balanced` is no hypothesis any more.

Assumptions: those of `NegiVm`; that generator and machine have the same list of
built-in functions, of which the theorems speak as `Externs` and `Builtins`; and that the
programs are `Translated`, which `Compiled` of `MCVm` is by its definition and by
`SourcesAssumption`.

**The argument.** No list of commands that is not finished is balanced: a jump out of
the branch of an `if` leads to a label that is set later. So the proof is about a
judgement (`Sound`) on the generator in the middle of its work. It has a height and a
function for each place between the commands so far (`Laid`), and one for each label,
whether it is set yet or not; a command fits its place (`Suits`) and leads to the next
one (`Leads`), and a jump needs the height that its label promises. Every `gen_`
function, begun at height h in a state that is sound, ends at height h + 1 in one
that is sound too, with the same loops and scope, every label of its own set once, and no
others set (`Done`). Commands that were there stay (`Keeps`), so what is known of
them is not lost, and a chain of parts of one node is followed by composing
such steps (`Reaches`). What a part may rely on depends on where it stands (`Placed`): a
return needs height 0, and a break the height that its loop promised. That a tree of the one
kind has parts of the other is `Nodes`; this is where a break out of a function
falls out.

`GenMeets` is the induction over depth; `Meets` is a statement about a set of trees, so
that an induction for a set (`Induct`) is enough, and the loops over arguments,
items and parameters go through `RepeatHolds` in the same way. That the equations by
which `Gen`, `Trees` and `Repeat` are defined have solutions at all is proved first, as
the provers know a recursive function as a `CHOOSE`.

The judgement is not `Balanced` yet, which finds its places in one pass
from the first command to the last (`PlacesOf`) and calls dead what it has found no way
to. `AssembledBalanced` shows that what the pass finds is what the judgement says. A jump
ahead is no problem: the place that it leads to is looked at later, and all
ways that it has come from agree. A jump back leads to a label that
was passed before, when the jump was not known; if the label were taken for dead and the jump for
live, the pass would be wrong. `BackReached` excludes it with the one thing that the
judgement says about control flow (`Closed`): between a label and a jump back to it
there is no label by which one could come in from before the first. So whatever is live
at the jump was reached by way of the label.

The same judgement without heights (`bal` is false) is what `LabelsResolve` and
`TranslatedOK` need, and it holds of all trees, with breaks and returns anywhere.

**Only model-checked.** `GcTerminates`, `TokenizerEnds` and `Terminates`, as
liveness (of the first two, that no step fails to bring the end nearer is proved; what
remains is that there is a next step, and that it is taken), and what three other
recursive functions compute for every input: the parser and the printer
(`NothingLost`, `WrittenAgain`, `ErrorsKept`, `ReadsBack`) and the meaning of programs
(`ResultRight`, `RightOrReported`). Those are `RECURSIVE` operators, and a module with a
theorem cannot reach one. That the parser makes no tree but those of `Trees` is
checked on the programs of the runs, by `SourcesAssumption`.

## 6. What is not modelled

* The HSP tokenizer, parser, code generator and built-in functions, except
  `array_push`, which allocates: the C ones were translated from them.
* `__dev_heap_make_tiny`, which a test of the HSP suite calls to make the heap small:
  the length of the heap and the threshold of the collector are constants of
  `NegiHeap`, and the configurations make them small.
* In the C port: the dumps of the tree and of the commands, which print and
  keep no state; `sb_format`, which nothing calls; the limit of 4096 characters
  in `string_format`; the wording of messages (all errors have one); tracing,
  reading files.
* Characters are model strings of length one, and `char` has no sign: bytes of
  a multibyte character are each a token `err` of their own, as any character
  that begins no token.
* Numbers in the source that are no `int` (`atol`).
* The test runners (the one in C decides by a variable that it never
  initialises whether any test is run; `PROJECT.json` has it as a hazard), the
  demo, the vendored TOML library.

## 7. Plan

Done: the HSP memory and collector, the C tokenizer, error list and utilities, the C
generator with its labels and its stack discipline, and the C machine with its
references, stack and arrays, with their theorems; the C parser against the grammar, and
generator and machine against the meaning of programs.

What is left, in order of importance:

1. The HSP built-in functions and map operations against `NegiStore`.
2. Runs for the disagreements of section 4 that have none.
