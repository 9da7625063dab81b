-------------------------------- MODULE MCVm --------------------------------
(***************************************************************************)
(* The parser, the code generator and the machine together, on families of *)
(* programs: the machine runs what the generator makes of each program of  *)
(* Sources and of Others, and is compared with what NegiMeaning says of    *)
(* the programs of Sources.                                                *)
(***************************************************************************)
EXTENDS NegiBalance, NegiArrays, NegiPrograms

CONSTANTS Sources, Others  \* families

Printer == INSTANCE NegiPrint
Parser == INSTANCE NegiParse
Compiler == INSTANCE NegiGen WITH Externs <- Builtins
Meaning == INSTANCE NegiMeaning WITH Externs <- Builtins

\* No program of the families is deeper.
Depth == 16

\* Each program is written, parsed and compiled; source is the tree it was written
\* from, and its family.
Parsed(e) == Parser!Parse(Printer!Tokens(e))
Made(e, regular) ==
    [Compiler!Compile(Depth, Parsed(e).exp) EXCEPT !.source = [exp |-> e, regular |-> regular]]
Compiled == {Made(e, TRUE) : e \in Sources} \cup {Made(e, FALSE) : e \in Others}
Regular == program.source.regular

\* What the theorems about the generator ask of a program.
ASSUME SourcesAssumption ==
    /\ \A e \in Sources : Parsed(e).exp \in Compiler!Trees[Depth].main
    /\ \A e \in Others : Parsed(e).exp \in Compiler!Trees[Depth].free

---------------------------------------------------------------------------
(* Properties.                                                             *)

\* The program is translated and run right: it ends with the exit code that it means,
\* and reports an error just when its meaning is one (gen and eval).
ResultRight ==
    ctx.end # "no" /\ Regular =>
        \E outcome \in Meaning!Outcomes(program.source.exp) :
            \/ outcome.undef
            \/ ctx.end = "exit" /\ (ctx.errs > 0) = outcome.err /\ ctx.exit = outcome.exit

\* With little memory, the program ends as it means to or reports an error (stack_push,
\* heap_alloc): it is never wrong in silence.
RightOrReported ==
    ctx.end # "no" /\ Regular =>
        \E outcome \in Meaning!Outcomes(program.source.exp) :
            \/ outcome.undef \/ ctx.errs > 0
            \/ ctx.end = "exit" /\ ~outcome.err /\ ctx.exit = outcome.exit

\* Every program of the family ends: the labels of its loops and branches lead out.
Terminates == <>(ctx.end # "no")

\* README.md: a result of 0 is success, another one is failure.
ErrorMeansFailure == ctx.end = "exit" /\ ctx.errs > 0 => ctx.exit # 0
=============================================================================
