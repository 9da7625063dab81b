----------------------------- MODULE NegiBalance -----------------------------
(***************************************************************************)
(* The stack discipline of the commands that gen makes, and what it gives  *)
(* the machine that runs them (eval in src/c/negi_lang.c).                 *)
(*                                                                         *)
(* No code checks the discipline: every gen_ function is written to leave  *)
(* one value on the stack, and every command of eval relies on it.  Here   *)
(* it is a property of a list of commands alone.  Each place in the list   *)
(* that can be reached is reached at one height of the stack, counted from *)
(* where the stack of its function begins.                                 *)
(***************************************************************************)
EXTENDS NegiVm, NegiLoop

Pushes == [push_int |-> 1, push_str |-> 1, push_array |-> 1, push_closure |-> 1,
           push_extern |-> 1, push_env |-> 1, local_var |-> 1, cell_get |-> 1,
           cell_set |-> 1, label |-> 0, jump_unless |-> 0, pop |-> 0, swap |-> 2,
           dup |-> 2, op |-> 1, call |-> 1, return |-> 0, err |-> 0, exit |-> 0]

PopsOf(cmd) == IF cmd.kind = "call" THEN cmd.x + 1 ELSE Pops[cmd.kind]

\* What is known before a command: the height, whether it is the main program's, and
\* whether the value on top is the 0 of a goto (at a label, other ways may lead to it).
Place == [live : BOOLEAN, height : Nat, main : BOOLEAN, zero : BOOLEAN]
Entry(main) == [live |-> TRUE, height |-> 0, main |-> main, zero |-> FALSE]
Dead == [live |-> FALSE, height |-> 0, main |-> FALSE, zero |-> FALSE]

After(place, cmd) ==
    [live |-> TRUE, height |-> place.height - PopsOf(cmd) + Pushes[cmd.kind],
     main |-> place.main, zero |-> cmd.kind = "push_int" /\ cmd.x = 0]

\* The next command is not the next in the list.
Leaves(place, cmd) ==
    cmd.kind \in {"return", "err", "exit"} \/ (cmd.kind = "jump_unless" /\ place.zero)

\* What is known of the places, found in one pass over the commands: jumps back lead
\* to where the pass has been.
NextPlace(p, places) ==
    LET i == Len(places) + 1
        entries == {f \in DOMAIN p.funs : p.funs[f].cmd = i}
        jumps == {j \in DOMAIN places : /\ places[j].live /\ p.cmds[j].kind = "jump_unless"
                                        /\ p.labels[p.cmds[j].x] = i}
        froms == jumps \cup {j \in {i - 1} \cap DOMAIN places :
                                 places[j].live /\ ~Leaves(places[j], p.cmds[j])}
    IN IF entries # {} THEN Entry(Len(p.funs) \in entries)
       ELSE IF froms # {}
       THEN LET j == Min(froms)
            IN [After(places[j], p.cmds[j]) EXCEPT !.zero = @ /\ p.cmds[i].kind # "label"]
       ELSE Dead

PlacesOf(p) ==
    Repeat([x \in (DOMAIN p.cmds) \X Seq(Place) |-> Append(x[2], NextPlace(p, x[2]))],
           Len(p.cmds), << >>)

\* A place is as the command before it says.
Agrees(place, from) ==
    /\ place.live /\ place.height = from.height /\ place.main = from.main
    /\ place.zero => from.zero

\* Every command finds its operands, and all the ways to a place come at one height;
\* a function begins with an empty stack and returns with one value on it; the exit is
\* the main program's, and the main program is no function that can be called.
Balances(p, places) ==
    /\ places \in [DOMAIN p.cmds -> Place]
    /\ Agrees(places[2], Entry(TRUE))
    /\ \A f \in DOMAIN p.funs : Agrees(places[p.funs[f].cmd], Entry(f = Len(p.funs)))
    /\ \A i \in DOMAIN p.cmds :
           LET cmd == p.cmds[i]
               after == After(places[i], cmd)
           IN places[i].live =>
                /\ PopsOf(cmd) \in 0 .. places[i].height
                /\ cmd.kind = "exit" <=> i = Len(p.cmds)
                /\ cmd.kind \in {"return", "exit"} => places[i].height = 1
                /\ cmd.kind = "exit" => places[i].main
                /\ cmd.kind = "push_closure" => cmd.x # Len(p.funs)
                /\ cmd.kind = "jump_unless" => Agrees(places[p.labels[cmd.x]], after)
                /\ Leaves(places[i], cmd) \/ Agrees(places[i + 1], after)

Balanced(p) == Balances(p, PlacesOf(p))

\* TLC looks at a program where it begins.
AtStart == ctx.pc = 2 /\ ctx.top = 0 /\ Len(ctx.envs) = 1

\* Every gen_ function leaves one value on the stack on each way through its commands,
\* and every label and function is entered at one height: what the machine relies on
\* and no code checks.  A regular program is one where no break leaves a function (and no
\* break or return stands among operands, where the parser puts none).
GeneratorBalanced == AtStart /\ program.source.regular => Balanced(program)

\* Every label is set by one command and no more, and what jumps and functions name is
\* such a label, whatever the program: the assertion of label_set and the check of
\* gen_resolve_labels never fail.
LabelsOnce ==
    AtStart =>
        /\ \A x \in DOMAIN program.labels :
               {i \in DOMAIN program.cmds : program.cmds[i] = [kind |-> "label", x |-> x]}
                   = {program.labels[x]}
        /\ \A i \in DOMAIN program.cmds :
               program.cmds[i].kind \in {"label", "jump_unless"} =>
                   program.cmds[i].x \in DOMAIN program.labels
        /\ \A f \in DOMAIN program.funs :
               \E x \in DOMAIN program.labels : program.funs[f].cmd = program.labels[x]

---------------------------------------------------------------------------
(* What the machine keeps to on such a program.  TLC is to look at         *)
(* Balanced only when the rest is false.                                   *)

\* A function never pops what its caller pushed, and returns with one value more
\* than that: whatever the loops and branches it left (gen_while, gen_break,
\* gen_return, eval_call, eval_return).
ReturnsOne ==
    LET base == Last(ctx.frames).base
    IN \/ ctx.end # "no" \/ ctx.errs > 0 \/ ctx.frames = << >>
       \/ ctx.top >= base /\ (Current.kind = "return" => ctx.top = base + 1)
       \/ ~Balanced(program)

\* A program that ends without an error leaves nothing on the stack and no frame but
\* the global one: every statement and call takes back what it pushed (eval).
EndsClean ==
    \/ ctx.end # "exit" \/ ctx.errs > 0
    \/ ctx.top = 0 /\ Len(ctx.frames) <= 1
    \/ ~Balanced(program)

---------------------------------------------------------------------------
(* The inductive invariant.                                                *)

\* Where frame f of c returns to: to where its caller waits with its own operands and
\* the one more that the call gives it; or to the exit, after an error.
Returns(c, f) ==
    LET frame == c.frames[f]
    IN /\ frame.base \in Nat
       /\ IF f = 1 THEN frame.cmd = ExitPc /\ frame.base = 0
          ELSE \/ frame.cmd = ExitPc /\ c.errs > 0
               \/ Agrees(PlacesOf(program)[frame.cmd],
                         [live |-> TRUE, main |-> f = 2, zero |-> FALSE,
                          height |-> frame.base + 1 - c.frames[f - 1].base])

\* The machine is at a place where its stack has the height of the place.
InPlace(c) ==
    /\ c.frames # << >>
    /\ Agrees(PlacesOf(program)[c.pc],
              [live |-> TRUE, main |-> Len(c.frames) = 1,
               height |-> c.top - Last(c.frames).base,
               zero |-> c.top > 0 /\ c.cells[c.top - 1] = IntCell(0)])
    /\ \A f \in DOMAIN c.frames : Returns(c, f)

\* The machine is at the exit; without an error, with one value and no frame but the
\* global one.
AtExit(c) ==
    /\ c.top >= 1
    /\ \/ c.errs > 0
       \/ /\ c.top = 1 /\ Len(c.frames) <= 1
          /\ \A f \in DOMAIN c.frames : c.frames[f].base = 0

Disciplined(c) ==
    /\ \A i \in DOMAIN c.closures : c.closures[i].fun # Len(program.funs)
    /\ c.end = "no" => IF c.pc = ExitPc THEN AtExit(c) ELSE InPlace(c)
    /\ c.end = "exit" => c.errs > 0 \/ (c.top = 0 /\ Len(c.frames) <= 1)

BalanceInv == Balanced(program) => Disciplined(ctx)
=============================================================================
