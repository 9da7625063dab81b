------------------------------- MODULE NegiGen -------------------------------
(***************************************************************************)
(* The code generator of the C implementation (gen in src/c/negi_lang.c):  *)
(* from the abstract syntax to a list of commands for the stack machine of *)
(* module NegiVm.                                                          *)
(*                                                                         *)
(* The state of the generator is a record that every gen_ function takes   *)
(* and returns.  Scopes, labels, functions and commands count from 1 (from *)
(* 0 in the code), and "no parent" is 0.                                   *)
(***************************************************************************)
EXTENDS NegiSyntax, NegiData, NegiLoop, SequencesExt

CONSTANT Externs  \* the names of the built-in functions, in the order of the code

\* All error messages are the same here.
Message == <<63>>

Start == [cmds |-> << >>, labels |-> 0, locals |-> << >>, loops |-> << >>, funs |-> << >>,
          scopes |-> <<[parent |-> 0, len |-> 0]>>, scope |-> 1, data |-> << >>, ok |-> TRUE]

Cmd(kind, x) == [kind |-> kind, x |-> x]
Command ==
    [kind : {"op"}, x : Ops \cup {"array_push", "index_ref"}]
    \cup [kind : {"push_int", "push_str", "push_array", "push_closure", "push_extern", "push_env",
                  "local_var", "cell_get", "cell_set", "label", "jump_unless", "pop", "swap",
                  "dup", "call", "return", "err", "exit"}, x : Int]

Generators ==
    [cmds : Seq(Command), labels : Nat, locals : Seq([name : STRING, scope : Nat, index : Nat]),
     loops : Seq(Nat), funs : Seq([scope : Nat, label : Nat]),
     scopes : Seq([parent : Nat, len : Nat]), scope : Nat, data : Seq(Int), ok : BOOLEAN]

Op(op) == Cmd("op", op)

Emit(g, cmds) == [g EXCEPT !.cmds = @ \o cmds]

AddData(g, s) == [g EXCEPT !.data = AddedData(@, s), !.ok = @ /\ DataOK(s)]
EmitErr(g, message) == Emit(AddData(g, message), <<Cmd("err", Len(g.data))>>)

PushNull == Cmd("push_int", 0)
Negate == <<PushNull, Op("eq")>>
Goto(label) == <<PushNull, Cmd("jump_unless", label)>>
CellOf(index, level) == <<Cmd("push_env", level), Cmd("local_var", index)>>

NewLabels(g) == [g EXCEPT !.labels = @ + 2]

PushScope(g) ==
    [g EXCEPT !.scopes = Append(@, [parent |-> g.scope, len |-> 0]),
              !.scope = Len(g.scopes) + 1]

PopScope(g) == [g EXCEPT !.scope = g.scopes[g.scope].parent]

AddLocal(g, name) ==
    [g EXCEPT !.locals = Append(@, [name |-> name, scope |-> g.scope,
                                    index |-> g.scopes[g.scope].len]),
              !.scopes[g.scope].len = @ + 1]

\* The variables of that name in sight, with how many functions out each one is;
\* the innermost scope is searched first, and in a scope the first declaration.
InSight(g, name) ==
    LET outward[n \in 0 .. Len(g.scopes)] ==
            IF n = 0 THEN g.scope
            ELSE IF outward[n - 1] = 0 THEN 0 ELSE g.scopes[outward[n - 1]].parent
    IN {found \in (0 .. Len(g.scopes)) \X (DOMAIN g.locals) :
            /\ g.locals[found[2]].name = name
            /\ g.locals[found[2]].scope = outward[found[1]]}

GenIdent(g, e, lval) ==
    LET found == InSight(g, e.name)
        level == Min({f[1] : f \in found})
        first == Min({f[2] : f \in {f \in found : f[1] = level}})
        cell == Emit(g, CellOf(g.locals[first].index, level))
    IN IF found # {} THEN IF lval THEN cell ELSE Emit(cell, <<Cmd("cell_get", 0)>>)
       ELSE IF ~lval /\ e.name \in ToSet(Externs)
       THEN Emit(g, <<Cmd("push_extern", CHOOSE i \in DOMAIN Externs : Externs[i] = e.name)>>)
       ELSE EmitErr(g, Message)

\* The items of an array, and the arguments of a call.
GenItem(gen, g, item) == Emit(gen[<<g, item>>], <<Op("array_push")>>)
GenItems(gen, g, e) ==
    Repeat([x \in (DOMAIN e.subs) \X Generators |-> GenItem(gen, x[2], e.subs[x[1]])], Len(e.subs), g)
GenArgs(gen, g, e) ==
    Repeat([x \in (DOMAIN e.subs) \X Generators |-> gen[<<x[2], e.subs[x[1]]>>]], Len(e.subs), g)

GenArray(gen, g, e) == GenItems(gen, Emit(g, <<Cmd("push_array", Len(e.subs))>>), e)

GenCall(gen, g, e) ==
    Emit(GenArgs(gen, gen[<<g, e.l>>], e), <<Cmd("call", Len(e.subs))>>)

\* Both operands, and one or more commands for the operator.
GenBinary(gen, g, e, cmds) == Emit(gen[<<gen[<<g, e.l>>], e.r>>], cmds)

GenLval(gen, g, e) ==
    IF e.kind = "ident" THEN GenIdent(g, e, TRUE)
    ELSE IF e.kind = "op" /\ e.op = "index" THEN GenBinary(gen, g, e, <<Op("index_ref")>>)
    ELSE EmitErr(g, Message)

GenSet(gen, g, e) == Emit(gen[<<GenLval(gen, g, e.l), e.r>>], <<Cmd("cell_set", 0)>>)

\* The cell of the left-hand side is kept below its value.
GenSetOp(gen, g, e) ==
    LET old == Emit(GenLval(gen, g, e.l), <<Cmd("dup", 0), Cmd("cell_get", 0)>>)
    IN Emit(gen[<<old, e.r>>], <<Op(OpOfSetOp[e.op]), Cmd("cell_set", 0)>>)

\* Mutant: the then branch sets the end label in place of going there.
GenIfLabelForGoto(gen, g, cond, then, else) ==
    LET elseLabel == g.labels + 1
        endLabel == g.labels + 2
        tested == Emit(gen[<<NewLabels(g), cond>>], <<Cmd("jump_unless", elseLabel)>>)
        done == Emit(gen[<<tested, then>>], <<Cmd("label", endLabel), Cmd("label", elseLabel)>>)
    IN Emit(gen[<<done, else>>], <<Cmd("label", endLabel)>>)

GenIf(gen, g, cond, then, else) ==
    LET elseLabel == g.labels + 1
        endLabel == g.labels + 2
        tested == Emit(gen[<<NewLabels(g), cond>>], <<Cmd("jump_unless", elseLabel)>>)
        done == Emit(gen[<<tested, then>>], Goto(endLabel) \o <<Cmd("label", elseLabel)>>)
    IN Emit(gen[<<done, else>>], <<Cmd("label", endLabel)>>)

\* The comparisons are made of eq and lt.
Comparison == [ne |-> <<Op("eq")>> \o Negate,
               le |-> <<Cmd("swap", 0), Op("lt")>> \o Negate,
               gt |-> <<Cmd("swap", 0), Op("lt")>>,
               ge |-> <<Op("lt")>> \o Negate]

GenSemi(gen, g, e) == gen[<<Emit(gen[<<g, e.l>>], <<Cmd("pop", 0)>>), e.r>>]

GenOp(gen, g, e) ==
    CASE e.op = "semi" -> GenSemi(gen, g, e)
      [] e.op = "set" -> GenSet(gen, g, e)
      [] e.op \in SetOps -> GenSetOp(gen, g, e)
      [] e.op = "log_or" -> GenIf(gen, g, e.l, IntLit(1), e.r)
      [] e.op = "log_and" -> GenIf(gen, g, e.l, e.r, IntLit(0))
      [] e.op \in DOMAIN Comparison -> GenBinary(gen, g, e, Comparison[e.op])
      [] OTHER -> GenBinary(gen, g, e, <<Op(e.op)>>)

\* A parameter that is no name is reported when the function is called.
AddParam(g, param) ==
    IF param.kind = "ident" THEN AddLocal(g, param.name) ELSE EmitErr(g, Message)

AddParams(g, e) ==
    Repeat([x \in (DOMAIN e.subs) \X Generators |-> AddParam(x[2], e.subs[x[1]])], Len(e.subs), g)

\* The body is skipped over where the function is defined.
GenFun(gen, g, e) ==
    LET bodyLabel == g.labels + 1
        nextLabel == g.labels + 2
        entry == PushScope(Emit(NewLabels(g), Goto(nextLabel) \o <<Cmd("label", bodyLabel)>>))
        body == Emit(gen[<<AddParams(entry, e), e.l>>], <<Cmd("return", 0)>>)
        after == [PopScope(body) EXCEPT
                      !.funs = Append(@, [scope |-> body.scope, label |-> bodyLabel])]
    IN Emit(after, <<Cmd("label", nextLabel), Cmd("push_closure", Len(after.funs))>>)

\* The variable is in sight after its initial value only.
GenLet(gen, g, e) ==
    LET h == AddLocal(gen[<<g, e.l>>], e.name)
    IN Emit(h, CellOf(Last(h.locals).index, 0) \o <<Cmd("swap", 0), Cmd("cell_set", 0)>>)

\* Mutant: the value of the body stays on the stack.
GenWhileNoPop(gen, g, e) ==
    LET continueLabel == g.labels + 1
        breakLabel == g.labels + 2
        entry == Emit([NewLabels(g) EXCEPT !.loops = Append(@, breakLabel)],
                      <<Cmd("label", continueLabel)>>)
        tested == Emit(gen[<<entry, e.cond>>], <<Cmd("jump_unless", breakLabel)>>)
        body == Emit(gen[<<tested, e.l>>], Goto(continueLabel))
    IN [Emit(body, <<Cmd("label", breakLabel), PushNull>>) EXCEPT !.loops = Front(@)]

\* Mutant: a condition that is false is tried again.
GenWhileTryAgain(gen, g, e) ==
    LET continueLabel == g.labels + 1
        breakLabel == g.labels + 2
        entry == Emit([NewLabels(g) EXCEPT !.loops = Append(@, breakLabel)],
                      <<Cmd("label", continueLabel)>>)
        tested == Emit(gen[<<entry, e.cond>>], <<Cmd("jump_unless", continueLabel)>>)
        body == Emit(gen[<<tested, e.l>>], <<Cmd("pop", 0)>> \o Goto(continueLabel))
    IN [Emit(body, <<Cmd("label", breakLabel), PushNull>>) EXCEPT !.loops = Front(@)]

\* However a loop ends, it leaves one value on the stack.
GenWhile(gen, g, e) ==
    LET continueLabel == g.labels + 1
        breakLabel == g.labels + 2
        entry == Emit([NewLabels(g) EXCEPT !.loops = Append(@, breakLabel)],
                      <<Cmd("label", continueLabel)>>)
        tested == Emit(gen[<<entry, e.cond>>], <<Cmd("jump_unless", breakLabel)>>)
        body == Emit(gen[<<tested, e.l>>], <<Cmd("pop", 0)>> \o Goto(continueLabel))
    IN [Emit(body, <<Cmd("label", breakLabel), PushNull>>) EXCEPT !.loops = Front(@)]

\* Mutant: a break leaves all the loops.
GenBreakOutermost(g) ==
    IF g.loops = << >> THEN EmitErr(g, Message) ELSE Emit(g, Goto(Head(g.loops)))

\* The loops of the functions around are in sight too.
GenBreak(g) == IF g.loops = << >> THEN EmitErr(g, Message) ELSE Emit(g, Goto(Last(g.loops)))

GenNode(gen, g, e) ==
    CASE e.kind = "int" -> Emit(g, <<Cmd("push_int", e.val)>>)
      [] e.kind = "str" -> Emit(AddData(g, e.text), <<Cmd("push_str", Len(g.data))>>)
      [] e.kind = "ident" -> GenIdent(g, e, FALSE)
      [] e.kind = "array" -> GenArray(gen, g, e)
      [] e.kind = "call" -> GenCall(gen, g, e)
      [] e.kind = "op" -> GenOp(gen, g, e)
      [] e.kind = "fun" -> GenFun(gen, g, e)
      [] e.kind = "let" -> GenLet(gen, g, e)
      [] e.kind = "if" -> GenIf(gen, g, e.cond, e.l, e.r)
      [] e.kind = "while" -> GenWhile(gen, g, e)
      [] e.kind = "break" -> GenBreak(g)
      [] e.kind = "return" -> Emit(gen[<<g, e.l>>], <<Cmd("return", 0)>>)
      [] e.kind = "err" -> EmitErr(g, Message)

\* gen_exp, on trees of depth up to n.
GenTrees(n, gen) == [x \in Generators \X Trees[n].free |-> GenNode(gen, x[1], x[2])]
Gen[n \in Nat] == GenTrees(n, IF n = 0 THEN << >> ELSE Gen[n - 1])

\* gen, gen_resolve_labels: the commands, where each label is, and the functions,
\* the main one last.  source is kept by no code.
Compile(n, e) ==
    LET main == Emit([Start EXCEPT !.labels = 1], <<Cmd("label", 1)>>)
        g == Emit(Gen[n][<<main, e>>], <<Cmd("exit", 0)>>)
        at(label) == CHOOSE i \in DOMAIN g.cmds : g.cmds[i] = Cmd("label", label)
        funs == Append(g.funs, [scope |-> 1, label |-> 1])
    IN [source |-> e, cmds |-> g.cmds, data |-> g.data, ok |-> g.ok,
        labels |-> [label \in 1 .. g.labels |-> at(label)],
        funs |-> [f \in DOMAIN funs |-> [cmd |-> at(funs[f].label),
                                         len |-> g.scopes[funs[f].scope].len]]]
=============================================================================
