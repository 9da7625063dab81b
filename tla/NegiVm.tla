------------------------------- MODULE NegiVm -------------------------------
(***************************************************************************)
(* The stack machine of the C implementation (eval in src/c/negi_lang.c):  *)
(* it runs the commands that NegiGen makes.  One action is one command.    *)
(*                                                                         *)
(* ctx is the Ctx of the code, and the operators on it are its functions:  *)
(* an error calls eval_abort in the middle of a command, and the rest of   *)
(* the command is still executed on the context it left.  The cells are    *)
(* one memory: below StackLen the operand stack, above it the heap, of     *)
(* which an array owns the range l .. r - 1 and uses the first len cells.  *)
(* Cells count from 0, everything else from 1.                             *)
(*                                                                         *)
(* A failed assertion and failwith stop the program: the context is at its *)
(* end "crash".  The growth of the lists and the flag does_gc, which       *)
(* nothing reads, are left out.                                            *)
(***************************************************************************)
EXTENDS NegiData, SequencesExt

CONSTANTS Programs,  \* what the code generator can make: see NegiGen
          StackLen,  \* stack_len_min
          CellLen,   \* cell_len_min
          IntMax,    \* the greatest int
          Builtins,  \* the names of the built-in functions
          Input      \* what stdin_to_str returns

ASSUME VmAssumption == /\ StackLen \in Nat \ {0}
                       /\ CellLen \in Nat
                       /\ StackLen < CellLen
                       /\ IntMax \in Nat
                       /\ 7 <= IntMax /\ CellLen <= IntMax

VARIABLES program,  \* commands, data area, label and function tables
          ctx

vars == <<program, ctx>>

---------------------------------------------------------------------------
(* Cells.                                                                  *)

TypeNumber == [err |-> 0, int |-> 1, str |-> 2, array |-> 3, closure |-> 4,
               extern |-> 5, env |-> 6, cell |-> 7]

Cell(ty, val) == [ty |-> ty, val |-> val]
IntCell(n) == Cell("int", n)
BoolCell(b) == IntCell(IF b THEN 1 ELSE 0)
Fresh == Cell("err", 0)  \* what calloc leaves

ExitPc == Len(program.cmds)

---------------------------------------------------------------------------
(* What is relied on of the programs: each command has an operand of its   *)
(* kind, and no array, call or function is so large that an empty heap     *)
(* could not hold it.                                                      *)

IntRange == -IntMax - 1 .. IntMax
Sizes == 0 .. CellLen - StackLen - 1
ArgLimit == 32

OperandOK(p, cmd) ==
    /\ cmd.kind = "push_int" => cmd.x \in IntRange
    /\ cmd.kind = "push_str" => DataGet(p.data, cmd.x) \in Seq(IntRange)
    /\ cmd.kind = "push_array" => cmd.x \in Sizes
    /\ cmd.kind = "push_closure" => cmd.x \in DOMAIN p.funs
    /\ cmd.kind = "push_extern" => cmd.x \in DOMAIN Builtins
    /\ cmd.kind \in {"push_env", "local_var"} => cmd.x \in Nat
    /\ cmd.kind = "jump_unless" => p.labels[cmd.x] \in DOMAIN p.cmds
    /\ cmd.kind = "call" => cmd.x \in Nat /\ (cmd.x < ArgLimit => cmd.x \in Sizes)

ProgramOK(p) ==
    /\ Len(p.cmds) \in Nat \ {0, 1} /\ DOMAIN p.cmds = 1 .. Len(p.cmds)
    /\ p.cmds[Len(p.cmds)].kind = "exit"
    /\ \A i \in DOMAIN p.cmds : OperandOK(p, p.cmds[i])
    /\ p.funs # << >> /\ p.funs \in Seq([cmd : DOMAIN p.cmds, len : Sizes])

ASSUME ProgramsAssumption ==
    /\ \A p \in Programs : ProgramOK(p)
    /\ Builtins \in Seq(STRING)
    /\ Input \in Seq(IntRange)

Crash(c) == [c EXCEPT !.end = "crash"]

\* Mutant: the exit code is not pushed.
AbortEmpty(c) == [c EXCEPT !.errs = @ + 1, !.exit = 1, !.top = 0, !.pc = ExitPc]

\* eval_abort: the error is recorded and the machine goes to its exit with the
\* exit code on an otherwise empty stack.
Abort(c) == [c EXCEPT !.errs = @ + 1, !.exit = 1, !.cells = [@ EXCEPT ![0] = IntCell(1)],
                       !.top = 1, !.pc = ExitPc]

\* Mutant: a full stack ignores what is pushed.
PushIgnored(c, cell) ==
    IF c.top >= StackLen THEN c ELSE [c EXCEPT !.cells[c.top] = cell, !.top = @ + 1]

Push(c, cell) ==
    IF c.top >= StackLen THEN Abort(c)
    ELSE [c EXCEPT !.cells = [@ EXCEPT ![c.top] = cell], !.top = @ + 1]

\* Mutant: the last allocation may go to the end of the memory.
FitsAll(c, count) == c.heapEnd + count <= CellLen

Fits(c, count) == c.heapEnd + count < CellLen

\* Mutant: the heap grows by one cell less.
HeapAllocShort(c, count) ==
    IF Fits(c, count) THEN [c EXCEPT !.heapEnd = @ + Max({count - 1, 0})] ELSE Abort(c)

\* heap_alloc: without room it aborts, and returns the first cells of the heap.
HeapAlloc(c, count) == IF Fits(c, count) THEN [c EXCEPT !.heapEnd = @ + count] ELSE Abort(c)
AllocatedAt(c, count) == IF Fits(c, count) THEN c.heapEnd ELSE StackLen

---------------------------------------------------------------------------
(* Arrays, environments and strings.                                       *)

ArrayAdd(c, len, capacity) ==
    LET l == AllocatedAt(c, capacity)
    IN [HeapAlloc(c, capacity) EXCEPT
            !.arrays = Append(@, [l |-> l, r |-> l + capacity, len |-> len])]

\* array_reserve: the elements are copied to a larger range, and the array goes
\* on with the range it has.  (What is copied from or to beyond the memory is left out.)
ArrayReserve(c, a, newLen) ==
    LET array == c.arrays[a]
        capacity == array.len + newLen
        l == AllocatedAt(c, capacity)
        source(i) == i - l + array.l
    IN IF newLen <= array.r - array.l THEN c
       ELSE [HeapAlloc(c, capacity) EXCEPT
                 !.cells = [i \in DOMAIN @ |->
                                IF i \in l .. l + capacity - 1 /\ source(i) \in DOMAIN @
                                THEN c.cells[source(i)] ELSE @[i]]]

\* array_ref: an index out of range aborts, and refers to the array's first cell.
InArray(c, a, i) == i \in 0 .. c.arrays[a].len - 1
ArrayRef(c, a, i) == c.arrays[a].l + IF InArray(c, a, i) THEN i ELSE 0
Referred(c, a, i) == IF InArray(c, a, i) THEN c ELSE Abort(c)

SetItem(c, a, i, item) ==
    [Referred(c, a, i) EXCEPT !.cells = [@ EXCEPT ![ArrayRef(c, a, i)] = item]]

SetLen(c, a, len) ==
    LET array == [c.arrays[a] EXCEPT !.len = len]
    IN [c EXCEPT !.arrays = [@ EXCEPT ![a] = array]]

ArrayPush(c, a, item) ==
    LET index == c.arrays[a].len
        longer == SetLen(ArrayReserve(c, a, index + 1), a, index + 1)
    IN SetItem(longer, a, index, item)

EnvAdd(c, parent, fun) ==
    LET len == program.funs[fun].len
        d == ArrayAdd(c, len, len)
    IN [d EXCEPT !.envs = Append(@, [parent |-> parent, array |-> Len(d.arrays)])]

\* The arguments of a call are written into an array from its first item on; of those
\* that are too many each is an error, and the last one stays in the first item.
SetItems(c, a, items) ==
    LET array == c.arrays[a]
        extra == Len(items) - array.len
        written(i) == IF i = array.l /\ extra > 0 THEN Len(items) ELSE i - array.l + 1
        reported == IF extra > 0 THEN [Abort(c) EXCEPT !.errs = c.errs + extra] ELSE c
    IN [reported EXCEPT
            !.cells = [i \in DOMAIN @ |-> IF i >= array.l /\ written(i) \in DOMAIN items
                                               /\ (i < array.l + array.len \/ i = array.l)
                                          THEN items[written(i)] ELSE @[i]]]

\* A new string and a cell for it on the stack.
PushNewStr(c, s) ==
    LET d == [c EXCEPT !.strs = Append(@, s)] IN Push(d, Cell("str", Len(d.strs)))

\* strcmp
StrLess(s, t) ==
    \E n \in 0 .. Len(s) :
        /\ n < Len(t)
        /\ SubSeq(s, 1, n) = SubSeq(t, 1, n)
        /\ n = Len(s) \/ s[n + 1] < t[n + 1]

---------------------------------------------------------------------------
(* The commands.                                                           *)

Current == program.cmds[ctx.pc]

Pops == [push_int |-> 0, push_str |-> 0, push_array |-> 0, push_closure |-> 0,
         push_extern |-> 0, push_env |-> 0, local_var |-> 1, cell_get |-> 1,
         cell_set |-> 2, label |-> 0, jump_unless |-> 1, pop |-> 1, swap |-> 2,
         dup |-> 1, op |-> 2, return |-> 0, err |-> 0, exit |-> 1]

Popped == IF Current.kind = "call" THEN Current.x + 1 ELSE Pops[Current.kind]

\* The machine is about to execute such a command.
At(kind) == ctx.end = "no" /\ Current.kind = kind

\* The context once the command is fetched and its operands are popped; operand 1
\* is the deepest one.
Fetched == [ctx EXCEPT !.pc = @ + 1, !.top = @ - Popped]
Operand(n) == ctx.cells[ctx.top - Popped + n - 1]

\* stack_pop asserts that the operands are there.
Do(c) == ctx' = (IF ctx.top >= Popped THEN c ELSE Crash(ctx)) /\ UNCHANGED program

PushInt == At("push_int") /\ Do(Push(Fetched, IntCell(Current.x)))

PushStr == At("push_str") /\ Do(PushNewStr(Fetched, DataGet(program.data, Current.x)))

PushArray ==
    /\ At("push_array")
    /\ LET c == ArrayAdd(Fetched, 0, Current.x) IN Do(Push(c, Cell("array", Len(c.arrays))))

PushClosure ==
    /\ At("push_closure")
    /\ IF ctx.frames = << >> THEN Do(Crash(ctx))
       ELSE LET closure == [fun |-> Current.x, env |-> Last(ctx.frames).env]
                c == [Fetched EXCEPT !.closures = Append(@, closure)]
            IN Do(Push(c, Cell("closure", Len(c.closures))))

PushExtern == At("push_extern") /\ Do(Push(Fetched, Cell("extern", Current.x)))

\* The environment that many functions out; env_get asserts that there is one.
Outward(c, env, level) ==
    LET out[n \in 0 .. level] ==
            IF n = 0 THEN env ELSE IF out[n - 1] = 0 THEN 0 ELSE c.envs[out[n - 1]].parent
    IN out[level]

PushEnv ==
    /\ At("push_env")
    /\ IF ctx.frames = << >> THEN Do(Crash(ctx))
       ELSE LET env == Outward(ctx, Last(ctx.frames).env, Current.x)
            IN Do(IF env \in DOMAIN ctx.envs THEN Push(Fetched, Cell("env", env)) ELSE Crash(ctx))

LocalVar ==
    /\ At("local_var")
    /\ IF Operand(1).ty # "env" THEN Do(Crash(ctx))
       ELSE LET a == ctx.envs[Operand(1).val].array
            IN Do(Push(Referred(Fetched, a, Current.x),
                       Cell("cell", ArrayRef(Fetched, a, Current.x))))

CellGet ==
    /\ At("cell_get")
    /\ Do(IF Operand(1).ty = "cell" THEN Push(Fetched, ctx.cells[Operand(1).val])
          ELSE Abort(Fetched))

CellSet ==
    /\ At("cell_set")
    /\ Do(IF Operand(1).ty = "cell"
          THEN Push([Fetched EXCEPT !.cells = [@ EXCEPT ![Operand(1).val] = Operand(2)]], Operand(2))
          ELSE Abort(Fetched))

Label == At("label") /\ Do(Fetched)

\* Mutant: a jump leaves its condition on the stack.
JumpUnlessKeep ==
    /\ At("jump_unless")
    /\ Do(IF Operand(1).ty # "int" THEN Abort(Fetched)
          ELSE IF Operand(1).val = 0 THEN [ctx EXCEPT !.pc = program.labels[Current.x]]
          ELSE Fetched)

JumpUnless ==
    /\ At("jump_unless")
    /\ Do(IF Operand(1).ty # "int" THEN Abort(Fetched)
          ELSE IF Operand(1).val = 0 THEN [Fetched EXCEPT !.pc = program.labels[Current.x]]
          ELSE Fetched)

Pop == At("pop") /\ Do(Fetched)

Swap == At("swap") /\ Do(Push(Push(Fetched, Operand(2)), Operand(1)))

Dup == At("dup") /\ Do(Push(Push(Fetched, Operand(1)), Operand(1)))

Err == At("err") /\ Do(Abort(Fetched))

Exit ==
    /\ At("exit")
    /\ Do(IF Operand(1).ty = "int" THEN [Fetched EXCEPT !.exit = Operand(1).val, !.end = "exit"]
          ELSE Abort(Fetched))

---------------------------------------------------------------------------
(* Calls.                                                                  *)

Callee == Operand(1)
Args == [i \in 1 .. Current.x |-> Operand(i + 1)]

AtCall == At("call") /\ Current.x < ArgLimit

TooManyArgs == At("call") /\ Current.x >= ArgLimit /\ Do(Crash(ctx))

\* Where to return to is read after the arguments are stored, which may abort; the
\* body is entered all the same.  base is kept by no code: it is the height of the
\* caller's stack, for ReturnsOne.
CallClosure ==
    /\ AtCall
    /\ Callee.ty = "closure"
    /\ LET closure == ctx.closures[Callee.val]
           called == EnvAdd(Fetched, closure.env, closure.fun)
           env == Len(called.envs)
           c == SetItems(called, called.envs[env].array, Args)
           frame == [cmd |-> c.pc, env |-> env, base |-> c.top]
       IN Do([c EXCEPT !.frames = Append(@, frame), !.pc = program.funs[closure.fun].cmd])

\* The argument array and, after it, the cell for the result.
Arranged ==
    LET c == ArrayAdd(Fetched, Current.x, Current.x)
    IN SetItems(HeapAlloc(c, 1), Len(c.arrays), Args)
ResultCell == AllocatedAt(ArrayAdd(Fetched, Current.x, Current.x), 1)
ArgArray == Len(ctx.arrays) + 1

Builtin(name) ==
    /\ AtCall
    /\ Callee.ty = "extern"
    /\ Builtins[Callee.val] = name

\* What the function finds in the cells of its arguments.
Arg(i) == Arranged.cells[Arranged.arrays[ArgArray].l + i - 1]

Takes(types) == /\ Current.x = Len(types)
                /\ \A i \in DOMAIN types : types[i] \in {"any", Arg(i).ty}

Resolve(c, cell) == [c EXCEPT !.cells = [@ EXCEPT ![ResultCell] = cell]]
Finish(c) == Push(c, c.cells[ResultCell])

ValType ==
    /\ Builtin("val_type")
    /\ Do(IF Takes(<<"any">>) THEN Finish(Resolve(Arranged, IntCell(TypeNumber[Arg(1).ty])))
          ELSE Abort(Arranged))

\* string_slice asserts that the slice does not end before it begins.
StrSlice ==
    /\ Builtin("str_slice")
    /\ IF Takes(<<"str", "int", "int">>)
       THEN LET s == ctx.strs[Arg(1).val]
                l == Max({Arg(2).val, 0})
                r == Min({Arg(3).val, Len(s)})
                c == [Arranged EXCEPT !.strs = Append(@, SubSeq(s, l + 1, r))]
            IN Do(IF l > r THEN Crash(ctx) ELSE Finish(Resolve(c, Cell("str", Len(c.strs)))))
       ELSE Do(Abort(Arranged))

ArrayLen ==
    /\ Builtin("array_len")
    /\ Do(IF Takes(<<"array">>) THEN Finish(Resolve(Arranged, IntCell(ctx.arrays[Arg(1).val].len)))
          ELSE Abort(Arranged))

\* The three functions that give no result leave the result cell as it is.
CallArrayPush ==
    /\ Builtin("array_push")
    /\ Do(IF Takes(<<"array", "any">>) THEN Finish(ArrayPush(Arranged, Arg(1).val, Arg(2)))
          ELSE Abort(Arranged))

ArrayPop ==
    /\ Builtin("array_pop")
    /\ Do(IF Takes(<<"array">>)
          THEN LET a == Arg(1).val
                   len == Arranged.arrays[a].len
               IN Finish(SetLen(Arranged, a, IF len > 0 THEN len - 1 ELSE 0))
          ELSE Abort(Arranged))

Assertion ==
    /\ Builtin("assert")
    /\ Do(IF Takes(<<"int">>) /\ Arg(1).val # 0 THEN Finish(Arranged) ELSE Abort(Arranged))

StdinToStr ==
    /\ Builtin("stdin_to_str")
    /\ LET c == [Arranged EXCEPT !.strs = Append(@, Input)]
       IN Do(IF Takes(<< >>) THEN Finish(Resolve(c, Cell("str", Len(c.strs)))) ELSE Abort(Arranged))

CallOther == AtCall /\ Callee.ty \notin {"closure", "extern"} /\ Do(Abort(Fetched))

\* Mutant: the frame of the function stays.
ReturnInFrame ==
    /\ At("return")
    /\ Do(IF ctx.frames = << >> THEN Crash(ctx) ELSE [ctx EXCEPT !.pc = Last(ctx.frames).cmd])

Return ==
    /\ At("return")
    /\ Do(IF ctx.frames = << >> THEN Crash(ctx)
          ELSE [ctx EXCEPT !.pc = Last(ctx.frames).cmd, !.frames = Front(@)])

---------------------------------------------------------------------------
(* Operators.                                                              *)

AtOp(op) == At("op") /\ Current.x = op

Types == <<Operand(1).ty, Operand(2).ty>>
Ints == Types = <<"int", "int">>
Strs == Types = <<"str", "str">>
L == Operand(1).val
R == Operand(2).val

\* A comparison of strings or of integers; values of another type have no order,
\* and values of two types are told apart by their types.
Compare(strs, ints, types) ==
    Do(IF Operand(1).ty # Operand(2).ty THEN Push(Fetched, BoolCell(types))
       ELSE IF Ints THEN Push(Fetched, BoolCell(ints))
       ELSE IF Strs THEN Push(Fetched, BoolCell(strs))
       ELSE Abort(Fetched))

OpEq == AtOp("eq") /\ Compare(ctx.strs[L] = ctx.strs[R], L = R, FALSE)

OpLt ==
    /\ AtOp("lt")
    /\ Compare(StrLess(ctx.strs[L], ctx.strs[R]), L < R,
               TypeNumber[Operand(1).ty] < TypeNumber[Operand(2).ty])

\* An item out of range is an error, and the value is still pushed; a character out
\* of range is 0.
OpIndex ==
    /\ AtOp("index")
    /\ Do(IF Types = <<"str", "int">>
          THEN LET s == ctx.strs[L]
               IN Push(Fetched, IntCell(IF R \in 0 .. Len(s) - 1 THEN s[R + 1] ELSE 0))
          ELSE IF Types = <<"array", "int">>
          THEN LET c == Referred(Fetched, L, R) IN Push(c, c.cells[ArrayRef(Fetched, L, R)])
          ELSE Abort(Fetched))

\* After a type error this falls through to the arithmetic, which knows no such
\* operator: another type error when the types differ, and a crash when they do not.
OpIndexRef ==
    /\ AtOp("index_ref")
    /\ Do(IF Types = <<"array", "int">>
          THEN Push(Referred(Fetched, L, R), Cell("cell", ArrayRef(Fetched, L, R)))
          ELSE IF Operand(1).ty # Operand(2).ty THEN Abort(Abort(Fetched))
          ELSE Crash(Abort(Fetched)))

OpArrayPush ==
    /\ AtOp("array_push")
    /\ Do(IF Operand(1).ty # "array" THEN Crash(ctx)
          ELSE Push(ArrayPush(Fetched, L, Operand(2)), Operand(1)))

\* C leaves open what an addition, a subtraction or a product is that is no int; the
\* machine that it runs on takes it modulo the number of ints.
Wrapped(n) == ((n + IntMax + 1) % (2 * (IntMax + 1))) - (IntMax + 1)

\* Division truncates, as it does in C.
Abs(n) == IF n < 0 THEN -n ELSE n
Quotient(n, d) == (IF (n < 0) # (d < 0) THEN -1 ELSE 1) * (Abs(n) \div Abs(d))

OpAdd ==
    /\ AtOp("add")
    /\ Do(IF Ints THEN Push(Fetched, IntCell(Wrapped(L + R)))
          ELSE IF Strs THEN PushNewStr(Fetched, ctx.strs[L] \o ctx.strs[R])
          ELSE Abort(Fetched))

\* A quotient that is no int, by zero or of the least int, is a signal, which nothing
\* handles; so is the remainder that goes with it.
NoQuotient == R = 0 \/ Quotient(L, R) > IntMax

OpArith ==
    /\ \E op \in {"sub", "mul", "div", "mod"} : AtOp(op)
    /\ Do(IF ~Ints THEN Abort(Fetched)
          ELSE IF Current.x \in {"div", "mod"} /\ NoQuotient THEN Crash(ctx)
          ELSE Push(Fetched, IntCell(CASE Current.x = "sub" -> Wrapped(L - R)
                                   [] Current.x = "mul" -> Wrapped(L * R)
                                   [] Current.x = "div" -> Quotient(L, R)
                                   [] Current.x = "mod" -> L - Quotient(L, R) * R)))

---------------------------------------------------------------------------
(* The specification.                                                      *)

\* eval: the global environment and frame, and the program from its entry on.  A
\* program whose code could not be made does not come so far.
Init ==
    /\ program \in Programs
    /\ LET c == [cells |-> [i \in 0 .. CellLen - 1 |-> Fresh], top |-> 0, heapEnd |-> StackLen,
                 arrays |-> << >>, strs |-> << >>, envs |-> << >>, closures |-> << >>,
                 frames |-> << >>, pc |-> 2, errs |-> 0, exit |-> 1,
                 end |-> IF program.ok THEN "no" ELSE "crash"]
       IN ctx = [EnvAdd(c, 0, Len(program.funs)) EXCEPT
                     !.frames = <<[cmd |-> ExitPc, env |-> 1, base |-> 0]>>]

Operate == OpEq \/ OpLt \/ OpIndex \/ OpIndexRef \/ OpArrayPush \/ OpAdd \/ OpArith

CallExtern == ValType \/ StrSlice \/ ArrayLen \/ CallArrayPush \/ ArrayPop \/ Assertion \/ StdinToStr

Next == \/ PushInt \/ PushStr \/ PushArray \/ PushClosure \/ PushExtern \/ PushEnv
        \/ LocalVar \/ CellGet \/ CellSet \/ Label \/ JumpUnless \/ Pop \/ Swap \/ Dup
        \/ CallClosure \/ CallExtern \/ CallOther \/ TooManyArgs \/ Return
        \/ Operate \/ Err \/ Exit

\* The machine is one loop that nothing suspends.
Spec == Init /\ [][Next]_vars /\ WF_vars(Next)

---------------------------------------------------------------------------
(* Properties.                                                             *)

Places == 0 .. CellLen - 1

\* The cells that refer to what exists.
Of(ty, vals) == [ty : {ty}, val : vals]
CellsOf(c) ==
    Of("int", IntRange) \cup Of("err", {0})
    \cup Of("str", DOMAIN c.strs) \cup Of("array", DOMAIN c.arrays)
    \cup Of("closure", DOMAIN c.closures) \cup Of("extern", DOMAIN Builtins)
    \cup Of("env", DOMAIN c.envs) \cup Of("cell", StackLen .. CellLen - 1)

\* Type invariant.  Every reference, in the cells and in the tables, is to a thing
\* that exists, so that no get function of the code fails its assertion, and each
\* reference to a cell is to one of the heap.
VmTypeOK ==
    /\ ctx.pc \in 1 .. ExitPc + 1
    /\ ctx.top \in 0 .. StackLen /\ ctx.heapEnd \in StackLen .. CellLen - 1
    /\ ctx.cells \in [Places -> CellsOf(ctx)]
    /\ \A e \in DOMAIN ctx.envs : ctx.envs[e].parent < e /\ ctx.envs[e].array \in DOMAIN ctx.arrays
    /\ \A c \in DOMAIN ctx.closures : /\ ctx.closures[c].env \in DOMAIN ctx.envs
                                      /\ ctx.closures[c].fun \in DOMAIN program.funs
    /\ \A f \in DOMAIN ctx.frames : ctx.frames[f].env \in DOMAIN ctx.envs
    /\ ctx.end \in {"no", "exit", "crash"} /\ ctx.errs \in Nat /\ ctx.exit \in IntRange

\* The assertion of stack_pop holds whatever went wrong before: after an error, a
\* function that is still run finds the operands it pushed, and no others
\* (eval_abort, eval_call).
StackSuffices == ctx.end = "no" => ctx.top >= Popped
=============================================================================
