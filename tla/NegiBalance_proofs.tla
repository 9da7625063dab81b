------------------------- MODULE NegiBalance_proofs -------------------------
(***************************************************************************)
(* A program that keeps the stack discipline never pops what is not there  *)
(* and leaves nothing behind, for every size of the memory and whatever    *)
(* goes wrong: an error leads to the exit, from any depth of calls.        *)
(***************************************************************************)
EXTENDS NegiBalance, NegiVm_proofs

USE VmAssumption

---------------------------------------------------------------------------
(* What the operations on a context do to the height of its stack.         *)

\* A context, as far as that is concerned.
Shaped(c) ==
    /\ DOMAIN c = {"cells", "top", "heapEnd", "arrays", "strs", "envs", "closures", "frames",
                   "pc", "errs", "exit", "end"}
    /\ c.errs \in Nat /\ c.top \in Int

\* From c to d there are n values more on the stack, or there was an error, and the
\* machine is at its exit.
Ran(c, d, n) ==
    /\ Shaped(d)
    /\ d.frames = c.frames /\ d.closures = c.closures /\ d.end = c.end
    /\ \/ d.errs = c.errs /\ d.pc = c.pc /\ d.top = c.top + n
       \/ d.errs > 0 /\ d.pc = ExitPc /\ d.top >= 1

LEMMA ShapedContext == ASSUME NEW c \in Contexts PROVE Shaped(c)
<1>1. c.errs \in Nat /\ c.top \in Int
  BY Fields, Small
<1>2. DOMAIN c = {"cells", "top", "heapEnd", "arrays", "strs", "envs", "closures", "frames",
                  "pc", "errs", "exit", "end"}
  BY DEF Contexts
<1> QED BY <1>1, <1>2 DEF Shaped

LEMMA RanSelf == ASSUME NEW c, Shaped(c) PROVE Ran(c, c, 0)
BY DEF Ran, Shaped

LEMMA RanThen ==
    ASSUME NEW c, NEW d, NEW e, NEW m \in Nat, NEW n \in Nat,
           Shaped(c), Ran(c, d, m), Ran(d, e, n)
    PROVE  Ran(c, e, m + n)
BY DEF Ran, Shaped

LEMMA RanAbort == ASSUME NEW c, Shaped(c), NEW n PROVE Ran(c, Abort(c), n)
BY DEF Ran, Shaped, Abort

LEMMA RanPush == ASSUME NEW c, Shaped(c), NEW cell PROVE Ran(c, Push(c, cell), 1)
<1>1. CASE c.top >= StackLen
  BY <1>1, RanAbort DEF Push
<1>2. CASE ~(c.top >= StackLen)
  BY <1>2 DEF Ran, Shaped, Push
<1> QED BY <1>1, <1>2

LEMMA RanHeapAlloc ==
    ASSUME NEW c, Shaped(c), NEW count PROVE Ran(c, HeapAlloc(c, count), 0)
<1>1. CASE Fits(c, count)
  BY <1>1 DEF Ran, Shaped, HeapAlloc
<1>2. CASE ~Fits(c, count)
  BY <1>2, RanAbort DEF HeapAlloc
<1> QED BY <1>1, <1>2

\* Writing a table, or cells, is no more than that.
LEMMA RanArrays ==
    ASSUME NEW c, Shaped(c), NEW arrays PROVE Ran(c, [c EXCEPT !.arrays = arrays], 0)
BY DEF Ran, Shaped

LEMMA RanCells ==
    ASSUME NEW c, Shaped(c), NEW cells PROVE Ran(c, [c EXCEPT !.cells = cells], 0)
BY DEF Ran, Shaped

LEMMA RanStrs ==
    ASSUME NEW c, Shaped(c), NEW strs PROVE Ran(c, [c EXCEPT !.strs = strs], 0)
BY DEF Ran, Shaped

LEMMA RanEnvs ==
    ASSUME NEW c, Shaped(c), NEW envs PROVE Ran(c, [c EXCEPT !.envs = envs], 0)
BY DEF Ran, Shaped

LEMMA RanShaped == ASSUME NEW c, NEW d, NEW n, Ran(c, d, n) PROVE Shaped(d)
BY DEF Ran

LEMMA RanTwice ==
    ASSUME NEW c, NEW d, NEW e, Shaped(c), Ran(c, d, 0), Ran(d, e, 0)
    PROVE  Ran(c, e, 0)
BY DEF Ran, Shaped

LEMMA RanArrayAdd ==
    ASSUME NEW c, Shaped(c), NEW len, NEW capacity PROVE Ran(c, ArrayAdd(c, len, capacity), 0)
<1> DEFINE h == HeapAlloc(c, capacity)
           l == AllocatedAt(c, capacity)
           arrays == Append(h.arrays, [l |-> l, r |-> l + capacity, len |-> len])
<1>1. ArrayAdd(c, len, capacity) = [h EXCEPT !.arrays = arrays]
  BY DEF ArrayAdd
<1>2. Ran(c, h, 0)
  BY RanHeapAlloc
<1> HIDE DEF h, arrays
<1>3. Ran(h, [h EXCEPT !.arrays = arrays], 0)
  BY <1>2, RanShaped, RanArrays
<1> QED BY <1>1, <1>2, <1>3, RanTwice

LEMMA RanArrayReserve ==
    ASSUME NEW c, Shaped(c), NEW a, NEW newLen PROVE Ran(c, ArrayReserve(c, a, newLen), 0)
<1> DEFINE capacity == c.arrays[a].len + newLen
           h == HeapAlloc(c, capacity)
           l == AllocatedAt(c, capacity)
           source(i) == i - l + c.arrays[a].l
           cells == [i \in DOMAIN h.cells |->
                         IF i \in l .. l + capacity - 1 /\ source(i) \in DOMAIN h.cells
                         THEN c.cells[source(i)] ELSE h.cells[i]]
<1>1. ArrayReserve(c, a, newLen) \in {c, [h EXCEPT !.cells = cells]}
  BY DEF ArrayReserve
<1>2. Ran(c, h, 0)
  BY RanHeapAlloc
<1> HIDE DEF h, cells
<1>3. Ran(h, [h EXCEPT !.cells = cells], 0)
  BY <1>2, RanShaped, RanCells
<1> QED BY <1>1, <1>2, <1>3, RanTwice, RanSelf

LEMMA RanReferred ==
    ASSUME NEW c, Shaped(c), NEW a, NEW i PROVE Ran(c, Referred(c, a, i), 0)
BY RanSelf, RanAbort DEF Referred

LEMMA RanSetItem ==
    ASSUME NEW c, Shaped(c), NEW a, NEW i, NEW item PROVE Ran(c, SetItem(c, a, i, item), 0)
<1> DEFINE d == Referred(c, a, i)
           cells == [d.cells EXCEPT ![ArrayRef(c, a, i)] = item]
<1>1. SetItem(c, a, i, item) = [d EXCEPT !.cells = cells]
  BY DEF SetItem
<1>2. Ran(c, d, 0)
  BY RanReferred
<1> HIDE DEF d, cells
<1>3. Ran(d, [d EXCEPT !.cells = cells], 0)
  BY <1>2, RanShaped, RanCells
<1> QED BY <1>1, <1>2, <1>3, RanTwice

LEMMA RanSetLen ==
    ASSUME NEW c, Shaped(c), NEW a, NEW len PROVE Ran(c, SetLen(c, a, len), 0)
<1> DEFINE array == [c.arrays[a] EXCEPT !.len = len]
           arrays == [c.arrays EXCEPT ![a] = array]
<1>1. SetLen(c, a, len) = [c EXCEPT !.arrays = arrays]
  BY DEF SetLen
<1> HIDE DEF arrays
<1> QED BY <1>1, RanArrays

LEMMA RanArrayPush ==
    ASSUME NEW c, Shaped(c), NEW a, NEW item PROVE Ran(c, ArrayPush(c, a, item), 0)
<1> DEFINE index == c.arrays[a].len
           d == ArrayReserve(c, a, index + 1)
           e == SetLen(d, a, index + 1)
           f == SetItem(e, a, index, item)
<1>1. ArrayPush(c, a, item) = f
  BY DEF ArrayPush
<1> HIDE DEF index
<1>2. Ran(c, d, 0) /\ Shaped(d)
  BY RanArrayReserve, RanShaped
<1> HIDE DEF d
<1>3. Ran(d, e, 0) /\ Shaped(e)
  BY <1>2, RanSetLen, RanShaped
<1> HIDE DEF e
<1>4. Ran(e, f, 0)
  BY <1>3, RanSetItem
<1> HIDE DEF f
<1> QED BY <1>1, <1>2, <1>3, <1>4, RanTwice

LEMMA RanEnvAdd ==
    ASSUME NEW c, Shaped(c), NEW parent, NEW fun PROVE Ran(c, EnvAdd(c, parent, fun), 0)
<1> DEFINE len == program.funs[fun].len
           d == ArrayAdd(c, len, len)
           envs == Append(d.envs, [parent |-> parent, array |-> Len(d.arrays)])
<1>1. EnvAdd(c, parent, fun) = [d EXCEPT !.envs = envs]
  BY DEF EnvAdd
<1>2. Ran(c, d, 0) /\ Shaped(d)
  BY RanArrayAdd, RanShaped
<1> HIDE DEF d, envs
<1>3. Ran(d, [d EXCEPT !.envs = envs], 0)
  BY <1>2, RanEnvs
<1> QED BY <1>1, <1>2, <1>3, RanTwice

LEMMA RanSetItems ==
    ASSUME NEW c, Shaped(c), NEW a, NEW items, Len(items) - c.arrays[a].len \in Int
    PROVE  Ran(c, SetItems(c, a, items), 0)
<1> DEFINE array == c.arrays[a]
           extra == Len(items) - array.len
           written(i) == IF i = array.l /\ extra > 0 THEN Len(items) ELSE i - array.l + 1
           errs == c.errs + extra
           d == IF extra > 0 THEN [Abort(c) EXCEPT !.errs = errs] ELSE c
           cells == [i \in DOMAIN d.cells |-> IF i >= array.l /\ written(i) \in DOMAIN items
                                               /\ (i < array.l + array.len \/ i = array.l)
                                          THEN items[written(i)] ELSE d.cells[i]]
<1>1. SetItems(c, a, items) = [d EXCEPT !.cells = cells]
  BY DEF SetItems
<1>2. Ran(c, d, 0) /\ Shaped(d)
  <2>1. CASE extra > 0
    <3>1. Ran(c, Abort(c), 0) /\ Abort(c).pc = ExitPc /\ Abort(c).top = 1
      BY RanAbort DEF Abort, Shaped
    <3>2. errs \in Nat /\ errs > 0
      BY <2>1 DEF Shaped
    <3> HIDE DEF errs
    <3>3. Ran(c, [Abort(c) EXCEPT !.errs = errs], 0)
      BY <3>1, <3>2 DEF Ran, Shaped
    <3> QED BY <2>1, <3>3, RanShaped
  <2>2. CASE ~(extra > 0)
    BY <2>2, RanSelf
  <2> QED BY <2>1, <2>2
<1> HIDE DEF d, cells
<1>3. Ran(d, [d EXCEPT !.cells = cells], 0)
  BY <1>2, RanCells
<1> QED BY <1>1, <1>2, <1>3, RanTwice

\* The last push.
LEMMA RanThenPush ==
    ASSUME NEW c, NEW d, Shaped(c), Ran(c, d, 0), NEW cell PROVE Ran(c, Push(d, cell), 1)
<1>1. Ran(d, Push(d, cell), 1)
  BY RanPush, RanShaped
<1> QED BY <1>1, RanThen

LEMMA RanPushNewStr ==
    ASSUME NEW c, Shaped(c), NEW s PROVE Ran(c, PushNewStr(c, s), 1)
<1> DEFINE strs == Append(c.strs, s)
           d == [c EXCEPT !.strs = strs]
<1>1. PushNewStr(c, s) = Push(d, Cell("str", Len(d.strs)))
  BY DEF PushNewStr
<1>2. Ran(c, d, 0)
  <2> HIDE DEF strs
  <2> QED BY RanStrs
<1> HIDE DEF d
<1> QED BY <1>1, <1>2, RanThenPush

---------------------------------------------------------------------------
(* Steps.                                                                  *)

\* What the discipline says of the place the machine is at.
LEMMA HereOK ==
    ASSUME VmInv, Balanced(program), Disciplined(ctx), ctx.end = "no", Current.kind # "exit"
    PROVE  LET here == PlacesOf(program)[ctx.pc]
               after == After(here, Current)
               base == Last(ctx.frames).base
           IN /\ InPlace(ctx) /\ ctx.pc \in 1 .. ExitPc /\ ctx.pc # ExitPc
              /\ ExitPc \in Nat \ {0, 1} /\ DOMAIN program.cmds = 1 .. ExitPc
              /\ ctx.frames \in Seq(FrameRec) /\ DOMAIN ctx.frames = 1 .. Len(ctx.frames)
              /\ Len(ctx.frames) \in Nat \ {0}
              /\ here \in Place /\ here.live /\ here.height = ctx.top - base /\ base \in Nat
              /\ here.main = (Len(ctx.frames) = 1)
              /\ PopsOf(Current) \in 0 .. here.height
              /\ Current.kind = "return" => here.height = 1
              /\ Current.kind = "push_closure" => Current.x # Len(program.funs)
              /\ Current.kind = "jump_unless" =>
                     Agrees(PlacesOf(program)[program.labels[Current.x]], after)
              /\ Leaves(here, Current) \/ Agrees(PlacesOf(program)[ctx.pc + 1], after)
              /\ ctx.top \in Nat
<1> DEFINE here == PlacesOf(program)[ctx.pc]
<1>1. /\ ExitPc \in Nat \ {0, 1} /\ DOMAIN program.cmds = 1 .. ExitPc /\ ctx.pc \in 1 .. ExitPc
      /\ program.cmds[ExitPc].kind = "exit" /\ ctx \in Contexts
  BY ExitOK DEF VmInv, Fine, Good
<1>2. ctx.pc # ExitPc /\ InPlace(ctx)
  BY <1>1 DEF Disciplined, Current
<1>3. /\ ctx.frames \in Seq(FrameRec) /\ DOMAIN ctx.frames = 1 .. Len(ctx.frames)
      /\ Len(ctx.frames) \in Nat \ {0} /\ ctx.top \in Nat
  BY <1>1, <1>2, Fields, Domains, EmptySeq, Small DEF InPlace
<1>4. here \in Place
  BY <1>1 DEF Balanced, Balances
<1>5. /\ here.live /\ here.height = ctx.top - Last(ctx.frames).base
      /\ here.main = (Len(ctx.frames) = 1)
  BY <1>2 DEF InPlace, Agrees
<1>6. Last(ctx.frames).base \in Nat
  <2>1. Returns(ctx, Len(ctx.frames))
    BY <1>2, <1>3 DEF InPlace
  <2> QED BY <2>1 DEF Returns, Last
<1>7. /\ PopsOf(Current) \in 0 .. here.height
      /\ Current.kind = "return" => here.height = 1
      /\ Current.kind = "push_closure" => Current.x # Len(program.funs)
      /\ Current.kind = "jump_unless" =>
             Agrees(PlacesOf(program)[program.labels[Current.x]], After(here, Current))
      /\ Leaves(here, Current) \/ Agrees(PlacesOf(program)[ctx.pc + 1], After(here, Current))
  BY <1>1, <1>5 DEF Balanced, Balances, Current
<1> HIDE DEF here
<1> QED BY <1>1, <1>2, <1>3, <1>4, <1>5, <1>6, <1>7 DEF here

\* At the exit, the main program's place says all.
LEMMA Arrive ==
    ASSUME ProgramOK(program), Balanced(program), NEW c, InPlace(c), c.frames \in Seq(FrameRec), c.pc \in 1 .. ExitPc,
           c.top \in Int
    PROVE  IF c.pc = ExitPc THEN AtExit(c) ELSE InPlace(c)
<1> SUFFICES ASSUME c.pc = ExitPc PROVE AtExit(c)
  OBVIOUS
<1> DEFINE here == PlacesOf(program)[ExitPc]
<1>1. ExitPc \in DOMAIN program.cmds /\ program.cmds[ExitPc].kind = "exit"
  BY ExitOK
<1>2. here.live /\ here.height = c.top - Last(c.frames).base /\ here.main = (Len(c.frames) = 1)
  BY DEF InPlace, Agrees
<1>3. here.height = 1 /\ here.main /\ here \in Place
  BY <1>1, <1>2 DEF Balanced, Balances
<1>4. Len(c.frames) = 1 /\ DOMAIN c.frames = 1 .. 1
  BY <1>2, <1>3, Domains
<1>5. Last(c.frames).base = 0 /\ \A f \in DOMAIN c.frames : c.frames[f].base = 0
  BY <1>4 DEF InPlace, Returns, Last
<1> QED BY <1>2, <1>3, <1>4, <1>5 DEF AtExit

\* A step to a context that is disciplined, of the same program.
LEMMA DisciplineKept ==
    ASSUME BalanceInv, program' = program, Balanced(program) => Disciplined(ctx')
    PROVE  BalanceInv'
<1>1. ExitPc' = ExitPc
  BY DEF ExitPc
<1>2. (\A f : Returns(ctx, f)' <=> Returns(ctx', f))
  BY <1>1 DEF Returns
<1>3. (InPlace(ctx)' <=> InPlace(ctx')) /\ (AtExit(ctx)' <=> AtExit(ctx'))
  BY <1>2 DEF InPlace, AtExit
<1>4. Disciplined(ctx)' <=> Disciplined(ctx')
  BY <1>1, <1>3 DEF Disciplined
<1> QED BY <1>4 DEF BalanceInv

\* The main program is no closure.
Apart(c) == \A i \in DOMAIN c.closures : c.closures[i].fun # Len(program.funs)

\* An error leads to the exit.
LEMMA Stopped ==
    ASSUME NEW c, Apart(c), c.end # "exit", c.pc = ExitPc, c.errs > 0, c.top >= 1
    PROVE  Disciplined(c)
BY DEF Disciplined, AtExit, Apart

\* Frames that are left alone return where they did.
LEMMA ReturnsKept ==
    ASSUME NEW c, NEW d, d.frames = c.frames, d.errs = c.errs, NEW f, Returns(c, f)
    PROVE  Returns(d, f)
BY DEF Returns

\* A command that stays in its function, and comes to a place that has its height.
LEMMA Moved ==
    ASSUME VmInv, Balanced(program), InPlace(ctx), NEW c, Apart(c), c.frames = ctx.frames, c.end # "exit",
           c.errs = ctx.errs, c.top \in Int, c.pc \in 1 .. ExitPc,
           PlacesOf(program)[c.pc].live,
           PlacesOf(program)[c.pc].main = (Len(ctx.frames) = 1),
           PlacesOf(program)[c.pc].height = c.top - Last(ctx.frames).base,
           PlacesOf(program)[c.pc].zero => c.top > 0 /\ c.cells[c.top - 1] = IntCell(0)
    PROVE  Disciplined(c)
<1>1. InPlace(c)
  BY ReturnsKept DEF InPlace, Agrees
<1>2. c.frames \in Seq(FrameRec) /\ ProgramOK(program)
  BY Fields DEF VmInv, Good
<1>3. IF c.pc = ExitPc THEN AtExit(c) ELSE InPlace(c)
  BY <1>1, <1>2, Arrive
<1> QED BY <1>3 DEF Disciplined, Apart

LEMMA FetchedShaped ==
    ASSUME VmInv, Popped \in Int
    PROVE  /\ Shaped(Fetched) /\ Fetched.frames = ctx.frames /\ Fetched.end = ctx.end
           /\ Fetched.closures = ctx.closures /\ Fetched.errs = ctx.errs /\ Fetched.cells = ctx.cells
           /\ Fetched.pc = ctx.pc + 1 /\ Fetched.top = ctx.top - Popped
           /\ Shaped(ctx)
<1>1. Shaped(ctx)
  BY ShapedContext DEF VmInv, Good
<1> DEFINE pc == ctx.pc + 1
           top == ctx.top - Popped
<1>2. Fetched = [ctx EXCEPT !.pc = pc, !.top = top] /\ top \in Int
  BY <1>1 DEF Fetched, Shaped
<1> HIDE DEF pc, top
<1>3. /\ Shaped(Fetched) /\ Fetched.frames = ctx.frames /\ Fetched.end = ctx.end
      /\ Fetched.closures = ctx.closures /\ Fetched.errs = ctx.errs /\ Fetched.cells = ctx.cells
      /\ Fetched.pc = pc /\ Fetched.top = top
  BY <1>1, <1>2 DEF Shaped
<1> QED BY <1>1, <1>3 DEF pc, top

\* The commands but for those that jump, enter or leave a function, or push a number.
Plain(kind) == kind \in {"push_str", "push_array", "push_closure", "push_extern", "push_env",
                         "local_var", "cell_get", "cell_set", "label", "pop", "swap", "dup", "op", "call"}

\* The operands that a command pops are those that the discipline counts.
LEMMA SamePops == Popped = PopsOf(Current)
BY DEF Popped, PopsOf

LEMMA PlainCounts ==
    ASSUME VmInv, ctx.end = "no", Plain(Current.kind)
    PROVE  PopsOf(Current) \in Nat /\ Pushes[Current.kind] \in Nat
<1>1. Current.kind = "call" => Current.x \in Nat
  BY CurrentOK DEF OperandOK
<1> QED BY <1>1 DEF Plain, PopsOf, Pops, Pushes

LEMMA PlainKept ==
    ASSUME VmInv, Balanced(program), Disciplined(ctx), ctx.end = "no", Plain(Current.kind),
           NEW from, from.frames = ctx.frames, from.errs = ctx.errs, from.end = "no",
           from.pc = ctx.pc + 1, from.top = ctx.top - Popped, Apart(from),
           NEW c, Ran(from, c, Pushes[Current.kind])
    PROVE  Disciplined(c)
<1> DEFINE here == PlacesOf(program)[ctx.pc]
           next == PlacesOf(program)[ctx.pc + 1]
<1>1. Apart(c) /\ c.end = "no" /\ c.frames = ctx.frames /\ c.top \in Int
  BY DEF Ran, Apart, Shaped
<1>2. CASE c.errs > 0 /\ c.pc = ExitPc /\ c.top >= 1
  BY <1>1, <1>2, Stopped
<1>3. CASE c.errs = from.errs /\ c.pc = from.pc /\ c.top = from.top + Pushes[Current.kind]
  <2>1. /\ InPlace(ctx) /\ ctx.pc \in 1 .. ExitPc /\ ctx.pc # ExitPc /\ ExitPc \in Nat
        /\ here \in Place /\ here.live /\ here.height = ctx.top - Last(ctx.frames).base
        /\ Last(ctx.frames).base \in Nat /\ ctx.top \in Nat
        /\ here.main = (Len(ctx.frames) = 1)
        /\ Leaves(here, Current) \/ Agrees(next, After(here, Current))
    BY HereOK DEF Plain
  <2>2. ~Leaves(here, Current) /\ ~(Current.kind = "push_int" /\ Current.x = 0)
    BY DEF Leaves, Plain
  <2> HIDE DEF here, next
  <2>3. /\ next.live /\ next.height = here.height - PopsOf(Current) + Pushes[Current.kind]
        /\ next.main = here.main /\ ~next.zero
    BY <2>1, <2>2 DEF Agrees, After
  <2>4. PopsOf(Current) \in Nat /\ Pushes[Current.kind] \in Nat /\ Popped = PopsOf(Current)
    BY PlainCounts, SamePops
  <2>5. next.height = c.top - Last(ctx.frames).base
    BY <1>3, <2>1, <2>3, <2>4
  <2>6. c.pc = ctx.pc + 1 /\ c.pc \in 1 .. ExitPc
    BY <1>3, <2>1
  <2> QED BY <1>1, <1>3, <2>1, <2>3, <2>5, <2>6, Moved DEF next
<1> QED BY <1>2, <1>3 DEF Ran

LEMMA CrashDisciplined == ASSUME NEW c, Shaped(c), Disciplined(c) PROVE Disciplined(Crash(c))
BY DEF Disciplined, Crash, Shaped

LEMMA PlainStep ==
    ASSUME VmInv, BalanceInv, ctx.end = "no", Plain(Current.kind), NEW c, Do(c),
           ctx.top >= Popped => c = Crash(ctx) \/ Ran(Fetched, c, Pushes[Current.kind])
    PROVE  BalanceInv'
<1>1. program' = program
  BY DEF Do
<1>2. ASSUME Balanced(program) PROVE Disciplined(ctx')
  <2>1. Disciplined(ctx) /\ Popped \in Nat
    BY <1>2, PlainCounts, SamePops DEF BalanceInv
  <2>2. /\ Fetched.frames = ctx.frames /\ Fetched.end = ctx.end /\ Fetched.closures = ctx.closures
        /\ Fetched.errs = ctx.errs /\ Fetched.pc = ctx.pc + 1 /\ Fetched.top = ctx.top - Popped
        /\ Shaped(ctx)
    BY <2>1, FetchedShaped
  <2>3. Apart(Fetched)
    BY <2>1, <2>2 DEF Disciplined, Apart
  <2>4. CASE ctx' = Crash(ctx)
    BY <2>1, <2>2, <2>4, CrashDisciplined
  <2>5. CASE ctx' = c /\ Ran(Fetched, c, Pushes[Current.kind])
    BY <1>2, <2>1, <2>2, <2>3, <2>5, PlainKept
  <2> QED BY <2>4, <2>5 DEF Do
<1> QED BY <1>1, <1>2, DisciplineKept

---------------------------------------------------------------------------
(* The commands.                                                           *)

LEMMA PushStrBalance == ASSUME VmInv, BalanceInv, PushStr PROVE BalanceInv'
<1>1. ctx.end = "no" /\ Current.kind = "push_str" /\ Popped \in Int /\ Pushes["push_str"] = 1
  BY DEF PushStr, At, Popped, Pops, Pushes
<1>2. Ran(Fetched, PushNewStr(Fetched, DataGet(program.data, Current.x)), 1)
  BY <1>1, FetchedShaped, RanPushNewStr
<1> QED BY <1>1, <1>2, PlainStep DEF PushStr, Plain

LEMMA PushArrayBalance == ASSUME VmInv, BalanceInv, PushArray PROVE BalanceInv'
<1> DEFINE d == ArrayAdd(Fetched, 0, Current.x)
           c == Push(d, Cell("array", Len(d.arrays)))
<1>1. /\ ctx.end = "no" /\ Current.kind = "push_array" /\ Popped \in Int /\ Pushes["push_array"] = 1
      /\ Do(c)
  BY DEF PushArray, At, Popped, Pops, Pushes
<1>2. Shaped(Fetched) /\ Ran(Fetched, d, 0)
  BY <1>1, FetchedShaped, RanArrayAdd
<1> HIDE DEF d
<1>3. Ran(Fetched, c, 1)
  BY <1>2, RanThenPush
<1> HIDE DEF c
<1> QED BY <1>1, <1>3, PlainStep DEF Plain

\* The one command that makes a closure, and never one of the main program.
LEMMA PushClosureBalance == ASSUME VmInv, BalanceInv, PushClosure PROVE BalanceInv'
<1>1. ctx.end = "no" /\ Current.kind = "push_closure" /\ Popped = 0 /\ Pushes["push_closure"] = 1
  BY DEF PushClosure, At, Popped, Pops, Pushes
<1>2. CASE ctx.frames = << >>
  BY <1>1, <1>2, PlainStep DEF PushClosure, Plain
<1>3. CASE ctx.frames # << >>
  <2> DEFINE closure == [fun |-> Current.x, env |-> Last(ctx.frames).env]
             closures == Append(Fetched.closures, closure)
             d == [Fetched EXCEPT !.closures = closures]
             c == Push(d, Cell("closure", Len(d.closures)))
  <2>1. Do(c)
    BY <1>3 DEF PushClosure
  <2>2. program' = program
    BY <2>1 DEF Do
  <2>3. ASSUME Balanced(program) PROVE Disciplined(ctx')
    <3>1. Disciplined(ctx) /\ Current.x # Len(program.funs)
      BY <1>1, <2>3, HereOK DEF BalanceInv
    <3>2. /\ Fetched.frames = ctx.frames /\ Fetched.end = ctx.end /\ Fetched.closures = ctx.closures
          /\ Fetched.errs = ctx.errs /\ Fetched.pc = ctx.pc + 1 /\ Fetched.top = ctx.top - Popped
          /\ Shaped(ctx) /\ Shaped(Fetched)
      BY <1>1, FetchedShaped
    <3>3. /\ d.frames = ctx.frames /\ d.end = ctx.end /\ d.closures = closures
          /\ d.errs = ctx.errs /\ d.pc = ctx.pc + 1 /\ d.top = ctx.top - Popped /\ Shaped(d)
      <4> HIDE DEF closures
      <4> QED BY <3>2 DEF Shaped
    <3>4. ctx.closures \in Seq(ClosureRec) /\ closure \in ClosureRec /\ closure.fun = Current.x
      <4>1. Good(ctx) /\ ProgramOK(program) /\ OperandOK(program, Current)
        BY <1>1, CurrentOK DEF VmInv
      <4>2. Last(ctx.frames).env \in Nat
        BY <1>3, <4>1, FrameEnv, Fields, Domains DEF Good
      <4>3. Current.x \in Nat
        BY <1>1, <4>1, Domains DEF OperandOK, ProgramOK
      <4> QED BY <4>1, <4>2, <4>3, Fields DEF Good, ClosureRec
    <3>5. Apart(d)
      <4> HIDE DEF closure, d
      <4>1. /\ DOMAIN closures = 1 .. Len(ctx.closures) + 1
            /\ \A i \in 1 .. Len(ctx.closures) : closures[i] = ctx.closures[i]
            /\ closures[Len(ctx.closures) + 1] = closure
            /\ DOMAIN ctx.closures = 1 .. Len(ctx.closures) /\ Len(ctx.closures) \in Nat
        BY <3>2, <3>4, AppendProperties, Domains
      <4>2. \A i \in DOMAIN closures : i \in DOMAIN ctx.closures \/ i = Len(ctx.closures) + 1
        BY <4>1
      <4> HIDE DEF closures
      <4> QED BY <3>1, <3>3, <3>4, <4>1, <4>2 DEF Disciplined, Apart
    <3> HIDE DEF closure, closures, d
    <3>6. Ran(d, c, 1)
      BY <3>3, RanPush
    <3> HIDE DEF c
    <3>7. Disciplined(c)
      BY <1>1, <2>3, <3>1, <3>3, <3>5, <3>6, PlainKept DEF Plain
    <3> QED BY <2>1, <3>1, <3>2, <3>7, CrashDisciplined DEF Do
  <2> QED BY <2>2, <2>3, DisciplineKept
<1> QED BY <1>2, <1>3

LEMMA PushExternBalance == ASSUME VmInv, BalanceInv, PushExtern PROVE BalanceInv'
<1>1. ctx.end = "no" /\ Current.kind = "push_extern" /\ Popped \in Int /\ Pushes["push_extern"] = 1
  BY DEF PushExtern, At, Popped, Pops, Pushes
<1>2. Ran(Fetched, Push(Fetched, Cell("extern", Current.x)), 1)
  BY <1>1, FetchedShaped, RanPush
<1> QED BY <1>1, <1>2, PlainStep DEF PushExtern, Plain

LEMMA PushEnvBalance == ASSUME VmInv, BalanceInv, PushEnv PROVE BalanceInv'
<1> DEFINE env == Outward(ctx, Last(ctx.frames).env, Current.x)
<1>1. ctx.end = "no" /\ Current.kind = "push_env" /\ Popped \in Int /\ Pushes["push_env"] = 1
  BY DEF PushEnv, At, Popped, Pops, Pushes
<1>2. Ran(Fetched, Push(Fetched, Cell("env", env)), 1)
  BY <1>1, FetchedShaped, RanPush
<1>3. Do(Crash(ctx)) \/ Do(Push(Fetched, Cell("env", env)))
  BY DEF PushEnv
<1> HIDE DEF env
<1> QED BY <1>1, <1>2, <1>3, PlainStep DEF Plain

LEMMA LocalVarBalance == ASSUME VmInv, BalanceInv, LocalVar PROVE BalanceInv'
<1> DEFINE a == ctx.envs[Operand(1).val].array
           d == Referred(Fetched, a, Current.x)
           c == Push(d, Cell("cell", ArrayRef(Fetched, a, Current.x)))
<1>1. ctx.end = "no" /\ Current.kind = "local_var" /\ Popped \in Int /\ Pushes["local_var"] = 1
  BY DEF LocalVar, At, Popped, Pops, Pushes
<1>2. Do(Crash(ctx)) \/ Do(c)
  BY DEF LocalVar
<1>3. Shaped(Fetched) /\ Ran(Fetched, d, 0)
  BY <1>1, FetchedShaped, RanReferred
<1> HIDE DEF d
<1>4. Ran(Fetched, c, 1)
  BY <1>3, RanThenPush
<1> HIDE DEF c
<1> QED BY <1>1, <1>2, <1>4, PlainStep DEF Plain

LEMMA CellGetBalance == ASSUME VmInv, BalanceInv, CellGet PROVE BalanceInv'
<1>1. ctx.end = "no" /\ Current.kind = "cell_get" /\ Popped \in Int /\ Pushes["cell_get"] = 1
  BY DEF CellGet, At, Popped, Pops, Pushes
<1>2. /\ Ran(Fetched, Push(Fetched, ctx.cells[Operand(1).val]), 1)
      /\ Ran(Fetched, Abort(Fetched), 1)
  BY <1>1, FetchedShaped, RanPush, RanAbort
<1>3. Do(Push(Fetched, ctx.cells[Operand(1).val])) \/ Do(Abort(Fetched))
  BY DEF CellGet
<1> QED BY <1>1, <1>2, <1>3, PlainStep DEF Plain

LEMMA CellSetBalance == ASSUME VmInv, BalanceInv, CellSet PROVE BalanceInv'
<1> DEFINE cells == [Fetched.cells EXCEPT ![Operand(1).val] = Operand(2)]
           d == [Fetched EXCEPT !.cells = cells]
<1>1. ctx.end = "no" /\ Current.kind = "cell_set" /\ Popped \in Int /\ Pushes["cell_set"] = 1
  BY DEF CellSet, At, Popped, Pops, Pushes
<1>2. Do(Push(d, Operand(2))) \/ Do(Abort(Fetched))
  BY DEF CellSet
<1> HIDE DEF cells
<1>3. Shaped(Fetched) /\ Ran(Fetched, d, 0) /\ Ran(Fetched, Abort(Fetched), 1)
  BY <1>1, FetchedShaped, RanCells, RanAbort
<1> HIDE DEF d
<1>4. Ran(Fetched, Push(d, Operand(2)), 1)
  BY <1>3, RanThenPush
<1> QED BY <1>1, <1>2, <1>3, <1>4, PlainStep DEF Plain

LEMMA LabelBalance == ASSUME VmInv, BalanceInv, Label PROVE BalanceInv'
<1>1. ctx.end = "no" /\ Current.kind = "label" /\ Popped \in Int /\ Pushes["label"] = 0
  BY DEF Label, At, Popped, Pops, Pushes
<1>2. Ran(Fetched, Fetched, 0)
  BY <1>1, FetchedShaped, RanSelf
<1> QED BY <1>1, <1>2, PlainStep DEF Label, Plain

LEMMA PopBalance == ASSUME VmInv, BalanceInv, Pop PROVE BalanceInv'
<1>1. ctx.end = "no" /\ Current.kind = "pop" /\ Popped \in Int /\ Pushes["pop"] = 0
  BY DEF Pop, At, Popped, Pops, Pushes
<1>2. Ran(Fetched, Fetched, 0)
  BY <1>1, FetchedShaped, RanSelf
<1> QED BY <1>1, <1>2, PlainStep DEF Pop, Plain

LEMMA RanTwoPushes ==
    ASSUME NEW c, Shaped(c), NEW x, NEW y PROVE Ran(c, Push(Push(c, x), y), 2)
<1>1. Ran(c, Push(c, x), 1) /\ Shaped(Push(c, x))
  BY RanPush, RanShaped
<1>2. Ran(Push(c, x), Push(Push(c, x), y), 1)
  BY <1>1, RanPush
<1>3. Ran(c, Push(Push(c, x), y), 1 + 1)
  BY <1>1, <1>2, RanThen
<1> QED BY <1>3

LEMMA SwapBalance == ASSUME VmInv, BalanceInv, Swap PROVE BalanceInv'
<1>1. ctx.end = "no" /\ Current.kind = "swap" /\ Popped \in Int /\ Pushes["swap"] = 2
  BY DEF Swap, At, Popped, Pops, Pushes
<1>2. Ran(Fetched, Push(Push(Fetched, Operand(2)), Operand(1)), 2)
  BY <1>1, FetchedShaped, RanTwoPushes
<1> QED BY <1>1, <1>2, PlainStep DEF Swap, Plain

LEMMA DupBalance == ASSUME VmInv, BalanceInv, Dup PROVE BalanceInv'
<1>1. ctx.end = "no" /\ Current.kind = "dup" /\ Popped \in Int /\ Pushes["dup"] = 2
  BY DEF Dup, At, Popped, Pops, Pushes
<1>2. Ran(Fetched, Push(Push(Fetched, Operand(1)), Operand(1)), 2)
  BY <1>1, FetchedShaped, RanTwoPushes
<1> QED BY <1>1, <1>2, PlainStep DEF Dup, Plain

---------------------------------------------------------------------------
(* Operators.                                                              *)

LEMMA AtOpFacts ==
    ASSUME VmInv, NEW op, AtOp(op)
    PROVE  /\ ctx.end = "no" /\ Current.kind = "op" /\ Plain(Current.kind) /\ Popped = 2
           /\ Pushes[Current.kind] = 1 /\ Shaped(Fetched) /\ Ran(Fetched, Abort(Fetched), 1)
<1>1. ctx.end = "no" /\ Current.kind = "op"
  BY DEF AtOp, At
<1>2. Popped = 2 /\ Pushes[Current.kind] = 1 /\ Plain(Current.kind)
  BY <1>1 DEF Popped, Pops, Pushes, Plain
<1>3. Shaped(Fetched)
  BY <1>2, FetchedShaped
<1> QED BY <1>1, <1>2, <1>3, RanAbort

LEMMA OpStep ==
    ASSUME VmInv, BalanceInv, NEW op, AtOp(op), NEW c, Do(c), c = Crash(ctx) \/ Ran(Fetched, c, 1)
    PROVE  BalanceInv'
<1>1. ctx.end = "no" /\ Plain(Current.kind) /\ Pushes[Current.kind] = 1
  BY AtOpFacts
<1> QED BY <1>1, PlainStep

LEMMA CompareBalance ==
    ASSUME VmInv, BalanceInv, NEW op, AtOp(op), NEW strs, NEW ints, NEW types,
           Compare(strs, ints, types)
    PROVE  BalanceInv'
<1>1. \E cell : Do(Push(Fetched, cell)) \/ Do(Abort(Fetched))
  BY DEF Compare
<1>2. PICK cell : Do(Push(Fetched, cell)) \/ Do(Abort(Fetched))
  BY <1>1
<1>3. Ran(Fetched, Push(Fetched, cell), 1) /\ Ran(Fetched, Abort(Fetched), 1)
  BY AtOpFacts, RanPush
<1> QED BY <1>2, <1>3, OpStep

LEMMA OpEqBalance == ASSUME VmInv, BalanceInv, OpEq PROVE BalanceInv'
BY CompareBalance DEF OpEq

LEMMA OpLtBalance == ASSUME VmInv, BalanceInv, OpLt PROVE BalanceInv'
BY CompareBalance DEF OpLt

LEMMA OpIndexBalance == ASSUME VmInv, BalanceInv, OpIndex PROVE BalanceInv'
<1> DEFINE d == Referred(Fetched, L, R)
           item == d.cells[ArrayRef(Fetched, L, R)]
           s == ctx.strs[L]
           char == IntCell(IF R \in 0 .. Len(s) - 1 THEN s[R + 1] ELSE 0)
<1>1. AtOp("index") /\ (Do(Push(Fetched, char)) \/ Do(Push(d, item)) \/ Do(Abort(Fetched)))
  BY DEF OpIndex
<1> HIDE DEF char, item
<1>2. Shaped(Fetched) /\ Ran(Fetched, Abort(Fetched), 1)
  BY <1>1, AtOpFacts
<1>3. Ran(Fetched, d, 0)
  BY <1>2, RanReferred
<1> HIDE DEF d
<1>4. Ran(Fetched, Push(Fetched, char), 1) /\ Ran(Fetched, Push(d, item), 1)
  BY <1>2, <1>3, RanPush, RanThenPush
<1> QED BY <1>1, <1>2, <1>4, OpStep

\* A crash in the middle of a command.
LEMMA CrashBalance ==
    ASSUME BalanceInv, NEW d, Shaped(d), d.closures = ctx.closures, program' = program,
           ctx' = Crash(d)
    PROVE  BalanceInv'
<1>1. Crash(d).closures = d.closures /\ Crash(d).end = "crash"
  BY DEF Crash, Shaped
<1>2. Balanced(program) => Disciplined(Crash(d))
  BY <1>1 DEF BalanceInv, Disciplined
<1> QED BY <1>2, DisciplineKept

LEMMA OpIndexRefBalance == ASSUME VmInv, BalanceInv, OpIndexRef PROVE BalanceInv'
<1> DEFINE d == Referred(Fetched, L, R)
           c == Push(d, Cell("cell", ArrayRef(Fetched, L, R)))
<1>1. AtOp("index_ref") /\ (Do(c) \/ Do(Abort(Abort(Fetched))) \/ Do(Crash(Abort(Fetched))))
  BY DEF OpIndexRef
<1>2. Shaped(Fetched) /\ Ran(Fetched, Abort(Fetched), 1) /\ Ran(Fetched, Abort(Fetched), 0)
  BY <1>1, AtOpFacts, RanAbort
<1>3. Ran(Fetched, d, 0)
  BY <1>2, RanReferred
<1> HIDE DEF d
<1>4. Ran(Fetched, c, 1)
  BY <1>3, <1>2, RanThenPush
<1> HIDE DEF c
<1>5. Shaped(Abort(Fetched))
  BY <1>2, RanShaped
<1>6. Ran(Fetched, Abort(Abort(Fetched)), 1)
  <2>1. Ran(Abort(Fetched), Abort(Abort(Fetched)), 1)
    BY <1>5, RanAbort
  <2>2. Ran(Fetched, Abort(Abort(Fetched)), 0 + 1)
    BY <1>2, <2>1, RanThen
  <2> QED BY <2>2
<1>7. CASE Do(Crash(Abort(Fetched)))
  <2>1. CASE ctx.top >= Popped
    <3>1. Abort(Fetched).closures = ctx.closures
      <4>1. Fetched.closures = ctx.closures
        BY <1>1, AtOpFacts, FetchedShaped
      <4> QED BY <4>1, <1>2 DEF Ran
    <3> QED BY <1>5, <1>7, <2>1, <3>1, CrashBalance DEF Do
  <2>2. CASE ~(ctx.top >= Popped)
    <3>1. Shaped(ctx)
      BY <1>1, AtOpFacts, FetchedShaped
    <3> QED BY <1>7, <2>2, <3>1, CrashBalance DEF Do
  <2> QED BY <2>1, <2>2
<1> QED BY <1>1, <1>4, <1>6, <1>7, OpStep

LEMMA OpArrayPushBalance == ASSUME VmInv, BalanceInv, OpArrayPush PROVE BalanceInv'
<1> DEFINE d == ArrayPush(Fetched, L, Operand(2))
<1>1. AtOp("array_push") /\ (Do(Crash(ctx)) \/ Do(Push(d, Operand(1))))
  BY DEF OpArrayPush
<1>2. Shaped(Fetched)
  BY <1>1, AtOpFacts
<1>3. Ran(Fetched, d, 0)
  BY <1>2, RanArrayPush
<1> HIDE DEF d
<1>4. Ran(Fetched, Push(d, Operand(1)), 1)
  BY <1>2, <1>3, RanThenPush
<1> QED BY <1>1, <1>4, OpStep

LEMMA OpAddBalance == ASSUME VmInv, BalanceInv, OpAdd PROVE BalanceInv'
<1> DEFINE cell == IntCell(Wrapped(L + R))
           s == ctx.strs[L] \o ctx.strs[R]
<1>1. AtOp("add") /\ (Do(Push(Fetched, cell)) \/ Do(PushNewStr(Fetched, s)) \/ Do(Abort(Fetched)))
  BY DEF OpAdd
<1> HIDE DEF cell, s
<1>2. Shaped(Fetched) /\ Ran(Fetched, Abort(Fetched), 1)
  BY <1>1, AtOpFacts
<1>3. Ran(Fetched, Push(Fetched, cell), 1) /\ Ran(Fetched, PushNewStr(Fetched, s), 1)
  BY <1>2, RanPush, RanPushNewStr
<1> QED BY <1>1, <1>2, <1>3, OpStep

LEMMA OpArithBalance == ASSUME VmInv, BalanceInv, OpArith PROVE BalanceInv'
<1>1. PICK op : AtOp(op)
  BY DEF OpArith
<1>2. \E cell : Do(Abort(Fetched)) \/ Do(Crash(ctx)) \/ Do(Push(Fetched, cell))
  BY DEF OpArith
<1>3. PICK cell : Do(Abort(Fetched)) \/ Do(Crash(ctx)) \/ Do(Push(Fetched, cell))
  BY <1>2
<1>4. Ran(Fetched, Abort(Fetched), 1) /\ Ran(Fetched, Push(Fetched, cell), 1)
  BY <1>1, AtOpFacts, RanPush
<1> QED BY <1>1, <1>3, <1>4, OpStep

---------------------------------------------------------------------------
(* Calls.                                                                  *)

LEMMA AtCallFacts ==
    ASSUME VmInv, AtCall
    PROVE  /\ ctx.end = "no" /\ Current.kind = "call" /\ Plain(Current.kind)
           /\ Popped = Current.x + 1 /\ Current.x \in Nat
           /\ Pushes[Current.kind] = 1 /\ Shaped(Fetched) /\ Ran(Fetched, Abort(Fetched), 1)
<1>1. ctx.end = "no" /\ Current.kind = "call" /\ Popped = Current.x + 1 /\ Popped \in Nat /\ Current.x \in Nat
  BY CallPops
<1>2. Shaped(Fetched)
  BY <1>1, FetchedShaped
<1> QED BY <1>1, <1>2, RanAbort DEF Plain, Pushes

LEMMA CallStep ==
    ASSUME VmInv, BalanceInv, AtCall, NEW c, Do(c),
           ctx.top >= Popped => c = Crash(ctx) \/ Ran(Fetched, c, 1)
    PROVE  BalanceInv'
<1>1. ctx.end = "no" /\ Plain(Current.kind) /\ Pushes[Current.kind] = 1
  BY AtCallFacts
<1> QED BY <1>1, PlainStep

LEMMA CallOtherBalance == ASSUME VmInv, BalanceInv, CallOther PROVE BalanceInv'
<1>1. AtCall /\ Do(Abort(Fetched))
  BY DEF CallOther
<1> QED BY <1>1, AtCallFacts, CallStep

LEMMA TooManyArgsBalance == ASSUME VmInv, BalanceInv, TooManyArgs PROVE BalanceInv'
<1>1. ctx.end = "no" /\ Plain(Current.kind) /\ Do(Crash(ctx))
  BY DEF TooManyArgs, At, Plain
<1> QED BY <1>1, PlainStep

LEMMA RanArranged ==
    ASSUME VmInv, AtCall, ctx.top >= Popped
    PROVE  Shaped(Arranged) /\ Ran(Fetched, Arranged, 0)
<1> DEFINE x == Current.x
           A == ArrayAdd(Fetched, x, x)
           H == HeapAlloc(A, 1)
           d == SetItems(H, Len(A.arrays), Args)
<1>1. Arranged = d
  BY DEF Arranged
<1>2. Fine(Fetched) /\ Good(Fetched) /\ ExitPc \in Nat /\ Args \in [1 .. x -> CellsOf(ctx)]
  BY CallPops, Ready, ArgsOK DEF Fine
<1>3. x \in Sizes /\ x \in Nat /\ x \in 0 .. x
  BY CallPops
<1>4. Len(Args) = x
  BY <1>2, <1>3, FunctionIsSeq
<1> HIDE DEF x
<1>5. A.arrays[Len(A.arrays)].len = x /\ Good(A)
  <2>1. /\ A.arrays[Len(A.arrays)] = [l |-> AllocatedAt(Fetched, x), r |-> AllocatedAt(Fetched, x) + x,
                                      len |-> x]
        /\ Good(A)
    BY <1>2, <1>3, ArrayAddOK
  <2> HIDE DEF A
  <2> QED BY <2>1
<1>6. Shaped(Fetched) /\ Ran(Fetched, A, 0) /\ Shaped(A)
  BY AtCallFacts, RanArrayAdd, RanShaped
<1> HIDE DEF A
<1>7. Ran(A, H, 0) /\ Shaped(H)
  BY <1>6, RanHeapAlloc, RanShaped
<1>8. H.arrays = A.arrays
  BY <1>2, <1>5, HeapAllocOK
<1> HIDE DEF H
<1>9. Ran(H, d, 0) /\ Shaped(d)
  <2>1. Len(Args) - H.arrays[Len(A.arrays)].len \in Int
    BY <1>3, <1>4, <1>5, <1>8
  <2> QED BY <1>7, <2>1, RanSetItems, RanShaped
<1> HIDE DEF d
<1> QED BY <1>1, <1>6, <1>7, <1>9, RanTwice

LEMMA RanResolve ==
    ASSUME NEW c, Shaped(c), NEW cell PROVE Ran(c, Resolve(c, cell), 0)
<1> DEFINE cells == [c.cells EXCEPT ![ResultCell] = cell]
<1>1. Resolve(c, cell) = [c EXCEPT !.cells = cells]
  BY DEF Resolve
<1> HIDE DEF cells
<1> QED BY <1>1, RanCells

\* A built-in function stops with an error, or with its result on the stack.
LEMMA BuiltinStep ==
    ASSUME VmInv, BalanceInv, AtCall, NEW c, Do(c),
           \/ c = Crash(ctx)
           \/ c = Abort(Arranged)
           \/ \E d : /\ c = Finish(d)
                     /\ Shaped(Arranged) => Ran(Arranged, d, 0)
    PROVE  BalanceInv'
<1>1. ASSUME ctx.top >= Popped, c = Abort(Arranged) PROVE Ran(Fetched, c, 1)
  <2>1. Shaped(Fetched) /\ Shaped(Arranged) /\ Ran(Fetched, Arranged, 0)
    BY <1>1, RanArranged, AtCallFacts
  <2>2. Ran(Arranged, c, 1)
    BY <1>1, <2>1, RanAbort
  <2>3. Ran(Fetched, c, 0 + 1)
    BY <2>1, <2>2, RanThen
  <2> QED BY <2>3
<1>2. ASSUME ctx.top >= Popped, NEW d, c = Finish(d), Shaped(Arranged) => Ran(Arranged, d, 0)
      PROVE  Ran(Fetched, c, 1)
  <2>1. Shaped(Fetched) /\ Shaped(Arranged) /\ Ran(Fetched, Arranged, 0)
    BY <1>2, RanArranged, AtCallFacts
  <2>2. Ran(Fetched, d, 0)
    BY <1>2, <2>1, RanTwice
  <2> QED BY <1>2, <2>1, <2>2, RanThenPush DEF Finish
<1> QED BY <1>1, <1>2, CallStep

LEMMA ValTypeBalance == ASSUME VmInv, BalanceInv, ValType PROVE BalanceInv'
<1> DEFINE cell == IntCell(TypeNumber[Arg(1).ty])
           d == Resolve(Arranged, cell)
<1>1. AtCall /\ (Do(Finish(d)) \/ Do(Abort(Arranged)))
  BY DEF ValType, Builtin
<1> HIDE DEF cell
<1>2. Shaped(Arranged) => Ran(Arranged, d, 0)
  BY RanResolve
<1> HIDE DEF d
<1> QED BY <1>1, <1>2, BuiltinStep

\* A function with a string for a result.
LEMMA NewStrRan ==
    ASSUME NEW c, Shaped(c), NEW s
    PROVE  LET d == [c EXCEPT !.strs = Append(@, s)]
           IN Ran(c, Resolve(d, Cell("str", Len(d.strs))), 0)
<1> DEFINE strs == Append(c.strs, s)
           d == [c EXCEPT !.strs = strs]
           e == Resolve(d, Cell("str", Len(d.strs)))
<1>1. Ran(c, d, 0) /\ Shaped(d)
  <2> HIDE DEF strs
  <2> QED BY RanStrs, RanShaped
<1>2. d = [c EXCEPT !.strs = Append(@, s)]
  OBVIOUS
<1> HIDE DEF d
<1>3. Ran(d, e, 0)
  BY <1>1, RanResolve
<1>4. Ran(c, e, 0)
  <2> HIDE DEF e
  <2> QED BY <1>1, <1>3, RanTwice
<1> QED BY <1>2, <1>4

LEMMA StrSliceBalance == ASSUME VmInv, BalanceInv, StrSlice PROVE BalanceInv'
<1> DEFINE s == ctx.strs[Arg(1).val]
           l == Max({Arg(2).val, 0})
           r == Min({Arg(3).val, Len(s)})
           slice == SubSeq(s, l + 1, r)
           c == [Arranged EXCEPT !.strs = Append(@, slice)]
           d == Resolve(c, Cell("str", Len(c.strs)))
<1>1. AtCall /\ (Do(Crash(ctx)) \/ Do(Finish(d)) \/ Do(Abort(Arranged)))
  BY DEF StrSlice, Builtin
<1> HIDE DEF slice
<1>2. Shaped(Arranged) => Ran(Arranged, d, 0)
  BY NewStrRan
<1> HIDE DEF d
<1> QED BY <1>1, <1>2, BuiltinStep

LEMMA ArrayLenBalance == ASSUME VmInv, BalanceInv, ArrayLen PROVE BalanceInv'
<1> DEFINE cell == IntCell(ctx.arrays[Arg(1).val].len)
           d == Resolve(Arranged, cell)
<1>1. AtCall /\ (Do(Finish(d)) \/ Do(Abort(Arranged)))
  BY DEF ArrayLen, Builtin
<1> HIDE DEF cell
<1>2. Shaped(Arranged) => Ran(Arranged, d, 0)
  BY RanResolve
<1> HIDE DEF d
<1> QED BY <1>1, <1>2, BuiltinStep

LEMMA CallArrayPushBalance == ASSUME VmInv, BalanceInv, CallArrayPush PROVE BalanceInv'
<1> DEFINE d == ArrayPush(Arranged, Arg(1).val, Arg(2))
<1>1. AtCall /\ (Do(Finish(d)) \/ Do(Abort(Arranged)))
  BY DEF CallArrayPush, Builtin
<1>2. Shaped(Arranged) => Ran(Arranged, d, 0)
  BY RanArrayPush
<1> HIDE DEF d
<1> QED BY <1>1, <1>2, BuiltinStep

LEMMA ArrayPopBalance == ASSUME VmInv, BalanceInv, ArrayPop PROVE BalanceInv'
<1> DEFINE len == Arranged.arrays[Arg(1).val].len
           shorter == IF len > 0 THEN len - 1 ELSE 0
           d == SetLen(Arranged, Arg(1).val, shorter)
<1>1. AtCall /\ (Do(Finish(d)) \/ Do(Abort(Arranged)))
  BY DEF ArrayPop, Builtin
<1> HIDE DEF shorter
<1>2. Shaped(Arranged) => Ran(Arranged, d, 0)
  BY RanSetLen
<1> HIDE DEF d
<1> QED BY <1>1, <1>2, BuiltinStep

LEMMA AssertionBalance == ASSUME VmInv, BalanceInv, Assertion PROVE BalanceInv'
<1>1. AtCall /\ (Do(Finish(Arranged)) \/ Do(Abort(Arranged)))
  BY DEF Assertion, Builtin
<1>2. Shaped(Arranged) => Ran(Arranged, Arranged, 0)
  BY RanSelf
<1> QED BY <1>1, <1>2, BuiltinStep

LEMMA StdinToStrBalance == ASSUME VmInv, BalanceInv, StdinToStr PROVE BalanceInv'
<1> DEFINE c == [Arranged EXCEPT !.strs = Append(@, Input)]
           d == Resolve(c, Cell("str", Len(c.strs)))
<1>1. AtCall /\ (Do(Finish(d)) \/ Do(Abort(Arranged)))
  BY DEF StdinToStr, Builtin
<1>2. Shaped(Arranged) => Ran(Arranged, d, 0)
  BY NewStrRan
<1> HIDE DEF d
<1> QED BY <1>1, <1>2, BuiltinStep

---------------------------------------------------------------------------
(* The commands that jump, stop, enter or leave.                           *)

\* The operands are there.
LEMMA OperandsThere ==
    ASSUME VmInv, Balanced(program), Disciplined(ctx), ctx.end = "no"
    PROVE  ctx.top >= Popped
<1>1. CASE Current.kind = "exit"
  <2>1. ExitPc \in Nat \ {0, 1} /\ DOMAIN program.cmds = 1 .. ExitPc /\ ctx.pc \in 1 .. ExitPc
    BY ExitOK DEF VmInv, Fine
  <2>2. ctx.pc = ExitPc
    <3>1. SUFFICES ASSUME ctx.pc # ExitPc PROVE FALSE
      OBVIOUS
    <3>2. PlacesOf(program)[ctx.pc].live
      BY <3>1 DEF Disciplined, InPlace, Agrees
    <3> QED BY <1>1, <2>1, <3>1, <3>2 DEF Balanced, Balances, Current
  <2>3. ctx.top >= 1
    BY <2>2 DEF Disciplined, AtExit
  <2> QED BY <1>1, <2>3 DEF Popped, Pops
<1>2. CASE Current.kind # "exit"
  <2> DEFINE here == PlacesOf(program)[ctx.pc]
             base == Last(ctx.frames).base
  <2>1. /\ PopsOf(Current) \in 0 .. here.height /\ here.height = ctx.top - base /\ base \in Nat
        /\ ctx.top \in Nat
    BY <1>2, HereOK
  <2> HIDE DEF here, base
  <2> QED BY <2>1, SamePops
<1> QED BY <1>1, <1>2

LEMMA PushIntBalance == ASSUME VmInv, BalanceInv, PushInt PROVE BalanceInv'
<1> DEFINE c == Push(Fetched, IntCell(Current.x))
<1>1. ctx.end = "no" /\ Current.kind = "push_int" /\ Popped = 0 /\ PopsOf(Current) = 0
      /\ Pushes["push_int"] = 1 /\ Do(c)
  BY SamePops DEF PushInt, At, Popped, Pops, Pushes
<1>2. ASSUME Balanced(program) PROVE Disciplined(ctx')
  <2> DEFINE here == PlacesOf(program)[ctx.pc]
             next == PlacesOf(program)[ctx.pc + 1]
  <2>1. Disciplined(ctx)
    BY <1>2 DEF BalanceInv
  <2>2. /\ InPlace(ctx) /\ ctx.pc \in 1 .. ExitPc /\ ctx.pc # ExitPc /\ ExitPc \in Nat
        /\ here \in Place /\ here.live /\ here.height = ctx.top - Last(ctx.frames).base
        /\ Last(ctx.frames).base \in Nat /\ ctx.top \in Nat
        /\ here.main = (Len(ctx.frames) = 1)
        /\ Leaves(here, Current) \/ Agrees(next, After(here, Current))
    BY <1>1, <1>2, <2>1, HereOK
  <2>3. Agrees(next, After(here, Current))
    BY <1>1, <2>2 DEF Leaves
  <2>4. /\ Shaped(Fetched) /\ Fetched.frames = ctx.frames /\ Fetched.end = ctx.end
        /\ Fetched.closures = ctx.closures /\ Fetched.errs = ctx.errs /\ Fetched.cells = ctx.cells
        /\ Fetched.pc = ctx.pc + 1 /\ Fetched.top = ctx.top - Popped /\ Shaped(ctx)
    BY <1>1, FetchedShaped
  <2> HIDE DEF here, next
  <2>5. /\ next.live /\ next.height = here.height + 1 /\ next.main = here.main
        /\ next.zero => Current.x = 0
    <3>1. here.height \in Nat
      BY <2>2 DEF Place
    <3>2. /\ next.live /\ next.height = here.height - PopsOf(Current) + Pushes[Current.kind]
          /\ next.main = here.main
          /\ next.zero => (Current.kind = "push_int" /\ Current.x = 0)
      BY <2>3 DEF Agrees, After
    <3>3. next.height = here.height + 1
      BY <1>1, <3>1, <3>2
    <3>4. next.zero => Current.x = 0
      BY <3>2
    <3> QED BY <3>2, <3>3, <3>4
  <2>6. Ran(Fetched, c, 1)
    BY <2>4, RanPush
  <2>7. Apart(c) /\ c.end = "no" /\ c.frames = ctx.frames /\ c.top \in Int
    BY <1>1, <2>1, <2>4, <2>6 DEF Ran, Shaped, Apart, Disciplined
  <2>8. CASE Fetched.top >= StackLen
    <3>1. c.pc = ExitPc /\ c.errs > 0 /\ c.top = 1
      BY <2>4, <2>8 DEF Push, Abort, Shaped
    <3> QED BY <1>1, <2>1, <2>4, <2>7, <3>1, Stopped, CrashDisciplined DEF Do
  <2>9. CASE ~(Fetched.top >= StackLen)
    <3>1. ctx.top \in DOMAIN ctx.cells
      <4>1. ctx.cells \in [Places -> CellRec]
        BY Fields DEF VmInv, Good
      <4> QED BY <1>1, <2>2, <2>4, <2>9, <4>1, Small DEF Places
    <3>2. /\ c.errs = ctx.errs /\ c.pc = ctx.pc + 1 /\ c.top = ctx.top + 1
          /\ c.cells[ctx.top] = IntCell(Current.x)
      BY <1>1, <2>2, <2>4, <2>9, <3>1 DEF Push, Shaped
    <3> HIDE DEF c
    <3>3. c.top > 0 /\ c.cells[c.top - 1] = IntCell(Current.x) /\ c.pc \in 1 .. ExitPc
      BY <2>2, <3>2
    <3>4. next.height = c.top - Last(ctx.frames).base /\ next = PlacesOf(program)[c.pc]
      BY <2>2, <2>5, <3>2 DEF next
    <3>5. Disciplined(c)
      BY <1>2, <2>2, <2>5, <2>7, <3>2, <3>3, <3>4, Moved
    <3> QED BY <1>1, <2>1, <2>4, <3>5, CrashDisciplined DEF Do
  <2> QED BY <2>8, <2>9
<1> QED BY <1>1, <1>2, DisciplineKept DEF Do

LEMMA JumpUnlessBalance == ASSUME VmInv, BalanceInv, JumpUnless PROVE BalanceInv'
<1> DEFINE target == program.labels[Current.x]
           jumped == [Fetched EXCEPT !.pc = target]
<1>1. ctx.end = "no" /\ Current.kind = "jump_unless" /\ Popped = 1 /\ PopsOf(Current) = 1
      /\ Pushes["jump_unless"] = 0 /\ program' = program
  BY SamePops DEF JumpUnless, At, Popped, Pops, Pushes, Do
<1>2. ASSUME Balanced(program) PROVE Disciplined(ctx')
  <2> DEFINE here == PlacesOf(program)[ctx.pc]
             next == PlacesOf(program)[ctx.pc + 1]
             there == PlacesOf(program)[target]
  <2>1. Disciplined(ctx) /\ ctx.top >= Popped
    BY <1>1, <1>2, OperandsThere DEF BalanceInv
  <2>2. /\ InPlace(ctx) /\ ctx.pc \in 1 .. ExitPc /\ ctx.pc # ExitPc /\ ExitPc \in Nat
        /\ here \in Place /\ here.live /\ here.height = ctx.top - Last(ctx.frames).base
        /\ Last(ctx.frames).base \in Nat /\ ctx.top \in Nat
        /\ here.main = (Len(ctx.frames) = 1)
        /\ Agrees(there, After(here, Current))
        /\ Leaves(here, Current) \/ Agrees(next, After(here, Current))
        /\ DOMAIN program.cmds = 1 .. ExitPc
    BY <1>1, <1>2, <2>1, HereOK
  <2>3. here.zero => Operand(1) = IntCell(0)
    <3>1. Operand(1) = ctx.cells[ctx.top - 1]
      BY <1>1, <2>2 DEF Operand
    <3>2. here.zero => ctx.cells[ctx.top - 1] = IntCell(0)
      BY <2>2 DEF InPlace, Agrees
    <3> QED BY <3>1, <3>2
  <2>4. target \in 1 .. ExitPc
    BY <1>1, <2>2, CurrentOK DEF OperandOK
  <2>5. /\ Shaped(Fetched) /\ Fetched.frames = ctx.frames /\ Fetched.end = ctx.end
        /\ Fetched.closures = ctx.closures /\ Fetched.errs = ctx.errs
        /\ Fetched.pc = ctx.pc + 1 /\ Fetched.top = ctx.top - 1
    BY <1>1, FetchedShaped
  <2>6. here.height \in Nat
    BY <2>2 DEF Place
  <2> HIDE DEF here, next, there, target
  <2>7. /\ After(here, Current).height = here.height - 1 /\ After(here, Current).main = here.main
        /\ ~After(here, Current).zero
    <3>1. /\ After(here, Current).height = here.height - PopsOf(Current) + Pushes[Current.kind]
          /\ After(here, Current).main = here.main
      BY DEF After
    <3>2. ~(Current.kind = "push_int" /\ Current.x = 0)
      BY <1>1
    <3>3. ~After(here, Current).zero
      BY <3>2 DEF After
    <3> QED BY <1>1, <2>6, <3>1, <3>3
  <2>8. Apart(Fetched)
    BY <2>1, <2>5 DEF Disciplined, Apart
  <2>9. CASE ctx' = Abort(Fetched)
    <3>1. /\ Abort(Fetched).pc = ExitPc /\ Abort(Fetched).errs > 0 /\ Abort(Fetched).top = 1
          /\ Abort(Fetched).end = "no" /\ Abort(Fetched).closures = ctx.closures
      BY <1>1, <2>5 DEF Abort, Shaped
    <3> QED BY <2>1, <2>9, <3>1, Stopped DEF Disciplined, Apart
  <2>10. CASE ctx' = jumped
    <3>1. /\ jumped.frames = ctx.frames /\ jumped.end = "no" /\ jumped.closures = ctx.closures
          /\ jumped.errs = ctx.errs /\ jumped.pc = target /\ jumped.top = ctx.top - 1
      BY <1>1, <2>5 DEF Shaped
    <3> HIDE DEF jumped
    <3>2. Apart(jumped)
      BY <2>5, <2>8, <3>1 DEF Apart
    <3>3. there.live /\ there.height = here.height - 1 /\ there.main = here.main /\ ~there.zero
      BY <2>2, <2>7 DEF Agrees
    <3>4. there.height = jumped.top - Last(ctx.frames).base /\ there = PlacesOf(program)[jumped.pc]
      BY <2>2, <3>1, <3>3 DEF there
    <3> QED BY <1>2, <2>2, <2>4, <2>10, <3>1, <3>2, <3>3, <3>4, Moved
  <2>11. CASE ctx' = Fetched /\ ~(Operand(1).val = 0)
    <3>1. ~Leaves(here, Current)
      BY <1>1, <2>3, <2>11 DEF Leaves, IntCell, Cell
    <3>2. next.live /\ next.height = here.height - 1 /\ next.main = here.main /\ ~next.zero
      BY <2>2, <2>7, <3>1 DEF Agrees
    <3>3. next.height = Fetched.top - Last(ctx.frames).base /\ next = PlacesOf(program)[Fetched.pc]
          /\ Fetched.pc \in 1 .. ExitPc /\ Fetched.top \in Int /\ Fetched.end = "no"
      BY <1>1, <2>2, <2>5, <3>2 DEF next
    <3> QED BY <1>2, <2>2, <2>5, <2>8, <2>11, <3>2, <3>3, Moved
  <2> QED BY <2>1, <2>9, <2>10, <2>11 DEF JumpUnless, Do, target
<1> QED BY <1>1, <1>2, DisciplineKept

LEMMA ErrBalance == ASSUME VmInv, BalanceInv, Err PROVE BalanceInv'
<1>1. ctx.end = "no" /\ Popped = 0 /\ Do(Abort(Fetched))
  BY DEF Err, At, Popped, Pops
<1>2. ASSUME Balanced(program) PROVE Disciplined(ctx')
  <2>1. Disciplined(ctx) /\ ctx.top >= Popped
    BY <1>1, <1>2, OperandsThere DEF BalanceInv
  <2>2. /\ Shaped(Fetched) /\ Fetched.end = ctx.end /\ Fetched.closures = ctx.closures
    BY <1>1, FetchedShaped
  <2>3. /\ Abort(Fetched).pc = ExitPc /\ Abort(Fetched).errs > 0 /\ Abort(Fetched).top = 1
        /\ Abort(Fetched).end = "no" /\ Abort(Fetched).closures = ctx.closures
    BY <1>1, <2>2 DEF Abort, Shaped
  <2> QED BY <1>1, <2>1, <2>3, Stopped DEF Do, Disciplined, Apart
<1> QED BY <1>1, <1>2, DisciplineKept DEF Do

\* The exit takes the one value that is left.
LEMMA ExitBalance == ASSUME VmInv, BalanceInv, Exit PROVE BalanceInv'
<1>1. ctx.end = "no" /\ Current.kind = "exit" /\ Popped = 1 /\ program' = program
  BY DEF Exit, At, Popped, Pops, Do
<1>2. ASSUME Balanced(program) PROVE Disciplined(ctx')
  <2>1. Disciplined(ctx) /\ ctx.top >= Popped
    BY <1>1, <1>2, OperandsThere DEF BalanceInv
  <2>2. /\ Shaped(Fetched) /\ Fetched.end = ctx.end /\ Fetched.closures = ctx.closures
        /\ Fetched.errs = ctx.errs /\ Fetched.top = ctx.top - 1 /\ Fetched.frames = ctx.frames
    BY <1>1, FetchedShaped
  <2>3. CASE ctx' = Abort(Fetched)
    <3>1. /\ Abort(Fetched).pc = ExitPc /\ Abort(Fetched).errs > 0 /\ Abort(Fetched).top = 1
          /\ Abort(Fetched).end = "no" /\ Abort(Fetched).closures = ctx.closures
      BY <1>1, <2>2 DEF Abort, Shaped
    <3> QED BY <2>1, <2>3, <3>1, Stopped DEF Disciplined, Apart
  <2>4. CASE ctx' = [Fetched EXCEPT !.exit = Operand(1).val, !.end = "exit"]
    <3> DEFINE exit == Operand(1).val
               c == [Fetched EXCEPT !.exit = exit, !.end = "exit"]
    <3> HIDE DEF exit
    <3>1. /\ c.end = "exit" /\ c.closures = ctx.closures /\ c.frames = ctx.frames
          /\ c.errs = ctx.errs /\ c.top = ctx.top - 1
      BY <2>2 DEF Shaped
    <3>2. ctx.pc = ExitPc
      <4>1. ExitPc \in Nat \ {0, 1} /\ DOMAIN program.cmds = 1 .. ExitPc /\ ctx.pc \in 1 .. ExitPc
        BY <1>1, ExitOK DEF VmInv, Fine
      <4>2. ctx.pc # ExitPc => PlacesOf(program)[ctx.pc].live
        BY <1>1, <2>1 DEF Disciplined, InPlace, Agrees
      <4> QED BY <1>1, <1>2, <4>1, <4>2 DEF Balanced, Balances, Current
    <3>3. ctx.errs > 0 \/ (ctx.top = 1 /\ Len(ctx.frames) <= 1)
      BY <1>1, <2>1, <3>2 DEF Disciplined, AtExit
    <3>4. c.errs > 0 \/ (c.top = 0 /\ Len(c.frames) <= 1)
      BY <3>1, <3>3
    <3> HIDE DEF c
    <3>5. Disciplined(c)
      BY <2>1, <3>1, <3>4 DEF Disciplined
    <3> QED BY <2>4, <3>5 DEF c, exit
  <2> QED BY <2>1, <2>3, <2>4 DEF Exit, Do
<1> QED BY <1>1, <1>2, DisciplineKept

---------------------------------------------------------------------------

\* The context after a step is one, and at a place of the program.
LEMMA StepTyped ==
    ASSUME VmInv', program' = program
    PROVE  /\ ctx' \in Contexts
           /\ ctx'.end = "no" => ctx'.pc \in 1 .. ExitPc
<1>1. ExitPc' = ExitPc
  BY DEF ExitPc
<1> QED BY <1>1 DEF VmInv, Good, Fine

LEMMA FrontFacts ==
    ASSUME NEW S, NEW s \in Seq(S), s # << >>
    PROVE  /\ Front(s) \in Seq(S) /\ Len(Front(s)) = Len(s) - 1 /\ Len(s) \in Nat \ {0}
           /\ DOMAIN Front(s) = 1 .. Len(s) - 1 /\ DOMAIN s = 1 .. Len(s)
           /\ \A i \in 1 .. Len(s) - 1 : Front(s)[i] = s[i]
<1>1. Len(s) \in Nat \ {0} /\ DOMAIN s = 1 .. Len(s)
  BY Domains, EmptySeq
<1>2. 1 \in 1 .. Len(s) + 1 /\ Len(s) - 1 \in 1 - 1 .. Len(s)
  BY <1>1
<1>3. /\ SubSeq(s, 1, Len(s) - 1) \in Seq(S)
      /\ Len(SubSeq(s, 1, Len(s) - 1)) = Len(s) - 1 - 1 + 1
      /\ \A i \in 1 .. Len(s) - 1 - 1 + 1 : SubSeq(s, 1, Len(s) - 1)[i] = s[1 + i - 1]
  BY <1>1, <1>2, SubSeqProperties
<1>4. Front(s) = SubSeq(s, 1, Len(s) - 1)
  BY DEF Front
<1>5. DOMAIN Front(s) = 1 .. Len(Front(s))
  BY <1>3, <1>4, Domains
<1> QED BY <1>1, <1>3, <1>4, <1>5

\* A function returns to its caller, or to the exit after an error; the main program
\* returns to the exit.
LEMMA ReturnBalance == ASSUME VmInv, BalanceInv, Return PROVE BalanceInv'
<1> DEFINE pc == Last(ctx.frames).cmd
           base == Last(ctx.frames).base
           frames == Front(ctx.frames)
           d == [ctx EXCEPT !.pc = pc, !.frames = frames]
<1>1. ctx.end = "no" /\ Current.kind = "return" /\ program' = program
  BY DEF Return, At, Do
<1>2. ASSUME Balanced(program) PROVE Disciplined(ctx')
  <2>1. Disciplined(ctx) /\ ctx.top >= Popped
    BY <1>1, <1>2, OperandsThere DEF BalanceInv
  <2>2. /\ InPlace(ctx) /\ ExitPc \in Nat /\ ctx.frames \in Seq(FrameRec) /\ base \in Nat
        /\ PlacesOf(program)[ctx.pc].height = ctx.top - base /\ ctx.top \in Nat
        /\ PlacesOf(program)[ctx.pc].height = 1
    BY <1>1, <1>2, <2>1, HereOK
  <2>3. ctx.frames # << >> /\ ctx' = d
    BY <2>1, <2>2 DEF InPlace, Return, Do
  <2>4. ctx.top = base + 1
    BY <2>2
  <2>5. /\ frames \in Seq(FrameRec) /\ Len(frames) = Len(ctx.frames) - 1
        /\ Len(ctx.frames) \in Nat \ {0} /\ DOMAIN frames = 1 .. Len(ctx.frames) - 1
        /\ \A f \in 1 .. Len(ctx.frames) - 1 : frames[f] = ctx.frames[f]
        /\ DOMAIN ctx.frames = 1 .. Len(ctx.frames)
    BY <2>2, <2>3, FrontFacts
  <2> HIDE DEF frames, pc
  <2>6. /\ d.frames = frames /\ d.pc = pc /\ d.top = ctx.top /\ d.errs = ctx.errs /\ d.end = "no"
        /\ d.closures = ctx.closures /\ d.cells = ctx.cells
    <3>1. Shaped(ctx)
      BY ShapedContext DEF VmInv, Good
    <3> QED BY <1>1, <3>1 DEF Shaped
  <2>7. d \in Contexts /\ d.pc \in 1 .. ExitPc
    <3>1. VmInv'
      BY ReturnStep
    <3>2. ctx' \in Contexts /\ (ctx'.end = "no" => ctx'.pc \in 1 .. ExitPc)
      BY <1>1, <3>1, StepTyped
    <3> HIDE DEF d
    <3> QED BY <2>3, <2>6, <3>2
  <2> HIDE DEF d
  <2>8. Apart(d)
    BY <2>1, <2>6 DEF Disciplined, Apart
  <2>9. Returns(ctx, Len(ctx.frames))
    BY <2>2, <2>5 DEF InPlace
  <2>10. pc = ctx.frames[Len(ctx.frames)].cmd /\ base = ctx.frames[Len(ctx.frames)].base
    BY DEF Last, pc
  <2>11. CASE Len(ctx.frames) = 1
    <3>1. pc = ExitPc /\ base = 0
      BY <2>9, <2>10, <2>11 DEF Returns
    <3>2. Len(d.frames) = 0 /\ \A f \in DOMAIN d.frames : d.frames[f].base = 0
      BY <2>5, <2>6, <2>11
    <3>3. AtExit(d)
      BY <2>4, <2>6, <3>1, <3>2 DEF AtExit
    <3> QED BY <2>3, <2>6, <2>8, <3>1, <3>3 DEF Disciplined, Apart
  <2>12. CASE Len(ctx.frames) # 1 /\ pc = ExitPc /\ ctx.errs > 0
    <3>1. d.top >= 1
      BY <2>2, <2>4, <2>6
    <3> QED BY <2>3, <2>6, <2>8, <2>12, <3>1, Stopped
  <2>13. CASE Len(ctx.frames) # 1 /\ ~(pc = ExitPc /\ ctx.errs > 0)
    <3> DEFINE n == Len(ctx.frames)
               there == PlacesOf(program)[pc]
    <3>0. n \in Nat /\ n # 0 /\ n # 1 /\ ctx.frames[n - 1].base \in Int
      <4>1. n \in Nat /\ n # 0 /\ n # 1
        BY <2>5, <2>13
      <4>2. n - 1 \in 1 .. n
        <5> HIDE DEF n
        <5> QED BY <4>1
      <4>3. ctx.frames[n - 1] \in FrameRec
        BY <2>2, <4>1, <4>2, ElementOfSeq
      <4> QED BY <4>1, <4>3 DEF FrameRec
    <3>1. Agrees(there, [live |-> TRUE, main |-> n = 2, zero |-> FALSE,
                         height |-> base + 1 - ctx.frames[n - 1].base])
      BY <2>9, <2>10, <2>13 DEF Returns
    <3>2. there.live /\ there.main = (n = 2) /\ there.height = base + 1 - ctx.frames[n - 1].base /\ ~there.zero
      BY <3>1 DEF Agrees
    <3>3. d.frames # << >> /\ Last(d.frames) = ctx.frames[n - 1]
          /\ (Len(d.frames) = 1) = (n = 2)
      <4>1. Len(d.frames) = n - 1 /\ n - 1 \in 1 .. n - 1 /\ d.frames[n - 1] = ctx.frames[n - 1]
        <5>1. n - 1 \in 1 .. n - 1
          <6> HIDE DEF n
          <6> QED BY <3>0
        <5> QED BY <2>5, <2>6, <5>1
      <4>2. d.frames # << >>
        BY <2>5, <2>6, <4>1, EmptySeq
      <4> QED BY <2>5, <4>1, <4>2 DEF Last
    <3>4. ASSUME NEW f \in DOMAIN d.frames PROVE Returns(d, f)
      <4>1. f \in 1 .. n - 1 /\ f \in DOMAIN ctx.frames
        BY <2>5, <2>6
      <4>2. Returns(ctx, f)
        BY <2>2, <4>1 DEF InPlace
      <4>3. d.frames[f] = ctx.frames[f] /\ (f # 1 => d.frames[f - 1] = ctx.frames[f - 1])
        BY <2>5, <2>6, <4>1
      <4> QED BY <2>6, <4>2, <4>3 DEF Returns
    <3>5. Agrees(there, [live |-> TRUE, main |-> Len(d.frames) = 1,
                         height |-> d.top - Last(d.frames).base,
                         zero |-> d.top > 0 /\ d.cells[d.top - 1] = IntCell(0)])
      <4>1. there.height = d.top - Last(d.frames).base
        BY <2>2, <2>4, <2>6, <3>0, <3>2, <3>3
      <4>2. there.main = (Len(d.frames) = 1)
        BY <3>2, <3>3
      <4> HIDE DEF there
      <4> QED BY <3>2, <4>1, <4>2 DEF Agrees
    <3>6. InPlace(d)
      BY <2>6, <3>3, <3>4, <3>5 DEF InPlace
    <3>7. IF d.pc = ExitPc THEN AtExit(d) ELSE InPlace(d)
      <4>1. d.frames \in Seq(FrameRec) /\ d.top \in Int /\ ProgramOK(program)
        BY <2>2, <2>5, <2>6 DEF VmInv
      <4> QED BY <1>2, <2>7, <3>6, <4>1, Arrive
    <3> QED BY <2>3, <2>6, <2>8, <3>7 DEF Disciplined, Apart
  <2> QED BY <2>11, <2>12, <2>13
<1> QED BY <1>1, <1>2, DisciplineKept

---------------------------------------------------------------------------

\* A function is entered on what its caller leaves, also after an error: the error is
\* what it returns to then.
LEMMA EnterDisciplined ==
    ASSUME VmInv, Balanced(program), Disciplined(ctx), ctx.end = "no", Current.kind = "call",
           Popped \in Nat, NEW fun \in DOMAIN program.funs, fun # Len(program.funs),
           NEW c, Ran(Fetched, c, 0), NEW env, NEW d, d \in Contexts,
           d.frames = Append(ctx.frames, [cmd |-> c.pc, env |-> env, base |-> c.top]),
           d.pc = program.funs[fun].cmd, d.pc \in 1 .. ExitPc,
           d.top = c.top, d.errs = c.errs, d.end = "no", d.closures = ctx.closures
    PROVE  Disciplined(d)
<1> DEFINE here == PlacesOf(program)[ctx.pc]
           next == PlacesOf(program)[ctx.pc + 1]
           there == PlacesOf(program)[d.pc]
           base == Last(ctx.frames).base
           n == Len(ctx.frames)
           frame == [cmd |-> c.pc, env |-> env, base |-> c.top]
<1>1. /\ InPlace(ctx) /\ ctx.pc \in 1 .. ExitPc /\ ctx.pc # ExitPc /\ ExitPc \in Nat
      /\ here \in Place /\ here.live /\ here.height = ctx.top - base
      /\ base \in Nat /\ ctx.top \in Nat
      /\ here.main = (n = 1) /\ PopsOf(Current) \in 0 .. here.height
      /\ Leaves(here, Current) \/ Agrees(next, After(here, Current))
      /\ ctx.frames \in Seq(FrameRec) /\ DOMAIN ctx.frames = 1 .. n /\ n \in Nat \ {0}
  BY HereOK
<1>2. ~Leaves(here, Current) /\ ~(Current.kind = "push_int" /\ Current.x = 0)
  BY DEF Leaves
<1>3. /\ next.live /\ next.height = here.height - PopsOf(Current) + Pushes[Current.kind]
      /\ next.main = here.main
      /\ ~next.zero
  <2> HIDE DEF here, next
  <2> QED BY <1>1, <1>2 DEF Agrees, After
<1>4. Agrees(there, Entry(FALSE))
  BY DEF Balanced, Balances
<1>5. there.live /\ there.height = 0 /\ ~there.main /\ ~there.zero
  <2> HIDE DEF there
  <2> QED BY <1>4 DEF Agrees, Entry
<1>6. /\ Fetched.errs = ctx.errs /\ Fetched.pc = ctx.pc + 1 /\ Fetched.top = ctx.top - Popped
  BY FetchedShaped
<1>7. /\ c.top \in Nat
      /\ \/ c.errs = ctx.errs /\ c.pc = ctx.pc + 1 /\ c.top = ctx.top - Popped
         \/ c.errs > 0 /\ c.pc = ExitPc
  <2>1. ctx.top >= Popped
    BY OperandsThere
  <2> QED BY <1>1, <1>6, <2>1 DEF Ran, Shaped
<1>8. frame.cmd = c.pc /\ frame.base = c.top
  OBVIOUS
<1> HIDE DEF frame
<1>9. /\ d.frames \in Seq(FrameRec) /\ Len(d.frames) = n + 1 /\ DOMAIN d.frames = 1 .. n + 1
      /\ \A i \in 1 .. n : d.frames[i] = ctx.frames[i]
      /\ d.frames[n + 1] = frame
  <2>1. d.frames \in Seq(FrameRec) /\ d.frames = Append(ctx.frames, frame)
    BY Fields DEF frame
  <2>2. /\ \A i \in 1 .. Len(ctx.frames) : Append(ctx.frames, frame)[i] = ctx.frames[i]
        /\ Append(ctx.frames, frame)[Len(ctx.frames) + 1] = frame
        /\ Len(Append(ctx.frames, frame)) = Len(ctx.frames) + 1
    BY <1>1
  <2> QED BY <2>1, <2>2, Domains
<1>10. Apart(d)
  BY DEF Disciplined, Apart
<1>11. Pushes[Current.kind] = 1 /\ Popped = PopsOf(Current)
  BY SamePops DEF Pushes
<1>12. ctx.frames[n].base = base
  BY DEF Last
<1> HIDE DEF here, next, there, base, n
<1>13. ASSUME NEW f \in 1 .. n PROVE Returns(d, f)
  <2>1. Returns(ctx, f)
    BY <1>1, <1>13 DEF InPlace
  <2>2. d.frames[f] = ctx.frames[f] /\ (f # 1 => d.frames[f - 1] = ctx.frames[f - 1])
    <3>1. f \in Nat /\ (f # 1 => f - 1 \in 1 .. n)
      BY <1>1, <1>13
    <3> QED BY <1>9, <1>13, <3>1
  <2>3. ctx.errs > 0 => d.errs > 0
    BY <1>7
  <2> QED BY <2>1, <2>2, <2>3 DEF Returns
<1>14. Returns(d, n + 1)
  <2>1. n + 1 # 1 /\ d.frames[(n + 1) - 1] = ctx.frames[n] /\ (n + 1) - 1 = n /\ n \in 1 .. n
    BY <1>1, <1>9
  <2>2. CASE c.errs > 0 /\ c.pc = ExitPc
    BY <1>7, <1>8, <1>9, <2>1, <2>2 DEF Returns
  <2>3. CASE c.errs = ctx.errs /\ c.pc = ctx.pc + 1 /\ c.top = ctx.top - Popped
    <3>1. next = PlacesOf(program)[c.pc]
      BY <2>3 DEF next
    <3>2. next.height = c.top + 1 - base
      <4> DEFINE g == next.height
                 h == here.height
                 b == base
                 k == Popped
                 t == ctx.top
      <4>1. h = t - b /\ b \in Nat /\ k \in Nat /\ t \in Nat
        BY <1>1
      <4>2. g = h - k + 1
        BY <1>3, <1>11
      <4>3. c.top = t - k
        BY <2>3
      <4> HIDE DEF g, h, b, k, t
      <4>4. g = (t - k) + 1 - b
        BY <4>1, <4>2
      <4>5. g = c.top + 1 - b
        BY <4>3, <4>4
      <4> QED BY <4>5 DEF g, b
    <3>3. next.main = (n + 1 = 2)
      <4>1. (n = 1) <=> (n + 1 = 2)
        BY <1>1
      <4> QED BY <1>1, <1>3, <4>1
    <3>4. Agrees(next, [live |-> TRUE, main |-> n + 1 = 2, zero |-> FALSE,
                        height |-> c.top + 1 - base])
      BY <1>3, <3>2, <3>3 DEF Agrees
    <3>5. d.frames[n + 1].cmd = c.pc /\ d.frames[n + 1].base = c.top /\ d.frames[(n + 1) - 1].base = base
      BY <1>8, <1>9, <1>12, <2>1
    <3>6. Agrees(PlacesOf(program)[d.frames[n + 1].cmd],
                 [live |-> TRUE, main |-> n + 1 = 2, zero |-> FALSE,
                  height |-> d.frames[n + 1].base + 1 - d.frames[(n + 1) - 1].base])
      BY <3>1, <3>4, <3>5
    <3> QED BY <1>7, <2>1, <3>5, <3>6 DEF Returns
  <2> QED BY <1>7, <2>2, <2>3
<1>15. InPlace(d)
  <2>1. \A f \in DOMAIN d.frames : Returns(d, f)
    <3>1. \A f \in 1 .. n + 1 : f \in 1 .. n \/ f = n + 1
      BY <1>1
    <3> QED BY <1>9, <1>13, <1>14, <3>1
  <2>2. d.frames # << >> /\ Last(d.frames) = frame /\ Len(d.frames) # 1
    <3>1. Len(d.frames) # 0
      BY <1>1, <1>9
    <3> QED BY <1>1, <1>9, <3>1, EmptySeq DEF Last
  <2>3. d.top - Last(d.frames).base = 0
    BY <1>7, <1>8, <2>2
  <2>4. Agrees(there, [live |-> TRUE, main |-> Len(d.frames) = 1,
                       height |-> d.top - Last(d.frames).base,
                       zero |-> d.top > 0 /\ d.cells[d.top - 1] = IntCell(0)])
    <3>1. there.main = (Len(d.frames) = 1)
      <4>1. there.main \in BOOLEAN
        <5>1. there \in Place
          BY ExitOK DEF Balanced, Balances, VmInv, there
        <5> QED BY <5>1 DEF Place
      <4> QED BY <1>5, <2>2, <4>1
    <3>2. there.height = d.top - Last(d.frames).base
      BY <1>5, <2>3
    <3> QED BY <1>5, <3>1, <3>2 DEF Agrees
  <2> QED BY <2>1, <2>2, <2>4 DEF InPlace, there
<1>16. IF d.pc = ExitPc THEN AtExit(d) ELSE InPlace(d)
  <2>1. d.top \in Int /\ ProgramOK(program)
    BY <1>7 DEF VmInv
  <2> QED BY <1>9, <1>15, <2>1, Arrive
<1> QED BY <1>10, <1>16 DEF Disciplined, Apart

LEMMA CallClosureBalance == ASSUME VmInv, BalanceInv, CallClosure PROVE BalanceInv'
<1> DEFINE closure == ctx.closures[Callee.val]
           called == EnvAdd(Fetched, closure.env, closure.fun)
           env == Len(called.envs)
           c == SetItems(called, called.envs[env].array, Args)
           frame == [cmd |-> c.pc, env |-> env, base |-> c.top]
           pc == program.funs[closure.fun].cmd
           d == [c EXCEPT !.frames = Append(@, frame), !.pc = pc]
<1>1. AtCall /\ Callee.ty = "closure" /\ Do(d) /\ program' = program
  BY DEF CallClosure, Do
<1>2. /\ ctx.end = "no" /\ Current.kind = "call" /\ Popped \in Nat /\ Current.x \in Nat
      /\ Shaped(Fetched)
  <2>1. Popped = Current.x + 1 /\ Current.x \in Nat
    BY <1>1, AtCallFacts
  <2>2. Popped \in Nat
    BY <2>1
  <2> QED BY <1>1, <2>1, <2>2, AtCallFacts
<1>3. ASSUME Balanced(program) PROVE Disciplined(ctx')
  <2>1. Disciplined(ctx) /\ ctx.top >= Popped /\ ctx' = d
    BY <1>1, <1>2, <1>3, OperandsThere DEF BalanceInv, Do
  <2>2. /\ Fine(Fetched) /\ Good(Fetched) /\ ExitPc \in Nat /\ ProgramOK(program)
        /\ Good(ctx) /\ SameTables(ctx, Fetched)
        /\ Args \in [1 .. Current.x -> CellsOf(ctx)] /\ Callee \in CellsOf(ctx)
    BY <1>1, <1>2, <2>1, Ready, ArgsOK DEF Fine
  <2>3. Callee.val \in DOMAIN ctx.closures
    BY <1>1, <2>2 DEF CellsOf, Of
  <2>4. /\ closure.env \in DOMAIN Fetched.envs /\ closure.fun \in DOMAIN program.funs
        /\ closure.fun # Len(program.funs)
    BY <2>1, <2>2, <2>3 DEF Good, Refers, SameTables, Disciplined
  <2>5. closure.env \in 0 .. Len(Fetched.envs)
    BY <2>2, <2>4, Fields, Domains DEF Good
  <2>6. Len(Args) = Current.x
    BY <1>2, <2>2, FunctionIsSeq
  <2> HIDE DEF closure
  <2>7. Good(called) /\ env \in DOMAIN called.envs /\ Ran(Fetched, called, 0)
    BY <1>2, <2>2, <2>4, <2>5, EnvAddOK, RanEnvAdd
  <2> HIDE DEF called, env
  <2>8. Shaped(called) /\ called.arrays[called.envs[env].array].len \in Int
    <3>1. called.envs[env].array \in DOMAIN called.arrays
      BY <2>7 DEF Good, Refers
    <3>2. called.arrays[called.envs[env].array] \in ArrayRec
      BY <2>7, <3>1, EachArray
    <3> QED BY <2>7, <3>2, RanShaped DEF ArrayRec
  <2>9. Ran(called, c, 0)
    <3>1. Len(Args) - called.arrays[called.envs[env].array].len \in Int
      BY <1>2, <2>6, <2>8
    <3> QED BY <2>8, <3>1, RanSetItems
  <2> HIDE DEF c
  <2>10. Ran(Fetched, c, 0)
    BY <1>2, <2>7, <2>9, RanTwice
  <2>11. c.frames = ctx.frames /\ c.closures = ctx.closures /\ c.end = "no" /\ Shaped(c)
    <3>1. Fetched.frames = ctx.frames /\ Fetched.closures = ctx.closures /\ Fetched.end = ctx.end
      BY <1>2, FetchedShaped
    <3> QED BY <1>2, <2>10, <3>1 DEF Ran
  <2> DEFINE frames == Append(c.frames, frame)
  <2>12. d = [c EXCEPT !.frames = frames, !.pc = pc]
    OBVIOUS
  <2>13. frames = Append(ctx.frames, [cmd |-> c.pc, env |-> env, base |-> c.top])
    BY <2>11
  <2> HIDE DEF frames, pc, d, frame
  <2>14. /\ d.frames = frames /\ d.pc = pc /\ d.top = c.top /\ d.errs = c.errs /\ d.end = "no"
         /\ d.closures = ctx.closures
    BY <2>11, <2>12 DEF Shaped
  <2>15. d \in Contexts /\ d.pc \in 1 .. ExitPc
    <3>1. VmInv'
      BY CallClosureStep
    <3>2. ctx' \in Contexts /\ (ctx'.end = "no" => ctx'.pc \in 1 .. ExitPc)
      BY <1>1, <3>1, StepTyped
    <3> QED BY <2>1, <2>14, <3>2
  <2>16. Disciplined(d)
    BY <1>2, <1>3, <2>1, <2>4, <2>10, <2>13, <2>14, <2>15, EnterDisciplined DEF pc
  <2> QED BY <2>1, <2>16
<1> QED BY <1>1, <1>3, DisciplineKept

---------------------------------------------------------------------------
(* Theorems.                                                               *)

\* The main program begins with an empty stack; when the memory has no room for its
\* variables it begins at its exit.
LEMMA BalanceBegins == ASSUME Init PROVE BalanceInv
<1> DEFINE end == IF program.ok THEN "no" ELSE "crash"
           cells == [i \in 0 .. CellLen - 1 |-> Fresh]
           c == [cells |-> cells, top |-> 0, heapEnd |-> StackLen,
                 arrays |-> << >>, strs |-> << >>, envs |-> << >>, closures |-> << >>,
                 frames |-> << >>, pc |-> 2, errs |-> 0, exit |-> 1, end |-> end]
           d == EnvAdd(c, 0, Len(program.funs))
           frame == [cmd |-> ExitPc, env |-> 1, base |-> 0]
           frames == <<frame>>
           e == [d EXCEPT !.frames = frames]
<1>1. ctx = e
  BY DEF Init
<1>2. /\ Shaped(c) /\ c.end \in {"no", "crash"} /\ c.closures = << >> /\ c.errs = 0 /\ c.top = 0
      /\ c.pc = 2
  <2>1. end \in {"no", "crash"}
    OBVIOUS
  <2> HIDE DEF end, cells
  <2> QED BY <2>1 DEF Shaped
<1> HIDE DEF c
<1>3. Ran(c, d, 0)
  BY <1>2, RanEnvAdd
<1> HIDE DEF d
<1>4. frame.cmd = ExitPc /\ frame.base = 0
  OBVIOUS
<1> HIDE DEF frame
<1>5. Len(frames) = 1 /\ DOMAIN frames = {1} /\ frames[1] = frame /\ frames # << >> /\ Last(frames) = frame
  BY DEF Last
<1> HIDE DEF frames
<1>6. /\ e.frames = frames /\ e.closures = << >> /\ e.errs = d.errs /\ e.top = d.top /\ e.pc = d.pc
      /\ e.end \in {"no", "crash"}
  BY <1>2, <1>3 DEF Ran, Shaped
<1> HIDE DEF e
<1>7. Apart(e)
  BY <1>6 DEF Apart
<1>8. CASE d.errs > 0 /\ d.pc = ExitPc /\ d.top >= 1
  BY <1>1, <1>6, <1>7, <1>8, Stopped DEF BalanceInv
<1>9. CASE d.errs = 0 /\ d.pc = 2 /\ d.top = 0
  <2> SUFFICES ASSUME Balanced(program) PROVE Disciplined(e)
    BY <1>1 DEF BalanceInv
  <2>1. ProgramOK(program) /\ e.frames \in Seq(FrameRec) /\ 2 \in 1 .. ExitPc
    <3>1. VmInv
      BY Begins
    <3> QED BY <1>1, <3>1, ExitOK, Fields DEF VmInv, Good
  <2>2. Agrees(PlacesOf(program)[2], Entry(TRUE))
    BY DEF Balanced, Balances
  <2>3. \A f \in DOMAIN e.frames : Returns(e, f)
    BY <1>4, <1>5, <1>6 DEF Returns
  <2>4. Len(e.frames) = 1 /\ e.top - Last(e.frames).base = 0 /\ e.pc = 2
    BY <1>4, <1>5, <1>6, <1>9
  <2>5. PlacesOf(program)[2].live /\ PlacesOf(program)[2].height = 0
        /\ PlacesOf(program)[2].main = TRUE /\ ~PlacesOf(program)[2].zero
    BY <2>2 DEF Agrees, Entry
  <2>6. InPlace(e)
    BY <1>5, <1>6, <2>3, <2>4, <2>5 DEF InPlace, Agrees
  <2>7. IF e.pc = ExitPc THEN AtExit(e) ELSE InPlace(e)
    BY <1>6, <1>9, <2>1, <2>4, <2>6, Arrive
  <2> QED BY <1>6, <1>7, <2>7 DEF Disciplined, Apart
<1> QED BY <1>2, <1>3, <1>8, <1>9 DEF Ran

LEMMA BalanceStays == ASSUME VmInv, BalanceInv, [Next]_vars PROVE BalanceInv'
<1>1. CASE UNCHANGED vars
  <2>1. program' = program /\ ctx' = ctx
    BY <1>1 DEF vars
  <2> QED BY <2>1, DisciplineKept DEF BalanceInv
<1>2. CASE PushInt \/ PushStr \/ PushArray \/ PushClosure \/ PushExtern \/ PushEnv
  BY <1>2, PushIntBalance, PushStrBalance, PushArrayBalance, PushClosureBalance, PushExternBalance,
     PushEnvBalance
<1>3. CASE LocalVar \/ CellGet \/ CellSet \/ Label \/ JumpUnless \/ Pop \/ Swap \/ Dup
  BY <1>3, LocalVarBalance, CellGetBalance, CellSetBalance, LabelBalance, JumpUnlessBalance,
     PopBalance, SwapBalance, DupBalance
<1>4. CASE CallClosure \/ CallOther \/ TooManyArgs \/ Return \/ Err \/ Exit
  BY <1>4, CallClosureBalance, CallOtherBalance, TooManyArgsBalance, ReturnBalance, ErrBalance,
     ExitBalance
<1>5. CASE CallExtern
  BY <1>5, ValTypeBalance, StrSliceBalance, ArrayLenBalance, CallArrayPushBalance, ArrayPopBalance,
     AssertionBalance, StdinToStrBalance DEF CallExtern
<1>6. CASE Operate
  BY <1>6, OpEqBalance, OpLtBalance, OpIndexBalance, OpIndexRefBalance, OpArrayPushBalance,
     OpAddBalance, OpArithBalance DEF Operate
<1> QED BY <1>1, <1>2, <1>3, <1>4, <1>5, <1>6 DEF Next

\* A machine that runs a program of the discipline keeps to it, for every size of the
\* stack and the heap, every list of built-in functions and every input, before an
\* error and after it.
THEOREM DisciplineKeeps == Spec => [](VmInv /\ BalanceInv)
<1>1. Init => VmInv /\ BalanceInv
  BY Begins, BalanceBegins
<1>2. (VmInv /\ BalanceInv) /\ [Next]_vars => (VmInv /\ BalanceInv)'
  BY Stays, BalanceStays
<1> QED BY <1>1, <1>2, PTL DEF Spec

\* Every command of a program of the discipline finds its operands: the assertion of
\* stack_pop never fails, whatever went wrong before (eval_abort, eval_call).
THEOREM OperandsSuffice == Spec => [](Balanced(program) => StackSuffices)
<1>1. VmInv /\ BalanceInv => (Balanced(program) => StackSuffices)
  BY OperandsThere DEF BalanceInv, StackSuffices
<1> QED BY <1>1, DisciplineKeeps, PTL

\* A function that runs never has less on the stack than its caller left there, and
\* returns with one value more (gen_return, eval_call, eval_return).
THEOREM ReturnsOneHolds == Spec => []ReturnsOne
<1>1. ASSUME VmInv, BalanceInv PROVE ReturnsOne
  <2> SUFFICES ASSUME ctx.end = "no", ~(ctx.errs > 0), ctx.frames # << >>, Balanced(program)
               PROVE  /\ ctx.top >= Last(ctx.frames).base
                      /\ Current.kind = "return" => ctx.top = Last(ctx.frames).base + 1
    BY Fields DEF ReturnsOne, VmInv, Good
  <2> DEFINE base == Last(ctx.frames).base
  <2>1. Disciplined(ctx)
    BY <1>1 DEF BalanceInv
  <2>2. CASE Current.kind = "exit"
    <3>1. ExitPc \in Nat \ {0, 1} /\ DOMAIN program.cmds = 1 .. ExitPc /\ ctx.pc \in 1 .. ExitPc
      BY <1>1, ExitOK DEF VmInv, Fine
    <3>2. ctx.pc # ExitPc => PlacesOf(program)[ctx.pc].live
      BY <2>1 DEF Disciplined, InPlace, Agrees
    <3>3. ctx.pc = ExitPc
      BY <2>2, <3>1, <3>2 DEF Balanced, Balances, Current
    <3>4. ctx.top = 1 /\ \A f \in DOMAIN ctx.frames : ctx.frames[f].base = 0
      BY <2>1, <3>3 DEF Disciplined, AtExit
    <3>5. Len(ctx.frames) \in DOMAIN ctx.frames
      BY <1>1, Fields, Domains, EmptySeq DEF VmInv, Good
    <3>6. base = 0
      BY <3>4, <3>5 DEF Last
    <3> QED BY <2>2, <3>4, <3>6
  <2>3. CASE Current.kind # "exit"
    <3> DEFINE here == PlacesOf(program)[ctx.pc]
    <3>1. /\ PopsOf(Current) \in 0 .. here.height /\ here.height = ctx.top - base /\ base \in Nat
          /\ ctx.top \in Nat /\ here \in Place
          /\ Current.kind = "return" => here.height = 1
      BY <1>1, <2>1, <2>3, HereOK
    <3>2. here.height \in Nat
      BY <3>1 DEF Place
    <3> HIDE DEF here, base
    <3>3. /\ ctx.top >= base
          /\ Current.kind = "return" => ctx.top = base + 1
      BY <3>1, <3>2
    <3> QED BY <3>3 DEF base
  <2> QED BY <2>2, <2>3
<1> QED BY <1>1, DisciplineKeeps, PTL

\* A program that ends without an error leaves an empty stack and no frame but the
\* global one, whatever functions it called and loops it left (eval).
THEOREM EndsCleanHolds == Spec => []EndsClean
<1>1. ASSUME BalanceInv PROVE EndsClean
  BY <1>1 DEF BalanceInv, Disciplined, EndsClean
<1> QED BY <1>1, DisciplineKeeps, PTL
=============================================================================
