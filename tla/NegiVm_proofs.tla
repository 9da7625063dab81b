---------------------------- MODULE NegiVm_proofs ----------------------------
(***************************************************************************)
(* The machine keeps its references for every program that the generator   *)
(* can make: whatever a program does, before and after an error, a cell or *)
(* a table never names something that is not there.                        *)
(***************************************************************************)
EXTENDS NegiVm, SequenceTheorems, TLAPS

---------------------------------------------------------------------------
(* Contexts.                                                               *)

TypeNames == {"int", "err", "str", "array", "closure", "extern", "env", "cell"}
CellRec == [ty : TypeNames, val : Int]
ArrayRec == [l : StackLen .. CellLen - 1, r : Int, len : Nat]
EnvRec == [parent : Nat, array : Nat]
ClosureRec == [fun : Nat, env : Nat]
FrameRec == [cmd : Nat, env : Nat, base : Int]

Contexts == [cells : [Places -> CellRec], top : 0 .. StackLen, heapEnd : StackLen .. CellLen - 1,
             arrays : Seq(ArrayRec), strs : Seq(Seq(IntRange)), envs : Seq(EnvRec),
             closures : Seq(ClosureRec), frames : Seq(FrameRec),
             pc : Nat, errs : Nat, exit : IntRange, end : {"no", "exit", "crash"}]

\* Every reference is to what exists.
Refers(c) ==
    /\ c.cells \in [Places -> CellsOf(c)]
    /\ \A e \in DOMAIN c.envs : c.envs[e].parent < e /\ c.envs[e].array \in DOMAIN c.arrays
    /\ \A i \in DOMAIN c.closures : /\ c.closures[i].env \in DOMAIN c.envs
                                    /\ c.closures[i].fun \in DOMAIN program.funs
    /\ \A f \in DOMAIN c.frames : /\ c.frames[f].env \in DOMAIN c.envs
                                  /\ c.frames[f].cmd \in 1 .. ExitPc

Good(c) == c \in Contexts /\ Refers(c)

\* The elements of an array are in the heap, and so is the range up to which it grows
\* without asking for more.
Ranges(c) ==
    \A a \in DOMAIN c.arrays :
        LET array == c.arrays[a]
        IN array.l <= c.heapEnd /\ array.r < CellLen /\ array.l + array.len < CellLen

\* After an error an array may be one element too long; the machine is at its exit then.
Fine(c) == Good(c) /\ c.pc \in 1 .. ExitPc /\ (c.pc = ExitPc \/ Ranges(c))

VmInv ==
    /\ ProgramOK(program)
    /\ Good(ctx) /\ ctx.pc \in 1 .. ExitPc + 1
    /\ ctx.end = "no" => Fine(ctx)

\* No table is shorter.
Grown(c, d) ==
    /\ Len(c.arrays) <= Len(d.arrays) /\ Len(c.strs) <= Len(d.strs)
    /\ Len(c.envs) <= Len(d.envs) /\ Len(c.closures) <= Len(d.closures)

USE VmAssumption

LEMMA Small ==
    /\ StackLen \in Nat \ {0} /\ CellLen \in Nat /\ StackLen < CellLen
    /\ 0 \in Places /\ 0 \in IntRange /\ 1 \in IntRange /\ 0 .. 7 \subseteq IntRange
    /\ IntRange \subseteq Int
BY DEF Places, IntRange

LEMMA Fields ==
    ASSUME NEW c \in Contexts
    PROVE  /\ c.cells \in [Places -> CellRec] /\ c.top \in 0 .. StackLen
           /\ c.heapEnd \in StackLen .. CellLen - 1
           /\ c.arrays \in Seq(ArrayRec) /\ c.strs \in Seq(Seq(IntRange)) /\ c.envs \in Seq(EnvRec)
           /\ c.closures \in Seq(ClosureRec) /\ c.frames \in Seq(FrameRec)
           /\ c.pc \in Nat /\ c.errs \in Nat /\ c.exit \in IntRange
           /\ c.end \in {"no", "exit", "crash"}
BY DEF Contexts

LEMMA Domains ==
    ASSUME NEW S, NEW s \in Seq(S)
    PROVE  DOMAIN s = 1 .. Len(s) /\ Len(s) \in Nat /\ DOMAIN s \subseteq Int
BY LenProperties

\* The tables tell which cells refer to something.
LEMMA CellsKept ==
    ASSUME NEW c, NEW d, d.strs = c.strs, d.arrays = c.arrays,
           d.closures = c.closures, d.envs = c.envs
    PROVE  CellsOf(d) = CellsOf(c)
BY DEF CellsOf

LEMMA CellsMore ==
    ASSUME NEW c \in Contexts, NEW d \in Contexts, Grown(c, d)
    PROVE  CellsOf(c) \subseteq CellsOf(d)
<1>1. DOMAIN c.strs \subseteq DOMAIN d.strs
  BY Fields, Domains DEF Grown
<1>2. DOMAIN c.arrays \subseteq DOMAIN d.arrays
  BY Fields, Domains DEF Grown
<1>3. DOMAIN c.closures \subseteq DOMAIN d.closures
  BY Fields, Domains DEF Grown
<1>4. DOMAIN c.envs \subseteq DOMAIN d.envs
  BY Fields, Domains DEF Grown
<1> QED BY <1>1, <1>2, <1>3, <1>4 DEF CellsOf, Of

LEMMA CellTyped ==
    ASSUME NEW c \in Contexts
    PROVE  CellsOf(c) \subseteq CellRec
<1>1. DOMAIN c.strs \subseteq Int
  BY Fields, Domains
<1>2. DOMAIN c.arrays \subseteq Int
  BY Fields, Domains
<1>3. DOMAIN c.closures \subseteq Int
  BY Fields, Domains
<1>4. DOMAIN c.envs \subseteq Int
  BY Fields, Domains
<1>5. DOMAIN Builtins \subseteq Int
  BY ProgramsAssumption, Domains
<1>6. Of("int", IntRange) \subseteq CellRec
  BY Small DEF Of, CellRec, TypeNames
<1>7. Of("err", {0}) \subseteq CellRec
  BY DEF Of, CellRec, TypeNames
<1>8. Of("str", DOMAIN c.strs) \subseteq CellRec
  BY <1>1 DEF Of, CellRec, TypeNames
<1>9. Of("array", DOMAIN c.arrays) \subseteq CellRec
  BY <1>2 DEF Of, CellRec, TypeNames
<1>10. Of("closure", DOMAIN c.closures) \subseteq CellRec
  BY <1>3 DEF Of, CellRec, TypeNames
<1>11. Of("extern", DOMAIN Builtins) \subseteq CellRec
  BY <1>5 DEF Of, CellRec, TypeNames
<1>12. Of("env", DOMAIN c.envs) \subseteq CellRec
  BY <1>4 DEF Of, CellRec, TypeNames
<1>13. Of("cell", StackLen .. CellLen - 1) \subseteq CellRec
  BY Small DEF Of, CellRec, TypeNames
<1> QED BY <1>6, <1>7, <1>8, <1>9, <1>10, <1>11, <1>12, <1>13, Zenon DEF CellsOf

LEMMA IntCells ==
    ASSUME NEW c, NEW n \in IntRange
    PROVE  IntCell(n) \in CellsOf(c)
BY DEF CellsOf, Of, IntCell, Cell

\* What no error and no operand changes.
SameTables(c, d) ==
    /\ d.heapEnd = c.heapEnd /\ d.arrays = c.arrays /\ d.strs = c.strs /\ d.envs = c.envs
    /\ d.closures = c.closures /\ d.frames = c.frames

LEMMA Same ==
    ASSUME NEW c, NEW d, SameTables(c, d)
    PROVE  CellsOf(d) = CellsOf(c) /\ (Ranges(c) => Ranges(d))
BY CellsKept DEF SameTables, Ranges

\* What counts of a context is its tables and cells.
LEMMA GoodSame ==
    ASSUME NEW c, Good(c), NEW d \in Contexts, SameTables(c, d),
           d.cells \in [Places -> CellsOf(c)]
    PROVE  Good(d)
<1>1. CellsOf(d) = CellsOf(c)
  BY Same
<1> QED BY <1>1 DEF Good, Refers, SameTables

LEMMA WriteOK ==
    ASSUME NEW c, Good(c), NEW cells \in [Places -> CellsOf(c)]
    PROVE  LET d == [c EXCEPT !.cells = cells]
           IN Good(d) /\ SameTables(c, d) /\ d.pc = c.pc /\ d.cells = cells /\ d.end = c.end
              /\ d.top = c.top /\ d.errs = c.errs /\ d.exit = c.exit
<1> DEFINE d == [c EXCEPT !.cells = cells]
<1>1. c \in Contexts /\ cells \in [Places -> CellRec]
  BY CellTyped DEF Good
<1>2. d \in Contexts /\ SameTables(c, d) /\ d.pc = c.pc /\ d.cells = cells /\ d.end = c.end
      /\ d.top = c.top /\ d.errs = c.errs /\ d.exit = c.exit
  BY <1>1 DEF Contexts, SameTables
<1> HIDE DEF d
<1>3. Good(d)
  BY <1>2, GoodSame
<1> QED BY <1>2, <1>3 DEF d

\* eval_abort changes no table.
LEMMA AbortOK ==
    ASSUME NEW c, Good(c), ExitPc \in Nat
    PROVE  /\ Good(Abort(c)) /\ SameTables(c, Abort(c)) /\ Abort(c).pc = ExitPc
           /\ Abort(c).end = c.end /\ Abort(c).cells = [c.cells EXCEPT ![0] = IntCell(1)]
<1> DEFINE cells == [c.cells EXCEPT ![0] = IntCell(1)]
           errs == c.errs + 1
           d == [c EXCEPT !.errs = errs, !.exit = 1, !.cells = cells, !.top = 1, !.pc = ExitPc]
<1>1. Abort(c) = d
  BY DEF Abort
<1>2. cells \in [Places -> CellsOf(c)] /\ cells \in [Places -> CellRec]
  BY Small, IntCells, CellTyped DEF Good, Refers
<1>3. errs \in Nat
  BY DEF Good, Contexts
<1>4. d \in Contexts
  <2> HIDE DEF cells, errs
  <2>1. c \in Contexts /\ cells \in [Places -> CellRec] /\ 1 \in 0 .. StackLen
    BY <1>2, Small DEF Good
  <2> QED BY <2>1, <1>3, Small DEF Contexts
<1>5. d.pc = ExitPc /\ d.end = c.end /\ d.cells = cells /\ SameTables(c, d)
  <2> HIDE DEF cells, errs
  <2> QED BY DEF Good, Contexts, SameTables
<1>6. Good(d)
  <2> HIDE DEF cells, d
  <2> QED BY <1>2, <1>4, <1>5, GoodSame
<1> QED BY <1>1, <1>5, <1>6

LEMMA PushOK ==
    ASSUME NEW c, Good(c), ExitPc \in Nat, NEW cell \in CellsOf(c)
    PROVE  /\ Good(Push(c, cell)) /\ SameTables(c, Push(c, cell))
           /\ Push(c, cell).pc \in {c.pc, ExitPc} /\ Push(c, cell).end = c.end
<1>1. CASE c.top >= StackLen
  BY <1>1, AbortOK DEF Push
<1>2. CASE ~(c.top >= StackLen)
  <2> DEFINE cells == [c.cells EXCEPT ![c.top] = cell]
             top == c.top + 1
             d == [c EXCEPT !.cells = cells, !.top = top]
  <2>1. Push(c, cell) = d
    BY <1>2 DEF Push
  <2>2. cells \in [Places -> CellsOf(c)] /\ cells \in [Places -> CellRec]
    BY CellTyped DEF Good, Refers
  <2>3. top \in 0 .. StackLen
    BY <1>2, Small DEF Good, Contexts
  <2>4. d \in Contexts
    <3> HIDE DEF cells, top
    <3> QED BY <2>2, <2>3 DEF Good, Contexts
  <2>5. d.pc = c.pc /\ d.end = c.end /\ d.cells = cells /\ SameTables(c, d)
    <3> HIDE DEF cells, top
    <3> QED BY DEF Good, Contexts, SameTables
  <2>6. Good(d)
    <3> HIDE DEF cells, d
    <3> QED BY <2>2, <2>4, <2>5, GoodSame
  <2> QED BY <2>1, <2>5, <2>6
<1> QED BY <1>1, <1>2

LEMMA AbortFine ==
    ASSUME NEW c, Good(c), ExitPc \in Nat \ {0}
    PROVE  Fine(Abort(c)) /\ SameTables(c, Abort(c))
<1>1. Good(Abort(c)) /\ SameTables(c, Abort(c)) /\ Abort(c).pc = ExitPc
  BY AbortOK
<1>2. ExitPc \in 1 .. ExitPc
  OBVIOUS
<1> QED BY <1>1, <1>2 DEF Fine

LEMMA PushFine ==
    ASSUME NEW c, Fine(c), ExitPc \in Nat \ {0}, NEW cell \in CellsOf(c)
    PROVE  Fine(Push(c, cell)) /\ SameTables(c, Push(c, cell))
BY PushOK, Same DEF Fine

LEMMA WriteFine ==
    ASSUME NEW c, Fine(c), NEW cells \in [Places -> CellsOf(c)]
    PROVE  Fine([c EXCEPT !.cells = cells]) /\ SameTables(c, [c EXCEPT !.cells = cells])
<1> DEFINE d == [c EXCEPT !.cells = cells]
<1>1. Good(d) /\ SameTables(c, d) /\ d.pc = c.pc
  BY WriteOK DEF Fine
<1> HIDE DEF d
<1>2. Fine(d)
  BY <1>1, Same DEF Fine
<1> QED BY <1>1, <1>2 DEF d

---------------------------------------------------------------------------
(* The heap and the tables.                                                *)

\* heap_alloc: the cells are inside the memory even when there is no room.
LEMMA HeapAllocOK ==
    ASSUME NEW c, Good(c), ExitPc \in Nat, NEW count \in Nat
    PROVE  LET d == HeapAlloc(c, count)
           IN /\ Good(d) /\ d.pc \in {c.pc, ExitPc} /\ d.end = c.end
              /\ d.arrays = c.arrays /\ d.strs = c.strs /\ d.envs = c.envs
              /\ d.closures = c.closures /\ d.frames = c.frames /\ c.heapEnd <= d.heapEnd
              /\ AllocatedAt(c, count) \in StackLen .. d.heapEnd
              /\ count \in Sizes => AllocatedAt(c, count) + count < CellLen
              /\ d.pc = ExitPc \/ d.heapEnd = c.heapEnd + count
              /\ d.cells \in {c.cells, [c.cells EXCEPT ![0] = IntCell(1)]}
<1>0. c.heapEnd \in StackLen .. CellLen - 1 /\ (count \in Sizes => StackLen + count < CellLen)
  BY Small DEF Good, Contexts, Sizes
<1>1. CASE Fits(c, count)
  <2> DEFINE h == c.heapEnd + count
             d == [c EXCEPT !.heapEnd = h]
  <2>1. HeapAlloc(c, count) = d /\ AllocatedAt(c, count) = c.heapEnd
    BY <1>1 DEF HeapAlloc, AllocatedAt
  <2>2. h \in StackLen .. CellLen - 1 /\ c.heapEnd <= h /\ c.heapEnd + count < CellLen
    BY <1>0, <1>1, Small DEF Fits
  <2>3. /\ d \in Contexts /\ d.pc = c.pc /\ d.end = c.end /\ d.heapEnd = h /\ d.cells = c.cells
        /\ d.arrays = c.arrays /\ d.strs = c.strs /\ d.envs = c.envs
        /\ d.closures = c.closures /\ d.frames = c.frames
    <3> HIDE DEF h
    <3> QED BY <2>2 DEF Good, Contexts
  <2>4. Good(d)
    <3> HIDE DEF d
    <3>1. CellsOf(d) = CellsOf(c)
      BY <2>3, CellsKept
    <3> QED BY <2>3, <3>1 DEF Good, Refers
  <2> QED BY <1>0, <2>1, <2>2, <2>3, <2>4
<1>2. CASE ~Fits(c, count)
  <2>1. HeapAlloc(c, count) = Abort(c) /\ AllocatedAt(c, count) = StackLen
    BY <1>2 DEF HeapAlloc, AllocatedAt
  <2> DEFINE d == Abort(c)
  <2>2. Good(d) /\ SameTables(c, d) /\ d.pc = ExitPc /\ d.end = c.end
        /\ d.cells = [c.cells EXCEPT ![0] = IntCell(1)]
    BY AbortOK
  <2> HIDE DEF d
  <2>3. StackLen \in StackLen .. d.heapEnd
    BY <1>0, <2>2, Small DEF SameTables
  <2> QED BY <1>0, <2>1, <2>2, <2>3 DEF SameTables, d
<1> QED BY <1>1, <1>2

LEMMA HeapAllocRanges ==
    ASSUME NEW c, Good(c), ExitPc \in Nat, NEW count \in Nat, Ranges(c)
    PROVE  Ranges(HeapAlloc(c, count))
<1> DEFINE d == HeapAlloc(c, count)
<1>1. Good(d) /\ d.arrays = c.arrays /\ c.heapEnd <= d.heapEnd
  BY HeapAllocOK
<1>2. c.heapEnd \in Int /\ d.heapEnd \in Int
  BY <1>1, Small DEF Good, Contexts
<1>3. \A a \in DOMAIN c.arrays : c.arrays[a] \in ArrayRec
  BY ElementOfSeq, Fields, Domains DEF Good
<1> HIDE DEF d
<1>4. Ranges(d)
  BY <1>1, <1>2, <1>3, Small DEF Ranges, ArrayRec
<1> QED BY <1>4 DEF d

\* array_add: a new array, with its elements in memory.
LEMMA ArrayAddOK ==
    ASSUME NEW c, Good(c), ExitPc \in Nat, NEW capacity \in Sizes, NEW len \in 0 .. capacity
    PROVE  LET d == ArrayAdd(c, len, capacity)
               h == HeapAlloc(c, capacity)
           IN /\ Good(d) /\ d.pc \in {c.pc, ExitPc} /\ d.end = c.end
              /\ d.strs = c.strs /\ d.envs = c.envs /\ d.closures = c.closures /\ d.frames = c.frames
              /\ Len(d.arrays) = Len(c.arrays) + 1
              /\ d.arrays[Len(d.arrays)] = [l |-> AllocatedAt(c, capacity),
                                            r |-> AllocatedAt(c, capacity) + capacity, len |-> len]
              /\ Ranges(c) => Ranges(d)
              /\ Grown(c, d) /\ d.cells = h.cells
<1> DEFINE h == HeapAlloc(c, capacity)
           l == AllocatedAt(c, capacity)
           array == [l |-> l, r |-> l + capacity, len |-> len]
           arrays == Append(c.arrays, array)
           d == [h EXCEPT !.arrays = arrays]
<1>0. capacity \in Nat
  BY Small DEF Sizes
<1>1. /\ Good(h) /\ h.pc \in {c.pc, ExitPc} /\ h.end = c.end
      /\ h.arrays = c.arrays /\ h.strs = c.strs /\ h.envs = c.envs
      /\ h.closures = c.closures /\ h.frames = c.frames /\ c.heapEnd <= h.heapEnd
      /\ l \in StackLen .. h.heapEnd /\ l + capacity < CellLen
  BY <1>0, HeapAllocOK
<1>2. ArrayAdd(c, len, capacity) = d
  BY <1>1 DEF ArrayAdd
<1>3. capacity \in Nat /\ len \in Nat /\ len <= capacity /\ h.heapEnd \in StackLen .. CellLen - 1
  BY <1>1, Small DEF Sizes, Good, Contexts
<1>4. array \in ArrayRec
  <2> HIDE DEF l
  <2> QED BY <1>1, <1>3, Small DEF ArrayRec
<1>5. c.arrays \in Seq(ArrayRec)
  BY DEF Good, Contexts
<1>6. /\ arrays \in Seq(ArrayRec) /\ Len(arrays) = Len(c.arrays) + 1
      /\ \A a \in 1 .. Len(c.arrays) : arrays[a] = c.arrays[a]
      /\ arrays[Len(c.arrays) + 1] = array
      /\ DOMAIN arrays = 1 .. Len(c.arrays) + 1 /\ DOMAIN c.arrays = 1 .. Len(c.arrays)
      /\ Len(c.arrays) \in Nat
  <2> HIDE DEF array
  <2> QED BY <1>4, <1>5, AppendProperties, Domains
<1>7. /\ d \in Contexts /\ d.pc = h.pc /\ d.end = h.end /\ d.heapEnd = h.heapEnd
      /\ d.cells = h.cells /\ d.arrays = arrays /\ d.strs = h.strs /\ d.envs = h.envs
      /\ d.closures = h.closures /\ d.frames = h.frames
  <2> HIDE DEF arrays, h
  <2> QED BY <1>1, <1>6 DEF Good, Contexts
<1> HIDE DEF d, arrays, h, l, array
<1>8. Grown(h, d) /\ Grown(c, d)
  <2>1. /\ Len(c.strs) \in Nat /\ Len(c.envs) \in Nat /\ Len(c.closures) \in Nat
    BY Fields, Domains DEF Good
  <2> QED BY <1>1, <1>6, <1>7, <2>1 DEF Grown
<1>9. Good(d)
  <2>1. CellsOf(h) \subseteq CellsOf(d)
    BY <1>1, <1>7, <1>8, CellsMore DEF Good
  <2>2. d.cells \in [Places -> CellsOf(d)]
    BY <1>1, <1>7, <2>1 DEF Good, Refers
  <2>3. DOMAIN h.arrays \subseteq DOMAIN d.arrays
    BY <1>1, <1>6, <1>7
  <2> QED BY <1>1, <1>7, <2>2, <2>3 DEF Good, Refers
<1>10. ASSUME Ranges(c) PROVE Ranges(d)
  <2>1. Ranges(h)
    BY <1>0, <1>10, HeapAllocRanges DEF h
  <2>2. \A a \in DOMAIN arrays : a \in DOMAIN c.arrays \/ a = Len(c.arrays) + 1
    BY <1>6
  <2>3. /\ array.l <= d.heapEnd /\ array.r < CellLen /\ array.l + array.len < CellLen
    BY <1>1, <1>3, <1>7, Small DEF array
  <2> QED BY <1>1, <1>6, <1>7, <2>1, <2>2, <2>3 DEF Ranges
<1>11. d.arrays[Len(d.arrays)] = array
  BY <1>6, <1>7
<1> QED BY <1>1, <1>2, <1>6, <1>7, <1>8, <1>9, <1>10, <1>11 DEF array, l, h

LEMMA EachArray ==
    ASSUME NEW c, Good(c), NEW a \in DOMAIN c.arrays
    PROVE  c.arrays[a] \in ArrayRec
BY ElementOfSeq, Fields, Domains DEF Good

\* array_ref: the cell is one of the heap, also for an index out of range.
LEMMA ArrayRefOK ==
    ASSUME NEW c, Good(c), NEW a \in DOMAIN c.arrays, NEW i \in Int,
           c.arrays[a].l + c.arrays[a].len < CellLen
    PROVE  ArrayRef(c, a, i) \in StackLen .. CellLen - 1
BY EachArray, Small DEF ArrayRef, InArray, ArrayRec

LEMMA ReferredOK ==
    ASSUME NEW c, Good(c), ExitPc \in Nat, NEW a, NEW i
    PROVE  /\ Good(Referred(c, a, i)) /\ SameTables(c, Referred(c, a, i))
           /\ Referred(c, a, i).pc \in {c.pc, ExitPc} /\ Referred(c, a, i).end = c.end
BY AbortOK DEF Referred, SameTables

LEMMA ReferredFine ==
    ASSUME NEW c, Fine(c), ExitPc \in Nat \ {0}, NEW a, NEW i
    PROVE  Fine(Referred(c, a, i)) /\ SameTables(c, Referred(c, a, i))
BY AbortFine DEF Referred, SameTables, Fine

LEMMA SetItemOK ==
    ASSUME NEW c, Good(c), ExitPc \in Nat, NEW a, NEW i, NEW item \in CellsOf(c)
    PROVE  LET d == SetItem(c, a, i, item)
           IN Good(d) /\ SameTables(c, d) /\ d.pc \in {c.pc, ExitPc} /\ d.end = c.end
<1> DEFINE r == Referred(c, a, i)
           cells == [r.cells EXCEPT ![ArrayRef(c, a, i)] = item]
<1>1. Good(r) /\ SameTables(c, r) /\ r.pc \in {c.pc, ExitPc} /\ r.end = c.end /\ CellsOf(r) = CellsOf(c)
  BY ReferredOK, Same
<1>2. SetItem(c, a, i, item) = [r EXCEPT !.cells = cells]
  BY DEF SetItem
<1>3. cells \in [Places -> CellsOf(r)]
  <2> HIDE DEF r
  <2> QED BY <1>1 DEF Good, Refers
<1> HIDE DEF r, cells
<1> QED BY <1>1, <1>2, <1>3, WriteOK DEF SameTables

\* The length of an array may change as far as its elements are in memory.
LEMMA SetLenOK ==
    ASSUME NEW c, Good(c), NEW a \in DOMAIN c.arrays, NEW n \in Nat
    PROVE  LET d == SetLen(c, a, n)
           IN /\ Good(d) /\ d.pc = c.pc /\ d.end = c.end /\ CellsOf(d) = CellsOf(c)
              /\ d.cells = c.cells /\ d.strs = c.strs
              /\ DOMAIN d.arrays = DOMAIN c.arrays
              /\ Ranges(c) /\ c.arrays[a].l + n < CellLen => Ranges(d)
<1> DEFINE array == [c.arrays[a] EXCEPT !.len = n]
           arrays == [c.arrays EXCEPT ![a] = array]
           d == [c EXCEPT !.arrays = arrays]
<1>1. SetLen(c, a, n) = d
  BY DEF SetLen
<1>2. array \in ArrayRec /\ array.l = c.arrays[a].l /\ array.r = c.arrays[a].r /\ array.len = n
  BY EachArray DEF ArrayRec
<1>3. /\ arrays \in Seq(ArrayRec) /\ DOMAIN arrays = DOMAIN c.arrays /\ arrays[a] = array
      /\ \A b \in DOMAIN c.arrays : b # a => arrays[b] = c.arrays[b]
  <2> HIDE DEF array
  <2>1. c.arrays \in Seq(ArrayRec) /\ a \in 1 .. Len(c.arrays)
    BY Fields, Domains DEF Good
  <2>2. arrays \in Seq(ArrayRec) /\ Len(arrays) = Len(c.arrays)
    BY <1>2, <2>1, ExceptSeq
  <2> QED BY <2>1, <2>2, Domains
<1>4. /\ d \in Contexts /\ d.pc = c.pc /\ d.end = c.end /\ d.heapEnd = c.heapEnd
      /\ d.cells = c.cells /\ d.arrays = arrays /\ d.strs = c.strs /\ d.envs = c.envs
      /\ d.closures = c.closures /\ d.frames = c.frames
  <2> HIDE DEF arrays
  <2> QED BY <1>3 DEF Good, Contexts
<1> HIDE DEF d, arrays, array
<1>5. CellsOf(d) = CellsOf(c)
  BY <1>3, <1>4 DEF CellsOf
<1>6. Good(d)
  BY <1>3, <1>4, <1>5 DEF Good, Refers
<1>7. ASSUME Ranges(c), c.arrays[a].l + n < CellLen PROVE Ranges(d)
  BY <1>2, <1>3, <1>4, <1>7 DEF Ranges
<1> QED BY <1>1, <1>3, <1>4, <1>5, <1>6, <1>7

\* array_reserve: without room the machine is at its exit.
LEMMA ArrayReserveOK ==
    ASSUME NEW c, Fine(c), ExitPc \in Nat \ {0}, NEW a \in DOMAIN c.arrays
    PROVE  LET n == c.arrays[a].len + 1
               d == ArrayReserve(c, a, n)
           IN /\ Fine(d) /\ d.end = c.end /\ d.arrays = c.arrays /\ CellsOf(d) = CellsOf(c)
              /\ d.strs = c.strs
              /\ d.pc = ExitPc \/ c.arrays[a].l + n < CellLen
<1> DEFINE array == c.arrays[a]
           n == array.len + 1
           capacity == array.len + n
           l == AllocatedAt(c, capacity)
           source(i) == i - l + array.l
           h == HeapAlloc(c, capacity)
           cells == [i \in DOMAIN h.cells |->
                        IF i \in l .. l + capacity - 1 /\ source(i) \in DOMAIN h.cells
                        THEN c.cells[source(i)] ELSE h.cells[i]]
<1>1. /\ Good(c) /\ array \in ArrayRec /\ n \in Nat /\ capacity \in Nat
      /\ c.heapEnd \in StackLen .. CellLen - 1
  <2>1. Good(c) /\ c.heapEnd \in StackLen .. CellLen - 1
    BY Fields DEF Fine, Good
  <2>2. array \in ArrayRec
    BY <2>1, EachArray
  <2>3. array.len \in Nat
    BY <2>2 DEF ArrayRec
  <2> QED BY <2>1, <2>2, <2>3
<1>2. CASE n <= array.r - array.l
  <2>1. ArrayReserve(c, a, n) = c
    BY <1>2 DEF ArrayReserve
  <2>2. c.pc = ExitPc \/ array.r < CellLen
    BY DEF Fine, Ranges
  <2>3. c.pc = ExitPc \/ array.l + n < CellLen
    <3> HIDE DEF array, n
    <3> QED BY <1>1, <1>2, <2>2, Small DEF ArrayRec
  <2> QED BY <2>1, <2>3
<1>3. CASE ~(n <= array.r - array.l)
  <2>1. ArrayReserve(c, a, n) = [h EXCEPT !.cells = cells]
    BY <1>3 DEF ArrayReserve
  <2>2. /\ Good(h) /\ h.pc \in {c.pc, ExitPc} /\ h.end = c.end
        /\ h.arrays = c.arrays /\ h.strs = c.strs /\ h.envs = c.envs
        /\ h.closures = c.closures
        /\ h.pc = ExitPc \/ h.heapEnd = c.heapEnd + capacity
    <3>1. Good(c) /\ ExitPc \in Nat /\ capacity \in Nat
      BY <1>1
    <3> HIDE DEF capacity, array, l
    <3> QED BY <3>1, HeapAllocOK, ZenonT(30)
  <2>3. CellsOf(h) = CellsOf(c)
    BY <2>2, CellsKept
  <2>4. cells \in [Places -> CellsOf(h)]
    <3>1. c.cells \in [Places -> CellsOf(h)] /\ h.cells \in [Places -> CellsOf(h)]
      BY <1>1, <2>2, <2>3 DEF Good, Refers
    <3> HIDE DEF h, l, capacity, array
    <3> QED BY <3>1
  <2>5. Ranges(c) => Ranges(h)
    BY <1>1, HeapAllocRanges
  <2>6. h.pc = ExitPc \/ array.l + n < CellLen
    <3>1. h.pc = ExitPc \/ c.pc # ExitPc
      BY <2>2
    <3>2. c.pc # ExitPc => array.l <= c.heapEnd
      BY DEF Fine, Ranges
    <3>3. h.heapEnd \in StackLen .. CellLen - 1
      BY <2>2, Fields DEF Good
    <3> HIDE DEF h, array, n
    <3> QED BY <1>1, <2>2, <3>1, <3>2, <3>3, Small DEF ArrayRec
  <2>7. Fine(h)
    BY <2>2, <2>5 DEF Fine
  <2> HIDE DEF h, cells
  <2> DEFINE d == [h EXCEPT !.cells = cells]
  <2>8. Fine(d) /\ SameTables(h, d) /\ d.pc = h.pc /\ d.end = h.end
    BY <2>2, <2>4, <2>7, WriteFine, WriteOK
  <2> HIDE DEF d
  <2>9. CellsOf(d) = CellsOf(h) /\ d.arrays = h.arrays /\ d.strs = h.strs
    BY <2>8, Same DEF SameTables
  <2> QED BY <2>1, <2>2, <2>3, <2>6, <2>8, <2>9 DEF d
<1> QED BY <1>2, <1>3

\* array_push: the item is in memory, or the machine at its exit.
LEMMA ArrayPushOK ==
    ASSUME NEW c, Fine(c), ExitPc \in Nat \ {0}, NEW a \in DOMAIN c.arrays, NEW item \in CellsOf(c)
    PROVE  LET d == ArrayPush(c, a, item)
           IN Fine(d) /\ d.end = c.end /\ CellsOf(d) = CellsOf(c) /\ d.strs = c.strs
<1> DEFINE n == c.arrays[a].len + 1
           r == ArrayReserve(c, a, n)
           s == SetLen(r, a, n)
           d == SetItem(s, a, c.arrays[a].len, item)
<1>1. ArrayPush(c, a, item) = d
  BY DEF ArrayPush
<1>2. n \in Nat
  BY EachArray DEF Fine, ArrayRec
<1>3. /\ Fine(r) /\ r.end = c.end /\ r.arrays = c.arrays /\ CellsOf(r) = CellsOf(c) /\ r.strs = c.strs
      /\ r.pc = ExitPc \/ c.arrays[a].l + n < CellLen
  BY ArrayReserveOK
<1> HIDE DEF n, r
<1>4. /\ Good(s) /\ s.pc = r.pc /\ s.end = r.end /\ CellsOf(s) = CellsOf(r) /\ s.strs = r.strs
      /\ Ranges(r) /\ r.arrays[a].l + n < CellLen => Ranges(s)
  BY <1>2, <1>3, SetLenOK DEF Fine
<1>5. Fine(s)
  BY <1>3, <1>4 DEF Fine
<1> HIDE DEF s
<1>6. Good(d) /\ SameTables(s, d) /\ d.pc \in {s.pc, ExitPc} /\ d.end = s.end
  BY <1>3, <1>4, SetItemOK
<1> HIDE DEF d
<1>7. Fine(d)
  BY <1>5, <1>6, Same DEF Fine
<1> QED BY <1>1, <1>3, <1>4, <1>6, <1>7, Same DEF SameTables

\* env_add: a new environment, after all those it can be reached from.
LEMMA EnvAddOK ==
    ASSUME NEW c, Good(c), ExitPc \in Nat, ProgramOK(program),
           NEW parent \in 0 .. Len(c.envs), NEW fun \in DOMAIN program.funs
    PROVE  LET d == EnvAdd(c, parent, fun)
           IN /\ Good(d) /\ d.pc \in {c.pc, ExitPc} /\ d.end = c.end /\ Grown(c, d)
              /\ d.frames = c.frames
              /\ Len(d.envs) \in DOMAIN d.envs /\ Len(c.envs) < Len(d.envs)
              /\ Ranges(c) => Ranges(d)
<1> DEFINE len == program.funs[fun].len
           h == ArrayAdd(c, len, len)
           env == [parent |-> parent, array |-> Len(h.arrays)]
           envs == Append(c.envs, env)
           d == [h EXCEPT !.envs = envs]
<1>1. len \in Sizes /\ len \in 0 .. len
  <2>1. len \in Sizes
    <3>1. program.funs \in Seq([cmd : DOMAIN program.cmds, len : Sizes])
      BY DEF ProgramOK
    <3>2. program.funs[fun] \in [cmd : DOMAIN program.cmds, len : Sizes]
      BY <3>1, ElementOfSeq, Domains
    <3> QED BY <3>2
  <2> HIDE DEF len
  <2> QED BY <2>1, Small DEF Sizes
<1>2. /\ Good(h) /\ h.pc \in {c.pc, ExitPc} /\ h.end = c.end /\ h.cells \in [Places -> CellsOf(h)]
      /\ h.strs = c.strs /\ h.envs = c.envs /\ h.closures = c.closures /\ h.frames = c.frames
      /\ Len(h.arrays) = Len(c.arrays) + 1 /\ Grown(c, h)
      /\ Ranges(c) => Ranges(h)
  <2> HIDE DEF len
  <2>1. /\ Good(h) /\ h.pc \in {c.pc, ExitPc} /\ h.end = c.end
        /\ h.strs = c.strs /\ h.envs = c.envs /\ h.closures = c.closures /\ h.frames = c.frames
        /\ Len(h.arrays) = Len(c.arrays) + 1 /\ Grown(c, h)
        /\ Ranges(c) => Ranges(h)
    <3>1. Good(c) /\ ExitPc \in Nat
      OBVIOUS
    <3> QED BY <1>1, <3>1, ArrayAddOK, ZenonT(30)
  <2> HIDE DEF h
  <2> QED BY <2>1 DEF Good, Refers
<1>3. EnvAdd(c, parent, fun) = d
  BY <1>2 DEF EnvAdd
<1> HIDE DEF h
<1>4. /\ c.envs \in Seq(EnvRec) /\ Len(c.envs) \in Nat /\ Len(c.arrays) \in Nat
      /\ Len(h.arrays) \in DOMAIN h.arrays /\ Len(h.arrays) \in Nat
  BY <1>2, Fields, Domains DEF Good
<1>5. env \in EnvRec /\ env.parent = parent /\ env.array = Len(h.arrays)
  BY <1>4 DEF EnvRec
<1>6. /\ envs \in Seq(EnvRec) /\ Len(envs) = Len(c.envs) + 1
      /\ \A e \in 1 .. Len(c.envs) : envs[e] = c.envs[e]
      /\ envs[Len(c.envs) + 1] = env
      /\ DOMAIN envs = 1 .. Len(c.envs) + 1 /\ DOMAIN c.envs = 1 .. Len(c.envs)
  <2> HIDE DEF env
  <2> QED BY <1>4, <1>5, AppendProperties, Domains
<1>7. /\ d \in Contexts /\ d.pc = h.pc /\ d.end = h.end /\ d.heapEnd = h.heapEnd
      /\ d.cells = h.cells /\ d.arrays = h.arrays /\ d.strs = h.strs /\ d.envs = envs
      /\ d.closures = h.closures /\ d.frames = h.frames
  <2> HIDE DEF envs
  <2> QED BY <1>2, <1>6 DEF Good, Contexts
<1> HIDE DEF d, envs, env
<1>8. Grown(h, d) /\ Grown(c, d)
  <2>1. Len(c.strs) \in Nat /\ Len(c.closures) \in Nat
    BY Fields, Domains DEF Good
  <2> QED BY <1>2, <1>4, <1>6, <1>7, <2>1 DEF Grown
<1>9. Good(d)
  <2>1. CellsOf(h) \subseteq CellsOf(d)
    BY <1>2, <1>7, <1>8, CellsMore DEF Good
  <2>2. d.cells \in [Places -> CellsOf(d)]
    BY <1>2, <1>7, <2>1
  <2>3. DOMAIN h.envs \subseteq DOMAIN d.envs
    BY <1>2, <1>6, <1>7, <1>4
  <2>4. \A e \in DOMAIN d.envs : d.envs[e].parent < e /\ d.envs[e].array \in DOMAIN d.arrays
    <3>1. \A e \in DOMAIN d.envs : e \in DOMAIN c.envs \/ e = Len(c.envs) + 1
      BY <1>4, <1>6, <1>7
    <3>2. parent < Len(c.envs) + 1
      BY <1>4
    <3>3. \A e \in DOMAIN c.envs : c.envs[e].parent < e /\ c.envs[e].array \in DOMAIN h.arrays
      BY <1>2 DEF Good, Refers
    <3> QED BY <1>4, <1>5, <1>6, <1>7, <3>1, <3>2, <3>3
  <2> QED BY <1>2, <1>7, <2>2, <2>3, <2>4 DEF Good, Refers
<1>10. Ranges(c) => Ranges(d)
  BY <1>2, <1>7 DEF Ranges
<1>11. Len(d.envs) \in DOMAIN d.envs /\ Len(c.envs) < Len(d.envs)
  BY <1>4, <1>6, <1>7
<1> QED BY <1>2, <1>3, <1>7, <1>8, <1>9, <1>10, <1>11

\* What adds to the strings and closures leaves the arrays alone.
LEMMA AddStrOK ==
    ASSUME NEW c, Good(c), NEW s \in Seq(IntRange)
    PROVE  LET d == [c EXCEPT !.strs = Append(@, s)]
           IN /\ Good(d) /\ d.pc = c.pc /\ d.end = c.end /\ Grown(c, d)
              /\ d.heapEnd = c.heapEnd /\ d.arrays = c.arrays /\ d.cells = c.cells
              /\ Cell("str", Len(d.strs)) \in CellsOf(d)
              /\ Fine(c) => Fine(d)
<1> DEFINE strs == Append(c.strs, s)
           d == [c EXCEPT !.strs = strs]
<1>1. c.strs \in Seq(Seq(IntRange)) /\ Len(c.strs) \in Nat
  BY Fields, Domains DEF Good
<1>2. strs \in Seq(Seq(IntRange)) /\ Len(strs) = Len(c.strs) + 1 /\ Len(strs) \in DOMAIN strs
  BY <1>1, AppendProperties, Domains
<1>3. /\ d \in Contexts /\ d.pc = c.pc /\ d.end = c.end /\ d.heapEnd = c.heapEnd
      /\ d.cells = c.cells /\ d.arrays = c.arrays /\ d.strs = strs /\ d.envs = c.envs
      /\ d.closures = c.closures /\ d.frames = c.frames
  <2> HIDE DEF strs
  <2> QED BY <1>2 DEF Good, Contexts
<1> HIDE DEF d, strs
<1>4. Grown(c, d)
  <2>1. Len(c.arrays) \in Nat /\ Len(c.closures) \in Nat /\ Len(c.envs) \in Nat
    BY Fields, Domains DEF Good
  <2> QED BY <1>1, <1>2, <1>3, <2>1 DEF Grown
<1>5. Good(d)
  <2>1. d.cells \in [Places -> CellsOf(d)]
    BY <1>3, <1>4, CellsMore DEF Good, Refers
  <2> QED BY <1>3, <2>1 DEF Good, Refers
<1>6. Cell("str", Len(d.strs)) \in CellsOf(d)
  BY <1>2, <1>3 DEF Cell, CellsOf, Of
<1>7. Fine(c) => Fine(d)
  BY <1>3, <1>5 DEF Fine, Ranges
<1> QED BY <1>3, <1>4, <1>5, <1>6, <1>7 DEF d, strs

LEMMA AddClosureOK ==
    ASSUME NEW c, Fine(c), NEW fun \in DOMAIN program.funs, NEW env \in DOMAIN c.envs,
           ProgramOK(program)
    PROVE  LET d == [c EXCEPT !.closures = Append(@, [fun |-> fun, env |-> env])]
           IN Fine(d) /\ d.end = c.end /\ Cell("closure", Len(d.closures)) \in CellsOf(d)
<1> DEFINE closure == [fun |-> fun, env |-> env]
           closures == Append(c.closures, closure)
           d == [c EXCEPT !.closures = closures]
<1>0. Good(c)
  BY DEF Fine
<1>1. c.closures \in Seq(ClosureRec) /\ Len(c.closures) \in Nat
  BY <1>0, Fields, Domains DEF Good
<1>2. closure \in ClosureRec /\ closure.fun = fun /\ closure.env = env
  <2>1. DOMAIN program.funs = 1 .. Len(program.funs) /\ Len(program.funs) \in Nat
    BY Domains DEF ProgramOK
  <2>2. DOMAIN c.envs = 1 .. Len(c.envs) /\ Len(c.envs) \in Nat
    BY <1>0, Fields, Domains DEF Good
  <2> QED BY <2>1, <2>2 DEF ClosureRec
<1>3. /\ closures \in Seq(ClosureRec) /\ Len(closures) = Len(c.closures) + 1
      /\ Len(closures) \in DOMAIN closures
      /\ \A i \in 1 .. Len(c.closures) : closures[i] = c.closures[i]
      /\ closures[Len(c.closures) + 1] = closure
      /\ DOMAIN closures = 1 .. Len(c.closures) + 1 /\ DOMAIN c.closures = 1 .. Len(c.closures)
  <2> HIDE DEF closure
  <2> QED BY <1>1, <1>2, AppendProperties, Domains
<1>4. /\ d \in Contexts /\ d.pc = c.pc /\ d.end = c.end /\ d.heapEnd = c.heapEnd
      /\ d.cells = c.cells /\ d.arrays = c.arrays /\ d.strs = c.strs /\ d.envs = c.envs
      /\ d.closures = closures /\ d.frames = c.frames
  <2> HIDE DEF closures
  <2> QED BY <1>0, <1>3 DEF Good, Contexts
<1> HIDE DEF d, closures, closure
<1>5. Grown(c, d)
  <2>1. Len(c.arrays) \in Nat /\ Len(c.strs) \in Nat /\ Len(c.envs) \in Nat
    BY <1>0, Fields, Domains DEF Good
  <2> QED BY <1>1, <1>3, <1>4, <2>1 DEF Grown
<1>6. Good(d)
  <2>1. d.cells \in [Places -> CellsOf(d)]
    BY <1>0, <1>4, <1>5, CellsMore DEF Good, Refers
  <2>2. \A i \in DOMAIN d.closures : /\ d.closures[i].env \in DOMAIN d.envs
                                     /\ d.closures[i].fun \in DOMAIN program.funs
    <3>1. \A i \in DOMAIN d.closures : i \in DOMAIN c.closures \/ i = Len(c.closures) + 1
      BY <1>1, <1>3, <1>4
    <3> QED BY <1>0, <1>2, <1>3, <1>4, <3>1 DEF Good, Refers
  <2> QED BY <1>0, <1>4, <2>1, <2>2 DEF Good, Refers
<1>7. Cell("closure", Len(d.closures)) \in CellsOf(d)
  BY <1>3, <1>4 DEF Cell, CellsOf, Of
<1>8. Fine(d)
  BY <1>4, <1>6 DEF Fine, Ranges
<1> QED BY <1>4, <1>7, <1>8 DEF d, closures, closure

\* The arguments of a call are stored as they are, and nothing else is.
LEMMA SetItemsOK ==
    ASSUME NEW c, Good(c), ExitPc \in Nat, NEW a \in DOMAIN c.arrays,
           NEW S \in SUBSET CellsOf(c), IntCell(1) \in S, c.cells \in [Places -> S],
           NEW items \in Seq(S)
    PROVE  LET d == SetItems(c, a, items)
           IN /\ Good(d) /\ SameTables(c, d) /\ d.pc \in {c.pc, ExitPc} /\ d.end = c.end
              /\ d.cells \in [Places -> S]
<1> DEFINE array == c.arrays[a]
           extra == Len(items) - array.len
           written(i) == IF i = array.l /\ extra > 0 THEN Len(items) ELSE i - array.l + 1
           errs == c.errs + extra
           r == IF extra > 0 THEN [Abort(c) EXCEPT !.errs = errs] ELSE c
           cells == [i \in DOMAIN r.cells |->
                        IF i >= array.l /\ written(i) \in DOMAIN items
                           /\ (i < array.l + array.len \/ i = array.l)
                        THEN items[written(i)] ELSE r.cells[i]]
<1>1. SetItems(c, a, items) = [r EXCEPT !.cells = cells]
  BY DEF SetItems
<1>2. Good(r) /\ SameTables(c, r) /\ r.pc \in {c.pc, ExitPc} /\ r.end = c.end
      /\ r.cells \in [Places -> S]
  <2>1. CASE extra > 0
    <3> DEFINE b == Abort(c)
    <3>1. Good(b) /\ SameTables(c, b) /\ b.pc = ExitPc /\ b.end = c.end
          /\ b.cells = [c.cells EXCEPT ![0] = IntCell(1)]
      BY AbortOK
    <3>2. errs \in Nat
      <4>1. c.errs \in Nat /\ Len(items) \in Nat /\ array.len \in Nat
        BY EachArray, LenProperties DEF Good, Contexts, ArrayRec
      <4> HIDE DEF array
      <4> QED BY <2>1, <4>1
    <3> HIDE DEF b, errs
    <3> DEFINE d == [b EXCEPT !.errs = errs]
    <3>3. d \in Contexts /\ SameTables(b, d) /\ d.pc = b.pc /\ d.end = b.end /\ d.cells = b.cells
      BY <3>1, <3>2 DEF Good, Contexts, SameTables
    <3>4. r = d
      BY <2>1 DEF b
    <3> HIDE DEF d, r
    <3>5. Good(d)
      BY <3>1, <3>3, GoodSame DEF Good, Refers
    <3>6. d.cells \in [Places -> S]
      BY <3>1, <3>3
    <3> QED BY <3>1, <3>3, <3>4, <3>5, <3>6 DEF SameTables
  <2>2. CASE ~(extra > 0)
    BY <2>2 DEF SameTables
  <2> QED BY <2>1, <2>2
<1>3. cells \in [Places -> S]
  <2>1. \A i \in DOMAIN items : items[i] \in S
    BY ElementOfSeq, Domains
  <2> HIDE DEF r, written, array
  <2> QED BY <1>2, <2>1
<1>4. CellsOf(r) = CellsOf(c)
  BY <1>2, Same
<1> HIDE DEF r, cells
<1>5. cells \in [Places -> CellsOf(r)]
  BY <1>3, <1>4
<1> QED BY <1>1, <1>2, <1>3, <1>5, WriteOK DEF SameTables

---------------------------------------------------------------------------
(* Steps.                                                                  *)

LEMMA ExitOK ==
    ASSUME ProgramOK(program)
    PROVE  /\ ExitPc \in Nat \ {0, 1} /\ DOMAIN program.cmds = 1 .. ExitPc
           /\ program.cmds[ExitPc].kind = "exit"
           /\ \A i \in 1 .. ExitPc : OperandOK(program, program.cmds[i])
BY DEF ProgramOK, ExitPc

LEMMA StopOK ==
    ASSUME NEW c, Good(c), NEW end \in {"no", "exit", "crash"}, NEW exit \in IntRange
    PROVE  LET d == [c EXCEPT !.exit = exit, !.end = end]
           IN Good(d) /\ d.pc = c.pc /\ d.end = end
<1> DEFINE d == [c EXCEPT !.exit = exit, !.end = end]
<1>1. /\ d \in Contexts /\ SameTables(c, d) /\ d.cells = c.cells /\ d.pc = c.pc /\ d.end = end
  BY DEF Good, Contexts, SameTables
<1> HIDE DEF d
<1>2. Good(d)
  BY <1>1, GoodSame DEF Good, Refers
<1> QED BY <1>1, <1>2 DEF d

LEMMA CrashOK ==
    ASSUME NEW c, Good(c)
    PROVE  Good(Crash(c)) /\ Crash(c).pc = c.pc /\ Crash(c).end = "crash"
<1> DEFINE d == [c EXCEPT !.end = "crash"]
<1>1. /\ d \in Contexts /\ SameTables(c, d) /\ d.cells = c.cells /\ d.pc = c.pc /\ d.end = "crash"
  BY DEF Good, Contexts, SameTables
<1>2. Crash(c) = d
  BY DEF Crash
<1> HIDE DEF d
<1>3. Good(d)
  BY <1>1, GoodSame DEF Good, Refers
<1> QED BY <1>1, <1>2, <1>3

\* Where a command may leave the machine.
Left(c) == Good(c) /\ c.pc \in 1 .. ExitPc + 1 /\ (c.end = "no" => Fine(c))

LEMMA FineLeft == ASSUME NEW c, Fine(c), ExitPc \in Nat PROVE Left(c)
BY DEF Fine, Left

LEMMA CrashLeft ==
    ASSUME NEW c, Good(c), c.pc \in 1 .. ExitPc + 1
    PROVE  Left(Crash(c))
BY CrashOK DEF Left

LEMMA Executed ==
    ASSUME VmInv, NEW c, Do(c), ctx.top >= Popped => Left(c)
    PROVE  VmInv'
<1>1. Left(ctx') /\ program' = program
  <2>1. CASE ctx.top >= Popped
    BY <2>1 DEF Do
  <2>2. CASE ~(ctx.top >= Popped)
    BY <2>2, CrashLeft DEF Do, VmInv
  <2> QED BY <2>1, <2>2
<1>2. ExitPc' = ExitPc
  BY <1>1 DEF ExitPc
<1>3. ProgramOK(program)'
  BY <1>1 DEF VmInv
<1>4. Good(ctx)'
  BY <1>1, <1>2 DEF Left, Good, Refers
<1>5. (ctx.pc \in 1 .. ExitPc + 1)' /\ (ctx.end = "no" => Fine(ctx))'
  BY <1>1, <1>2, <1>4 DEF Left, Fine
<1> QED BY <1>3, <1>4, <1>5 DEF VmInv

\* What a command that is not the last one finds.
LEMMA Ready ==
    ASSUME VmInv, ctx.end = "no", Current.kind # "exit", ctx.top >= Popped, Popped \in Nat
    PROVE  /\ ExitPc \in Nat \ {0} /\ ProgramOK(program) /\ Good(ctx) /\ Ranges(ctx)
           /\ ctx.pc \in 1 .. ExitPc - 1 /\ ctx.pc + 1 \in 1 .. ExitPc
           /\ Fine(Fetched) /\ SameTables(ctx, Fetched) /\ CellsOf(Fetched) = CellsOf(ctx)
           /\ Fetched.cells = ctx.cells /\ Fetched.pc = ctx.pc + 1 /\ Fetched.end = "no"
           /\ OperandOK(program, Current)
           /\ \A n \in 1 .. Popped : Operand(n) \in CellsOf(ctx)
<1>1. ExitPc \in Nat \ {0} /\ ProgramOK(program) /\ Fine(ctx) /\ Good(ctx)
  BY ExitOK DEF VmInv, Fine
<1>2. /\ ctx.pc \in 1 .. ExitPc - 1 /\ ctx.pc + 1 \in 1 .. ExitPc /\ ctx.pc \in Nat
      /\ OperandOK(program, Current) /\ Ranges(ctx)
  BY <1>1, ExitOK DEF Fine, Current
<1> DEFINE pc == ctx.pc + 1
           top == ctx.top - Popped
           d == [ctx EXCEPT !.pc = pc, !.top = top]
<1>3. top \in 0 .. StackLen /\ ctx.top \in 0 .. StackLen
  BY <1>1, Small DEF Good, Contexts
<1>4. d \in Contexts /\ SameTables(ctx, d) /\ d.cells = ctx.cells /\ d.pc = pc /\ d.end = ctx.end
  <2>1. pc \in Nat
    BY <1>2
  <2> HIDE DEF pc, top
  <2> QED BY <1>1, <1>3, <2>1 DEF Good, Contexts, SameTables
<1>5. Fetched = d
  BY DEF Fetched
<1> HIDE DEF d
<1>6. Good(d) /\ CellsOf(d) = CellsOf(ctx)
  BY <1>1, <1>4, GoodSame, Same DEF Good, Refers
<1>7. Fine(d)
  BY <1>2, <1>4, <1>6, Same DEF Fine
<1>8. ASSUME NEW n \in 1 .. Popped PROVE Operand(n) \in CellsOf(ctx)
  <2>1. ctx.top - Popped + n - 1 \in Places
    BY <1>3, Small DEF Places
  <2> QED BY <1>1, <2>1 DEF Operand, Good, Refers
<1> QED BY <1>1, <1>2, <1>4, <1>5, <1>6, <1>7, <1>8

LEMMA PushIntStep == ASSUME VmInv, PushInt PROVE VmInv'
<1>1. ctx.end = "no" /\ Current.kind = "push_int" /\ Popped = 0
  BY DEF PushInt, At, Popped, Pops
<1>2. ASSUME ctx.top >= Popped PROVE Left(Push(Fetched, IntCell(Current.x)))
  BY <1>1, <1>2, Ready, IntCells, PushFine, FineLeft DEF OperandOK
<1> QED BY <1>2, Executed DEF PushInt

LEMMA FineFrom ==
    ASSUME NEW c, Fine(c), ExitPc \in Nat \ {0},
           NEW d, Good(d), d.pc \in {c.pc, ExitPc}, Ranges(c) => Ranges(d)
    PROVE  Fine(d)
BY DEF Fine

LEMMA PushLeft ==
    ASSUME NEW c, Fine(c), ExitPc \in Nat \ {0}, NEW cell \in CellsOf(c)
    PROVE  Left(Push(c, cell)) /\ Fine(Push(c, cell)) /\ CellsOf(Push(c, cell)) = CellsOf(c)
BY PushFine, FineLeft, Same

LEMMA AbortLeft ==
    ASSUME NEW c, Good(c), ExitPc \in Nat \ {0}
    PROVE  Left(Abort(c))
BY AbortFine, FineLeft

LEMMA PushNewStrLeft ==
    ASSUME NEW c, Fine(c), ExitPc \in Nat \ {0}, NEW s \in Seq(IntRange)
    PROVE  Left(PushNewStr(c, s))
<1> DEFINE d == [c EXCEPT !.strs = Append(@, s)]
<1>1. Fine(d) /\ Cell("str", Len(d.strs)) \in CellsOf(d)
  BY AddStrOK DEF Fine
<1>2. PushNewStr(c, s) = Push(d, Cell("str", Len(d.strs)))
  BY DEF PushNewStr
<1> HIDE DEF d
<1> QED BY <1>1, <1>2, PushLeft

LEMMA PushStrStep == ASSUME VmInv, PushStr PROVE VmInv'
<1>1. ctx.end = "no" /\ Current.kind = "push_str" /\ Popped = 0
  BY DEF PushStr, At, Popped, Pops
<1>2. ASSUME ctx.top >= Popped PROVE Left(PushNewStr(Fetched, DataGet(program.data, Current.x)))
  BY <1>1, <1>2, Ready, PushNewStrLeft DEF OperandOK
<1> QED BY <1>2, Executed DEF PushStr

LEMMA PushArrayStep == ASSUME VmInv, PushArray PROVE VmInv'
<1> DEFINE c == ArrayAdd(Fetched, 0, Current.x)
<1>1. ctx.end = "no" /\ Current.kind = "push_array" /\ Popped = 0
  BY DEF PushArray, At, Popped, Pops
<1>2. ASSUME ctx.top >= Popped PROVE Left(Push(c, Cell("array", Len(c.arrays))))
  <2>1. /\ Fine(Fetched) /\ Good(Fetched) /\ ExitPc \in Nat \ {0} /\ ExitPc \in Nat
        /\ Current.x \in Sizes
    BY <1>1, <1>2, Ready DEF OperandOK, Fine
  <2>2. 0 \in 0 .. Current.x
    BY <2>1, Small DEF Sizes
  <2>3. /\ Good(c) /\ c.pc \in {Fetched.pc, ExitPc} /\ Len(c.arrays) = Len(Fetched.arrays) + 1
        /\ Ranges(Fetched) => Ranges(c)
    BY <2>1, <2>2, ArrayAddOK
  <2> HIDE DEF c
  <2>4. Fine(c)
    BY <2>1, <2>3, FineFrom
  <2>5. Len(c.arrays) \in DOMAIN c.arrays
    BY <2>1, <2>3, Fields, Domains DEF Good
  <2>6. Cell("array", Len(c.arrays)) \in CellsOf(c)
    BY <2>5 DEF Cell, CellsOf, Of
  <2> QED BY <2>1, <2>4, <2>6, PushLeft
<1> QED BY <1>2, Executed DEF PushArray

\* The environment of the running function.
LEMMA FrameEnv ==
    ASSUME Good(ctx), ctx.frames # << >>
    PROVE  Last(ctx.frames).env \in DOMAIN ctx.envs /\ Last(ctx.frames).cmd \in 1 .. ExitPc
<1>1. Len(ctx.frames) \in DOMAIN ctx.frames
  BY Fields, Domains, EmptySeq DEF Good
<1> QED BY <1>1 DEF Last, Good, Refers

LEMMA PushClosureStep == ASSUME VmInv, PushClosure PROVE VmInv'
<1>1. ctx.end = "no" /\ Current.kind = "push_closure" /\ Popped = 0
  BY DEF PushClosure, At, Popped, Pops
<1>2. CASE ctx.frames = << >>
  BY <1>2, CrashLeft, Executed DEF PushClosure, VmInv
<1>3. CASE ctx.frames # << >>
  <2> DEFINE closure == [fun |-> Current.x, env |-> Last(ctx.frames).env]
             c == [Fetched EXCEPT !.closures = Append(@, closure)]
  <2>1. ASSUME ctx.top >= Popped PROVE Left(Push(c, Cell("closure", Len(c.closures))))
    <3>1. /\ Fine(Fetched) /\ ExitPc \in Nat \ {0} /\ Current.x \in DOMAIN program.funs
          /\ Last(ctx.frames).env \in DOMAIN Fetched.envs /\ ProgramOK(program)
      BY <1>1, <1>3, <2>1, Ready, FrameEnv DEF OperandOK, SameTables
    <3>2. Fine(c) /\ Cell("closure", Len(c.closures)) \in CellsOf(c)
      BY <3>1, AddClosureOK
    <3> HIDE DEF c
    <3> QED BY <3>1, <3>2, PushLeft
  <2> QED BY <1>3, <2>1, Executed DEF PushClosure
<1> QED BY <1>2, <1>3

LEMMA PushExternStep == ASSUME VmInv, PushExtern PROVE VmInv'
<1>1. ctx.end = "no" /\ Current.kind = "push_extern" /\ Popped = 0
  BY DEF PushExtern, At, Popped, Pops
<1>2. ASSUME ctx.top >= Popped PROVE Left(Push(Fetched, Cell("extern", Current.x)))
  <2>1. Cell("extern", Current.x) \in CellsOf(Fetched)
    BY <1>1, <1>2, Ready DEF OperandOK, Cell, CellsOf, Of
  <2> QED BY <1>1, <1>2, <2>1, Ready, PushLeft
<1> QED BY <1>2, Executed DEF PushExtern

LEMMA PushEnvStep == ASSUME VmInv, PushEnv PROVE VmInv'
<1>1. ctx.end = "no" /\ Current.kind = "push_env" /\ Popped = 0
  BY DEF PushEnv, At, Popped, Pops
<1>2. CASE ctx.frames = << >>
  BY <1>2, CrashLeft, Executed DEF PushEnv, VmInv
<1>3. CASE ctx.frames # << >>
  <2> DEFINE env == Outward(ctx, Last(ctx.frames).env, Current.x)
             c == IF env \in DOMAIN ctx.envs THEN Push(Fetched, Cell("env", env)) ELSE Crash(ctx)
  <2>1. Do(c)
    BY <1>3 DEF PushEnv
  <2> HIDE DEF env
  <2>2. ASSUME ctx.top >= Popped PROVE Left(c)
    <3>1. CASE env \in DOMAIN ctx.envs
      <4>1. Cell("env", env) \in CellsOf(Fetched)
        BY <1>1, <2>2, <3>1, Ready DEF Cell, CellsOf, Of, SameTables
      <4> QED BY <1>1, <2>2, <3>1, <4>1, Ready, PushLeft
    <3>2. CASE env \notin DOMAIN ctx.envs
      BY <3>2, CrashLeft DEF VmInv
    <3> QED BY <3>1, <3>2
  <2> HIDE DEF c
  <2> QED BY <2>1, <2>2, Executed
<1> QED BY <1>2, <1>3

\* The variables of an environment are in memory.
LEMMA LocalVarStep == ASSUME VmInv, LocalVar PROVE VmInv'
<1>1. ctx.end = "no" /\ Current.kind = "local_var" /\ Popped = 1
  BY DEF LocalVar, At, Popped, Pops
<1>2. CASE Operand(1).ty # "env"
  BY <1>2, CrashLeft, Executed DEF LocalVar, VmInv
<1>3. CASE Operand(1).ty = "env"
  <2> DEFINE a == ctx.envs[Operand(1).val].array
             c == Push(Referred(Fetched, a, Current.x), Cell("cell", ArrayRef(Fetched, a, Current.x)))
  <2>1. Do(c)
    BY <1>3 DEF LocalVar
  <2>2. ASSUME ctx.top >= Popped PROVE Left(c)
    <3>1. /\ Fine(Fetched) /\ Good(Fetched) /\ ExitPc \in Nat \ {0} /\ Current.x \in Int
          /\ SameTables(ctx, Fetched) /\ Operand(1) \in CellsOf(ctx) /\ Good(ctx) /\ Ranges(ctx)
          /\ CellsOf(Fetched) = CellsOf(ctx)
      BY <1>1, <2>2, Ready DEF OperandOK, Fine
    <3>2. Operand(1).val \in DOMAIN ctx.envs
      BY <1>3, <3>1 DEF CellsOf, Of
    <3>3. a \in DOMAIN Fetched.arrays
      BY <3>1, <3>2 DEF Good, Refers, SameTables
    <3> HIDE DEF a
    <3>4. Fetched.arrays[a].l + Fetched.arrays[a].len < CellLen
      BY <3>1, <3>3 DEF Ranges, SameTables
    <3>5. ArrayRef(Fetched, a, Current.x) \in StackLen .. CellLen - 1
      BY <3>1, <3>3, <3>4, ArrayRefOK
    <3>6. Cell("cell", ArrayRef(Fetched, a, Current.x)) \in CellsOf(Fetched)
      BY <3>5 DEF Cell, CellsOf, Of
    <3> QED BY <3>1, <3>6, ReferredFine, Same, PushLeft
  <2> HIDE DEF c
  <2> QED BY <2>1, <2>2, Executed
<1> QED BY <1>2, <1>3

LEMMA CellGetStep == ASSUME VmInv, CellGet PROVE VmInv'
<1> DEFINE c == IF Operand(1).ty = "cell" THEN Push(Fetched, ctx.cells[Operand(1).val])
                ELSE Abort(Fetched)
<1>1. ctx.end = "no" /\ Current.kind = "cell_get" /\ Popped = 1 /\ Do(c)
  BY DEF CellGet, At, Popped, Pops
<1>2. ASSUME ctx.top >= Popped PROVE Left(c)
  <2>1. /\ Fine(Fetched) /\ Good(Fetched) /\ ExitPc \in Nat \ {0} /\ Good(ctx)
        /\ CellsOf(Fetched) = CellsOf(ctx) /\ Operand(1) \in CellsOf(ctx)
    BY <1>1, <1>2, Ready DEF Fine
  <2>2. CASE Operand(1).ty = "cell"
    <3>1. Operand(1).val \in Places
      BY <2>1, <2>2, Small DEF CellsOf, Of, Places
    <3>2. ctx.cells[Operand(1).val] \in CellsOf(Fetched)
      BY <2>1, <3>1 DEF Good, Refers
    <3> QED BY <2>1, <2>2, <3>2, PushLeft
  <2>3. CASE Operand(1).ty # "cell"
    BY <2>1, <2>3, AbortLeft
  <2> QED BY <2>2, <2>3
<1> HIDE DEF c
<1> QED BY <1>1, <1>2, Executed

LEMMA CellSetStep == ASSUME VmInv, CellSet PROVE VmInv'
<1> DEFINE cells == [Fetched.cells EXCEPT ![Operand(1).val] = Operand(2)]
           c == IF Operand(1).ty = "cell"
                THEN Push([Fetched EXCEPT !.cells = cells], Operand(2)) ELSE Abort(Fetched)
<1>1. ctx.end = "no" /\ Current.kind = "cell_set" /\ Popped = 2 /\ Do(c)
  BY DEF CellSet, At, Popped, Pops
<1>2. ASSUME ctx.top >= Popped PROVE Left(c)
  <2>1. /\ Fine(Fetched) /\ Good(Fetched) /\ ExitPc \in Nat \ {0}
        /\ CellsOf(Fetched) = CellsOf(ctx) /\ Operand(2) \in CellsOf(ctx)
    BY <1>1, <1>2, Ready DEF Fine
  <2>2. cells \in [Places -> CellsOf(Fetched)]
    BY <2>1 DEF Good, Refers
  <2> HIDE DEF cells
  <2> DEFINE d == [Fetched EXCEPT !.cells = cells]
  <2>3. Fine(d) /\ SameTables(Fetched, d)
    BY <2>1, <2>2, WriteFine
  <2>4. CASE Operand(1).ty = "cell"
    <3> HIDE DEF d
    <3>1. Left(Push(d, Operand(2)))
      BY <2>1, <2>3, Same, PushLeft
    <3> QED BY <2>4, <3>1 DEF d
  <2>5. CASE Operand(1).ty # "cell"
    BY <2>1, <2>5, AbortLeft
  <2> QED BY <2>4, <2>5
<1> HIDE DEF c
<1> QED BY <1>1, <1>2, Executed

LEMMA LabelStep == ASSUME VmInv, Label PROVE VmInv'
<1>1. ctx.end = "no" /\ Current.kind = "label" /\ Popped = 0 /\ Do(Fetched)
  BY DEF Label, At, Popped, Pops
<1> QED BY <1>1, Ready, FineLeft, Executed

LEMMA PopStep == ASSUME VmInv, Pop PROVE VmInv'
<1>1. ctx.end = "no" /\ Current.kind = "pop" /\ Popped = 1 /\ Do(Fetched)
  BY DEF Pop, At, Popped, Pops
<1> QED BY <1>1, Ready, FineLeft, Executed

\* A jump to a place of the program keeps the context.
LEMMA JumpFine ==
    ASSUME NEW c, Good(c), Ranges(c), ExitPc \in Nat, NEW pc \in 1 .. ExitPc
    PROVE  Fine([c EXCEPT !.pc = pc])
<1> DEFINE d == [c EXCEPT !.pc = pc]
<1>1. pc \in Nat
  OBVIOUS
<1>2. d \in Contexts /\ SameTables(c, d) /\ d.cells = c.cells /\ d.pc = pc
  BY <1>1 DEF Good, Contexts, SameTables
<1> HIDE DEF d
<1>3. Good(d) /\ Ranges(d)
  BY <1>2, GoodSame, Same DEF Good, Refers
<1> QED BY <1>2, <1>3 DEF Fine, d

LEMMA JumpUnlessStep == ASSUME VmInv, JumpUnless PROVE VmInv'
<1> DEFINE c == IF Operand(1).ty # "int" THEN Abort(Fetched)
                ELSE IF Operand(1).val = 0 THEN [Fetched EXCEPT !.pc = program.labels[Current.x]]
                ELSE Fetched
<1>1. ctx.end = "no" /\ Current.kind = "jump_unless" /\ Popped = 1 /\ Do(c)
  BY DEF JumpUnless, At, Popped, Pops
<1>2. ASSUME ctx.top >= Popped PROVE Left(c)
  <2>1. /\ Fine(Fetched) /\ Good(Fetched) /\ ExitPc \in Nat \ {0} /\ ExitPc \in Nat /\ Ranges(ctx)
        /\ SameTables(ctx, Fetched) /\ ProgramOK(program) /\ OperandOK(program, Current)
    BY <1>1, <1>2, Ready DEF Fine
  <2>2. program.labels[Current.x] \in 1 .. ExitPc
    BY <1>1, <2>1, ExitOK DEF OperandOK
  <2>3. Fine([Fetched EXCEPT !.pc = program.labels[Current.x]])
    BY <2>1, <2>2, Same, JumpFine
  <2> QED BY <2>1, <2>3, AbortLeft, FineLeft
<1> HIDE DEF c
<1> QED BY <1>1, <1>2, Executed

LEMMA SwapStep == ASSUME VmInv, Swap PROVE VmInv'
<1> DEFINE c == Push(Push(Fetched, Operand(2)), Operand(1))
<1>1. ctx.end = "no" /\ Current.kind = "swap" /\ Popped = 2 /\ Do(c)
  BY DEF Swap, At, Popped, Pops
<1>2. ASSUME ctx.top >= Popped PROVE Left(c)
  <2>1. /\ Fine(Fetched) /\ ExitPc \in Nat \ {0} /\ CellsOf(Fetched) = CellsOf(ctx)
        /\ Operand(1) \in CellsOf(ctx) /\ Operand(2) \in CellsOf(ctx)
    BY <1>1, <1>2, Ready
  <2> QED BY <2>1, PushLeft
<1> HIDE DEF c
<1> QED BY <1>1, <1>2, Executed

LEMMA DupStep == ASSUME VmInv, Dup PROVE VmInv'
<1> DEFINE c == Push(Push(Fetched, Operand(1)), Operand(1))
<1>1. ctx.end = "no" /\ Current.kind = "dup" /\ Popped = 1 /\ Do(c)
  BY DEF Dup, At, Popped, Pops
<1>2. ASSUME ctx.top >= Popped PROVE Left(c)
  <2>1. /\ Fine(Fetched) /\ ExitPc \in Nat \ {0} /\ CellsOf(Fetched) = CellsOf(ctx)
        /\ Operand(1) \in CellsOf(ctx)
    BY <1>1, <1>2, Ready
  <2> QED BY <2>1, PushLeft
<1> HIDE DEF c
<1> QED BY <1>1, <1>2, Executed

LEMMA ErrStep == ASSUME VmInv, Err PROVE VmInv'
<1>1. ctx.end = "no" /\ Current.kind = "err" /\ Popped = 0 /\ Do(Abort(Fetched))
  BY DEF Err, At, Popped, Pops
<1>2. ASSUME ctx.top >= Popped PROVE Left(Abort(Fetched))
  BY <1>1, <1>2, Ready, AbortLeft DEF Fine
<1> QED BY <1>1, <1>2, Executed

\* The last command: it may come after an error that left an array too long.
LEMMA ExitStep == ASSUME VmInv, Exit PROVE VmInv'
<1> DEFINE pc == ctx.pc + 1
           top == ctx.top - Popped
           d == [ctx EXCEPT !.pc = pc, !.top = top]
           e == [Fetched EXCEPT !.exit = Operand(1).val, !.end = "exit"]
           c == IF Operand(1).ty = "int" THEN e ELSE Abort(Fetched)
<1>1. ctx.end = "no" /\ Current.kind = "exit" /\ Popped = 1 /\ Do(c)
  BY DEF Exit, At, Popped, Pops
<1>2. ASSUME ctx.top >= Popped PROVE Left(c)
  <2>1. /\ Good(ctx) /\ ExitPc \in Nat \ {0} /\ ctx.pc \in 1 .. ExitPc
    BY <1>1, ExitOK DEF VmInv, Fine
  <2>2. top \in 0 .. StackLen /\ ctx.top \in 0 .. StackLen /\ pc \in 1 .. ExitPc + 1 /\ pc \in Nat
    <3>1. ctx.top \in 0 .. StackLen
      BY <2>1, Fields DEF Good
    <3> QED BY <1>1, <1>2, <2>1, <3>1, Small
  <2>3. d \in Contexts /\ SameTables(ctx, d) /\ d.cells = ctx.cells /\ d.pc = pc
    <3> HIDE DEF pc, top
    <3> QED BY <2>1, <2>2 DEF Good, Contexts, SameTables
  <2>4. Fetched = d
    BY DEF Fetched
  <2> HIDE DEF d
  <2>5. Good(d)
    BY <2>1, <2>3, GoodSame DEF Good, Refers
  <2>6. Operand(1) \in CellsOf(ctx)
    <3>1. ctx.top - Popped + 1 - 1 \in Places
      BY <1>1, <2>2, Small DEF Places
    <3> QED BY <2>1, <3>1 DEF Operand, Good, Refers
  <2>7. CASE Operand(1).ty = "int"
    <3>1. Operand(1).val \in IntRange
      BY <2>6, <2>7 DEF CellsOf, Of
    <3>2. Good(e) /\ e.pc = Fetched.pc /\ e.end = "exit"
      <4>1. Good(Fetched) /\ "exit" \in {"no", "exit", "crash"}
        BY <2>4, <2>5
      <4> QED BY <3>1, <4>1, StopOK, Zenon
    <3> HIDE DEF e
    <3>3. c = e
      BY <2>7
    <3> HIDE DEF c, pc
    <3> QED BY <2>2, <2>3, <2>4, <3>2, <3>3 DEF Left
  <2>8. CASE Operand(1).ty # "int"
    BY <2>1, <2>4, <2>5, <2>8, AbortLeft
  <2> QED BY <2>7, <2>8
<1> HIDE DEF c
<1> QED BY <1>1, <1>2, Executed

---------------------------------------------------------------------------
(* Calls.                                                                  *)

LEMMA CurrentOK ==
    ASSUME VmInv, ctx.end = "no"
    PROVE  OperandOK(program, Current) /\ ctx.pc \in 1 .. ExitPc /\ ExitPc \in Nat \ {0}
BY ExitOK DEF VmInv, Fine, Current

LEMMA CallPops ==
    ASSUME VmInv, AtCall
    PROVE  /\ ctx.end = "no" /\ Current.kind = "call" /\ Current.x \in Nat
           /\ Popped = Current.x + 1 /\ Popped \in Nat /\ Current.x \in Sizes
BY CurrentOK DEF AtCall, At, OperandOK, Popped

LEMMA ArgsOK ==
    ASSUME VmInv, AtCall, ctx.top >= Popped
    PROVE  Args \in [1 .. Current.x -> CellsOf(ctx)] /\ Callee \in CellsOf(ctx)
<1>1. \A n \in 1 .. Current.x + 1 : Operand(n) \in CellsOf(ctx)
  BY CallPops, Ready
<1>2. \A i \in 1 .. Current.x : i + 1 \in 1 .. Current.x + 1
  BY CallPops
<1>3. 1 \in 1 .. Current.x + 1
  BY CallPops
<1> QED BY <1>1, <1>2, <1>3 DEF Args, Callee

LEMMA FunctionIsSeq ==
    ASSUME NEW S, NEW n \in Nat, NEW f \in [1 .. n -> S]
    PROVE  f \in Seq(S) /\ Len(f) = n
OBVIOUS

\* A call that enters a function goes on in it, also after an error.
LEMMA EnterFine ==
    ASSUME NEW c, Good(c), Ranges(c), ExitPc \in Nat, NEW cmd \in 1 .. ExitPc,
           NEW env \in DOMAIN c.envs, NEW pc \in 1 .. ExitPc
    PROVE  Fine([c EXCEPT !.frames = Append(@, [cmd |-> cmd, env |-> env, base |-> c.top]), !.pc = pc])
<1> DEFINE frame == [cmd |-> cmd, env |-> env, base |-> c.top]
           frames == Append(c.frames, frame)
           d == [c EXCEPT !.frames = frames, !.pc = pc]
<1>1. c.frames \in Seq(FrameRec) /\ Len(c.frames) \in Nat /\ c.top \in Int /\ DOMAIN c.envs \subseteq Int
      /\ c.envs \in Seq(EnvRec)
  BY Fields, Domains, Small DEF Good
<1>2. frame \in FrameRec /\ frame.cmd = cmd /\ frame.env = env
  BY <1>1, Domains DEF FrameRec
<1>3. /\ frames \in Seq(FrameRec) /\ Len(frames) = Len(c.frames) + 1
      /\ \A i \in 1 .. Len(c.frames) : frames[i] = c.frames[i]
      /\ frames[Len(c.frames) + 1] = frame
      /\ DOMAIN frames = 1 .. Len(c.frames) + 1 /\ DOMAIN c.frames = 1 .. Len(c.frames)
  <2> HIDE DEF frame
  <2> QED BY <1>1, <1>2, AppendProperties, Domains
<1>4. /\ d \in Contexts /\ d.pc = pc /\ d.end = c.end /\ d.heapEnd = c.heapEnd
      /\ d.cells = c.cells /\ d.arrays = c.arrays /\ d.strs = c.strs /\ d.envs = c.envs
      /\ d.closures = c.closures /\ d.frames = frames
  <2>1. pc \in Nat
    OBVIOUS
  <2> HIDE DEF frames
  <2> QED BY <1>3, <2>1 DEF Good, Contexts
<1> HIDE DEF d, frames, frame
<1>5. Good(d)
  <2>1. d.cells \in [Places -> CellsOf(d)]
    BY <1>4, CellsKept DEF Good, Refers
  <2>2. \A f \in DOMAIN d.frames : d.frames[f].env \in DOMAIN d.envs /\ d.frames[f].cmd \in 1 .. ExitPc
    <3>1. \A f \in DOMAIN d.frames : f \in DOMAIN c.frames \/ f = Len(c.frames) + 1
      BY <1>1, <1>3, <1>4
    <3> QED BY <1>2, <1>3, <1>4, <3>1 DEF Good, Refers
  <2> QED BY <1>4, <2>1, <2>2 DEF Good, Refers
<1>6. Fine(d)
  BY <1>4, <1>5 DEF Fine, Ranges
<1> QED BY <1>6 DEF d, frames, frame

LEMMA CallClosureStep == ASSUME VmInv, CallClosure PROVE VmInv'
<1> DEFINE closure == ctx.closures[Callee.val]
           called == EnvAdd(Fetched, closure.env, closure.fun)
           env == Len(called.envs)
           c == SetItems(called, called.envs[env].array, Args)
           cmd == program.funs[closure.fun].cmd
           d == [c EXCEPT !.frames = Append(@, [cmd |-> c.pc, env |-> env, base |-> c.top]), !.pc = cmd]
<1>1. AtCall /\ Callee.ty = "closure" /\ Do(d)
  BY DEF CallClosure
<1>2. ASSUME ctx.top >= Popped PROVE Left(d)
  <2>1. /\ Fine(Fetched) /\ Good(Fetched) /\ ExitPc \in Nat \ {0} /\ ExitPc \in Nat /\ ProgramOK(program)
        /\ Good(ctx) /\ SameTables(ctx, Fetched) /\ Ranges(Fetched) /\ CellsOf(Fetched) = CellsOf(ctx)
        /\ Args \in [1 .. Current.x -> CellsOf(ctx)] /\ Callee \in CellsOf(ctx) /\ Current.x \in Nat
        /\ Fetched.pc \in 1 .. ExitPc
    BY <1>1, <1>2, CallPops, Ready, ArgsOK, Same DEF Fine
  <2>2. Callee.val \in DOMAIN ctx.closures
    BY <1>1, <2>1 DEF CellsOf, Of
  <2>3. closure.env \in DOMAIN Fetched.envs /\ closure.fun \in DOMAIN program.funs
    BY <2>1, <2>2 DEF Good, Refers, SameTables
  <2>4. closure.env \in 0 .. Len(Fetched.envs)
    BY <2>1, <2>3, Fields, Domains DEF Good
  <2> HIDE DEF closure
  <2>5. /\ Good(called) /\ called.pc \in {Fetched.pc, ExitPc} /\ Grown(Fetched, called)
        /\ env \in DOMAIN called.envs /\ Ranges(called)
    BY <2>1, <2>3, <2>4, EnvAddOK
  <2> HIDE DEF called, env
  <2>6. called.envs[env].array \in DOMAIN called.arrays
    BY <2>5 DEF Good, Refers
  <2>7. Args \in Seq(CellsOf(called))
    <3>1. CellsOf(ctx) \subseteq CellsOf(called)
      BY <2>1, <2>5, CellsMore DEF Good
    <3>2. Args \in [1 .. Current.x -> CellsOf(called)]
      BY <2>1, <3>1
    <3> QED BY <2>1, <3>2, FunctionIsSeq
  <2>8. Good(c) /\ SameTables(called, c) /\ c.pc \in {called.pc, ExitPc}
    <3>1. called.cells \in [Places -> CellsOf(called)] /\ IntCell(1) \in CellsOf(called)
      BY <2>5, Small, IntCells DEF Good, Refers
    <3> QED BY <2>1, <2>5, <2>6, <2>7, <3>1, SetItemsOK
  <2>9. cmd \in 1 .. ExitPc
    <3>1. program.funs \in Seq([cmd : DOMAIN program.cmds, len : Sizes])
      BY <2>1 DEF ProgramOK
    <3>2. program.funs[closure.fun] \in [cmd : DOMAIN program.cmds, len : Sizes]
      BY <2>3, <3>1, ElementOfSeq, Domains
    <3> QED BY <2>1, <3>2, ExitOK
  <2> HIDE DEF c, cmd
  <2>10. Ranges(c) /\ env \in DOMAIN c.envs /\ c.pc \in 1 .. ExitPc
    BY <2>1, <2>5, <2>8, Same DEF SameTables
  <2>11. Fine(d)
    BY <2>1, <2>8, <2>9, <2>10, EnterFine
  <2> QED BY <2>1, <2>11, FineLeft
<1> HIDE DEF d
<1> QED BY <1>1, <1>2, Executed

LEMMA CallOtherStep == ASSUME VmInv, CallOther PROVE VmInv'
<1>1. AtCall /\ Do(Abort(Fetched))
  BY DEF CallOther
<1>2. ASSUME ctx.top >= Popped PROVE Left(Abort(Fetched))
  BY <1>1, <1>2, CallPops, Ready, AbortLeft DEF Fine
<1> QED BY <1>1, <1>2, Executed

LEMMA TooManyArgsStep == ASSUME VmInv, TooManyArgs PROVE VmInv'
BY CrashLeft, Executed DEF TooManyArgs, VmInv

LEMMA ReturnStep == ASSUME VmInv, Return PROVE VmInv'
<1>1. ctx.end = "no" /\ Current.kind = "return" /\ Popped = 0 /\ Good(ctx)
  BY DEF Return, At, Popped, Pops, VmInv
<1>2. CASE ctx.frames = << >>
  BY <1>2, CrashLeft, Executed DEF Return, VmInv
<1>3. CASE ctx.frames # << >>
  <2> DEFINE pc == Last(ctx.frames).cmd
             frames == Front(ctx.frames)
             d == [ctx EXCEPT !.pc = pc, !.frames = frames]
  <2>1. Do(d)
    BY <1>3 DEF Return
  <2>2. ASSUME ctx.top >= Popped PROVE Left(d)
    <3>1. Ranges(ctx) /\ ExitPc \in Nat \ {0}
      BY <1>1, <2>2, Ready
    <3>2. pc \in 1 .. ExitPc /\ pc \in Nat
      BY <1>1, <1>3, <3>1, FrameEnv
    <3>3. /\ ctx.frames \in Seq(FrameRec) /\ DOMAIN ctx.frames = 1 .. Len(ctx.frames)
          /\ Len(ctx.frames) \in Nat /\ Len(ctx.frames) # 0
      BY <1>1, <1>3, Fields, Domains, EmptySeq DEF Good
    <3>4. /\ frames \in Seq(FrameRec) /\ DOMAIN frames \subseteq DOMAIN ctx.frames
          /\ \A f \in DOMAIN frames : frames[f] = ctx.frames[f]
      <4>1. 1 \in 1 .. Len(ctx.frames) + 1 /\ Len(ctx.frames) - 1 \in 1 - 1 .. Len(ctx.frames)
        BY <3>3
      <4>2. /\ SubSeq(ctx.frames, 1, Len(ctx.frames) - 1) \in Seq(FrameRec)
            /\ Len(SubSeq(ctx.frames, 1, Len(ctx.frames) - 1)) = Len(ctx.frames) - 1
            /\ \A f \in 1 .. Len(ctx.frames) - 1 :
                  SubSeq(ctx.frames, 1, Len(ctx.frames) - 1)[f] = ctx.frames[f]
        BY <3>3, <4>1, SubSeqProperties
      <4>3. frames = SubSeq(ctx.frames, 1, Len(ctx.frames) - 1)
        BY DEF Front
      <4> HIDE DEF frames
      <4> QED BY <3>3, <4>2, <4>3, Domains
    <3>5. /\ d \in Contexts /\ d.pc = pc /\ d.heapEnd = ctx.heapEnd
          /\ d.cells = ctx.cells /\ d.arrays = ctx.arrays /\ d.strs = ctx.strs /\ d.envs = ctx.envs
          /\ d.closures = ctx.closures /\ d.frames = frames
      <4> HIDE DEF frames, pc
      <4> QED BY <1>1, <3>2, <3>4 DEF Good, Contexts
    <3> HIDE DEF d, frames, pc
    <3>6. d.cells \in [Places -> CellsOf(d)]
      BY <1>1, <3>5, CellsKept DEF Good, Refers
    <3>7. Good(d)
      BY <1>1, <3>4, <3>5, <3>6 DEF Good, Refers
    <3>8. Fine(d)
      BY <3>1, <3>2, <3>5, <3>7 DEF Fine, Ranges
    <3> QED BY <3>1, <3>8, FineLeft
  <2> HIDE DEF d
  <2> QED BY <2>1, <2>2, Executed
<1> QED BY <1>2, <1>3

\* The arguments of a built-in function are cells of the context it is called in, and
\* the cell for its result is in the heap.
LEMMA ArrangedOK ==
    ASSUME VmInv, AtCall, ctx.top >= Popped
    PROVE  /\ Fine(Arranged) /\ Ranges(Arranged) /\ ExitPc \in Nat \ {0} /\ Good(ctx) /\ Ranges(ctx)
           /\ Grown(ctx, Arranged) /\ Arranged.strs = ctx.strs
           /\ CellsOf(ctx) \subseteq CellsOf(Arranged)
           /\ DOMAIN ctx.arrays \subseteq DOMAIN Arranged.arrays
           /\ Arranged.cells \in [Places -> CellsOf(ctx)] /\ ResultCell \in Places
           /\ \A i \in 1 .. Current.x : Arg(i) \in CellsOf(ctx)
<1> DEFINE x == Current.x
           A == ArrayAdd(Fetched, x, x)
           l == AllocatedAt(Fetched, x)
           H == HeapAlloc(A, 1)
           S == CellsOf(ctx)
<1>1. /\ Fine(Fetched) /\ Good(Fetched) /\ ExitPc \in Nat \ {0} /\ ExitPc \in Nat
      /\ Good(ctx) /\ Ranges(ctx) /\ SameTables(ctx, Fetched) /\ Ranges(Fetched)
      /\ CellsOf(Fetched) = S /\ Args \in [1 .. x -> S] /\ Fetched.cells = ctx.cells
      /\ Fetched.pc \in 1 .. ExitPc
  BY CallPops, Ready, ArgsOK, Same DEF Fine
<1>2. x \in Sizes /\ x \in Nat /\ x \in 0 .. x
  BY CallPops
<1>3. IntCell(1) \in S /\ ctx.cells \in [Places -> S] /\ Args \in Seq(S)
  BY <1>1, <1>2, IntCells, Small, FunctionIsSeq DEF Good, Refers
<1> HIDE DEF x, S
<1>4. /\ Good(A) /\ A.pc \in {Fetched.pc, ExitPc} /\ Ranges(A) /\ Grown(Fetched, A)
      /\ A.strs = ctx.strs /\ Len(A.arrays) = Len(ctx.arrays) + 1
      /\ A.arrays[Len(A.arrays)].l = l
      /\ A.cells = HeapAlloc(Fetched, x).cells
  <2>1. /\ Good(A) /\ A.pc \in {Fetched.pc, ExitPc} /\ Ranges(A) /\ Grown(Fetched, A)
        /\ A.strs = Fetched.strs /\ Len(A.arrays) = Len(Fetched.arrays) + 1
        /\ A.arrays[Len(A.arrays)] = [l |-> l, r |-> l + x, len |-> x]
        /\ A.cells = HeapAlloc(Fetched, x).cells
    BY <1>1, <1>2, ArrayAddOK
  <2> HIDE DEF A, l
  <2> QED BY <1>1, <2>1 DEF SameTables
<1>5. l \in StackLen .. CellLen - 1 /\ l + x < CellLen /\ A.cells \in [Places -> S]
  <2> DEFINE h == HeapAlloc(Fetched, x)
  <2>1. /\ Good(h) /\ l \in StackLen .. h.heapEnd /\ l + x < CellLen
        /\ h.cells \in {ctx.cells, [ctx.cells EXCEPT ![0] = IntCell(1)]}
    BY <1>1, <1>2, HeapAllocOK
  <2>2. h.heapEnd \in StackLen .. CellLen - 1
    BY <2>1, Fields DEF Good
  <2> HIDE DEF h, l
  <2>3. h.cells \in [Places -> S]
    BY <1>3, <2>1
  <2> QED BY <1>4, <2>1, <2>2, <2>3, Small DEF h
<1> HIDE DEF A
<1>6. /\ Good(H) /\ H.pc \in {A.pc, ExitPc} /\ H.arrays = A.arrays /\ H.strs = A.strs
      /\ H.envs = A.envs /\ H.closures = A.closures
      /\ AllocatedAt(A, 1) \in StackLen .. H.heapEnd /\ Ranges(H)
      /\ H.cells \in {A.cells, [A.cells EXCEPT ![0] = IntCell(1)]}
  BY <1>1, <1>4, HeapAllocOK, HeapAllocRanges
<1>7. AllocatedAt(A, 1) \in Places /\ H.cells \in [Places -> S]
  <2>1. H.heapEnd \in StackLen .. CellLen - 1
    BY <1>6, Fields DEF Good
  <2> HIDE DEF H
  <2>2. H.cells \in [Places -> S]
    BY <1>3, <1>5, <1>6
  <2> QED BY <1>6, <2>1, <2>2, Small DEF Places
<1> HIDE DEF H
<1>8. Grown(ctx, H) /\ S \subseteq CellsOf(H)
  <2>1. Grown(ctx, H)
    BY <1>1, <1>4, <1>6 DEF Grown, SameTables
  <2> QED BY <1>1, <1>6, <2>1, CellsMore DEF Good, S
<1>9. Len(A.arrays) \in DOMAIN H.arrays /\ Len(A.arrays) = ArgArray
  BY <1>1, <1>4, <1>6, Fields, Domains DEF Good, ArgArray
<1> DEFINE d == SetItems(H, Len(A.arrays), Args)
<1>10. Arranged = d
  BY DEF Arranged, d, H, A, x
<1>11. Good(d) /\ SameTables(H, d) /\ d.pc \in {H.pc, ExitPc} /\ d.cells \in [Places -> S]
  BY <1>1, <1>3, <1>6, <1>7, <1>8, <1>9, SetItemsOK
<1> HIDE DEF d
<1>12. /\ Ranges(d) /\ d.pc \in 1 .. ExitPc /\ Fine(d) /\ CellsOf(d) = CellsOf(H)
  BY <1>1, <1>4, <1>6, <1>11, Same DEF Fine
<1>13. Grown(ctx, d) /\ DOMAIN ctx.arrays \subseteq DOMAIN d.arrays
  <2>1. Grown(ctx, d)
    BY <1>8, <1>11 DEF Grown, SameTables
  <2> QED BY <1>1, <1>11, <2>1, Fields, Domains DEF Good, Grown
<1>14. ASSUME NEW i \in 1 .. Current.x PROVE Arg(i) \in S
  <2>1. Arranged.arrays[ArgArray].l = l
    BY <1>4, <1>6, <1>9, <1>10, <1>11 DEF SameTables
  <2>2. l + i - 1 \in Places
    BY <1>2, <1>5, Small DEF Places, x
  <2>3. Arranged.cells[l + i - 1] \in S
    BY <1>10, <1>11, <2>2
  <2> QED BY <2>1, <2>3 DEF Arg
<1>15. ResultCell \in Places
  BY <1>7 DEF ResultCell, A, x
<1> QED BY <1>1, <1>4, <1>6, <1>8, <1>10, <1>11, <1>12, <1>13, <1>14, <1>15 DEF SameTables, S

LEMMA ResolveFine ==
    ASSUME NEW c, Fine(c), NEW cell \in CellsOf(c)
    PROVE  Fine(Resolve(c, cell))
<1> DEFINE cells == [c.cells EXCEPT ![ResultCell] = cell]
<1>1. cells \in [Places -> CellsOf(c)]
  BY DEF Fine, Good, Refers
<1>2. Resolve(c, cell) = [c EXCEPT !.cells = cells]
  BY DEF Resolve
<1> HIDE DEF cells
<1> QED BY <1>1, <1>2, WriteFine

LEMMA FinishLeft ==
    ASSUME NEW c, Fine(c), ExitPc \in Nat \ {0}, ResultCell \in Places
    PROVE  Left(Finish(c))
BY PushLeft DEF Finish, Fine, Good, Refers

LEMMA AssertionStep == ASSUME VmInv, Assertion PROVE VmInv'
<1> DEFINE c == IF Takes(<<"int">>) /\ Arg(1).val # 0 THEN Finish(Arranged) ELSE Abort(Arranged)
<1>1. AtCall /\ Do(c)
  BY DEF Assertion, Builtin
<1>2. ASSUME ctx.top >= Popped PROVE Left(c)
  BY <1>1, <1>2, ArrangedOK, FinishLeft, AbortLeft DEF Fine
<1> HIDE DEF c
<1> QED BY <1>1, <1>2, Executed

LEMMA ValTypeStep == ASSUME VmInv, ValType PROVE VmInv'
<1> DEFINE n == TypeNumber[Arg(1).ty]
           c == IF Takes(<<"any">>) THEN Finish(Resolve(Arranged, IntCell(n))) ELSE Abort(Arranged)
<1>1. AtCall /\ Do(c)
  BY DEF ValType, Builtin
<1>2. ASSUME ctx.top >= Popped PROVE Left(c)
  <2>1. CASE Takes(<<"any">>)
    <3>1. Arg(1) \in CellRec
      BY <1>1, <1>2, <2>1, ArrangedOK, CellTyped DEF Takes, Good
    <3>2. n \in 0 .. 7
      BY <3>1 DEF CellRec, TypeNames, TypeNumber
    <3>3. n \in IntRange
      BY <3>2, Small
    <3> HIDE DEF n
    <3>4. Fine(Resolve(Arranged, IntCell(n)))
      BY <1>1, <1>2, <3>3, ArrangedOK, IntCells, ResolveFine
    <3> QED BY <1>1, <1>2, <2>1, <3>4, ArrangedOK, FinishLeft
  <2>2. CASE ~Takes(<<"any">>)
    BY <1>1, <1>2, <2>2, ArrangedOK, AbortLeft DEF Fine
  <2> QED BY <2>1, <2>2
<1> HIDE DEF c
<1> QED BY <1>1, <1>2, Executed

LEMMA StrSliceStep == ASSUME VmInv, StrSlice PROVE VmInv'
<1>0. AtCall
  BY DEF StrSlice, Builtin
<1>1. CASE ~Takes(<<"str", "int", "int">>)
  <2>1. ASSUME ctx.top >= Popped PROVE Left(Abort(Arranged))
    BY <1>0, <2>1, ArrangedOK, AbortLeft DEF Fine
  <2> QED BY <1>1, <2>1, Executed DEF StrSlice
<1>2. CASE Takes(<<"str", "int", "int">>)
  <2> DEFINE s == ctx.strs[Arg(1).val]
             l == Max({Arg(2).val, 0})
             r == Min({Arg(3).val, Len(s)})
             slice == SubSeq(s, l + 1, r)
             c == [Arranged EXCEPT !.strs = Append(@, slice)]
             d == IF l > r THEN Crash(ctx) ELSE Finish(Resolve(c, Cell("str", Len(c.strs))))
  <2>1. Do(d)
    BY <1>2 DEF StrSlice
  <2>2. ASSUME ctx.top >= Popped PROVE Left(d)
    <3>1. CASE l > r
      BY <3>1, CrashLeft DEF VmInv
    <3>2. CASE ~(l > r)
      <4>1. /\ Arg(1) \in CellsOf(ctx) /\ Arg(2) \in CellsOf(ctx) /\ Arg(3) \in CellsOf(ctx)
            /\ Arg(1).ty = "str" /\ Arg(2).ty = "int" /\ Arg(3).ty = "int"
        BY <1>0, <1>2, <2>2, ArrangedOK DEF Takes
      <4>2. Arg(1).val \in DOMAIN ctx.strs /\ Arg(2).val \in Int /\ Arg(3).val \in Int
        BY <4>1, Small DEF CellsOf, Of
      <4>3. s \in Seq(IntRange) /\ Len(s) \in Nat
        BY <1>0, <2>2, <4>2, ArrangedOK, Fields, ElementOfSeq, Domains DEF Good
      <4>4. l >= 0 /\ l \in Int
        BY <4>2 DEF Max
      <4>5. r <= Len(s) /\ r \in Int
        BY <4>2, <4>3 DEF Min
      <4> HIDE DEF s, l, r
      <4>6. l + 1 \in 1 .. Len(s) + 1 /\ r \in l + 1 - 1 .. Len(s)
        BY <3>2, <4>3, <4>4, <4>5
      <4>7. slice \in Seq(IntRange)
        BY <4>3, <4>6, SubSeqProperties
      <4> HIDE DEF slice
      <4>8. Fine(c) /\ Cell("str", Len(c.strs)) \in CellsOf(c)
        BY <1>0, <2>2, <4>7, ArrangedOK, AddStrOK DEF Fine
      <4> HIDE DEF c
      <4> QED BY <1>0, <2>2, <3>2, <4>8, ArrangedOK, ResolveFine, FinishLeft
    <3> QED BY <3>1, <3>2
  <2> HIDE DEF d
  <2> QED BY <2>1, <2>2, Executed
<1> QED BY <1>1, <1>2

LEMMA ArrayLenStep == ASSUME VmInv, ArrayLen PROVE VmInv'
<1> DEFINE n == ctx.arrays[Arg(1).val].len
           c == IF Takes(<<"array">>) THEN Finish(Resolve(Arranged, IntCell(n))) ELSE Abort(Arranged)
<1>1. AtCall /\ Do(c)
  BY DEF ArrayLen, Builtin
<1>2. ASSUME ctx.top >= Popped PROVE Left(c)
  <2>1. CASE Takes(<<"array">>)
    <3>1. Arg(1) \in CellsOf(ctx) /\ Arg(1).ty = "array"
      BY <1>1, <1>2, <2>1, ArrangedOK DEF Takes
    <3>2. Arg(1).val \in DOMAIN ctx.arrays
      BY <3>1 DEF CellsOf, Of
    <3>3. ctx.arrays[Arg(1).val] \in ArrayRec
      BY <1>1, <1>2, <3>2, ArrangedOK, EachArray
    <3>4. n \in IntRange
      BY <1>1, <1>2, <3>2, <3>3, ArrangedOK, Small DEF ArrayRec, Ranges, IntRange
    <3> HIDE DEF n
    <3>5. Fine(Resolve(Arranged, IntCell(n)))
      BY <1>1, <1>2, <3>4, ArrangedOK, IntCells, ResolveFine
    <3> QED BY <1>1, <1>2, <2>1, <3>5, ArrangedOK, FinishLeft
  <2>2. CASE ~Takes(<<"array">>)
    BY <1>1, <1>2, <2>2, ArrangedOK, AbortLeft DEF Fine
  <2> QED BY <2>1, <2>2
<1> HIDE DEF c
<1> QED BY <1>1, <1>2, Executed

LEMMA CallArrayPushStep == ASSUME VmInv, CallArrayPush PROVE VmInv'
<1> DEFINE c == IF Takes(<<"array", "any">>) THEN Finish(ArrayPush(Arranged, Arg(1).val, Arg(2)))
                ELSE Abort(Arranged)
<1>1. AtCall /\ Do(c)
  BY DEF CallArrayPush, Builtin
<1>2. ASSUME ctx.top >= Popped PROVE Left(c)
  <2>1. CASE Takes(<<"array", "any">>)
    <3>1. Arg(1) \in CellsOf(ctx) /\ Arg(1).ty = "array" /\ Arg(2) \in CellsOf(ctx)
      BY <1>1, <1>2, <2>1, ArrangedOK DEF Takes
    <3>2. Arg(1).val \in DOMAIN ctx.arrays
      BY <3>1 DEF CellsOf, Of
    <3>3. Fine(ArrayPush(Arranged, Arg(1).val, Arg(2)))
      BY <1>1, <1>2, <3>1, <3>2, ArrangedOK, ArrayPushOK
    <3> QED BY <1>1, <1>2, <2>1, <3>3, ArrangedOK, FinishLeft
  <2>2. CASE ~Takes(<<"array", "any">>)
    BY <1>1, <1>2, <2>2, ArrangedOK, AbortLeft DEF Fine
  <2> QED BY <2>1, <2>2
<1> HIDE DEF c
<1> QED BY <1>1, <1>2, Executed

LEMMA ArrayPopStep == ASSUME VmInv, ArrayPop PROVE VmInv'
<1> DEFINE a == Arg(1).val
           len == Arranged.arrays[a].len
           n == IF len > 0 THEN len - 1 ELSE 0
           d == SetLen(Arranged, a, n)
           c == IF Takes(<<"array">>) THEN Finish(d) ELSE Abort(Arranged)
<1>1. AtCall /\ Do(c)
  BY DEF ArrayPop, Builtin
<1>2. ASSUME ctx.top >= Popped PROVE Left(c)
  <2>1. CASE Takes(<<"array">>)
    <3>1. Arg(1) \in CellsOf(ctx) /\ Arg(1).ty = "array"
      BY <1>1, <1>2, <2>1, ArrangedOK DEF Takes
    <3>2. a \in DOMAIN Arranged.arrays /\ Good(Arranged)
      BY <1>1, <1>2, <3>1, ArrangedOK DEF CellsOf, Of, Fine
    <3>3. Arranged.arrays[a] \in ArrayRec
      BY <3>2, EachArray
    <3>4. n \in Nat /\ Arranged.arrays[a].l + n < CellLen
      BY <1>1, <1>2, <3>2, <3>3, ArrangedOK, Small DEF ArrayRec, Ranges
    <3> HIDE DEF n
    <3>5. Good(d) /\ d.pc = Arranged.pc /\ Ranges(d)
      BY <1>1, <1>2, <3>2, <3>4, ArrangedOK, SetLenOK
    <3> HIDE DEF d
    <3>6. Fine(d)
      BY <1>1, <1>2, <3>5, ArrangedOK DEF Fine
    <3> QED BY <1>1, <1>2, <2>1, <3>6, ArrangedOK, FinishLeft
  <2>2. CASE ~Takes(<<"array">>)
    BY <1>1, <1>2, <2>2, ArrangedOK, AbortLeft DEF Fine
  <2> QED BY <2>1, <2>2
<1> HIDE DEF c
<1> QED BY <1>1, <1>2, Executed

LEMMA StdinToStrStep == ASSUME VmInv, StdinToStr PROVE VmInv'
<1> DEFINE c == [Arranged EXCEPT !.strs = Append(@, Input)]
           d == IF Takes(<< >>) THEN Finish(Resolve(c, Cell("str", Len(c.strs)))) ELSE Abort(Arranged)
<1>1. AtCall /\ Do(d)
  BY DEF StdinToStr, Builtin
<1>2. ASSUME ctx.top >= Popped PROVE Left(d)
  <2>1. Fine(c) /\ Cell("str", Len(c.strs)) \in CellsOf(c)
    BY <1>1, <1>2, ArrangedOK, AddStrOK, ProgramsAssumption DEF Fine
  <2> HIDE DEF c
  <2> QED BY <1>1, <1>2, <2>1, ArrangedOK, ResolveFine, FinishLeft, AbortLeft DEF Fine
<1> HIDE DEF d
<1> QED BY <1>1, <1>2, Executed

---------------------------------------------------------------------------
(* Operators.                                                              *)

\* What an operator finds.
LEMMA OperandsOK ==
    ASSUME VmInv, NEW op, AtOp(op), ctx.top >= Popped
    PROVE  /\ Fine(Fetched) /\ Good(Fetched) /\ ExitPc \in Nat \ {0}
           /\ Good(ctx) /\ Ranges(ctx) /\ SameTables(ctx, Fetched) /\ Fetched.pc \in 1 .. ExitPc
           /\ CellsOf(Fetched) = CellsOf(ctx)
           /\ Operand(1) \in CellsOf(ctx) /\ Operand(2) \in CellsOf(ctx)
<1>1. ctx.end = "no" /\ Current.kind = "op" /\ Popped = 2
  BY DEF AtOp, At, Popped, Pops
<1> QED BY <1>1, Ready DEF Fine

LEMMA BoolCells == ASSUME NEW c, NEW b PROVE BoolCell(b) \in CellsOf(c)
BY IntCells, Small DEF BoolCell

LEMMA CompareStep ==
    ASSUME VmInv, NEW op, AtOp(op), NEW strs, NEW ints, NEW types, Compare(strs, ints, types)
    PROVE  VmInv'
<1> DEFINE c == IF Operand(1).ty # Operand(2).ty THEN Push(Fetched, BoolCell(types))
                ELSE IF Ints THEN Push(Fetched, BoolCell(ints))
                ELSE IF Strs THEN Push(Fetched, BoolCell(strs))
                ELSE Abort(Fetched)
<1>1. Do(c)
  BY DEF Compare
<1>2. ASSUME ctx.top >= Popped PROVE Left(c)
  BY <1>2, OperandsOK, BoolCells, PushLeft, AbortLeft
<1> HIDE DEF c
<1> QED BY <1>1, <1>2, Executed

LEMMA OpEqStep == ASSUME VmInv, OpEq PROVE VmInv'
BY CompareStep DEF OpEq

LEMMA OpLtStep == ASSUME VmInv, OpLt PROVE VmInv'
BY CompareStep DEF OpLt

\* The string, array and number that an operator was given.
LEMMA StrOperand ==
    ASSUME Good(ctx), NEW n, Operand(n) \in CellsOf(ctx), Operand(n).ty = "str"
    PROVE  ctx.strs[Operand(n).val] \in Seq(IntRange)
<1>1. Operand(n).val \in DOMAIN ctx.strs
  BY DEF CellsOf, Of
<1> QED BY <1>1, Fields, ElementOfSeq, Domains DEF Good

LEMMA ArrayOperand ==
    ASSUME VmInv, NEW op, AtOp(op), ctx.top >= Popped, Types = <<"array", "int">>
    PROVE  ArrayRef(Fetched, L, R) \in StackLen .. CellLen - 1
<1>1. /\ Good(Fetched) /\ SameTables(ctx, Fetched) /\ Ranges(ctx)
      /\ Operand(1) \in CellsOf(ctx) /\ Operand(2) \in CellsOf(ctx)
      /\ Operand(1).ty = "array" /\ Operand(2).ty = "int"
  BY OperandsOK DEF Types
<1>2. L \in DOMAIN ctx.arrays /\ R \in Int
  BY <1>1, Small DEF CellsOf, Of, L, R
<1> QED BY <1>1, <1>2, ArrayRefOK DEF SameTables, Ranges

LEMMA OpIndexStep == ASSUME VmInv, OpIndex PROVE VmInv'
<1> DEFINE s == ctx.strs[L]
           char == IF R \in 0 .. Len(s) - 1 THEN s[R + 1] ELSE 0
           r == Referred(Fetched, L, R)
           c == IF Types = <<"str", "int">> THEN Push(Fetched, IntCell(char))
                ELSE IF Types = <<"array", "int">> THEN Push(r, r.cells[ArrayRef(Fetched, L, R)])
                ELSE Abort(Fetched)
<1>1. AtOp("index") /\ Do(c)
  BY DEF OpIndex
<1>2. ASSUME ctx.top >= Popped PROVE Left(c)
  <2>1. CASE Types = <<"str", "int">>
    <3>1. s \in Seq(IntRange)
      BY <1>1, <1>2, <2>1, OperandsOK, StrOperand DEF Types, L
    <3>2. R \in Int
      <4>1. Operand(2) \in CellsOf(ctx) /\ Operand(2).ty = "int"
        BY <1>1, <1>2, <2>1, OperandsOK DEF Types
      <4> QED BY <4>1, Small DEF CellsOf, Of, R
    <3> HIDE DEF s
    <3>3. char \in IntRange
      <4>1. CASE R \in 0 .. Len(s) - 1
        <5>1. R + 1 \in 1 .. Len(s)
          BY <3>1, <3>2, <4>1, Domains
        <5>2. s[R + 1] \in IntRange
          BY <3>1, <5>1, ElementOfSeq
        <5> QED BY <4>1, <5>2
      <4>2. CASE ~(R \in 0 .. Len(s) - 1)
        BY <4>2, Small
      <4> QED BY <4>1, <4>2
    <3> HIDE DEF char
    <3> QED BY <1>1, <1>2, <2>1, <3>3, OperandsOK, IntCells, PushLeft
  <2>2. CASE Types = <<"array", "int">>
    <3>1. Fine(r)
      BY <1>1, <1>2, OperandsOK, ReferredFine
    <3>2. ArrayRef(Fetched, L, R) \in Places
      BY <1>1, <1>2, <2>2, ArrayOperand, Small DEF Places
    <3> HIDE DEF r
    <3>3. r.cells[ArrayRef(Fetched, L, R)] \in CellsOf(r)
      BY <3>1, <3>2 DEF Fine, Good, Refers
    <3>4. Left(Push(r, r.cells[ArrayRef(Fetched, L, R)]))
      BY <1>1, <1>2, <3>1, <3>3, OperandsOK, PushLeft
    <3> QED BY <2>2, <3>4
  <2>3. CASE Types \notin {<<"str", "int">>, <<"array", "int">>}
    BY <1>1, <1>2, <2>3, OperandsOK, AbortLeft
  <2> QED BY <2>1, <2>2, <2>3
<1> HIDE DEF c
<1> QED BY <1>1, <1>2, Executed

LEMMA OpIndexRefStep == ASSUME VmInv, OpIndexRef PROVE VmInv'
<1> DEFINE c == IF Types = <<"array", "int">>
                THEN Push(Referred(Fetched, L, R), Cell("cell", ArrayRef(Fetched, L, R)))
                ELSE IF Operand(1).ty # Operand(2).ty THEN Abort(Abort(Fetched))
                ELSE Crash(Abort(Fetched))
<1>1. AtOp("index_ref") /\ Do(c)
  BY DEF OpIndexRef
<1>2. ASSUME ctx.top >= Popped PROVE Left(c)
  <2>1. CASE Types = <<"array", "int">>
    <3>1. Fine(Referred(Fetched, L, R)) /\ CellsOf(Referred(Fetched, L, R)) = CellsOf(ctx)
      BY <1>1, <1>2, OperandsOK, ReferredFine, Same
    <3>2. Cell("cell", ArrayRef(Fetched, L, R)) \in CellsOf(ctx)
      BY <1>1, <1>2, <2>1, ArrayOperand DEF Cell, CellsOf, Of
    <3> QED BY <1>1, <1>2, <2>1, <3>1, <3>2, OperandsOK, PushLeft
  <2>2. CASE Types # <<"array", "int">>
    <3>1. Fine(Abort(Fetched)) /\ ExitPc \in Nat \ {0}
      BY <1>1, <1>2, OperandsOK, AbortFine
    <3>2. Left(Abort(Abort(Fetched)))
      BY <3>1, AbortLeft DEF Fine
    <3>3. Left(Crash(Abort(Fetched)))
      BY <3>1, CrashLeft DEF Fine
    <3> QED BY <2>2, <3>2, <3>3
  <2> QED BY <2>1, <2>2
<1> HIDE DEF c
<1> QED BY <1>1, <1>2, Executed

LEMMA OpArrayPushStep == ASSUME VmInv, OpArrayPush PROVE VmInv'
<1> DEFINE d == ArrayPush(Fetched, L, Operand(2))
           c == IF Operand(1).ty # "array" THEN Crash(ctx) ELSE Push(d, Operand(1))
<1>1. AtOp("array_push") /\ Do(c)
  BY DEF OpArrayPush
<1>2. ASSUME ctx.top >= Popped PROVE Left(c)
  <2>1. CASE Operand(1).ty = "array"
    <3>1. L \in DOMAIN Fetched.arrays
      BY <1>1, <1>2, <2>1, OperandsOK DEF CellsOf, Of, L, SameTables
    <3>2. Fine(d) /\ CellsOf(d) = CellsOf(Fetched)
      BY <1>1, <1>2, <3>1, OperandsOK, ArrayPushOK
    <3> HIDE DEF d
    <3> QED BY <1>1, <1>2, <2>1, <3>2, OperandsOK, PushLeft
  <2>2. CASE Operand(1).ty # "array"
    BY <2>2, CrashLeft DEF VmInv
  <2> QED BY <2>1, <2>2
<1> HIDE DEF c
<1> QED BY <1>1, <1>2, Executed

\* A wrapped result is an int, whatever the exact one is.
LEMMA WrappedOK == ASSUME NEW n \in Int PROVE Wrapped(n) \in IntRange
<1> DEFINE w == 2 * (IntMax + 1)
           m == (n + IntMax + 1) % w
<1>1. w \in Nat \ {0} /\ n + IntMax + 1 \in Int
  OBVIOUS
<1>2. m \in 0 .. w - 1
  <2> HIDE DEF w
  <2> QED BY <1>1
<1>3. Wrapped(n) = m - (IntMax + 1)
  BY DEF Wrapped
<1> HIDE DEF m
<1> QED BY <1>2, <1>3 DEF IntRange

LEMMA DivMod ==
    ASSUME NEW a \in Nat, NEW b \in Nat \ {0}
    PROVE  a \div b \in Nat /\ a % b \in 0 .. b - 1 /\ a = (b * (a \div b)) + (a % b)
<1>1. a \div b \in Int /\ a % b \in 0 .. b - 1
  OBVIOUS
<1>2. a = (b * (a \div b)) + (a % b)
  OBVIOUS
<1>3. a \div b >= 0
  BY Z3
<1> QED BY <1>1, <1>2, <1>3

\* A quotient that is not too great is an int, and so is the remainder.
LEMMA QuotientOK ==
    ASSUME NEW n \in IntRange, NEW d \in IntRange, d # 0
    PROVE  /\ Quotient(n, d) \in -(IntMax + 1) .. IntMax + 1
           /\ n - Quotient(n, d) * d \in IntRange
<1> DEFINE q == Abs(n) \div Abs(d)
           rem == Abs(n) % Abs(d)
<1>1. /\ n \in Int /\ d \in Int /\ Abs(n) \in 0 .. IntMax + 1 /\ Abs(d) \in 1 .. IntMax + 1
  BY DEF Abs, IntRange
<1>2. q \in Nat /\ rem \in 0 .. Abs(d) - 1 /\ Abs(n) = Abs(d) * q + rem
  <2>1. Abs(n) \in Nat /\ Abs(d) \in Nat \ {0}
    BY <1>1
  <2> QED BY <2>1, DivMod
<1>3. q <= Abs(n)
  <2>1. CASE q = 0
    BY <1>1, <2>1
  <2>2. CASE q > 0
    <3> HIDE DEF q, rem
    <3>1. Abs(d) * q >= q
      BY <1>1, <1>2
    <3> QED BY <1>1, <1>2, <3>1
  <2> QED BY <1>2, <2>1, <2>2
<1>4. Quotient(n, d) = (IF (n < 0) # (d < 0) THEN -1 ELSE 1) * q
  BY DEF Quotient
<1> HIDE DEF q, rem
<1>5. n - Quotient(n, d) * d = IF n < 0 THEN -rem ELSE rem
  BY <1>1, <1>2, <1>4 DEF Abs
<1> QED BY <1>1, <1>2, <1>3, <1>4, <1>5 DEF IntRange

LEMMA IntOperands ==
    ASSUME VmInv, NEW op, AtOp(op), ctx.top >= Popped, Ints
    PROVE  L \in IntRange /\ R \in IntRange /\ L \in Int /\ R \in Int
<1>1. /\ Operand(1) \in CellsOf(ctx) /\ Operand(2) \in CellsOf(ctx)
      /\ Operand(1).ty = "int" /\ Operand(2).ty = "int"
  BY OperandsOK DEF Ints, Types
<1> QED BY <1>1, Small DEF CellsOf, Of, L, R

LEMMA OpAddStep == ASSUME VmInv, OpAdd PROVE VmInv'
<1> DEFINE c == IF Ints THEN Push(Fetched, IntCell(Wrapped(L + R)))
                ELSE IF Strs THEN PushNewStr(Fetched, ctx.strs[L] \o ctx.strs[R])
                ELSE Abort(Fetched)
<1>1. AtOp("add") /\ Do(c)
  BY DEF OpAdd
<1>2. ASSUME ctx.top >= Popped PROVE Left(c)
  <2>1. CASE Ints
    <3>1. Wrapped(L + R) \in IntRange
      BY <1>1, <1>2, <2>1, IntOperands, WrappedOK
    <3> QED BY <1>1, <1>2, <2>1, <3>1, OperandsOK, IntCells, PushLeft
  <2>2. CASE ~Ints /\ Strs
    <3>1. ctx.strs[L] \in Seq(IntRange) /\ ctx.strs[R] \in Seq(IntRange)
      BY <1>1, <1>2, <2>2, OperandsOK, StrOperand DEF Strs, Types, L, R
    <3>2. ctx.strs[L] \o ctx.strs[R] \in Seq(IntRange)
      BY <3>1, ConcatProperties
    <3> QED BY <1>1, <1>2, <2>2, <3>2, OperandsOK, PushNewStrLeft
  <2>3. CASE ~Ints /\ ~Strs
    BY <1>1, <1>2, <2>3, OperandsOK, AbortLeft
  <2> QED BY <2>1, <2>2, <2>3
<1> HIDE DEF c
<1> QED BY <1>1, <1>2, Executed

LEMMA OpArithStep == ASSUME VmInv, OpArith PROVE VmInv'
<1> DEFINE n == CASE Current.x = "sub" -> Wrapped(L - R)
                  [] Current.x = "mul" -> Wrapped(L * R)
                  [] Current.x = "div" -> Quotient(L, R)
                  [] Current.x = "mod" -> L - Quotient(L, R) * R
           c == IF ~Ints THEN Abort(Fetched)
                ELSE IF Current.x \in {"div", "mod"} /\ NoQuotient THEN Crash(ctx)
                ELSE Push(Fetched, IntCell(n))
<1>1. PICK op \in {"sub", "mul", "div", "mod"} : AtOp(op)
  BY DEF OpArith
<1>2. Do(c)
  BY DEF OpArith
<1>3. ASSUME ctx.top >= Popped PROVE Left(c)
  <2>1. CASE ~Ints
    BY <1>1, <1>3, <2>1, OperandsOK, AbortLeft
  <2>2. CASE Ints /\ Current.x \in {"div", "mod"} /\ NoQuotient
    BY <2>2, CrashLeft DEF VmInv
  <2>3. CASE Ints /\ ~(Current.x \in {"div", "mod"} /\ NoQuotient)
    <3>1. L \in IntRange /\ R \in IntRange /\ L - R \in Int /\ L * R \in Int
      BY <1>1, <1>3, <2>3, IntOperands
    <3>2. CASE Current.x = "sub"
      <4>1. n = Wrapped(L - R)
        BY <3>2
      <4> QED BY <1>1, <1>3, <2>3, <3>1, <4>1, WrappedOK, OperandsOK, IntCells, PushLeft
    <3>3. CASE Current.x = "mul"
      <4>1. n = Wrapped(L * R)
        BY <3>3
      <4> QED BY <1>1, <1>3, <2>3, <3>1, <4>1, WrappedOK, OperandsOK, IntCells, PushLeft
    <3>4. CASE Current.x = "div"
      <4>1. n = Quotient(L, R) /\ R # 0 /\ ~(Quotient(L, R) > IntMax)
        BY <2>3, <3>4 DEF NoQuotient
      <4>2. Quotient(L, R) \in IntRange
        BY <3>1, <4>1, QuotientOK DEF IntRange
      <4>3. n \in IntRange
        BY <4>1, <4>2
      <4> QED BY <1>1, <1>3, <2>3, <4>3, OperandsOK, IntCells, PushLeft
    <3>5. CASE Current.x = "mod"
      <4>1. n = L - Quotient(L, R) * R /\ R # 0
        BY <2>3, <3>5 DEF NoQuotient
      <4>2. n \in IntRange
        BY <3>1, <4>1, QuotientOK
      <4> QED BY <1>1, <1>3, <2>3, <4>2, OperandsOK, IntCells, PushLeft
    <3> QED BY <1>1, <3>2, <3>3, <3>4, <3>5 DEF AtOp
  <2> QED BY <2>1, <2>2, <2>3
<1> HIDE DEF c
<1> QED BY <1>2, <1>3, Executed

---------------------------------------------------------------------------
(* Theorems.                                                               *)

\* The machine begins in the global function, with its environment.
LEMMA Begins == ASSUME Init PROVE VmInv
<1> DEFINE end == IF program.ok THEN "no" ELSE "crash"
           cells == [i \in 0 .. CellLen - 1 |-> Fresh]
           c == [cells |-> cells, top |-> 0, heapEnd |-> StackLen,
                 arrays |-> << >>, strs |-> << >>, envs |-> << >>, closures |-> << >>,
                 frames |-> << >>, pc |-> 2, errs |-> 0, exit |-> 1, end |-> end]
           d == EnvAdd(c, 0, Len(program.funs))
           frames == <<[cmd |-> ExitPc, env |-> 1, base |-> 0]>>
           e == [d EXCEPT !.frames = frames]
<1>1. ProgramOK(program) /\ ctx = e
  BY ProgramsAssumption DEF Init
<1>2. ExitPc \in Nat \ {0, 1} /\ 2 \in 1 .. ExitPc /\ ExitPc \in 1 .. ExitPc
  BY <1>1, ExitOK
<1>3. Len(program.funs) \in DOMAIN program.funs
  BY <1>1, Domains, EmptySeq DEF ProgramOK
<1>4. Good(c) /\ Ranges(c)
  <2>1. end \in {"no", "exit", "crash"}
    OBVIOUS
  <2>2. /\ << >> \in Seq(ArrayRec) /\ << >> \in Seq(Seq(IntRange)) /\ << >> \in Seq(EnvRec)
        /\ << >> \in Seq(ClosureRec) /\ << >> \in Seq(FrameRec)
    BY EmptySeq
  <2>3. cells \in [Places -> CellsOf(c)] /\ cells \in [Places -> CellRec]
    <3>1. Fresh \in CellsOf(c)
      BY DEF Fresh, Cell, CellsOf, Of
    <3>2. Fresh \in CellRec
      BY DEF Fresh, Cell, CellRec, TypeNames
    <3> QED BY <3>1, <3>2 DEF Places
  <2> HIDE DEF end, cells
  <2>4. c \in Contexts
    BY <2>1, <2>2, <2>3, Small DEF Contexts
  <2> QED BY <2>3, <2>4 DEF Good, Refers, Ranges
<1>5. c.envs = << >> /\ c.pc = 2 /\ Len(c.envs) = 0
  OBVIOUS
<1> HIDE DEF c
<1>6. /\ Good(d) /\ d.pc \in {c.pc, ExitPc} /\ Len(d.envs) \in DOMAIN d.envs /\ Ranges(d)
  <2>1. 0 \in 0 .. Len(c.envs)
    BY <1>5
  <2> QED BY <1>1, <1>2, <1>3, <1>4, <2>1, EnvAddOK
<1> HIDE DEF d
<1>7. 1 \in DOMAIN d.envs
  BY <1>6, Fields, Domains DEF Good
<1>8. /\ frames \in Seq(FrameRec) /\ DOMAIN frames = {1} /\ frames[1].env = 1
      /\ frames[1].cmd = ExitPc
  <2>1. [cmd |-> ExitPc, env |-> 1, base |-> 0] \in FrameRec
    BY <1>2 DEF FrameRec
  <2> DEFINE frame == [cmd |-> ExitPc, env |-> 1, base |-> 0]
  <2>2. frame.env = 1 /\ frame.cmd = ExitPc
    OBVIOUS
  <2> HIDE DEF frame
  <2>3. frames = <<frame>>
    BY DEF frame
  <2> QED BY <2>1, <2>2, <2>3 DEF frame
<1> HIDE DEF frames
<1>9. /\ e \in Contexts /\ e.pc = d.pc /\ e.heapEnd = d.heapEnd /\ e.cells = d.cells
      /\ e.arrays = d.arrays /\ e.strs = d.strs /\ e.envs = d.envs /\ e.closures = d.closures
      /\ e.frames = frames
  BY <1>6, <1>8 DEF Good, Contexts
<1> HIDE DEF e
<1>10. Good(e)
  <2>1. e.cells \in [Places -> CellsOf(e)]
    BY <1>6, <1>9, CellsKept DEF Good, Refers
  <2> QED BY <1>2, <1>6, <1>7, <1>8, <1>9, <2>1 DEF Good, Refers
<1>11. Fine(e) /\ e.pc \in 1 .. ExitPc + 1
  BY <1>2, <1>5, <1>6, <1>9, <1>10 DEF Fine, Ranges
<1> QED BY <1>1, <1>10, <1>11 DEF VmInv

LEMMA Stays == ASSUME VmInv, [Next]_vars PROVE VmInv'
<1>1. CASE UNCHANGED vars
  <2>1. program' = program /\ ctx' = ctx
    BY <1>1 DEF vars
  <2> QED BY <2>1 DEF VmInv, ProgramOK, OperandOK, Good, Refers, Fine, Ranges, ExitPc
<1>2. CASE PushInt \/ PushStr \/ PushArray \/ PushClosure \/ PushExtern \/ PushEnv
  BY <1>2, PushIntStep, PushStrStep, PushArrayStep, PushClosureStep, PushExternStep, PushEnvStep
<1>3. CASE LocalVar \/ CellGet \/ CellSet \/ Label \/ JumpUnless \/ Pop \/ Swap \/ Dup
  BY <1>3, LocalVarStep, CellGetStep, CellSetStep, LabelStep, JumpUnlessStep, PopStep, SwapStep, DupStep
<1>4. CASE CallClosure \/ CallOther \/ TooManyArgs \/ Return \/ Err \/ Exit
  BY <1>4, CallClosureStep, CallOtherStep, TooManyArgsStep, ReturnStep, ErrStep, ExitStep
<1>5. CASE CallExtern
  BY <1>5, ValTypeStep, StrSliceStep, ArrayLenStep, CallArrayPushStep, ArrayPopStep, AssertionStep,
     StdinToStrStep DEF CallExtern
<1>6. CASE Operate
  BY <1>6, OpEqStep, OpLtStep, OpIndexStep, OpIndexRefStep, OpArrayPushStep, OpAddStep, OpArithStep
     DEF Operate
<1> QED BY <1>1, <1>2, <1>3, <1>4, <1>5, <1>6 DEF Next

\* Whatever a program does, and whatever goes wrong in it, the machine stays in a context
\* that its commands are made for: the elements of every array and environment are in
\* the heap until the machine is at its exit.
THEOREM VmInvariant == Spec => []VmInv
<1>1. Init => VmInv
  BY Begins
<1>2. VmInv /\ [Next]_vars => VmInv'
  BY Stays
<1> QED BY <1>1, <1>2, PTL DEF Spec

\* Every reference of the machine is to what exists, for every program that the generator
\* can make and every size of the memory (stack_get, array_get, env_get, str_get: none of
\* their assertions fails).
THEOREM ReferencesHold == Spec => []VmTypeOK
<1>1. VmInv => VmTypeOK
  <2> SUFFICES ASSUME VmInv PROVE VmTypeOK
    OBVIOUS
  <2>1. Good(ctx) /\ ctx.pc \in 1 .. ExitPc + 1
    BY DEF VmInv
  <2> QED BY <2>1, Fields DEF VmTypeOK, Good, Refers
<1> QED BY <1>1, VmInvariant, PTL
=============================================================================
