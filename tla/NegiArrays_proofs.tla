-------------------------- MODULE NegiArrays_proofs --------------------------
(***************************************************************************)
(* The arrays of the machine are apart, and are an array store to the      *)
(* program, for every program and every size of the memory.                *)
(***************************************************************************)
EXTENDS NegiArrays, NegiVm_proofs

USE VmAssumption

---------------------------------------------------------------------------
(* What the operations on a context do to the arrays that there are.       *)

RangeRec == [l : Int, r : Int, len : Int]

\* A context, as far as that is concerned.
Sized(c) ==
    /\ DOMAIN c = {"cells", "top", "heapEnd", "arrays", "strs", "envs", "closures", "frames",
                   "pc", "errs", "exit", "end"}
    /\ c.errs \in Nat /\ c.top \in Int /\ c.heapEnd \in StackLen .. CellLen - 1
    /\ c.arrays \in Seq(RangeRec) /\ DOMAIN c.cells = Places

\* The ranges lie in the heap, one after the other.
Ordered(c) ==
    /\ \A a \in DOMAIN c.arrays :
           /\ StackLen <= c.arrays[a].l /\ c.arrays[a].l <= c.arrays[a].r
           /\ c.arrays[a].r <= c.heapEnd
    /\ \A a, b \in DOMAIN c.arrays : a < b => c.arrays[a].r <= c.arrays[b].l

\* From c to d there was an error, or there are n new arrays above the others, which
\* are as they were.
Adds(c, d, n) ==
    /\ Sized(d)
    /\ d.errs = 0 =>
           /\ c.errs = 0 /\ c.heapEnd <= d.heapEnd
           /\ Len(d.arrays) = Len(c.arrays) + n
           /\ \A a \in DOMAIN c.arrays : d.arrays[a] = c.arrays[a]
           /\ \A i \in StackLen .. c.heapEnd - 1 : d.cells[i] = c.cells[i]
           /\ Ordered(c) => Ordered(d)

\* The same, when nothing but the stack and the other tables changes.
Leaves(c, d) ==
    /\ d.errs = c.errs /\ d.heapEnd = c.heapEnd /\ d.arrays = c.arrays
    /\ \A i \in StackLen .. c.heapEnd - 1 : d.cells[i] = c.cells[i]

LEMMA SizedContext == ASSUME NEW c \in Contexts PROVE Sized(c)
<1>1. c.errs \in Nat /\ c.top \in Int /\ c.heapEnd \in StackLen .. CellLen - 1
      /\ DOMAIN c.cells = Places /\ c.arrays \in Seq(ArrayRec)
  BY Fields, Small
<1>2. DOMAIN c = {"cells", "top", "heapEnd", "arrays", "strs", "envs", "closures", "frames",
                  "pc", "errs", "exit", "end"}
  BY DEF Contexts
<1>3. c.arrays \in Seq(RangeRec)
  <2>1. ArrayRec \subseteq RangeRec
    BY Small DEF ArrayRec, RangeRec
  <2> QED BY <1>1, <2>1, SeqMonotonic
<1> QED BY <1>1, <1>2, <1>3 DEF Sized

LEMMA RangeOf ==
    ASSUME NEW c, Sized(c), NEW a \in DOMAIN c.arrays
    PROVE  /\ c.arrays[a] \in RangeRec
           /\ c.arrays[a].l \in Int /\ c.arrays[a].r \in Int /\ c.arrays[a].len \in Int
<1>1. c.arrays \in Seq(RangeRec) /\ a \in 1 .. Len(c.arrays)
  BY Domains DEF Sized
<1>2. c.arrays[a] \in RangeRec
  BY <1>1, ElementOfSeq
<1> QED BY <1>2 DEF RangeRec

LEMMA LeavesAdds ==
    ASSUME NEW c, Sized(c), NEW d, Sized(d), Leaves(c, d) PROVE Adds(c, d, 0)
<1>1. Len(c.arrays) \in Nat
  BY Domains DEF Sized
<1>2. Ordered(c) => Ordered(d)
  BY DEF Ordered, Leaves
<1> QED BY <1>1, <1>2 DEF Adds, Leaves, Sized

LEMMA AddsSelf == ASSUME NEW c, Sized(c) PROVE Adds(c, c, 0)
BY LeavesAdds DEF Leaves

LEMMA AddsThen ==
    ASSUME NEW c, NEW d, NEW e, NEW m \in Nat, NEW n \in Nat,
           Sized(c), Adds(c, d, m), Adds(d, e, n)
    PROVE  Adds(c, e, m + n)
<1> SUFFICES ASSUME e.errs = 0
             PROVE  /\ c.errs = 0 /\ c.heapEnd <= e.heapEnd
                    /\ Len(e.arrays) = Len(c.arrays) + (m + n)
                    /\ \A a \in DOMAIN c.arrays : e.arrays[a] = c.arrays[a]
                    /\ \A i \in StackLen .. c.heapEnd - 1 : e.cells[i] = c.cells[i]
                    /\ Ordered(c) => Ordered(e)
  BY DEF Adds
<1>1. /\ d.errs = 0 /\ d.heapEnd <= e.heapEnd /\ Len(e.arrays) = Len(d.arrays) + n
      /\ \A a \in DOMAIN d.arrays : e.arrays[a] = d.arrays[a]
      /\ \A i \in StackLen .. d.heapEnd - 1 : e.cells[i] = d.cells[i]
      /\ Ordered(d) => Ordered(e)
  BY DEF Adds
<1>2. /\ c.errs = 0 /\ c.heapEnd <= d.heapEnd /\ Len(d.arrays) = Len(c.arrays) + m
      /\ \A a \in DOMAIN c.arrays : d.arrays[a] = c.arrays[a]
      /\ \A i \in StackLen .. c.heapEnd - 1 : d.cells[i] = c.cells[i]
      /\ Ordered(c) => Ordered(d)
  BY <1>1 DEF Adds
<1>3. /\ c.heapEnd \in Int /\ d.heapEnd \in Int /\ e.heapEnd \in Int
      /\ Len(c.arrays) \in Nat /\ DOMAIN c.arrays = 1 .. Len(c.arrays)
      /\ Len(d.arrays) \in Nat /\ DOMAIN d.arrays = 1 .. Len(d.arrays)
  BY Domains, Small DEF Adds, Sized
<1>4. DOMAIN c.arrays \subseteq DOMAIN d.arrays
  BY <1>2, <1>3
<1>5. \A i \in StackLen .. c.heapEnd - 1 : i \in StackLen .. d.heapEnd - 1
  BY <1>2, <1>3, Small
<1>6. c.heapEnd <= e.heapEnd /\ Len(e.arrays) = Len(c.arrays) + (m + n)
  <2>1. c.heapEnd <= e.heapEnd
    BY <1>1, <1>2, <1>3
  <2> DEFINE k == Len(c.arrays)
  <2>2. Len(e.arrays) = (k + m) + n /\ k \in Nat
    BY <1>1, <1>2, <1>3
  <2> HIDE DEF k
  <2>3. Len(e.arrays) = k + (m + n)
    BY <2>2
  <2> QED BY <2>1, <2>3 DEF k
<1>7. \A a \in DOMAIN c.arrays : e.arrays[a] = c.arrays[a]
  BY <1>1, <1>2, <1>4
<1>8. \A i \in StackLen .. c.heapEnd - 1 : e.cells[i] = c.cells[i]
  BY <1>1, <1>2, <1>5
<1> QED BY <1>1, <1>2, <1>6, <1>7, <1>8

LEMMA AddsSized == ASSUME NEW c, NEW d, NEW n, Adds(c, d, n) PROVE Sized(d)
BY DEF Adds

LEMMA AddsAbort == ASSUME NEW c, Sized(c), NEW n PROVE Adds(c, Abort(c), n)
<1>1. Abort(c).errs = c.errs + 1 /\ Abort(c).errs # 0
  BY DEF Abort, Sized
<1>2. Sized(Abort(c))
  BY DEF Abort, Sized
<1> QED BY <1>1, <1>2 DEF Adds

LEMMA AddsPush == ASSUME NEW c, Sized(c), NEW cell PROVE Adds(c, Push(c, cell), 0)
<1>1. CASE c.top >= StackLen
  BY <1>1, AddsAbort DEF Push
<1>2. CASE ~(c.top >= StackLen)
  <2> DEFINE cells == [c.cells EXCEPT ![c.top] = cell]
             top == c.top + 1
             d == [c EXCEPT !.cells = cells, !.top = top]
  <2>1. Push(c, cell) = d
    BY <1>2 DEF Push
  <2>2. \A i \in StackLen .. c.heapEnd - 1 : cells[i] = c.cells[i]
    BY <1>2, Small DEF Sized, Places
  <2>3. DOMAIN cells = Places /\ top \in Int
    BY DEF Sized
  <2> HIDE DEF cells, top
  <2>4. Sized(d) /\ Leaves(c, d)
    BY <2>2, <2>3 DEF Sized, Leaves
  <2> QED BY <2>1, <2>4, LeavesAdds
<1> QED BY <1>1, <1>2

LEMMA AddsHeapAlloc ==
    ASSUME NEW c, Sized(c), NEW count \in Nat PROVE Adds(c, HeapAlloc(c, count), 0)
<1>1. CASE Fits(c, count)
  <2> DEFINE h == c.heapEnd + count
             d == [c EXCEPT !.heapEnd = h]
  <2>1. HeapAlloc(c, count) = d
    BY <1>1 DEF HeapAlloc
  <2>2. h \in StackLen .. CellLen - 1 /\ c.heapEnd <= h /\ c.heapEnd \in Int /\ h \in Int
    BY <1>1, Small DEF Fits, Sized
  <2> HIDE DEF h
  <2>3. /\ Sized(d) /\ d.errs = c.errs /\ d.heapEnd = h /\ d.arrays = c.arrays
        /\ d.cells = c.cells
    BY <2>2 DEF Sized
  <2> HIDE DEF d
  <2>4. Len(c.arrays) \in Nat
    BY Domains DEF Sized
  <2>5. Ordered(c) => Ordered(d)
    <3> SUFFICES ASSUME Ordered(c) PROVE Ordered(d)
      OBVIOUS
    <3>1. \A a \in DOMAIN c.arrays : c.arrays[a].r \in Int
      BY RangeOf
    <3> QED BY <2>2, <2>3, <3>1 DEF Ordered
  <2> QED BY <2>1, <2>2, <2>3, <2>4, <2>5 DEF Adds
<1>2. CASE ~Fits(c, count)
  BY <1>2, AddsAbort DEF HeapAlloc
<1> QED BY <1>1, <1>2

---------------------------------------------------------------------------
\* Other tables may change.
LEMMA AddsOther ==
    ASSUME NEW c, Sized(c), NEW d, NEW x,
           \/ d = [c EXCEPT !.strs = x] \/ d = [c EXCEPT !.closures = x]
           \/ d = [c EXCEPT !.envs = x] \/ d = [c EXCEPT !.pc = x]
           \/ d = [c EXCEPT !.end = x]
    PROVE  Adds(c, d, 0)
<1>1. /\ d.errs = c.errs /\ d.heapEnd = c.heapEnd /\ d.arrays = c.arrays /\ d.cells = c.cells
      /\ d.top = c.top
  BY DEF Sized
<1>2. DOMAIN d = DOMAIN c
  OBVIOUS
<1>3. Sized(d)
  BY <1>1, <1>2 DEF Sized
<1> QED BY <1>1, <1>3, LeavesAdds DEF Leaves

LEMMA AddsArray ==
    ASSUME NEW c, Sized(c), NEW len \in Int, NEW capacity \in Nat
    PROVE  /\ Adds(c, ArrayAdd(c, len, capacity), 1)
           /\ Len(ArrayAdd(c, len, capacity).arrays) = Len(c.arrays) + 1
           /\ ArrayAdd(c, len, capacity).errs = 0 =>
                  ArrayAdd(c, len, capacity).arrays[Len(c.arrays) + 1] =
                      [l |-> c.heapEnd, r |-> c.heapEnd + capacity, len |-> len]
<1> DEFINE d == HeapAlloc(c, capacity)
           l == AllocatedAt(c, capacity)
           new == [l |-> l, r |-> l + capacity, len |-> len]
           arrays == Append(d.arrays, new)
           e == [d EXCEPT !.arrays = arrays]
<1>1. ArrayAdd(c, len, capacity) = e
  BY DEF ArrayAdd
<1>2. Sized(d) /\ Adds(c, d, 0) /\ d.arrays = c.arrays
  <2>1. d.arrays = c.arrays
    BY DEF HeapAlloc, Abort, Sized
  <2>2. Adds(c, d, 0)
    BY AddsHeapAlloc
  <2> QED BY <2>1, <2>2, AddsSized
<1>3. l \in Int /\ new \in RangeRec
  BY Small DEF AllocatedAt, Sized, RangeRec
<1>4. d.errs = 0 => c.errs = 0 /\ l = c.heapEnd /\ d.heapEnd = c.heapEnd + capacity
                    /\ d.cells = c.cells
  BY DEF HeapAlloc, Abort, AllocatedAt, Sized
<1> HIDE DEF d, l
<1>5. /\ arrays \in Seq(RangeRec) /\ Len(arrays) = Len(c.arrays) + 1
      /\ arrays[Len(c.arrays) + 1] = new /\ Len(c.arrays) \in Nat
      /\ DOMAIN c.arrays = 1 .. Len(c.arrays) /\ DOMAIN arrays = 1 .. Len(c.arrays) + 1
      /\ \A a \in DOMAIN c.arrays : arrays[a] = c.arrays[a]
  BY <1>2, <1>3, AppendProperties, Domains DEF Sized
<1>7. /\ c.heapEnd \in StackLen .. CellLen - 1 /\ \A a \in DOMAIN c.arrays : c.arrays[a].r \in Int
  BY RangeOf DEF Sized
<1>8. new.l = l /\ new.r = l + capacity /\ new.len = len
  OBVIOUS
<1> HIDE DEF arrays, new
<1>6. /\ e.errs = d.errs /\ e.heapEnd = d.heapEnd /\ e.arrays = arrays /\ e.cells = d.cells
      /\ Sized(e)
  BY <1>2, <1>5 DEF Sized
<1> HIDE DEF e
<1>9. ASSUME e.errs = 0, Ordered(c) PROVE Ordered(e)
  <2>1. /\ l = c.heapEnd /\ e.heapEnd = c.heapEnd + capacity /\ e.arrays = arrays
    BY <1>4, <1>6, <1>9
  <2>2. ASSUME NEW a \in DOMAIN arrays, a \notin DOMAIN c.arrays PROVE arrays[a] = new
    BY <1>5, <2>2
  <2>3. \A a \in DOMAIN arrays : /\ StackLen <= arrays[a].l /\ arrays[a].l <= arrays[a].r
                                 /\ arrays[a].r <= e.heapEnd
    <3> TAKE a \in DOMAIN arrays
    <3>1. CASE a \in DOMAIN c.arrays
      <4>1. /\ arrays[a] = c.arrays[a] /\ c.arrays[a].r \in Int
            /\ StackLen <= c.arrays[a].l /\ c.arrays[a].l <= c.arrays[a].r
            /\ c.arrays[a].r <= c.heapEnd
        BY <3>1, <1>5, <1>7, <1>9 DEF Ordered
      <4>2. c.heapEnd \in Int /\ e.heapEnd \in Int /\ c.heapEnd <= e.heapEnd
        BY <2>1, <1>7, Small
      <4> QED BY <4>1, <4>2
    <3>2. CASE a \notin DOMAIN c.arrays
      <4>1. arrays[a].l = c.heapEnd /\ arrays[a].r = c.heapEnd + capacity
        BY <3>2, <2>2, <2>1, <1>8
      <4>2. c.heapEnd \in Int /\ StackLen <= c.heapEnd
        BY <1>7, Small
      <4> QED BY <4>1, <4>2, <2>1
    <3> QED BY <3>1, <3>2
  <2>4. ASSUME NEW a \in DOMAIN arrays, NEW b \in DOMAIN arrays, a < b
        PROVE arrays[a].r <= arrays[b].l
    <3>1. a \in DOMAIN c.arrays
      BY <2>4, <1>5
    <3>2. CASE b \in DOMAIN c.arrays
      BY <3>1, <3>2, <2>4, <1>5, <1>9 DEF Ordered
    <3>3. CASE b \notin DOMAIN c.arrays
      BY <3>1, <3>3, <2>2, <2>1, <1>5, <1>8, <1>9 DEF Ordered
    <3> QED BY <3>2, <3>3
  <2> QED BY <2>1, <2>3, <2>4 DEF Ordered
<1>10. ASSUME e.errs = 0
       PROVE /\ c.errs = 0 /\ c.heapEnd <= e.heapEnd /\ Len(e.arrays) = Len(c.arrays) + 1
             /\ \A a \in DOMAIN c.arrays : e.arrays[a] = c.arrays[a]
             /\ \A i \in StackLen .. c.heapEnd - 1 : e.cells[i] = c.cells[i]
             /\ e.arrays[Len(c.arrays) + 1] =
                    [l |-> c.heapEnd, r |-> c.heapEnd + capacity, len |-> len]
  <2>1. new = [l |-> c.heapEnd, r |-> c.heapEnd + capacity, len |-> len]
    BY <1>4, <1>6, <1>10 DEF new
  <2> QED BY <1>4, <1>5, <1>6, <1>7, <1>10, <2>1
<1>11. Adds(c, e, 1) /\ Len(e.arrays) = Len(c.arrays) + 1
  BY <1>5, <1>6, <1>9, <1>10 DEF Adds
<1> QED BY <1>1, <1>10, <1>11

LEMMA AddsReferred ==
    ASSUME NEW c, Sized(c), NEW a, NEW i PROVE Adds(c, Referred(c, a, i), 0)
BY AddsSelf, AddsAbort DEF Referred

LEMMA AddsEnv ==
    ASSUME NEW c, Sized(c), c.envs \in Seq(EnvRec), NEW parent \in Nat, NEW fun,
           program.funs[fun].len \in Nat
    PROVE  LET d == EnvAdd(c, parent, fun)
           IN /\ Adds(c, d, 1)
              /\ d.envs[Len(d.envs)].array = Len(c.arrays) + 1
              /\ Len(d.arrays) = Len(c.arrays) + 1
              /\ d.errs = 0 => d.arrays[Len(c.arrays) + 1].l = c.heapEnd
<1> DEFINE len == program.funs[fun].len
           h == ArrayAdd(c, len, len)
           env == [parent |-> parent, array |-> Len(h.arrays)]
           envs == Append(c.envs, env)
           d == [h EXCEPT !.envs = envs]
<1>1. /\ Adds(c, h, 1) /\ h.envs = c.envs
      /\ h.errs = 0 => h.arrays[Len(c.arrays) + 1].l = c.heapEnd
  <2>1. h.envs = c.envs
    BY DEF ArrayAdd, HeapAlloc, Abort, Sized
  <2> HIDE DEF len
  <2>2. len \in Int /\ len \in Nat
    BY DEF len
  <2>3. /\ Adds(c, h, 1)
        /\ h.errs = 0 => h.arrays[Len(c.arrays) + 1] =
                             [l |-> c.heapEnd, r |-> c.heapEnd + len, len |-> len]
    BY <2>2, AddsArray, Zenon
  <2> HIDE DEF h
  <2> QED BY <2>1, <2>3
<1>2. Len(h.arrays) = Len(c.arrays) + 1 /\ Len(c.arrays) + 1 \in Nat
  <2>1. Len(h.arrays) = Len(c.arrays) + 1
    BY DEF ArrayAdd, HeapAlloc, Abort, Sized
  <2> QED BY <2>1, Domains DEF Sized
<1>3. EnvAdd(c, parent, fun) = d
  BY <1>1 DEF EnvAdd
<1> HIDE DEF h
<1>4. env \in EnvRec /\ env.array = Len(c.arrays) + 1
  BY <1>2 DEF EnvRec
<1> HIDE DEF env
<1>5. envs[Len(envs)] = env
  BY <1>4, AppendProperties
<1> HIDE DEF envs
<1>6. Adds(h, d, 0) /\ Sized(h)
  BY <1>1, AddsOther, AddsSized
<1>7. d.envs = envs /\ d.errs = h.errs /\ d.arrays = h.arrays
  BY <1>6 DEF Sized
<1> HIDE DEF d
<1>8. Adds(c, d, 1)
  <2>1. Adds(c, d, 1 + 0)
    BY <1>1, <1>6, AddsThen
  <2> QED BY <2>1
<1> QED BY <1>1, <1>2, <1>3, <1>4, <1>5, <1>7, <1>8

\* The items of an array above some of the arrays leave those as they are.
LEMMA AddsItems ==
    ASSUME NEW b, NEW c, NEW n \in Nat, Sized(b), Adds(b, c, n),
           NEW a \in DOMAIN c.arrays, c.errs = 0 => b.heapEnd <= c.arrays[a].l,
           NEW S, NEW items \in Seq(S)
    PROVE  /\ Adds(b, SetItems(c, a, items), n)
           /\ SetItems(c, a, items).arrays = c.arrays
<1> DEFINE array == c.arrays[a]
           extra == Len(items) - array.len
           written(i) == IF i = array.l /\ extra > 0 THEN Len(items) ELSE i - array.l + 1
           errs == c.errs + extra
           r == IF extra > 0 THEN [Abort(c) EXCEPT !.errs = errs] ELSE c
           cells == [i \in DOMAIN r.cells |->
                        IF i >= array.l /\ written(i) \in DOMAIN items
                           /\ (i < array.l + array.len \/ i = array.l)
                        THEN items[written(i)] ELSE r.cells[i]]
           d == [r EXCEPT !.cells = cells]
<1>1. SetItems(c, a, items) = d
  BY DEF SetItems
<1>2. Sized(c) /\ array.len \in Int /\ array.l \in Int /\ Len(items) \in Nat
  BY AddsSized, RangeOf, Domains
<1>3. extra \in Int /\ (extra > 0 => errs \in Nat /\ errs # 0)
  <2>1. c.errs \in Nat
    BY <1>2 DEF Sized
  <2> HIDE DEF array
  <2>2. extra \in Int
    BY <1>2
  <2> HIDE DEF extra
  <2> QED BY <2>1, <2>2
<1> HIDE DEF extra, errs
<1>4. Sized(r) /\ r.arrays = c.arrays
  BY <1>2, <1>3 DEF Sized, Abort
<1>5. r.errs = 0 => r = c
  BY <1>2, <1>3 DEF Sized, Abort
<1>6. ASSUME NEW i \in Places, i < array.l PROVE cells[i] = r.cells[i]
  <2> HIDE DEF array, r, written
  <2>1. ~(i >= array.l) /\ i \in DOMAIN r.cells
    BY <1>2, <1>4, <1>6 DEF Places, Sized
  <2> QED BY <2>1
<1>7. DOMAIN cells = Places
  BY <1>4 DEF Sized
<1> HIDE DEF r, cells, array
<1>8. Sized(d) /\ d.arrays = r.arrays /\ d.errs = r.errs /\ d.cells = cells
      /\ d.heapEnd = r.heapEnd
  BY <1>4, <1>7 DEF Sized
<1> HIDE DEF d
<1>9. ASSUME d.errs = 0
      PROVE  /\ b.errs = 0 /\ b.heapEnd <= d.heapEnd
             /\ Len(d.arrays) = Len(b.arrays) + n
             /\ \A x \in DOMAIN b.arrays : d.arrays[x] = b.arrays[x]
             /\ \A i \in StackLen .. b.heapEnd - 1 : d.cells[i] = b.cells[i]
             /\ Ordered(b) => Ordered(d)
  <2>1. r = c /\ c.errs = 0
    BY <1>5, <1>8, <1>9
  <2>2. \A i \in StackLen .. b.heapEnd - 1 : d.cells[i] = b.cells[i]
    <3> TAKE i \in StackLen .. b.heapEnd - 1
    <3>1. i \in Places /\ i < array.l
      <4>1. b.heapEnd \in StackLen .. CellLen - 1 /\ b.heapEnd <= array.l /\ array.l \in Int
        BY <2>1, <1>2 DEF Sized, array
      <4> QED BY <4>1, Small DEF Places
    <3> QED BY <3>1, <1>6, <1>8, <2>1 DEF Adds
  <2>3. Ordered(c) => Ordered(d)
    BY <1>8, <2>1 DEF Ordered
  <2> QED BY <1>8, <2>1, <2>2, <2>3 DEF Adds
<1> QED BY <1>1, <1>4, <1>8, <1>9 DEF Adds

LEMMA AddsNewStr ==
    ASSUME NEW c, Sized(c), NEW s PROVE Adds(c, PushNewStr(c, s), 0)
<1> DEFINE x == Append(c.strs, s)
           d == [c EXCEPT !.strs = x]
           cell == Cell("str", Len(d.strs))
<1>1. PushNewStr(c, s) = Push(d, cell)
  BY DEF PushNewStr
<1> HIDE DEF x
<1>2. Adds(c, d, 0)
  BY AddsOther
<1> HIDE DEF d, cell
<1>3. Adds(d, Push(d, cell), 0)
  BY <1>2, AddsPush, AddsSized
<1> QED BY <1>1, <1>2, <1>3, AddsThen

---------------------------------------------------------------------------
(* A step that changes one of the arrays.                                  *)

\* The ranges stay as they are.
LEMMA OrderedStays ==
    ASSUME NEW c, NEW d, Sized(c), Sized(d), c.heapEnd <= d.heapEnd,
           DOMAIN d.arrays = DOMAIN c.arrays,
           \A b \in DOMAIN c.arrays : d.arrays[b].l = c.arrays[b].l /\ d.arrays[b].r = c.arrays[b].r,
           Ordered(c)
    PROVE  Ordered(d)
<1>1. c.heapEnd \in Int /\ d.heapEnd \in Int /\ \A a \in DOMAIN c.arrays : c.arrays[a].r \in Int
  <2>1. c.heapEnd \in Int /\ d.heapEnd \in Int
    BY Small DEF Sized
  <2> QED BY <2>1, RangeOf
<1>2. \A a \in DOMAIN d.arrays : /\ StackLen <= d.arrays[a].l /\ d.arrays[a].l <= d.arrays[a].r
                                 /\ d.arrays[a].r <= d.heapEnd
  BY <1>1 DEF Ordered
<1>3. \A a, b \in DOMAIN d.arrays : a < b => d.arrays[a].r <= d.arrays[b].l
  BY DEF Ordered
<1> QED BY <1>2, <1>3 DEF Ordered

\* From c to d there was an error, or array a alone is longer or shorter.
Resizes(c, d, a, len) ==
    /\ Sized(d)
    /\ d.errs = 0 =>
           /\ c.errs = 0 /\ c.heapEnd <= d.heapEnd
           /\ DOMAIN d.arrays = DOMAIN c.arrays
           /\ \A b \in DOMAIN c.arrays \ {a} : d.arrays[b] = c.arrays[b]
           /\ d.arrays[a] = [c.arrays[a] EXCEPT !.len = len]
           /\ Ordered(c) => Ordered(d)

LEMMA SetLenResizes ==
    ASSUME NEW c, Sized(c), NEW a \in DOMAIN c.arrays, NEW len \in Int
    PROVE  /\ Resizes(c, SetLen(c, a, len), a, len)
           /\ SetLen(c, a, len).errs = c.errs
           /\ SetLen(c, a, len).cells = c.cells
           /\ SetLen(c, a, len).heapEnd = c.heapEnd
<1> DEFINE array == [c.arrays[a] EXCEPT !.len = len]
           arrays == [c.arrays EXCEPT ![a] = array]
           d == [c EXCEPT !.arrays = arrays]
<1>1. SetLen(c, a, len) = d
  BY DEF SetLen
<1>2. array \in RangeRec /\ array.l = c.arrays[a].l /\ array.r = c.arrays[a].r
  BY RangeOf DEF RangeRec
<1>3. /\ arrays \in Seq(RangeRec) /\ DOMAIN arrays = DOMAIN c.arrays /\ arrays[a] = array
      /\ \A b \in DOMAIN c.arrays \ {a} : arrays[b] = c.arrays[b]
  <2> HIDE DEF array
  <2>1. c.arrays \in Seq(RangeRec) /\ a \in 1 .. Len(c.arrays)
    BY Domains DEF Sized
  <2>2. arrays \in Seq(RangeRec) /\ Len(arrays) = Len(c.arrays)
    BY <1>2, <2>1, ExceptSeq
  <2> QED BY <2>1, <2>2, Domains
<1> HIDE DEF arrays
<1>4. /\ Sized(d) /\ d.errs = c.errs /\ d.heapEnd = c.heapEnd /\ d.arrays = arrays
      /\ d.cells = c.cells
  BY <1>3 DEF Sized
<1> HIDE DEF d
<1>5. Ordered(c) => Ordered(d)
  <2>1. c.heapEnd <= d.heapEnd
    BY <1>4, Small DEF Sized
  <2>2. \A b \in DOMAIN c.arrays : d.arrays[b].l = c.arrays[b].l /\ d.arrays[b].r = c.arrays[b].r
    <3> HIDE DEF array
    <3> QED BY <1>2, <1>3, <1>4
  <2> QED BY <1>3, <1>4, <2>1, <2>2, OrderedStays
<1>6. c.heapEnd <= d.heapEnd
  BY <1>4, Small DEF Sized
<1> QED BY <1>1, <1>3, <1>4, <1>5, <1>6 DEF Resizes

\* array_reserve: with room in the range, nothing changes; without, nothing of the
\* ranges does.
LEMMA AddsReserve ==
    ASSUME NEW c, Sized(c), NEW a \in DOMAIN c.arrays, c.arrays[a].len \in Nat, NEW n \in Nat
    PROVE  LET d == ArrayReserve(c, a, n)
           IN /\ Sized(d) /\ d.arrays = c.arrays
              /\ d.errs = 0 => /\ c.errs = 0 /\ c.heapEnd <= d.heapEnd
                               /\ Ordered(c) => Ordered(d)
              /\ n <= c.arrays[a].r - c.arrays[a].l => d = c
<1> DEFINE array == c.arrays[a]
           capacity == array.len + n
           l == AllocatedAt(c, capacity)
           source(i) == i - l + array.l
           h == HeapAlloc(c, capacity)
           cells == [i \in DOMAIN h.cells |->
                        IF i \in l .. l + capacity - 1 /\ source(i) \in DOMAIN h.cells
                        THEN c.cells[source(i)] ELSE h.cells[i]]
           d == [h EXCEPT !.cells = cells]
<1>1. CASE n <= array.r - array.l
  <2>1. ArrayReserve(c, a, n) = c
    BY <1>1 DEF ArrayReserve
  <2> QED BY <2>1, Small DEF Sized
<1>2. CASE ~(n <= array.r - array.l)
  <2>1. ArrayReserve(c, a, n) = d
    BY <1>2 DEF ArrayReserve
  <2>2. capacity \in Nat
    OBVIOUS
  <2> HIDE DEF capacity
  <2>3. Adds(c, h, 0) /\ Sized(h)
    BY <2>2, AddsHeapAlloc, AddsSized
  <2>4. h.arrays = c.arrays
    BY DEF HeapAlloc, Abort, Sized
  <2> HIDE DEF h, l, array
  <2>5. DOMAIN cells = Places
    BY <2>3 DEF Sized
  <2> HIDE DEF cells
  <2>6. Sized(d) /\ d.arrays = c.arrays /\ d.errs = h.errs /\ d.heapEnd = h.heapEnd
    BY <2>3, <2>4, <2>5 DEF Sized
  <2> HIDE DEF d
  <2>7. Ordered(h) => Ordered(d)
    BY <2>4, <2>6 DEF Ordered
  <2> QED BY <1>2, <2>1, <2>3, <2>6, <2>7 DEF Adds, array
<1> QED BY <1>1, <1>2

\* array_push: the array is one longer, and if it is still in its range only the cell
\* of its last item is written.
LEMMA PushResizes ==
    ASSUME NEW c, Sized(c), NEW a \in DOMAIN c.arrays, c.arrays[a].len \in Nat, NEW item
    PROVE  LET d == ArrayPush(c, a, item)
               at == c.arrays[a].l + c.arrays[a].len
           IN /\ Resizes(c, d, a, c.arrays[a].len + 1)
              /\ c.arrays[a].len + 1 <= c.arrays[a].r - c.arrays[a].l =>
                     /\ d.heapEnd = c.heapEnd
                     /\ \A i \in Places \ {at} : d.cells[i] = c.cells[i]
<1> DEFINE len == c.arrays[a].len
           n == len + 1
           at == c.arrays[a].l + len
           r == ArrayReserve(c, a, n)
           s == SetLen(r, a, n)
           d == SetItem(s, a, len, item)
<1>1. ArrayPush(c, a, item) = d
  BY DEF ArrayPush
<1>2. n \in Nat /\ len \in 0 .. n - 1 /\ n \in Int
  OBVIOUS
<1>3. /\ Sized(r) /\ r.arrays = c.arrays
      /\ r.errs = 0 => c.errs = 0 /\ c.heapEnd <= r.heapEnd /\ (Ordered(c) => Ordered(r))
      /\ n <= c.arrays[a].r - c.arrays[a].l => r = c
  <2> HIDE DEF n
  <2> QED BY <1>2, AddsReserve
<1> HIDE DEF r
<1>4. /\ Resizes(r, s, a, n) /\ s.errs = r.errs /\ s.cells = r.cells /\ s.heapEnd = r.heapEnd
      /\ Sized(s) /\ s.arrays = [r.arrays EXCEPT ![a] = [@ EXCEPT !.len = n]]
  <2>1. Resizes(r, s, a, n) /\ s.errs = r.errs /\ s.cells = r.cells /\ s.heapEnd = r.heapEnd
    <3> HIDE DEF n
    <3> QED BY <1>2, <1>3, SetLenResizes
  <2>2. s.arrays = [r.arrays EXCEPT ![a] = [@ EXCEPT !.len = n]]
    BY <1>3 DEF SetLen, Sized
  <2> HIDE DEF s
  <2> QED BY <2>1, <2>2 DEF Resizes
<1>5. s.arrays[a].len = n /\ s.arrays[a].l = c.arrays[a].l
  <2>1. s.arrays[a] = [c.arrays[a] EXCEPT !.len = n]
    BY <1>3, <1>4
  <2>2. c.arrays[a] \in RangeRec
    BY RangeOf
  <2> HIDE DEF s, n
  <2> QED BY <2>1, <2>2 DEF RangeRec
<1> DEFINE cells == [s.cells EXCEPT ![at] = item]
<1>6. d = [s EXCEPT !.cells = cells]
  BY <1>2, <1>5 DEF SetItem, Referred, ArrayRef, InArray
<1> HIDE DEF s
<1>7. DOMAIN cells = Places /\ \A i \in Places \ {at} : cells[i] = s.cells[i]
  BY <1>4 DEF Sized
<1> HIDE DEF cells
<1>8. /\ Sized(d) /\ d.arrays = s.arrays /\ d.errs = s.errs /\ d.heapEnd = s.heapEnd
      /\ d.cells = cells
  BY <1>4, <1>6, <1>7 DEF Sized
<1> HIDE DEF d
<1>9. Ordered(s) => Ordered(d)
  BY <1>8 DEF Ordered
<1>10. Resizes(c, d, a, n)
  <2> HIDE DEF n, at
  <2>1. SUFFICES ASSUME d.errs = 0
                 PROVE  /\ c.errs = 0 /\ c.heapEnd <= d.heapEnd
                        /\ DOMAIN d.arrays = DOMAIN c.arrays
                        /\ \A b \in DOMAIN c.arrays \ {a} : d.arrays[b] = c.arrays[b]
                        /\ d.arrays[a] = [c.arrays[a] EXCEPT !.len = n]
                        /\ Ordered(c) => Ordered(d)
    BY <1>8 DEF Resizes
  <2>2. s.errs = 0 /\ r.errs = 0
    BY <1>4, <1>8, <2>1
  <2> QED BY <1>3, <1>4, <1>8, <1>9, <2>2 DEF Resizes
<1>11. ASSUME n <= c.arrays[a].r - c.arrays[a].l
       PROVE  d.heapEnd = c.heapEnd /\ \A i \in Places \ {at} : d.cells[i] = c.cells[i]
  <2> HIDE DEF n, at
  <2> QED BY <1>3, <1>4, <1>7, <1>8, <1>11
<1> QED BY <1>1, <1>10, <1>11

---------------------------------------------------------------------------
(* A command is a sequence of such operations.                             *)

LEMMA ThenSame ==
    ASSUME NEW b, NEW c, NEW d, NEW n \in Nat, Sized(b), Adds(b, c, n), Adds(c, d, 0)
    PROVE  Adds(b, d, n)
<1>1. Adds(b, d, n + 0)
  BY AddsThen
<1> QED BY <1>1

LEMMA ThenPush ==
    ASSUME NEW b, NEW c, NEW n \in Nat, Sized(b), Adds(b, c, n), NEW cell
    PROVE  Adds(b, Push(c, cell), n)
BY ThenSame, AddsPush, AddsSized

LEMMA ThenAbort ==
    ASSUME NEW b, NEW c, NEW n \in Nat, Sized(b), Adds(b, c, n)
    PROVE  Adds(b, Abort(c), n)
BY ThenSame, AddsAbort, AddsSized

LEMMA ThenReferred ==
    ASSUME NEW b, NEW c, NEW n \in Nat, Sized(b), Adds(b, c, n), NEW a, NEW i
    PROVE  Adds(b, Referred(c, a, i), n)
BY ThenSame, AddsReferred, AddsSized

LEMMA ThenNewStr ==
    ASSUME NEW b, NEW c, NEW n \in Nat, Sized(b), Adds(b, c, n), NEW s
    PROVE  Adds(b, PushNewStr(c, s), n)
BY ThenSame, AddsNewStr, AddsSized

\* A cell above the arrays that there were.
LEMMA ThenWrite ==
    ASSUME NEW b, NEW c, NEW n \in Nat, Sized(b), Adds(b, c, n), NEW p, NEW cell,
           c.errs = 0 => p \in Int /\ b.heapEnd <= p
    PROVE  Adds(b, [c EXCEPT !.cells = [@ EXCEPT ![p] = cell]], n)
<1> DEFINE cells == [c.cells EXCEPT ![p] = cell]
           d == [c EXCEPT !.cells = cells]
<1>1. c.errs = 0 => \A i \in StackLen .. b.heapEnd - 1 : cells[i] = c.cells[i]
  <2> SUFFICES ASSUME c.errs = 0, NEW i \in StackLen .. b.heapEnd - 1 PROVE cells[i] = c.cells[i]
    OBVIOUS
  <2>1. i \in DOMAIN c.cells /\ i # p
    BY AddsSized, Small DEF Sized, Places
  <2> QED BY <2>1
<1>2. DOMAIN cells = Places /\ Sized(c)
  BY AddsSized DEF Sized
<1> HIDE DEF cells
<1>3. /\ Sized(d) /\ d.errs = c.errs /\ d.heapEnd = c.heapEnd /\ d.arrays = c.arrays
      /\ d.cells = cells
  BY <1>2 DEF Sized
<1> HIDE DEF d
<1>4. Ordered(c) => Ordered(d)
  BY <1>3 DEF Ordered
<1>5. Adds(b, d, n)
  BY <1>1, <1>3, <1>4 DEF Adds
<1> QED BY <1>5 DEF d, cells

LEMMA AddsFetched ==
    ASSUME VmInv, Popped \in Int
    PROVE  /\ Sized(ctx) /\ Adds(ctx, Fetched, 0) /\ Fetched.envs = ctx.envs
           /\ Fetched.arrays = ctx.arrays /\ Fetched.errs = ctx.errs
           /\ Fetched.heapEnd = ctx.heapEnd /\ Fetched.cells = ctx.cells
           /\ Adds(ctx, Crash(ctx), 0) /\ Adds(ctx, Abort(Fetched), 0)
<1> DEFINE pc == ctx.pc + 1
           top == ctx.top - Popped
           d == [ctx EXCEPT !.pc = pc, !.top = top]
<1>1. Sized(ctx)
  BY SizedContext DEF VmInv, Good
<1>2. top \in Int
  BY <1>1 DEF Sized
<1>3. Fetched = d
  BY DEF Fetched
<1> HIDE DEF pc, top
<1>4. /\ Sized(d) /\ d.errs = ctx.errs /\ d.heapEnd = ctx.heapEnd /\ d.arrays = ctx.arrays
      /\ d.cells = ctx.cells /\ d.envs = ctx.envs
  BY <1>1, <1>2 DEF Sized
<1> HIDE DEF d
<1>5. Adds(ctx, d, 0)
  BY <1>1, <1>4, LeavesAdds DEF Leaves
<1>6. Adds(ctx, Crash(ctx), 0)
  BY <1>1, AddsOther DEF Crash
<1>7. Adds(ctx, Abort(Fetched), 0)
  BY <1>1, <1>3, <1>5, ThenAbort
<1> QED BY <1>1, <1>3, <1>4, <1>5, <1>6, <1>7

\* Most commands change no array, and some make one.
Silent == \E n \in {0, 1} : Adds(ctx, ctx', n)

LEMMA Silently ==
    ASSUME VmInv, NEW c, Do(c), NEW n \in {0, 1}, ctx.top >= Popped => Adds(ctx, c, n)
    PROVE  Silent
<1>1. CASE ctx.top >= Popped
  BY <1>1 DEF Do, Silent
<1>2. CASE ~(ctx.top >= Popped)
  <2>1. Sized(ctx)
    BY SizedContext DEF VmInv, Good
  <2>2. Adds(ctx, Crash(ctx), 0)
    BY <2>1, AddsOther DEF Crash
  <2> QED BY <1>2, <2>2 DEF Do, Silent
<1> QED BY <1>1, <1>2

LEMMA PushIntSilent == ASSUME VmInv, PushInt PROVE Silent
<1>1. Popped \in Int
  BY DEF PushInt, At, Popped, Pops
<1>2. Adds(ctx, Push(Fetched, IntCell(Current.x)), 0)
  BY <1>1, AddsFetched, ThenPush
<1> QED BY <1>2, Silently DEF PushInt

LEMMA PushStrSilent == ASSUME VmInv, PushStr PROVE Silent
<1>1. Popped \in Int
  BY DEF PushStr, At, Popped, Pops
<1>2. Adds(ctx, PushNewStr(Fetched, DataGet(program.data, Current.x)), 0)
  BY <1>1, AddsFetched, ThenNewStr
<1> QED BY <1>2, Silently DEF PushStr

LEMMA PushArraySilent == ASSUME VmInv, PushArray PROVE Silent
<1> DEFINE c == ArrayAdd(Fetched, 0, Current.x)
           d == Push(c, Cell("array", Len(c.arrays)))
<1>1. Popped \in Int /\ Do(d) /\ ctx.end = "no" /\ Current.kind = "push_array"
  BY DEF PushArray, At, Popped, Pops
<1>2. Current.x \in Nat
  BY <1>1, CurrentOK, Small DEF OperandOK, Sizes
<1>3. Adds(Fetched, c, 1)
  <2>1. Sized(Fetched)
    BY <1>1, AddsFetched, AddsSized
  <2>2. 0 \in Int
    OBVIOUS
  <2> QED BY <1>2, <2>1, <2>2, AddsArray, Zenon
<1> HIDE DEF c
<1>4. Adds(ctx, c, 0 + 1)
  BY <1>1, <1>3, AddsFetched, AddsThen
<1>5. Adds(ctx, d, 1)
  BY <1>1, <1>4, AddsFetched, ThenPush
<1> QED BY <1>1, <1>5, Silently

LEMMA PushClosureSilent == ASSUME VmInv, PushClosure PROVE Silent
<1>1. Popped \in Int
  BY DEF PushClosure, At, Popped, Pops
<1>2. CASE ctx.frames = << >>
  BY <1>1, <1>2, AddsFetched, Silently DEF PushClosure
<1>3. CASE ctx.frames # << >>
  <2> DEFINE closures == Append(Fetched.closures, [fun |-> Current.x, env |-> Last(ctx.frames).env])
             c == [Fetched EXCEPT !.closures = closures]
             d == Push(c, Cell("closure", Len(c.closures)))
  <2>1. Do(d)
    BY <1>3 DEF PushClosure
  <2> HIDE DEF closures
  <2>2. Adds(ctx, c, 0)
    BY <1>1, AddsFetched, AddsSized, AddsOther, ThenSame
  <2> HIDE DEF c
  <2>3. Adds(ctx, d, 0)
    BY <1>1, <2>2, AddsFetched, ThenPush
  <2> QED BY <2>1, <2>3, Silently
<1> QED BY <1>2, <1>3

LEMMA PushExternSilent == ASSUME VmInv, PushExtern PROVE Silent
<1>1. Popped \in Int
  BY DEF PushExtern, At, Popped, Pops
<1>2. Adds(ctx, Push(Fetched, Cell("extern", Current.x)), 0)
  BY <1>1, AddsFetched, ThenPush
<1> QED BY <1>2, Silently DEF PushExtern

LEMMA PushEnvSilent == ASSUME VmInv, PushEnv PROVE Silent
<1>1. Popped \in Int
  BY DEF PushEnv, At, Popped, Pops
<1>2. CASE ctx.frames = << >>
  BY <1>1, <1>2, AddsFetched, Silently DEF PushEnv
<1>3. CASE ctx.frames # << >>
  <2> DEFINE env == Outward(ctx, Last(ctx.frames).env, Current.x)
             c == IF env \in DOMAIN ctx.envs THEN Push(Fetched, Cell("env", env)) ELSE Crash(ctx)
  <2>1. Do(c)
    BY <1>3 DEF PushEnv
  <2> HIDE DEF env
  <2>2. Adds(ctx, Push(Fetched, Cell("env", env)), 0) /\ Adds(ctx, Crash(ctx), 0)
    BY <1>1, AddsFetched, ThenPush
  <2>3. Adds(ctx, c, 0)
    BY <2>2
  <2> QED BY <2>1, <2>3, Silently
<1> QED BY <1>2, <1>3

LEMMA LocalVarSilent == ASSUME VmInv, LocalVar PROVE Silent
<1>1. Popped \in Int
  BY DEF LocalVar, At, Popped, Pops
<1>2. CASE Operand(1).ty # "env"
  BY <1>1, <1>2, AddsFetched, Silently DEF LocalVar
<1>3. CASE Operand(1).ty = "env"
  <2> DEFINE a == ctx.envs[Operand(1).val].array
             cell == Cell("cell", ArrayRef(Fetched, a, Current.x))
  <2>1. Do(Push(Referred(Fetched, a, Current.x), cell))
    BY <1>3 DEF LocalVar
  <2> HIDE DEF a, cell
  <2>2. Adds(ctx, Push(Referred(Fetched, a, Current.x), cell), 0)
    BY <1>1, AddsFetched, ThenReferred, ThenPush
  <2> QED BY <2>1, <2>2, Silently
<1> QED BY <1>2, <1>3

LEMMA CellGetSilent == ASSUME VmInv, CellGet PROVE Silent
<1>1. Popped \in Int
  BY DEF CellGet, At, Popped, Pops
<1> DEFINE c == IF Operand(1).ty = "cell" THEN Push(Fetched, ctx.cells[Operand(1).val])
                ELSE Abort(Fetched)
<1>2. Do(c)
  BY DEF CellGet
<1>3. Adds(ctx, Push(Fetched, ctx.cells[Operand(1).val]), 0) /\ Adds(ctx, Abort(Fetched), 0)
  BY <1>1, AddsFetched, ThenPush
<1>4. Adds(ctx, c, 0)
  BY <1>3
<1> QED BY <1>2, <1>4, Silently

LEMMA LabelSilent == ASSUME VmInv, Label PROVE Silent
<1>1. Popped \in Int /\ Do(Fetched)
  BY DEF Label, At, Popped, Pops
<1> QED BY <1>1, AddsFetched, Silently

LEMMA PopSilent == ASSUME VmInv, Pop PROVE Silent
<1>1. Popped \in Int /\ Do(Fetched)
  BY DEF Pop, At, Popped, Pops
<1> QED BY <1>1, AddsFetched, Silently

LEMMA JumpUnlessSilent == ASSUME VmInv, JumpUnless PROVE Silent
<1> DEFINE d == [Fetched EXCEPT !.pc = program.labels[Current.x]]
           c == IF Operand(1).ty # "int" THEN Abort(Fetched)
                ELSE IF Operand(1).val = 0 THEN d ELSE Fetched
<1>1. Popped \in Int /\ Do(c)
  BY DEF JumpUnless, At, Popped, Pops
<1>2. Adds(ctx, d, 0)
  BY <1>1, AddsFetched, AddsSized, AddsOther, ThenSame
<1> HIDE DEF d
<1>3. Adds(ctx, c, 0)
  BY <1>1, <1>2, AddsFetched
<1> QED BY <1>1, <1>3, Silently

LEMMA SwapSilent == ASSUME VmInv, Swap PROVE Silent
<1>1. Popped \in Int
  BY DEF Swap, At, Popped, Pops
<1>2. Adds(ctx, Push(Push(Fetched, Operand(2)), Operand(1)), 0)
  BY <1>1, AddsFetched, ThenPush
<1> QED BY <1>2, Silently DEF Swap

LEMMA DupSilent == ASSUME VmInv, Dup PROVE Silent
<1>1. Popped \in Int
  BY DEF Dup, At, Popped, Pops
<1>2. Adds(ctx, Push(Push(Fetched, Operand(1)), Operand(1)), 0)
  BY <1>1, AddsFetched, ThenPush
<1> QED BY <1>2, Silently DEF Dup

LEMMA ErrSilent == ASSUME VmInv, Err PROVE Silent
<1>1. Popped \in Int
  BY DEF Err, At, Popped, Pops
<1> QED BY <1>1, AddsFetched, Silently DEF Err

LEMMA ExitSilent == ASSUME VmInv, Exit PROVE Silent
<1> DEFINE d == [Fetched EXCEPT !.exit = Operand(1).val, !.end = "exit"]
           c == IF Operand(1).ty = "int" THEN d ELSE Abort(Fetched)
<1>1. Popped \in Int /\ Do(c)
  BY DEF Exit, At, Popped, Pops
<1>2. Adds(ctx, d, 0)
  <2>1. Sized(Fetched)
    BY <1>1, AddsFetched, AddsSized
  <2>2. Sized(d) /\ Leaves(Fetched, d)
    BY <2>1 DEF Sized, Leaves
  <2> HIDE DEF d
  <2> QED BY <1>1, <2>1, <2>2, AddsFetched, LeavesAdds, ThenSame
<1> HIDE DEF d
<1>3. Adds(ctx, c, 0)
  BY <1>1, <1>2, AddsFetched
<1> QED BY <1>1, <1>3, Silently

LEMMA ReturnSilent == ASSUME VmInv, Return PROVE Silent
<1> DEFINE frames == Front(ctx.frames)
           pc == Last(ctx.frames).cmd
           d == [ctx EXCEPT !.pc = pc, !.frames = frames]
           c == IF ctx.frames = << >> THEN Crash(ctx) ELSE d
<1>1. Popped \in Int /\ Do(c)
  BY DEF Return, At, Popped, Pops
<1>2. Adds(ctx, d, 0)
  <2> HIDE DEF frames, pc
  <2>1. Sized(ctx)
    BY <1>1, AddsFetched
  <2>2. Sized(d) /\ Leaves(ctx, d)
    BY <2>1 DEF Sized, Leaves
  <2> HIDE DEF d
  <2> QED BY <2>1, <2>2, LeavesAdds
<1> HIDE DEF d
<1>3. Adds(ctx, c, 0)
  BY <1>1, <1>2, AddsFetched
<1> QED BY <1>1, <1>3, Silently

LEMMA CallOtherSilent == ASSUME VmInv, CallOther PROVE Silent
<1>1. Popped \in Int /\ Do(Abort(Fetched))
  BY CallPops DEF CallOther
<1> QED BY <1>1, AddsFetched, Silently

LEMMA TooManyArgsSilent == ASSUME VmInv, TooManyArgs PROVE Silent
<1>1. Sized(ctx) /\ Do(Crash(ctx))
  BY SizedContext DEF TooManyArgs, VmInv, Good
<1>2. Adds(ctx, Crash(ctx), 0)
  BY <1>1, AddsOther DEF Crash
<1> QED BY <1>1, <1>2, Silently

---------------------------------------------------------------------------
\* A closure is entered with an array of its variables.
LEMMA CallClosureSilent == ASSUME VmInv, CallClosure PROVE Silent
<1> DEFINE closure == ctx.closures[Callee.val]
           called == EnvAdd(Fetched, closure.env, closure.fun)
           env == Len(called.envs)
           a == called.envs[env].array
           c == SetItems(called, a, Args)
           pc == program.funs[closure.fun].cmd
           frames == Append(c.frames, [cmd |-> c.pc, env |-> env, base |-> c.top])
           d == [c EXCEPT !.frames = frames, !.pc = pc]
<1>1. AtCall /\ Callee.ty = "closure" /\ Do(d)
  BY DEF CallClosure
<1>2. ASSUME ctx.top >= Popped PROVE Adds(ctx, d, 1)
  <2>1. /\ Good(ctx) /\ SameTables(ctx, Fetched) /\ ProgramOK(program)
        /\ Args \in [1 .. Current.x -> CellsOf(ctx)] /\ Callee \in CellsOf(ctx)
        /\ Current.x \in Nat /\ Popped \in Int
    <3>1. /\ ctx.end = "no" /\ Current.kind = "call" /\ Current.x \in Nat /\ Popped \in Nat
          /\ Args \in [1 .. Current.x -> CellsOf(ctx)] /\ Callee \in CellsOf(ctx)
      BY <1>1, <1>2, CallPops, ArgsOK
    <3> QED BY <1>2, <3>1, Ready
  <2>2. Callee.val \in DOMAIN ctx.closures
    BY <1>1, <2>1 DEF CellsOf, Of
  <2>3. closure.env \in Nat /\ program.funs[closure.fun].len \in Nat
    <3>1. closure.env \in DOMAIN ctx.envs /\ closure.fun \in DOMAIN program.funs
      BY <2>1, <2>2 DEF Good, Refers
    <3>2. program.funs \in Seq([cmd : DOMAIN program.cmds, len : Sizes])
      BY <2>1 DEF ProgramOK
    <3> HIDE DEF closure
    <3>3. program.funs[closure.fun] \in [cmd : DOMAIN program.cmds, len : Sizes]
      BY <3>1, <3>2, ElementOfSeq, Domains
    <3>4. DOMAIN ctx.envs \subseteq Nat
      BY <2>1, Fields, Domains DEF Good
    <3> QED BY <3>1, <3>3, <3>4, Small DEF Sizes
  <2>4. /\ Sized(ctx) /\ Sized(Fetched) /\ Adds(ctx, Fetched, 0) /\ Fetched.envs \in Seq(EnvRec)
        /\ Fetched.arrays = ctx.arrays /\ Fetched.heapEnd = ctx.heapEnd
    <3>1. Sized(ctx) /\ Adds(ctx, Fetched, 0) /\ Fetched.envs = ctx.envs
          /\ Fetched.arrays = ctx.arrays /\ Fetched.heapEnd = ctx.heapEnd
      BY <2>1, AddsFetched
    <3>2. Sized(Fetched) /\ ctx.envs \in Seq(EnvRec)
      BY <2>1, <3>1, AddsSized, Fields DEF Good
    <3> QED BY <3>1, <3>2
  <2> HIDE DEF closure
  <2>5. /\ Adds(Fetched, called, 1) /\ a = Len(Fetched.arrays) + 1
        /\ Len(called.arrays) = Len(Fetched.arrays) + 1
        /\ called.errs = 0 => called.arrays[Len(Fetched.arrays) + 1].l = Fetched.heapEnd
    BY <2>3, <2>4, AddsEnv
  <2> HIDE DEF called, env, a, pc
  <2>6. Adds(ctx, called, 1)
    <3>1. Adds(ctx, called, 0 + 1)
      BY <2>4, <2>5, AddsThen
    <3> QED BY <3>1
  <2>7. a \in DOMAIN called.arrays
    <3>1. called.arrays \in Seq(RangeRec) /\ Fetched.arrays \in Seq(RangeRec)
      BY <2>4, <2>5 DEF Adds, Sized
    <3> QED BY <2>5, <3>1, Domains
  <2>8. Args \in Seq(CellsOf(ctx))
    BY <2>1, FunctionIsSeq
  <2>9. called.errs = 0 => ctx.heapEnd <= called.arrays[a].l
    BY <2>4, <2>5, Small DEF Sized
  <2>10. Adds(ctx, c, 1)
    BY <2>4, <2>6, <2>7, <2>8, <2>9, AddsItems
  <2> HIDE DEF c
  <2>11. Adds(c, d, 0)
    <3> HIDE DEF frames
    <3>1. Sized(c)
      BY <2>10, AddsSized
    <3>2. Sized(d) /\ Leaves(c, d)
      BY <3>1 DEF Sized, Leaves
    <3> HIDE DEF d
    <3> QED BY <3>1, <3>2, LeavesAdds
  <2> HIDE DEF d
  <2> QED BY <2>4, <2>10, <2>11, ThenSame
<1> HIDE DEF d
<1> QED BY <1>1, <1>2, Silently

---------------------------------------------------------------------------
(* The built-in functions.                                                 *)

\* The array of the arguments is above the others, and the cell for the result above
\* that one.
LEMMA ArrangedAdds ==
    ASSUME VmInv, AtCall, ctx.top >= Popped
    PROVE  /\ Sized(ctx) /\ Adds(ctx, Arranged, 1)
           /\ Arranged.errs = 0 => ResultCell \in Int /\ ctx.heapEnd <= ResultCell
<1> DEFINE x == Current.x
           A == ArrayAdd(Fetched, x, x)
           H == HeapAlloc(A, 1)
           n == Len(A.arrays)
<1>1. x \in Nat /\ x \in Int /\ Popped \in Int /\ Args \in [1 .. x -> CellsOf(ctx)]
  BY CallPops, ArgsOK
<1>2. /\ Sized(ctx) /\ Sized(Fetched) /\ Adds(ctx, Fetched, 0)
      /\ Fetched.arrays = ctx.arrays /\ Fetched.heapEnd = ctx.heapEnd
  <2>1. /\ Sized(ctx) /\ Adds(ctx, Fetched, 0)
        /\ Fetched.arrays = ctx.arrays /\ Fetched.heapEnd = ctx.heapEnd
    BY <1>1, AddsFetched
  <2> QED BY <2>1, AddsSized
<1>3. Args \in Seq(CellsOf(ctx))
  BY <1>1, FunctionIsSeq
<1> HIDE DEF x
<1>4. /\ Adds(Fetched, A, 1) /\ n = Len(Fetched.arrays) + 1
      /\ A.errs = 0 => A.arrays[Len(Fetched.arrays) + 1] =
                           [l |-> Fetched.heapEnd, r |-> Fetched.heapEnd + x, len |-> x]
  <2>1. Sized(Fetched) /\ x \in Int /\ x \in Nat
    BY <1>1, <1>2
  <2> HIDE DEF x
  <2>2. /\ Adds(Fetched, A, 1) /\ n = Len(Fetched.arrays) + 1
        /\ A.errs = 0 => A.arrays[Len(Fetched.arrays) + 1] =
                             [l |-> Fetched.heapEnd, r |-> Fetched.heapEnd + x, len |-> x]
    BY <2>1, AddsArray, ZenonT(30)
  <2> QED BY <2>2
<1> HIDE DEF A, n
<1>5. Adds(ctx, A, 1) /\ Sized(A)
  <2>1. Adds(ctx, A, 0 + 1)
    BY <1>2, <1>4, AddsThen
  <2> QED BY <2>1, AddsSized
<1>6. Adds(A, H, 0) /\ H.arrays = A.arrays /\ Sized(H) /\ (H.errs = 0 => A.errs = 0)
  <2>1. Adds(A, H, 0) /\ H.arrays = A.arrays
    BY <1>5, AddsHeapAlloc DEF HeapAlloc, Abort, Sized
  <2> HIDE DEF H
  <2> QED BY <2>1 DEF Adds
<1>7. Adds(ctx, H, 1)
  BY <1>2, <1>5, <1>6, ThenSame
<1>8. H.errs = 0 => ResultCell \in Int /\ ctx.heapEnd <= ResultCell
  <2> SUFFICES ASSUME H.errs = 0 PROVE ResultCell \in Int /\ ctx.heapEnd <= ResultCell
    OBVIOUS
  <2>1. Fits(A, 1)
    BY <1>5 DEF HeapAlloc, Abort, Sized
  <2>2. ResultCell = A.heapEnd
    BY <2>1 DEF ResultCell, AllocatedAt, A, x
  <2> QED BY <1>5, <1>6, <2>2, Small DEF Adds, Sized
<1> HIDE DEF H
<1>9. n \in DOMAIN H.arrays
  BY <1>4, <1>5, <1>6, Domains DEF Sized, n
<1>10. H.errs = 0 => ctx.heapEnd <= H.arrays[n].l
  <2> SUFFICES ASSUME H.errs = 0 PROVE ctx.heapEnd <= H.arrays[n].l
    OBVIOUS
  <2>1. H.arrays[n].l = ctx.heapEnd
    BY <1>2, <1>4, <1>6
  <2> QED BY <1>2, <2>1, Small DEF Sized
<1>11. Arranged = SetItems(H, n, Args)
  BY DEF Arranged, H, n, A, x
<1>12. Adds(ctx, Arranged, 1)
  BY <1>2, <1>3, <1>7, <1>9, <1>10, <1>11, AddsItems
<1>13. Arranged.errs = 0 => H.errs = 0
  <2> DEFINE a == H.arrays[n]
             extra == Len(Args) - a.len
             errs == H.errs + extra
             r == IF extra > 0 THEN [Abort(H) EXCEPT !.errs = errs] ELSE H
  <2>1. Arranged.errs = r.errs
    BY <1>6, <1>11 DEF SetItems, Sized, Abort
  <2>2. H.errs \in Nat /\ a.len \in Int /\ Len(Args) \in Nat
    BY <1>3, <1>6, <1>9, RangeOf, Domains DEF Sized
  <2>3. extra \in Int
    <3> HIDE DEF a
    <3> QED BY <2>2
  <2> HIDE DEF extra
  <2>4. extra > 0 => r.errs = H.errs + extra
    BY <1>6 DEF Sized, Abort
  <2> QED BY <2>1, <2>2, <2>3, <2>4
<1> QED BY <1>2, <1>8, <1>12, <1>13

---------------------------------------------------------------------------
\* The result is written above the arrays that there were.
LEMMA ResolveAdds ==
    ASSUME VmInv, AtCall, ctx.top >= Popped, NEW cell, NEW s
    PROVE  LET c == [Arranged EXCEPT !.strs = s]
           IN /\ Adds(ctx, Abort(Arranged), 1)
              /\ Adds(ctx, Finish(Arranged), 1)
              /\ Adds(ctx, Finish(Resolve(Arranged, cell)), 1)
              /\ Adds(ctx, Finish(Resolve(c, cell)), 1)
<1> DEFINE c == [Arranged EXCEPT !.strs = s]
<1>1. /\ Sized(ctx) /\ Adds(ctx, Arranged, 1) /\ Sized(Arranged)
      /\ Arranged.errs = 0 => ResultCell \in Int /\ ctx.heapEnd <= ResultCell
  BY ArrangedAdds, AddsSized
<1>2. Adds(ctx, c, 1) /\ c.errs = Arranged.errs
  <2>1. Adds(Arranged, c, 0) /\ c.errs = Arranged.errs
    BY <1>1, AddsOther DEF Sized
  <2> HIDE DEF c
  <2> QED BY <1>1, <2>1, ThenSame
<1> HIDE DEF c
<1>3. Adds(ctx, Resolve(Arranged, cell), 1)
  BY <1>1, ThenWrite DEF Resolve
<1>4. Adds(ctx, Resolve(c, cell), 1)
  BY <1>1, <1>2, ThenWrite DEF Resolve
<1>5. Adds(ctx, Abort(Arranged), 1)
  BY <1>1, ThenAbort
<1>6. /\ Adds(ctx, Finish(Arranged), 1) /\ Adds(ctx, Finish(Resolve(Arranged, cell)), 1)
      /\ Adds(ctx, Finish(Resolve(c, cell)), 1)
  BY <1>1, <1>3, <1>4, ThenPush DEF Finish
<1> QED BY <1>3, <1>4, <1>5, <1>6 DEF c

LEMMA ValTypeSilent == ASSUME VmInv, ValType PROVE Silent
<1> DEFINE cell == IntCell(TypeNumber[Arg(1).ty])
           d == Finish(Resolve(Arranged, cell))
           c == IF Takes(<<"any">>) THEN d ELSE Abort(Arranged)
<1>1. AtCall /\ Do(c)
  BY DEF ValType, Builtin
<1> HIDE DEF cell
<1>2. ASSUME ctx.top >= Popped PROVE Adds(ctx, d, 1) /\ Adds(ctx, Abort(Arranged), 1)
  BY <1>1, <1>2, ResolveAdds, Zenon
<1> HIDE DEF d
<1>3. ASSUME ctx.top >= Popped PROVE Adds(ctx, c, 1)
  BY <1>2, <1>3
<1> QED BY <1>1, <1>3, Silently

LEMMA ArrayLenSilent == ASSUME VmInv, ArrayLen PROVE Silent
<1> DEFINE cell == IntCell(ctx.arrays[Arg(1).val].len)
           d == Finish(Resolve(Arranged, cell))
           c == IF Takes(<<"array">>) THEN d ELSE Abort(Arranged)
<1>1. AtCall /\ Do(c)
  BY DEF ArrayLen, Builtin
<1> HIDE DEF cell
<1>2. ASSUME ctx.top >= Popped PROVE Adds(ctx, d, 1) /\ Adds(ctx, Abort(Arranged), 1)
  BY <1>1, <1>2, ResolveAdds, Zenon
<1> HIDE DEF d
<1>3. ASSUME ctx.top >= Popped PROVE Adds(ctx, c, 1)
  BY <1>2, <1>3
<1> QED BY <1>1, <1>3, Silently

LEMMA AssertionSilent == ASSUME VmInv, Assertion PROVE Silent
<1> DEFINE c == IF Takes(<<"int">>) /\ Arg(1).val # 0 THEN Finish(Arranged) ELSE Abort(Arranged)
<1>1. AtCall /\ Do(c)
  BY DEF Assertion, Builtin
<1>2. ASSUME ctx.top >= Popped PROVE Adds(ctx, Finish(Arranged), 1) /\ Adds(ctx, Abort(Arranged), 1)
  BY <1>1, <1>2, ResolveAdds, Zenon
<1>3. ASSUME ctx.top >= Popped PROVE Adds(ctx, c, 1)
  BY <1>2, <1>3
<1> QED BY <1>1, <1>3, Silently

LEMMA StdinToStrSilent == ASSUME VmInv, StdinToStr PROVE Silent
<1> DEFINE strs == Append(Arranged.strs, Input)
           b == [Arranged EXCEPT !.strs = strs]
           cell == Cell("str", Len(b.strs))
           d == Finish(Resolve(b, cell))
           c == IF Takes(<< >>) THEN d ELSE Abort(Arranged)
<1>1. AtCall /\ Do(c)
  BY DEF StdinToStr, Builtin
<1> HIDE DEF cell, strs
<1>2. ASSUME ctx.top >= Popped PROVE Adds(ctx, d, 1) /\ Adds(ctx, Abort(Arranged), 1)
  BY <1>1, <1>2, ResolveAdds, Zenon
<1> HIDE DEF d
<1>3. ASSUME ctx.top >= Popped PROVE Adds(ctx, c, 1)
  BY <1>2, <1>3
<1> QED BY <1>1, <1>3, Silently

LEMMA StrSliceSilent == ASSUME VmInv, StrSlice PROVE Silent
<1> DEFINE s == ctx.strs[Arg(1).val]
           l == Max({Arg(2).val, 0})
           r == Min({Arg(3).val, Len(s)})
           strs == Append(Arranged.strs, SubSeq(s, l + 1, r))
           b == [Arranged EXCEPT !.strs = strs]
           cell == Cell("str", Len(b.strs))
           d == Finish(Resolve(b, cell))
<1>1. /\ AtCall
      /\ Do(IF l > r THEN Crash(ctx) ELSE d) \/ Do(Abort(Arranged))
  BY DEF StrSlice, Builtin
<1> HIDE DEF cell, strs, l, r
<1>2. ASSUME ctx.top >= Popped PROVE Adds(ctx, d, 1) /\ Adds(ctx, Abort(Arranged), 1)
  BY <1>1, <1>2, ResolveAdds, Zenon
<1> HIDE DEF d
<1>3. Adds(ctx, Crash(ctx), 0)
  BY <1>1, CallPops, AddsFetched
<1>4. Do(Crash(ctx)) \/ Do(d) \/ Do(Abort(Arranged))
  BY <1>1
<1> QED BY <1>2, <1>3, <1>4, Silently

---------------------------------------------------------------------------
(* The operators.                                                          *)

LEMMA OpPops == ASSUME VmInv, NEW op, AtOp(op) PROVE Popped \in Int
BY DEF AtOp, At, Popped, Pops

LEMMA CompareSilent ==
    ASSUME VmInv, NEW op, AtOp(op), NEW strs, NEW ints, NEW types, Compare(strs, ints, types)
    PROVE  Silent
<1> DEFINE c == IF Operand(1).ty # Operand(2).ty THEN Push(Fetched, BoolCell(types))
                ELSE IF Ints THEN Push(Fetched, BoolCell(ints))
                ELSE IF Strs THEN Push(Fetched, BoolCell(strs))
                ELSE Abort(Fetched)
<1>1. Do(c) /\ Popped \in Int
  BY OpPops DEF Compare
<1>2. Adds(ctx, c, 0)
  BY <1>1, AddsFetched, ThenPush
<1> QED BY <1>1, <1>2, Silently

LEMMA OpEqSilent == ASSUME VmInv, OpEq PROVE Silent
BY CompareSilent DEF OpEq

LEMMA OpLtSilent == ASSUME VmInv, OpLt PROVE Silent
BY CompareSilent DEF OpLt

LEMMA OpIndexSilent == ASSUME VmInv, OpIndex PROVE Silent
<1> DEFINE s == ctx.strs[L]
           char == IntCell(IF R \in 0 .. Len(s) - 1 THEN s[R + 1] ELSE 0)
           b == Referred(Fetched, L, R)
           item == b.cells[ArrayRef(Fetched, L, R)]
<1>1. Popped \in Int /\ (Do(Push(Fetched, char)) \/ Do(Push(b, item)) \/ Do(Abort(Fetched)))
  BY OpPops DEF OpIndex
<1> HIDE DEF char, item
<1>2. Adds(ctx, b, 0)
  BY <1>1, AddsFetched, ThenReferred
<1> HIDE DEF b
<1>3. Adds(ctx, Push(Fetched, char), 0) /\ Adds(ctx, Push(b, item), 0) /\ Adds(ctx, Abort(Fetched), 0)
  BY <1>1, <1>2, AddsFetched, ThenPush
<1> QED BY <1>1, <1>3, Silently

LEMMA OpIndexRefSilent == ASSUME VmInv, OpIndexRef PROVE Silent
<1> DEFINE b == Referred(Fetched, L, R)
           cell == Cell("cell", ArrayRef(Fetched, L, R))
           twice == Abort(Abort(Fetched))
           stop == Crash(Abort(Fetched))
<1>1. Popped \in Int /\ (Do(Push(b, cell)) \/ Do(twice) \/ Do(stop))
  BY OpPops DEF OpIndexRef
<1> HIDE DEF cell
<1>2. Adds(ctx, b, 0) /\ Adds(ctx, twice, 0) /\ Sized(ctx)
  BY <1>1, AddsFetched, ThenReferred, ThenAbort
<1>3. Adds(ctx, stop, 0)
  BY <1>1, <1>2, AddsFetched, AddsSized, AddsOther, ThenSame DEF Crash
<1> HIDE DEF b, twice, stop
<1>4. Adds(ctx, Push(b, cell), 0)
  BY <1>2, ThenPush
<1> QED BY <1>1, <1>2, <1>3, <1>4, Silently

LEMMA OpAddSilent == ASSUME VmInv, OpAdd PROVE Silent
<1> DEFINE cell == IntCell(Wrapped(L + R))
           s == ctx.strs[L] \o ctx.strs[R]
<1>1. /\ Popped \in Int
      /\ Do(Push(Fetched, cell)) \/ Do(PushNewStr(Fetched, s)) \/ Do(Abort(Fetched))
  BY OpPops DEF OpAdd
<1> HIDE DEF cell, s
<1>2. /\ Adds(ctx, Push(Fetched, cell), 0) /\ Adds(ctx, PushNewStr(Fetched, s), 0)
      /\ Adds(ctx, Abort(Fetched), 0)
  BY <1>1, AddsFetched, ThenPush, ThenNewStr
<1> QED BY <1>1, <1>2, Silently

LEMMA OpArithSilent == ASSUME VmInv, OpArith PROVE Silent
<1> DEFINE cell == IntCell(CASE Current.x = "sub" -> Wrapped(L - R)
                             [] Current.x = "mul" -> Wrapped(L * R)
                             [] Current.x = "div" -> Quotient(L, R)
                             [] Current.x = "mod" -> L - Quotient(L, R) * R)
<1>1. /\ Popped \in Int
      /\ Do(Push(Fetched, cell)) \/ Do(Crash(ctx)) \/ Do(Abort(Fetched))
  BY OpPops DEF OpArith
<1> HIDE DEF cell
<1>2. /\ Adds(ctx, Push(Fetched, cell), 0) /\ Adds(ctx, Crash(ctx), 0)
      /\ Adds(ctx, Abort(Fetched), 0)
  BY <1>1, AddsFetched, ThenPush
<1> QED BY <1>1, <1>2, Silently

---------------------------------------------------------------------------
(* The commands that change an array.                                      *)

\* From c to d there was an error, or only cell p of the heap is another one.
Assigns(c, d, p) ==
    /\ Sized(d)
    /\ d.errs = 0 =>
           /\ c.errs = 0 /\ c.heapEnd <= d.heapEnd /\ d.arrays = c.arrays
           /\ \A i \in StackLen .. c.heapEnd - 1 : i # p => d.cells[i] = c.cells[i]
           /\ Ordered(c) => Ordered(d)

\* From c to d there was an error, or array a is longer or shorter and there are n new
\* ones; as long as a is in its range, no cell but p is another one.
Changes(c, d, n, a, len, p) ==
    /\ Sized(d)
    /\ d.errs = 0 =>
           /\ c.errs = 0 /\ Len(d.arrays) = Len(c.arrays) + n
           /\ \A b \in DOMAIN c.arrays \ {a} : d.arrays[b] = c.arrays[b]
           /\ d.arrays[a] = [c.arrays[a] EXCEPT !.len = len]
           /\ Within(d.arrays[a]) =>
                  \A i \in StackLen .. c.heapEnd - 1 : i # p => d.cells[i] = c.cells[i]
           /\ Ordered(c) => Ordered(d)

Assigned == \E p \in Int : Assigns(ctx, ctx', p)

Pushed ==
    \E n \in {0, 1}, a \in DOMAIN ctx.arrays :
        LET array == ctx.arrays[a]
        IN Changes(ctx, ctx', n, a, array.len + 1, array.l + array.len)

\* No cell is another one.
Shortened ==
    \E a \in DOMAIN ctx.arrays :
        LET len == ctx.arrays[a].len
        IN Changes(ctx, ctx', 1, a, IF len > 0 THEN len - 1 ELSE 0, 0)

LEMMA CellSetAssigns == ASSUME VmInv, CellSet PROVE Silent \/ Assigned
<1>1. Popped \in Nat /\ Popped = 2 /\ ctx.end = "no" /\ Current.kind # "exit"
  BY DEF CellSet, At, Popped, Pops
<1>2. /\ Sized(ctx) /\ Adds(ctx, Abort(Fetched), 0) /\ Adds(ctx, Crash(ctx), 0)
      /\ Sized(Fetched) /\ Fetched.arrays = ctx.arrays /\ Fetched.errs = ctx.errs
      /\ Fetched.heapEnd = ctx.heapEnd /\ Fetched.cells = ctx.cells
  <2>1. Popped \in Int
    BY <1>1
  <2> QED BY <2>1, AddsFetched, AddsSized
<1>3. CASE Operand(1).ty = "cell" /\ ctx.top >= Popped
  <2> DEFINE p == Operand(1).val
             item == Operand(2)
             cells == [Fetched.cells EXCEPT ![p] = item]
             w == [Fetched EXCEPT !.cells = cells]
             d == Push(w, item)
  <2>1. ctx' = d
    BY <1>3 DEF CellSet, Do
  <2>2. p \in Int
    <3>1. Operand(1) \in CellsOf(ctx)
      BY <1>1, <1>3, Ready
    <3> QED BY <3>1, <1>3, Small DEF CellsOf, Of
  <2> HIDE DEF p, item
  <2>3. DOMAIN cells = Places /\ \A i \in Places : i # p => cells[i] = ctx.cells[i]
    BY <1>2 DEF Sized
  <2> HIDE DEF cells
  <2>4. /\ Sized(w) /\ w.arrays = ctx.arrays /\ w.errs = ctx.errs /\ w.heapEnd = ctx.heapEnd
        /\ w.cells = cells
    BY <1>2, <2>3 DEF Sized
  <2> HIDE DEF w
  <2>5. Ordered(ctx) => Ordered(w)
    BY <2>4 DEF Ordered
  <2>6. Adds(w, d, 0)
    BY <2>4, AddsPush
  <2> HIDE DEF d
  <2>7. d.errs = 0 => d.arrays = ctx.arrays
    <3> SUFFICES ASSUME d.errs = 0 PROVE d.arrays = ctx.arrays
      OBVIOUS
    <3> DEFINE x == ctx.arrays
               y == d.arrays
    <3>1. x \in Seq(RangeRec) /\ y \in Seq(RangeRec) /\ Len(y) = Len(x) + 0
          /\ \A a \in DOMAIN x : y[a] = x[a]
      BY <1>2, <2>4, <2>6 DEF Adds, Sized
    <3> HIDE DEF x, y
    <3>2. Len(y) = Len(x)
      BY <3>1, Domains
    <3>3. x = y
      BY <3>1, <3>2, Domains, SeqEqual
    <3> QED BY <3>3 DEF x, y
  <2>8. \A i \in StackLen .. ctx.heapEnd - 1 : i \in Places
    BY <1>2, Small DEF Sized, Places
  <2>9. Assigns(ctx, d, p)
    BY <2>3, <2>4, <2>5, <2>6, <2>7, <2>8 DEF Adds, Assigns
  <2> QED BY <2>1, <2>2, <2>9 DEF Assigned
<1>4. CASE ~(Operand(1).ty = "cell" /\ ctx.top >= Popped)
  <2>1. ctx' = Abort(Fetched) \/ ctx' = Crash(ctx)
    BY <1>4 DEF CellSet, Do
  <2> QED BY <1>2, <2>1 DEF Silent
<1> QED BY <1>3, <1>4

LEMMA PushChanges ==
    ASSUME NEW b, NEW c, NEW n \in {0, 1}, Sized(b), Adds(b, c, n),
           NEW a \in DOMAIN b.arrays, a \in DOMAIN c.arrays, c.arrays[a].len \in Nat,
           NEW item, NEW d, Adds(ArrayPush(c, a, item), d, 0)
    PROVE  Changes(b, d, n, a, b.arrays[a].len + 1, b.arrays[a].l + b.arrays[a].len)
<1> DEFINE e == ArrayPush(c, a, item)
           array == b.arrays[a]
           at == c.arrays[a].l + c.arrays[a].len
<1>1. Sized(c)
  BY AddsSized
<1>2. /\ Resizes(c, e, a, c.arrays[a].len + 1)
      /\ c.arrays[a].len + 1 <= c.arrays[a].r - c.arrays[a].l =>
             /\ e.heapEnd = c.heapEnd
             /\ \A i \in Places \ {at} : e.cells[i] = c.cells[i]
  BY <1>1, PushResizes
<1> HIDE DEF e
<1> SUFFICES ASSUME d.errs = 0
             PROVE  /\ b.errs = 0 /\ Len(d.arrays) = Len(b.arrays) + n
                    /\ \A x \in DOMAIN b.arrays \ {a} : d.arrays[x] = b.arrays[x]
                    /\ d.arrays[a] = [array EXCEPT !.len = array.len + 1]
                    /\ Within(d.arrays[a]) =>
                           \A i \in StackLen .. b.heapEnd - 1 :
                               i # array.l + array.len => d.cells[i] = b.cells[i]
                    /\ Ordered(b) => Ordered(d)
  BY DEF Changes, Adds, e
<1>3. /\ e.errs = 0 /\ Len(d.arrays) = Len(e.arrays) + 0
      /\ \A x \in DOMAIN e.arrays : d.arrays[x] = e.arrays[x]
      /\ \A i \in StackLen .. e.heapEnd - 1 : d.cells[i] = e.cells[i]
      /\ Ordered(e) => Ordered(d)
  BY DEF Adds, e
<1>4. /\ c.errs = 0 /\ DOMAIN e.arrays = DOMAIN c.arrays /\ Sized(e) /\ c.heapEnd <= e.heapEnd
      /\ \A x \in DOMAIN c.arrays \ {a} : e.arrays[x] = c.arrays[x]
      /\ e.arrays[a] = [c.arrays[a] EXCEPT !.len = c.arrays[a].len + 1]
      /\ Ordered(c) => Ordered(e)
  BY <1>2, <1>3 DEF Resizes
<1>5. /\ b.errs = 0 /\ b.heapEnd <= c.heapEnd /\ Len(c.arrays) = Len(b.arrays) + n
      /\ \A x \in DOMAIN b.arrays : c.arrays[x] = b.arrays[x]
      /\ \A i \in StackLen .. b.heapEnd - 1 : c.cells[i] = b.cells[i]
      /\ Ordered(b) => Ordered(c)
  BY <1>4 DEF Adds
<1>6. /\ Len(b.arrays) \in Nat /\ DOMAIN b.arrays = 1 .. Len(b.arrays)
      /\ Len(c.arrays) \in Nat /\ DOMAIN c.arrays = 1 .. Len(c.arrays)
      /\ Len(e.arrays) \in Nat /\ DOMAIN e.arrays = 1 .. Len(e.arrays)
  BY <1>1, <1>4, Domains DEF Sized
<1>7. Len(e.arrays) = Len(c.arrays)
  BY <1>4, <1>6
<1>8. Len(d.arrays) = Len(b.arrays) + n
  BY <1>3, <1>5, <1>6, <1>7
<1>9. DOMAIN b.arrays \subseteq DOMAIN c.arrays
  BY <1>5, <1>6
<1>10. \A x \in DOMAIN b.arrays \ {a} : d.arrays[x] = b.arrays[x]
  BY <1>3, <1>4, <1>5, <1>9
<1>11. c.arrays[a] = array /\ d.arrays[a] = [array EXCEPT !.len = array.len + 1]
  BY <1>3, <1>4, <1>5
<1>12. ASSUME Within(d.arrays[a]), NEW i \in StackLen .. b.heapEnd - 1, i # array.l + array.len
       PROVE  d.cells[i] = b.cells[i]
  <2>1. array \in RangeRec
    BY RangeOf
  <2>2. array.len + 1 <= array.r - array.l
    <3>1. /\ d.arrays[a].len = array.len + 1 /\ d.arrays[a].l = array.l /\ d.arrays[a].r = array.r
      <4> HIDE DEF array
      <4> QED BY <1>11, <2>1 DEF RangeRec
    <3> QED BY <1>12, <3>1 DEF Within
  <2>3. \A j \in Places \ {at} : e.cells[j] = c.cells[j]
    BY <1>2, <1>11, <2>2
  <2>4. i \in Places /\ i \in StackLen .. e.heapEnd - 1
    <3>1. /\ b.heapEnd \in StackLen .. CellLen - 1 /\ c.heapEnd \in StackLen .. CellLen - 1
          /\ e.heapEnd \in StackLen .. CellLen - 1
      BY <1>1, <1>4 DEF Sized
    <3> DEFINE p == b.heapEnd
               q == c.heapEnd
               r == e.heapEnd
    <3>2. p <= q /\ q <= r /\ i \in StackLen .. p - 1
      BY <1>4, <1>5, <1>12
    <3> HIDE DEF p, q, r
    <3>3. /\ p \in StackLen .. CellLen - 1 /\ q \in StackLen .. CellLen - 1
          /\ r \in StackLen .. CellLen - 1
      BY <3>1 DEF p, q, r
    <3>4. i \in 0 .. CellLen - 1 /\ i \in StackLen .. r - 1
      BY <3>2, <3>3, Small
    <3> QED BY <3>4 DEF Places, r
  <2>5. i # at
    BY <1>11, <1>12
  <2> QED BY <1>3, <1>5, <2>3, <2>4, <2>5
<1> QED BY <1>3, <1>4, <1>5, <1>8, <1>10, <1>11, <1>12

LEMMA OpArrayPushed == ASSUME VmInv, OpArrayPush PROVE Silent \/ Pushed
<1>1. Popped \in Int /\ AtOp("array_push")
  BY OpPops DEF OpArrayPush
<1>2. /\ Sized(ctx) /\ Adds(ctx, Fetched, 0) /\ Adds(ctx, Crash(ctx), 0)
      /\ Fetched.arrays = ctx.arrays
  BY <1>1, AddsFetched
<1>3. CASE Operand(1).ty = "array" /\ ctx.top >= Popped
  <2> DEFINE e == ArrayPush(Fetched, L, Operand(2))
             d == Push(e, Operand(1))
  <2>1. ctx' = d
    BY <1>3 DEF OpArrayPush, Do
  <2>2. L \in DOMAIN ctx.arrays /\ ctx.arrays[L].len \in Nat
    <3>1. Operand(1) \in CellsOf(ctx) /\ Good(ctx)
      BY <1>1, <1>3, OperandsOK
    <3>2. L \in DOMAIN ctx.arrays
      BY <3>1, <1>3 DEF CellsOf, Of, L
    <3>3. ctx.arrays[L] \in ArrayRec
      BY <3>1, <3>2, EachArray
    <3> QED BY <3>2, <3>3 DEF ArrayRec
  <2>3. Sized(e)
    <3>1. Sized(Fetched) /\ L \in DOMAIN Fetched.arrays /\ Fetched.arrays[L].len \in Nat
      BY <1>2, <2>2, AddsSized
    <3> QED BY <3>1, PushResizes DEF Resizes
  <2>4. Adds(e, d, 0)
    BY <2>3, AddsPush
  <2> HIDE DEF d
  <2>5. Changes(ctx, d, 0, L, ctx.arrays[L].len + 1, ctx.arrays[L].l + ctx.arrays[L].len)
    BY <1>2, <2>2, <2>4, PushChanges
  <2> QED BY <2>1, <2>2, <2>5 DEF Pushed
<1>4. CASE ~(Operand(1).ty = "array" /\ ctx.top >= Popped)
  <2>1. ctx' = Crash(ctx)
    BY <1>4 DEF OpArrayPush, Do
  <2> QED BY <1>2, <2>1 DEF Silent
<1> QED BY <1>3, <1>4

\* The array that a built-in function is given.
LEMMA ArgumentOK ==
    ASSUME VmInv, AtCall, ctx.top >= Popped, 1 \in 1 .. Current.x, Arg(1).ty = "array"
    PROVE  /\ Arg(1).val \in DOMAIN ctx.arrays /\ Arg(1).val \in DOMAIN Arranged.arrays
           /\ Arranged.arrays[Arg(1).val].len \in Nat /\ ctx.arrays[Arg(1).val].len \in Nat
<1>1. /\ Arg(1) \in CellsOf(ctx) /\ Good(ctx) /\ Good(Arranged)
      /\ DOMAIN ctx.arrays \subseteq DOMAIN Arranged.arrays
  BY ArrangedOK DEF Fine
<1>2. Arg(1).val \in DOMAIN ctx.arrays
  BY <1>1 DEF CellsOf, Of
<1>3. ctx.arrays[Arg(1).val] \in ArrayRec /\ Arranged.arrays[Arg(1).val] \in ArrayRec
  BY <1>1, <1>2, EachArray
<1> QED BY <1>1, <1>2, <1>3 DEF ArrayRec

LEMMA CallArrayPushed == ASSUME VmInv, CallArrayPush PROVE Silent \/ Pushed
<1>1. AtCall /\ Popped \in Int
  BY CallPops DEF CallArrayPush, Builtin
<1>2. Sized(ctx) /\ Adds(ctx, Crash(ctx), 0)
  BY <1>1, AddsFetched
<1>3. CASE Takes(<<"array", "any">>) /\ ctx.top >= Popped
  <2> DEFINE a == Arg(1).val
             e == ArrayPush(Arranged, a, Arg(2))
             d == Push(e, e.cells[ResultCell])
  <2>1. ctx' = d
    BY <1>3 DEF CallArrayPush, Do, Finish
  <2>2. /\ a \in DOMAIN ctx.arrays /\ a \in DOMAIN Arranged.arrays
        /\ Arranged.arrays[a].len \in Nat /\ ctx.arrays[a].len \in Nat
    BY <1>1, <1>3, ArgumentOK DEF Takes
  <2>3. Adds(ctx, Arranged, 1) /\ Sized(Arranged)
    BY <1>1, <1>3, ArrangedAdds, AddsSized
  <2> HIDE DEF a
  <2>4. Sized(e)
    BY <2>2, <2>3, PushResizes DEF Resizes
  <2>5. Adds(e, d, 0)
    BY <2>4, AddsPush
  <2> HIDE DEF d
  <2>6. Changes(ctx, d, 1, a, ctx.arrays[a].len + 1, ctx.arrays[a].l + ctx.arrays[a].len)
    BY <1>2, <2>2, <2>3, <2>5, PushChanges
  <2> QED BY <2>1, <2>2, <2>6 DEF Pushed
<1>4. CASE ~Takes(<<"array", "any">>) /\ ctx.top >= Popped
  <2>1. ctx' = Abort(Arranged)
    BY <1>4 DEF CallArrayPush, Do
  <2>2. Adds(ctx, Abort(Arranged), 1)
    BY <1>1, <1>2, <1>4, ArrangedAdds, ThenAbort
  <2> QED BY <2>1, <2>2 DEF Silent
<1>5. CASE ~(ctx.top >= Popped)
  <2>1. ctx' = Crash(ctx)
    BY <1>5 DEF CallArrayPush, Do
  <2> QED BY <1>2, <2>1 DEF Silent
<1> QED BY <1>3, <1>4, <1>5

LEMMA ArrayPopShortens == ASSUME VmInv, ArrayPop PROVE Silent \/ Shortened
<1>1. AtCall /\ Popped \in Int
  BY CallPops DEF ArrayPop, Builtin
<1>2. Sized(ctx) /\ Adds(ctx, Crash(ctx), 0)
  BY <1>1, AddsFetched
<1>3. CASE Takes(<<"array">>) /\ ctx.top >= Popped
  <2> DEFINE a == Arg(1).val
             len == Arranged.arrays[a].len
             n == IF len > 0 THEN len - 1 ELSE 0
             e == SetLen(Arranged, a, n)
             d == Push(e, e.cells[ResultCell])
             k == ctx.arrays[a].len
             m == IF k > 0 THEN k - 1 ELSE 0
  <2>1. ctx' = d
    BY <1>3 DEF ArrayPop, Do, Finish
  <2>2. /\ a \in DOMAIN ctx.arrays /\ a \in DOMAIN Arranged.arrays
        /\ len \in Nat /\ k \in Nat
    BY <1>1, <1>3, ArgumentOK DEF Takes
  <2>3. Adds(ctx, Arranged, 1) /\ Sized(Arranged)
    BY <1>1, <1>3, ArrangedAdds, AddsSized
  <2>4. n \in Int
    BY <2>2
  <2>5. Arranged.errs = 0 => n = m
    BY <2>2, <2>3 DEF Adds
  <2> HIDE DEF a, n, m, k, len
  <2>6. /\ Resizes(Arranged, e, a, n) /\ e.errs = Arranged.errs /\ e.cells = Arranged.cells
        /\ e.heapEnd = Arranged.heapEnd /\ Sized(e)
    BY <2>2, <2>3, <2>4, SetLenResizes DEF Resizes
  <2> HIDE DEF e
  <2>7. Adds(e, d, 0)
    BY <2>6, AddsPush
  <2> HIDE DEF d
  <2>8. ASSUME d.errs = 0
        PROVE  /\ ctx.errs = 0 /\ Len(d.arrays) = Len(ctx.arrays) + 1
               /\ \A b \in DOMAIN ctx.arrays \ {a} : d.arrays[b] = ctx.arrays[b]
               /\ d.arrays[a] = [ctx.arrays[a] EXCEPT !.len = m]
               /\ \A i \in StackLen .. ctx.heapEnd - 1 : d.cells[i] = ctx.cells[i]
               /\ Ordered(ctx) => Ordered(d)
    <3>1. /\ e.errs = 0 /\ Len(d.arrays) = Len(e.arrays) + 0
          /\ \A x \in DOMAIN e.arrays : d.arrays[x] = e.arrays[x]
          /\ \A i \in StackLen .. e.heapEnd - 1 : d.cells[i] = e.cells[i]
          /\ Ordered(e) => Ordered(d)
      BY <2>7, <2>8 DEF Adds
    <3>2. /\ Arranged.errs = 0 /\ DOMAIN e.arrays = DOMAIN Arranged.arrays
          /\ \A x \in DOMAIN Arranged.arrays \ {a} : e.arrays[x] = Arranged.arrays[x]
          /\ e.arrays[a] = [Arranged.arrays[a] EXCEPT !.len = n]
          /\ Ordered(Arranged) => Ordered(e)
      BY <2>6, <3>1 DEF Resizes
    <3>3. /\ ctx.errs = 0 /\ ctx.heapEnd <= Arranged.heapEnd
          /\ Len(Arranged.arrays) = Len(ctx.arrays) + 1
          /\ \A x \in DOMAIN ctx.arrays : Arranged.arrays[x] = ctx.arrays[x]
          /\ \A i \in StackLen .. ctx.heapEnd - 1 : Arranged.cells[i] = ctx.cells[i]
          /\ Ordered(ctx) => Ordered(Arranged)
      BY <2>3, <3>2 DEF Adds
    <3>4. /\ Len(ctx.arrays) \in Nat /\ DOMAIN ctx.arrays = 1 .. Len(ctx.arrays)
          /\ Len(Arranged.arrays) \in Nat /\ DOMAIN Arranged.arrays = 1 .. Len(Arranged.arrays)
          /\ Len(e.arrays) \in Nat /\ DOMAIN e.arrays = 1 .. Len(e.arrays)
      BY <1>2, <2>3, <2>6, Domains DEF Sized
    <3>5. Len(e.arrays) = Len(Arranged.arrays)
      BY <3>2, <3>4
    <3>6. Len(d.arrays) = Len(ctx.arrays) + 1
      BY <3>1, <3>3, <3>4, <3>5
    <3>7. DOMAIN ctx.arrays \subseteq DOMAIN Arranged.arrays
      BY <3>3, <3>4
    <3>8. \A b \in DOMAIN ctx.arrays \ {a} : d.arrays[b] = ctx.arrays[b]
      BY <3>1, <3>2, <3>3, <3>7
    <3>9. d.arrays[a] = [ctx.arrays[a] EXCEPT !.len = m]
      BY <2>2, <2>5, <3>1, <3>2, <3>3
    <3>10. \A i \in StackLen .. ctx.heapEnd - 1 : d.cells[i] = ctx.cells[i]
      <4>1. /\ ctx.heapEnd \in StackLen .. CellLen - 1 /\ e.heapEnd \in StackLen .. CellLen - 1
            /\ ctx.heapEnd <= e.heapEnd
        BY <1>2, <2>6, <3>3 DEF Sized
      <4>2. \A i \in StackLen .. ctx.heapEnd - 1 : i \in StackLen .. e.heapEnd - 1
        BY <4>1, Small
      <4> QED BY <2>6, <3>1, <3>3, <4>2
    <3> QED BY <3>1, <3>2, <3>3, <3>6, <3>8, <3>9, <3>10
  <2>9. Sized(d)
    BY <2>7, AddsSized
  <2>10. Changes(ctx, d, 1, a, m, 0)
    BY <2>8, <2>9 DEF Changes
  <2> QED BY <2>1, <2>2, <2>10 DEF Shortened, m, k
<1>4. CASE ~Takes(<<"array">>) /\ ctx.top >= Popped
  <2>1. ctx' = Abort(Arranged)
    BY <1>4 DEF ArrayPop, Do
  <2>2. Adds(ctx, Abort(Arranged), 1)
    BY <1>1, <1>2, <1>4, ArrangedAdds, ThenAbort
  <2> QED BY <2>1, <2>2 DEF Silent
<1>5. CASE ~(ctx.top >= Popped)
  <2>1. ctx' = Crash(ctx)
    BY <1>5 DEF ArrayPop, Do
  <2> QED BY <1>2, <2>1 DEF Silent
<1> QED BY <1>3, <1>4, <1>5

---------------------------------------------------------------------------
(* The ranges stay one after the other.                                    *)

LEMMA Kinds == ASSUME VmInv, Next PROVE Silent \/ Assigned \/ Pushed \/ Shortened
<1>1. CASE PushInt
  BY <1>1, PushIntSilent
<1>2. CASE PushStr
  BY <1>2, PushStrSilent
<1>3. CASE PushArray
  BY <1>3, PushArraySilent
<1>4. CASE PushClosure
  BY <1>4, PushClosureSilent
<1>5. CASE PushExtern
  BY <1>5, PushExternSilent
<1>6. CASE PushEnv
  BY <1>6, PushEnvSilent
<1>7. CASE LocalVar
  BY <1>7, LocalVarSilent
<1>8. CASE CellGet
  BY <1>8, CellGetSilent
<1>9. CASE CellSet
  BY <1>9, CellSetAssigns
<1>10. CASE Label
  BY <1>10, LabelSilent
<1>11. CASE JumpUnless
  BY <1>11, JumpUnlessSilent
<1>12. CASE Pop
  BY <1>12, PopSilent
<1>13. CASE Swap
  BY <1>13, SwapSilent
<1>14. CASE Dup
  BY <1>14, DupSilent
<1>15. CASE CallClosure
  BY <1>15, CallClosureSilent
<1>16. CASE CallExtern
  BY <1>16, ValTypeSilent, StrSliceSilent, ArrayLenSilent, CallArrayPushed, ArrayPopShortens,
     AssertionSilent, StdinToStrSilent DEF CallExtern
<1>17. CASE CallOther
  BY <1>17, CallOtherSilent
<1>18. CASE TooManyArgs
  BY <1>18, TooManyArgsSilent
<1>19. CASE Return
  BY <1>19, ReturnSilent
<1>20. CASE Operate
  BY <1>20, OpEqSilent, OpLtSilent, OpIndexSilent, OpIndexRefSilent, OpArrayPushed,
     OpAddSilent, OpArithSilent DEF Operate
<1>21. CASE Err
  BY <1>21, ErrSilent
<1>22. CASE Exit
  BY <1>22, ExitSilent
<1> QED
  BY <1>1, <1>2, <1>3, <1>4, <1>5, <1>6, <1>7, <1>8, <1>9, <1>10, <1>11, <1>12, <1>13, <1>14,
     <1>15, <1>16, <1>17, <1>18, <1>19, <1>20, <1>21, <1>22 DEF Next

\* Until there is an error the ranges are in order.
InOrder == ctx.errs = 0 => Ordered(ctx)

LEMMA KeepsOrder ==
    ASSUME Silent \/ Assigned \/ Pushed \/ Shortened, ctx'.errs = 0
    PROVE  ctx.errs = 0 /\ (Ordered(ctx) => Ordered(ctx'))
<1>1. CASE Silent
  BY <1>1 DEF Silent, Adds
<1>2. CASE Assigned
  BY <1>2 DEF Assigned, Assigns
<1>3. CASE Pushed
  BY <1>3 DEF Pushed, Changes
<1>4. CASE Shortened
  BY <1>4 DEF Shortened, Changes
<1> QED BY <1>1, <1>2, <1>3, <1>4

LEMMA OrderKept == ASSUME VmInv, InOrder, [Next]_vars PROVE InOrder'
<1>1. CASE Next
  <2> SUFFICES ASSUME ctx'.errs = 0 PROVE Ordered(ctx')
    BY DEF InOrder, Ordered
  <2> QED BY <1>1, Kinds, KeepsOrder DEF InOrder
<1>2. CASE UNCHANGED vars
  BY <1>2 DEF vars, InOrder, Ordered
<1> QED BY <1>1, <1>2

\* The array of the global variables is the first.
LEMMA OrderBegins == ASSUME Init PROVE InOrder
<1> DEFINE c == [cells |-> [i \in 0 .. CellLen - 1 |-> Fresh], top |-> 0, heapEnd |-> StackLen,
                 arrays |-> << >>, strs |-> << >>, envs |-> << >>, closures |-> << >>,
                 frames |-> << >>, pc |-> 2, errs |-> 0, exit |-> 1,
                 end |-> IF program.ok THEN "no" ELSE "crash"]
           fun == Len(program.funs)
           d == EnvAdd(c, 0, fun)
           frames == <<[cmd |-> ExitPc, env |-> 1, base |-> 0]>>
<1>1. ctx = [d EXCEPT !.frames = frames] /\ program \in Programs
  BY DEF Init
<1>2. /\ Sized(c) /\ c.envs \in Seq(EnvRec) /\ Ordered(c)
  <2>1. /\ c.errs = 0 /\ c.top = 0 /\ c.heapEnd = StackLen /\ c.arrays = << >> /\ c.envs = << >>
        /\ DOMAIN c.cells = Places
        /\ DOMAIN c = {"cells", "top", "heapEnd", "arrays", "strs", "envs", "closures", "frames",
                       "pc", "errs", "exit", "end"}
    BY DEF Places
  <2> HIDE DEF c
  <2>2. << >> \in Seq(RangeRec) /\ << >> \in Seq(EnvRec) /\ DOMAIN << >> = {}
    OBVIOUS
  <2>3. StackLen \in StackLen .. CellLen - 1
    BY Small
  <2>4. Sized(c)
    BY <2>1, <2>2, <2>3 DEF Sized
  <2>5. Ordered(c)
    BY <2>1, <2>2 DEF Ordered
  <2> QED BY <2>1, <2>2, <2>4, <2>5
<1>3. program.funs[fun].len \in Nat
  <2>1. program.funs # << >> /\ program.funs \in Seq([cmd : DOMAIN program.cmds, len : Sizes])
    BY <1>1, ProgramsAssumption DEF ProgramOK
  <2>2. fun \in 1 .. Len(program.funs)
    BY <2>1, EmptySeq, Domains
  <2>3. program.funs[fun] \in [cmd : DOMAIN program.cmds, len : Sizes]
    BY <2>1, <2>2, ElementOfSeq
  <2> QED BY <2>3, Small DEF Sizes
<1> HIDE DEF c, fun
<1>4. Adds(c, d, 1)
  BY <1>2, <1>3, AddsEnv
<1> HIDE DEF d, frames
<1>5. ctx.errs = d.errs /\ ctx.heapEnd = d.heapEnd /\ ctx.arrays = d.arrays
  BY <1>1, <1>4 DEF Adds, Sized
<1> QED BY <1>2, <1>4, <1>5 DEF InOrder, Adds, Ordered

THEOREM OrderHolds == Spec => []InOrder
<1>1. Init => InOrder
  BY OrderBegins
<1>2. VmInv /\ InOrder /\ [Next]_vars => InOrder'
  BY OrderKept
<1> QED BY <1>1, <1>2, VmInvariant, PTL DEF Spec

LEMMA OrderedApart ==
    ASSUME NEW c, Sized(c), Ordered(c), NEW a \in DOMAIN c.arrays, NEW b \in DOMAIN c.arrays,
           a # b, Within(c.arrays[a])
    PROVE  (c.arrays[a].l .. c.arrays[a].l + c.arrays[a].len - 1)
               \cap (c.arrays[b].l .. c.arrays[b].r - 1) = {}
<1> DEFINE al == c.arrays[a].l
           ar == c.arrays[a].r
           an == c.arrays[a].len
           bl == c.arrays[b].l
           br == c.arrays[b].r
<1>1. /\ al \in Int /\ ar \in Int /\ an \in Int /\ bl \in Int /\ br \in Int
  BY RangeOf
<1>2. a < b \/ b < a
  BY Domains DEF Sized
<1>3. ar <= bl \/ br <= al
  BY <1>2 DEF Ordered
<1>4. an <= ar - al
  BY DEF Within
<1> HIDE DEF al, ar, an, bl, br
<1>5. (al .. al + an - 1) \cap (bl .. br - 1) = {}
  BY <1>1, <1>3, <1>4
<1> QED BY <1>5 DEF al, ar, an, bl, br

\* The elements of an array that is in its range are never in the range of another one,
\* for every program and every size of the memory, until there is an error.
THEOREM ArraysApartHolds == Spec => []ArraysApart
<1>1. VmInv /\ InOrder => ArraysApart
  <2> SUFFICES ASSUME VmInv, InOrder PROVE ArraysApart
    OBVIOUS
  <2>1. Sized(ctx)
    BY SizedContext DEF VmInv, Good
  <2> QED BY <2>1, OrderedApart DEF ArraysApart, InOrder
<1> QED BY <1>1, VmInvariant, OrderHolds, PTL

---------------------------------------------------------------------------
(* What the program sees.                                                  *)

StoreOf(c) == [a \in DOMAIN c.arrays |-> Elements(c, a)]

LEMMA StoreShape ==
    ASSUME NEW c, Sized(c)
    PROVE  /\ DOMAIN StoreOf(c) = DOMAIN c.arrays
           /\ Len(StoreOf(c)) = Len(c.arrays)
           /\ \A a \in DOMAIN c.arrays : StoreOf(c)[a] = Elements(c, a)
<1> DEFINE S == {Elements(c, a) : a \in DOMAIN c.arrays}
           n == Len(c.arrays)
<1>1. DOMAIN c.arrays = 1 .. n /\ n \in Nat
  BY Domains DEF Sized
<1>2. StoreOf(c) \in [1 .. n -> S]
  BY <1>1 DEF StoreOf
<1>3. Len(StoreOf(c)) = n
  <2> HIDE DEF S, n
  <2> QED BY <1>1, <1>2, FunctionIsSeq
<1> QED BY <1>3 DEF StoreOf

LEMMA ElementsShape ==
    ASSUME NEW c, NEW a, c.arrays[a].len \in Nat
    PROVE  /\ Len(Elements(c, a)) = c.arrays[a].len
           /\ DOMAIN Elements(c, a) = 1 .. c.arrays[a].len
           /\ \A i \in 1 .. c.arrays[a].len : Elements(c, a)[i] = c.cells[c.arrays[a].l + i - 1]
           /\ \E S : Elements(c, a) \in Seq(S)
<1> DEFINE n == c.arrays[a].len
           at(i) == c.cells[c.arrays[a].l + i - 1]
           S == {at(i) : i \in 1 .. n}
           f == [i \in 1 .. n |-> at(i)]
<1>1. Elements(c, a) = f
  BY DEF Elements
<1>2. f \in [1 .. n -> S]
  OBVIOUS
<1>3. \A i \in 1 .. n : f[i] = at(i)
  OBVIOUS
<1>4. DOMAIN f = 1 .. n
  OBVIOUS
<1> HIDE DEF S, f, n
<1>5. f \in Seq(S) /\ Len(f) = n
  BY <1>2, FunctionIsSeq DEF n
<1> QED BY <1>1, <1>3, <1>4, <1>5 DEF n

\* Where neither the array nor a cell of it is another one, its elements are the same.
LEMMA SameElements ==
    ASSUME NEW c, NEW d, NEW a, d.arrays[a] = c.arrays[a],
           \A i \in c.arrays[a].l .. c.arrays[a].l + c.arrays[a].len - 1 : d.cells[i] = c.cells[i],
           c.arrays[a].l \in Int, c.arrays[a].len \in Int
    PROVE  Elements(d, a) = Elements(c, a)
<1> DEFINE l == c.arrays[a].l
           n == c.arrays[a].len
<1>1. l \in Int /\ n \in Int
  OBVIOUS
<1>2. \A i \in 1 .. n : l + i - 1 \in l .. l + n - 1
  <2> HIDE DEF l, n
  <2> QED BY <1>1
<1>3. \A i \in 1 .. n : d.cells[l + i - 1] = c.cells[l + i - 1]
  BY <1>2
<1> QED BY <1>3 DEF Elements

\* Where the elements of an array are.
LEMMA InHeap ==
    ASSUME NEW c, Sized(c), Ordered(c), NEW a \in DOMAIN c.arrays, NEW len \in Int,
           len <= c.arrays[a].r - c.arrays[a].l
    PROVE  \A i \in c.arrays[a].l .. c.arrays[a].l + len - 1 : i \in StackLen .. c.heapEnd - 1
<1> DEFINE l == c.arrays[a].l
           r == c.arrays[a].r
           h == c.heapEnd
<1>1. l \in Int /\ r \in Int
  BY RangeOf
<1>2. h \in Int
  BY Small DEF Sized
<1>3. StackLen <= l /\ r <= h /\ len <= r - l
  BY DEF Ordered
<1> HIDE DEF l, r, h
<1>4. \A i \in l .. l + len - 1 : i \in StackLen .. h - 1
  BY <1>1, <1>2, <1>3, Small
<1> QED BY <1>4 DEF l, h

\* A step of the store.
LEMMA StoreSame ==
    ASSUME NEW n \in {0, 1}, Len(store') = Len(store) + n, Len(store) \in Nat,
           \A a \in DOMAIN store : store'[a] = store[a]
    PROVE  Store!Next
<1>1. CASE n = 0
  <2>1. Store!Set
    BY <1>1 DEF Store!Set, Store!Change, Store!Same
  <2> QED BY <2>1 DEF Store!Next
<1>2. CASE n = 1
  <2>1. Store!Make
    BY <1>2 DEF Store!Make, Store!Change, Store!Same
  <2> QED BY <2>1 DEF Store!Next
<1> QED BY <1>1, <1>2

LEMMA StorePut ==
    ASSUME Len(store') = Len(store), NEW b,
           \A a \in DOMAIN store \ {b} : store'[a] = store[a], Store!Put(b)
    PROVE  Store!Next
<1>1. Store!Set
  BY DEF Store!Set, Store!Change, Store!Same
<1> QED BY <1>1 DEF Store!Next

LEMMA StorePushed ==
    ASSUME NEW n \in {0, 1}, Len(store') = Len(store) + n, Len(store) \in Nat, NEW b,
           \A a \in DOMAIN store \ {b} : store'[a] = store[a], Store!Push(b)
    PROVE  Store!Next
<1>1. CASE n = 0
  <2>1. Store!Extend
    BY <1>1 DEF Store!Extend, Store!Change, Store!Same
  <2> QED BY <2>1 DEF Store!Next
<1>2. CASE n = 1
  <2>1. Store!Make
    BY <1>2 DEF Store!Make, Store!Change, Store!Same
  <2> QED BY <2>1 DEF Store!Next
<1> QED BY <1>1, <1>2

LEMMA StorePopped ==
    ASSUME Len(store') = Len(store) + 1, NEW b,
           \A a \in DOMAIN store \ {b} : store'[a] = store[a], Store!Pop(b)
    PROVE  Store!Next
<1>1. Store!Make
  BY DEF Store!Make, Store!Change, Store!Same
<1> QED BY <1>1 DEF Store!Next

---------------------------------------------------------------------------
(* Each kind of step is one of the store.                                  *)

\* What a step finds that ends without an error and with every array in its range.
Before ==
    /\ Sized(ctx) /\ Sized(ctx') /\ Ordered(ctx) /\ ctx'.errs = 0 /\ ElementsInRange'
    /\ \A a \in DOMAIN ctx.arrays : ctx.arrays[a].len \in Nat
    /\ \A a \in DOMAIN ctx'.arrays : ctx'.arrays[a].len \in Nat

LEMMA Stores ==
    ASSUME Before
    PROVE  /\ DOMAIN store = DOMAIN ctx.arrays
           /\ Len(store) = Len(ctx.arrays) /\ Len(store') = Len(ctx'.arrays)
           /\ Len(store) \in Nat
           /\ \A a \in DOMAIN ctx.arrays : store[a] = Elements(ctx, a)
           /\ \A a \in DOMAIN ctx'.arrays : store'[a] = Elements(ctx', a)
           /\ \A a \in DOMAIN ctx'.arrays : Within(ctx'.arrays[a])
<1>1. store = StoreOf(ctx) /\ store' = StoreOf(ctx')
  BY DEF store, StoreOf, Elements
<1>2. Sized(ctx) /\ Sized(ctx')
  BY DEF Before
<1>3. Len(ctx.arrays) \in Nat
  BY <1>2, Domains DEF Sized
<1>4. \A a \in DOMAIN ctx'.arrays : Within(ctx'.arrays[a])
  BY DEF Before, ElementsInRange, Within
<1> QED BY <1>1, <1>2, <1>3, <1>4, StoreShape

LEMMA SilentStore == ASSUME Before, Silent PROVE Store!Next
<1> DEFINE c == ctx
           d == ctx'
<1>1. PICK n \in {0, 1} : Adds(ctx, ctx', n)
  BY DEF Silent
<1>2. /\ Len(ctx'.arrays) = Len(ctx.arrays) + n
      /\ \A a \in DOMAIN ctx.arrays : ctx'.arrays[a] = ctx.arrays[a]
      /\ \A i \in StackLen .. ctx.heapEnd - 1 : ctx'.cells[i] = ctx.cells[i]
  BY <1>1 DEF Adds, Before
<1>3. DOMAIN ctx.arrays \subseteq DOMAIN ctx'.arrays
  BY <1>2, Domains DEF Before, Sized
<1>4. ASSUME NEW a \in DOMAIN ctx.arrays PROVE store'[a] = store[a]
  <2>1. Within(ctx.arrays[a])
    BY <1>2, <1>3, Stores
  <2>2. ctx.arrays[a].l \in Int /\ ctx.arrays[a].len \in Int
    BY RangeOf DEF Before
  <2>3. ctx.arrays[a].len <= ctx.arrays[a].r - ctx.arrays[a].l
    BY <2>1 DEF Within
  <2>4. \A i \in ctx.arrays[a].l .. ctx.arrays[a].l + ctx.arrays[a].len - 1 :
            i \in StackLen .. ctx.heapEnd - 1
    BY <2>2, <2>3, InHeap DEF Before
  <2>5. Elements(ctx', a) = Elements(ctx, a)
    BY <1>2, <2>2, <2>4, SameElements
  <2> QED BY <1>3, <2>5, Stores
<1> QED BY <1>2, <1>4, Stores, StoreSame

---------------------------------------------------------------------------
\* An array that is as it was keeps its elements, unless the cell that changes is one of
\* its range.
LEMMA OthersKeep ==
    ASSUME Before, NEW p, NEW b \in DOMAIN ctx.arrays, b \in DOMAIN ctx'.arrays,
           ctx'.arrays[b] = ctx.arrays[b],
           \A i \in StackLen .. ctx.heapEnd - 1 : i # p => ctx'.cells[i] = ctx.cells[i],
           p \notin ctx.arrays[b].l .. ctx.arrays[b].l + ctx.arrays[b].len - 1
    PROVE  store'[b] = store[b]
<1>1. ctx.arrays[b].l \in Int /\ ctx.arrays[b].len \in Int
  BY RangeOf DEF Before
<1>2. ctx.arrays[b].len <= ctx.arrays[b].r - ctx.arrays[b].l
  BY Stores DEF Within
<1>3. \A i \in ctx.arrays[b].l .. ctx.arrays[b].l + ctx.arrays[b].len - 1 :
          i \in StackLen .. ctx.heapEnd - 1
  BY <1>1, <1>2, InHeap DEF Before
<1>4. \A i \in ctx.arrays[b].l .. ctx.arrays[b].l + ctx.arrays[b].len - 1 :
          ctx'.cells[i] = ctx.cells[i]
  BY <1>3
<1>5. Elements(ctx', b) = Elements(ctx, b)
  BY <1>1, <1>4, SameElements
<1> QED BY <1>5, Stores

LEMMA AssignedStore == ASSUME Before, Assigned PROVE Store!Next
<1>1. PICK p \in Int : Assigns(ctx, ctx', p)
  BY DEF Assigned
<1>2. /\ ctx'.arrays = ctx.arrays
      /\ \A i \in StackLen .. ctx.heapEnd - 1 : i # p => ctx'.cells[i] = ctx.cells[i]
  BY <1>1 DEF Assigns, Before
<1> DEFINE In(a) == p \in ctx.arrays[a].l .. ctx.arrays[a].l + ctx.arrays[a].len - 1
<1>3. \A a \in DOMAIN ctx.arrays : ~In(a) => store'[a] = store[a]
  BY <1>2, OthersKeep
<1>4. CASE \A a \in DOMAIN ctx.arrays : ~In(a)
  <2>1. Len(store') = Len(store) + 0
    BY <1>2, Stores
  <2> HIDE DEF In
  <2> QED BY <1>3, <1>4, <2>1, Stores, StoreSame
<1>5. CASE \E a \in DOMAIN ctx.arrays : In(a)
  <2>1. PICK a \in DOMAIN ctx.arrays : In(a)
    BY <1>5
  <2>2. ASSUME NEW b \in DOMAIN ctx.arrays, b # a PROVE ~In(b)
    <3>1. Within(ctx.arrays[b]) /\ Within(ctx.arrays[a])
      BY <1>2, Stores
    <3>2. (ctx.arrays[a].l .. ctx.arrays[a].l + ctx.arrays[a].len - 1)
              \cap (ctx.arrays[b].l .. ctx.arrays[b].r - 1) = {}
      BY <2>2, <3>1, OrderedApart DEF Before
    <3>3. p \notin ctx.arrays[b].l .. ctx.arrays[b].r - 1
      BY <2>1, <3>2
    <3> DEFINE l == ctx.arrays[b].l
               r == ctx.arrays[b].r
               n == ctx.arrays[b].len
    <3>4. l \in Int /\ r \in Int /\ n \in Int /\ n <= r - l /\ p \notin l .. r - 1
      BY <3>1, <3>3, RangeOf DEF Before, Within
    <3> HIDE DEF l, r, n
    <3>5. p \notin l .. l + n - 1
      BY <3>4
    <3> QED BY <3>5 DEF l, n
  <2>3. \A b \in DOMAIN store \ {a} : store'[b] = store[b]
    BY <1>3, <2>2, Stores
  <2>4. Store!Put(a)
    <3> DEFINE n == ctx.arrays[a].len
               l == ctx.arrays[a].l
               i == p - l + 1
               f == store[a]
               g == store'[a]
    <3>1. l \in Int /\ n \in Nat /\ p \in l .. l + n - 1
      BY <2>1, RangeOf DEF Before
    <3>2. /\ f = [j \in 1 .. n |-> ctx.cells[l + j - 1]]
          /\ g = [j \in 1 .. n |-> ctx'.cells[l + j - 1]]
      BY <1>2, Stores DEF Elements
    <3>3. n <= ctx.arrays[a].r - l
      BY <1>2, Stores DEF Within
    <3>4. \A j \in l .. l + n - 1 : j \in StackLen .. ctx.heapEnd - 1
      BY <3>1, <3>3, InHeap DEF Before
    <3> HIDE DEF n, l, f, g
    <3>5. \A j \in 1 .. n : l + j - 1 \in l .. l + n - 1 /\ (j # i => l + j - 1 # p)
      BY <3>1
    <3>6. \A j \in 1 .. n : j # i => ctx'.cells[l + j - 1] = ctx.cells[l + j - 1]
      BY <1>2, <3>4, <3>5
    <3>7. i \in 1 .. n
      BY <3>1
    <3> HIDE DEF i
    <3>8. g = [f EXCEPT ![i] = g[i]]
      BY <3>2, <3>6, <3>7
    <3>9. DOMAIN f = 1 .. n
      BY <3>2
    <3> QED BY <3>7, <3>8, <3>9 DEF Store!Put, f, g
  <2>5. Len(store') = Len(store)
    BY <1>2, Stores
  <2> QED BY <2>3, <2>4, <2>5, StorePut
<1> QED BY <1>4, <1>5

LEMMA Prefix ==
    ASSUME NEW S, NEW T, NEW f \in Seq(S), NEW g \in Seq(T), Len(f) <= Len(g),
           \A i \in 1 .. Len(f) : g[i] = f[i]
    PROVE  SubSeq(g, 1, Len(f)) = f
<1> DEFINE n == Len(f)
           h == SubSeq(g, 1, n)
<1>1. n \in Nat /\ Len(g) \in Nat /\ n \in 1 - 1 .. Len(g) /\ 1 \in 1 .. Len(g) + 1
  BY Domains
<1>2. f \in Seq(S \cup T) /\ g \in Seq(S \cup T)
  BY SeqMonotonic
<1>3. h \in Seq(S \cup T) /\ Len(h) = n /\ \A i \in 1 .. n : h[i] = g[i]
  <2>1. /\ h \in Seq(S \cup T) /\ Len(h) = n - 1 + 1
        /\ \A i \in 1 .. n - 1 + 1 : h[i] = g[1 + i - 1]
    BY <1>1, <1>2, SubSeqProperties
  <2> HIDE DEF h, n
  <2> QED BY <1>1, <2>1
<1> HIDE DEF h
<1>4. h = f
  BY <1>2, <1>3, SeqEqual
<1> QED BY <1>4 DEF h

LEMMA PushedStore == ASSUME Before, Pushed PROVE Store!Next
<1>1. PICK n \in {0, 1}, a \in DOMAIN ctx.arrays :
          Changes(ctx, ctx', n, a, ctx.arrays[a].len + 1, ctx.arrays[a].l + ctx.arrays[a].len)
  BY DEF Pushed
<1> DEFINE l == ctx.arrays[a].l
           r == ctx.arrays[a].r
           k == ctx.arrays[a].len
           p == l + k
<1>2. /\ Len(ctx'.arrays) = Len(ctx.arrays) + n
      /\ \A b \in DOMAIN ctx.arrays \ {a} : ctx'.arrays[b] = ctx.arrays[b]
      /\ ctx'.arrays[a] = [ctx.arrays[a] EXCEPT !.len = k + 1]
      /\ Within(ctx'.arrays[a]) =>
             \A i \in StackLen .. ctx.heapEnd - 1 : i # p => ctx'.cells[i] = ctx.cells[i]
  BY <1>1 DEF Changes, Before
<1>3. DOMAIN ctx.arrays \subseteq DOMAIN ctx'.arrays
  BY <1>2, Domains DEF Before, Sized
<1>4. l \in Int /\ r \in Int /\ k \in Nat /\ ctx.arrays[a] \in RangeRec
  BY RangeOf DEF Before
<1>5. ctx'.arrays[a].l = l /\ ctx'.arrays[a].r = r /\ ctx'.arrays[a].len = k + 1
  BY <1>2, <1>4 DEF RangeRec
<1>6. Within(ctx'.arrays[a])
  BY <1>3, Stores
<1>7. k + 1 <= r - l
  BY <1>5, <1>6 DEF Within
<1>8. \A i \in StackLen .. ctx.heapEnd - 1 : i # p => ctx'.cells[i] = ctx.cells[i]
  BY <1>2, <1>6
<1>9. ASSUME NEW b \in DOMAIN ctx.arrays, b # a PROVE store'[b] = store[b]
  <2>1. ctx'.arrays[b] = ctx.arrays[b] /\ b \in DOMAIN ctx'.arrays
    BY <1>2, <1>3, <1>9
  <2>2. Within(ctx.arrays[b])
    BY <2>1, Stores
  <2>3. (ctx.arrays[b].l .. ctx.arrays[b].l + ctx.arrays[b].len - 1) \cap (l .. r - 1) = {}
    BY <1>9, <2>2, OrderedApart DEF Before
  <2>4. p \in l .. r - 1
    <3> HIDE DEF l, r, k
    <3> QED BY <1>4, <1>7
  <2> HIDE DEF p
  <2>5. p \notin ctx.arrays[b].l .. ctx.arrays[b].l + ctx.arrays[b].len - 1
    BY <2>3, <2>4
  <2> QED BY <1>8, <2>1, <2>5, OthersKeep
<1>10. Store!Push(a)
  <2> DEFINE f == store[a]
             g == store'[a]
  <2>1. f = Elements(ctx, a) /\ g = Elements(ctx', a)
    BY <1>3, Stores
  <2>2. /\ Len(f) = k /\ Len(g) = k + 1
        /\ \A i \in 1 .. k : f[i] = ctx.cells[l + i - 1]
        /\ \A i \in 1 .. k + 1 : g[i] = ctx'.cells[l + i - 1]
        /\ (\E S : f \in Seq(S)) /\ (\E S : g \in Seq(S))
    <3>1. ctx.arrays[a].len \in Nat /\ ctx'.arrays[a].len \in Nat
      BY <1>3 DEF Before
    <3> QED BY <1>5, <2>1, <3>1, ElementsShape
  <2> HIDE DEF f, g
  <2>3. \A i \in l .. l + k - 1 : i \in StackLen .. ctx.heapEnd - 1
    <3>1. k \in Int /\ k <= r - l
      <4> HIDE DEF k, r, l
      <4> QED BY <1>4, <1>7
    <3> QED BY <3>1, InHeap DEF Before
  <2> HIDE DEF l, k
  <2>4. \A i \in 1 .. k : l + i - 1 \in l .. l + k - 1 /\ l + i - 1 # p /\ i \in 1 .. k + 1
    BY <1>4
  <2>5. \A i \in 1 .. k : g[i] = f[i]
    BY <1>8, <2>2, <2>3, <2>4
  <2>6. SubSeq(g, 1, Len(f)) = f
    <3>1. PICK S : f \in Seq(S)
      BY <2>2
    <3>2. PICK T : g \in Seq(T)
      BY <2>2
    <3>3. Len(f) <= Len(g)
      BY <1>4, <2>2
    <3> QED BY <2>2, <2>5, <3>1, <3>2, <3>3, Prefix
  <2> QED BY <2>2, <2>6 DEF Store!Push, f, g
<1> QED BY <1>2, <1>9, <1>10, Stores, StorePushed

LEMMA ShortenedStore == ASSUME Before, Shortened PROVE Store!Next
<1>1. PICK a \in DOMAIN ctx.arrays :
          Changes(ctx, ctx', 1, a, IF ctx.arrays[a].len > 0 THEN ctx.arrays[a].len - 1 ELSE 0, 0)
  BY DEF Shortened
<1> DEFINE l == ctx.arrays[a].l
           r == ctx.arrays[a].r
           k == ctx.arrays[a].len
           m == IF k > 0 THEN k - 1 ELSE 0
<1>2. /\ Len(ctx'.arrays) = Len(ctx.arrays) + 1
      /\ \A b \in DOMAIN ctx.arrays \ {a} : ctx'.arrays[b] = ctx.arrays[b]
      /\ ctx'.arrays[a] = [ctx.arrays[a] EXCEPT !.len = m]
      /\ Within(ctx'.arrays[a]) =>
             \A i \in StackLen .. ctx.heapEnd - 1 : i # 0 => ctx'.cells[i] = ctx.cells[i]
  BY <1>1 DEF Changes, Before
<1>3. DOMAIN ctx.arrays \subseteq DOMAIN ctx'.arrays
  BY <1>2, Domains DEF Before, Sized
<1>4. l \in Int /\ r \in Int /\ k \in Nat /\ ctx.arrays[a] \in RangeRec
  BY RangeOf DEF Before
<1>5. ctx'.arrays[a].l = l /\ ctx'.arrays[a].r = r /\ ctx'.arrays[a].len = m
  <2> HIDE DEF m
  <2> QED BY <1>2, <1>4 DEF RangeRec
<1>6. Within(ctx'.arrays[a])
  BY <1>3, Stores
<1>7. m <= r - l /\ m \in Int /\ m \in Nat
  <2>1. m <= r - l
    BY <1>5, <1>6 DEF Within
  <2> QED BY <1>4, <2>1
<1>8. \A i \in StackLen .. ctx.heapEnd - 1 : i # 0 => ctx'.cells[i] = ctx.cells[i]
  BY <1>2, <1>6
<1>9. ASSUME NEW b \in DOMAIN ctx.arrays, b # a PROVE store'[b] = store[b]
  <2>1. ctx'.arrays[b] = ctx.arrays[b] /\ b \in DOMAIN ctx'.arrays
    BY <1>2, <1>3, <1>9
  <2>2. ctx.arrays[b].l \in Int /\ ctx.arrays[b].len \in Int /\ StackLen <= ctx.arrays[b].l
    BY RangeOf DEF Before, Ordered
  <2>3. 0 \notin ctx.arrays[b].l .. ctx.arrays[b].l + ctx.arrays[b].len - 1
    BY <2>2, Small
  <2> QED BY <1>8, <2>1, <2>3, OthersKeep
<1>10. store'[a] = store[a] \/ Store!Pop(a)
  <2> DEFINE f == store'[a]
             g == store[a]
  <2>1. g = Elements(ctx, a) /\ f = Elements(ctx', a)
    BY <1>3, Stores
  <2>2. \A i \in l .. l + m - 1 : i \in StackLen .. ctx.heapEnd - 1
    <3> HIDE DEF m
    <3> QED BY <1>7, InHeap DEF Before
  <2>3. /\ Len(g) = k /\ Len(f) = m
        /\ \A i \in 1 .. k : g[i] = ctx.cells[l + i - 1]
        /\ \A i \in 1 .. m : f[i] = ctx'.cells[l + i - 1]
        /\ (\E S : f \in Seq(S)) /\ (\E S : g \in Seq(S))
    <3>1. ctx.arrays[a].len \in Nat /\ ctx'.arrays[a].len \in Nat
      BY <1>3 DEF Before
    <3> HIDE DEF m
    <3> QED BY <1>5, <2>1, <3>1, ElementsShape
  <2> HIDE DEF f, g, l
  <2>4. \A i \in 1 .. m : l + i - 1 \in l .. l + m - 1 /\ i \in 1 .. k
    <3> HIDE DEF k
    <3> QED BY <1>4
  <2>5. \A i \in 1 .. m : g[i] = f[i]
    <3>1. \A i \in StackLen .. ctx.heapEnd - 1 : i # 0
      BY Small DEF Before, Sized
    <3> HIDE DEF m, k
    <3> QED BY <1>8, <2>2, <2>3, <2>4, <3>1
  <2>6. SubSeq(g, 1, Len(f)) = f
    <3>1. PICK S : f \in Seq(S)
      BY <2>3
    <3>2. PICK T : g \in Seq(T)
      BY <2>3
    <3>3. Len(f) <= Len(g)
      <4> HIDE DEF k
      <4> QED BY <1>4, <2>3
    <3> HIDE DEF m, k
    <3> QED BY <2>3, <2>5, <3>1, <3>2, <3>3, Prefix
  <2>7. CASE k > 0
    <3>1. m = k - 1 /\ Len(g) # 0
      <4> HIDE DEF k
      <4> QED BY <1>4, <2>3, <2>7
    <3>2. g # << >>
      BY <3>1
    <3>3. f = SubSeq(g, 1, Len(g) - 1)
      BY <2>3, <2>6, <3>1
    <3> QED BY <3>2, <3>3 DEF Store!Pop, f, g
  <2>8. CASE ~(k > 0)
    <3>1. k = 0 /\ m = 0
      BY <1>4, <2>8
    <3> HIDE DEF m, k
    <3>2. Len(f) = 0 /\ Len(g) = 0
      BY <2>3, <3>1
    <3>3. f = g
      BY <2>3, <3>2, EmptySeq
    <3> QED BY <3>3 DEF f, g
  <2> QED BY <2>7, <2>8
<1>11. CASE store'[a] = store[a]
  <2>1. \A b \in DOMAIN store : store'[b] = store[b]
    BY <1>9, <1>11, Stores
  <2> QED BY <1>2, <2>1, Stores, StoreSame
<1>12. CASE Store!Pop(a)
  <2>1. \A b \in DOMAIN store \ {a} : store'[b] = store[b]
    BY <1>9, Stores
  <2> QED BY <1>2, <1>12, <2>1, Stores, StorePopped
<1> QED BY <1>10, <1>11, <1>12

LEMMA StoreStep ==
    ASSUME VmInv, VmInv', InOrder, Next, ctx'.errs = 0, ElementsInRange'
    PROVE  Store!Next
<1>1. Silent \/ Assigned \/ Pushed \/ Shortened
  BY Kinds
<1>2. Ordered(ctx)
  BY <1>1, KeepsOrder DEF InOrder
<1>3. Sized(ctx) /\ \A a \in DOMAIN ctx.arrays : ctx.arrays[a].len \in Nat
  <2>1. Good(ctx)
    BY DEF VmInv
  <2>2. \A a \in DOMAIN ctx.arrays : ctx.arrays[a] \in ArrayRec
    BY <2>1, EachArray
  <2> QED BY <2>1, <2>2, SizedContext DEF Good, ArrayRec
<1>4. Sized(ctx') /\ \A a \in DOMAIN ctx'.arrays : ctx'.arrays[a].len \in Nat
  <2>1. ctx' \in Contexts
    BY DEF VmInv, Good
  <2>2. ctx'.arrays \in Seq(ArrayRec)
    BY <2>1, Fields
  <2>3. \A a \in DOMAIN ctx'.arrays : ctx'.arrays[a] \in ArrayRec
    BY <2>2, ElementOfSeq, Domains
  <2> QED BY <2>1, <2>3, SizedContext DEF ArrayRec
<1>5. Before
  BY <1>2, <1>3, <1>4 DEF Before
<1> QED BY <1>1, <1>5, SilentStore, AssignedStore, PushedStore, ShortenedStore

\* What a program sees of its arrays is an array store, until there is an error or an
\* array has grown beyond its range: every step of the machine is one of the store.
THEOREM StoreRefined == Spec => StoreImplemented
<1>1. VmInv /\ VmInv' /\ InOrder /\ [Next]_vars => [ctx'.errs = 0 /\ ElementsInRange' => Store!Next]_ctx
  BY StoreStep DEF vars
<1> QED BY <1>1, VmInvariant, OrderHolds, PTL DEF Spec, StoreImplemented
=============================================================================
