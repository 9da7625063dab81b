--------------------------- MODULE NegiHeap_proofs ---------------------------
(***************************************************************************)
(* The commands of the evaluator keep the memory well formed: every array  *)
(* keeps its elements inside its range, and its range inside the heap,     *)
(* whatever program runs.                                                  *)
(***************************************************************************)
EXTENDS NegiHeap, SequenceTheorems, WellFoundedInduction, TLAPS

ArrayLists == UNION {[0 .. n - 1 -> ArrayRec] : n \in Nat}

MemType == [cells : [Cell -> Value], top : 0 .. StackMax, heapEnd : StackMax .. CellLen,
            arr : ArrayLists, arrLen : Nat, force : BOOLEAN, status : Status]

MemOK(m) == m \in MemType /\ m.arr \in [0 .. m.arrLen - 1 -> ArrayRec]

USE StackAssumption, DataAssumption

-----------------------------------------------------------------------------
(* The operations on the memory.                                           *)

\* The memory of a well-typed state is well formed, and a state that takes over
\* a well-formed memory is well typed.
LEMMA MemTyped == TypeOK => MemOK(mem)
  BY DEF TypeOK, MemOK, MemType, ArrayLists, mem

LEMMA BecomeTyped ==
  ASSUME NEW m, MemOK(m), Become(m),
         envs' \in Seq(EnvRec), frames' \in Seq(1 .. Len(envs')), frames' # << >>,
         maps' \in Seq(MapRec)
  PROVE  TypeOK'
  BY DEF TypeOK, MemOK, MemType, Become, Cell

\* Stopping the evaluation leaves the memory as it is.
LEMMA StopOK ==
  ASSUME NEW m, MemOK(m), NEW why \in Status
  PROVE  MemOK(Stop(m, why))
  BY DEF Stop, MemOK, MemType

\* A push writes a stack cell.
LEMMA PushOK ==
  ASSUME NEW m, MemOK(m), NEW v \in Value
  PROVE  MemOK(Push(m, v))
<1>1. CASE m.top >= StackMax
  BY <1>1, StopOK DEF Push, Status
<1>2. CASE ~(m.top >= StackMax)
  <2>1. [m.cells EXCEPT ![m.top] = v] \in [Cell -> Value]
    BY DEF MemOK, MemType
  <2>2. m.top + 1 \in 0 .. StackMax
    BY <1>2 DEF MemOK, MemType
  <2>3. Push(m, v) = [m EXCEPT !.cells = [m.cells EXCEPT ![m.top] = v], !.top = m.top + 1]
    BY <1>2 DEF Push
  <2> QED BY <2>1, <2>2, <2>3 DEF MemOK, MemType
<1> QED BY <1>1, <1>2

LEMMA DropOK ==
  ASSUME NEW m, MemOK(m), NEW n \in 0 .. m.top
  PROVE  MemOK(Drop(m, n)) /\ Drop(m, n).arr = m.arr /\ Drop(m, n).arrLen = m.arrLen
         /\ Drop(m, n).top = m.top - n /\ Drop(m, n).heapEnd = m.heapEnd
         /\ Drop(m, n).status = m.status
<1>1. Zero \in Value
  BY DEF Value, Zero, IntVal, Ty
<1>2. [i \in Cell |-> IF i \in m.top - n .. m.top - 1 THEN Zero ELSE m.cells[i]]
         \in [Cell -> Value]
  BY <1>1 DEF MemOK, MemType
<1>3. m.top - n \in 0 .. StackMax
  BY DEF MemOK, MemType
<1> QED BY <1>2, <1>3 DEF Drop, MemOK, MemType

LEMMA SetOK ==
  ASSUME NEW m, MemOK(m), NEW i, NEW v \in Value
  PROVE  MemOK(Set(m, i, v))
  BY DEF Set, MemOK, MemType

LEMMA HeapEndOK ==
  ASSUME NEW m, MemOK(m), NEW h \in StackMax .. CellLen, NEW f \in BOOLEAN
  PROVE  MemOK([m EXCEPT !.heapEnd = h, !.force = f])
  BY DEF MemOK, MemType

\* An allocation takes count cells at the end of the heap, or fails.
LEMMA AllocOK ==
  ASSUME NEW m, MemOK(m), NEW count \in Nat
  PROVE  /\ MemOK(Alloc(m, count))
         /\ Alloc(m, count).cells = m.cells /\ Alloc(m, count).arr = m.arr
         /\ Alloc(m, count).arrLen = m.arrLen
         /\ Alloc(m, count).status = "run" => m.heapEnd + count <= CellLen
<1>1. CASE m.heapEnd + count > CellLen
  BY <1>1, StopOK DEF Alloc, Stop, Status, MemOK, MemType
<1>2. CASE ~(m.heapEnd + count > CellLen)
  <2> DEFINE full == CellLen - (m.heapEnd + count) <= GcThreshold
  <2>1. m.heapEnd + count \in StackMax .. CellLen
    BY <1>2 DEF MemOK, MemType
  <2>2. (m.force \/ full) \in BOOLEAN
    OBVIOUS
  <2>3. Alloc(m, count) = [m EXCEPT !.heapEnd = m.heapEnd + count, !.force = m.force \/ full]
    BY <1>2 DEF Alloc
  <2> HIDE DEF full
  <2> DEFINE forced == m.force \/ full
  <2>4. forced \in BOOLEAN
    BY <2>2
  <2>5. Alloc(m, count) = [m EXCEPT !.heapEnd = m.heapEnd + count, !.force = forced]
    BY <2>3
  <2> HIDE DEF forced
  <2> DEFINE h == m.heapEnd + count
  <2>6. h \in StackMax .. CellLen /\ h <= CellLen
    BY <2>1
  <2>7. Alloc(m, count) = [m EXCEPT !.heapEnd = h, !.force = forced]
    BY <2>5
  <2> HIDE DEF h
  <2>8. MemOK([m EXCEPT !.heapEnd = h, !.force = forced])
    BY <2>4, <2>6, HeapEndOK
  <2>9. /\ Alloc(m, count).cells = m.cells /\ Alloc(m, count).arr = m.arr
        /\ Alloc(m, count).arrLen = m.arrLen
    BY <2>7 DEF MemOK, MemType
  <2> QED BY <2>6, <2>7, <2>8, <2>9 DEF h
<1> QED BY <1>1, <1>2

LEMMA ArraysOK ==
  ASSUME NEW m, MemOK(m), NEW n \in Nat, NEW f \in [0 .. n - 1 -> ArrayRec]
  PROVE  MemOK([m EXCEPT !.arr = f, !.arrLen = n])
<1>1. f \in ArrayLists
  BY DEF ArrayLists
<1> QED BY <1>1 DEF MemOK, MemType

LEMMA CellsOK ==
  ASSUME NEW m, MemOK(m), NEW f \in [Cell -> Value]
  PROVE  MemOK([m EXCEPT !.cells = f])
  BY DEF MemOK, MemType

\* A new array gets the next number and a range at the end of the heap.
LEMMA ArrayAddOK ==
  ASSUME NEW m, MemOK(m), NEW len \in Nat, NEW capacity \in Nat, len <= capacity
  PROVE  /\ MemOK(ArrayAdd(m, len, capacity))
         /\ ArrayAdd(m, len, capacity).cells = m.cells
<1> DEFINE h == Alloc(m, capacity)
           a == [len |-> len, l |-> m.heapEnd, r |-> m.heapEnd + capacity]
           f == [i \in 0 .. m.arrLen |-> IF i = m.arrLen THEN a ELSE m.arr[i]]
           n == m.arrLen + 1
<1>1. MemOK(h) /\ h.cells = m.cells /\ h.arr = m.arr /\ h.arrLen = m.arrLen
  BY AllocOK
<1>2. CASE h.status # "run"
  BY <1>1, <1>2 DEF ArrayAdd
<1>3. CASE h.status = "run"
  <2>1. m.heapEnd + capacity <= CellLen
    BY <1>3, AllocOK
  <2>2. a \in ArrayRec
    BY <2>1 DEF ArrayRec, MemOK, MemType
  <2>3. n \in Nat /\ f \in [0 .. n - 1 -> ArrayRec]
    <3>1. m.arrLen \in Nat /\ \A i \in 0 .. m.arrLen - 1 : m.arr[i] \in ArrayRec
      BY DEF MemOK, MemType
    <3> HIDE DEF a
    <3>2. 0 .. n - 1 = 0 .. m.arrLen
      BY <3>1
    <3>3. \A i \in 0 .. m.arrLen : (IF i = m.arrLen THEN a ELSE m.arr[i]) \in ArrayRec
      BY <2>2, <3>1
    <3>4. f \in [0 .. m.arrLen -> ArrayRec]
      BY <3>3
    <3>5. n \in Nat
      BY <3>1
    <3> HIDE DEF f, n
    <3> QED BY <3>2, <3>4, <3>5
  <2>4. ArrayAdd(m, len, capacity) = [h EXCEPT !.arr = f, !.arrLen = n]
    BY <1>1, <1>3 DEF ArrayAdd
  <2> HIDE DEF h, f, n
  <2>5. MemOK([h EXCEPT !.arr = f, !.arrLen = n])
    BY <1>1, <2>3, ArraysOK
  <2>6. [h EXCEPT !.arr = f, !.arrLen = n].cells = h.cells
    BY <1>1 DEF MemOK, MemType
  <2> QED BY <1>1, <2>4, <2>5, <2>6
<1> QED BY <1>2, <1>3

\* After a reservation that succeeds the array has its elements and the room.
LEMMA ArrayReserveOK ==
  ASSUME NEW m, MemOK(m), NEW i \in 0 .. m.arrLen - 1, NEW newLen \in Nat,
         m.arr[i].len <= newLen
  PROVE  LET h == ArrayReserve(m, i, newLen) IN
         /\ MemOK(h) /\ h.arrLen = m.arrLen
         /\ h.arr[i].len = m.arr[i].len
         /\ h.status = "run" => h.arr[i].l + newLen <= h.arr[i].r
<1> DEFINE a == m.arr[i]
           n == newLen + newLen \div 2
           h == Alloc(m, n)
           b == [len |-> a.len, l |-> m.heapEnd, r |-> m.heapEnd + n]
           f == [m.arr EXCEPT ![i] = b]
           ahead == m.heapEnd - a.l
           from(c) == a.l + (IF ahead > 0 THEN (c - m.heapEnd) % ahead ELSE c - m.heapEnd)
           g == [c \in Cell |-> IF c \in m.heapEnd .. m.heapEnd + a.len - 1
                                THEN m.cells[from(c)] ELSE m.cells[c]]
<1>1. n \in Nat /\ newLen <= n
  OBVIOUS
<1>2. MemOK(h) /\ h.cells = m.cells /\ h.arr = m.arr /\ h.arrLen = m.arrLen
  BY <1>1, AllocOK
<1>3. a \in ArrayRec /\ a.len \in Nat /\ a.l \in Nat /\ a.r \in Nat /\ a.r <= CellLen
      /\ a.l + a.len <= a.r
  BY DEF MemOK, MemType, ArrayRec
<1>4. CASE newLen <= a.r - a.l
  BY <1>3, <1>4 DEF ArrayReserve, Capacity
<1>5. CASE ~(newLen <= a.r - a.l) /\ h.status # "run"
  BY <1>2, <1>5 DEF ArrayReserve, Capacity
<1>6. CASE ~(newLen <= a.r - a.l) /\ h.status = "run"
  <2>1. m.heapEnd + n <= CellLen
    BY <1>1, <1>6, AllocOK
  <2>2. m.heapEnd \in Nat /\ StackMax <= m.heapEnd
    BY DEF MemOK, MemType
  <2>3. b \in ArrayRec
    BY <1>1, <1>3, <2>1, <2>2 DEF ArrayRec
  <2>4. m.arrLen \in Nat /\ f \in [0 .. m.arrLen - 1 -> ArrayRec]
    BY <2>3 DEF MemOK, MemType
  <2>5. g \in [Cell -> Value]
    <3> SUFFICES ASSUME NEW c \in Cell, c \in m.heapEnd .. m.heapEnd + a.len - 1
                 PROVE  m.cells[from(c)] \in Value
      BY DEF MemOK, MemType
    <3> DEFINE k == c - m.heapEnd
    <3>1. k \in 0 .. a.len - 1 /\ ahead \in Int
      BY <1>3, <2>2
    <3>2. CASE ahead > 0
      <4>1. k % ahead \in 0 .. ahead - 1 /\ k % ahead <= k
        BY <3>1, <3>2
      <4>2. from(c) = a.l + (k % ahead)
        BY <3>2
      <4>3. from(c) \in Cell
        BY <1>3, <3>1, <4>1, <4>2 DEF Cell
      <4> QED BY <4>3 DEF MemOK, MemType
    <3>3. CASE ~(ahead > 0)
      <4>1. from(c) = a.l + k
        BY <3>3
      <4>2. from(c) \in Cell
        BY <1>3, <3>1, <4>1 DEF Cell
      <4> QED BY <4>2 DEF MemOK, MemType
    <3> QED BY <3>1, <3>2, <3>3
  <2>6. ArrayReserve(m, i, newLen) = [h EXCEPT !.arr = f, !.cells = g]
    BY <1>2, <1>6 DEF ArrayReserve, Capacity
  <2>7. f[i] = b
    BY DEF MemOK, MemType
  <2> HIDE DEF h, f, g
  <2>8. MemOK([h EXCEPT !.arr = f, !.arrLen = m.arrLen])
    BY <1>2, <2>4, ArraysOK
  <2>9. [h EXCEPT !.arr = f, !.cells = g]
        = [[h EXCEPT !.arr = f, !.arrLen = m.arrLen] EXCEPT !.cells = g]
    BY <1>2 DEF MemOK, MemType
  <2>10. MemOK([h EXCEPT !.arr = f, !.cells = g])
    BY <2>5, <2>8, <2>9, CellsOK
  <2>11. /\ [h EXCEPT !.arr = f, !.cells = g].arr = f
         /\ [h EXCEPT !.arr = f, !.cells = g].arrLen = m.arrLen
    BY <1>2 DEF MemOK, MemType
  <2> QED BY <1>1, <2>2, <2>6, <2>7, <2>10, <2>11
<1> QED BY <1>4, <1>5, <1>6

\* A push keeps the elements inside the range: the reservation made room.
LEMMA ArrayPushOK ==
  ASSUME NEW m, MemOK(m), NEW i \in 0 .. m.arrLen - 1, NEW v \in Value
  PROVE  MemOK(ArrayPush(m, i, v)) /\ ArrayPush(m, i, v).arrLen = m.arrLen
<1> DEFINE h == ArrayReserve(m, i, m.arr[i].len + 1)
           a == h.arr[i]
           b == [a EXCEPT !.len = a.len + 1]
           f == [h.arr EXCEPT ![i] = b]
           s == Set(h, a.l + a.len, v)
<1>1. m.arr[i] \in ArrayRec /\ m.arr[i].len \in Nat
  BY DEF MemOK, MemType, ArrayRec
<1>2. /\ MemOK(h) /\ h.arrLen = m.arrLen
      /\ h.status = "run" => a.l + (m.arr[i].len + 1) <= a.r
      /\ a.len = m.arr[i].len
  BY <1>1, ArrayReserveOK
<1> HIDE DEF h
<1>3. CASE h.status # "run"
  BY <1>2, <1>3 DEF ArrayPush, h
<1>4. CASE h.status = "run"
  <2>1. a \in ArrayRec
    BY <1>2 DEF MemOK, MemType
  <2>2. b \in ArrayRec
    BY <1>2, <1>4, <2>1 DEF ArrayRec
  <2>3. h.arrLen \in Nat /\ f \in [0 .. h.arrLen - 1 -> ArrayRec]
    BY <1>2, <2>2 DEF MemOK, MemType
  <2>4. MemOK(s) /\ s.arr = h.arr /\ s.arrLen = h.arrLen
    BY <1>2, SetOK DEF Set, MemOK, MemType
  <2>5. ArrayPush(m, i, v) = [s EXCEPT !.arr = f]
    BY <1>4, <2>4 DEF ArrayPush, h
  <2> HIDE DEF s, f
  <2>6. MemOK([s EXCEPT !.arr = f, !.arrLen = h.arrLen])
    BY <2>3, <2>4, ArraysOK
  <2>7. [s EXCEPT !.arr = f] = [s EXCEPT !.arr = f, !.arrLen = h.arrLen]
        /\ [s EXCEPT !.arr = f].arrLen = s.arrLen
    BY <2>4 DEF MemOK, MemType
  <2> QED BY <1>2, <2>4, <2>5, <2>6, <2>7
<1> QED BY <1>3, <1>4

\* Looking up a key yields a well-formed memory and the index of a cell.
LEMMA MapRefOK ==
  ASSUME NEW m, MemOK(m), NEW i, NEW key \in Value, maps \in Seq(MapRec)
  PROVE  MemOK(MapRef(m, i, key).mem) /\ MapRef(m, i, key).cell \in Nat
<1> DEFINE ks == maps[i].keys
           vs == maps[i].vals
           found == KeyAt(m, ks, key)
           first == CHOOSE j \in found : \A k \in found : j <= k
           pushed == ArrayPush(m, ks, key)
           grown == ArrayPush(pushed, vs, Zero)
<1>1. \A why \in Status : MemOK(Stop(m, why))
  BY StopOK
<1>2. CASE i \notin 1 .. Len(maps)
  BY <1>1, <1>2 DEF MapRef, Status
<1>3. CASE i \in 1 .. Len(maps)
  <2>1. ks \in Nat /\ vs \in Nat
    <3>1. maps[i] \in MapRec
      BY <1>3, ElementOfSeq
    <3> QED BY <3>1 DEF MapRec
  <2>2. CASE ks >= m.arrLen \/ vs >= m.arrLen
    BY <1>1, <1>3, <2>2 DEF MapRef, Status
  <2>3. CASE ks < m.arrLen /\ vs < m.arrLen /\ m.arr[ks].len # m.arr[vs].len
    BY <1>1, <1>3, <2>1, <2>3 DEF MapRef, Status, MemOK, MemType
  <2>4. CASE ks < m.arrLen /\ vs < m.arrLen /\ m.arr[ks].len = m.arr[vs].len
    <3>1. ks \in 0 .. m.arrLen - 1 /\ vs \in 0 .. m.arrLen - 1
      BY <2>1, <2>4 DEF MemOK, MemType
    <3>2. m.arr[vs].l \in Nat /\ m.arr[vs].len \in Nat
      BY <3>1 DEF MemOK, MemType, ArrayRec
    <3>3. CASE found # {}
      <4>1. found \subseteq Nat
        BY <3>1 DEF KeyAt
      <4>2. \E j \in found : \A k \in found : ~(<<k, j>> \in OpToRel(<, Nat))
        BY <3>3, <4>1, NatLessThanWellFounded, WFMin, Zenon
      <4>3. \E j \in found : \A k \in found : j <= k
        <5>1. PICK j \in found : \A k \in found : ~(<<k, j>> \in OpToRel(<, Nat))
          BY <4>2
        <5>2. ASSUME NEW k \in found PROVE j <= k
          <6>1. k < j => <<k, j>> \in OpToRel(<, Nat)
            <7>1. k \in Nat /\ j \in Nat
              BY <4>1
            <7>2. <<k, j>> \in Nat \X Nat /\ <<k, j>>[1] = k /\ <<k, j>>[2] = j
              BY <7>1
            <7> QED BY <7>2, Zenon DEF OpToRel
          <6>2. ~(k < j)
            BY <5>1, <6>1, Zenon
          <6> QED BY <4>1, <6>2
        <5> QED BY <5>2
      <4>4. first \in found
        BY <4>3
      <4>5. m.arr[vs].l + first \in Nat
        BY <3>2, <4>1, <4>4
      <4>6. MapRef(m, i, key) = [mem |-> m, cell |-> m.arr[vs].l + first]
        BY <1>3, <2>1, <2>4, <3>3 DEF MapRef, MemOK, MemType
      <4> QED BY <4>5, <4>6
    <3>4. CASE found = {}
      <4>1. Zero \in Value
        BY DEF Zero, IntVal, Value, Ty
      <4>2. MemOK(pushed) /\ pushed.arrLen = m.arrLen
        BY <3>1, ArrayPushOK
      <4>3. MemOK(grown) /\ grown.arrLen = m.arrLen
        BY <3>1, <4>1, <4>2, ArrayPushOK
      <4>4. grown.arr[vs].l \in Nat
        BY <3>1, <4>3 DEF MemOK, MemType, ArrayRec
      <4>5. MapRef(m, i, key) = [mem |-> grown, cell |-> grown.arr[vs].l + m.arr[vs].len]
        BY <1>3, <2>1, <2>4, <3>4 DEF MapRef, MemOK, MemType
      <4> QED BY <3>2, <4>3, <4>4, <4>5
    <3> QED BY <3>3, <3>4
  <2>5. m.arrLen \in Nat
    BY DEF MemOK, MemType
  <2>6. \/ ks >= m.arrLen \/ vs >= m.arrLen
        \/ ks < m.arrLen /\ vs < m.arrLen
    BY <2>1, <2>5
  <2> QED BY <2>2, <2>3, <2>4, <2>6, Zenon
<1> QED BY <1>2, <1>3

LEMMA ElementRefOK ==
  ASSUME NEW m, MemOK(m), NEW a \in Value, NEW i \in Value, maps \in Seq(MapRec)
  PROVE  MemOK(ElementRef(m, a, i).mem) /\ ElementRef(m, a, i).cell \in Nat
<1> DEFINE e == ElementRef(m, a, i)
<1>1. MemOK(Stop(m, "aborted")) /\ MemOK(Stop(m, "failed"))
  BY StopOK DEF Status
<1>2. CASE a.ty = "map" /\ i.ty = "int"
  <2>1. e = MapRef(m, a.val, i)
    BY <1>2 DEF ElementRef
  <2> QED BY <2>1, MapRefOK
<1>3. CASE ~(a.ty = "map" /\ i.ty = "int")
           /\ (a.ty # "array" \/ i.ty # "int" \/ a.val >= m.arrLen \/ ~InArray(m, a.val, i.val))
  <2>1. e.mem \in {Stop(m, "aborted"), Stop(m, "failed")} /\ e.cell = 0
    BY <1>3 DEF ElementRef
  <2> QED BY <1>1, <2>1
<1>4. CASE a.ty = "array" /\ i.ty = "int" /\ ~(a.val >= m.arrLen) /\ InArray(m, a.val, i.val)
  <2>1. e = [mem |-> m, cell |-> m.arr[a.val].l + i.val]
    BY <1>4 DEF ElementRef
  <2>2. a.val \in 0 .. m.arrLen - 1
    BY <1>4 DEF Value, MemOK, MemType
  <2>3. m.arr[a.val].l \in Nat /\ i.val \in Nat
    BY <2>2 DEF Value, MemOK, MemType, ArrayRec
  <2> QED BY <2>1, <2>3
<1> QED BY <1>2, <1>3, <1>4

LEMMA LoadOK ==
  ASSUME NEW m, MemOK(m), NEW i
  PROVE  MemOK(Load(m, i))
<1>1. CASE i \notin Cell
  BY <1>1, StopOK DEF Load, Status
<1>2. CASE i \in Cell
  <2>1. m.cells[i] \in Value
    BY <1>2 DEF MemOK, MemType
  <2> QED BY <1>2, <2>1, PushOK DEF Load
<1> QED BY <1>1, <1>2

-----------------------------------------------------------------------------
(* The commands.                                                           *)

\* What a command takes from the stack is a value.
LEMMA ArgTyped ==
  ASSUME TypeOK, NEW i \in 1 .. top
  PROVE  Arg(i) \in Value
  BY DEF TypeOK, Arg, Cell

LEMMA RefTyped ==
  ASSUME NEW t \in Ty, NEW i \in Nat
  PROVE  Ref(t, i) \in Value
  BY DEF Ref, Value

LEMMA WithArgsOK ==
  ASSUME TypeOK, NEW m, MemOK(m), NEW n \in 0 .. top
  PROVE  MemOK(WithArgs(m, n))
<1> DEFINE args == [c \in Cell |-> IF c \in heapEnd .. heapEnd + n - 1
                                   THEN cells[top - n + (c - heapEnd)] ELSE m.cells[c]]
<1>1. ASSUME NEW c \in Cell, c \in heapEnd .. heapEnd + n - 1
      PROVE  cells[top - n + (c - heapEnd)] \in Value
  <2>1. top - n + (c - heapEnd) \in Cell
    BY <1>1, StackAssumption DEF Cell, TypeOK
  <2> QED BY <2>1 DEF TypeOK
<1>2. m.cells \in [Cell -> Value]
  BY DEF MemOK, MemType
<1>3. args \in [Cell -> Value]
  BY <1>1, <1>2
<1>4. WithArgs(m, n) = [m EXCEPT !.cells = args]
  BY DEF WithArgs
<1> HIDE DEF args
<1> QED BY <1>3, <1>4, CellsOK

\* A command that only changes the memory keeps the rest.
LEMMA KeepsTyped ==
  ASSUME TypeOK, NEW m, MemOK(m), Become(m), RuntimeKeeps
  PROVE  TypeOK'
<1>1. /\ envs \in Seq(EnvRec) /\ frames \in Seq(1 .. Len(envs)) /\ frames # << >>
      /\ maps \in Seq(MapRec)
  BY DEF TypeOK
<1>2. envs' = envs /\ frames' = frames /\ maps' = maps
  BY DEF RuntimeKeeps
<1> QED BY <1>1, <1>2, BecomeTyped

\* No command breaks the memory: its arrays stay inside the heap and its frames
\* name environments.
LEMMA CommandTyped ==
  ASSUME TypeOK, Command
  PROVE  TypeOK'
<1>1. MemOK(mem) /\ mem.top = top /\ mem.arr = arr /\ mem.arrLen = arrLen /\ mem.cells = cells
      /\ mem.heapEnd = heapEnd
  BY MemTyped DEF mem
<1>2. /\ top \in 0 .. StackMax /\ arrLen \in Nat /\ cells \in [Cell -> Value]
      /\ arr \in [0 .. arrLen - 1 -> ArrayRec] /\ heapEnd \in StackMax .. CellLen
      /\ maps \in Seq(MapRec) /\ envs \in Seq(EnvRec) /\ frames \in Seq(1 .. Len(envs))
      /\ frames # << >>
  BY DEF TypeOK
<1>3. \A m, why : (MemOK(m) /\ why \in Status) => MemOK(Stop(m, why))
  BY StopOK
<1>4. \A m, v : (MemOK(m) /\ v \in Value) => MemOK(Push(m, v))
  BY PushOK
<1>5. \A n \in 0 .. top : MemOK(Drop(mem, n)) /\ Drop(mem, n).arr = arr
                          /\ Drop(mem, n).arrLen = arrLen /\ Drop(mem, n).heapEnd = heapEnd
  BY <1>1, DropOK
<1>6. /\ {"aborted", "overflow", "badIndex", "failed", "exited"} \subseteq Status
      /\ {"array", "cell", "closure", "map"} \subseteq Ty
  BY DEF Status, Ty
<1>7. Env \in 1 .. Len(envs) /\ Env \in Nat
  <2>1. Len(frames) \in 1 .. Len(frames)
    BY <1>2, EmptySeq, LenProperties
  <2>2. Len(envs) \in Nat
    BY <1>2, LenProperties
  <2> QED BY <1>2, <2>1, <2>2, ElementOfSeq DEF Env
<1>8. CASE PushInt
  <2>1. PICK n \in Ints : Become(Push(mem, IntVal(n))) /\ RuntimeKeeps
    BY <1>8 DEF PushInt
  <2>2. IntVal(n) \in Value
    BY <2>1, DataAssumption DEF IntVal, Value, Ty
  <2> QED BY <1>1, <1>4, <2>1, <2>2, KeepsTyped
<1>9. CASE PushClosure
  <2>1. Ref("closure", Env) \in Value
    BY <1>6, <1>7, RefTyped
  <2> QED BY <1>1, <1>4, <1>9, <2>1, KeepsTyped DEF PushClosure
<1>10. CASE PushArray
  <2>1. PICK capacity \in Caps :
           Become(Push(ArrayAdd(mem, 0, capacity), Ref("array", arrLen))) /\ RuntimeKeeps
    BY <1>10 DEF PushArray
  <2>2. MemOK(ArrayAdd(mem, 0, capacity))
    BY <1>1, ArrayAddOK, DataAssumption
  <2>3. Ref("array", arrLen) \in Value
    BY <1>2, <1>6, RefTyped
  <2> QED BY <1>4, <2>1, <2>2, <2>3, KeepsTyped
<1>11. CASE PushMap
  <2>1. MemOK(ArrayAdd(ArrayAdd(mem, 0, 0), 0, 0))
    BY <1>1, ArrayAddOK
  <2>2. Len(maps) + 1 \in Nat
    BY <1>2, LenProperties
  <2>3. MemOK(Push(ArrayAdd(ArrayAdd(mem, 0, 0), 0, 0), Ref("map", Len(maps) + 1)))
    BY <1>4, <1>6, <2>1, <2>2, RefTyped
  <2>4. maps' \in Seq(MapRec) /\ envs' = envs /\ frames' = frames
    BY <1>2, <1>11 DEF PushMap, MapRec
  <2>5. Become(Push(ArrayAdd(ArrayAdd(mem, 0, 0), 0, 0), Ref("map", Len(maps) + 1)))
    BY <1>11 DEF PushMap
  <2> QED BY <1>2, <2>3, <2>4, <2>5, BecomeTyped
<1>12. CASE LocalVar
  <2>1. PICK e \in 1 .. Len(envs), index \in 0 .. CellLen :
           /\ envs[e].array < arrLen
           /\ Become(Push(mem, Ref("cell", arr[envs[e].array].l + index)))
           /\ RuntimeKeeps
    BY <1>12 DEF LocalVar
  <2>2. envs[e] \in EnvRec
    BY <1>2, ElementOfSeq
  <2>3. arr[envs[e].array] \in ArrayRec
    BY <1>2, <2>1, <2>2 DEF EnvRec
  <2>4. arr[envs[e].array].l + index \in Nat
    BY <2>3, StackAssumption DEF ArrayRec
  <2> QED BY <1>1, <1>4, <1>6, <2>1, <2>4, RefTyped, KeepsTyped
<1>13. CASE CellGet
  <2> DEFINE m == Drop(mem, 1)
             n == IF Arg(1).ty # "cell" THEN Stop(m, "aborted") ELSE Load(m, Arg(1).val)
  <2>1. MemOK(m)
    BY <1>2, <1>5, <1>13 DEF CellGet
  <2>2. MemOK(n)
    BY <1>3, <1>6, <2>1, LoadOK
  <2> QED BY <1>13, <2>2, KeepsTyped DEF CellGet
<1>14. CASE CellSet
  <2> DEFINE m == Drop(mem, 2)
             n == IF Arg(2).ty # "cell" THEN Stop(m, "aborted")
                  ELSE IF Arg(2).val \notin Cell THEN Stop(m, "badIndex")
                  ELSE Push(Set(m, Arg(2).val, Arg(1)), Arg(1))
  <2>1. MemOK(m) /\ Arg(1) \in Value
    BY <1>2, <1>5, <1>14, ArgTyped DEF CellSet
  <2>2. MemOK(Set(m, Arg(2).val, Arg(1)))
    BY <2>1, SetOK
  <2>3. MemOK(n)
    BY <1>3, <1>4, <1>6, <2>1, <2>2
  <2> QED BY <1>14, <2>3, KeepsTyped DEF CellSet
<1>15. CASE Pop
  <2>1. MemOK(Drop(mem, 1))
    BY <1>2, <1>5, <1>15 DEF Pop
  <2> QED BY <1>15, <2>1, KeepsTyped DEF Pop
<1>16. CASE Dup
  <2>1. MemOK(Push(mem, Arg(1)))
    BY <1>1, <1>2, <1>4, <1>16, ArgTyped DEF Dup
  <2> QED BY <1>16, <2>1, KeepsTyped DEF Dup
<1>17. CASE Swap
  <2>1. MemOK(Drop(mem, 2)) /\ Arg(1) \in Value /\ Arg(2) \in Value
    BY <1>2, <1>5, <1>17, ArgTyped DEF Swap
  <2>2. MemOK(Push(Push(Drop(mem, 2), Arg(1)), Arg(2)))
    BY <1>4, <2>1
  <2> QED BY <1>17, <2>2, KeepsTyped DEF Swap
<1>18. CASE OpArrayPush
  <2> DEFINE m == Drop(mem, 2)
             a == Arg(2)
             n == IF a.ty # "array" THEN Stop(m, "failed")
                  ELSE IF a.val >= arrLen THEN Stop(m, "badIndex")
                  ELSE Push(ArrayPush(m, a.val, Arg(1)), a)
  <2>1. MemOK(m) /\ m.arrLen = arrLen /\ Arg(1) \in Value /\ a \in Value
    BY <1>2, <1>5, <1>18, ArgTyped DEF OpArrayPush
  <2>2. CASE a.val >= arrLen
    <3>1. MemOK(n)
      BY <1>3, <1>6, <2>1, <2>2
    <3> QED BY <1>18, <3>1, KeepsTyped DEF OpArrayPush
  <2>3. CASE a.val < arrLen
    <3>1. a.val \in 0 .. m.arrLen - 1
      BY <1>2, <2>1, <2>3 DEF Value
    <3>2. MemOK(ArrayPush(m, a.val, Arg(1)))
      BY <2>1, <3>1, ArrayPushOK
    <3>3. MemOK(n)
      BY <1>3, <1>4, <1>6, <2>1, <3>2
    <3> QED BY <1>18, <3>3, KeepsTyped DEF OpArrayPush
  <2> QED BY <1>2, <2>1, <2>2, <2>3 DEF Value
<1>19. CASE OpIndexRef
  <2> DEFINE r == ElementRef(Drop(mem, 2), Arg(2), Arg(1))
             n == IF r.mem.status # "run" THEN r.mem ELSE Push(r.mem, Ref("cell", r.cell))
  <2>1. MemOK(Drop(mem, 2)) /\ Arg(1) \in Value /\ Arg(2) \in Value
    BY <1>2, <1>5, <1>19, ArgTyped DEF OpIndexRef
  <2>2. MemOK(r.mem) /\ r.cell \in Nat
    BY <1>2, <2>1, ElementRefOK
  <2>3. MemOK(n)
    BY <1>4, <1>6, <2>2, RefTyped
  <2>4. Become(n) /\ RuntimeKeeps
    BY <1>19 DEF OpIndexRef
  <2> QED BY <2>3, <2>4, KeepsTyped
<1>20. CASE OpIndex
  <2> DEFINE r == ElementRef(Drop(mem, 2), Arg(2), Arg(1))
             n == IF r.mem.status # "run" THEN r.mem ELSE Load(r.mem, r.cell)
  <2>1. MemOK(Drop(mem, 2)) /\ Arg(1) \in Value /\ Arg(2) \in Value
    BY <1>2, <1>5, <1>20, ArgTyped DEF OpIndex
  <2>2. MemOK(r.mem)
    BY <1>2, <2>1, ElementRefOK
  <2>3. MemOK(n)
    BY <2>2, LoadOK
  <2>4. Become(n) /\ RuntimeKeeps
    BY <1>20 DEF OpIndex
  <2> QED BY <2>3, <2>4, KeepsTyped
<1>21. CASE OpBinary
  <2>1. PICK n \in Ints :
           /\ \/ Become(Push(Drop(mem, 2), IntVal(n)))
              \/ Become(Stop(Drop(mem, 2), "aborted"))
           /\ RuntimeKeeps
    BY <1>21 DEF OpBinary
  <2>2. MemOK(Drop(mem, 2)) /\ IntVal(n) \in Value
    BY <1>2, <1>5, <1>21, DataAssumption DEF OpBinary, IntVal, Value, Ty
  <2>3. MemOK(Push(Drop(mem, 2), IntVal(n))) /\ MemOK(Stop(Drop(mem, 2), "aborted"))
    BY <1>3, <1>4, <1>6, <2>2
  <2> QED BY <2>1, <2>3, KeepsTyped
<1>22. CASE JumpUnless
  <2>1. MemOK(Drop(mem, 1))
    BY <1>2, <1>5, <1>22 DEF JumpUnless
  <2>2. MemOK(IF Arg(1).ty = "int" THEN Drop(mem, 1) ELSE Stop(Drop(mem, 1), "aborted"))
    BY <1>3, <1>6, <2>1
  <2> QED BY <1>22, <2>2, KeepsTyped DEF JumpUnless
<1>23. CASE CallClosure
  <2>1. PICK n \in 0 .. MaxArgs, locals \in LocalLens :
           LET f == Arg(n + 1)
               m == ArrayAdd(Drop(mem, n + 1), locals, locals) IN
           /\ n + 1 <= top
           /\ Become(IF m.status # "run" THEN m
                     ELSE IF n > locals THEN Stop(m, "aborted")
                     ELSE WithArgs(m, n))
           /\ envs' = Append(envs, [parent |-> f.val, array |-> arrLen])
           /\ frames' = Append(frames, Len(envs) + 1)
           /\ UNCHANGED maps
    BY <1>23 DEF CallClosure
  <2> DEFINE f == Arg(n + 1)
             m == ArrayAdd(Drop(mem, n + 1), locals, locals)
             b == IF m.status # "run" THEN m
                  ELSE IF n > locals THEN Stop(m, "aborted")
                  ELSE WithArgs(m, n)
  <2>2. n \in Nat /\ n + 1 \in 1 .. top /\ locals \in Nat
    <3>1. n + 1 <= top
      BY <2>1
    <3>2. n \in Nat /\ locals \in Nat
      BY DataAssumption
    <3> QED BY <1>2, <3>1, <3>2
  <2>3. MemOK(m) /\ f \in Value
    BY <1>5, <2>2, ArrayAddOK, ArgTyped
  <2>4. MemOK(WithArgs(m, n))
    BY <1>2, <2>2, <2>3, WithArgsOK
  <2>5. MemOK(b)
    BY <1>3, <1>6, <2>3, <2>4
  <2>6. [parent |-> f.val, array |-> arrLen] \in EnvRec
    BY <1>2, <2>3 DEF Value, EnvRec
  <2>7. envs' \in Seq(EnvRec) /\ Len(envs') = Len(envs) + 1 /\ Len(envs) \in Nat
    BY <1>2, <2>1, <2>6
  <2>8. frames \in Seq(1 .. Len(envs'))
    BY <1>2, <2>7, SeqMonotonic
  <2>9. frames' \in Seq(1 .. Len(envs')) /\ frames' # << >>
    BY <2>1, <2>7, <2>8
  <2>10. Become(b) /\ maps' = maps
    BY <2>1
  <2> QED BY <1>2, <2>5, <2>7, <2>9, <2>10, BecomeTyped
<1>24. CASE CallExtern
  <2>1. PICK n \in 0 .. MaxArgs, v \in Ints :
           LET m == Alloc(ArrayAdd(Drop(mem, n + 1), n, n), 1)
               result == Set(WithArgs(m, n), heapEnd + n, IntVal(v)) IN
           /\ n + 1 <= top
           /\ \/ Become(Stop(Drop(mem, n + 1), "aborted"))
              \/ Become(IF m.status # "run" THEN m ELSE Push(result, IntVal(v)))
           /\ RuntimeKeeps
    BY <1>24 DEF CallExtern
  <2> DEFINE d == Drop(mem, n + 1)
             m == Alloc(ArrayAdd(d, n, n), 1)
             result == Set(WithArgs(m, n), heapEnd + n, IntVal(v))
  <2>2. n \in Nat /\ n + 1 \in 0 .. top /\ n <= top
    BY <1>2, <2>1, DataAssumption
  <2>3. MemOK(d) /\ MemOK(m)
    <3>1. MemOK(d)
      BY <1>5, <2>2
    <3>2. MemOK(ArrayAdd(d, n, n))
      BY <2>2, <3>1, ArrayAddOK
    <3> QED BY <3>1, <3>2, AllocOK
  <2>4. IntVal(v) \in Value
    BY DataAssumption DEF IntVal, Value, Ty
  <2>5. MemOK(result)
    <3>1. MemOK(WithArgs(m, n))
      BY <1>2, <2>2, <2>3, WithArgsOK
    <3> QED BY <2>4, <3>1, SetOK
  <2>6. MemOK(Push(result, IntVal(v))) /\ MemOK(Stop(d, "aborted"))
    BY <1>3, <1>4, <1>6, <2>3, <2>4, <2>5
  <2> HIDE DEF m, result
  <2>7. MemOK(IF m.status # "run" THEN m ELSE Push(result, IntVal(v)))
    BY <2>3, <2>6
  <2> QED BY <2>1, <2>6, <2>7, KeepsTyped DEF m, result
<1>25. CASE CallArrayPush
  <2> DEFINE a == Arg(2)
             m == Alloc(ArrayAdd(Drop(mem, 3), 2, 2), 1)
             given == WithArgs(m, 2)
             pushed == ArrayPush(given, a.val, Arg(1))
             result == Set(pushed, heapEnd + 2, a)
             b == IF m.status # "run" THEN m
                  ELSE IF a.ty # "array" THEN Stop(given, "aborted")
                  ELSE IF a.val >= arrLen THEN Stop(given, "badIndex")
                  ELSE IF pushed.status # "run" THEN pushed
                  ELSE Push(result, a)
  <2>1. a \in Value /\ Arg(1) \in Value /\ MemOK(Drop(mem, 3))
        /\ Drop(mem, 3).arrLen = arrLen /\ top >= 3
    BY <1>2, <1>5, <1>25, ArgTyped DEF CallArrayPush
  <2>2. MemOK(m)
    BY <2>1, ArrayAddOK, AllocOK
  <2>3. MemOK(given) /\ given.arrLen = m.arrLen
    <3>1. MemOK(given)
      BY <1>2, <2>1, <2>2, WithArgsOK
    <3>2. given.arrLen = m.arrLen
      BY <2>2 DEF WithArgs, MemOK, MemType
    <3> QED BY <3>1, <3>2
  <2>4. m.status = "run" => m.arrLen = arrLen + 1
    <3> DEFINE add == ArrayAdd(Drop(mem, 3), 2, 2)
    <3>1. MemOK(add)
      BY <2>1, ArrayAddOK
    <3>2. m.arrLen = add.arrLen /\ (m.status = "run" => add.status = "run")
      BY <3>1 DEF Alloc, Stop, MemOK, MemType, Status
    <3>3. /\ Alloc(Drop(mem, 3), 2).arrLen = arrLen
          /\ MemOK(Alloc(Drop(mem, 3), 2))
      BY <2>1, AllocOK
    <3>4. add.status = "run" => add.arrLen = arrLen + 1
      BY <3>3 DEF ArrayAdd, MemOK, MemType
    <3> QED BY <3>2, <3>4
  <2>5. (m.status = "run" /\ a.val < arrLen) => MemOK(pushed) /\ MemOK(Push(result, a))
    <3> SUFFICES ASSUME m.status = "run", a.val < arrLen
                 PROVE  MemOK(pushed) /\ MemOK(Push(result, a))
      OBVIOUS
    <3>1. a.val \in 0 .. given.arrLen - 1
      BY <1>2, <2>1, <2>3, <2>4 DEF Value
    <3> HIDE DEF a, given
    <3>2. MemOK(pushed)
      BY <2>1, <2>3, <3>1, ArrayPushOK
    <3> QED BY <1>4, <2>1, <3>2, SetOK
  <2>6. MemOK(Stop(given, "aborted")) /\ MemOK(Stop(given, "badIndex"))
    BY <1>3, <1>6, <2>3
  <2>7. a.val \in Nat
    BY <2>1 DEF Value
  <2>8. Become(b) /\ RuntimeKeeps
    BY <1>25 DEF CallArrayPush
  <2> HIDE DEF a, m, given, pushed, result
  <2>9. MemOK(b)
    BY <1>2, <2>2, <2>5, <2>6, <2>7
  <2> QED BY <2>8, <2>9, KeepsTyped
<1>26. CASE Return
  <2>1. Len(frames) \in Nat /\ Len(frames) >= 2
    BY <1>2, <1>26, LenProperties DEF Return
  <2>2. frames' = SubSeq(frames, 1, Len(frames) - 1)
    BY <1>26 DEF Return
  <2>3. frames' \in Seq(1 .. Len(envs)) /\ Len(frames') = Len(frames) - 1
    BY <1>2, <2>1, <2>2, SubSeqProperties
  <2>4. frames' # << >>
    BY <2>1, <2>3
  <2>5. /\ cells' = cells /\ top' = top /\ heapEnd' = heapEnd /\ arr' = arr
        /\ arrLen' = arrLen /\ envs' = envs /\ maps' = maps /\ gcForce' = gcForce
        /\ status' = status
    BY <1>26 DEF Return
  <2> QED BY <2>3, <2>4, <2>5 DEF TypeOK, Cell
<1>27. CASE Exit
  <2>1. MemOK(Stop(Drop(mem, 1), IF Arg(1).ty = "int" THEN "exited" ELSE "aborted"))
    BY <1>2, <1>3, <1>5, <1>6, <1>27 DEF Exit
  <2> QED BY <1>27, <2>1, KeepsTyped DEF Exit
<1> QED
  BY <1>8, <1>9, <1>10, <1>11, <1>12, <1>13, <1>14, <1>15, <1>16, <1>17, <1>18, <1>19,
     <1>20, <1>21, <1>22, <1>23, <1>24, <1>25, <1>26, <1>27 DEF Command
=============================================================================
