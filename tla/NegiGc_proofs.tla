---------------------------- MODULE NegiGc_proofs ----------------------------
(***************************************************************************)
(* The collector is correct for every size of the memory, every program    *)
(* and every heap: GcInv is inductive, and the safety properties are parts *)
(* of it.                                                                  *)
(***************************************************************************)
EXTENDS NegiGc, NegiHeap_proofs, FiniteSetTheorems

USE StackAssumption, DataAssumption

LEMMA InitTyped == Init => TypeOK
<1> SUFFICES ASSUME Init PROVE TypeOK
  OBVIOUS
<1>1. Zero \in Value
  BY DEF Zero, IntVal, Value, Ty
<1>2. cells \in [Cell -> Value]
  BY <1>1 DEF Init
<1>3. top \in 0 .. StackMax /\ heapEnd \in StackMax .. CellLen /\ arrLen \in Nat
      /\ gcForce \in BOOLEAN /\ status \in Status
  BY DEF Init, Status
<1>4. arr \in [0 .. arrLen - 1 -> ArrayRec]
  BY DEF Init, ArrayRec
<1>5. envs \in Seq(EnvRec) /\ frames \in Seq(1 .. Len(envs)) /\ frames # << >>
      /\ maps \in Seq(MapRec)
  BY DEF Init, EnvRec, MapRec
<1> QED BY <1>2, <1>3, <1>4, <1>5 DEF TypeOK

LEMMA EnvTyped ==
  ASSUME TypeOK
  PROVE  \A e \in DOMAIN envs : envs[e].array \in Nat
<1> SUFFICES ASSUME NEW e \in DOMAIN envs PROVE envs[e].array \in Nat
  OBVIOUS
<1>1. envs[e] \in EnvRec
  BY LenProperties, ElementOfSeq DEF TypeOK
<1> QED BY <1>1 DEF EnvRec

LEMMA NoSnapshotTyped ==
  /\ NoSnapshot.cells \in [Cell -> Value] /\ NoSnapshot.arrLen = 0
  /\ NoSnapshot.arr \in [0 .. 0 - 1 -> ArrayRec] /\ NoSnapshot.envs \in Seq(EnvRec)
  /\ NoArrays \in [0 .. 0 - 1 -> -1 .. 0] /\ NoMarks \in [Cell -> -1 .. CellLen]
<1>1. Zero \in Value
  BY DEF Zero, IntVal, Value, Ty
<1>2. 0 .. 0 - 1 = {}
  OBVIOUS
<1>3. NoArrays \in [{} -> ArrayRec] /\ NoArrays \in [{} -> -1 .. 0]
  BY DEF NoArrays
<1>4. << >> \in Seq(EnvRec)
  OBVIOUS
<1>5. NoMarks \in [Cell -> -1 .. CellLen]
  BY DEF NoMarks, Cell
<1> QED BY <1>1, <1>2, <1>3, <1>4, <1>5 DEF NoSnapshot

\* Outside a collection the invariant only asks for the types.
LEMMA IdleInv ==
  ASSUME GcTypeOK, phase = "idle", arrStack = {}
  PROVE  GcInv
  BY DEF GcInv, PhaseInv, Marking, Moving, MarkInvariant, KeptClosed, CellMapInv, ArrMapInv,
         MoveSafe, ContentsKept

LEMMA InitInv == GcInit => GcInv
<1> SUFFICES ASSUME GcInit PROVE GcInv
  OBVIOUS
<1>1. TypeOK /\ phase = "idle" /\ arrStack = {}
  BY InitTyped DEF GcInit
<1>2. GcTypeOK
  BY <1>1, NoSnapshotTyped DEF GcInit, GcTypeOK, Phase
<1> QED BY <1>1, <1>2, IdleInv

\* A command runs between two collections.
LEMMA CommandInv ==
  ASSUME GcInv, Command, UNCHANGED gcVars
  PROVE  GcInv'
<1>1. ~gcForce
  BY DEF Command, Running, PushInt, PushClosure, PushArray, PushMap, LocalVar, CellGet, CellSet,
         Pop, Dup, Swap, OpArrayPush, OpIndexRef, OpIndex, OpBinary, JumpUnless, CallClosure,
         CallExtern, CallArrayPush, Return, Exit
<1>2. phase = "idle" /\ phase' = "idle" /\ arrStack' = {}
  BY <1>1 DEF GcInv, PhaseInv, Marking, gcVars
<1>3. TypeOK'
  BY CommandTyped DEF GcInv, GcTypeOK
<1>4. GcTypeOK'
  BY <1>3 DEF GcInv, GcTypeOK, gcVars, Cell
<1> QED BY <1>2, <1>4 DEF GcInv, PhaseInv, Marking, Moving, MarkInvariant, KeptClosed,
           CellMapInv, ArrMapInv, MoveSafe, ContentsKept

-----------------------------------------------------------------------------
(* Mark.                                                                   *)

\* The memory a collection starts from is the one it finds.
LEMMA GcBeginInv ==
  ASSUME GcInv, GcBegin
  PROVE  GcInv'
<1>1. TypeOK
  BY DEF GcInv, GcTypeOK
<1>2. /\ cells' = cells /\ top' = top /\ heapEnd' = heapEnd /\ arr' = arr /\ arrLen' = arrLen
      /\ envs' = envs /\ frames' = frames /\ maps' = maps /\ gcForce' = gcForce /\ gcForce
      /\ phase' = "cells" /\ stuck' = TRUE /\ scan' = 0 /\ mapLen' = 0
      /\ status' \in {status, "badIndex"}
  BY DEF GcBegin
<1>3. TypeOK'
  BY <1>1, <1>2 DEF TypeOK, Cell, Status
<1>4. snap' = [cells |-> cells, arr |-> arr, arrLen |-> arrLen, envs |-> envs]
      /\ snap' = Snapshot'
  BY <1>2 DEF GcBegin, Snapshot
<1>5. cellMap' \in [Cell -> {0, 1}] /\ cellStack' \subseteq Cell
  BY <1>1 DEF GcBegin, RootCells, TypeOK, Cell
<1>6. arrMap' \in [0 .. arrLen - 1 -> {0, 1}] /\ arrStack' \subseteq 0 .. arrLen - 1
  BY DEF GcBegin
<1>7. GcTypeOK'
  <2>1. cellMap' \in [Cell -> -1 .. CellLen]
    BY <1>5 DEF Cell
  <2>2. arrMap' \in [0 .. snap'.arrLen - 1 -> -1 .. snap'.arrLen]
    <3>1. snap'.arrLen = arrLen /\ arrLen \in Nat
      BY <1>1, <1>4 DEF TypeOK
    <3>2. \A a \in 0 .. arrLen - 1 : arrMap'[a] \in -1 .. arrLen
      BY <1>6, <3>1
    <3> QED BY <1>6, <3>1, <3>2
  <2>3. /\ snap'.cells \in [Cell -> Value] /\ snap'.arrLen \in Nat
        /\ snap'.arr \in [0 .. snap'.arrLen - 1 -> ArrayRec] /\ snap'.envs \in Seq(EnvRec)
    BY <1>1, <1>4 DEF TypeOK
  <2>4. arrStack' \subseteq 0 .. snap'.arrLen - 1
    BY <1>4, <1>6
  <2> QED BY <1>2, <1>3, <1>5, <2>1, <2>2, <2>3, <2>4 DEF GcTypeOK, Phase, Cell
<1>8. PhaseInv'
  BY <1>2, <1>4, <1>5, <1>6 DEF PhaseInv, Marking, Moving, Cell
<1>9. MarkInvariant'
  <2> SUFFICES ASSUME status' = "run" PROVE MarkInvariant'
    BY DEF MarkInvariant
  <2>1. RootArrays \subseteq 0 .. arrLen - 1
    BY DEF GcBegin
  <2>2. /\ arrMap' = [a \in 0 .. arrLen - 1 |-> IF a \in RootArrays THEN 1 ELSE 0]
        /\ arrStack' = RootArrays
    BY <2>1 DEF GcBegin
  <2>3. RootArrays' = RootArrays /\ RootCells' = RootCells
    BY <1>2 DEF RootArrays, RootCells
  <2>4. /\ MarkedArrays' = RootArrays
        /\ \A c \in Cell : Marked(c)' <=> c \in RootCells
    <3>1. MarkedArrays' = RootArrays
      <4>1. DOMAIN arrMap' = 0 .. arrLen - 1
        BY <2>2
      <4>2. \A a \in 0 .. arrLen - 1 : arrMap'[a] = 1 <=> a \in RootArrays
        BY <2>2
      <4> QED BY <2>1, <4>1, <4>2 DEF MarkedArrays
    <3>2. cellMap' = [c \in Cell |-> IF c \in RootCells THEN 1 ELSE 0]
      BY DEF GcBegin
    <3> QED BY <3>1, <3>2 DEF Marked
  <2>5. cellStack' = RootCells /\ RootCells \subseteq Cell
    BY <1>1 DEF GcBegin, RootCells, TypeOK, Cell
  <2> QED BY <1>2, <2>2, <2>3, <2>4, <2>5 DEF MarkInvariant, Cell
<1> QED BY <1>2, <1>7, <1>8, <1>9 DEF GcInv, Marking, Moving, KeptClosed, CellMapInv, ArrMapInv,
           MoveSafe, ContentsKept

\* What every marking step keeps, when only the marks change.
LEMMA MarkStepTyped ==
  ASSUME GcInv, Marking,
         UNCHANGED <<cells, top, heapEnd, arr, arrLen, envs, frames, maps, gcForce,
                     scan, mapLen, snap>>,
         status' \in Status, phase' \in {"cells", "arrays"}, stuck' \in BOOLEAN,
         cellMap' \in [Cell -> {0, 1}], arrMap' \in [0 .. arrLen - 1 -> {0, 1}],
         cellStack' \subseteq Cell, arrStack' \subseteq 0 .. arrLen - 1
  PROVE  GcTypeOK' /\ PhaseInv' /\ (MarkInvariant' => GcInv')
<1>1. TypeOK'
  BY DEF GcInv, GcTypeOK, TypeOK, Cell
<1>2. snap = Snapshot /\ snap.arrLen = arrLen /\ arrLen \in Nat /\ scan = 0 /\ mapLen = 0
      /\ gcForce
  BY DEF GcInv, GcTypeOK, TypeOK, PhaseInv, Marking, Snapshot
<1>3. cellMap' \in [Cell -> -1 .. CellLen]
  BY DEF Cell
<1>4. arrMap' \in [0 .. arrLen - 1 -> -1 .. arrLen]
  <2>1. \A a \in 0 .. arrLen - 1 : arrMap'[a] \in -1 .. arrLen
    BY <1>2
  <2> QED BY <2>1
<1>5. GcTypeOK'
  BY <1>1, <1>2, <1>3, <1>4 DEF GcInv, GcTypeOK, Phase, Cell
<1>6. snap' = Snapshot'
  BY <1>2 DEF Snapshot
<1>7. PhaseInv'
  BY <1>2, <1>6 DEF PhaseInv, Marking, Moving, Cell
<1> QED BY <1>5, <1>7 DEF GcInv, Marking, Moving, KeptClosed, CellMapInv, ArrMapInv, MoveSafe,
           ContentsKept

\* Marking what a cell refers to.
LEMMA MarkCellInv ==
  ASSUME GcInv, MarkCell
  PROVE  GcInv'
<1>1. PICK c \in cellStack :
         /\ phase = "cells" /\ status = "run"
         /\ cellStack' = cellStack \ {c}
         /\ stuck' = FALSE
         /\ LET v == cells[c] IN
            IF v.ty # "array" THEN UNCHANGED <<arrMap, arrStack, status>>
            ELSE IF v.val >= arrLen
            THEN status' = "badIndex" /\ UNCHANGED <<arrMap, arrStack>>
            ELSE IF arrMap[v.val] = 1 THEN UNCHANGED <<arrMap, arrStack, status>>
            ELSE /\ arrMap' = [arrMap EXCEPT ![v.val] = 1]
                 /\ arrStack' = arrStack \union {v.val}
                 /\ UNCHANGED status
         /\ UNCHANGED <<cells, top, heapEnd, arr, arrLen, envs, frames, maps, gcForce,
                        phase, cellMap, scan, mapLen, snap>>
  BY DEF MarkCell
<1>2. /\ Marking /\ snap.arrLen = arrLen /\ arrLen \in Nat
      /\ cellMap \in [Cell -> {0, 1}] /\ arrMap \in [0 .. arrLen - 1 -> {0, 1}]
      /\ cells \in [Cell -> Value] /\ cellStack \subseteq Cell
      /\ arrStack \subseteq 0 .. arrLen - 1 /\ status \in Status
  BY <1>1 DEF GcInv, GcTypeOK, TypeOK, PhaseInv, Marking, Snapshot
<1>3. cells[c].val \in Nat
  BY <1>2 DEF Value
<1>4. /\ status' \in Status
      /\ arrMap' \in [0 .. arrLen - 1 -> {0, 1}]
      /\ arrStack' \subseteq 0 .. arrLen - 1
  <2>1. CASE cells[c].ty = "array" /\ cells[c].val < arrLen /\ arrMap[cells[c].val] # 1
    <3>1. cells[c].val \in 0 .. arrLen - 1
      BY <1>2, <1>3, <2>1
    <3>2. /\ arrMap' = [arrMap EXCEPT ![cells[c].val] = 1]
          /\ arrStack' = arrStack \union {cells[c].val}
          /\ status' = status
      BY <1>1, <1>2, <1>3, <2>1
    <3> QED BY <1>2, <3>1, <3>2
  <2>2. CASE cells[c].ty # "array" \/ cells[c].val >= arrLen \/ arrMap[cells[c].val] = 1
    <3>1. arrMap' = arrMap /\ arrStack' = arrStack /\ status' \in {status, "badIndex"}
      BY <1>1, <2>2
    <3> QED BY <1>2, <3>1 DEF Status
  <2> QED BY <1>2, <1>3, <2>1, <2>2
<1>5. MarkInvariant' => GcInv'
  BY <1>1, <1>2, <1>4, MarkStepTyped
<1>6. ASSUME status' = "run" PROVE MarkInvariant'
  <2>1. /\ \A d \in RootCells : Marked(d)
        /\ RootArrays \subseteq MarkedArrays
        /\ \A d \in Cell \ cellStack :
              (Marked(d) /\ cells[d].ty = "array") => cells[d].val \in MarkedArrays
        /\ \A a \in MarkedArrays \ arrStack : \A d \in Elements(arr[a]) : Marked(d)
    BY <1>1, <1>2 DEF GcInv, MarkInvariant
  <2>2. /\ RootCells' = RootCells /\ RootArrays' = RootArrays
        /\ \A d : Marked(d)' <=> Marked(d)
    BY <1>1 DEF RootCells, RootArrays, Marked
  <2>3. /\ MarkedArrays \subseteq MarkedArrays'
        /\ MarkedArrays' \ arrStack' \subseteq MarkedArrays \ arrStack
        /\ cells[c].ty = "array" => cells[c].val \in MarkedArrays'
    BY <1>1, <1>2, <1>3, <1>6 DEF MarkedArrays
  <2> QED BY <1>1, <1>2, <2>1, <2>2, <2>3 DEF MarkInvariant, Cell
<1> QED BY <1>5, <1>6 DEF MarkInvariant

LEMMA CellsMarkedInv ==
  ASSUME GcInv, CellsMarked
  PROVE  GcInv'
<1>1. /\ phase = "cells" /\ status = "run" /\ cellStack = {} /\ phase' = "arrays"
      /\ UNCHANGED <<cells, top, heapEnd, arr, arrLen, envs, frames, maps, gcForce, status>>
      /\ UNCHANGED <<cellMap, cellStack, arrMap, arrStack, stuck, scan, mapLen, snap>>
  BY DEF CellsMarked, heapVars
<1>2. /\ Marking /\ snap.arrLen = arrLen /\ MarkInvariant
      /\ cellMap \in [Cell -> {0, 1}] /\ arrMap \in [0 .. arrLen - 1 -> {0, 1}]
      /\ cellStack \subseteq Cell /\ stuck \in BOOLEAN
      /\ arrStack \subseteq 0 .. arrLen - 1 /\ status \in Status
  BY <1>1 DEF GcInv, GcTypeOK, TypeOK, PhaseInv, Marking, Snapshot
<1>3. MarkInvariant' => GcInv'
  BY <1>1, <1>2, MarkStepTyped
<1>4. MarkInvariant'
  BY <1>1, <1>2 DEF MarkInvariant, Marking, RootCells, RootArrays, Marked, MarkedArrays, Cell,
                    Elements
<1> QED BY <1>3, <1>4

\* Marking the elements of an array.
LEMMA MarkArrayInv ==
  ASSUME GcInv, MarkArray
  PROVE  GcInv'
<1>1. PICK a \in arrStack :
         /\ phase = "arrays" /\ status = "run"
         /\ arrStack' = arrStack \ {a}
         /\ stuck' = FALSE
         /\ LET new == {c \in Elements(arr[a]) : cellMap[c] = 0} IN
            /\ cellMap' = [c \in Cell |-> IF c \in new THEN 1 ELSE cellMap[c]]
            /\ cellStack' = cellStack \union new
         /\ UNCHANGED <<heapVars, phase, arrMap, scan, mapLen, snap>>
  BY DEF MarkArray
<1> DEFINE new == {c \in Elements(arr[a]) : cellMap[c] = 0}
<1>2. /\ Marking /\ snap.arrLen = arrLen /\ arrLen \in Nat
      /\ cellMap \in [Cell -> {0, 1}] /\ arrMap \in [0 .. arrLen - 1 -> {0, 1}]
      /\ cells \in [Cell -> Value] /\ cellStack \subseteq Cell
      /\ arrStack \subseteq 0 .. arrLen - 1 /\ status \in Status
      /\ arr \in [0 .. arrLen - 1 -> ArrayRec]
  BY <1>1 DEF GcInv, GcTypeOK, TypeOK, PhaseInv, Marking, Snapshot
<1>3. UNCHANGED <<cells, top, heapEnd, arr, arrLen, envs, frames, maps, gcForce, status>>
      /\ UNCHANGED <<phase, arrMap, scan, mapLen, snap>>
  BY <1>1 DEF heapVars
<1>4. Elements(arr[a]) \subseteq Cell
  <2>1. arr[a] \in ArrayRec
    BY <1>2
  <2> QED BY <2>1 DEF Elements, ArrayRec, Cell
<1>5. /\ cellMap' \in [Cell -> {0, 1}]
      /\ cellStack' \subseteq Cell
      /\ arrStack' \subseteq 0 .. arrLen - 1
  BY <1>1, <1>2, <1>4
<1>6. MarkInvariant' => GcInv'
  BY <1>1, <1>2, <1>3, <1>5, MarkStepTyped
<1>7. MarkInvariant'
  <2>1. /\ \A d \in RootCells : Marked(d)
        /\ RootArrays \subseteq MarkedArrays
        /\ \A d \in Cell \ cellStack :
              (Marked(d) /\ cells[d].ty = "array") => cells[d].val \in MarkedArrays
        /\ \A b \in MarkedArrays \ arrStack : \A d \in Elements(arr[b]) : Marked(d)
    BY <1>1, <1>2 DEF GcInv, MarkInvariant
  <2>2. /\ RootCells' = RootCells /\ RootArrays' = RootArrays
        /\ MarkedArrays' = MarkedArrays
    BY <1>3 DEF RootCells, RootArrays, MarkedArrays
  <2>3. /\ \A d \in Cell : Marked(d) => Marked(d)'
        /\ \A d \in Cell \ cellStack' : Marked(d)' => Marked(d)
        /\ \A d \in Elements(arr[a]) : Marked(d)'
    BY <1>1, <1>2, <1>4 DEF Marked
  <2>4. RootCells \subseteq Cell
    BY DEF RootCells, GcInv, GcTypeOK, TypeOK, Cell
  <2>5. \A b \in 0 .. arrLen - 1 : Elements(arr[b]) \subseteq Cell
    BY <1>2 DEF Elements, ArrayRec, Cell
  <2>6. MarkedArrays \subseteq 0 .. arrLen - 1
    BY <1>2 DEF MarkedArrays
  <2>7. \A b \in MarkedArrays \ arrStack' : \A d \in Elements(arr[b]) : Marked(d)'
    BY <1>1, <2>1, <2>3, <2>5, <2>6
  <2>8. \A d \in Cell \ cellStack' :
           (Marked(d)' /\ cells[d].ty = "array") => cells[d].val \in MarkedArrays
    BY <1>1, <2>1, <2>3
  <2>9. \A d \in RootCells : Marked(d)'
    BY <2>1, <2>3, <2>4
  <2> QED BY <1>1, <1>3, <2>1, <2>2, <2>7, <2>8, <2>9 DEF MarkInvariant, Cell, Elements
<1> QED BY <1>6, <1>7

\* A round that popped nothing leaves no reference from a marked object to an
\* unmarked one.
LEMMA ArraysMarkedInv ==
  ASSUME GcInv, ArraysMarked
  PROVE  GcInv'
<1>1. /\ phase = "arrays" /\ status = "run" /\ arrStack = {}
      /\ phase' = IF stuck THEN "moveCells" ELSE "cells"
      /\ stuck' = TRUE
      /\ UNCHANGED <<cells, top, heapEnd, arr, arrLen, envs, frames, maps, gcForce, status>>
      /\ UNCHANGED <<cellMap, cellStack, arrMap, arrStack, scan, mapLen, snap>>
  BY DEF ArraysMarked, heapVars
<1>2. /\ Marking /\ snap = Snapshot /\ snap.arrLen = arrLen /\ MarkInvariant
      /\ cellMap \in [Cell -> {0, 1}] /\ arrMap \in [0 .. arrLen - 1 -> {0, 1}]
      /\ cellStack \subseteq Cell /\ stuck \in BOOLEAN /\ scan = 0 /\ mapLen = 0 /\ gcForce
      /\ arrStack \subseteq 0 .. arrLen - 1 /\ status \in Status /\ TypeOK
  BY <1>1 DEF GcInv, GcTypeOK, TypeOK, PhaseInv, Marking, Snapshot
<1>3. /\ \A d \in RootCells : Marked(d)
      /\ RootArrays \subseteq MarkedArrays
      /\ \A d \in Cell \ cellStack :
            (Marked(d) /\ cells[d].ty = "array") => cells[d].val \in MarkedArrays
      /\ \A a \in MarkedArrays \ arrStack : \A d \in Elements(arr[a]) : Marked(d)
      /\ stuck => cellStack = {}
  BY <1>1, <1>2 DEF MarkInvariant
<1>4. CASE ~stuck
  <2>1. MarkInvariant' => GcInv'
    BY <1>1, <1>2, <1>4, MarkStepTyped
  <2>2. /\ RootCells' = RootCells /\ RootArrays' = RootArrays /\ MarkedArrays' = MarkedArrays
        /\ \A d : Marked(d)' <=> Marked(d)
    BY <1>1 DEF RootCells, RootArrays, MarkedArrays, Marked
  <2> QED BY <1>1, <1>3, <1>4, <2>1, <2>2 DEF MarkInvariant, Elements
<1>5. CASE stuck
  <2>1. phase' = "moveCells"
    BY <1>1, <1>5
  <2>2. TypeOK'
    BY <1>1, <1>2 DEF TypeOK, Cell
  <2>3. GcTypeOK'
    BY <1>1, <2>1, <2>2 DEF GcInv, GcTypeOK, Phase, Cell
  <2>4. /\ snap.cells = cells /\ snap.arr = arr /\ snap.arrLen = arrLen /\ snap.envs = envs
    BY <1>2 DEF Snapshot
  <2>5. PhaseInv'
    BY <1>1, <1>2, <2>1, <2>4, StackAssumption DEF PhaseInv, Marking, Moving
  <2>6. MovedCells' = 0 /\ NextCell' = 0 /\ MovedArrays' = 0 /\ NextArray' = 0
    BY <1>1, <1>2, <2>1 DEF MovedCells, NextCell, MovedArrays, NextArray
  <2>7. /\ \A c \in Cell : Kept(c)' <=> (c < StackMax \/ cellMap[c] = 1)
        /\ \A a \in 0 .. arrLen - 1 : KeptArray(a)' <=> arrMap[a] = 1
    BY <1>1, <2>6 DEF Kept, KeptArray, Cell
  <2>8. KeptClosed'
    <3>1. \A a : a \in MarkedArrays => a \in 0 .. arrLen - 1 /\ KeptArray(a)'
      BY <1>2, <2>7 DEF MarkedArrays
    <3>2. \A a \in 0 .. arrLen - 1 : KeptArray(a)' => a \in MarkedArrays
      BY <1>2, <2>7 DEF MarkedArrays
    <3>3. \A e \in DOMAIN envs : envs[e].array < arrLen /\ KeptArray(envs[e].array)'
      <4> SUFFICES ASSUME NEW e \in DOMAIN envs
                   PROVE  envs[e].array < arrLen /\ KeptArray(envs[e].array)'
        OBVIOUS
      <4>1. envs[e].array \in RootArrays
        BY <1>2, LenProperties DEF RootArrays, TypeOK
      <4>2. envs[e].array \in 0 .. arrLen - 1 /\ KeptArray(envs[e].array)'
        BY <1>1, <1>3, <3>1, <4>1, Zenon
      <4>3. arrLen \in Nat
        BY <1>2 DEF TypeOK
      <4>4. envs[e].array < arrLen
        BY <4>2, <4>3
      <4> QED BY <4>2, <4>4, Zenon
    <3>4. ASSUME NEW c \in Cell, c < top \/ c >= StackMax, Kept(c)', cells[c].ty = "array"
          PROVE  cells[c].val < arrLen /\ KeptArray(cells[c].val)'
      <4>1. Marked(c)
        BY <1>2, <1>3, <2>7, <3>4 DEF Marked, RootCells, Cell, TypeOK
      <4>2. cells[c].val \in MarkedArrays
        BY <1>3, <1>5, <3>4, <4>1
      <4>3. cells[c].val \in 0 .. arrLen - 1 /\ KeptArray(cells[c].val)'
        BY <1>1, <3>1, <4>2, Zenon
      <4>4. arrLen \in Nat
        BY <1>2 DEF TypeOK
      <4>5. cells[c].val < arrLen
        BY <4>3, <4>4
      <4> QED BY <4>3, <4>5, Zenon
    <3>5. ASSUME NEW a \in 0 .. arrLen - 1, KeptArray(a)', NEW c \in Elements(arr[a])
          PROVE  Kept(c)'
      <4>1. Marked(c)
        BY <1>1, <1>3, <3>2, <3>5
      <4>2. c \in Cell
        <5>1. arr[a] \in ArrayRec
          BY <1>2 DEF TypeOK
        <5> QED BY <5>1 DEF Elements, ArrayRec, Cell
      <4> QED BY <2>7, <4>1, <4>2 DEF Marked
    <3> QED BY <1>1, <2>4, <3>3, <3>4, <3>5 DEF KeptClosed, Cell, Elements
  <2>9. CellMapInv'
    <3>1. \A c \in Cell : cellMap'[c] \in {0, 1}
      BY <1>1, <1>2
    <3> QED BY <2>6, <3>1, StackAssumption DEF CellMapInv, Cell
  <2>10. ArrMapInv'
    <3>1. \A a \in 0 .. snap'.arrLen - 1 : arrMap'[a] \in {0, 1}
      BY <1>1, <1>2
    <3> QED BY <2>6, <3>1 DEF ArrMapInv
  <2>11. MoveSafe'
    BY <1>1, <2>4, <2>6 DEF MoveSafe
  <2> QED BY <2>1, <2>3, <2>5, <2>8, <2>9, <2>10, <2>11 DEF GcInv, MarkInvariant, Marking,
             ContentsKept
<1> QED BY <1>4, <1>5

-----------------------------------------------------------------------------
(* Move.                                                                   *)

\* The cells slide down: the one at scan goes to mapLen, which is not above it.
LEMMA MoveCellInv ==
  ASSUME GcInv, MoveCell
  PROVE  GcInv'
<1>1. /\ phase = "moveCells" /\ phase' = "moveCells" /\ scan < CellLen /\ scan' = scan + 1
      /\ UNCHANGED <<top, heapEnd, arr, arrLen, envs, frames, maps, gcForce, status,
                     cellStack, arrMap, arrStack, stuck, snap>>
  BY DEF MoveCell
<1>2. /\ Moving /\ Moving' /\ TypeOK /\ scan \in Nat /\ mapLen \in Nat
      /\ cells \in [Cell -> Value] /\ cellMap \in [Cell -> -1 .. CellLen]
      /\ snap.cells \in [Cell -> Value] /\ scan \in Cell
  BY <1>1 DEF GcInv, GcTypeOK, TypeOK, Moving, Cell
<1>3. /\ MovedCells = scan /\ NextCell = mapLen /\ MovedArrays = 0 /\ NextArray = 0
      /\ MovedCells' = scan + 1 /\ NextCell' = mapLen' /\ MovedArrays' = 0 /\ NextArray' = 0
  BY <1>1 DEF MovedCells, NextCell, MovedArrays, NextArray
<1>4. /\ mapLen <= scan
      /\ scan <= StackMax => mapLen = scan
      /\ scan >= StackMax => mapLen >= StackMax
      /\ \A c \in scan .. CellLen - 1 : cellMap[c] \in {0, 1}
      /\ \A c \in 0 .. scan - 1 : Kept(c) => cellMap[c] < mapLen
      /\ \A c \in 0 .. scan - 1 : c < StackMax => cellMap[c] = c
      /\ \A c \in 0 .. scan - 1 : (c >= StackMax /\ Kept(c)) => cellMap[c] >= StackMax
      /\ (scan > 0 /\ Kept(scan - 1)) => mapLen = cellMap[scan - 1] + 1
      /\ \A i, j \in 0 .. scan - 1 :
            (i <= j /\ \A c \in i .. j : Kept(c)) => cellMap[j] = cellMap[i] + (j - i)
      /\ \A x \in 0 .. mapLen - 1 : \E c \in 0 .. scan - 1 : Kept(c) /\ cellMap[c] = x
  BY <1>2, <1>3 DEF GcInv, CellMapInv
<1>5. /\ \A c \in scan .. CellLen - 1 : cells[c] = snap.cells[c]
      /\ \A c \in 0 .. scan - 1 : Kept(c) =>
            cellMap[c] <= c /\ cells[cellMap[c]] = snap.cells[c]
      /\ \A a \in 0 .. snap.arrLen - 1 : arr[a] = snap.arr[a]
  BY <1>2, <1>3 DEF GcInv, MoveSafe
\* Every case of the step, in one form.
<1> DEFINE new == cellMap'[scan]
<1>6. /\ cellMap' = [cellMap EXCEPT ![scan] = new]
      /\ new \in -1 .. CellLen
      /\ scan < StackMax => new = scan /\ mapLen = scan
      /\ new >= 0 => new = mapLen /\ mapLen' = mapLen + 1
      /\ new < 0 => mapLen' = mapLen /\ cells' = cells
      /\ new >= 0 <=> (scan < StackMax \/ cellMap[scan] = 1)
      /\ \A c \in Cell : cells'[c] = IF new >= 0 /\ c = mapLen THEN cells[scan] ELSE cells[c]
      /\ cells' \in [Cell -> Value]
  <2>1. mapLen \in Cell /\ cellMap[scan] \in {0, 1}
    BY <1>1, <1>2, <1>4 DEF Cell
  <2>2. CASE scan < StackMax
    <3>1. cellMap' = [cellMap EXCEPT ![scan] = scan] /\ mapLen' = mapLen + 1 /\ cells' = cells
      BY <2>2 DEF MoveCell
    <3>2. mapLen = scan
      BY <1>2, <1>4, <2>2, StackAssumption
    <3> QED BY <1>2, <2>1, <2>2, <3>1, <3>2 DEF Cell
  <2>3. CASE scan >= StackMax /\ cellMap[scan] = 0
    <3>1. cellMap' = [cellMap EXCEPT ![scan] = -1] /\ mapLen' = mapLen /\ cells' = cells
      BY <1>2, <2>3, StackAssumption DEF MoveCell
    <3> QED BY <1>2, <2>1, <2>3, <3>1, StackAssumption DEF Cell
  <2>4. CASE scan >= StackMax /\ cellMap[scan] = 1
    <3>1. /\ cellMap' = [cellMap EXCEPT ![scan] = mapLen] /\ mapLen' = mapLen + 1
          /\ cells' = [cells EXCEPT ![mapLen] = cells[scan]]
      BY <1>2, <2>4, StackAssumption DEF MoveCell
    <3> QED BY <1>2, <2>1, <2>4, <3>1, StackAssumption DEF Cell
  <2> QED BY <1>2, <2>1, <2>2, <2>3, <2>4, StackAssumption
<1>7. /\ \A c \in 0 .. scan - 1 : cellMap'[c] = cellMap[c]
      /\ \A c \in scan + 1 .. CellLen - 1 : cellMap'[c] = cellMap[c]
  BY <1>2, <1>6 DEF Cell
<1>8. \A c \in Cell : Kept(c)' <=> Kept(c)
  BY <1>2, <1>3, <1>6, <1>7 DEF Kept, Cell
<1>9. \A a : KeptArray(a)' <=> KeptArray(a)
  BY <1>1, <1>3 DEF KeptArray
<1> HIDE DEF new
<1>10. GcTypeOK'
  <2>1. TypeOK'
    BY <1>1, <1>2, <1>6 DEF TypeOK, Cell
  <2>2. cellMap' \in [Cell -> -1 .. CellLen] /\ scan' \in Nat /\ mapLen' \in Nat
    BY <1>1, <1>2, <1>6
  <2> QED BY <1>1, <2>1, <2>2 DEF GcInv, GcTypeOK, Cell
<1>11. PhaseInv'
  BY <1>1, <1>2, StackAssumption DEF GcInv, PhaseInv, Marking, Moving
<1>12. KeptClosed'
  <2>1. ASSUME NEW a \in 0 .. snap.arrLen - 1
        PROVE  Elements(snap.arr[a]) \subseteq Cell
    <3>1. snap.arr[a] \in ArrayRec
      BY DEF GcInv, GcTypeOK
    <3> QED BY <3>1, StackAssumption, DataAssumption DEF Elements, ArrayRec, Cell
  <2> QED BY <1>1, <1>2, <1>8, <1>9, <2>1 DEF GcInv, KeptClosed, Elements, Cell
<1>13. CellMapInv'
  <2>1. mapLen' <= scan + 1
    BY <1>2, <1>4, <1>6
  <2>2. (scan + 1 <= StackMax => mapLen' = scan + 1)
        /\ (scan + 1 >= StackMax => mapLen' >= StackMax)
    BY <1>2, <1>4, <1>6, StackAssumption
  <2>3. \A c \in scan + 1 .. CellLen - 1 : cellMap'[c] \in {0, 1}
    BY <1>2, <1>4, <1>7
  <2>4. \A c \in 0 .. scan : Kept(c) => cellMap'[c] < mapLen'
    <3>1. Kept(scan) => new >= 0
      BY <1>2, <1>3, <1>6 DEF Kept
    <3>2. cellMap'[scan] = new
      BY DEF new
    <3>3. \A c \in 0 .. scan - 1 : Kept(c) => cellMap'[c] < mapLen'
      BY <1>2, <1>4, <1>6, <1>7 DEF Cell
    <3>4. mapLen' \in Nat /\ (Kept(scan) => cellMap'[scan] < mapLen')
      BY <1>2, <1>6, <3>1, <3>2
    <3>5. \A c \in 0 .. scan : c \in 0 .. scan - 1 \/ c = scan
      BY <1>2
    <3> QED BY <3>3, <3>4, <3>5, Zenon
  <2>5. \A c \in 0 .. scan : c < StackMax => cellMap'[c] = c
    BY <1>2, <1>4, <1>6, <1>7 DEF new
  <2>6. \A c \in 0 .. scan : (c >= StackMax /\ Kept(c)) => cellMap'[c] >= StackMax
    <3>1. (scan >= StackMax /\ Kept(scan)) => cellMap'[scan] >= StackMax
      BY <1>2, <1>3, <1>4, <1>6 DEF Kept, new
    <3>2. \A c \in 0 .. scan - 1 : (c >= StackMax /\ Kept(c)) => cellMap[c] >= StackMax
      BY <1>4
    <3>3. \A c \in 0 .. scan - 1 : (c >= StackMax /\ Kept(c)) => cellMap'[c] >= StackMax
      BY <1>7, <3>2, Zenon
    <3>4. \A c \in 0 .. scan : c \in 0 .. scan - 1 \/ c = scan
      BY <1>2
    <3> QED BY <3>1, <3>3, <3>4, Zenon
  <2>7. Kept(scan) => mapLen' = cellMap'[scan] + 1
    BY <1>2, <1>3, <1>6 DEF Kept, new
  <2>8. ASSUME NEW i \in 0 .. scan, NEW j \in 0 .. scan, i <= j, \A c \in i .. j : Kept(c)
        PROVE  cellMap'[j] = cellMap'[i] + (j - i)
    <3>1. CASE j < scan
      BY <1>2, <1>4, <1>7, <2>8, <3>1
    <3>2. CASE j = scan /\ i = scan
      <4>1. cellMap'[scan] \in Int
        BY <1>6 DEF new
      <4> QED BY <1>2, <3>2, <4>1
    <3>3. CASE j = scan /\ i < scan
      <4>1. scan > 0 /\ Kept(scan - 1) /\ Kept(scan)
        BY <1>2, <2>8, <3>3
      <4>2. cellMap[scan - 1] = cellMap[i] + ((scan - 1) - i)
        BY <1>2, <1>4, <2>8, <3>3
      <4>3. mapLen = cellMap[scan - 1] + 1
        BY <1>4, <4>1
      <4>4. cellMap'[scan] = mapLen
        BY <1>2, <1>3, <1>6, <4>1 DEF Kept, new
      <4>5. cellMap[i] \in Int /\ cellMap'[i] = cellMap[i]
        BY <1>2, <1>7, <3>3 DEF Cell
      <4> QED BY <1>2, <3>3, <4>2, <4>3, <4>4, <4>5
    <3> QED BY <1>2, <3>1, <3>2, <3>3
  <2>9. ASSUME NEW x \in 0 .. mapLen' - 1
        PROVE  \E c \in 0 .. scan : Kept(c) /\ cellMap'[c] = x
    <3>1. CASE x < mapLen
      <4>1. PICK c \in 0 .. scan - 1 : Kept(c) /\ cellMap[c] = x
        BY <1>2, <1>4, <3>1
      <4> QED BY <1>2, <1>7, <4>1
    <3>2. CASE ~(x < mapLen)
      <4>1. new >= 0 /\ x = mapLen
        BY <1>2, <1>6, <3>2
      <4>2. Kept(scan) /\ cellMap'[scan] = x
        BY <1>2, <1>3, <1>6, <4>1 DEF Kept, new
      <4> QED BY <1>2, <4>2
    <3> QED BY <3>1, <3>2
  <2>10. \A c \in 0 .. scan : Kept(c)' <=> Kept(c)
    BY <1>2, <1>8 DEF Cell
  <2>11. (scan + 1) - 1 = scan
    BY <1>2
  <2>12. \A i, j \in 0 .. scan :
           (i <= j /\ \A c \in i .. j : Kept(c)') => cellMap'[j] = cellMap'[i] + (j - i)
    BY <1>2, <2>8, <2>10
  <2> QED BY <1>2, <1>3, <2>1, <2>2, <2>3, <2>4, <2>5, <2>6, <2>7, <2>9, <2>10, <2>11, <2>12
          DEF CellMapInv
<1>14. ArrMapInv'
  BY <1>1, <1>2, <1>3, <1>9 DEF GcInv, ArrMapInv
<1>15. MoveSafe'
  <2>1. \A c \in scan + 1 .. CellLen - 1 : cells'[c] = snap.cells[c]
    BY <1>2, <1>4, <1>5, <1>6 DEF Cell
  <2>2. ASSUME NEW c \in 0 .. scan, Kept(c)
        PROVE  cellMap'[c] <= c /\ cells'[cellMap'[c]] = snap.cells[c]
    <3>1. CASE c < scan
      <4>1. cellMap'[c] = cellMap[c] /\ cellMap[c] < mapLen /\ cellMap[c] >= 0 /\ cellMap[c] <= c
        BY <1>2, <1>3, <1>4, <1>5, <1>7, <2>2, <3>1 DEF Kept
      <4>2. cellMap[c] \in Cell
        BY <1>2, <4>1 DEF Cell
      <4>3. \A d \in Cell : cells'[d] = IF new >= 0 /\ d = mapLen THEN cells[scan] ELSE cells[d]
        BY <1>6, Zenon
      <4>4. cellMap[c] # mapLen
        BY <1>2, <4>1, <4>2 DEF Cell
      <4>5. cells'[cellMap[c]] = cells[cellMap[c]]
        BY <4>2, <4>3, <4>4, Zenon
      <4>6. cells[cellMap[c]] = snap.cells[c]
        BY <1>2, <1>5, <2>2, <3>1
      <4> QED BY <4>1, <4>5, <4>6
    <3>2. CASE c = scan
      <4>1. new >= 0 /\ new = mapLen /\ cellMap'[scan] = mapLen
        BY <1>2, <1>3, <1>6, <2>2, <3>2 DEF Kept, new
      <4>2. mapLen \in Cell
        BY <1>2, <1>4 DEF Cell
      <4> QED BY <1>2, <1>4, <1>5, <1>6, <3>2, <4>1, <4>2 DEF Cell
    <3> QED BY <1>2, <3>1, <3>2
  <2>3. \A c \in 0 .. scan : Kept(c)' <=> Kept(c)
    BY <1>2, <1>8 DEF Cell
  <2> QED BY <1>1, <1>2, <1>3, <1>5, <2>1, <2>2, <2>3 DEF MoveSafe
<1> QED BY <1>1, <1>10, <1>11, <1>12, <1>13, <1>14, <1>15 DEF GcInv, Marking, MarkInvariant,
           ContentsKept

\* The heap ends where the next survivor would go.
LEMMA CellsMovedInv ==
  ASSUME GcInv, CellsMoved
  PROVE  GcInv'
<1>1. /\ phase = "moveCells" /\ phase' = "moveArrays" /\ scan = CellLen /\ scan' = 0 /\ mapLen' = 0
      /\ heapEnd' = mapLen
      /\ UNCHANGED <<cells, top, arr, arrLen, envs, frames, maps, gcForce, status,
                     cellMap, cellStack, arrMap, arrStack, stuck, snap>>
  BY DEF CellsMoved
<1>2. /\ Moving /\ Moving' /\ TypeOK /\ arrLen = snap.arrLen /\ arrLen \in Nat
  BY <1>1 DEF GcInv, GcTypeOK, TypeOK, PhaseInv, Moving
<1>3. /\ MovedCells = CellLen /\ NextCell = mapLen /\ MovedArrays = 0 /\ NextArray = 0
      /\ MovedCells' = CellLen /\ NextCell' = mapLen /\ MovedArrays' = 0 /\ NextArray' = 0
  BY <1>1 DEF MovedCells, NextCell, MovedArrays, NextArray
<1>4. /\ \A c : Kept(c)' <=> Kept(c)
      /\ \A a : KeptArray(a)' <=> KeptArray(a)
  BY <1>1, <1>3 DEF Kept, KeptArray
<1>5. heapEnd' \in StackMax .. CellLen
  BY <1>1, <1>2, <1>3 DEF GcInv, GcTypeOK, CellMapInv
<1>6. GcTypeOK'
  BY <1>1, <1>2, <1>5 DEF GcInv, GcTypeOK, TypeOK, Phase, Cell
<1>7. PhaseInv'
  BY <1>1, <1>2 DEF GcInv, PhaseInv, Marking, Moving
<1>8. KeptClosed'
  BY <1>1, <1>2, <1>4 DEF GcInv, KeptClosed, Elements, Cell
<1>9. CellMapInv'
  BY <1>1, <1>2, <1>3, <1>4 DEF GcInv, CellMapInv
<1>10. ArrMapInv'
  BY <1>1, <1>2, <1>3, <1>4 DEF GcInv, ArrMapInv
<1>11. MoveSafe'
  BY <1>1, <1>2, <1>3, <1>4 DEF GcInv, MoveSafe
<1> QED BY <1>1, <1>6, <1>7, <1>8, <1>9, <1>10, <1>11 DEF GcInv, Marking, MarkInvariant,
           ContentsKept

\* The records of the arrays slide down like the cells.
LEMMA MoveArrayInv ==
  ASSUME GcInv, MoveArray
  PROVE  GcInv'
<1>1. /\ phase = "moveArrays" /\ phase' = "moveArrays" /\ scan < arrLen /\ scan' = scan + 1
      /\ UNCHANGED <<cells, top, heapEnd, arrLen, envs, frames, maps, gcForce, status,
                     cellMap, cellStack, arrStack, stuck, snap>>
  BY DEF MoveArray
<1>2. /\ Moving /\ Moving' /\ arrLen = snap.arrLen
      /\ TypeOK /\ scan \in Nat /\ mapLen \in Nat /\ arrLen \in Nat
      /\ scan \in 0 .. arrLen - 1
      /\ arr \in [0 .. arrLen - 1 -> ArrayRec] /\ arrMap \in [0 .. arrLen - 1 -> -1 .. arrLen]
  <2>1. Moving /\ Moving' /\ arrLen = snap.arrLen
    BY <1>1 DEF GcInv, PhaseInv, Moving
  <2>2. /\ TypeOK /\ scan \in Nat /\ mapLen \in Nat /\ arrLen \in Nat
        /\ arr \in [0 .. arrLen - 1 -> ArrayRec]
        /\ arrMap \in [0 .. arrLen - 1 -> -1 .. arrLen]
    BY <2>1 DEF GcInv, GcTypeOK, TypeOK
  <2> QED BY <1>1, <2>1, <2>2
<1>3. /\ MovedCells = CellLen /\ NextCell = heapEnd /\ MovedArrays = scan /\ NextArray = mapLen
      /\ MovedCells' = CellLen /\ NextCell' = heapEnd /\ MovedArrays' = scan + 1
      /\ NextArray' = mapLen'
  BY <1>1 DEF MovedCells, NextCell, MovedArrays, NextArray
<1>4. /\ mapLen <= scan
      /\ \A a \in scan .. arrLen - 1 : arrMap[a] \in {0, 1}
      /\ \A a \in 0 .. scan - 1 : KeptArray(a) => arrMap[a] < mapLen
      /\ \A x \in 0 .. mapLen - 1 : \E a \in 0 .. scan - 1 : KeptArray(a) /\ arrMap[a] = x
  BY <1>2, <1>3 DEF GcInv, ArrMapInv
<1>5. /\ \A c \in CellLen .. CellLen - 1 : cells[c] = snap.cells[c]
      /\ \A c \in 0 .. CellLen - 1 : Kept(c) =>
            cellMap[c] <= c /\ cells[cellMap[c]] = snap.cells[c]
      /\ \A a \in scan .. arrLen - 1 : arr[a] = snap.arr[a]
      /\ \A a \in 0 .. scan - 1 : KeptArray(a) =>
            arrMap[a] <= a /\ arr[arrMap[a]] = snap.arr[a]
  BY <1>2, <1>3 DEF GcInv, MoveSafe
\* Every case of the step, in one form.
<1> DEFINE new == arrMap'[scan]
<1>6. /\ arrMap' = [arrMap EXCEPT ![scan] = new]
      /\ new \in -1 .. arrLen
      /\ new >= 0 => new = mapLen /\ mapLen' = mapLen + 1
      /\ new < 0 => mapLen' = mapLen
      /\ new >= 0 <=> arrMap[scan] = 1
      /\ arr' \in [0 .. arrLen - 1 -> ArrayRec]
  <2>1. mapLen \in 0 .. arrLen - 1 /\ arrMap[scan] \in {0, 1}
    BY <1>1, <1>2, <1>4
  <2>2. CASE arrMap[scan] = 0
    <3>1. arrMap' = [arrMap EXCEPT ![scan] = -1] /\ mapLen' = mapLen /\ arr' = arr
      BY <2>2 DEF MoveArray
    <3>2. new = -1 /\ arrMap' = [arrMap EXCEPT ![scan] = new]
      BY <1>2, <3>1
    <3> QED BY <1>2, <2>1, <2>2, <3>1, <3>2
  <2>3. CASE arrMap[scan] = 1
    <3>1. /\ arrMap' = [arrMap EXCEPT ![scan] = mapLen] /\ mapLen' = mapLen + 1
          /\ arr' = [arr EXCEPT ![mapLen] = arr[scan]]
      BY <2>3 DEF MoveArray
    <3>2. new = mapLen /\ arrMap' = [arrMap EXCEPT ![scan] = new]
      BY <1>2, <3>1
    <3>3. arr' \in [0 .. arrLen - 1 -> ArrayRec]
      BY <1>2, <2>1, <3>1
    <3> HIDE DEF new
    <3> QED BY <1>2, <2>1, <2>3, <3>1, <3>2, <3>3
  <2> QED BY <2>1, <2>2, <2>3
<1>7. \A a \in 0 .. arrLen - 1 : arr'[a] = IF new >= 0 /\ a = mapLen THEN arr[scan] ELSE arr[a]
  <2>1. CASE arrMap[scan] = 0
    BY <1>6, <2>1 DEF MoveArray
  <2>2. CASE arrMap[scan] = 1
    <3>1. arr' = [arr EXCEPT ![mapLen] = arr[scan]]
      BY <2>2 DEF MoveArray
    <3> QED BY <1>2, <1>6, <2>2, <3>1
  <2> QED BY <1>2, <1>4, <2>1, <2>2
<1>8. /\ \A a \in 0 .. scan - 1 : arrMap'[a] = arrMap[a]
      /\ \A a \in scan + 1 .. arrLen - 1 : arrMap'[a] = arrMap[a]
      /\ arrMap'[scan] = new
  BY <1>2, <1>6
<1> HIDE DEF new
<1>9. /\ \A a \in 0 .. arrLen - 1 : KeptArray(a)' <=> KeptArray(a)
      /\ \A c : Kept(c)' <=> Kept(c)
      /\ KeptArray(scan) <=> new >= 0
  <2>1. \A a \in 0 .. arrLen - 1 : a \in 0 .. scan - 1 \/ a = scan \/ a \in scan + 1 .. arrLen - 1
    BY <1>2
  <2>2. KeptArray(scan) <=> new >= 0
    BY <1>2, <1>3, <1>6 DEF KeptArray
  <2>3. \A a \in 0 .. scan - 1 : KeptArray(a)' <=> KeptArray(a)
    BY <1>2, <1>3, <1>8 DEF KeptArray
  <2>4. \A a \in scan + 1 .. arrLen - 1 : KeptArray(a)' <=> KeptArray(a)
    BY <1>2, <1>3, <1>8 DEF KeptArray
  <2>5. \A c : Kept(c)' <=> Kept(c)
    BY <1>1, <1>3 DEF Kept
  <2>6. \A a : a = scan => (KeptArray(a)' <=> KeptArray(a))
    BY <1>1, <1>2, <1>3, <1>6, <1>8 DEF KeptArray
  <2> QED BY <2>1, <2>2, <2>3, <2>4, <2>5, <2>6, Zenon
<1>10. GcTypeOK'
  <2>1. TypeOK'
    BY <1>1, <1>2, <1>6 DEF TypeOK, Cell
  <2>2. arrMap' \in [0 .. arrLen - 1 -> -1 .. arrLen] /\ mapLen' \in Nat /\ scan' \in Nat
    BY <1>1, <1>2, <1>6
  <2> QED BY <1>1, <1>2, <2>1, <2>2 DEF GcInv, GcTypeOK, Cell
<1>11. PhaseInv'
  BY <1>1, <1>2 DEF GcInv, PhaseInv, Marking, Moving
<1>12. KeptClosed'
  <2>1. /\ \A e \in DOMAIN envs : envs[e].array < snap.arrLen /\ KeptArray(envs[e].array)
        /\ \A c \in Cell : (/\ c < top \/ c >= StackMax
                            /\ Kept(c)
                            /\ snap.cells[c].ty = "array") =>
              snap.cells[c].val < snap.arrLen /\ KeptArray(snap.cells[c].val)
        /\ \A a \in 0 .. snap.arrLen - 1 : KeptArray(a) =>
              \A c \in Elements(snap.arr[a]) : Kept(c)
    BY <1>2 DEF GcInv, KeptClosed
  <2>2. \A e \in DOMAIN envs : envs[e].array \in Nat
    BY <1>2, EnvTyped
  <2>3. \A c \in Cell : snap.cells[c].val \in Nat
    BY DEF GcInv, GcTypeOK, Value
  <2>4. \A a : a \in Nat /\ a < snap.arrLen => (KeptArray(a)' <=> KeptArray(a))
    BY <1>2, <1>9
  <2>5. \A e \in DOMAIN envs' : envs'[e].array < snap'.arrLen /\ KeptArray(envs[e].array)'
    BY <1>1, <2>1, <2>2, <2>4
  <2>6. \A c \in Cell : (/\ c < top' \/ c >= StackMax
                         /\ Kept(c)'
                         /\ snap'.cells[c].ty = "array") =>
           snap'.cells[c].val < snap'.arrLen /\ KeptArray(snap.cells[c].val)'
    BY <1>1, <1>9, <2>1, <2>3, <2>4
  <2>7. \A a \in 0 .. snap'.arrLen - 1 : KeptArray(a)' =>
           \A c \in Elements(snap.arr[a])' : Kept(c)'
    BY <1>1, <1>2, <1>9, <2>1 DEF Elements
  <2> QED BY <2>5, <2>6, <2>7 DEF KeptClosed, Cell
<1>13. CellMapInv'
  BY <1>1, <1>2, <1>3, <1>9 DEF GcInv, CellMapInv
<1>14. ArrMapInv'
  <2>1. mapLen' <= scan + 1
    BY <1>2, <1>4, <1>6
  <2>2. \A a \in scan + 1 .. arrLen - 1 : arrMap'[a] \in {0, 1}
    BY <1>2, <1>4, <1>8
  <2>3. \A a \in 0 .. scan : a \in 0 .. scan - 1 \/ a = scan
    BY <1>2
  <2>4. \A a \in 0 .. scan : KeptArray(a)' <=> KeptArray(a)
    BY <1>2, <1>9
  <2>5. KeptArray(scan) => arrMap'[scan] < mapLen'
    BY <1>2, <1>6, <1>8, <1>9
  <2>6. \A a \in 0 .. scan - 1 : KeptArray(a) => arrMap'[a] < mapLen'
    BY <1>2, <1>4, <1>6, <1>8
  <2>7. \A a \in 0 .. scan : KeptArray(a)' => arrMap'[a] < mapLen'
    BY <2>3, <2>4, <2>5, <2>6, Zenon
  <2>8. ASSUME NEW x \in 0 .. mapLen' - 1
        PROVE  \E a \in 0 .. scan : KeptArray(a)' /\ arrMap'[a] = x
    <3>1. CASE x < mapLen
      <4>1. PICK a \in 0 .. scan - 1 : KeptArray(a) /\ arrMap[a] = x
        BY <1>2, <1>4, <3>1
      <4> QED BY <1>2, <1>8, <2>4, <4>1
    <3>2. CASE ~(x < mapLen)
      <4>1. new >= 0 /\ x = mapLen
        BY <1>2, <1>6, <3>2
      <4> QED BY <1>2, <1>6, <1>8, <1>9, <2>4, <4>1
    <3> QED BY <3>1, <3>2
  <2>9. (scan + 1) - 1 = scan
    BY <1>2
  <2> QED BY <1>1, <1>2, <1>3, <2>1, <2>2, <2>7, <2>8, <2>9 DEF ArrMapInv
<1>15. MoveSafe'
  <2>1. \A a \in scan + 1 .. arrLen - 1 : arr'[a] = snap.arr[a]
    BY <1>2, <1>4, <1>5, <1>7
  <2>2. ASSUME NEW a \in 0 .. scan, KeptArray(a)
        PROVE  arrMap'[a] <= a /\ arr'[arrMap'[a]] = snap.arr[a]
    <3>1. CASE a < scan
      <4>1. /\ arrMap'[a] = arrMap[a] /\ arrMap[a] < mapLen /\ arrMap[a] >= 0 /\ arrMap[a] <= a
            /\ arr[arrMap[a]] = snap.arr[a]
        BY <1>2, <1>3, <1>4, <1>5, <1>8, <2>2, <3>1 DEF KeptArray
      <4>2. arrMap[a] \in 0 .. arrLen - 1 /\ arrMap[a] # mapLen
        BY <1>2, <3>1, <4>1
      <4>3. arr'[arrMap[a]] = arr[arrMap[a]]
        BY <1>7, <4>2, Zenon
      <4> QED BY <4>1, <4>3
    <3>2. CASE a = scan
      <4>1. new >= 0 /\ new = mapLen /\ arrMap'[scan] = mapLen
        BY <1>6, <1>8, <1>9, <2>2, <3>2
      <4>2. mapLen \in 0 .. arrLen - 1
        BY <1>2, <1>4
      <4>3. arr'[mapLen] = arr[scan]
        BY <1>7, <4>1, <4>2, Zenon
      <4>4. arr[scan] = snap.arr[scan]
        BY <1>2, <1>5
      <4> QED BY <1>2, <1>4, <3>2, <4>1, <4>3, <4>4
    <3> QED BY <1>2, <3>1, <3>2
  <2>3. \A a \in 0 .. scan : KeptArray(a)' <=> KeptArray(a)
    BY <1>2, <1>9
  <2>4. (scan + 1) - 1 = scan
    BY <1>2
  <2> QED BY <1>1, <1>2, <1>3, <1>5, <1>9, <2>1, <2>2, <2>3, <2>4 DEF MoveSafe
<1> QED BY <1>1, <1>10, <1>11, <1>12, <1>13, <1>14, <1>15 DEF GcInv, Marking, MarkInvariant,
           ContentsKept

\* The array list is cut where the next survivor would go.
LEMMA ArraysMovedInv ==
  ASSUME GcInv, ArraysMoved
  PROVE  GcInv'
<1>1. /\ phase = "moveArrays" /\ phase' = "rewrite" /\ scan = arrLen /\ arrLen' = mapLen
      /\ arr' = [a \in 0 .. mapLen - 1 |-> arr[a]]
      /\ UNCHANGED <<cells, top, heapEnd, envs, frames, maps, gcForce, status,
                     cellMap, cellStack, arrMap, arrStack, stuck, scan, mapLen, snap>>
  BY DEF ArraysMoved
<1>2. /\ Moving /\ Moving' /\ TypeOK /\ arrLen = snap.arrLen /\ arrLen \in Nat /\ mapLen \in Nat
      /\ arr \in [0 .. arrLen - 1 -> ArrayRec]
  BY <1>1 DEF GcInv, GcTypeOK, TypeOK, PhaseInv, Moving
<1>3. /\ MovedCells = CellLen /\ NextCell = heapEnd /\ MovedArrays = arrLen /\ NextArray = mapLen
      /\ MovedCells' = CellLen /\ NextCell' = heapEnd /\ MovedArrays' = arrLen
      /\ NextArray' = mapLen
  BY <1>1, <1>2 DEF MovedCells, NextCell, MovedArrays, NextArray
<1>4. /\ \A c : Kept(c)' <=> Kept(c)
      /\ \A a : KeptArray(a)' <=> KeptArray(a)
  BY <1>1, <1>3 DEF Kept, KeptArray
<1>5. mapLen <= arrLen /\ \A a \in 0 .. arrLen - 1 : KeptArray(a) => arrMap[a] < mapLen
  BY <1>2, <1>3 DEF GcInv, ArrMapInv
<1>6. arr' \in [0 .. mapLen - 1 -> ArrayRec]
  BY <1>1, <1>2, <1>5
<1>7. GcTypeOK'
  BY <1>1, <1>2, <1>6 DEF GcInv, GcTypeOK, TypeOK, Phase, Cell
<1>8. PhaseInv'
  BY <1>1, <1>2 DEF GcInv, PhaseInv, Marking, Moving
<1>9. KeptClosed'
  BY <1>1, <1>2, <1>4 DEF GcInv, KeptClosed, Elements, Cell
<1>10. CellMapInv'
  BY <1>1, <1>2, <1>3, <1>4 DEF GcInv, CellMapInv
<1>11. ArrMapInv'
  BY <1>1, <1>2, <1>3, <1>4 DEF GcInv, ArrMapInv
<1>12. MoveSafe'
  <2>1. /\ \A c \in CellLen .. CellLen - 1 : cells[c] = snap.cells[c]
        /\ \A c \in 0 .. CellLen - 1 : Kept(c) =>
              cellMap[c] <= c /\ cells[cellMap[c]] = snap.cells[c]
        /\ \A a \in 0 .. arrLen - 1 : KeptArray(a) =>
              arrMap[a] <= a /\ arr[arrMap[a]] = snap.arr[a]
    BY <1>2, <1>3 DEF GcInv, MoveSafe
  <2>2. ASSUME NEW a \in 0 .. arrLen - 1, KeptArray(a)
        PROVE  arr'[arrMap[a]] = arr[arrMap[a]]
    <3>1. arrMap[a] \in Int
      BY <1>2 DEF GcInv, GcTypeOK
    <3>2. arrMap[a] >= 0
      BY <1>2, <1>3, <2>2 DEF KeptArray
    <3>3. arrMap[a] < mapLen
      BY <1>5, <2>2
    <3> QED BY <1>1, <1>2, <3>1, <3>2, <3>3
  <2> QED BY <1>1, <1>2, <1>3, <1>4, <2>1, <2>2 DEF MoveSafe
<1> QED BY <1>1, <1>7, <1>8, <1>9, <1>10, <1>11, <1>12 DEF GcInv, Marking, MarkInvariant,
           ContentsKept

-----------------------------------------------------------------------------
(* Rewrite.                                                                *)

\* What the invariant says when every object has been moved.
LEMMA AllMoved ==
  ASSUME GcInv, phase = "rewrite"
  PROVE  /\ TypeOK /\ arrLen \in Nat /\ snap.arrLen \in Nat /\ envs = snap.envs
         /\ cellMap \in [Cell -> -1 .. CellLen]
         /\ arrMap \in [0 .. snap.arrLen - 1 -> -1 .. snap.arrLen]
         /\ snap.cells \in [Cell -> Value]
         /\ \A c \in Cell : Kept(c) <=> cellMap[c] >= 0
         /\ \A a \in 0 .. snap.arrLen - 1 : KeptArray(a) <=> arrMap[a] >= 0
         /\ \A c \in Cell : Kept(c) =>
               cellMap[c] <= c /\ cellMap[c] < heapEnd /\ cells[cellMap[c]] = snap.cells[c]
         /\ \A c \in Cell : c < StackMax => cellMap[c] = c
         /\ \A c \in Cell : (c >= StackMax /\ Kept(c)) => cellMap[c] >= StackMax
         /\ \A i, j \in Cell :
               (i <= j /\ \A c \in i .. j : Kept(c)) => cellMap[j] = cellMap[i] + (j - i)
         /\ \A x \in 0 .. heapEnd - 1 : \E c \in Cell : Kept(c) /\ cellMap[c] = x
         /\ \A a \in 0 .. snap.arrLen - 1 : KeptArray(a) =>
               arrMap[a] <= a /\ arrMap[a] < arrLen /\ arr[arrMap[a]] = snap.arr[a]
         /\ \A x \in 0 .. arrLen - 1 : \E a \in 0 .. snap.arrLen - 1 : KeptArray(a) /\ arrMap[a] = x
         /\ \A e \in DOMAIN envs : envs[e].array < snap.arrLen /\ KeptArray(envs[e].array)
         /\ \A c \in Cell : (/\ c < top \/ c >= StackMax
                             /\ Kept(c)
                             /\ snap.cells[c].ty = "array") =>
               snap.cells[c].val < snap.arrLen /\ KeptArray(snap.cells[c].val)
         /\ \A a \in 0 .. snap.arrLen - 1 : KeptArray(a) =>
               \A c \in Elements(snap.arr[a]) : Kept(c)
<1>1. /\ Moving /\ MovedCells = CellLen /\ NextCell = heapEnd /\ MovedArrays = snap.arrLen
      /\ NextArray = arrLen
  BY DEF Moving, MovedCells, NextCell, MovedArrays, NextArray
<1>2. /\ TypeOK /\ arrLen \in Nat /\ snap.arrLen \in Nat /\ envs = snap.envs
      /\ cellMap \in [Cell -> -1 .. CellLen]
      /\ arrMap \in [0 .. snap.arrLen - 1 -> -1 .. snap.arrLen]
      /\ snap.cells \in [Cell -> Value]
  BY <1>1 DEF GcInv, GcTypeOK, TypeOK, PhaseInv
<1>3. /\ \A c \in Cell : Kept(c) <=> cellMap[c] >= 0
      /\ \A a \in 0 .. snap.arrLen - 1 : KeptArray(a) <=> arrMap[a] >= 0
  BY <1>1, <1>2 DEF Kept, KeptArray, Cell
<1>4. /\ \A c \in Cell : Kept(c) => cellMap[c] <= c /\ cells[cellMap[c]] = snap.cells[c]
      /\ \A a \in 0 .. snap.arrLen - 1 : KeptArray(a) =>
            arrMap[a] <= a /\ arr[arrMap[a]] = snap.arr[a]
  BY <1>1 DEF GcInv, MoveSafe, Cell
<1>5. /\ \A c \in Cell : Kept(c) => cellMap[c] < heapEnd
      /\ \A c \in Cell : c < StackMax => cellMap[c] = c
      /\ \A c \in Cell : (c >= StackMax /\ Kept(c)) => cellMap[c] >= StackMax
      /\ \A i, j \in Cell :
            (i <= j /\ \A c \in i .. j : Kept(c)) => cellMap[j] = cellMap[i] + (j - i)
      /\ \A x \in 0 .. heapEnd - 1 : \E c \in Cell : Kept(c) /\ cellMap[c] = x
  BY <1>1 DEF GcInv, CellMapInv, Cell
<1>6. /\ \A a \in 0 .. snap.arrLen - 1 : KeptArray(a) => arrMap[a] < arrLen
      /\ \A x \in 0 .. arrLen - 1 : \E a \in 0 .. snap.arrLen - 1 : KeptArray(a) /\ arrMap[a] = x
  BY <1>1 DEF GcInv, ArrMapInv
<1>7. KeptClosed
  BY DEF GcInv
<1> HIDE DEF GcInv
<1> QED BY <1>1, <1>2, <1>3, <1>4, <1>5, <1>6, <1>7, Zenon DEF KeptClosed

\* A cell in use is where a survivor went, and an array it refers to survives.
LEMMA InUseKept ==
  ASSUME GcInv, phase = "rewrite", NEW x \in Cell, InUse(x)
  PROVE  /\ \E c \in Cell : Kept(c) /\ cellMap[c] = x /\ cells[x] = snap.cells[c]
         /\ cells[x].ty = "array" => arrMap[cells[x].val] \in Nat
         /\ NewValue(cells[x]) \in Value
<1>1. PICK c \in Cell : Kept(c) /\ cellMap[c] = x /\ (c < top \/ c >= StackMax)
  <2>1. CASE x < top
    <3>1. x < StackMax /\ x >= 0
      BY <2>1, AllMoved DEF TypeOK, Cell
    <3>2. cellMap[x] = x /\ Kept(x)
      BY <3>1, AllMoved
    <3> QED BY <2>1, <3>2
  <2>2. CASE x \in StackMax .. heapEnd - 1
    <3>1. x \in 0 .. heapEnd - 1
      BY <2>2, AllMoved DEF TypeOK
    <3>2. PICK c \in Cell : Kept(c) /\ cellMap[c] = x
      BY <3>1, AllMoved
    <3>3. c >= StackMax
      <4>1. c < StackMax => c = x
        BY <3>2, AllMoved
      <4> QED BY <2>2, <4>1 DEF Cell
    <3> QED BY <3>2, <3>3
  <2> QED BY <2>1, <2>2 DEF InUse
<1>2. cells[x] = snap.cells[c] /\ cells[x] \in Value
  BY <1>1, AllMoved
<1>3. ASSUME cells[x].ty = "array" PROVE arrMap[cells[x].val] \in Nat
  <2>1. cells[x].val \in Nat /\ cells[x].val < snap.arrLen /\ KeptArray(cells[x].val)
    <3>1. snap.cells[c].val < snap.arrLen /\ KeptArray(snap.cells[c].val)
      BY <1>1, <1>2, <1>3, AllMoved
    <3>2. cells[x].val \in Nat
      BY <1>2 DEF Value
    <3>3. cells[x].val = snap.cells[c].val
      BY <1>2
    <3> QED BY <3>1, <3>2, <3>3, Zenon
  <2>2. cells[x].val \in 0 .. snap.arrLen - 1
    BY <2>1, AllMoved
  <2>3. arrMap[cells[x].val] >= 0
    BY <2>1, <2>2, AllMoved
  <2> QED BY <2>2, <2>3, AllMoved
<1>4. NewValue(cells[x]) \in Value
  BY <1>2, <1>3 DEF NewValue, Renumber, Value
<1> QED BY <1>1, <1>2, <1>3, <1>4

\* The elements of a survivor stay together.
LEMMA ElementsMoved ==
  ASSUME GcInv, phase = "rewrite", NEW a \in 0 .. snap.arrLen - 1, KeptArray(a),
         NEW k \in 0 .. snap.arr[a].len - 1
  PROVE  /\ snap.arr[a].l + k \in Cell /\ snap.arr[a].l \in Cell
         /\ Kept(snap.arr[a].l + k) /\ Kept(snap.arr[a].l)
         /\ cellMap[snap.arr[a].l + k] = cellMap[snap.arr[a].l] + k
         /\ cellMap[snap.arr[a].l] \in StackMax .. snap.arr[a].l
         /\ cellMap[snap.arr[a].l] + k \in StackMax .. heapEnd - 1
<1> DEFINE b == snap.arr[a]
<1>1. b \in ArrayRec
  BY DEF GcInv, GcTypeOK
<1>2. b.l \in Cell /\ b.l + k \in Cell /\ b.l >= StackMax /\ b.l <= b.l + k /\ b.l \in Nat
  BY <1>1 DEF ArrayRec, Cell
<1>3. \A c \in b.l .. b.l + k : c \in Elements(b)
  BY <1>1 DEF ArrayRec, Elements
<1>4. \A c \in b.l .. b.l + k : Kept(c)
  BY <1>3, AllMoved
<1>5. Kept(b.l) /\ Kept(b.l + k)
  BY <1>2, <1>4
<1>6. cellMap[b.l + k] = cellMap[b.l] + k
  <2>1. cellMap[b.l + k] = cellMap[b.l] + ((b.l + k) - b.l)
    BY <1>2, <1>4, AllMoved
  <2> QED BY <1>2, <2>1
<1>7. cellMap[b.l] \in StackMax .. b.l
  BY <1>2, <1>5, AllMoved
<1>8. cellMap[b.l] + k \in StackMax .. heapEnd - 1
  <2>1. heapEnd \in Nat /\ cellMap[b.l + k] < heapEnd
    BY <1>2, <1>5, AllMoved DEF TypeOK
  <2> QED BY <1>6, <1>7, <2>1
<1> HIDE DEF b
<1> QED BY <1>2, <1>5, <1>6, <1>7, <1>8 DEF b

\* The range of a survivor stays inside the heap.
LEMMA NewArrayTyped ==
  ASSUME GcInv, phase = "rewrite", NEW x \in 0 .. arrLen - 1
  PROVE  NewArray(arr[x]) \in ArrayRec
<1>1. PICK a \in 0 .. snap.arrLen - 1 : KeptArray(a) /\ arrMap[a] = x
  BY AllMoved
<1>2. arr[x] = snap.arr[a] /\ arr[x] \in ArrayRec
  BY <1>1, AllMoved DEF TypeOK
<1>3. CASE Capacity(arr[x]) = 0 \/ arr[x].len = 0
  BY <1>2, <1>3 DEF NewArray
<1>4. CASE ~(Capacity(arr[x]) = 0 \/ arr[x].len = 0)
  <2>1. 0 \in 0 .. snap.arr[a].len - 1
    BY <1>2, <1>4 DEF ArrayRec
  <2>2. cellMap[arr[x].l] \in StackMax .. arr[x].l
    BY <1>1, <1>2, <2>1, ElementsMoved
  <2> DEFINE b == arr[x]
  <2> DEFINE y == cellMap[b.l]
  <2>3. NewArray(b) = [len |-> b.len, l |-> y, r |-> y + (b.r - b.l)]
    BY <1>2, <1>4 DEF NewArray, ArrayRec, Capacity
  <2>4. /\ b.len \in Nat /\ b.l \in Nat /\ b.r \in Nat /\ b.l + b.len <= b.r /\ b.r <= CellLen
        /\ y \in StackMax .. b.l
    BY <1>2, <2>2 DEF ArrayRec
  <2> HIDE DEF b, y
  <2>5. [len |-> b.len, l |-> y, r |-> y + (b.r - b.l)] \in ArrayRec
    BY <2>4 DEF ArrayRec
  <2> QED BY <2>3, <2>5 DEF b
<1> QED BY <1>3, <1>4

\* The rewriting pass puts together what the moves took apart.
LEMMA RewriteInv ==
  ASSUME GcInv, Rewrite
  PROVE  GcInv'
<1>1. /\ phase = "rewrite" /\ phase' = "done"
      /\ cells' = [c \in Cell |-> IF InUse(c) THEN NewValue(cells[c]) ELSE cells[c]]
      /\ arr' = [a \in DOMAIN arr |-> NewArray(arr[a])]
      /\ envs' = [e \in DOMAIN envs |-> [envs[e] EXCEPT !.array = arrMap[@]]]
      /\ status' \in {status, "failed"}
      /\ UNCHANGED <<top, heapEnd, arrLen, frames, maps, gcForce,
                     cellMap, cellStack, arrMap, arrStack, stuck, scan, mapLen, snap>>
  BY DEF Rewrite
<1>2. /\ TypeOK /\ arrLen \in Nat /\ cells \in [Cell -> Value]
      /\ arr \in [0 .. arrLen - 1 -> ArrayRec]
      /\ envs \in Seq(EnvRec) /\ DOMAIN envs = 1 .. Len(envs) /\ Len(envs) \in Nat
  BY <1>1, AllMoved, LenProperties DEF TypeOK
<1>3. cells' \in [Cell -> Value]
  <2>1. \A c \in Cell : (IF InUse(c) THEN NewValue(cells[c]) ELSE cells[c]) \in Value
    BY <1>1, <1>2, InUseKept
  <2> QED BY <1>1, <2>1
<1>4. arr' \in [0 .. arrLen - 1 -> ArrayRec]
  BY <1>1, <1>2, NewArrayTyped
<1>5. /\ DOMAIN envs' = DOMAIN envs
      /\ \A e \in DOMAIN envs : envs'[e].array = arrMap[envs[e].array]
      /\ envs' \in Seq(EnvRec) /\ Len(envs') = Len(envs)
  <2>1. \A e \in DOMAIN envs : envs[e] \in EnvRec /\ arrMap[envs[e].array] \in Nat
    <3> SUFFICES ASSUME NEW e \in DOMAIN envs
                 PROVE  envs[e] \in EnvRec /\ arrMap[envs[e].array] \in Nat
      OBVIOUS
    <3>1. envs[e] \in EnvRec
      BY <1>2, ElementOfSeq
    <3>2. envs[e].array \in 0 .. snap.arrLen - 1
      BY <1>1, <3>1, AllMoved DEF EnvRec
    <3>3. KeptArray(envs[e].array)
      BY <1>1, AllMoved
    <3>4. arrMap[envs[e].array] >= 0 /\ arrMap[envs[e].array] \in -1 .. snap.arrLen
      BY <1>1, <3>2, <3>3, AllMoved
    <3> QED BY <1>1, <3>1, <3>4, AllMoved
  <2>2. \A e \in DOMAIN envs : /\ envs'[e].array = arrMap[envs[e].array]
                              /\ envs'[e] \in EnvRec
    BY <1>1, <2>1 DEF EnvRec
  <2>3. DOMAIN envs' = 1 .. Len(envs)
    BY <1>1, <1>2
  <2>4. envs' \in [1 .. Len(envs) -> EnvRec]
    BY <1>1, <1>2, <2>2, <2>3
  <2>5. envs' \in Seq(EnvRec) /\ Len(envs') = Len(envs)
    BY <1>2, <2>3, <2>4, SeqDef, LenProperties
  <2> QED BY <1>2, <2>2, <2>3, <2>5
<1>6. TypeOK'
  <2>1. status' \in Status
    BY <1>1, <1>2 DEF TypeOK, Status
  <2> QED BY <1>1, <1>2, <1>3, <1>4, <1>5, <2>1 DEF TypeOK, Cell
<1>7. GcTypeOK'
  BY <1>1, <1>6 DEF GcInv, GcTypeOK, Phase, Cell
<1>8. PhaseInv'
  BY <1>1 DEF GcInv, PhaseInv, Marking, Moving
<1>9. ContentsKept'
  <2>1. \A c \in RootCells : cells'[c] = NewValue(snap.cells[c])
    <3> SUFFICES ASSUME NEW c \in RootCells PROVE cells'[c] = NewValue(snap.cells[c])
      OBVIOUS
    <3>1. c \in Cell /\ c < StackMax /\ InUse(c) /\ c >= 0
      BY <1>2 DEF RootCells, TypeOK, Cell, InUse
    <3>2. Kept(c) /\ cellMap[c] = c
      BY <1>1, <3>1, AllMoved
    <3>3. cells[c] = snap.cells[c]
      BY <1>1, <3>1, <3>2, AllMoved
    <3> QED BY <1>1, <3>1, <3>3
  <2>2. ASSUME NEW a \in 0 .. snap.arrLen - 1, arrMap[a] >= 0
        PROVE  LET old == snap.arr[a]
                   new == arr'[arrMap[a]] IN
               /\ new.len = old.len
               /\ \A k \in 0 .. old.len - 1 :
                     cells'[new.l + k] = NewValue(snap.cells[old.l + k])
    <3>1. /\ KeptArray(a) /\ arrMap[a] \in 0 .. arrLen - 1 /\ arr[arrMap[a]] = snap.arr[a]
          /\ snap.arr[a] \in ArrayRec
      <4>1. KeptArray(a)
        BY <1>1, <2>2, AllMoved
      <4>2. arrMap[a] < arrLen /\ arr[arrMap[a]] = snap.arr[a] /\ arrMap[a] \in -1 .. snap.arrLen
        BY <1>1, <4>1, AllMoved
      <4>3. snap.arr[a] \in ArrayRec
        BY DEF GcInv, GcTypeOK
      <4>4. arrMap[a] \in 0 .. arrLen - 1
        BY <1>1, <1>2, <2>2, <4>2, AllMoved
      <4> QED BY <4>1, <4>2, <4>3, <4>4
    <3> DEFINE old == snap.arr[a]
    <3>2. arr'[arrMap[a]] = NewArray(old)
      BY <1>1, <1>2, <3>1
    <3>3. NewArray(old).len = old.len
      BY <3>1 DEF NewArray, ArrayRec
    <3>4. ASSUME NEW k \in 0 .. old.len - 1
          PROVE  cells'[NewArray(old).l + k] = NewValue(snap.cells[old.l + k])
      <4>1. NewArray(old).l = cellMap[old.l]
        BY <3>1, <3>4 DEF NewArray, ArrayRec, Capacity
      <4>2. /\ old.l + k \in Cell /\ Kept(old.l + k)
            /\ cellMap[old.l + k] = cellMap[old.l] + k
            /\ cellMap[old.l] + k \in StackMax .. heapEnd - 1
        BY <1>1, <3>1, ElementsMoved
      <4>3. cells[cellMap[old.l] + k] = snap.cells[old.l + k]
        BY <1>1, <4>2, AllMoved
      <4>4. cellMap[old.l] + k \in Cell /\ InUse(cellMap[old.l] + k)
        BY <1>2, <4>2 DEF TypeOK, Cell, InUse
      <4> QED BY <1>1, <4>1, <4>3, <4>4
    <3> HIDE DEF old
    <3> QED BY <3>2, <3>3, <3>4 DEF old
  <2>3. DOMAIN snap.arr = 0 .. snap.arrLen - 1
    BY DEF GcInv, GcTypeOK
  <2>4. \A e \in DOMAIN envs' : envs'[e].array = arrMap[snap.envs[e].array]
    BY <1>1, <1>5, AllMoved
  <2>5. RootCells' = RootCells
    BY <1>1 DEF RootCells
  <2>6. \A c \in RootCells' : cells'[c] = Renumber(arrMap, snap.cells[c])
    BY <2>1, <2>5 DEF NewValue
  <2>7. \A a \in DOMAIN snap.arr : arrMap[a] >= 0 =>
           /\ arr'[arrMap[a]].len = snap.arr[a].len
           /\ \A k \in 0 .. snap.arr[a].len - 1 :
                 cells'[arr'[arrMap[a]].l + k] = Renumber(arrMap, snap.cells[snap.arr[a].l + k])
    BY <2>2, <2>3 DEF NewValue
  <2>8. arrMap' = arrMap /\ snap' = snap
    BY <1>1
  <2> QED BY <2>4, <2>6, <2>7, <2>8 DEF ContentsKept, NewValue
<1> QED BY <1>1, <1>7, <1>8, <1>9 DEF GcInv, Marking, Moving, MarkInvariant, KeptClosed,
           CellMapInv, ArrMapInv, MoveSafe

LEMMA GcEndInv ==
  ASSUME GcInv, GcEnd
  PROVE  GcInv'
<1>1. /\ phase' = "idle" /\ gcForce' = FALSE /\ cellMap' = NoMarks /\ arrMap' = NoArrays
      /\ snap' = NoSnapshot /\ scan' = 0 /\ mapLen' = 0
      /\ UNCHANGED <<cells, top, heapEnd, arr, arrLen, envs, frames, maps, status,
                     cellStack, arrStack, stuck>>
      /\ phase = "done"
  BY DEF GcEnd
<1>2. TypeOK'
  BY <1>1 DEF GcInv, GcTypeOK, TypeOK, Cell
<1>3. cellStack' \subseteq Cell
  BY <1>1 DEF GcInv, GcTypeOK
<1>4. arrStack' = {}
  BY <1>1 DEF GcInv, PhaseInv, Marking
<1>5. GcTypeOK'
  BY <1>1, <1>2, <1>3, <1>4, NoSnapshotTyped DEF GcInv, GcTypeOK, Phase, Cell
<1> QED BY <1>1, <1>5 DEF GcInv, PhaseInv, Marking, Moving, MarkInvariant, KeptClosed,
           CellMapInv, ArrMapInv, MoveSafe, ContentsKept

-----------------------------------------------------------------------------
(* The theorems.                                                           *)

LEMMA StepInv == GcInv /\ [Next]_vars => GcInv'
<1> SUFFICES ASSUME GcInv, [Next]_vars PROVE GcInv'
  OBVIOUS
<1>1. CASE Command /\ UNCHANGED gcVars
  BY <1>1, CommandInv
<1>2. CASE GcBegin
  BY <1>2, GcBeginInv
<1>3. CASE GcStep
  BY <1>3, MarkCellInv, CellsMarkedInv, MarkArrayInv, ArraysMarkedInv, MoveCellInv, CellsMovedInv,
     MoveArrayInv, ArraysMovedInv, RewriteInv, GcEndInv DEF GcStep
<1>4. CASE UNCHANGED vars
  <2>1. /\ UNCHANGED <<cells, top, heapEnd, arr, arrLen, envs, frames, maps, gcForce, status>>
        /\ UNCHANGED <<phase, cellMap, cellStack, arrMap, arrStack, stuck, scan, mapLen, snap>>
    BY <1>4 DEF vars, heapVars, gcVars
  <2>2. GcTypeOK'
    BY <2>1 DEF GcInv, GcTypeOK, TypeOK, Cell
  <2>3. PhaseInv'
    BY <2>1 DEF GcInv, PhaseInv, Marking, Moving, Snapshot, Cell
  <2>4. MarkInvariant'
    BY <2>1 DEF GcInv, MarkInvariant, Marking, RootCells, RootArrays, Marked, MarkedArrays,
                Elements, Cell
  <2>5. Moving' = Moving /\ MovedCells' = MovedCells /\ NextCell' = NextCell
        /\ MovedArrays' = MovedArrays /\ NextArray' = NextArray
    BY <2>1 DEF Moving, MovedCells, NextCell, MovedArrays, NextArray
  <2>6. (\A c : Kept(c)' <=> Kept(c)) /\ (\A a : KeptArray(a)' <=> KeptArray(a))
    BY <2>1, <2>5 DEF Kept, KeptArray
  <2>7. KeptClosed'
    BY <2>1, <2>5, <2>6 DEF GcInv, KeptClosed, Elements, Cell
  <2>8. CellMapInv'
    BY <2>1, <2>5, <2>6 DEF GcInv, CellMapInv
  <2>9. ArrMapInv'
    BY <2>1, <2>5, <2>6 DEF GcInv, ArrMapInv
  <2>10. MoveSafe'
    BY <2>1, <2>5, <2>6 DEF GcInv, MoveSafe
  <2>11. ContentsKept'
    BY <2>1 DEF GcInv, ContentsKept, RootCells, NewValue
  <2> QED BY <2>2, <2>3, <2>4, <2>7, <2>8, <2>9, <2>10, <2>11 DEF GcInv
<1> QED BY <1>1, <1>2, <1>3, <1>4 DEF Next

\* The inductive invariant of the collector holds in every state of every run.
THEOREM GcInvariant == Spec => []GcInv
<1>1. GcInit => GcInv
  BY InitInv
<1>2. GcInv /\ [Next]_vars => GcInv'
  BY StepInv
<1> QED BY <1>1, <1>2, PTL DEF Spec

\* No command and no step of a collection leaves the lists of the evaluator
\* malformed: the ranges of the arrays stay in the heap, the stack in its part.
THEOREM TypeCorrect == Spec => []GcTypeOK
<1>1. GcInv => GcTypeOK
  BY DEF GcInv
<1> QED BY <1>1, GcInvariant, PTL

\* The marking loops of gc_run never forget a reference.
THEOREM MarkCorrect == Spec => []MarkInvariant
<1>1. GcInv => MarkInvariant
  BY DEF GcInv
<1> QED BY <1>1, GcInvariant, PTL

\* The move loops never overwrite what has not been read.
THEOREM MoveCorrect == Spec => []MoveSafe
<1>1. GcInv => MoveSafe
  BY DEF GcInv
<1> QED BY <1>1, GcInvariant, PTL

\* A collection does not change what a program reads.
THEOREM CollectionInvisible == Spec => []ContentsKept
<1>1. GcInv => ContentsKept
  BY DEF GcInv
<1> QED BY <1>1, GcInvariant, PTL

-----------------------------------------------------------------------------
(* What is marked is what is live.                                         *)

\* The live cells are determined by what a marking step leaves alone.
LEMMA LiveSame ==
  ASSUME UNCHANGED <<cells, top, arr, arrLen, envs>>
  PROVE  LiveArrays' = LiveArrays /\ LiveCells' = LiveCells
<1>1. RootArrays' = RootArrays /\ RootCells' = RootCells
  BY DEF RootArrays, RootCells
<1>2. \A A : Held(A)' = Held(A)
  BY <1>1 DEF Held, Elements
<1>3. \A A : Closed(A)' <=> Closed(A)
  BY <1>1, <1>2 DEF Closed, Named
<1>4. LiveArrays' = LiveArrays
  BY <1>3 DEF LiveArrays
<1> QED BY <1>2, <1>4 DEF LiveCells

\* The roots, and whatever a live cell refers to, are live.
LEMMA LiveClosed ==
  /\ RootArrays \subseteq 0 .. arrLen - 1 => RootArrays \subseteq LiveArrays
  /\ \A c \in LiveCells :
        cells[c].ty = "array" /\ cells[c].val \in 0 .. arrLen - 1 => cells[c].val \in LiveArrays
<1>1. RootArrays \subseteq 0 .. arrLen - 1 => RootArrays \subseteq LiveArrays
  BY DEF LiveArrays, Closed
<1>2. ASSUME NEW c \in LiveCells, cells[c].ty = "array", cells[c].val \in 0 .. arrLen - 1,
             NEW A \in SUBSET (0 .. arrLen - 1), Closed(A)
      PROVE  cells[c].val \in A
  <2>1. LiveArrays \subseteq A
    BY <1>2 DEF LiveArrays
  <2>2. c \in Held(A)
    BY <1>2, <2>1 DEF LiveCells, Held
  <2>3. cells[c].val \in Named(Held(A))
    BY <1>2, <2>2 DEF Named
  <2> QED BY <1>2, <2>3 DEF Closed
<1>3. ASSUME NEW c \in LiveCells, cells[c].ty = "array", cells[c].val \in 0 .. arrLen - 1
      PROVE  cells[c].val \in LiveArrays
  BY <1>2, <1>3 DEF LiveArrays
<1> QED BY <1>1, <1>3

\* Of the arrays there are, those in a closed set hold all the live ones.
LEMMA LiveLeast ==
  ASSUME NEW A \in SUBSET (0 .. arrLen - 1), Closed(A)
  PROVE  LiveArrays \subseteq A /\ LiveCells \subseteq Held(A)
<1>1. LiveArrays \subseteq A
  BY DEF LiveArrays
<1> QED BY <1>1 DEF LiveCells, Held

LEMMA GcBeginSound ==
  ASSUME GcInv, GcBegin
  PROVE  MarkSound'
<1> SUFFICES ASSUME status' = "run" PROVE MarkSound'
  BY DEF MarkSound
<1>1. /\ UNCHANGED <<cells, top, arr, arrLen, envs>>
      /\ cellMap' = [c \in Cell |-> IF c \in RootCells THEN 1 ELSE 0]
      /\ cellStack' = RootCells
      /\ RootArrays \subseteq 0 .. arrLen - 1
      /\ arrMap' = [a \in 0 .. arrLen - 1 |-> IF a \in RootArrays THEN 1 ELSE 0]
      /\ arrStack' = RootArrays
  BY DEF GcBegin
<1>2. MarkedArrays' = RootArrays
  <2>1. DOMAIN arrMap' = 0 .. arrLen - 1 /\ \A a \in 0 .. arrLen - 1 : arrMap'[a] = 1 <=> a \in RootArrays
    BY <1>1
  <2> QED BY <1>1, <2>1 DEF MarkedArrays
<1>3. \A c \in Cell : Marked(c)' <=> c \in RootCells
  BY <1>1 DEF Marked
<1>4. RootCells \subseteq LiveCells
  BY DEF LiveCells, Held
<1>5. Cell' = Cell
  BY DEF Cell
<1> QED BY <1>1, <1>2, <1>3, <1>4, <1>5, LiveSame, LiveClosed DEF MarkSound

LEMMA MarkCellSound ==
  ASSUME GcInv, MarkSound, MarkCell
  PROVE  MarkSound'
<1> SUFFICES ASSUME status' = "run" PROVE MarkSound'
  BY DEF MarkSound
<1>1. PICK c \in cellStack :
         /\ phase = "cells" /\ status = "run"
         /\ cellStack' = cellStack \ {c}
         /\ \/ UNCHANGED <<arrMap, arrStack>>
            \/ /\ cells[c].ty = "array" /\ ~(cells[c].val >= arrLen)
               /\ arrMap' = [arrMap EXCEPT ![cells[c].val] = 1]
               /\ arrStack' = arrStack \union {cells[c].val}
         /\ UNCHANGED <<cells, top, heapEnd, arr, arrLen, envs, phase, cellMap>>
  BY DEF MarkCell
<1>2. Marking /\ c \in Cell /\ cells[c].val \in Nat /\ arrLen \in Nat
      /\ arrMap \in [0 .. arrLen - 1 -> {0, 1}]
  BY <1>1 DEF GcInv, GcTypeOK, TypeOK, PhaseInv, Marking, Value
<1>3. /\ MarkedArrays \union arrStack \subseteq LiveArrays
      /\ {d \in Cell : Marked(d)} \union cellStack \subseteq LiveCells
  BY <1>1, <1>2 DEF MarkSound
<1>4. MarkedArrays' \union arrStack' \subseteq LiveArrays
  <2>1. CASE UNCHANGED <<arrMap, arrStack>>
    BY <1>3, <2>1 DEF MarkedArrays
  <2>2. CASE /\ cells[c].ty = "array" /\ ~(cells[c].val >= arrLen)
             /\ arrMap' = [arrMap EXCEPT ![cells[c].val] = 1]
             /\ arrStack' = arrStack \union {cells[c].val}
    <3>1. cells[c].val \in 0 .. arrLen - 1
      BY <1>2, <2>2
    <3>2. cells[c].val \in LiveArrays
      BY <1>1, <1>3, <2>2, <3>1, LiveClosed
    <3>3. MarkedArrays' \subseteq MarkedArrays \union {cells[c].val}
      BY <1>2, <2>2, <3>1 DEF MarkedArrays
    <3> QED BY <1>3, <2>2, <3>2, <3>3
  <2> QED BY <1>1, <2>1, <2>2
<1>5. {d \in Cell : Marked(d)}' = {d \in Cell : Marked(d)}
  BY <1>1 DEF Marked, Cell
<1> QED BY <1>1, <1>3, <1>4, <1>5, LiveSame DEF MarkSound

LEMMA MarkArraySound ==
  ASSUME GcInv, MarkSound, MarkArray
  PROVE  MarkSound'
<1>1. PICK a \in arrStack :
         /\ phase = "arrays" /\ status = "run"
         /\ arrStack' = arrStack \ {a}
         /\ cellMap' = [c \in Cell |-> IF c \in {d \in Elements(arr[a]) : cellMap[d] = 0}
                                       THEN 1 ELSE cellMap[c]]
         /\ cellStack' = cellStack \union {c \in Elements(arr[a]) : cellMap[c] = 0}
         /\ UNCHANGED <<cells, top, arr, arrLen, envs, arrMap>>
  BY DEF MarkArray, heapVars
<1>2. /\ MarkedArrays \union arrStack \subseteq LiveArrays
      /\ {d \in Cell : Marked(d)} \union cellStack \subseteq LiveCells
  BY <1>1 DEF MarkSound, Marking
<1>3. Elements(arr[a]) \subseteq LiveCells
  BY <1>1, <1>2 DEF LiveCells, Held
<1>4. {d \in Cell : Marked(d)'} \subseteq {d \in Cell : Marked(d)} \union Elements(arr[a])
  BY <1>1 DEF Marked
<1>5. MarkedArrays' = MarkedArrays
  BY <1>1 DEF MarkedArrays
<1>6. {d \in Cell : Marked(d)}' = {d \in Cell : Marked(d)'}
  BY DEF Cell
<1> QED BY <1>1, <1>2, <1>3, <1>4, <1>5, <1>6, LiveSame DEF MarkSound

\* When a round has found nothing, what is marked is closed, so it is all that is live.
LEMMA ArraysMarkedExact ==
  ASSUME GcInv, MarkSound, ArraysMarked
  PROVE  MarkSound' /\ MarkExact'
<1>1. /\ phase = "arrays" /\ status = "run" /\ arrStack = {}
      /\ phase' = IF stuck THEN "moveCells" ELSE "cells"
      /\ UNCHANGED <<cells, top, arr, arrLen, envs, status, cellMap, cellStack, arrMap, arrStack>>
  BY DEF ArraysMarked, heapVars
<1>2. /\ MarkedArrays \subseteq LiveArrays
      /\ {d \in Cell : Marked(d)} \union cellStack \subseteq LiveCells
  BY <1>1 DEF MarkSound, Marking
<1>3. /\ MarkedArrays' = MarkedArrays /\ Cell' = Cell
      /\ {d \in Cell : Marked(d)}' = {d \in Cell : Marked(d)}
  BY <1>1 DEF MarkedArrays, Marked, Cell
<1>4. MarkSound'
  BY <1>1, <1>2, <1>3, LiveSame DEF MarkSound
<1>5. ASSUME stuck PROVE MarkedArrays = LiveArrays /\ {d \in Cell : Marked(d)} = LiveCells
  <2>1. /\ \A c \in RootCells : Marked(c)
        /\ RootArrays \subseteq MarkedArrays
        /\ \A c \in Cell : Marked(c) /\ cells[c].ty = "array" => cells[c].val \in MarkedArrays
        /\ \A a \in MarkedArrays : \A c \in Elements(arr[a]) : Marked(c)
    <3>1. MarkInvariant /\ Marking /\ cellStack = {}
      BY <1>1, <1>5 DEF GcInv, MarkInvariant, Marking
    <3> QED BY <1>1, <3>1 DEF MarkInvariant
  <2>2. /\ MarkedArrays \in SUBSET (0 .. arrLen - 1) /\ RootCells \subseteq Cell
        /\ \A a \in MarkedArrays : Elements(arr[a]) \subseteq Cell
    <3>1. /\ arr \in [0 .. arrLen - 1 -> ArrayRec] /\ top \in 0 .. StackMax
          /\ arrMap \in [0 .. arrLen - 1 -> {0, 1}]
      BY <1>1 DEF GcInv, GcTypeOK, TypeOK, PhaseInv, Marking
    <3> QED BY <3>1 DEF MarkedArrays, RootCells, Elements, ArrayRec, Cell
  <2>3. Held(MarkedArrays) \subseteq {d \in Cell : Marked(d)}
    BY <2>1, <2>2 DEF Held
  <2>4. Closed(MarkedArrays)
    BY <2>1, <2>3 DEF Closed, Named
  <2>5. LiveArrays \subseteq MarkedArrays /\ LiveCells \subseteq Held(MarkedArrays)
    BY <2>2, <2>4, LiveLeast
  <2> QED BY <1>2, <2>3, <2>5
<1>6. MarkExact'
  BY <1>1, <1>3, <1>5, LiveSame DEF MarkExact
<1> QED BY <1>4, <1>6

\* Every other step is taken when neither of the two says anything afterwards, or
\* leaves alone what they are about.
LEMMA MarkSoundStep ==
  ASSUME GcInv, MarkSound, MarkExact, [Next]_vars
  PROVE  MarkSound' /\ MarkExact'
<1>1. CASE GcBegin
  BY <1>1, GcBeginSound DEF GcBegin, MarkExact
<1>2. CASE MarkCell
  BY <1>2, MarkCellSound DEF MarkCell, MarkExact
<1>3. CASE MarkArray
  BY <1>3, MarkArraySound DEF MarkArray, MarkExact
<1>4. CASE ArraysMarked
  BY <1>4, ArraysMarkedExact
<1>5. CASE UNCHANGED vars \/ CellsMarked
  <2>1. /\ UNCHANGED <<cells, top, arr, arrLen, envs, status, cellMap, cellStack, arrMap, arrStack, scan>>
        /\ Marking' = Marking /\ (phase' = "moveCells" <=> phase = "moveCells")
    BY <1>5 DEF CellsMarked, vars, heapVars, gcVars, Marking
  <2>2. /\ MarkedArrays' = MarkedArrays /\ Cell' = Cell
        /\ {d \in Cell : Marked(d)}' = {d \in Cell : Marked(d)}
    BY <2>1 DEF MarkedArrays, Marked, Cell
  <2> QED BY <2>1, <2>2, LiveSame DEF MarkSound, MarkExact
<1>6. CASE MoveCell \/ CellsMoved \/ MoveArray \/ ArraysMoved \/ Rewrite \/ GcEnd
  <2>1. scan \in Nat
    BY DEF GcInv, GcTypeOK
  <2>2. ~Marking' /\ ~(phase' = "moveCells" /\ scan' = 0)
    BY <1>6, <2>1 DEF MoveCell, CellsMoved, MoveArray, ArraysMoved, Rewrite, GcEnd, Marking
  <2> QED BY <2>2 DEF MarkSound, MarkExact
<1>7. CASE Command /\ UNCHANGED gcVars
  <2>1. ~gcForce
    BY <1>7 DEF Command, Running, PushInt, PushClosure, PushArray, PushMap, LocalVar, CellGet,
          CellSet, Pop, Dup, Swap, OpArrayPush, OpIndexRef, OpIndex, OpBinary, JumpUnless,
          CallClosure, CallExtern, CallArrayPush, Return, Exit
  <2>2. phase' = "idle"
    BY <1>7, <2>1 DEF GcInv, PhaseInv, gcVars
  <2> QED BY <2>2 DEF MarkSound, MarkExact, Marking
<1> QED BY <1>1, <1>2, <1>3, <1>4, <1>5, <1>6, <1>7 DEF Next, GcStep

\* When the marking loops of gc_run end, exactly what the program can still get at is
\* marked: a collection drops nothing that is live and keeps no garbage.
THEOREM MarkingExact == Spec => []MarkExact
<1> DEFINE Inv == GcInv /\ MarkSound /\ MarkExact
<1>1. GcInit => Inv
  BY InitInv DEF GcInit, MarkSound, MarkExact, Marking
<1>2. Inv /\ [Next]_vars => Inv'
  BY StepInv, MarkSoundStep
<1>3. Inv => MarkExact
  OBVIOUS
<1> HIDE DEF Inv
<1> QED BY <1>1, <1>2, <1>3, PTL DEF Spec

-----------------------------------------------------------------------------
(* What is left is what is live.                                           *)

\* What a closed set must hold, a move leaves alone.
LEMMA LiveKept ==
  ASSUME KeptLive, Moving, UNCHANGED <<snap, top>>,
         \A c \in Cell : Kept(c)' <=> Kept(c),
         \A a \in 0 .. snap.arrLen - 1 : KeptArray(a)' <=> KeptArray(a)
  PROVE  KeptLive'
<1> USE DEF SnapHeld, SnapClosed, RootCells, Elements
<1>1. \A A : SnapHeld(A)' = SnapHeld(A)
  OBVIOUS
<1>2. \A A : SnapClosed(A)' <=> SnapClosed(A)
  BY <1>1
<1>3. \A c \in StackMax .. CellLen - 1 : Kept(c)' <=> Kept(c)
  BY StackAssumption DEF Cell
<1> QED BY <1>1, <1>2, <1>3 DEF KeptLive

\* When marking ends, what is marked is what every closed set holds.
LEMMA ArraysMarkedLive ==
  ASSUME GcInv, MarkSound, ArraysMarked
  PROVE  KeptLive'
<1>1. /\ phase = "arrays" /\ phase' = IF stuck THEN "moveCells" ELSE "cells"
      /\ scan' = scan /\ mapLen' = mapLen /\ snap' = snap /\ top' = top
      /\ UNCHANGED <<cells, arr, arrLen, envs, cellMap, arrMap>>
  BY DEF ArraysMarked, heapVars
<1>2. /\ scan = 0 /\ mapLen = 0 /\ snap = Snapshot /\ top \in 0 .. StackMax
      /\ arrMap \in [0 .. arrLen - 1 -> {0, 1}]
  BY <1>1 DEF GcInv, GcTypeOK, TypeOK, PhaseInv, Marking
<1>3. CASE ~stuck
  BY <1>1, <1>3 DEF KeptLive, Moving
<1>4. CASE stuck
  <2>1. /\ MarkedArrays = LiveArrays
        /\ {c \in Cell : Marked(c)} = LiveCells
    <3>1. MarkExact'
      BY ArraysMarkedExact
    <3>2. MarkedArrays' = LiveArrays' /\ {c \in Cell : Marked(c)}' = LiveCells'
      BY <1>1, <1>2, <1>4, <3>1 DEF MarkExact
    <3>3. MarkedArrays' = MarkedArrays /\ {c \in Cell : Marked(c)}' = {c \in Cell : Marked(c)}
      BY <1>1 DEF MarkedArrays, Marked, Cell
    <3> QED BY <1>1, <3>2, <3>3, LiveSame
  <2>2. MovedCells' = 0 /\ MovedArrays' = 0
    BY <1>1, <1>2, <1>4 DEF MovedCells, MovedArrays
  <2>3. /\ \A c \in StackMax .. CellLen - 1 : Kept(c)' => c \in LiveCells
        /\ \A a \in 0 .. arrLen - 1 : KeptArray(a)' => a \in LiveArrays
    <3>1. ASSUME NEW c \in StackMax .. CellLen - 1, Kept(c)' PROVE c \in LiveCells
      <4>1. c \in Cell /\ cellMap[c] = 1
        BY <1>1, <2>2, <3>1, StackAssumption DEF Kept, Cell
      <4> QED BY <2>1, <4>1 DEF Marked
    <3>2. ASSUME NEW a \in 0 .. arrLen - 1, KeptArray(a)' PROVE a \in LiveArrays
      BY <1>1, <1>2, <2>1, <2>2, <3>2 DEF KeptArray, MarkedArrays
    <3> QED BY <3>1, <3>2
  <2>4. /\ snap'.cells = cells /\ snap'.arr = arr /\ snap'.arrLen = arrLen /\ snap'.envs = envs
    BY <1>1, <1>2 DEF Snapshot
  <2>5. \A A : SnapHeld(A)' = Held(A)
    BY <1>1, <2>4 DEF SnapHeld, Held, RootCells, Elements
  <2>6. ASSUME NEW A \in SUBSET (0 .. arrLen - 1), SnapClosed(A)'
        PROVE  LiveArrays \subseteq A /\ LiveCells \subseteq Held(A)
    <3>1. RootArrays \subseteq A
      <4>1. DOMAIN envs = 1 .. Len(envs)
        BY LenProperties DEF GcInv, GcTypeOK, TypeOK
      <4> QED BY <2>4, <2>6, <4>1 DEF SnapClosed, RootArrays
    <3>2. Named(Held(A)) \subseteq A
      BY <2>4, <2>5, <2>6 DEF SnapClosed, Named
    <3> QED BY <3>1, <3>2, LiveLeast DEF Closed
  <2>7. SUFFICES ASSUME NEW A \in SUBSET (0 .. arrLen - 1), SnapClosed(A)'
                 PROVE  /\ \A a \in 0 .. arrLen - 1 : KeptArray(a)' => a \in A
                        /\ \A c \in StackMax .. CellLen - 1 : Kept(c)' => c \in Held(A)
    BY <2>4, <2>5 DEF KeptLive
  <2> QED BY <2>3, <2>6, <2>7
<1> QED BY <1>3, <1>4

\* A turn of cell_gc_move writes the map so that what was to be kept is kept.
LEMMA MoveCellLive ==
  ASSUME GcInv, KeptLive, MoveCell
  PROVE  KeptLive'
<1>1. /\ phase = "moveCells" /\ phase' = "moveCells" /\ scan < CellLen /\ scan' = scan + 1
      /\ UNCHANGED <<top, arrMap, snap>>
  BY DEF MoveCell
<1>2. /\ Moving /\ scan \in Cell /\ mapLen \in Nat /\ cellMap \in [Cell -> -1 .. CellLen]
      /\ cellMap[scan] \in {0, 1}
  <2>1. Moving /\ scan \in Cell /\ mapLen \in Nat /\ cellMap \in [Cell -> -1 .. CellLen]
    BY <1>1 DEF GcInv, GcTypeOK, Moving, Cell
  <2>2. MovedCells = scan
    BY <1>1 DEF MovedCells
  <2> QED BY <1>1, <2>1, <2>2 DEF GcInv, CellMapInv, Cell
<1>3. MovedCells = scan /\ MovedCells' = scan + 1 /\ MovedArrays = 0 /\ MovedArrays' = 0
  BY <1>1 DEF MovedCells, MovedArrays
<1>4. \E new \in {scan, mapLen, -1} :
         /\ cellMap' = [cellMap EXCEPT ![scan] = new]
         /\ new = -1 <=> ~(scan < StackMax \/ cellMap[scan] = 1)
  <2>1. scan \in Nat /\ StackMax \in Nat /\ scan # -1 /\ mapLen # -1
    BY <1>2, StackAssumption DEF Cell
  <2>2. CASE scan < StackMax
    BY <2>1, <2>2 DEF MoveCell
  <2>3. CASE ~(scan < StackMax) /\ cellMap[scan] = 0
    BY <2>1, <2>3 DEF MoveCell
  <2>4. CASE ~(scan < StackMax) /\ cellMap[scan] = 1
    BY <2>1, <2>4 DEF MoveCell
  <2> QED BY <1>2, <2>2, <2>3, <2>4
<1>5. \A c \in Cell : Kept(c)' <=> Kept(c)
  <2>1. PICK new \in {scan, mapLen, -1} :
           /\ cellMap' = [cellMap EXCEPT ![scan] = new]
           /\ new = -1 <=> ~(scan < StackMax \/ cellMap[scan] = 1)
    BY <1>4
  <2>2. /\ \A c \in Cell : c # scan => cellMap'[c] = cellMap[c]
        /\ cellMap'[scan] = new
        /\ new >= 0 <=> (scan < StackMax \/ cellMap[scan] = 1)
    BY <1>2, <2>1 DEF Cell
  <2>3. ASSUME NEW c \in Cell, c # scan PROVE Kept(c)' <=> Kept(c)
    BY <1>2, <1>3, <2>2, <2>3 DEF Kept, Cell
  <2>4. ASSUME NEW c \in Cell, c = scan PROVE Kept(c)' <=> Kept(c)
    BY <1>1, <1>2, <1>3, <2>2, <2>4 DEF Kept, Cell
  <2> QED BY <2>3, <2>4
<1>6. \A a : KeptArray(a)' <=> KeptArray(a)
  BY <1>1, <1>3 DEF KeptArray
<1> QED BY <1>1, <1>2, <1>5, <1>6, LiveKept

\* So does a turn of array_gc_move.
LEMMA MoveArrayLive ==
  ASSUME GcInv, KeptLive, MoveArray
  PROVE  KeptLive'
<1>1. /\ phase = "moveArrays" /\ phase' = "moveArrays" /\ scan < arrLen /\ scan' = scan + 1
      /\ UNCHANGED <<top, cellMap, snap>>
  BY DEF MoveArray
<1>2. /\ Moving /\ scan \in Nat /\ mapLen \in Nat /\ arrLen = snap.arrLen /\ arrLen \in Nat
      /\ arrMap \in [0 .. snap.arrLen - 1 -> -1 .. snap.arrLen]
  BY <1>1 DEF GcInv, GcTypeOK, TypeOK, PhaseInv, Moving
<1>3. /\ MovedCells = CellLen /\ MovedCells' = CellLen
      /\ MovedArrays = scan /\ MovedArrays' = scan + 1
  BY <1>1 DEF MovedCells, MovedArrays
<1>4. scan \in 0 .. snap.arrLen - 1 /\ arrMap[scan] \in {0, 1}
  BY <1>1, <1>2, <1>3 DEF GcInv, ArrMapInv
<1>5. \E new \in {mapLen, -1} :
         /\ arrMap' = [arrMap EXCEPT ![scan] = new]
         /\ new = -1 <=> arrMap[scan] = 0
  BY <1>2 DEF MoveArray
<1>6. \A a \in 0 .. snap.arrLen - 1 : KeptArray(a)' <=> KeptArray(a)
  <2>1. PICK new \in {mapLen, -1} :
           /\ arrMap' = [arrMap EXCEPT ![scan] = new]
           /\ new = -1 <=> arrMap[scan] = 0
    BY <1>5
  <2>2. /\ \A a \in 0 .. snap.arrLen - 1 : a # scan => arrMap'[a] = arrMap[a]
        /\ arrMap'[scan] = new
        /\ new >= 0 <=> arrMap[scan] = 1
    BY <1>2, <1>4, <2>1
  <2>3. ASSUME NEW a \in 0 .. snap.arrLen - 1, a # scan PROVE KeptArray(a)' <=> KeptArray(a)
    BY <1>2, <1>3, <2>2, <2>3 DEF KeptArray
  <2>4. ASSUME NEW a \in 0 .. snap.arrLen - 1, a = scan PROVE KeptArray(a)' <=> KeptArray(a)
    BY <1>1, <1>2, <1>3, <2>2, <2>4 DEF KeptArray
  <2> QED BY <2>3, <2>4
<1>7. \A c : Kept(c)' <=> Kept(c)
  BY <1>1, <1>3 DEF Kept
<1> QED BY <1>1, <1>2, <1>6, <1>7, LiveKept

\* Between the loops the maps do not change.
LEMMA MovedLive ==
  ASSUME GcInv, KeptLive, CellsMoved \/ ArraysMoved
  PROVE  KeptLive'
<1>1. /\ Moving /\ UNCHANGED <<top, cellMap, arrMap, snap>>
      /\ MovedCells' = MovedCells /\ MovedArrays' = MovedArrays
  <2>1. CASE CellsMoved
    BY <2>1 DEF CellsMoved, Moving, MovedCells, MovedArrays
  <2>2. CASE ArraysMoved
    BY <2>2 DEF ArraysMoved, Moving, MovedCells, MovedArrays, GcInv, PhaseInv
  <2> QED BY <2>1, <2>2
<1>2. (\A c : Kept(c)' <=> Kept(c)) /\ (\A a : KeptArray(a)' <=> KeptArray(a))
  BY <1>1 DEF Kept, KeptArray
<1> QED BY <1>1, <1>2, LiveKept

\* The arrays that are kept, after the moves.
KeptArrays == {a \in 0 .. snap.arrLen - 1 : KeptArray(a)}

\* They are closed under reference, so every cell kept on the heap is in one of them.
LEMMA KeptHeld ==
  ASSUME GcInv, KeptLive, phase = "rewrite"
  PROVE  /\ SnapClosed(KeptArrays)
         /\ \A c \in StackMax .. CellLen - 1 : Kept(c) =>
               \E a \in KeptArrays : c \in Elements(snap.arr[a])
<1>1. \A a \in KeptArrays : snap.arr[a] \in ArrayRec /\ a \in 0 .. snap.arrLen - 1 /\ KeptArray(a)
  BY DEF KeptArrays, GcInv, GcTypeOK
<1>2. ASSUME NEW c \in SnapHeld(KeptArrays)
      PROVE  c \in Cell /\ (c < top \/ c >= StackMax) /\ Kept(c)
  <2>1. CASE c \in RootCells
    <3>1. c \in Cell /\ c < StackMax /\ c < top /\ c >= 0
      BY <2>1, StackAssumption DEF GcInv, GcTypeOK, TypeOK, RootCells, Cell
    <3> QED BY <3>1, AllMoved
  <2>2. CASE \E a \in KeptArrays : c \in Elements(snap.arr[a])
    <3>1. PICK a \in KeptArrays : c \in Elements(snap.arr[a])
      BY <2>2
    <3>2. Kept(c)
      BY <1>1, <3>1, AllMoved
    <3>3. c \in Cell /\ c >= StackMax
      BY <1>1, <3>1, StackAssumption DEF Elements, ArrayRec, Cell
    <3> QED BY <3>2, <3>3
  <2> QED BY <1>2, <2>1, <2>2 DEF SnapHeld
<1>3. \A v \in Nat : v < snap.arrLen /\ KeptArray(v) => v \in KeptArrays
  BY AllMoved DEF KeptArrays
<1>4. \A e \in DOMAIN snap.envs : snap.envs[e].array \in KeptArrays
  <2>1. \A e \in DOMAIN envs : envs[e].array \in Nat
    BY EnvTyped DEF GcInv, GcTypeOK
  <2> QED BY <1>3, <2>1, AllMoved
<1>5. \A c \in SnapHeld(KeptArrays) : snap.cells[c].ty = "array" => snap.cells[c].val \in KeptArrays
  <2>1. \A c \in Cell : snap.cells[c].val \in Nat
    BY DEF GcInv, GcTypeOK, Value
  <2> QED BY <1>2, <1>3, <2>1, AllMoved
<1>6. SnapClosed(KeptArrays)
  BY <1>4, <1>5 DEF SnapClosed
<1>7. ASSUME NEW c \in StackMax .. CellLen - 1, Kept(c)
      PROVE  \E a \in KeptArrays : c \in Elements(snap.arr[a])
  <2>1. c \in SnapHeld(KeptArrays)
    <3>1. KeptArrays \in SUBSET (0 .. snap.arrLen - 1)
      BY DEF KeptArrays
    <3> QED BY <1>6, <1>7, <3>1 DEF KeptLive, Moving
  <2>2. c \notin RootCells
    BY StackAssumption DEF GcInv, GcTypeOK, TypeOK, RootCells
  <2> QED BY <2>1, <2>2 DEF SnapHeld
<1> QED BY <1>6, <1>7

\* Where the elements of a survivor are after the rewriting pass.
LEMMA ElementsRewritten ==
  ASSUME GcInv, Rewrite, NEW a \in KeptArrays, NEW c \in Elements(snap.arr[a])
  PROVE  /\ arrMap[a] \in 0 .. arrLen - 1
         /\ c \in Cell
         /\ cellMap[c] \in Elements(arr'[arrMap[a]])
         /\ cells'[cellMap[c]] = NewValue(snap.cells[c])
<1>1. phase = "rewrite" /\ a \in 0 .. snap.arrLen - 1 /\ KeptArray(a)
  BY DEF Rewrite, KeptArrays
<1>2. /\ snap.arr[a] \in ArrayRec /\ DOMAIN arr = 0 .. arrLen - 1 /\ heapEnd \in StackMax .. CellLen
      /\ DOMAIN snap.arr = 0 .. snap.arrLen - 1
  BY <1>1 DEF GcInv, GcTypeOK, TypeOK
<1>3. arrMap[a] \in 0 .. arrLen - 1 /\ arr[arrMap[a]] = snap.arr[a]
  <2>1. /\ arrLen \in Nat /\ snap.arrLen \in Nat /\ arrMap[a] \in -1 .. snap.arrLen
        /\ arrMap[a] >= 0 /\ arrMap[a] < arrLen /\ arr[arrMap[a]] = snap.arr[a]
    BY <1>1, AllMoved
  <2> QED BY <2>1
<1> DEFINE b == snap.arr[a]
<1> DEFINE k == c - b.l
<1>4. k \in 0 .. b.len - 1 /\ b.l + k = c /\ b.l \in Nat /\ b.len \in Nat /\ c \in Nat
  <2>1. b.l \in Nat /\ b.len \in Nat
    BY <1>2 DEF ArrayRec
  <2>2. c \in b.l .. b.l + b.len - 1
    BY DEF Elements
  <2> HIDE DEF b
  <2> QED BY <2>1, <2>2
<1>5. /\ c \in Cell /\ Kept(c) /\ cellMap[c] = cellMap[b.l] + k
      /\ cellMap[b.l] \in StackMax .. b.l
      /\ cellMap[b.l] + k \in StackMax .. heapEnd - 1
  <2> HIDE DEF k
  <2> QED BY <1>1, <1>4, ElementsMoved
<1>6. NewArray(b).l = cellMap[b.l] /\ NewArray(b).len = b.len
  <2>1. /\ b \in [len : Nat, l : Nat, r : Nat] /\ b.len # 0 /\ b.r - b.l # 0
    BY <1>2, <1>4 DEF ArrayRec
  <2> HIDE DEF b
  <2> QED BY <2>1 DEF NewArray, Capacity
<1>7. arr'[arrMap[a]] = NewArray(b)
  BY <1>2, <1>3 DEF Rewrite
<1>8. cellMap[c] \in Elements(arr'[arrMap[a]])
  <2>1. cellMap[c] \in cellMap[b.l] .. cellMap[b.l] + b.len - 1
    <3> DEFINE y == cellMap[b.l]
    <3>1. cellMap[c] = y + k /\ y \in Int
      BY <1>4, <1>5, StackAssumption
    <3> HIDE DEF b, k, y
    <3> QED BY <1>4, <3>1 DEF y
  <2> QED BY <1>6, <1>7, <2>1 DEF Elements
<1>9. cells'[cellMap[c]] = NewValue(snap.cells[c])
  <2>1. cellMap[c] \in Cell /\ InUse(cellMap[c])
    BY <1>2, <1>5, StackAssumption DEF InUse, Cell
  <2>2. cells[cellMap[c]] = snap.cells[c]
    BY <1>1, <1>5, AllMoved
  <2> QED BY <2>1, <2>2 DEF Rewrite
<1> QED BY <1>3, <1>5, <1>8, <1>9

\* An array survives in a set that is closed after the pass if the set of those that
\* went there is closed before it.
LEMMA ClosedBefore ==
  ASSUME GcInv, KeptLive, Rewrite, NEW A \in SUBSET (0 .. arrLen - 1), Closed(A)'
  PROVE  SnapClosed({a \in KeptArrays : arrMap[a] \in A})
<1> DEFINE B == {a \in KeptArrays : arrMap[a] \in A}
<1>1. phase = "rewrite" /\ top' = top
  BY DEF Rewrite
<1>2. SnapClosed(KeptArrays)
  BY <1>1, KeptHeld
<1>3. RootArrays' \subseteq A /\ Named(Held(A))' \subseteq A
  BY DEF Closed
<1>4. ASSUME NEW e \in DOMAIN snap.envs PROVE snap.envs[e].array \in B
  <2>1. snap.envs[e].array \in KeptArrays
    BY <1>2 DEF SnapClosed
  <2>2. DOMAIN envs' = 1 .. Len(envs') /\ DOMAIN envs' = DOMAIN snap.envs
    <3>1. envs' \in Seq(EnvRec)
      BY RewriteInv DEF GcInv, GcTypeOK, TypeOK
    <3>2. DOMAIN envs' = DOMAIN envs
      BY DEF Rewrite
    <3> QED BY <1>1, <3>1, <3>2, AllMoved, LenProperties
  <2>3. envs'[e].array = arrMap[snap.envs[e].array]
    <3>1. envs[e] \in EnvRec
      BY <1>1, AllMoved, ElementOfSeq, LenProperties DEF TypeOK
    <3>2. envs[e] = snap.envs[e] /\ e \in DOMAIN envs
      BY <1>1, AllMoved
    <3> QED BY <3>1, <3>2 DEF Rewrite, EnvRec
  <2>4. envs'[e].array \in RootArrays'
    BY <2>2 DEF RootArrays
  <2> QED BY <1>3, <2>1, <2>3, <2>4
<1>5. ASSUME NEW c \in SnapHeld(B), snap.cells[c].ty = "array"
      PROVE  snap.cells[c].val \in B
  <2>1. snap.cells[c].val \in KeptArrays
    <3>1. c \in SnapHeld(KeptArrays)
      BY DEF SnapHeld
    <3> QED BY <1>2, <1>5, <3>1 DEF SnapClosed
  <2>2. \E d \in Held(A)' : cells'[d] = NewValue(snap.cells[c])
    <3>1. CASE c \in RootCells
      <4>1. ContentsKept' /\ phase' = "done" /\ snap' = snap /\ arrMap' = arrMap
        BY RewriteInv DEF GcInv, Rewrite
      <4>2. RootCells' = RootCells
        BY <1>1 DEF RootCells
      <4>3. cells'[c] = NewValue(snap.cells[c])
        BY <3>1, <4>1, <4>2 DEF ContentsKept, NewValue
      <4> QED BY <3>1, <4>2, <4>3 DEF Held
    <3>2. CASE \E a \in B : c \in Elements(snap.arr[a])
      <4>1. PICK a \in B : c \in Elements(snap.arr[a])
        BY <3>2
      <4>2. /\ cellMap[c] \in Elements(arr'[arrMap[a]])
            /\ cells'[cellMap[c]] = NewValue(snap.cells[c])
        BY <4>1, ElementsRewritten
      <4>3. cellMap[c] \in Held(A)'
        BY <4>1, <4>2 DEF Held, Elements
      <4> QED BY <4>2, <4>3
    <3> QED BY <1>5, <3>1, <3>2 DEF SnapHeld
  <2>3. PICK d \in Held(A)' : cells'[d] = NewValue(snap.cells[c])
    BY <2>2
  <2>4. cells'[d].ty = "array" /\ cells'[d].val = arrMap[snap.cells[c].val]
    <3>1. snap.cells[c] \in Value
      <4>1. c \in Cell
        <5>1. CASE c \in RootCells
          BY <5>1, StackAssumption DEF GcInv, GcTypeOK, TypeOK, RootCells, Cell
        <5>2. CASE \E a \in B : c \in Elements(snap.arr[a])
          BY <5>2, ElementsRewritten
        <5> QED BY <1>5, <5>1, <5>2 DEF SnapHeld
      <4> QED BY <4>1 DEF GcInv, GcTypeOK
    <3> QED BY <1>5, <2>3, <3>1 DEF NewValue, Renumber, Value
  <2>5. arrMap[snap.cells[c].val] \in Named(Held(A))'
    BY <2>3, <2>4 DEF Named
  <2> QED BY <1>3, <2>1, <2>5
<1> QED BY <1>4, <1>5 DEF SnapClosed

\* When the pass has rewritten every reference, every array that is left is in every
\* closed set.
LEMMA RewriteLive ==
  ASSUME GcInv, KeptLive, Rewrite
  PROVE  NothingDeadLeft'
<1>1. phase = "rewrite" /\ arrLen' = arrLen /\ heapEnd' = heapEnd
  BY DEF Rewrite
<1>2. ASSUME NEW A \in SUBSET (0 .. arrLen - 1), Closed(A)', NEW x \in 0 .. arrLen - 1
      PROVE  x \in A
  <2> DEFINE B == {a \in KeptArrays : arrMap[a] \in A}
  <2>1. SnapClosed(B)
    BY <1>2, ClosedBefore
  <2>2. B \in SUBSET (0 .. snap.arrLen - 1)
    BY DEF KeptArrays
  <2>3. PICK a \in 0 .. snap.arrLen - 1 : KeptArray(a) /\ arrMap[a] = x
    BY <1>1, AllMoved
  <2> HIDE DEF B
  <2>4. a \in B
    BY <1>1, <2>1, <2>2, <2>3 DEF KeptLive, Moving
  <2> QED BY <2>3, <2>4 DEF B
<1>3. LiveArrays' = 0 .. arrLen - 1
  BY <1>1, <1>2 DEF LiveArrays
<1>4. ASSUME NEW x \in StackMax .. heapEnd - 1
      PROVE  x \in LiveCells'
  <2>1. StackMax \in Nat /\ heapEnd \in Nat /\ x \in 0 .. heapEnd - 1
    BY StackAssumption DEF GcInv, GcTypeOK, TypeOK
  <2>2. PICK c \in Cell : Kept(c) /\ cellMap[c] = x
    BY <1>1, <2>1, AllMoved
  <2>3. c \in StackMax .. CellLen - 1
    <3>1. c < StackMax => c = x
      BY <1>1, <2>2, AllMoved
    <3> QED BY <2>1, <3>1, StackAssumption DEF Cell
  <2>4. PICK a \in KeptArrays : c \in Elements(snap.arr[a])
    BY <1>1, <2>2, <2>3, KeptHeld
  <2>5. arrMap[a] \in LiveArrays' /\ x \in Elements(arr'[arrMap[a]])
    BY <1>3, <2>2, <2>4, ElementsRewritten
  <2> QED BY <2>5 DEF LiveCells, Held, Elements
<1> QED BY <1>1, <1>3, <1>4 DEF NothingDeadLeft

LEMMA KeptLiveStep ==
  ASSUME GcInv, MarkSound, KeptLive, NothingDeadLeft, [Next]_vars
  PROVE  KeptLive' /\ NothingDeadLeft'
<1>1. CASE ArraysMarked
  BY <1>1, ArraysMarkedLive DEF ArraysMarked, NothingDeadLeft
<1>2. CASE MoveCell
  BY <1>2, MoveCellLive DEF MoveCell, NothingDeadLeft
<1>3. CASE MoveArray
  BY <1>3, MoveArrayLive DEF MoveArray, NothingDeadLeft
<1>4. CASE CellsMoved \/ ArraysMoved
  BY <1>4, MovedLive DEF CellsMoved, ArraysMoved, NothingDeadLeft
<1>5. CASE Rewrite
  BY <1>5, RewriteLive DEF Rewrite, KeptLive, Moving
<1>6. CASE UNCHANGED vars
  <2>1. /\ UNCHANGED <<cells, top, heapEnd, arr, arrLen, envs>>
        /\ UNCHANGED <<phase, cellMap, arrMap, scan, snap>>
    BY <1>6 DEF vars, heapVars, gcVars
  <2>2. KeptLive'
    <3>1. MovedCells' = MovedCells /\ MovedArrays' = MovedArrays /\ Moving' = Moving
      BY <2>1 DEF MovedCells, MovedArrays, Moving
    <3>2. (\A c : Kept(c)' <=> Kept(c)) /\ (\A a : KeptArray(a)' <=> KeptArray(a))
      BY <2>1, <3>1 DEF Kept, KeptArray
    <3>3. CASE Moving
      BY <2>1, <3>2, <3>3, LiveKept
    <3> QED BY <3>1, <3>3 DEF KeptLive
  <2>3. NothingDeadLeft'
    BY <2>1, LiveSame DEF NothingDeadLeft
  <2> QED BY <2>2, <2>3
<1>7. CASE GcBegin \/ MarkCell \/ CellsMarked \/ MarkArray \/ GcEnd
  <2>1. phase' \in {"cells", "arrays", "idle"}
    BY <1>7 DEF GcBegin, MarkCell, CellsMarked, MarkArray, GcEnd
  <2> QED BY <2>1 DEF KeptLive, NothingDeadLeft, Moving
<1>8. CASE Command /\ UNCHANGED gcVars
  <2>1. ~gcForce
    BY <1>8 DEF Command, Running, PushInt, PushClosure, PushArray, PushMap, LocalVar, CellGet,
          CellSet, Pop, Dup, Swap, OpArrayPush, OpIndexRef, OpIndex, OpBinary, JumpUnless,
          CallClosure, CallExtern, CallArrayPush, Return, Exit
  <2>2. phase' = "idle"
    BY <1>8, <2>1 DEF GcInv, PhaseInv, gcVars
  <2> QED BY <2>2 DEF KeptLive, NothingDeadLeft, Moving
<1> QED BY <1>1, <1>2, <1>3, <1>4, <1>5, <1>6, <1>7, <1>8 DEF Next, GcStep

\* When gc_run ends, every array of the list and every cell in use on the heap is one
\* that the program can still get at: what a collection leaves is what it had to leave,
\* and one more, run at once, would drop nothing.
THEOREM NothingLeft == Spec => []NothingDeadLeft
<1> DEFINE Inv == GcInv /\ MarkSound /\ MarkExact /\ KeptLive /\ NothingDeadLeft
<1>1. GcInit => Inv
  BY InitInv DEF GcInit, MarkSound, MarkExact, KeptLive, NothingDeadLeft, Marking, Moving
<1>2. Inv /\ [Next]_vars => Inv'
  BY StepInv, MarkSoundStep, KeptLiveStep
<1>3. Inv => NothingDeadLeft
  OBVIOUS
<1> HIDE DEF Inv
<1> QED BY <1>1, <1>2, <1>3, PTL DEF Spec

-----------------------------------------------------------------------------
(* Every step of a collection brings its end nearer.                       *)

\* What Visits counts is finite.
LEMMA CountsTyped ==
  ASSUME GcInv
  PROVE  /\ IsFiniteSet(Unmarked(cellMap)) /\ Cardinality(Unmarked(cellMap)) \in Nat
         /\ IsFiniteSet(cellStack) /\ Cardinality(cellStack) \in Nat
         /\ IsFiniteSet(Unmarked(arrMap)) /\ Cardinality(Unmarked(arrMap)) \in Nat
         /\ IsFiniteSet(arrStack) /\ Cardinality(arrStack) \in Nat
<1>1. IsFiniteSet(Cell)
  BY FS_Interval, StackAssumption DEF Cell
<1>2. IsFiniteSet(0 .. snap.arrLen - 1)
  BY FS_Interval DEF GcInv, GcTypeOK
<1>3. /\ Unmarked(cellMap) \in SUBSET Cell /\ cellStack \in SUBSET Cell
      /\ Unmarked(arrMap) \in SUBSET (0 .. snap.arrLen - 1)
      /\ arrStack \in SUBSET (0 .. snap.arrLen - 1)
  BY DEF GcInv, GcTypeOK, Unmarked
<1>4. /\ IsFiniteSet(Unmarked(cellMap)) /\ IsFiniteSet(cellStack)
      /\ IsFiniteSet(Unmarked(arrMap)) /\ IsFiniteSet(arrStack)
  BY <1>1, <1>2, <1>3, FS_Subset
<1> QED BY <1>4, FS_CardinalityType

\* To take an element off a set, and to put at most one on it.
LEMMA CountLess ==
  ASSUME NEW S, IsFiniteSet(S), NEW x \in S
  PROVE  Cardinality(S \ {x}) = Cardinality(S) - 1 /\ Cardinality(S \ {x}) \in Nat
BY FS_RemoveElement, FS_CardinalityType

LEMMA CountMore ==
  ASSUME NEW S, IsFiniteSet(S), NEW x
  PROVE  Cardinality(S \union {x}) <= Cardinality(S) + 1 /\ Cardinality(S \union {x}) \in Nat
<1>1. Cardinality(S) \in Nat
  BY FS_CardinalityType
<1> QED BY <1>1, FS_AddElement

\* To move some elements of one set to another.
LEMMA CountMoved ==
  ASSUME NEW S, IsFiniteSet(S), NEW T, IsFiniteSet(T), NEW N \in SUBSET S
  PROVE  /\ Cardinality(S \ N) + Cardinality(T \union N) <= Cardinality(S) + Cardinality(T)
         /\ Cardinality(S \ N) \in Nat /\ Cardinality(T \union N) \in Nat
<1>1. IsFiniteSet(N) /\ S \intersect N = N
  BY FS_Subset
<1>2. /\ Cardinality(S \ N) = Cardinality(S) - Cardinality(N)
      /\ Cardinality(T \union N) = Cardinality(T) + Cardinality(N) - Cardinality(T \intersect N)
  <2>1. Cardinality(S \ N) = Cardinality(S) - Cardinality(S \intersect N)
    BY FS_Difference
  <2>2. Cardinality(T \union N) = Cardinality(T) + Cardinality(N) - Cardinality(T \intersect N)
    BY <1>1, FS_Union
  <2> QED BY <1>1, <2>1, <2>2
<1>3. IsFiniteSet(T \intersect N)
  BY FS_Subset
<1>4. /\ Cardinality(S) \in Nat /\ Cardinality(T) \in Nat /\ Cardinality(N) \in Nat
      /\ Cardinality(T \intersect N) \in Nat
  BY <1>1, <1>3, FS_CardinalityType
<1>5. Cardinality(S \ N) \in Nat /\ Cardinality(T \union N) \in Nat
  BY <1>1, FS_Difference, FS_Union, FS_CardinalityType
<1> QED BY <1>2, <1>4, <1>5

\* A cell is popped, and an array pushed only if it was not marked.
LEMMA MarkCellVisits ==
  ASSUME GcInv, MarkCell
  PROVE  Visits' \in 0 .. Visits - 1 /\ Visits \in Nat
<1>1. PICK c \in cellStack :
         /\ phase = "cells" /\ status = "run"
         /\ cellStack' = cellStack \ {c} /\ cellMap' = cellMap
         /\ \/ UNCHANGED <<arrMap, arrStack>>
            \/ /\ ~(cells[c].val >= arrLen) /\ arrMap[cells[c].val] # 1
               /\ arrMap' = [arrMap EXCEPT ![cells[c].val] = 1]
               /\ arrStack' = arrStack \union {cells[c].val}
  BY DEF MarkCell
<1>2. Cardinality(cellStack') = Cardinality(cellStack) - 1
  BY <1>1, CountsTyped, CountLess
<1>3. Cardinality(Unmarked(cellMap)') = Cardinality(Unmarked(cellMap))
  BY <1>1 DEF Unmarked
<1>4. /\ Cardinality(Unmarked(arrMap)') + Cardinality(arrStack')
           <= Cardinality(Unmarked(arrMap)) + Cardinality(arrStack)
      /\ Cardinality(Unmarked(arrMap)') \in Nat /\ Cardinality(arrStack') \in Nat
  <2>1. CASE UNCHANGED <<arrMap, arrStack>>
    BY <2>1, CountsTyped DEF Unmarked
  <2>2. CASE /\ ~(cells[c].val >= arrLen) /\ arrMap[cells[c].val] # 1
             /\ arrMap' = [arrMap EXCEPT ![cells[c].val] = 1]
             /\ arrStack' = arrStack \union {cells[c].val}
    <3> DEFINE v == cells[c].val
    <3>1. v \in 0 .. arrLen - 1 /\ arrMap \in [0 .. arrLen - 1 -> {0, 1}]
      BY <1>1, <2>2 DEF GcInv, GcTypeOK, TypeOK, PhaseInv, Marking, Value
    <3> HIDE DEF v
    <3>2. v \in Unmarked(arrMap) /\ Unmarked(arrMap)' = Unmarked(arrMap) \ {v}
      BY <2>2, <3>1 DEF v, Unmarked
    <3>3. /\ Cardinality(Unmarked(arrMap)') = Cardinality(Unmarked(arrMap)) - 1
          /\ Cardinality(Unmarked(arrMap)') \in Nat
      BY <3>2, CountsTyped, CountLess
    <3>4. Cardinality(arrStack') <= Cardinality(arrStack) + 1 /\ Cardinality(arrStack') \in Nat
      BY <2>2, CountsTyped, CountMore DEF v
    <3> QED BY <3>3, <3>4, CountsTyped
  <2> QED BY <1>1, <2>1, <2>2
<1>5. Visits' = Cardinality(Unmarked(cellMap)') + Cardinality(cellStack')
                 + Cardinality(Unmarked(arrMap)') + Cardinality(arrStack')
  BY DEF Visits
<1>6. /\ Cardinality(Unmarked(cellMap)) \in Nat /\ Cardinality(cellStack) \in Nat
      /\ Cardinality(Unmarked(arrMap)) \in Nat /\ Cardinality(arrStack) \in Nat
      /\ Cardinality(cellStack') \in Nat
  BY <1>1, CountsTyped, CountLess
<1> QED BY <1>2, <1>3, <1>4, <1>5, <1>6 DEF Visits

\* An array is popped, and cells pushed only if they were not marked.
LEMMA MarkArrayVisits ==
  ASSUME GcInv, MarkArray
  PROVE  Visits' \in 0 .. Visits - 1 /\ Visits \in Nat
<1> DEFINE New(a) == {c \in Elements(arr[a]) : cellMap[c] = 0}
<1>1. PICK a \in arrStack :
         /\ phase = "arrays" /\ arrStack' = arrStack \ {a} /\ arrMap' = arrMap
         /\ cellMap' = [c \in Cell |-> IF c \in New(a) THEN 1 ELSE cellMap[c]]
         /\ cellStack' = cellStack \union New(a)
  BY DEF MarkArray
<1>2. New(a) \in SUBSET Cell /\ cellMap \in [Cell -> {0, 1}]
  <2>1. arr[a] \in ArrayRec /\ cellMap \in [Cell -> {0, 1}]
    BY <1>1 DEF GcInv, GcTypeOK, TypeOK, PhaseInv, Marking, Snapshot
  <2> QED BY <2>1, StackAssumption DEF Elements, ArrayRec, Cell
<1>3. New(a) \in SUBSET Unmarked(cellMap) /\ Unmarked(cellMap)' = Unmarked(cellMap) \ New(a)
  BY <1>1, <1>2 DEF Unmarked
<1> HIDE DEF New
<1>4. /\ Cardinality(Unmarked(cellMap)') + Cardinality(cellStack')
           <= Cardinality(Unmarked(cellMap)) + Cardinality(cellStack)
      /\ Cardinality(Unmarked(cellMap)') \in Nat /\ Cardinality(cellStack') \in Nat
  BY <1>1, <1>3, CountsTyped, CountMoved
<1>5. Cardinality(arrStack') = Cardinality(arrStack) - 1
  BY <1>1, CountsTyped, CountLess
<1>6. Cardinality(Unmarked(arrMap)') = Cardinality(Unmarked(arrMap))
  BY <1>1 DEF Unmarked
<1>7. Visits' = Cardinality(Unmarked(cellMap)') + Cardinality(cellStack')
                 + Cardinality(Unmarked(arrMap)') + Cardinality(arrStack')
  BY DEF Visits
<1>8. /\ Cardinality(Unmarked(cellMap)) \in Nat /\ Cardinality(cellStack) \in Nat
      /\ Cardinality(Unmarked(arrMap)) \in Nat /\ Cardinality(arrStack) \in Nat
      /\ Cardinality(arrStack') \in Nat
  BY <1>1, CountsTyped, CountLess
<1> QED BY <1>4, <1>5, <1>6, <1>7, <1>8 DEF Visits

\* One step of the collection.
Nearer == \/ PhasesLeft' < PhasesLeft
          \/ PhasesLeft' = PhasesLeft /\ TurnsLeft' \in 0 .. TurnsLeft - 1

\* A visit may cost another round of the two loops, which is less than it takes off.
LEMMA MarkNearer ==
  ASSUME GcInv, MarkCell \/ MarkArray
  PROVE  Nearer
<1>1. Visits' \in 0 .. Visits - 1 /\ Visits \in Nat
  BY MarkCellVisits, MarkArrayVisits
<1>2. Marking /\ phase' = phase /\ ~stuck' /\ stuck \in BOOLEAN
  BY DEF MarkCell, MarkArray, Marking, GcInv, GcTypeOK
<1>3. TurnsLeft = 3 * Visits + (IF phase = "cells" THEN 1 ELSE 0) + (IF stuck THEN 0 ELSE 2)
  BY <1>2 DEF TurnsLeft
<1>4. TurnsLeft' = 3 * Visits' + (IF phase = "cells" THEN 1 ELSE 0) + 2
  BY <1>2 DEF TurnsLeft, Marking
<1>5. TurnsLeft' \in 0 .. TurnsLeft - 1
  <2> DEFINE V == Visits
             W == Visits'
  <2> HIDE DEF V, W
  <2>1. W \in 0 .. V - 1 /\ V \in Nat
    BY <1>1 DEF V, W
  <2>2. CASE phase = "cells"
    <3>1. TurnsLeft' = 3 * W + 3
      BY <1>4, <2>1, <2>2 DEF W
    <3>2. TurnsLeft = 3 * V + 1 \/ TurnsLeft = 3 * V + 3
      BY <1>3, <2>1, <2>2 DEF V
    <3> QED BY <2>1, <3>1, <3>2
  <2>3. CASE phase # "cells"
    <3>1. TurnsLeft' = 3 * W + 2
      BY <1>4, <2>1, <2>3 DEF W
    <3>2. TurnsLeft = 3 * V + 0 \/ TurnsLeft = 3 * V + 2
      BY <1>3, <2>1, <2>3 DEF V
    <3> QED BY <2>1, <3>1, <3>2
  <2> QED BY <2>2, <2>3
<1> QED BY <1>2, <1>5 DEF Nearer, PhasesLeft

\* From one mark loop to the other, and back for another round.
LEMMA RoundNearer ==
  ASSUME GcInv, CellsMarked \/ ArraysMarked
  PROVE  Nearer
<1>1. /\ UNCHANGED <<cellMap, cellStack, arrMap, arrStack>>
      /\ stuck \in BOOLEAN
  BY DEF CellsMarked, ArraysMarked, GcInv, GcTypeOK
<1>2. Visits' = Visits /\ Visits \in Nat
  BY <1>1, CountsTyped DEF Visits, Unmarked
<1>3. CASE CellsMarked
  <2>1. phase = "cells" /\ phase' = "arrays" /\ stuck' = stuck
    BY <1>3 DEF CellsMarked
  <2>2. /\ TurnsLeft = 3 * Visits + 1 + (IF stuck THEN 0 ELSE 2)
        /\ TurnsLeft' = 3 * Visits + 0 + (IF stuck THEN 0 ELSE 2)
    BY <1>2, <2>1 DEF TurnsLeft, Marking
  <2>3. TurnsLeft' \in 0 .. TurnsLeft - 1
    BY <1>1, <1>2, <2>2
  <2> QED BY <2>1, <2>3 DEF Nearer, PhasesLeft
<1>4. CASE ArraysMarked /\ ~stuck
  <2>1. phase = "arrays" /\ phase' = "cells" /\ stuck'
    BY <1>4 DEF ArraysMarked
  <2>2. TurnsLeft = 3 * Visits + 0 + 2 /\ TurnsLeft' = 3 * Visits + 1 + 0
    BY <1>2, <1>4, <2>1 DEF TurnsLeft, Marking
  <2>3. TurnsLeft' \in 0 .. TurnsLeft - 1
    BY <1>2, <2>2
  <2> QED BY <2>1, <2>3 DEF Nearer, PhasesLeft
<1>5. CASE ArraysMarked /\ stuck
  BY <1>5 DEF ArraysMarked, Nearer, PhasesLeft
<1> QED BY <1>1, <1>3, <1>4, <1>5

LEMMA MoveNearer ==
  ASSUME GcInv, MoveCell \/ CellsMoved \/ MoveArray \/ ArraysMoved \/ Rewrite \/ GcEnd
  PROVE  Nearer
<1>1. scan \in Nat /\ arrLen \in Nat /\ CellLen \in Nat
  BY StackAssumption DEF GcInv, GcTypeOK, TypeOK
<1>2. CASE MoveCell
  <2>1. phase = "moveCells" /\ phase' = "moveCells" /\ scan < CellLen /\ scan' = scan + 1
    BY <1>2 DEF MoveCell
  <2>2. TurnsLeft = CellLen - scan /\ TurnsLeft' = CellLen - (scan + 1)
    BY <2>1 DEF TurnsLeft, Marking
  <2> QED BY <1>1, <2>1, <2>2 DEF Nearer, PhasesLeft
<1>3. CASE MoveArray
  <2>1. /\ phase = "moveArrays" /\ phase' = "moveArrays" /\ arrLen' = arrLen
        /\ scan < arrLen /\ scan' = scan + 1
    BY <1>3 DEF MoveArray
  <2>2. TurnsLeft = arrLen - scan /\ TurnsLeft' = arrLen - (scan + 1)
    BY <2>1 DEF TurnsLeft, Marking
  <2> QED BY <1>1, <2>1, <2>2 DEF Nearer, PhasesLeft
<1>4. CASE CellsMoved \/ ArraysMoved \/ Rewrite \/ GcEnd
  BY <1>4 DEF CellsMoved, ArraysMoved, Rewrite, GcEnd, Nearer, PhasesLeft
<1> QED BY <1>2, <1>3, <1>4

LEMMA ProgressStep ==
  ASSUME GcInv, [Next]_vars
  PROVE  [phase # "idle" => Nearer]_vars
<1> SUFFICES ASSUME Next, phase # "idle" PROVE Nearer
  OBVIOUS
<1>1. CASE Command /\ UNCHANGED gcVars
  <2>1. ~gcForce
    BY <1>1 DEF Command, Running, PushInt, PushClosure, PushArray, PushMap, LocalVar, CellGet,
          CellSet, Pop, Dup, Swap, OpArrayPush, OpIndexRef, OpIndex, OpBinary, JumpUnless,
          CallClosure, CallExtern, CallArrayPush, Return, Exit
  <2> QED BY <2>1 DEF GcInv, PhaseInv
<1>2. CASE GcBegin
  BY <1>2 DEF GcBegin
<1>3. CASE GcStep
  BY <1>3, MarkNearer, RoundNearer, MoveNearer DEF GcStep
<1> QED BY <1>1, <1>2, <1>3 DEF Next

\* Every step of gc_run brings its end nearer, for every size of the memory and whatever
\* its cells refer to.
THEOREM CollectionProgress == Spec => GcProgress
<1>1. GcInv /\ [Next]_vars => [phase # "idle" => Nearer]_vars
  BY ProgressStep
<1>2. [phase # "idle" => Nearer]_vars =>
        [phase # "idle" => \/ PhasesLeft' < PhasesLeft
                           \/ PhasesLeft' = PhasesLeft /\ TurnsLeft' \in 0 .. TurnsLeft - 1]_vars
  BY DEF Nearer
<1> QED BY <1>1, <1>2, GcInvariant, PTL DEF Spec, GcProgress
=============================================================================
