------------------------------- MODULE NegiGc -------------------------------
(***************************************************************************)
(* The garbage collector of the HSP evaluator (gc_run), step by step.      *)
(*                                                                         *)
(* A collection marks the cells and arrays that are reachable, slides the  *)
(* marked ones down to the lowest indices, and rewrites the indices that   *)
(* are kept anywhere to the new ones.  It runs between two commands, when  *)
(* an allocation has raised gcForce.  cellMap and arrMap are the gc_map    *)
(* lists of the code, used for two purposes: while marking an entry is 1   *)
(* (marked) or 0, and once the entry has been moved it is the new index,   *)
(* or -1 when the object is dropped.                                       *)
(*                                                                         *)
(* A GC stack is written as the set of what is on it, popped from the      *)
(* highest index down.  The loop that empties one stack only pushes on the *)
(* other, which is emptied in turn, so the order within a stack does not   *)
(* show.                                                                   *)
(*                                                                         *)
(* snap is a history variable: the memory as the collection found it.      *)
(***************************************************************************)
EXTENDS NegiHeap, FiniteSets

VARIABLES phase,      \* where gc_run is
          cellMap,    \* s_cell_gc_map
          cellStack,  \* s_cell_gc_stack
          arrMap,     \* s_array_gc_map
          arrStack,   \* s_array_gc_stack
          stuck,      \* the local variable of gc_run
          scan,       \* the loop counter (cnt) of the two move loops
          mapLen,     \* s_cell_gc_map_len, then s_array_gc_map_len
          snap        \* history: cells, arr, arrLen, envs when gc_run starts

gcVars == <<phase, cellMap, cellStack, arrMap, arrStack, stuck, scan, mapLen, snap>>
vars == <<heapVars, gcVars>>

Phase == {"idle", "cells", "arrays", "moveCells", "moveArrays", "rewrite", "done"}
Marking == phase \in {"cells", "arrays"}
Moving == phase \in {"moveCells", "moveArrays", "rewrite"}

Snapshot == [cells |-> cells, arr |-> arr, arrLen |-> arrLen, envs |-> envs]

GcTypeOK ==
    /\ TypeOK
    /\ phase \in Phase
    /\ cellMap \in [Cell -> -1 .. CellLen]
    /\ cellStack \subseteq Cell
    /\ snap.cells \in [Cell -> Value]
    /\ snap.arrLen \in Nat
    /\ snap.arr \in [0 .. snap.arrLen - 1 -> ArrayRec]
    /\ snap.envs \in Seq(EnvRec)
    /\ arrMap \in [0 .. snap.arrLen - 1 -> -1 .. snap.arrLen]
    /\ arrStack \subseteq 0 .. snap.arrLen - 1
    /\ stuck \in BOOLEAN
    /\ scan \in Nat
    /\ mapLen \in Nat

-----------------------------------------------------------------------------
(* Mark.                                                                   *)

\* The arrays of the environments: those of the running frames are among them.
RootArrays == {envs[e].array : e \in 1 .. Len(envs)}
RootCells == 0 .. top - 1

\* gc_begin, cell_gc_mark_stack, frame_gc_mark_all, env_gc_mark_all
GcBegin ==
    /\ phase = "idle" /\ gcForce /\ status = "run"
    /\ snap' = Snapshot
    /\ cellMap' = [c \in Cell |-> IF c \in RootCells THEN 1 ELSE 0]
    /\ cellStack' = RootCells
    /\ IF RootArrays \subseteq 0 .. arrLen - 1
       THEN /\ arrMap' = [a \in 0 .. arrLen - 1 |-> IF a \in RootArrays THEN 1 ELSE 0]
            /\ arrStack' = RootArrays
            /\ UNCHANGED status
       ELSE /\ arrMap' = [a \in 0 .. arrLen - 1 |-> 0]
            /\ arrStack' = {}
            /\ status' = "badIndex"
    /\ phase' = "cells" /\ stuck' = TRUE
    /\ scan' = 0 /\ mapLen' = 0
    /\ UNCHANGED <<cells, top, heapEnd, arr, arrLen, envs, frames, maps, gcForce>>

\* Mutant: the array is marked, and its elements are never visited.
MarkCellShallow == \E c \in cellStack :
    /\ phase = "cells" /\ status = "run"
    /\ \A d \in cellStack : d <= c
    /\ cellStack' = cellStack \ {c}
    /\ stuck' = FALSE
    /\ arrMap' = IF cells[c].ty = "array" /\ cells[c].val < arrLen
                 THEN [arrMap EXCEPT ![cells[c].val] = 1] ELSE arrMap
    /\ UNCHANGED <<heapVars, phase, cellMap, arrStack, scan, mapLen, snap>>

\* Mutant: an array is visited again for every reference to it.
MarkCellAgain == \E c \in cellStack :
    /\ phase = "cells" /\ status = "run"
    /\ \A d \in cellStack : d <= c
    /\ cellStack' = cellStack \ {c}
    /\ stuck' = FALSE
    /\ LET new == {cells[c].val} \intersect 0 .. arrLen - 1 IN
       IF cells[c].ty # "array" THEN UNCHANGED <<arrMap, arrStack>>
       ELSE /\ arrMap' = [a \in DOMAIN arrMap |-> IF a \in new THEN 1 ELSE arrMap[a]]
            /\ arrStack' = arrStack \union new
    /\ UNCHANGED <<heapVars, phase, cellMap, scan, mapLen, snap>>

\* One turn of cell_gc_mark_loop: only an array value refers to something that
\* is marked.
MarkCell == \E c \in cellStack :
    /\ phase = "cells" /\ status = "run"
    /\ \A d \in cellStack : d <= c
    /\ cellStack' = cellStack \ {c}
    /\ stuck' = FALSE
    /\ LET v == cells[c] IN
       IF v.ty # "array" THEN UNCHANGED <<arrMap, arrStack, status>>
       ELSE IF v.val >= arrLen
       THEN status' = "badIndex" /\ UNCHANGED <<arrMap, arrStack>>
       ELSE IF arrMap[v.val] = 1 THEN UNCHANGED <<arrMap, arrStack, status>>
       ELSE /\ arrMap' = [arrMap EXCEPT ![v.val] = 1]
            /\ arrStack' = arrStack \union {v.val}
            /\ UNCHANGED status
    /\ UNCHANGED <<cells, top, heapEnd, arr, arrLen, envs, frames, maps, gcForce,
                   phase, cellMap, scan, mapLen, snap>>

CellsMarked ==
    /\ phase = "cells" /\ status = "run" /\ cellStack = {}
    /\ phase' = "arrays"
    /\ UNCHANGED <<heapVars, cellMap, cellStack, arrMap, arrStack, stuck, scan, mapLen, snap>>

\* The cells that hold the elements of an array.
Elements(a) == a.l .. a.l + a.len - 1

\* One turn of array_gc_mark_loop: the elements, not the spare capacity.
MarkArray == \E a \in arrStack :
    /\ phase = "arrays" /\ status = "run"
    /\ \A b \in arrStack : b <= a
    /\ arrStack' = arrStack \ {a}
    /\ stuck' = FALSE
    /\ LET new == {c \in Elements(arr[a]) : cellMap[c] = 0} IN
       /\ cellMap' = [c \in Cell |-> IF c \in new THEN 1 ELSE cellMap[c]]
       /\ cellStack' = cellStack \union new
    /\ UNCHANGED <<heapVars, phase, arrMap, scan, mapLen, snap>>

\* Mutant: one round of the two loops is taken to be enough.
ArraysMarkedOnce ==
    /\ phase = "arrays" /\ status = "run" /\ arrStack = {}
    /\ phase' = "moveCells"
    /\ stuck' = TRUE
    /\ UNCHANGED <<heapVars, cellMap, cellStack, arrMap, arrStack, scan, mapLen, snap>>

\* Mutant: stuck is not raised again when a round begins.
ArraysMarkedNoReset ==
    /\ phase = "arrays" /\ status = "run" /\ arrStack = {}
    /\ phase' = IF stuck THEN "moveCells" ELSE "cells"
    /\ UNCHANGED <<heapVars, cellMap, cellStack, arrMap, arrStack, stuck, scan, mapLen, snap>>

\* Both loops have run: again unless neither found anything.
ArraysMarked ==
    /\ phase = "arrays" /\ status = "run" /\ arrStack = {}
    /\ phase' = IF stuck THEN "moveCells" ELSE "cells"
    /\ stuck' = TRUE
    /\ UNCHANGED <<heapVars, cellMap, cellStack, arrMap, arrStack, scan, mapLen, snap>>

-----------------------------------------------------------------------------
(* Move.                                                                   *)

\* Mutant: the stack cells do not count as survivors.
MoveCellOverStack ==
    /\ phase = "moveCells" /\ scan < CellLen
    /\ scan' = scan + 1
    /\ IF scan < StackMax
       THEN cellMap' = [cellMap EXCEPT ![scan] = scan] /\ UNCHANGED <<cells, mapLen>>
       ELSE IF cellMap[scan] = 0
       THEN cellMap' = [cellMap EXCEPT ![scan] = -1] /\ UNCHANGED <<cells, mapLen>>
       ELSE /\ cellMap' = [cellMap EXCEPT ![scan] = mapLen]
            /\ mapLen' = mapLen + 1
            /\ cells' = [cells EXCEPT ![mapLen] = cells[scan]]
    /\ UNCHANGED <<top, heapEnd, arr, arrLen, envs, frames, maps, gcForce, status,
                   phase, cellStack, arrMap, arrStack, stuck, snap>>

\* One turn of cell_gc_move; the stack stays where it is.
MoveCell ==
    /\ phase = "moveCells" /\ scan < CellLen
    /\ scan' = scan + 1
    /\ IF scan < StackMax
       THEN /\ cellMap' = [cellMap EXCEPT ![scan] = scan]
            /\ mapLen' = mapLen + 1
            /\ UNCHANGED cells
       ELSE IF cellMap[scan] = 0
       THEN /\ cellMap' = [cellMap EXCEPT ![scan] = -1]
            /\ UNCHANGED <<cells, mapLen>>
       ELSE /\ cellMap' = [cellMap EXCEPT ![scan] = mapLen]
            /\ mapLen' = mapLen + 1
            /\ cells' = [cells EXCEPT ![mapLen] = cells[scan]]
    /\ UNCHANGED <<top, heapEnd, arr, arrLen, envs, frames, maps, gcForce, status,
                   phase, cellStack, arrMap, arrStack, stuck, snap>>

\* Mutant: the end of the heap stays where it was.
CellsMovedKeep ==
    /\ phase = "moveCells" /\ scan = CellLen
    /\ phase' = "moveArrays" /\ scan' = 0 /\ mapLen' = 0
    /\ UNCHANGED <<cells, top, heapEnd, arr, arrLen, envs, frames, maps, gcForce, status,
                   cellMap, cellStack, arrMap, arrStack, stuck, snap>>

CellsMoved ==
    /\ phase = "moveCells" /\ scan = CellLen
    /\ heapEnd' = mapLen
    /\ phase' = "moveArrays" /\ scan' = 0 /\ mapLen' = 0
    /\ UNCHANGED <<cells, top, arr, arrLen, envs, frames, maps, gcForce, status,
                   cellMap, cellStack, arrMap, arrStack, stuck, snap>>

\* One turn of array_gc_move.
MoveArray ==
    /\ phase = "moveArrays" /\ scan < arrLen
    /\ scan' = scan + 1
    /\ IF arrMap[scan] = 0
       THEN /\ arrMap' = [arrMap EXCEPT ![scan] = -1]
            /\ UNCHANGED <<arr, mapLen>>
       ELSE /\ arrMap' = [arrMap EXCEPT ![scan] = mapLen]
            /\ mapLen' = mapLen + 1
            /\ arr' = [arr EXCEPT ![mapLen] = arr[scan]]
    /\ UNCHANGED <<cells, top, heapEnd, arrLen, envs, frames, maps, gcForce, status,
                   phase, cellMap, cellStack, arrStack, stuck, snap>>

ArraysMoved ==
    /\ phase = "moveArrays" /\ scan = arrLen
    /\ arrLen' = mapLen
    /\ arr' = [a \in 0 .. mapLen - 1 |-> arr[a]]
    /\ phase' = "rewrite"
    /\ UNCHANGED <<cells, top, heapEnd, envs, frames, maps, gcForce, status,
                   cellMap, cellStack, arrMap, arrStack, stuck, scan, mapLen, snap>>

-----------------------------------------------------------------------------
(* Rewrite.                                                                *)

Renumber(map, v) == IF v.ty = "array" THEN [v EXCEPT !.val = map[v.val]] ELSE v
NewValue(v) == Renumber(arrMap, v)

\* cell_gc_rewrite_all passes over the cells in use, and over array values only.
InUse(c) == c < top \/ c \in StackMax .. heapEnd - 1

\* Mutant: the range follows the last element instead of the first.
NewArrayByLast(a) ==
    IF Capacity(a) = 0 \/ a.len = 0 THEN a
    ELSE [a EXCEPT !.l = cellMap[a.l + a.len - 1], !.r = cellMap[a.l + a.len - 1] + Capacity(a)]

\* array_gc_rewrite_all keeps the capacity, though only the elements moved.  For
\* an empty array it asserts that the first cell was dropped, then asks
\* array_reserve for the capacity the array has, which changes nothing.
NewArray(a) ==
    IF Capacity(a) = 0 \/ a.len = 0 THEN a
    ELSE [a EXCEPT !.l = cellMap[a.l], !.r = cellMap[a.l] + Capacity(a)]

EmptyKept(a) == Capacity(a) # 0 /\ a.len = 0 /\ cellMap[a.l] >= 0

Rewrite ==
    /\ phase = "rewrite"
    /\ cells' = [c \in Cell |-> IF InUse(c) THEN NewValue(cells[c]) ELSE cells[c]]
    /\ arr' = [a \in DOMAIN arr |-> NewArray(arr[a])]
    /\ envs' = [e \in DOMAIN envs |-> [envs[e] EXCEPT !.array = arrMap[@]]]
    /\ status' = IF \E a \in DOMAIN arr : EmptyKept(arr[a]) THEN "failed" ELSE status
    /\ phase' = "done"
    /\ UNCHANGED <<top, heapEnd, arrLen, frames, maps, gcForce,
                   cellMap, cellStack, arrMap, arrStack, stuck, scan, mapLen, snap>>

\* The maps are not read again before gc_begin clears them; they are cleared here.
NoMarks == [c \in Cell |-> 0]
NoArrays == [a \in {} |-> 0]
NoSnapshot == [cells |-> [c \in Cell |-> Zero], arr |-> NoArrays, arrLen |-> 0, envs |-> << >>]

GcEnd ==
    /\ phase = "done" /\ status = "run"
    /\ gcForce' = FALSE /\ phase' = "idle"
    /\ cellMap' = NoMarks /\ arrMap' = NoArrays /\ snap' = NoSnapshot
    /\ scan' = 0 /\ mapLen' = 0
    /\ UNCHANGED <<cells, top, heapEnd, arr, arrLen, envs, frames, maps, status,
                   cellStack, arrStack, stuck>>

GcStep ==
    \/ MarkCell \/ CellsMarked \/ MarkArray \/ ArraysMarked
    \/ MoveCell \/ CellsMoved \/ MoveArray \/ ArraysMoved \/ Rewrite \/ GcEnd

-----------------------------------------------------------------------------
GcInit ==
    /\ Init /\ phase = "idle"
    /\ cellMap = NoMarks /\ cellStack = {} /\ arrMap = NoArrays /\ arrStack = {}
    /\ stuck = TRUE /\ scan = 0 /\ mapLen = 0 /\ snap = NoSnapshot

Next == (Command /\ UNCHANGED gcVars) \/ GcBegin \/ GcStep

Spec == GcInit /\ [][Next]_vars

\* gc_run is a call: it returns, nothing else runs meanwhile.
FairSpec == Spec /\ WF_vars(GcStep)

-----------------------------------------------------------------------------
(* What a collection guarantees.                                           *)

Marked(c) == cellMap[c] = 1
MarkedArrays == {a \in DOMAIN arrMap : arrMap[a] = 1}

\* Whatever the roots are is marked, whatever a marked object off the GC stacks
\* refers to is marked, and a round in which nothing was popped has left both
\* stacks empty: the loop invariant of gc_run, cell_gc_mark_loop and
\* array_gc_mark_loop.
MarkInvariant ==
    (Marking /\ status = "run") =>
        /\ \A c \in RootCells : Marked(c)
        /\ RootArrays \subseteq MarkedArrays
        /\ \A c \in Cell \ cellStack :
              (Marked(c) /\ cells[c].ty = "array") => cells[c].val \in MarkedArrays
        /\ \A a \in MarkedArrays \ arrStack :
              \A c \in Elements(arr[a]) : Marked(c)
        /\ (phase = "arrays" /\ stuck) => cellStack = {}

\* What a set of arrays and the stack hold, and which arrays a set of cells names.
Held(arrays) == RootCells \union UNION {Elements(arr[a]) : a \in arrays}
Named(held) == {cells[c].val : c \in {c \in held : cells[c].ty = "array"}}

\* The arrays and cells that a program can still get at: those in every set that has
\* the roots and misses nothing that it refers to.
Closed(arrays) == RootArrays \subseteq arrays /\ Named(Held(arrays)) \subseteq arrays
LiveArrays == {a \in 0 .. arrLen - 1 :
                   \A arrays \in SUBSET (0 .. arrLen - 1) : Closed(arrays) => a \in arrays}
LiveCells == Held(LiveArrays)

\* When marking ends, exactly the reachable cells and arrays are marked: nothing
\* live is dropped and no garbage is retained.
MarkExact ==
    (phase = "moveCells" /\ scan = 0) =>
        /\ MarkedArrays = LiveArrays
        /\ {c \in Cell : Marked(c)} = LiveCells

\* Nothing but what is live is marked or put on a GC stack: the half of MarkExact
\* that the marking loops keep at every turn.
MarkSound ==
    (Marking /\ status = "run") =>
        /\ MarkedArrays \union arrStack \subseteq LiveArrays
        /\ {c \in Cell : Marked(c)} \union cellStack \subseteq LiveCells

\* How far the two move loops have got, and where the next survivor goes.
MovedCells == IF phase = "moveCells" THEN scan ELSE CellLen
NextCell == IF phase = "moveCells" THEN mapLen ELSE heapEnd
MovedArrays == IF phase = "moveCells" THEN 0
               ELSE IF phase = "moveArrays" THEN scan ELSE snap.arrLen
NextArray == IF phase = "moveCells" THEN 0
             ELSE IF phase = "moveArrays" THEN mapLen ELSE arrLen

\* The survivors, whatever the map says of them at this point.
Kept(c) == IF c < MovedCells THEN cellMap[c] >= 0 ELSE c < StackMax \/ cellMap[c] = 1
KeptArray(a) == IF a < MovedArrays THEN arrMap[a] >= 0 ELSE arrMap[a] = 1

\* Sliding an object down never overwrites one that has not been read yet, and
\* the survivors already moved hold, at their new index, what they held.
MoveSafe ==
    Moving =>
        /\ \A c \in MovedCells .. CellLen - 1 : cells[c] = snap.cells[c]
        /\ \A c \in 0 .. MovedCells - 1 : Kept(c) =>
              cellMap[c] <= c /\ cells[cellMap[c]] = snap.cells[c]
        /\ \A a \in MovedArrays .. snap.arrLen - 1 : arr[a] = snap.arr[a]
        /\ \A a \in 0 .. MovedArrays - 1 : KeptArray(a) =>
              arrMap[a] <= a /\ arr[arrMap[a]] = snap.arr[a]

\* A collection is invisible to the program: the stack, the environments and
\* every array that was kept hold the values they held, up to the renumbering of
\* the arrays; a value on the stack never becomes a reference to nothing.
ContentsKept ==
    phase = "done" =>
        /\ \A c \in RootCells : cells[c] = NewValue(snap.cells[c])
        /\ \A a \in DOMAIN snap.arr : arrMap[a] >= 0 =>
              LET old == snap.arr[a]
                  new == arr[arrMap[a]] IN
              /\ new.len = old.len
              /\ \A k \in 0 .. old.len - 1 :
                    cells[new.l + k] = NewValue(snap.cells[old.l + k])
        /\ \A e \in DOMAIN envs : envs[e].array = arrMap[snap.envs[e].array]

\* A collection leaves nothing that the program cannot get at: all the arrays that are
\* left are live, and all the cells in use on the heap.
NothingDeadLeft ==
    phase = "done" =>
        /\ LiveArrays = 0 .. arrLen - 1
        /\ StackMax .. heapEnd - 1 \subseteq LiveCells

-----------------------------------------------------------------------------
(* The inductive invariant: what the phases leave alone, the survivors     *)
(* being closed under reference, and the shape of the two maps.            *)

PhaseInv ==
    /\ phase # "idle" => gcForce
    /\ ~Marking => arrStack = {}
    /\ Marking => /\ snap = Snapshot
                  /\ cellMap \in [Cell -> {0, 1}]
                  /\ arrMap \in [0 .. arrLen - 1 -> {0, 1}]
                  /\ scan = 0 /\ mapLen = 0
    /\ Moving => status = "run" /\ envs = snap.envs
    /\ phase \in {"moveCells", "moveArrays"} => arrLen = snap.arrLen
    /\ phase = "moveCells" => scan <= CellLen
    /\ phase = "moveArrays" => scan <= arrLen

\* Whatever a survivor or a root refers to survives.
KeptClosed ==
    Moving =>
        /\ \A e \in DOMAIN envs : envs[e].array < snap.arrLen /\ KeptArray(envs[e].array)
        /\ \A c \in Cell : (/\ c < top \/ c >= StackMax
                            /\ Kept(c)
                            /\ snap.cells[c].ty = "array") =>
              snap.cells[c].val < snap.arrLen /\ KeptArray(snap.cells[c].val)
        /\ \A a \in 0 .. snap.arrLen - 1 : KeptArray(a) =>
              \A c \in Elements(snap.arr[a]) : Kept(c)

\* The survivors are in every set that is closed under reference in the memory as the
\* collection found it.
SnapHeld(arrays) == RootCells \union UNION {Elements(snap.arr[a]) : a \in arrays}
SnapClosed(arrays) ==
    /\ \A e \in DOMAIN snap.envs : snap.envs[e].array \in arrays
    /\ \A c \in SnapHeld(arrays) : snap.cells[c].ty = "array" => snap.cells[c].val \in arrays

KeptLive ==
    Moving =>
        \A arrays \in SUBSET (0 .. snap.arrLen - 1) : SnapClosed(arrays) =>
            /\ \A a \in 0 .. snap.arrLen - 1 : KeptArray(a) => a \in arrays
            /\ \A c \in StackMax .. CellLen - 1 : Kept(c) => c \in SnapHeld(arrays)

\* The map of the cells fixes the stack, sends the survivors among the first
\* MovedCells cells onto the first NextCell ones, and keeps neighbours together.
CellMapInv ==
    Moving =>
        /\ NextCell <= MovedCells
        /\ MovedCells <= StackMax => NextCell = MovedCells
        /\ MovedCells >= StackMax => NextCell >= StackMax
        /\ \A c \in MovedCells .. CellLen - 1 : cellMap[c] \in {0, 1}
        /\ \A c \in 0 .. MovedCells - 1 : Kept(c) => cellMap[c] < NextCell
        /\ \A c \in 0 .. MovedCells - 1 : c < StackMax => cellMap[c] = c
        /\ \A c \in 0 .. MovedCells - 1 : (c >= StackMax /\ Kept(c)) => cellMap[c] >= StackMax
        /\ (MovedCells > 0 /\ Kept(MovedCells - 1)) => NextCell = cellMap[MovedCells - 1] + 1
        /\ \A i, j \in 0 .. MovedCells - 1 :
              (i <= j /\ \A c \in i .. j : Kept(c)) => cellMap[j] = cellMap[i] + (j - i)
        /\ \A x \in 0 .. NextCell - 1 :
              \E c \in 0 .. MovedCells - 1 : Kept(c) /\ cellMap[c] = x

ArrMapInv ==
    Moving =>
        /\ NextArray <= MovedArrays
        /\ \A a \in MovedArrays .. snap.arrLen - 1 : arrMap[a] \in {0, 1}
        /\ \A a \in 0 .. MovedArrays - 1 : KeptArray(a) => arrMap[a] < NextArray
        /\ \A x \in 0 .. NextArray - 1 :
              \E a \in 0 .. MovedArrays - 1 : KeptArray(a) /\ arrMap[a] = x

GcInv ==
    /\ GcTypeOK
    /\ PhaseInv
    /\ MarkInvariant
    /\ KeptClosed
    /\ CellMapInv
    /\ ArrMapInv
    /\ MoveSafe
    /\ ContentsKept

-----------------------------------------------------------------------------
(* What the code's comments, assertions and README promise, and the code   *)
(* does not keep.                                                          *)

\* The range of an array is "the range of the cell list that the elements of
\* this array occupy": no two arrays share a cell.
RangesDisjoint ==
    (phase = "idle" /\ status = "run") =>
        \A a, b \in DOMAIN arr : a # b =>
            (arr[a].l .. arr[a].r - 1) \intersect (arr[b].l .. arr[b].r - 1) = {}

\* "Every place where an old index is written is rewritten to the new one", so a
\* reference on the stack to a cell that survives the collection follows the cell.
CellReferencesFollow ==
    phase = "done" =>
        \A c \in RootCells :
            LET old == snap.cells[c].val IN
            (snap.cells[c].ty = "cell" /\ cellMap[old] >= 0) => cells[c].val = cellMap[old]

\* "An object that a live object refers to is live": the arrays of the keys and
\* the values of a live map are marked.
MapArraysLive ==
    (phase = "moveCells" /\ scan = 0) =>
        \A c \in Cell : (Marked(c) /\ cells[c].ty = "map") =>
            {maps[cells[c].val].keys, maps[cells[c].val].vals} \subseteq MarkedArrays

-----------------------------------------------------------------------------
(* The end of a collection.                                                *)

PhasesLeft == [cells |-> 5, arrays |-> 5, moveCells |-> 4, moveArrays |-> 3,
               rewrite |-> 2, done |-> 1, idle |-> 0][phase]

\* What the mark loops may still pop: an object is pushed when it is marked, and only
\* then.
Unmarked(map) == {x \in DOMAIN map : map[x] = 0}
Visits == Cardinality(Unmarked(cellMap)) + Cardinality(cellStack)
          + Cardinality(Unmarked(arrMap)) + Cardinality(arrStack)

\* A bound on the turns of the loops that the phase still has.  A visit may cost
\* another round.
TurnsLeft ==
    IF Marking
    THEN 3 * Visits + (IF phase = "cells" THEN 1 ELSE 0) + (IF stuck THEN 0 ELSE 2)
    ELSE IF phase = "moveCells" THEN CellLen - scan
    ELSE IF phase = "moveArrays" THEN arrLen - scan
    ELSE 0

\* Every step of gc_run brings its end nearer: the repeated rounds of the mark
\* loops, whose number is not known beforehand, cannot go on for ever, whatever refers
\* to whatever.
GcProgress ==
    [][phase # "idle" =>
           \/ PhasesLeft' < PhasesLeft
           \/ PhasesLeft' = PhasesLeft /\ TurnsLeft' \in 0 .. TurnsLeft - 1]_vars

\* Every collection ends, and the program goes on.
GcTerminates == (phase # "idle") ~> (phase = "idle" \/ status # "run")
=============================================================================
