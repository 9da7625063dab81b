------------------------------ MODULE NegiHeap ------------------------------
(***************************************************************************)
(* The memory of the HSP evaluator (src/negi_lang.hsp) and the evaluator   *)
(* commands that change it.                                                *)
(*                                                                         *)
(* All values live in one list of cells: indices below StackMax are the    *)
(* operand stack, the rest is the heap, from which arrays take contiguous  *)
(* ranges.  An array is a record in the array list (its length and its     *)
(* range of cells); an environment is an array holding the locals of a     *)
(* call; a frame names the environment of a running call.                  *)
(*                                                                         *)
(* The command stream is left open: in every state any command may be      *)
(* next, so a behaviour is a run of some program.  A command waits while   *)
(* gcForce is up, because the main loop collects first (module NegiGc).    *)
(*                                                                         *)
(* Abstractions.  Integers, strings, extern functions are values that      *)
(* refer to nothing and are all written "int".  A closure is the           *)
(* environment it captured; the length of its scope is chosen at the call. *)
(* Environments, frames and maps are numbered from 1 (the code counts from *)
(* 0 and writes "none" as -1).  A popped stack cell is cleared, since      *)
(* nothing reads a stack cell at or above the top.  A behaviour is         *)
(* followed up to the first error the program reports (eval_abort): what   *)
(* the evaluator still does after that is out of this module.              *)
(***************************************************************************)
EXTENDS Integers, Sequences

CONSTANTS StackMax,     \* stack_len_min: the number of stack cells
          CellLen,      \* s_cell_len: the number of cells, stack and heap
          GcThreshold,  \* s_gc_threshold
          Ints,         \* the integers a program pushes
          Caps,         \* the lengths of the array literals of the program
          LocalLens,    \* the lengths of the scopes of the program's functions
          GlobalLen,    \* the length of the scope of the main function
          MaxArgs,      \* the largest number of arguments of a call
          MaxArray,     \* bound on the length of the array list
          MaxEnv,       \* bound on the number of environments
          MaxMap        \* bound on the number of maps

ASSUME StackAssumption == StackMax \in Nat /\ CellLen \in Nat /\ StackMax <= CellLen

ASSUME DataAssumption ==
    /\ GcThreshold \in Nat /\ GlobalLen \in Nat /\ StackMax + GlobalLen <= CellLen
    /\ Ints \subseteq Nat /\ Caps \subseteq Nat /\ LocalLens \subseteq Nat
    /\ MaxArgs \in Nat /\ MaxArray \in Nat /\ MaxEnv \in Nat /\ MaxMap \in Nat

VARIABLES cells,    \* s_cell_tys, s_cell_vals
          top,      \* s_cell_i_stack_end
          heapEnd,  \* s_cell_i_heap_end
          arr,      \* s_array_lens, s_array_cell_ls, s_array_cell_rs
          arrLen,   \* s_array_len
          envs,     \* s_env_parents, s_env_array_is
          frames,   \* s_frame_env_is
          maps,     \* s_map_keys_is, s_map_vals_is
          gcForce,  \* s_gc_force
          status    \* "run", or how the evaluation ended

heapVars == <<cells, top, heapEnd, arr, arrLen, envs, frames, maps, gcForce, status>>

Cell == 0 .. CellLen - 1
Ty == {"int", "array", "cell", "closure", "map"}
Value == [ty : Ty, val : Nat]

\* The elements of an array are a prefix of its range, which is in the heap.
ArrayRec == {a \in [len : Nat, l : Nat, r : Nat] :
                 StackMax <= a.l /\ a.l + a.len <= a.r /\ a.r <= CellLen}

EnvRec == [parent : Nat, array : Nat]
MapRec == [keys : Nat, vals : Nat]

\* "exited": the exit command; "aborted": an error was reported, eval_abort;
\* "overflow", "badIndex", "failed": the HSP runtime stops the program, in
\* unbounded recursion, at an index outside a list, at an assert.
Status == {"run", "exited", "aborted", "overflow", "badIndex", "failed"}

TypeOK ==
    /\ cells \in [Cell -> Value]
    /\ top \in 0 .. StackMax
    /\ heapEnd \in StackMax .. CellLen
    /\ arrLen \in Nat
    /\ arr \in [0 .. arrLen - 1 -> ArrayRec]
    /\ envs \in Seq(EnvRec)
    /\ frames \in Seq(1 .. Len(envs)) /\ frames # << >>
    /\ maps \in Seq(MapRec)
    /\ gcForce \in BOOLEAN
    /\ status \in Status

IntVal(n) == [ty |-> "int", val |-> n]
Ref(t, i) == [ty |-> t, val |-> i]
Zero == IntVal(0)

-----------------------------------------------------------------------------
(* Operations on the memory, as functions from memory to memory, so that a *)
(* command can apply several of them in a row.                             *)

mem == [cells |-> cells, top |-> top, heapEnd |-> heapEnd, arr |-> arr,
        arrLen |-> arrLen, force |-> gcForce, status |-> status]

Become(m) ==
    /\ cells' = m.cells   /\ top' = m.top       /\ heapEnd' = m.heapEnd
    /\ arr' = m.arr       /\ arrLen' = m.arrLen /\ gcForce' = m.force
    /\ status' = m.status

Stop(m, why) == IF m.status = "run" THEN [m EXCEPT !.status = why] ELSE m

\* Overflowing the stack calls eval_abort, which pushes the exit code, which
\* overflows the stack ...
Push(m, v) ==
    IF m.top >= StackMax
    THEN Stop(m, "overflow")
    ELSE [m EXCEPT !.cells = [@ EXCEPT ![m.top] = v], !.top = @ + 1]

Drop(m, n) ==
    [m EXCEPT !.cells = [i \in Cell |-> IF i \in m.top - n .. m.top - 1 THEN Zero ELSE @[i]],
              !.top = @ - n]

Set(m, i, v) == [m EXCEPT !.cells = [@ EXCEPT ![i] = v]]

\* The HSP runtime checks the index.
Load(m, i) == IF i \notin Cell THEN Stop(m, "badIndex") ELSE Push(m, m.cells[i])

\* Mutant: the last allocation may go one cell past the end.
AllocOnePast(m, count) ==
    IF m.heapEnd + count > CellLen + 1
    THEN Stop(m, "aborted")
    ELSE [m EXCEPT !.heapEnd = @ + count,
                   !.force = @ \/ CellLen - (m.heapEnd + count) <= GcThreshold]

Alloc(m, count) ==
    IF m.heapEnd + count > CellLen
    THEN Stop(m, "aborted")
    ELSE [m EXCEPT !.heapEnd = @ + count,
                   !.force = @ \/ CellLen - (m.heapEnd + count) <= GcThreshold]

\* The new array has number m.arrLen.
ArrayAdd(m, len, capacity) ==
    LET h == Alloc(m, capacity)
        a == [len |-> len, l |-> m.heapEnd, r |-> m.heapEnd + capacity]
    IN IF h.status # "run" THEN h
       ELSE [h EXCEPT !.arr = [i \in 0 .. m.arrLen |-> IF i = m.arrLen THEN a ELSE m.arr[i]],
                      !.arrLen = @ + 1]

Capacity(a) == a.r - a.l

\* The range of an array moves to a fresh one when newLen does not fit.  The cells are
\* copied one by one from the left: an array that reaches into its new range (which a
\* collection can bring about) is read again from its beginning, where the copy is.
ArrayReserve(m, i, newLen) ==
    LET a == m.arr[i]
        n == newLen + newLen \div 2
        h == Alloc(m, n)
        ahead == m.heapEnd - a.l
        from(c) == a.l + (IF ahead > 0 THEN (c - m.heapEnd) % ahead ELSE c - m.heapEnd)
    IN IF newLen <= Capacity(a) THEN m
       ELSE IF h.status # "run" THEN h
       ELSE [h EXCEPT !.arr = [@ EXCEPT ![i] =
                          [len |-> a.len, l |-> m.heapEnd, r |-> m.heapEnd + n]],
                      !.cells = [c \in Cell |->
                          IF c \in m.heapEnd .. m.heapEnd + a.len - 1
                          THEN @[from(c)] ELSE @[c]]]

ArrayPush(m, i, v) ==
    LET h == ArrayReserve(m, i, m.arr[i].len + 1)
        a == h.arr[i]
    IN IF h.status # "run" THEN h
       ELSE [Set(h, a.l + a.len, v) EXCEPT !.arr = [@ EXCEPT ![i] = [a EXCEPT !.len = @ + 1]]]

InArray(m, i, index) == index \in 0 .. m.arr[i].len - 1

-----------------------------------------------------------------------------
(* The commands of eval_main.                                              *)

Running == status = "run" /\ ~gcForce

\* The i-th value from the top of the stack, the top one being 1.
Arg(i) == cells[top - i]

RuntimeKeeps == UNCHANGED <<envs, frames, maps>>

PushInt == \E n \in Ints :
    Running /\ Become(Push(mem, IntVal(n))) /\ RuntimeKeeps

Env == frames[Len(frames)]

PushClosure == Running /\ Become(Push(mem, Ref("closure", Env))) /\ RuntimeKeeps

PushArray == \E capacity \in Caps :
    /\ Running /\ arrLen < MaxArray
    /\ Become(Push(ArrayAdd(mem, 0, capacity), Ref("array", arrLen)))
    /\ RuntimeKeeps

\* A map is two fresh empty arrays, of its keys and of its values.
PushMap ==
    /\ Running /\ arrLen + 2 <= MaxArray /\ Len(maps) < MaxMap
    /\ Become(Push(ArrayAdd(ArrayAdd(mem, 0, 0), 0, 0), Ref("map", Len(maps) + 1)))
    /\ maps' = Append(maps, [keys |-> arrLen, vals |-> arrLen + 1])
    /\ UNCHANGED <<envs, frames>>

\* The environments a local variable of the running function may be in: its
\* own and those of the functions around it.
Chain == LET chain[e \in 0 .. Len(envs)] ==
                 IF e = 0 THEN {} ELSE {e} \union
                     (IF envs[e].parent < e THEN chain[envs[e].parent] ELSE {})
         IN chain[Env]

LocalVar == \E e \in 1 .. Len(envs), index \in 0 .. CellLen :
    LET i == envs[e].array IN
    /\ Running /\ e \in Chain /\ i < arrLen /\ InArray(mem, i, index)
    /\ Become(Push(mem, Ref("cell", arr[i].l + index)))
    /\ RuntimeKeeps

CellGet ==
    /\ Running /\ top >= 1
    /\ LET m == Drop(mem, 1) IN
       Become(IF Arg(1).ty # "cell" THEN Stop(m, "aborted") ELSE Load(m, Arg(1).val))
    /\ RuntimeKeeps

CellSet ==
    /\ Running /\ top >= 2
    /\ LET m == Drop(mem, 2) IN
       Become(IF Arg(2).ty # "cell" THEN Stop(m, "aborted")
              ELSE IF Arg(2).val \notin Cell THEN Stop(m, "badIndex")
              ELSE Push(Set(m, Arg(2).val, Arg(1)), Arg(1)))
    /\ RuntimeKeeps

Pop == Running /\ top >= 1 /\ Become(Drop(mem, 1)) /\ RuntimeKeeps

Dup == Running /\ top >= 1 /\ Become(Push(mem, Arg(1))) /\ RuntimeKeeps

Swap ==
    /\ Running /\ top >= 2
    /\ Become(Push(Push(Drop(mem, 2), Arg(1)), Arg(2)))
    /\ RuntimeKeeps

\* op_array_push, which builds array literals: the array stays on the stack.
OpArrayPush ==
    /\ Running /\ top >= 2
    /\ LET m == Drop(mem, 2)
           a == Arg(2) IN
       Become(IF a.ty # "array" THEN Stop(m, "failed")
              ELSE IF a.val >= arrLen THEN Stop(m, "badIndex")
              ELSE Push(ArrayPush(m, a.val, Arg(1)), a))
    /\ RuntimeKeeps

\* The cell a map keeps for a key, added with the value 0 when it is missing.
KeyAt(m, ks, key) == {j \in 0 .. m.arr[ks].len - 1 : m.cells[m.arr[ks].l + j] = key}

MapRef(m, i, key) ==
    LET ks == maps[i].keys
        vs == maps[i].vals
        found == KeyAt(m, ks, key)
        grown == ArrayPush(ArrayPush(m, ks, key), vs, Zero)
    IN IF i \notin 1 .. Len(maps) THEN [mem |-> Stop(m, "failed"), cell |-> 0]
       ELSE IF ks >= m.arrLen \/ vs >= m.arrLen
       THEN [mem |-> Stop(m, "badIndex"), cell |-> 0]
       ELSE IF m.arr[ks].len # m.arr[vs].len THEN [mem |-> Stop(m, "failed"), cell |-> 0]
       ELSE IF found # {}
       THEN [mem |-> m, cell |-> m.arr[vs].l + (CHOOSE j \in found : \A k \in found : j <= k)]
       ELSE [mem |-> grown, cell |-> grown.arr[vs].l + m.arr[vs].len]

\* array_ref, map_ref: the cell of an element, and what looking it up does.
ElementRef(m, a, i) ==
    IF a.ty = "map" /\ i.ty = "int" THEN MapRef(m, a.val, i)
    ELSE IF a.ty # "array" \/ i.ty # "int" THEN [mem |-> Stop(m, "aborted"), cell |-> 0]
    ELSE IF a.val >= m.arrLen THEN [mem |-> Stop(m, "failed"), cell |-> 0]
    ELSE IF ~InArray(m, a.val, i.val) THEN [mem |-> Stop(m, "aborted"), cell |-> 0]
    ELSE [mem |-> m, cell |-> m.arr[a.val].l + i.val]

\* op_index_ref, the left-hand side of an assignment to an element.
OpIndexRef ==
    /\ Running /\ top >= 2
    /\ LET r == ElementRef(Drop(mem, 2), Arg(2), Arg(1)) IN
       Become(IF r.mem.status # "run" THEN r.mem ELSE Push(r.mem, Ref("cell", r.cell)))
    /\ RuntimeKeeps

\* op_index, an element as a value.
OpIndex ==
    /\ Running /\ top >= 2
    /\ LET r == ElementRef(Drop(mem, 2), Arg(2), Arg(1)) IN
       Become(IF r.mem.status # "run" THEN r.mem ELSE Load(r.mem, r.cell))
    /\ RuntimeKeeps

\* Comparison, arithmetic, concatenation, and op_index of a string: the result
\* refers to nothing, or the types do not fit.
OpBinary == \E n \in Ints :
    /\ Running /\ top >= 2
    /\ \/ Become(Push(Drop(mem, 2), IntVal(n)))
       \/ Become(Stop(Drop(mem, 2), "aborted"))
    /\ RuntimeKeeps

JumpUnless ==
    /\ Running /\ top >= 1
    /\ Become(IF Arg(1).ty = "int" THEN Drop(mem, 1) ELSE Stop(Drop(mem, 1), "aborted"))
    /\ RuntimeKeeps

\* The n topmost values, copied to the n cells from heapEnd on.
WithArgs(m, n) ==
    [m EXCEPT !.cells = [c \in Cell |-> IF c \in heapEnd .. heapEnd + n - 1
                                        THEN cells[top - n + (c - heapEnd)] ELSE @[c]]]

\* Calling a closure: its locals are a fresh array that receives the arguments.
CallClosure == \E n \in 0 .. MaxArgs, locals \in LocalLens :
    /\ Running /\ n + 1 <= top /\ arrLen < MaxArray /\ Len(envs) < MaxEnv
    /\ LET f == Arg(n + 1)
           m == ArrayAdd(Drop(mem, n + 1), locals, locals) IN
       /\ f.ty = "closure"
       /\ Become(IF m.status # "run" THEN m
                 ELSE IF n > locals THEN Stop(m, "aborted")
                 ELSE WithArgs(m, n))
       /\ envs' = Append(envs, [parent |-> f.val, array |-> arrLen])
       /\ frames' = Append(frames, Len(envs) + 1)
       /\ UNCHANGED maps

\* Calling an extern function: an array for the n arguments, a cell for the
\* result.  This one returns a value that refers to nothing, or fails; calling
\* what is no function fails too.  Not among them is __dev_heap_make_tiny, which a
\* test calls to change CellLen and GcThreshold: they are constants here.
CallExtern == \E n \in 0 .. MaxArgs, v \in Ints :
    /\ Running /\ n + 1 <= top /\ arrLen < MaxArray
    /\ Arg(n + 1).ty # "closure"
    /\ LET m == Alloc(ArrayAdd(Drop(mem, n + 1), n, n), 1)
           result == Set(WithArgs(m, n), heapEnd + n, IntVal(v)) IN
       \/ Become(Stop(Drop(mem, n + 1), "aborted"))
       \/ /\ Arg(n + 1).ty = "int"
          /\ Become(IF m.status # "run" THEN m ELSE Push(result, IntVal(v)))
    /\ RuntimeKeeps

\* Calling the extern function array_push, which returns the array.
CallArrayPush ==
    /\ Running /\ top >= 3 /\ arrLen < MaxArray
    /\ Arg(3).ty = "int"
    /\ LET a == Arg(2)
           m == Alloc(ArrayAdd(Drop(mem, 3), 2, 2), 1)
           given == WithArgs(m, 2)
           pushed == ArrayPush(given, a.val, Arg(1))
           result == Set(pushed, heapEnd + 2, a) IN
       Become(IF m.status # "run" THEN m
              ELSE IF a.ty # "array" THEN Stop(given, "aborted")
              ELSE IF a.val >= arrLen THEN Stop(given, "badIndex")
              ELSE IF pushed.status # "run" THEN pushed
              ELSE Push(result, a))
    /\ RuntimeKeeps

Return ==
    /\ Running /\ Len(frames) >= 2
    /\ frames' = SubSeq(frames, 1, Len(frames) - 1)
    /\ UNCHANGED <<cells, top, heapEnd, arr, arrLen, envs, maps, gcForce, status>>

Exit ==
    /\ Running /\ top >= 1 /\ Len(frames) = 1
    /\ Become(Stop(Drop(mem, 1), IF Arg(1).ty = "int" THEN "exited" ELSE "aborted"))
    /\ RuntimeKeeps

\* negi_lang_eval starts with the global environment and its frame.
Init ==
    /\ cells = [c \in Cell |-> Zero]
    /\ top = 0
    /\ heapEnd = StackMax + GlobalLen
    /\ arrLen = 1
    /\ arr = [i \in {0} |-> [len |-> GlobalLen, l |-> StackMax, r |-> StackMax + GlobalLen]]
    /\ envs = <<[parent |-> 0, array |-> 0]>>
    /\ frames = <<1>>
    /\ maps = <<>>
    /\ gcForce = (CellLen - (StackMax + GlobalLen) <= GcThreshold)
    /\ status = "run"

Command ==
    \/ PushInt \/ PushClosure \/ PushArray \/ PushMap
    \/ LocalVar \/ CellGet \/ CellSet \/ Pop \/ Dup \/ Swap
    \/ OpArrayPush \/ OpIndexRef \/ OpIndex \/ OpBinary \/ JumpUnless
    \/ CallClosure \/ CallExtern \/ CallArrayPush \/ Return \/ Exit
=============================================================================
