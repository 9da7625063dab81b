----------------------------- MODULE NegiArrays -----------------------------
(***************************************************************************)
(* The arrays of the machine (heap_alloc, array_add, array_reserve and     *)
(* array_push in src/c/negi_lang.c), which lie side by side in one memory: *)
(* each in the range of cells that it was given, and every variable in     *)
(* one.  What a program sees of them is the array store of NegiStore.      *)
(***************************************************************************)
EXTENDS NegiVm

\* negi_lang_internals.h says that the elements of an array are in its range.
Within(array) == array.len <= array.r - array.l

ElementsInRange == \A a \in DOMAIN ctx.arrays : Within(ctx.arrays[a])

\* Until there is an error, the elements of an array that is within its range are
\* never in the range of another one (heap_alloc, array_reserve): an assignment changes
\* one array.
ArraysApart ==
    ctx.errs = 0 =>
        \A a, b \in DOMAIN ctx.arrays :
            LET l == ctx.arrays[a].l
            IN a # b /\ Within(ctx.arrays[a]) =>
                   (l .. l + ctx.arrays[a].len - 1)
                   \cap (ctx.arrays[b].l .. ctx.arrays[b].r - 1) = {}

\* What the program sees of its arrays is an array store: a command changes one element
\* of one of them, makes one longer or shorter, or makes one, and never touches another
\* (heap_alloc, array_add, array_set, cell_set), until there is an error or an array
\* has grown beyond its range.
Elements(c, a) == [i \in 1 .. c.arrays[a].len |-> c.cells[c.arrays[a].l + i - 1]]
store == [a \in DOMAIN ctx.arrays |-> Elements(ctx, a)]
Store == INSTANCE NegiStore
StoreImplemented == [][ctx'.errs = 0 /\ ElementsInRange' => Store!Next]_ctx
=============================================================================
