------------------------------ MODULE NegiStore ------------------------------
(***************************************************************************)
(* What a program of the C implementation may rely on when it uses arrays: *)
(* each is a sequence of its own.  A step makes an array, changes one      *)
(* element of one, adds one at its end or takes it away; a call of a       *)
(* built-in function also makes the array of its arguments.  The variables *)
(* of a function and its arguments are arrays, too.  Where the elements    *)
(* are kept is not said: module NegiVm keeps them in one memory.           *)
(***************************************************************************)
EXTENDS Naturals, Sequences

VARIABLE store  \* the sequence of all arrays

\* What the array is after the step is given by the step.
Same(a) == store'[a] = store[a]
Put(a) == \E i \in DOMAIN store[a] : store'[a] = [store[a] EXCEPT ![i] = store'[a][i]]
Push(a) == /\ Len(store'[a]) = Len(store[a]) + 1
           /\ SubSeq(store'[a], 1, Len(store[a])) = store[a]
Pop(a) == store[a] # << >> /\ store'[a] = SubSeq(store[a], 1, Len(store[a]) - 1)

\* At most one of the arrays that there are changes.
Change(How(_)) ==
    \A a \in DOMAIN store : ~Same(a) =>
        How(a) /\ \A b \in DOMAIN store \ {a} : Same(b)

Set == Len(store') = Len(store) /\ Change(Put)

Extend == Len(store') = Len(store) /\ Change(Push)

\* A new array; a built-in function may then change another.
Make == Len(store') = Len(store) + 1 /\ Change(LAMBDA a : Push(a) \/ Pop(a))

Next == Set \/ Extend \/ Make
=============================================================================
