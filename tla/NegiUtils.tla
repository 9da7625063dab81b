------------------------------ MODULE NegiUtils ------------------------------
(***************************************************************************)
(* The vectors, the strings and the string builder of the C implementation *)
(* (src/c/utils.c), in which every stage keeps what it makes.              *)
(*                                                                         *)
(* A block of memory is a sequence: mem_alloc fills it with zeroes, and    *)
(* nothing is ever given back.  A string in memory ends at its first Nul,  *)
(* whatever the size of its block.  The capacity of a vector is the size   *)
(* of its block, that of a builder one less.  A failed assertion is not    *)
(* an outcome here: see VecOK and SbOK.                                    *)
(***************************************************************************)
EXTENDS Integers, Sequences

Nul == "nul"

MemAlloc(count, zero) == [i \in 1 .. count |-> zero]

---------------------------------------------------------------------------
(* Vectors.                                                                *)

Zero == [kind |-> "zero"]  \* an element of a new block

VecNew == [data |-> << >>, len |-> 0]
Capacity(vec) == Len(vec.data)
Elements(vec) == SubSeq(vec.data, 1, vec.len)

\* The elements in use are copied to a larger block, if one is needed.
MemReserve(data, count, capacity) ==
    IF Len(data) >= capacity THEN data
    ELSE [i \in 1 .. capacity |-> IF i <= count THEN data[i] ELSE Zero]

VecGrow(vec, count) ==
    IF vec.len + count <= Capacity(vec) THEN vec
    ELSE [vec EXCEPT !.data = MemReserve(@, vec.len, 2 * Capacity(vec) + count)]

\* Every list adds an element in the same way.
VecPush(vec, element) ==
    [data |-> [VecGrow(vec, 1).data EXCEPT ![vec.len + 1] = element], len |-> vec.len + 1]

\* The assertions at the beginning and at the end of vec_grow, for one more element.
VecOK(vec) == vec.len <= Capacity(vec) /\ vec.len + 1 <= Capacity(VecGrow(vec, 1))

---------------------------------------------------------------------------
(* Strings.                                                                *)

\* strlen, and the string that a block holds.
StrLen(block) == (CHOOSE i \in 1 .. Len(block) :
                      block[i] = Nul /\ \A j \in 1 .. i - 1 : block[j] # Nul) - 1
Content(block) == SubSeq(block, 1, StrLen(block))

\* string_slice: places count from 0.
Slice(str, l, r) == SubSeq(str, l + 1, r)

\* strcpy to a place in a block, with the Nul.
Copied(block, at, str) ==
    [i \in DOMAIN block |-> IF i - at \in DOMAIN str THEN str[i - at]
                            ELSE IF i = at + Len(str) + 1 THEN Nul ELSE block[i]]

---------------------------------------------------------------------------
(* The string builder.                                                     *)

SbNew == [data |-> <<Nul>>, size |-> 0]
SbCapacity(sb) == Len(sb.data) - 1

SbReserve(sb, capacity) ==
    IF SbCapacity(sb) >= capacity THEN sb
    ELSE [sb EXCEPT !.data = Copied(MemAlloc(capacity + 1, Nul), 0, Content(@))]

\* Mutant: the size is not moved on.
SbAppendOver(sb, str) ==
    LET size == sb.size + Len(str)
        larger == SbReserve(sb, size + SbCapacity(sb))
        room == IF size > SbCapacity(sb) THEN larger ELSE sb
    IN IF str = << >> THEN sb ELSE [room EXCEPT !.data = Copied(@, sb.size, str)]

SbAppend(sb, str) ==
    LET size == sb.size + Len(str)
        larger == SbReserve(sb, size + SbCapacity(sb))
        room == IF size > SbCapacity(sb) THEN larger ELSE sb
    IN IF str = << >> THEN sb
       ELSE [room EXCEPT !.data = Copied(@, sb.size, str), !.size = size]

\* The assertion of sb_append, and that the size is the length of what is held.
SbOK(sb) == sb.size <= SbCapacity(sb) /\ StrLen(sb.data) = sb.size
=============================================================================
