------------------------------ MODULE NegiLoop ------------------------------
(***************************************************************************)
(* The loops over lists of the C implementation (for in src/c/negi_lang.c) *)
(* as an operator on functions.                                            *)
(***************************************************************************)
EXTENDS Integers

\* Turn i of n makes step[<<i, x>>] of x.
Repeat(step, n, first) ==
    LET after[i \in 0 .. n] == IF i = 0 THEN first ELSE step[<<i, after[i - 1]>>]
    IN after[n]
=============================================================================
