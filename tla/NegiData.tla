------------------------------ MODULE NegiData ------------------------------
(***************************************************************************)
(* The data area of the C implementation: the string constants and the     *)
(* error messages of a program, one after the other, each followed by an   *)
(* empty line.  The code generator writes it and the machine reads it.  A  *)
(* character is its code; a constant is named by where it begins, counted  *)
(* from 0.                                                                 *)
(***************************************************************************)
EXTENDS Integers, Sequences, FiniteSetsExt

Newline == 10
Separator == <<Newline, Newline>>

Separators(s) == {i \in 1 .. Len(s) - 1 : SubSeq(s, i, i + 1) = Separator}

\* data_new asserts that a constant holds no empty line.
DataOK(s) == Separators(s) = {}

AddedData(data, s) == data \o s \o Separator

\* From a position to the next separator.
DataGet(data, at) == SubSeq(data, at + 1, Min({i \in Separators(data) : i > at}) - 1)
=============================================================================
