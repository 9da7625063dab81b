----------------------------- MODULE NegiSyntax -----------------------------
(***************************************************************************)
(* The abstract syntax of the C implementation (src/c/negi_lang.c): what   *)
(* the parser builds, the code generator reads and NegiMeaning gives a     *)
(* meaning to.                                                             *)
(*                                                                         *)
(* A node of the code is a record in a list that names its parts by their  *)
(* numbers; here a node holds its parts.  The position in the source, only *)
(* used in error messages, is left out.  Names are strings, the contents   *)
(* of a string literal is a sequence of characters, and a character is its *)
(* code.                                                                   *)
(***************************************************************************)
EXTENDS Integers, Sequences

IntLit(n) == [kind |-> "int", val |-> n]
StrLit(s) == [kind |-> "str", text |-> s]
Ident(name) == [kind |-> "ident", name |-> name]
ErrNode(message) == [kind |-> "err", name |-> message]
Array(items) == [kind |-> "array", subs |-> items]
Call(f, args) == [kind |-> "call", l |-> f, subs |-> args]
Fun(params, body) == [kind |-> "fun", l |-> body, subs |-> params]
Bin(op, l, r) == [kind |-> "op", op |-> op, l |-> l, r |-> r]
Let(name, init) == [kind |-> "let", name |-> name, l |-> init]
If(cond, then, else) == [kind |-> "if", cond |-> cond, l |-> then, r |-> else]
While(cond, body) == [kind |-> "while", cond |-> cond, l |-> body]
Break == [kind |-> "break"]
ReturnOf(e) == [kind |-> "return", l |-> e]

Null == IntLit(0)

SetOps == {"set_add", "set_sub", "set_mul", "set_div", "set_mod"}

\* The operator that a compound assignment applies.
OpOfSetOp == [set_add |-> "add", set_sub |-> "sub", set_mul |-> "mul",
              set_div |-> "div", set_mod |-> "mod"]

\* A block, in braces: what its statements compute is thrown away.
Block(e) == Bin("semi", e, Null)
---------------------------------------------------------------------------
(* The trees up to a depth.                                                *)

Ops == {"semi", "set", "log_or", "log_and", "eq", "ne", "lt", "le", "gt", "ge", "add", "sub",
        "mul", "div", "mod", "index"} \cup SetOps

\* Where a node stands: in a function or the main program, in the loop of one, among
\* the operands of either, in a function that is itself in a loop; free is anywhere.
Surroundings == {"free", "main", "loop", "function", "operand", "inner", "apart"}

\* Where its parts stand: what is computed while other operands wait, the body of a
\* function, the condition and the body of a loop.
AsOperand == [free |-> "free", main |-> "operand", loop |-> "apart", function |-> "apart",
              operand |-> "operand", inner |-> "apart", apart |-> "apart"]
AsBody == [free |-> "free", main |-> "main", loop |-> "function", function |-> "function",
           operand |-> "main", inner |-> "function", apart |-> "function"]
AsLoop == [free |-> "free", main |-> "loop", loop |-> "loop", function |-> "loop",
           operand |-> "inner", inner |-> "inner", apart |-> "inner"]

\* A return must leave no operands behind, and a break none, nor a function.  Outside
\* all loops a break is an error, which may stand anywhere.
ReturnContexts == {"free", "main", "loop", "function"}
BreakContexts == {"free", "main", "loop", "operand", "inner"}

\* The nodes with parts in T.
Nodes(T, c) ==
    LET same == T[c]
        operand == T[AsOperand[c]]
    IN [kind : {"int"}, val : Int] \cup [kind : {"str"}, text : Seq(Int)]
       \cup [kind : {"ident", "err"}, name : STRING]
       \cup [kind : {"array"}, subs : Seq(operand)]
       \cup [kind : {"call"}, l : same, subs : Seq(operand)]
       \cup [kind : {"fun"}, l : T[AsBody[c]], subs : Seq(operand)]
       \cup [kind : {"op"}, op : Ops, l : same, r : operand]
       \cup [kind : {"op"}, op : {"semi", "log_or", "log_and"}, l : same, r : same]
       \cup [kind : {"let"}, name : STRING, l : same]
       \cup [kind : {"if"}, cond : same, l : same, r : same]
       \cup [kind : {"while"}, cond : T[AsLoop[c]], l : T[AsLoop[c]]]
       \cup [kind : IF c \in BreakContexts THEN {"break"} ELSE {}]
       \cup [kind : IF c \in ReturnContexts THEN {"return"} ELSE {}, l : same]

Level(T) ==
    [free |-> Nodes(T, "free"), main |-> Nodes(T, "main"), loop |-> Nodes(T, "loop"),
     function |-> Nodes(T, "function"), operand |-> Nodes(T, "operand"),
     inner |-> Nodes(T, "inner"), apart |-> Nodes(T, "apart")]

NoTrees == [c \in Surroundings |-> {}]

Trees[n \in Nat] == Level(IF n = 0 THEN NoTrees ELSE Trees[n - 1])
=============================================================================
