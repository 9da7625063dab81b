---------------------------- MODULE NegiPrograms ----------------------------
(***************************************************************************)
(* Families of programs, on which module MCVm runs the code generator and  *)
(* the machine.                                                            *)
(***************************************************************************)
EXTENDS NegiSyntax, SequencesExt

BuiltinNames == <<"val_type", "str_slice", "array_len", "array_push", "array_pop",
                  "assert", "stdin_to_str">>

InputText == <<97, 98>>

IntLimit == 32767

Stmts(ss) == FoldLeft(LAMBDA l, r : Bin("semi", l, r), Head(ss), Tail(ss))

A == Ident("a")
B == Ident("b")
I == Ident("i")
N(n) == IntLit(n)
Minus(n) == Bin("sub", Null, IntLit(n))
F(name, args) == Call(Ident(name), args)
Item(a, i) == Bin("index", a, i)
Digits(l, r) == Bin("add", Bin("mul", l, N(10)), r)

Text(s) == StrLit(s)
Triples(S) == S \X S \X S

\* Every operator on operands of every type.
Operands == {N(0), N(7), Minus(2), Text(<<97>>), Text(<<97, 98>>), Text(<< >>), Array(<<N(1)>>),
             Fun(<< >>, N(1)), Ident("array_len"), Ident("unknown"), ErrNode("syntax")}
Operations == {"eq", "ne", "lt", "le", "gt", "ge", "add", "sub", "mul", "index",
               "log_or", "log_and", "set", "set_add"}
Divisions == {Bin(op, l, r) : op \in {"div", "mod"},
                              l \in {N(7), N(6), Minus(7), Text(<<97>>)}, r \in {N(2), Minus(2), N(3)}}
Simple == {Bin(op, l, r) : op \in Operations, l \in Operands, r \in Operands} \cup Divisions

\* An assignment to an item of what is no array is another matter: see Misused.
InRange(e) == /\ e.kind = "op" /\ e.op = "index" /\ e.l.kind = "array" => e.r = N(0)
Expressions ==
    {e \in Simple : InRange(e)}
    \cup {Bin("eq", e, Text(<<97, 97, 98>>)) : e \in {Bin("add", Text(<<97>>), Text(<<97, 98>>))}}
    \cup {If(c, N(1), N(2)) : c \in Operands} \cup {Call(e, << >>) : e \in Operands}
    \cup {Bin(op, Bin(op2, N(1), x), y) : op \in {"log_or", "log_and", "sub"},
                                          op2 \in {"lt", "sub", "log_and"},
                                          x \in {N(0), N(2)}, y \in {N(0), N(3)}}

\* Every sequence of three statements, twice around a loop.
Body == {Bin("set", A, Bin("add", A, B)), Bin("set_mul", B, N(2)), Break, ReturnOf(A),
         If(Bin("lt", A, N(2)), Block(Bin("set", B, A)), Block(Break)),
         While(Bin("lt", A, B), Block(Stmts(<<Bin("set_add", A, N(1)),
                                                If(Bin("ge", A, N(2)), Block(Break), Null)>>))),
         Bin("set", B, Text(<<97>>)), If(B, Block(ReturnOf(Text(<<98>>))), Null)}

Statements ==
    {Stmts(<<Let("a", N(0)), Let("b", N(1)), Let("i", N(0)),
             While(Bin("lt", I, N(2)),
                   Block(Stmts(<<Bin("set_add", I, N(1)), s[1], s[2], s[3]>>))),
             Digits(Digits(I, A), B)>>) : s \in Triples(Body)}
    \cup Body \cup {Stmts(<<Let("a", N(3)), s>>) : s \in Body}

\* Functions that share variables: f changes what it finds around it, and returns
\* another function or a number.
Inner == {Fun(<<Ident("y")>>, Block(Stmts(<<s, ReturnOf(Ident("x"))>>))) :
             s \in {Bin("set_add", Ident("x"), Ident("y")), Bin("set", A, Ident("y")),
                    Bin("set_add", A, Ident("x")), If(Ident("y"), Block(ReturnOf(A)), Null)}}
Bodies == {Stmts(<<s, ReturnOf(g)>>) :
              s \in {Bin("set_add", A, Ident("x")), Let("a", Ident("x"))}, g \in Inner}

Calls == {Stmts(<<Bin("set", B, Call(Ident("g"), <<N(2)>>)), Digits(A, B)>>),
          Digits(Call(Ident("g"), <<A>>), Call(Ident("h"), <<N(1)>>)),
          Bin("set_add", A, Call(Ident("g"), <<Call(Ident("h"), <<N(2)>>)>>)),
          Stmts(<<Bin("set", Ident("g"), Ident("h")),
                  Digits(Call(Ident("h"), <<N(4)>>), Call(Ident("g"), <<N(0)>>))>>),
          Call(Ident("g"), <<Array(<<B>>)>>), Call(Call(Ident("f"), <<B>>), <<B>>)}

\* A function finds itself through a variable that is declared before it.
Recursive ==
    Stmts(<<Let("f", N(0)),
            Bin("set", Ident("f"),
                Fun(<<Ident("x")>>,
                    If(Bin("lt", Ident("x"), N(1)), N(0),
                       Bin("add", F("f", <<Bin("sub", Ident("x"), N(1))>>), Ident("x"))))),
            Call(Ident("f"), <<N(3)>>)>>)

Functions ==
    {Stmts(<<Let("a", N(1)), Let("b", N(3)), Let("f", Fun(<<Ident("x")>>, Block(body))),
             Let("g", Call(Ident("f"), <<N(5)>>)), Let("h", Call(Ident("f"), <<N(7)>>)), call>>) :
        body \in Bodies, call \in Calls}
    \cup {Recursive}

\* Arrays that two variables share, and the built-in functions.
ArrayStmts == {Bin("set", Item(A, N(0)), Item(B, N(1))), Bin("set_add", Item(A, N(1)), Item(A, N(0))),
               F("array_pop", <<A>>), Bin("set", A, Array(<<Item(A, N(0)), F("array_len", <<B>>), N(2)>>)),
               Bin("set", B, A), Bin("set", Item(B, N(0)), A),
               Stmts(<<F("array_pop", <<B>>), F("array_push", <<B, N(8)>>)>>),
               F("assert", <<Bin("eq", Item(A, N(0)), N(1))>>)}

\* A program that reads an element that is gone is another matter: see OutOfRange.
Arrays ==
    {Stmts(<<Let("a", Array(<<N(1), N(2), N(6), N(9)>>)), Let("b", x), s[1], s[2], s[3],
             Digits(Digits(F("array_len", <<A>>), Item(A, N(0))),
                    F("val_type", <<Item(B, N(0))>>))>>) :
        x \in {A, Array(<<N(3), N(4), N(5), N(7)>>)}, s \in Triples(ArrayStmts)}

Slices == {Bin("eq", F("str_slice", <<F("stdin_to_str", << >>), l, r>>), Text(t)) :
              l \in {N(0), N(1), Minus(1)}, r \in {N(1), N(2), N(9)},
              t \in {<<97>>, <<98>>, <<97, 98>>}}

Misapplied == {F(BuiltinNames[f], args) : f \in DOMAIN BuiltinNames,
                   args \in {<< >>, <<N(1)>>, <<N(0)>>, <<Array(<< >>)>>, <<N(1), N(2)>>,
                             <<Text(<<97>>), N(0), Array(<< >>)>>}}

BuiltinCalls == Slices \cup Misapplied

\* The ends of the ints, and programs that come to what is undefined.
Least == Bin("sub", Minus(IntLimit), N(1))
Limits ==
    {Bin(op, l, r) : op \in {"add", "sub", "mul", "div", "mod"},
                     l \in {N(IntLimit), Least, N(6)}, r \in {N(0), N(1), Minus(1), Least}}
    \cup {F("str_slice", <<Text(<<97, 98>>), N(l), N(r)>>) : l \in {1, 2, 3}, r \in {0, 1, 3}}
    \cup {Stmts(<<Let("f", Fun(<<Ident("x"), Ident("y")>>, e)), F("f", args)>>) :
              e \in {N(1), Ident("x"), Bin("add", Ident("x"), Ident("y"))},
              args \in {<< >>, <<N(1)>>, <<N(1), N(2)>>}}

\* Programs that need little memory.
Working == Expressions \cup Statements \cup Functions \cup Arrays \cup BuiltinCalls \cup Limits

Tight == Functions \cup Arrays

None == {}

---------------------------------------------------------------------------
(* Programs that no document gives a meaning to, or another one than the   *)
(* code does.                                                              *)

OutOfRange == {Item(Array(<<N(0)>>), N(5))}
ExtraArgs == {Stmts(<<Let("a", N(0)), Let("f", Fun(<< >>, Block(Bin("set", A, N(1))))),
                      Call(Ident("f"), <<N(1)>>)>>)}
Misused == {Bin("set", Item(N(1), N(0)), N(2))}
Growing == {Stmts(<<Let("a", Array(<< >>)), Let("b", Array(<<N(7)>>)), F("array_push", <<A, N(1)>>),
                    Item(B, N(0))>>)}
LastNewline == {Item(Text(<<97, 92, 10>>), N(2))}
BreakOut == {Stmts(<<While(N(1), Block(Call(Fun(<< >>, Block(Break)), << >>))), N(0)>>)}

\* Calls with too few and too many arguments, of a function whose break leads into
\* the loop around it, with operands on the stack below.
Breaking(call, last) ==
    Stmts(<<While(N(1), Block(Stmts(<<Let("f", Fun(<<Ident("x")>>, Block(Break))), call>>))), last>>)
Deep(e) == Bin("add", N(1), Bin("add", N(2), e))
BreakCalls == {F("f", args) : args \in {<< >>, <<N(1)>>, <<N(1), N(2)>>}}

Odd ==
    {Breaking(call, last) : call \in BreakCalls \cup {Deep(c) : c \in BreakCalls},
                            last \in {N(0), ReturnOf(N(5))}}
    \cup {Stmts(<<Let("g", Fun(<< >>, Block(Breaking(call, ReturnOf(N(5)))))), Deep(F("g", << >>))>>) :
             call \in BreakCalls}
    \cup {Call(Fun(<<Ident("x"), N(1)>>, Ident("x")), <<N(1), N(2)>>), F("assert", [i \in 1 .. 32 |-> N(1)]),
          Stmts(<<Let("a", N(1)), Let("f", Fun(<< >>, A)), Let("a", N(2)), F("f", << >>)>>)}
    \cup OutOfRange \cup ExtraArgs \cup Misused \cup Growing \cup LastNewline \cup BreakOut
=============================================================================
