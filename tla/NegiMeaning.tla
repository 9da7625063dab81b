----------------------------- MODULE NegiMeaning -----------------------------
(***************************************************************************)
(* What a program of the C implementation means, with no machine: the      *)
(* specification that NegiGen and NegiVm together are compared with.       *)
(*                                                                         *)
(* A state has the variables, each a pair of the activation of a function  *)
(* and a name; the arrays, each the sequence of its elements; the names in *)
(* sight; and how the last construct ended: "go" on, "break", "return",    *)
(* "err" or "undef", after which nothing is evaluated.  Strings are values. *)
(*                                                                         *)
(* The rules are those of the language's tests (src/c/tests.toml) and its  *)
(* README: a function sees the variables around its definition, an array   *)
(* is a reference, an error ends the program and makes it fail.  They say  *)
(* nothing of a division by zero, of a result that is no int of C, of a    *)
(* slice that ends before it begins or of a call with too few arguments:   *)
(* what a program does that comes to one of these is undefined.  A name    *)
(* that is declared twice in a function is not considered.                 *)
(***************************************************************************)
EXTENDS NegiSyntax, SequencesExt, FiniteSetsExt, Functions

CONSTANTS Externs, Input,
          IntMax  \* the greatest int

Ints == -IntMax - 1 .. IntMax

Nothing == [ty |-> "err", val |-> 0]  \* what a function returns that returns no value
Number(n) == [ty |-> "int", val |-> n]
Str(s) == [ty |-> "str", val |-> s]
Truth(b) == Number(IF b THEN 1 ELSE 0)

Rank == [err |-> 0, int |-> 1, str |-> 2, array |-> 3, closure |-> 4, extern |-> 5]

Begin == [how |-> "go", val |-> Nothing, vars |-> << >>, arrays |-> << >>, closures |-> << >>,
          sight |-> << >>, act |-> 0, acts |-> 0]

Gives(s, val) == [s EXCEPT !.val = val]
Fails(s) == [s EXCEPT !.how = "err"]
Undefined(s) == [s EXCEPT !.how = "undef"]
Ends(s, how) == IF s.how = "go" THEN [s EXCEPT !.how = how] ELSE s

Assign(f, x, v) == [y \in DOMAIN f \cup {x} |-> IF y = x THEN v ELSE f[y]]

Lexicographic(s, t) ==
    \E n \in 0 .. Len(t) - 1 :
        /\ n <= Len(s)
        /\ \A i \in 1 .. n : s[i] = t[i]
        /\ n = Len(s) \/ s[n + 1] < t[n + 1]

\* Rounded towards zero.
Divided[n \in Int, d \in Int \ {0}] ==
    IF n < 0 THEN -Divided[-n, d] ELSE IF d < 0 THEN -(n \div (-d)) ELSE n \div d

Less(a, b) == IF a.ty # b.ty THEN Rank[a.ty] < Rank[b.ty]
              ELSE IF a.ty = "int" THEN a.val < b.val ELSE Lexicographic(a.val, b.val)

Comparisons == {"eq", "ne", "lt", "le", "gt", "ge"}

Compared(op, a, b) ==
    CASE op = "eq" -> a.ty = b.ty /\ a.val = b.val
      [] op = "ne" -> a.ty # b.ty \/ a.val # b.val
      [] op = "lt" -> Less(a, b)
      [] op = "le" -> ~Less(b, a)
      [] op = "gt" -> Less(b, a)
      [] op = "ge" -> ~Less(a, b)

Computed(op, m, n) ==
    CASE op = "add" -> m + n
      [] op = "sub" -> m - n
      [] op = "mul" -> m * n
      [] op = "div" -> Divided[m, n]
      [] op = "mod" -> m - n * Divided[m, n]

\* The result, and the quotient that a remainder is computed from, are ints.
HasResult(op, m, n) ==
    IF op \in {"div", "mod"} THEN n # 0 /\ Divided[m, n] \in Ints ELSE Computed(op, m, n) \in Ints

Operate(s, op, a, b) ==
    CASE op \in Comparisons ->
            IF a.ty = b.ty /\ a.ty \notin {"int", "str"} THEN Fails(s)
            ELSE Gives(s, Truth(Compared(op, a, b)))
      [] op = "index" /\ a.ty = "str" /\ b.ty = "int" ->
            Gives(s, Number(IF b.val \in 0 .. Len(a.val) - 1 THEN a.val[b.val + 1] ELSE 0))
      [] op = "index" /\ a.ty = "array" /\ b.ty = "int" ->
            IF b.val \in 0 .. Len(s.arrays[a.val]) - 1
            THEN Gives(s, s.arrays[a.val][b.val + 1]) ELSE Fails(s)
      [] op \notin Comparisons \cup {"index"} /\ a.ty = "int" /\ b.ty = "int" ->
            IF HasResult(op, a.val, b.val) THEN Gives(s, Number(Computed(op, a.val, b.val)))
            ELSE Undefined(s)
      [] op = "add" /\ a.ty = "str" /\ b.ty = "str" -> Gives(s, Str(a.val \o b.val))
      [] OTHER -> Fails(s)

\* A built-in function of a sequence of arguments.
BuiltIn(s, name, args) ==
    LET types == [i \in DOMAIN args |-> args[i].ty]
    IN CASE name = "val_type" /\ Len(args) = 1 -> Gives(s, Number(Rank[types[1]]))
         [] name = "str_slice" /\ types = <<"str", "int", "int">> ->
               LET l == Max({args[2].val, 0})
                   r == Min({args[3].val, Len(args[1].val)})
               IN IF l > r THEN Undefined(s) ELSE Gives(s, Str(SubSeq(args[1].val, l + 1, r)))
         [] name = "array_len" /\ types = <<"array">> -> Gives(s, Number(Len(s.arrays[args[1].val])))
         [] name = "array_push" /\ Len(args) = 2 /\ types[1] = "array" ->
               Gives([s EXCEPT !.arrays[args[1].val] = Append(@, args[2])], Nothing)
         [] name = "array_pop" /\ types = <<"array">> ->
               Gives([s EXCEPT !.arrays[args[1].val] = IF @ = << >> THEN @ ELSE Front(@)], Nothing)
         [] name = "assert" /\ types = <<"int">> /\ args[1].val # 0 -> Gives(s, Nothing)
         [] name = "stdin_to_str" /\ args = << >> -> Gives(s, Str(Input))
         [] OTHER -> Fails(s)

RECURSIVE Eval(_, _), EvalAll(_, _), Repeat(_, _)

\* The values of expressions, from left to right.
EvalAll(s, es) ==
    FoldLeft(LAMBDA p, e : LET t == Eval(p[1], e) IN <<t, Append(p[2], t.val)>>, <<s, << >>>>, es)

\* The place an expression names: a variable, or an array and an index.
Place(s, e) ==
    IF e.kind = "ident" /\ e.name \in DOMAIN s.sight THEN Gives(s, s.sight[e.name])
    ELSE IF e.kind = "op" /\ e.op = "index"
    THEN LET p == EvalAll(s, <<e.l, e.r>>)
         IN IF p[1].how # "go" THEN p[1]
            ELSE IF /\ p[2][1].ty = "array" /\ p[2][2].ty = "int"
                    /\ p[2][2].val \in 0 .. Len(p[1].arrays[p[2][1].val]) - 1
            THEN Gives(p[1], [array |-> p[2][1].val, index |-> p[2][2].val + 1])
            ELSE Fails(p[1])
    ELSE Fails(s)

Content(s, place) ==
    IF "array" \in DOMAIN place THEN s.arrays[place.array][place.index] ELSE s.vars[place]

Stored(s, place) ==
    IF "array" \in DOMAIN place THEN [s EXCEPT !.arrays[place.array][place.index] = s.val]
    ELSE [s EXCEPT !.vars = Assign(@, place, s.val)]

\* An assignment; a compound one takes the old content before it looks at the right.
Assignment(s, e) ==
    LET p == Place(s, e.l)
        t == Eval(p, e.r)
        u == IF e.op = "set" \/ t.how # "go" THEN t
             ELSE Operate(t, OpOfSetOp[e.op], Content(p, p.val), t.val)
    IN IF u.how = "go" THEN Stored(u, p.val) ELSE u

Choice(s, cond, then, else) ==
    LET t == Eval(s, cond)
    IN IF t.how # "go" THEN t
       ELSE IF t.val.ty # "int" THEN Fails(t)
       ELSE IF t.val.val # 0 THEN Eval(t, then) ELSE Eval(t, else)

\* The body of a function runs with the names around its definition in sight.
Apply(s, f, args) ==
    LET act == s.acts + 1
        fun == s.closures[f.val]
        own == [i \in DOMAIN fun.params |-> [act |-> act, name |-> fun.params[i].name]]
        names == [n \in {p.name : p \in ToSet(own)} |-> [act |-> act, name |-> n]]
        values == [x \in ToSet(own) |-> args[CHOOSE i \in DOMAIN own : own[i] = x]]
        t == Eval([s EXCEPT !.acts = act, !.act = act, !.vars = values @@ @,
                            !.sight = names @@ fun.sight], fun.body)
    IN [t EXCEPT !.act = s.act, !.sight = s.sight,
                 !.how = IF @ = "return" THEN "go" ELSE IF @ = "break" THEN "err" ELSE @]

Called(s, e) ==
    LET p == EvalAll(s, <<e.l>> \o e.subs)
        f == p[2][1]
        args == Tail(p[2])
    IN IF p[1].how # "go" THEN p[1]
       ELSE IF f.ty = "extern" THEN BuiltIn(p[1], f.val, args)
       ELSE IF f.ty # "closure" \/ Len(args) > Len(p[1].closures[f.val].params) THEN Fails(p[1])
       ELSE IF Len(args) < Len(p[1].closures[f.val].params) THEN Undefined(p[1])
       ELSE Apply(p[1], f, args)

Repeat(s, e) ==
    LET t == Eval(s, e.cond)
        u == Eval(t, e.l)
    IN IF t.how # "go" THEN t
       ELSE IF t.val.ty # "int" THEN Fails(t)
       ELSE IF t.val.val = 0 THEN Gives(t, Number(0))
       ELSE IF u.how = "go" THEN Repeat(u, e)
       ELSE IF u.how = "break" THEN Gives([u EXCEPT !.how = "go"], Number(0))
       ELSE u

Eval(s, e) ==
    IF s.how # "go" THEN s ELSE
    CASE e.kind = "int" -> Gives(s, Number(e.val))
      [] e.kind = "str" -> Gives(s, Str(e.text))
      [] e.kind = "ident" ->
            IF e.name \in DOMAIN s.sight THEN Gives(s, s.vars[s.sight[e.name]])
            ELSE IF e.name \in ToSet(Externs) THEN Gives(s, [ty |-> "extern", val |-> e.name])
            ELSE Fails(s)
      [] e.kind = "array" ->
            LET p == EvalAll(s, e.subs)
                t == [p[1] EXCEPT !.arrays = Append(@, p[2])]
            IN IF p[1].how = "go" THEN Gives(t, [ty |-> "array", val |-> Len(t.arrays)]) ELSE p[1]
      [] e.kind = "fun" ->
            LET t == [s EXCEPT !.closures = Append(@, [params |-> e.subs, body |-> e.l,
                                                       sight |-> s.sight])]
            IN Gives(t, [ty |-> "closure", val |-> Len(t.closures)])
      [] e.kind = "call" -> Called(s, e)
      [] e.kind = "let" ->
            LET t == Eval(s, e.l)
                place == [act |-> s.act, name |-> e.name]
            IN IF t.how # "go" THEN t
               ELSE Stored([t EXCEPT !.sight = Assign(@, e.name, place)], place)
      [] e.kind = "if" -> Choice(s, e.cond, e.l, e.r)
      [] e.kind = "while" -> Repeat(s, e)
      [] e.kind = "break" -> Ends(s, "break")
      [] e.kind = "return" -> Ends(Eval(s, e.l), "return")
      [] e.kind = "err" -> Fails(s)
      [] e.op = "semi" -> Eval(Eval(s, e.l), e.r)
      [] e.op \in SetOps \cup {"set"} -> Assignment(s, e)
      [] e.op = "log_or" -> Choice(s, e.l, IntLit(1), e.r)
      [] e.op = "log_and" -> Choice(s, e.l, e.r, IntLit(0))
      [] OTHER ->
            LET p == EvalAll(s, <<e.l, e.r>>)
            IN IF p[1].how = "go" THEN Operate(p[1], e.op, p[2][1], p[2][2]) ELSE p[1]

\* What an observer of the program sees: whether it reports an error, and its exit
\* code; or that it comes to what is undefined.  A program may return from its
\* outermost level, and must end in an integer.
Ending(s) ==
    LET right == s.how \in {"go", "return"} /\ s.val.ty = "int"
    IN [undef |-> s.how = "undef", err |-> ~right, exit |-> IF right THEN s.val.val ELSE 1]

\* The outcomes of a program: there is one.
Outcomes(e) == {Ending(s) : s \in {Eval(Begin, e)}}
=============================================================================
