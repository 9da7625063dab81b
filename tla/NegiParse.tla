------------------------------ MODULE NegiParse ------------------------------
(***************************************************************************)
(* The parser of the C implementation (parse in src/c/negi_lang.c): from a *)
(* list of tokens, whose last is "eof", to the abstract syntax.            *)
(*                                                                         *)
(* The state of the parser is a record that every parse_ function takes    *)
(* and returns with the node it made.  A punctuation or a keyword is its   *)
(* own kind; the operators are one kind.  A string that is a lone quote is *)
(* of kind "lone".  A failed assertion or failwith and a loop that reads   *)
(* nothing end the parser: stop says so, and it goes to the end of the     *)
(* tokens, where every function returns.                                   *)
(***************************************************************************)
EXTENDS NegiSyntax

Tok(kind, val) == [kind |-> kind, val |-> val]

LeadsTerm == {"int", "char", "str", "lone", "ident", "(", "[", "fun", "op"}
LeadsStmt == LeadsTerm \cup {"let", "if", "while", "break", "return"}

OpTable ==
    {<<"set", "set", "=">>, <<"set", "set_add", "+=">>, <<"set", "set_sub", "-=">>,
     <<"set", "set_mul", "*=">>, <<"set", "set_div", "/=">>, <<"set", "set_mod", "%=">>,
     <<"log_or", "log_or", "||">>, <<"log_and", "log_and", "&&">>,
     <<"cmp", "eq", "==">>, <<"cmp", "ne", "!=">>, <<"cmp", "lt", "<">>, <<"cmp", "le", "<=">>,
     <<"cmp", "gt", ">">>, <<"cmp", "ge", ">=">>, <<"add", "add", "+">>, <<"add", "sub", "-">>,
     <<"mul", "mul", "*">>, <<"mul", "div", "/">>, <<"mul", "mod", "%">>}

\* The level above each level of left-associative operators.
NextLevel == [log_or |-> "log_and", log_and |-> "cmp", cmp |-> "add", add |-> "mul"]

Kind(p) == p.toks[p.i].kind
IsOp(p, text) == Kind(p) = "op" /\ p.toks[p.i].val = text

\* parse_op: the operators of a level that the next token may be.
OpsAt(p, level) == {row \in OpTable : row[1] = level /\ IsOp(p, row[3])}
OpAt(p, level) == (CHOOSE row \in OpsAt(p, level) : TRUE)[2]

Bump(p) == [p EXCEPT !.i = @ + 1]
With(p, exp) == [p EXCEPT !.exp = exp]
Failed(p) == [p EXCEPT !.exp = ErrNode("syntax"), !.errs = @ + 1]
Stopped(p, why) ==
    [p EXCEPT !.stop = why, !.i = Len(p.toks), !.exp = ErrNode(why)]

\* Mutant: the error is recorded, and the node that was made is kept.
ClosedLost(p, bracket) == IF Kind(p) = bracket THEN Bump(p) ELSE [p EXCEPT !.errs = @ + 1]

\* The node that was made inside brackets, if they are closed.
Closed(p, bracket) == IF Kind(p) = bracket THEN Bump(p) ELSE Failed(p)

\* The functions that the others come back to, by what they read.
RECURSIVE Parsing(_, _)
ParseTerm(p) == Parsing(p, "term")
ParseSemi(p) == Parsing(p, "semi")
ParseBinL(p, level) == Parsing(p, level)

\* What the statements of a block compute is thrown away.
ParseExp(p) == LET semi == ParseSemi(p) IN With(semi, Block(semi.exp))

---------------------------------------------------------------------------
(* Terms.                                                                  *)

\* The items of a list after those already read; a comma may be the last token.
RECURSIVE ParseList(_, _)
ParseList(p, items) ==
    LET item == ParseTerm(p)
        more == Append(items, item.exp)
    IN IF Kind(p) \notin LeadsTerm THEN With(p, items)
       ELSE IF Kind(item) # "," THEN With(item, more)
       ELSE ParseList(Bump(item), more)

ParseArray(p) ==
    LET list == ParseList(Bump(p), << >>) IN Closed(With(list, Array(list.exp)), "]")

ParseBlock(p) == Closed(ParseExp(Bump(p)), "}")

ParseFun(p) ==
    LET paren == Bump(p)
        list == ParseList(Bump(paren), << >>)
        head == Bump(list)
        body == IF Kind(head) = "{" THEN ParseBlock(head) ELSE ParseTerm(head)
    IN IF Kind(paren) # "(" THEN Failed(paren)
       ELSE IF Kind(list) # ")" THEN Failed(list)
       ELSE With(body, Fun(list.exp, body.exp))

ParseAtom(p) ==
    LET val == p.toks[p.i].val IN
    CASE Kind(p) = "eof" -> Failed(p)
      [] Kind(p) \in {"int", "char"} -> With(Bump(p), IntLit(val))
      [] Kind(p) = "str" -> With(Bump(p), StrLit(val))
      [] Kind(p) = "ident" -> With(Bump(p), Ident(val))
      [] Kind(p) = "(" -> Closed(ParseTerm(Bump(p)), ")")
      [] Kind(p) = "[" -> ParseArray(p)
      [] OTHER -> Stopped(p, "crash")  \* "lone", and what begins no atom

\* The calls and indices after an atom.
RECURSIVE Suffixes(_)
Suffixes(p) ==
    LET list == ParseList(Bump(p), << >>)
        index == ParseTerm(Bump(p))
    IN CASE Kind(p) = "(" -> IF Kind(list) # ")" THEN Failed(list)
                             ELSE Suffixes(With(Bump(list), Call(p.exp, list.exp)))
         [] Kind(p) = "[" -> IF Kind(index) # "]" THEN Failed(index)
                             ELSE Suffixes(With(Bump(index), Bin("index", p.exp, index.exp)))
         [] OTHER -> p

ParseSuffix(p) == Suffixes(ParseAtom(p))

\* Mutant: any operator is skipped before an operand.
ParsePrefixAny(p) ==
    LET operand == ParseSuffix(Bump(p))
    IN IF Kind(p) # "op" THEN ParseSuffix(p)
       ELSE IF IsOp(p, "-") THEN With(operand, Bin("sub", Null, operand.exp))
       ELSE operand

\* An operator that is no prefix is not read.
ParsePrefix(p) ==
    LET operand == ParseSuffix(Bump(p))
    IN IF Kind(p) # "op" THEN ParseSuffix(p)
       ELSE IF IsOp(p, "-") THEN With(operand, Bin("sub", Null, operand.exp))
       ELSE Failed(p)

ParseBinNext(p, level) ==
    IF level = "mul" THEN ParsePrefix(p) ELSE ParseBinL(p, NextLevel[level])

RECURSIVE BinRest(_, _)

\* Mutant: the operators of a level group from the right.
BinRestRight(p, level) ==
    LET r == ParseBinL(Bump(p), level)
    IN IF OpsAt(p, level) = {} THEN p
       ELSE BinRest(With(r, Bin(OpAt(p, level), p.exp, r.exp)), level)

BinRest(p, level) ==
    LET r == ParseBinNext(Bump(p), level)
    IN IF OpsAt(p, level) = {} THEN p
       ELSE BinRest(With(r, Bin(OpAt(p, level), p.exp, r.exp)), level)

ReadBinL(p, level) == BinRest(ParseBinNext(p, level), level)

ParseBinSet(p) ==
    LET l == ParseBinL(p, "log_or")
        r == ParseTerm(Bump(l))
    IN IF OpsAt(l, "set") = {} THEN l ELSE With(r, Bin(OpAt(l, "set"), l.exp, r.exp))

ParseCond(p) ==
    LET cond == ParseBinSet(p)
        then == ParseTerm(Bump(cond))
        else == ParseTerm(Bump(then))
    IN IF ~IsOp(cond, "?") THEN cond
       ELSE IF ~IsOp(then, ":") THEN Failed(then)
       ELSE With(else, If(cond.exp, then.exp, else.exp))

ReadTerm(p) ==
    IF Kind(p) \notin LeadsTerm THEN Failed(p)
    ELSE IF Kind(p) = "fun" THEN ParseFun(p) ELSE ParseCond(p)

---------------------------------------------------------------------------
(* Statements.                                                             *)

ParseLet(p) ==
    LET ident == Bump(p)
        eq == Bump(ident)
        init == ParseTerm(Bump(eq))
    IN IF Kind(ident) # "ident" THEN Failed(ident)
       ELSE IF ~IsOp(eq, "=") THEN Failed(eq)
       ELSE With(init, Let(p.toks[ident.i].val, init.exp))

RECURSIVE ParseIf(_)
ParseIf(p) ==
    LET cond == ParseTerm(Bump(p))
        then == ParseBlock(cond)
        branch == Bump(then)
        else == CASE Kind(then) # "else" -> With(then, Null)
                  [] Kind(branch) = "if" -> ParseIf(branch)
                  [] Kind(branch) = "{" -> ParseBlock(branch)
                  [] OTHER -> Failed(branch)
    IN IF Kind(cond) # "{" THEN Failed(cond)
       ELSE With(else, If(cond.exp, then.exp, else.exp))

ParseWhile(p) ==
    LET cond == ParseTerm(Bump(p))
        body == ParseBlock(cond)
    IN IF Kind(cond) # "{" THEN Failed(cond) ELSE With(body, While(cond.exp, body.exp))

ParseReturn(p) ==
    LET e == IF Kind(Bump(p)) \in LeadsTerm THEN ParseTerm(Bump(p)) ELSE With(Bump(p), Null)
    IN With(e, ReturnOf(e.exp))

ParseStmt(p) ==
    CASE Kind(p) = "let" -> ParseLet(p)
      [] Kind(p) = "if" -> ParseIf(p)
      [] Kind(p) = "while" -> ParseWhile(p)
      [] Kind(p) = "break" -> With(Bump(p), Break)
      [] Kind(p) = "return" -> ParseReturn(p)
      [] OTHER -> ParseTerm(p)

RECURSIVE SkipSemis(_)
SkipSemis(p) == IF Kind(p) = ";" THEN SkipSemis(Bump(p)) ELSE p

\* The statements after the first.  When one reads nothing, so does every one
\* after it, and the loop of parse_semi goes on for ever.
RECURSIVE SemiRest(_)
SemiRest(p) ==
    LET next == SkipSemis(p)
        stmt == ParseStmt(next)
    IN IF Kind(next) \notin LeadsStmt THEN next
       ELSE IF stmt.i = next.i THEN Stopped(stmt, "hang")
       ELSE SemiRest(With(stmt, Bin("semi", p.exp, stmt.exp)))

ReadSemi(p) ==
    LET first == SkipSemis(p)
    IN IF Kind(first) \in LeadsStmt THEN SemiRest(ParseStmt(first)) ELSE With(first, Null)

Parsing(p, part) ==
    CASE part = "term" -> ReadTerm(p)
      [] part = "semi" -> ReadSemi(p)
      [] OTHER -> ReadBinL(p, part)

Start(toks) ==
    [toks |-> Append(toks, Tok("eof", 0)), i |-> 1, exp |-> Null, errs |-> 0, stop |-> "no"]

\* parse_eof: a token that is left is an error.
Parse(toks) ==
    LET p == ParseSemi(Start(toks))
    IN [p EXCEPT !.errs = @ + IF Kind(p) = "eof" THEN 0 ELSE 1]
=============================================================================
