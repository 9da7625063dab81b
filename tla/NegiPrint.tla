------------------------------ MODULE NegiPrint ------------------------------
(***************************************************************************)
(* How a program is written: the tokens of a tree, after the grammar in    *)
(* src/README.md, with no parentheses but those that the grammar asks for. *)
(* The parser of module NegiParse is compared with it, and it writes the   *)
(* programs that module MCVm runs.                                         *)
(***************************************************************************)
EXTENDS NegiSyntax, SequencesExt

Mark(kind) == [kind |-> kind, val |-> 0]
Word(kind, val) == [kind |-> kind, val |-> val]
Sign(text) == Word("op", text)

Signs == [set |-> "=", set_add |-> "+=", set_sub |-> "-=", set_mul |-> "*=", set_div |-> "/=",
          set_mod |-> "%=", log_or |-> "||", log_and |-> "&&", eq |-> "==", ne |-> "!=",
          lt |-> "<", le |-> "<=", gt |-> ">", ge |-> ">=", add |-> "+", sub |-> "-",
          mul |-> "*", div |-> "/", mod |-> "%"]

\* How tightly the operators bind; an assignment and a condition take a term on
\* their right, the others group from the left.
Tightness == [log_or |-> 1, log_and |-> 2, eq |-> 3, ne |-> 3, lt |-> 3, le |-> 3, gt |-> 3,
              ge |-> 3, add |-> 4, sub |-> 4, mul |-> 5, div |-> 5, mod |-> 5]
TermLevel == 0
PrefixLevel == 6
SuffixLevel == 7
AtomLevel == 8

IsSet(e) == e.kind = "op" /\ e.op \in SetOps \cup {"set"}
IsMinus(e) == e.kind = "op" /\ e.op = "sub" /\ e.l = Null
IsBlock(e) == e.kind = "op" /\ e.op = "semi"

LevelOf(e) ==
    CASE e.kind \in {"if", "fun"} \/ IsSet(e) -> TermLevel
      [] IsMinus(e) -> PrefixLevel
      [] e.kind = "call" \/ (e.kind = "op" /\ e.op = "index") -> SuffixLevel
      [] e.kind = "op" /\ e.op \in DOMAIN Tightness -> Tightness[e.op]
      [] OTHER -> AtomLevel

RECURSIVE Term(_, _), Stmt(_)

List(items) ==
    FoldLeftDomain(LAMBDA toks, i : toks \o (IF i = 1 THEN << >> ELSE <<Mark(",")>>)
                                         \o Term(items[i], TermLevel),
                   << >>, items)

Braces(block) == <<Mark("{")>> \o Stmt(block.l) \o <<Mark("}")>>

Written(e) ==
    CASE e.kind \in {"int", "str"} -> <<Word(e.kind, IF e.kind = "int" THEN e.val ELSE e.text)>>
      [] e.kind = "ident" -> <<Word("ident", e.name)>>
      [] e.kind = "err" -> <<Mark("("), Mark(")")>>
      [] e.kind = "array" -> <<Mark("[")>> \o List(e.subs) \o <<Mark("]")>>
      [] e.kind = "call" -> Term(e.l, SuffixLevel) \o <<Mark("(")>> \o List(e.subs) \o <<Mark(")")>>
      [] e.kind = "fun" -> <<Mark("fun"), Mark("(")>> \o List(e.subs) \o <<Mark(")")>>
                           \o (IF IsBlock(e.l) THEN Braces(e.l) ELSE Term(e.l, TermLevel))
      [] e.kind = "if" -> Term(e.cond, 1) \o <<Sign("?")>> \o Term(e.l, TermLevel)
                          \o <<Sign(":")>> \o Term(e.r, TermLevel)
      [] IsSet(e) -> Term(e.l, 1) \o <<Sign(Signs[e.op])>> \o Term(e.r, TermLevel)
      [] IsMinus(e) -> <<Sign("-")>> \o Term(e.r, SuffixLevel)
      [] e.kind = "op" /\ e.op = "index" ->
             Term(e.l, SuffixLevel) \o <<Mark("[")>> \o Term(e.r, TermLevel) \o <<Mark("]")>>
      [] OTHER -> Term(e.l, Tightness[e.op]) \o <<Sign(Signs[e.op])>>
                  \o Term(e.r, Tightness[e.op] + 1)

Term(e, level) ==
    IF LevelOf(e) < level THEN <<Mark("(")>> \o Written(e) \o <<Mark(")")>> ELSE Written(e)

Stmt(e) ==
    CASE IsBlock(e) -> Stmt(e.l) \o <<Mark(";")>> \o Stmt(e.r)
      [] e.kind = "let" -> <<Mark("let"), Word("ident", e.name), Sign("=")>> \o Term(e.l, TermLevel)
      [] e.kind = "if" /\ IsBlock(e.l) ->
             <<Mark("if")>> \o Term(e.cond, TermLevel) \o Braces(e.l)
             \o (CASE e.r = Null -> << >>
                   [] IsBlock(e.r) -> <<Mark("else")>> \o Braces(e.r)
                   [] OTHER -> <<Mark("else")>> \o Stmt(e.r))
      [] e.kind = "while" -> <<Mark("while")>> \o Term(e.cond, TermLevel) \o Braces(e.l)
      [] e.kind = "break" -> <<Mark("break")>>
      [] e.kind = "return" -> <<Mark("return")>> \o Term(e.l, TermLevel)
      [] OTHER -> Term(e, TermLevel)

Tokens(e) == Stmt(e)
=============================================================================
