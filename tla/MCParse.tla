------------------------------- MODULE MCParse -------------------------------
(***************************************************************************)
(* The parser on every list of tokens that is written one token after the  *)
(* other.  Writing stops at the first token that cannot follow: a list     *)
(* goes on as long as the parser reads it to its end.                      *)
(***************************************************************************)
EXTENDS NegiParse

CONSTANTS Beginnings,  \* the lists that are already written
          Vocabulary,  \* the tokens that are written
          MaxTokens    \* bound on how many

VARIABLES toks, left

vars == <<toks, left>>

Printer == INSTANCE NegiPrint

Parsed == Parse(toks)

Init == toks \in Beginnings /\ left = MaxTokens

Write ==
    /\ left > 0 /\ left' = left - 1
    /\ Parsed.stop = "no" /\ Parsed.i = Len(toks) + 1
    /\ \E tok \in Vocabulary : toks' = Append(toks, tok)

Spec == Init /\ [][Write]_vars

---------------------------------------------------------------------------
(* No number is 0, which stands for what is left out.                      *)

A == Tok("ident", "a")
B == Tok("int", 1)
Op(text) == Tok("op", text)
Mark(kind) == Tok(kind, 0)

AllTokens ==
    {A, B} \cup {Op(text) : text \in {"=", "-", "<", "*", "?", ":"}}
    \cup {Mark(kind) : kind \in {"(", ")", "[", "]", "{", "}", ",", ";", "let", "if", "else",
                                 "while", "break", "fun", "return"}}

Starts ==
    {<< >>, <<Mark("("), A, Op("-"), B, Mark(")")>>, <<A, Op("-"), Mark("("), B, Op("*")>>,
     <<A, Op("<"), B>>, <<A, Op("*"), B>>, <<A, Op("="), B>>, <<A, Op("?"), B>>,
     <<A, Op("?"), B, Op(":"), B>>, <<Op("-"), A>>, <<A, Mark("("), B>>, <<Mark("["), A, Mark(",")>>,
     <<Mark("fun"), Mark("("), A, Mark(")")>>, <<Mark("while"), A, Mark("{"), B>>,
     <<Mark("if"), A, Mark("{"), B, Mark("}"), Mark("else")>>, <<Mark("let"), A, Op("=")>>}

---------------------------------------------------------------------------
(* Properties.                                                             *)

Accepted == Parsed.stop = "no" /\ Parsed.errs = 0

\* Without what the grammar lets one add or leave out.
Bare(list) ==
    SelectSeq(list, LAMBDA tok : tok.kind \notin {"(", ")", ",", ";"} /\ tok # Tok("int", 0))

\* Every token of an accepted program is in its tree, in its place: none is skipped,
\* none is read twice (bump, in every parse_ function).
NothingLost == Accepted => Bare(Printer!Tokens(Parsed.exp)) = Bare(toks)

\* The grammar of README.md, by which the tree is written again, and the functions
\* parse_bin_l to parse_atom agree on how the operators bind.
WrittenAgain ==
    Accepted => LET again == Parse(Printer!Tokens(Parsed.exp))
                IN again.errs = 0 /\ again.exp = Parsed.exp

RECURSIVE HasError(_)
HasError(e) ==
    \/ e.kind = "err"
    \/ \E part \in {"cond", "l", "r"} \cap DOMAIN e : HasError(e[part])
    \/ "subs" \in DOMAIN e /\ \E i \in DOMAIN e.subs : HasError(e.subs[i])

\* A syntax error is never lost with the node that was being made: the tree has an
\* error node, from which the generator makes the command that reports it.
ErrorsKept ==
    Parsed.stop = "no" /\ Parsed.errs > 0 => HasError(Parsed.exp) \/ Parsed.i <= Len(toks)

\* negi_lang.c: what is wrong with a program is reported as an error.
ProblemsReported == Parsed.stop = "no"
=============================================================================
