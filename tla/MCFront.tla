------------------------------- MODULE MCFront -------------------------------
(***************************************************************************)
(* The tokenizer, the parser and the error reports together: on every      *)
(* short text, and on programs that are written out in several ways.       *)
(***************************************************************************)
EXTENDS NegiReport, NegiRead, NegiSyntax

CONSTANTS AnyLen,   \* every text up to this length over one alphabet,
          QuoteLen  \* and up to this length over a smaller one

LOCAL INSTANCE SequencesExt

Printer == INSTANCE NegiPrint

---------------------------------------------------------------------------
(* Programs, and the texts they are written in.  A name, and the contents  *)
(* of a string, is a sequence of characters.                               *)

X == Ident(<<"x">>)
Y == Ident(<<"_", "i", "f", "2">>)
N(n) == IntLit(n)
Two(s, t) == Bin("semi", s, t)

WrittenTrees ==
    {Bin(op, X, e) : op \in (DOMAIN Printer!Signs \ {"set"}) \cup {"index"},
                     e \in {N(7), Bin("sub", Null, Y)}}
    \cup {Bin("sub", Bin("sub", X, N(10)), Bin("mul", Y, Bin("sub", X, N(2)))),
          If(Bin("eq", X, Null), Y, Bin("set", X, N(42))),
          Call(X, <<Array(<<N(1), StrLit(<<"/", "/">>)>>), Bin("index", Y, N(305))>>),
          Bin("set", X, Bin("sub", Null, StrLit(<<"\\", "\"", "'", "f", "u", "n">>))),
          Two(Let(<<"l", "e", "t", "s">>, Fun(<<X, Y>>, Block(Two(ReturnOf(X), Break)))), N(9)),
          Two(While(X, Block(Two(Break, Bin("set_add", X, Y)))),
              If(Y, Block(X), If(X, Block(StrLit(<< >>)), Block(Null)))),
          ReturnOf(Fun(<< >>, Call(X, << >>)))}

\* What a token looks like, of those that NegiPrint writes.
Spelled(tok) ==
    CASE tok.kind = "int" -> Decimal(tok.val)
      [] tok.kind = "str" -> <<"\"">> \o tok.val \o <<"\"">>
      [] tok.kind = "ident" -> tok.val
      [] tok.kind = "op" -> (CHOOSE row \in OpTexts : row[1] = tok.val)[2]
      [] tok.kind \in DOMAIN Keywords -> Keywords[tok.kind]
      [] OTHER -> <<tok.kind>>

\* Two tokens that would be one without a blank between them.
Merge(s, t) == \/ Last(s) \in IdentChars /\ Head(t) \in IdentChars
               \/ Last(s) \in OpChars /\ Head(t) \in OpChars

Between == {<<" ">>, <<Newline>>, <<"\r", Newline>>, <<" ", "/", "/", "\"", "{", Newline, "\t">>}

\* The text of a list of tokens; with nothing between those that need nothing.
Written(texts, blank) ==
    FoldLeft(LAMBDA text, t : text \o blank \o t, Head(texts), Tail(texts))
Tight(texts) ==
    FoldLeft(LAMBDA text, t : text \o (IF Merge(text, t) THEN <<" ">> ELSE << >>) \o t,
             Head(texts), Tail(texts))

TextsOf(e) ==
    LET tokens == Printer!Tokens(e)
        texts == [i \in DOMAIN tokens |-> Spelled(tokens[i])]
    IN {Written(texts, blank) : blank \in Between} \cup {Tight(texts)}

\* A character and its code.
CharTexts == {<<<<"'", "a", "'">>, 97>>, <<<<"'", "\\", "n", "'">>, 10>>, <<<<"'", "\\", "t", "'">>, 9>>,
              <<<<"'", "\\", "r", "'">>, 13>>, <<<<"'", "\\", "0", "'">>, 0>>, <<<<"'", "\\", "'", "'">>, 39>>,
              <<<<"'", "\\", "\\", "'">>, 92>>, <<<<"'", "\"", "'">>, 34>>, <<<<"'", "'">>, 0>>}

WrittenPrograms == UNION {{<<text, e>> : text \in TextsOf(e)} : e \in WrittenTrees}
                   \cup {<<row[1], N(row[2])>> : row \in CharTexts}

Alphabet == {"i", "f", "1", "/", "=", "\"", Backslash, Newline, " ", "(", "@"}
QuoteAlphabet == {"'", Backslash, Newline, "a", "/"}

AllSources == SeqOf(Alphabet, AnyLen) \cup SeqOf(QuoteAlphabet, QuoteLen) 
              \cup {row[1] : row \in WrittenPrograms}

---------------------------------------------------------------------------
(* Properties.                                                             *)

Done == mode = "done"

\* A program that is written out is read back as it was, with any blanks and comments
\* between its tokens, or with none (tokenize and parse together).
ReadsBack ==
    Done /\ use = "none" /\ errs.len = 0 =>
        \A row \in WrittenPrograms :
            row[1] = src => Parsed.stop = "no" /\ Parsed.errs = 0 /\ Parsed.exp = row[2]

\* The tokenizer comes to its end, whatever the source.
TokenizerEnds == <>(mode \in {"done", "crash"})
=============================================================================
