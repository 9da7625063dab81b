------------------------------ MODULE NegiRead ------------------------------
(***************************************************************************)
(* What the parser of the C implementation reads in a token: the number,   *)
(* the character, the contents of the string, the operator or the name     *)
(* that its text stands for (parse_int, parse_char and parse_str in        *)
(* src/c/negi_lang.c).  It joins the tokenizer of module NegiTokenize to   *)
(* the parser of module NegiParse.                                         *)
(***************************************************************************)
EXTENDS NegiTokenize

LOCAL INSTANCE SequencesExt

Parser == INSTANCE NegiParse

\* The operators that the parser knows, with their texts.
OpTexts == {<<"=", <<"=">>>>, <<"+=", <<"+", "=">>>>, <<"-=", <<"-", "=">>>>,
            <<"*=", <<"*", "=">>>>, <<"/=", <<"/", "=">>>>, <<"%=", <<"%", "=">>>>,
            <<"||", <<"|", "|">>>>, <<"&&", <<"&", "&">>>>, <<"==", <<"=", "=">>>>,
            <<"!=", <<"!", "=">>>>, <<"<", <<"<">>>>, <<"<=", <<"<", "=">>>>,
            <<">", <<">">>>>, <<">=", <<">", "=">>>>, <<"+", <<"+">>>>, <<"-", <<"-">>>>,
            <<"*", <<"*">>>>, <<"/", <<"/">>>>, <<"%", <<"%">>>>, <<"?", <<"?">>>>,
            <<":", <<":">>>>}
NoOp == "none"

OpOf(text) == IF \E row \in OpTexts : row[2] = text
              THEN (CHOOSE row \in OpTexts : row[2] = text)[1] ELSE NoOp

DigitValue(c) == CHOOSE n \in 0 .. 9 :
                     <<"0", "1", "2", "3", "4", "5", "6", "7", "8", "9">>[n + 1] = c

\* atol, of a number that is in its range.
NumberOf(text) == FoldLeft(LAMBDA n, c : 10 * n + DigitValue(c), 0, text)

\* The code of a character, of those that sources are made of here.
CodeOf(c) == CASE c = Nul -> 0 [] c = "\t" -> 9 [] c = Newline -> 10 [] c = "\r" -> 13
               [] c = "\"" -> 34 [] c = "'" -> 39 [] c \in Digits -> 48 + DigitValue(c)
               [] c = Backslash -> 92 [] c = "a" -> 97 [] c = "n" -> 110
               [] OTHER -> 64

\* Mutant: the backslash stands for itself.
UnescapeRaw(text) == CodeOf(text[1])

\* unescape: the first character of the text, which is followed by a Nul.
Unescape(text) ==
    LET second == IF Len(text) > 1 THEN text[2] ELSE Nul
    IN IF text[1] # Backslash THEN CodeOf(text[1])
       ELSE CASE second = "n" -> 10
              [] second = "r" -> 13
              [] second = "t" -> 9
              [] second = "0" -> 0
              [] OTHER -> CodeOf(second)

\* What is between the quotes, the second of which may be a line end or, at the end
\* of the source, any character.
Quoted(tok) == Slice(src, tok.l + 1, tok.r - 1)

\* A quote with nothing after it fails an assertion of parse_str: see "lone" in
\* module NegiParse.
ReadTok(tok) ==
    LET text == Slice(src, tok.l, tok.r) IN
    CASE tok.kind = "int" -> Parser!Tok("int", NumberOf(text))
      [] tok.kind = "char" -> Parser!Tok("char", IF tok.r - tok.l > 2 THEN Unescape(Quoted(tok)) ELSE 0)
      [] tok.kind = "str" -> IF tok.r - tok.l >= 2 THEN Parser!Tok("str", Quoted(tok))
                             ELSE Parser!Tok("lone", 0)
      [] tok.kind = "op" -> Parser!Tok("op", OpOf(text))
      [] tok.kind = "ident" -> Parser!Tok("ident", text)
      [] OTHER -> Parser!Tok(tok.kind, 0)

\* parse, of all the tokens but the last, which the parser adds itself.
Parsed == LET last == toks.len - 1
          IN Parser!Parse([i \in 1 .. last |-> ReadTok(toks.data[i])])
=============================================================================
