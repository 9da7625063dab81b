---------------------------- MODULE NegiTokenize ----------------------------
(***************************************************************************)
(* The tokenizer of the C implementation (tokenize in src/c/negi_lang.c).  *)
(*                                                                         *)
(* The source is a sequence of characters and places in it count from 0,   *)
(* as in the code; the source is followed by a Nul.  The loop of the code  *)
(* takes one token or skips what is between tokens at each turn, and has   *)
(* inner loops that move r to the end of the token: every turn of every    *)
(* loop is an action.  mode is the place in the function: "next" at the    *)
(* head of the loop, or the inner loop that runs.                          *)
(*                                                                         *)
(* The loop that skips a comment looks for the end of the line only.  When *)
(* the source ends first it reads memory that is not its own: it fails     *)
(* there, or finds a newline somewhere and fails the assertion at the end  *)
(* of the function.  Either way the process is at its end, "crash".        *)
(***************************************************************************)
EXTENDS NegiUtils

CONSTANT Sources

ASSUME SourcesAssumption == Sources \subseteq Seq(STRING \ {Nul})

VARIABLES src,   \* the source
          l, r,  \* the token that is being read, so far
          mode,
          toks   \* the vector of tokens

vars == <<src, l, r, mode, toks>>

---------------------------------------------------------------------------
(* Characters.                                                             *)

Digits == {"0", "1", "2", "3", "4", "5", "6", "7", "8", "9"}
Letters == {"a", "b", "c", "d", "e", "f", "g", "h", "i", "j", "k", "l", "m",
            "n", "o", "p", "q", "r", "s", "t", "u", "v", "w", "x", "y", "z",
            "A", "B", "C", "D", "E", "F", "G", "H", "I", "J", "K", "L", "M",
            "N", "O", "P", "Q", "R", "S", "T", "U", "V", "W", "X", "Y", "Z"}
IdentChars == {"_"} \cup Letters \cup Digits
OpChars == {"+", "-", "*", "/", "%", "&", "|", "^", "~", "!", "=", "<", ">", ".", "?", ":"}
Brackets == {"(", ")", "[", "]", "{", "}", ",", ";"}
Newline == "\n"
Blanks == {" ", "\t", "\r", Newline}
Quotes == {"\"", "'"}
Backslash == "\\"

\* The character at a place, and whether the source goes on there.
Char(i) == IF i < Len(src) THEN src[i + 1] ELSE Nul
Inside(i) == i < Len(src)

---------------------------------------------------------------------------
(* Tokens.                                                                 *)

Keywords == [let |-> <<"l", "e", "t">>, if |-> <<"i", "f">>, else |-> <<"e", "l", "s", "e">>,
             while |-> <<"w", "h", "i", "l", "e">>, break |-> <<"b", "r", "e", "a", "k">>,
             fun |-> <<"f", "u", "n">>, return |-> <<"r", "e", "t", "u", "r", "n">>]

\* tok_text_to_kind
WordKind(text) ==
    IF \E k \in DOMAIN Keywords : Keywords[k] = text
    THEN CHOOSE k \in DOMAIN Keywords : Keywords[k] = text
    ELSE "ident"

Token(kind, from, to) == [kind |-> kind, l |-> from, r |-> to]

\* Mutant: the next token is looked for where this one began.
TokAddBack(kind, to) ==
    /\ toks' = VecPush(toks, Token(kind, l, to))
    /\ r' = l /\ mode' = "next"
    /\ UNCHANGED <<src, l>>

\* tok_add, and back to the head of the loop.
TokAdd(kind, to) ==
    /\ toks' = VecPush(toks, Token(kind, l, to))
    /\ r' = to /\ mode' = "next"
    /\ UNCHANGED <<src, l>>

\* The inner loop goes on, one character further.
Further(count) == r' = r + count /\ UNCHANGED <<src, l, mode, toks>>

---------------------------------------------------------------------------
(* The head of the loop: what begins at r.                                 *)

\* A new turn that enters an inner loop.
Enter(loop, count) ==
    /\ l' = r /\ r' = r + count /\ mode' = loop
    /\ UNCHANGED <<src, toks>>

AtHead == mode = "next" /\ Inside(r)

SkipBlank == AtHead /\ Char(r) \in Blanks /\ l' = r /\ r' = r + 1 /\ UNCHANGED <<src, mode, toks>>

\* Mutant: one slash is enough.
BeginsCommentSlash == Char(r) = "/"

BeginsComment == Char(r) = "/" /\ Char(r + 1) = "/"

BeginComment == AtHead /\ BeginsComment /\ Enter("comment", 0)
BeginInt == AtHead /\ Char(r) \in Digits /\ Enter("int", 0)
BeginQuoted == AtHead /\ Char(r) \in Quotes /\ Enter("quoted", 1)
BeginWord == AtHead /\ Char(r) \in IdentChars \ Digits /\ Enter("word", 1)
BeginOp == AtHead /\ Char(r) \in OpChars /\ ~BeginsComment /\ Enter("op", 0)

\* A bracket is a token, and a character that begins none is one of its own.
Single ==
    /\ AtHead
    /\ Char(r) \notin Blanks \cup IdentChars \cup Quotes \cup OpChars
    /\ l' = r /\ r' = r + 1
    /\ toks' = VecPush(toks, Token(IF Char(r) \in Brackets THEN Char(r) ELSE "err", r, r + 1))
    /\ UNCHANGED <<src, mode>>

\* tok_add of the last token, which is empty.
End ==
    /\ mode = "next" /\ ~Inside(r)
    /\ toks' = VecPush(toks, Token("eof", r, r))
    /\ l' = r /\ mode' = "done"
    /\ UNCHANGED <<src, r>>

---------------------------------------------------------------------------
(* The inner loops.                                                        *)

CommentChar ==
    /\ mode = "comment" /\ Inside(r) /\ Char(r) # Newline
    /\ Further(1)

CommentEnd ==
    /\ mode = "comment" /\ Char(r) = Newline
    /\ mode' = "next"
    /\ UNCHANGED <<src, l, r, toks>>

CommentOverrun ==
    /\ mode = "comment" /\ ~Inside(r)
    /\ mode' = "crash"
    /\ UNCHANGED <<src, l, r, toks>>

\* Mutant: the place does not move.
IntCharStay == mode = "int" /\ Char(r) \in Digits /\ Further(0)

IntChar == mode = "int" /\ Char(r) \in Digits /\ Further(1)
IntEnd == mode = "int" /\ Char(r) \notin Digits /\ TokAdd("int", r)

WordChar == mode = "word" /\ Char(r) \in IdentChars /\ Further(1)
WordEnd == mode = "word" /\ Char(r) \notin IdentChars /\ TokAdd(WordKind(Slice(src, l, r)), r)

OpChar == mode = "op" /\ Char(r) \in OpChars /\ Further(1)
OpEnd == mode = "op" /\ Char(r) \notin OpChars /\ TokAdd("op", r)

\* What ends a quoted token belongs to it, and may be the end of its line.
QuotedKind == IF Char(l) = "'" THEN "char" ELSE "str"
Closes(c) == c \in {Char(l), "\r", Newline}

\* Mutant: an escape is not seen.
QuotedEscapeOne == mode = "quoted" /\ Char(r) = Backslash /\ Further(1)

\* Mutant: it is not asked whether there is a character after it.
QuotedEscapeBlind == mode = "quoted" /\ Char(r) = Backslash /\ Further(2)

\* A backslash hides the character after it.
QuotedEscape ==
    /\ mode = "quoted" /\ Char(r) = Backslash
    /\ Further(IF Inside(r + 1) THEN 2 ELSE 1)

QuotedChar ==
    /\ mode = "quoted" /\ Inside(r) /\ Char(r) # Backslash /\ ~Closes(Char(r))
    /\ Further(1)

QuotedClosed == mode = "quoted" /\ Inside(r) /\ Closes(Char(r)) /\ TokAdd(QuotedKind, r + 1)
QuotedCut == mode = "quoted" /\ ~Inside(r) /\ TokAdd(QuotedKind, r)

---------------------------------------------------------------------------

Init == src \in Sources /\ l = 0 /\ r = 0 /\ mode = "next" /\ toks = VecNew

Turn == \/ SkipBlank \/ BeginComment \/ BeginInt \/ BeginQuoted \/ BeginWord \/ BeginOp
        \/ Single \/ End

Inner == \/ CommentChar \/ CommentEnd \/ CommentOverrun \/ IntChar \/ IntEnd
         \/ WordChar \/ WordEnd \/ OpChar \/ OpEnd
         \/ QuotedEscape \/ QuotedChar \/ QuotedClosed \/ QuotedCut

Next == Turn \/ Inner

\* The tokenizer is one call, which nothing suspends.
Spec == Init /\ [][Next]_vars /\ WF_vars(Next)

---------------------------------------------------------------------------
(* Properties.                                                             *)

Toks == Elements(toks)

\* Type invariant.  Every place is in the source, the tokens are in its order and only
\* the last is empty, and the vector has the room it says: the assertions of tok_add,
\* src_slice and vec_grow, and the one at the end of tokenize.
TokensOK ==
    /\ 0 <= l /\ l <= r /\ r <= Len(src)
    /\ VecOK(toks)
    /\ \A i \in DOMAIN Toks :
          /\ 0 <= Toks[i].l /\ Toks[i].r <= Len(src)
          /\ Toks[i].l < Toks[i].r \/ (Toks[i].kind = "eof" /\ Toks[i].l = Toks[i].r)
          /\ i > 1 => Toks[i - 1].r <= Toks[i].l
    /\ mode = "done" => r = Len(src)

\* The process ends in the tokenizer only for a text with two slashes in its last line,
\* as a comment there has (the loop of tokenize that skips a comment).
OnlyCommentCrashes ==
    mode = "crash" =>
        \E i \in 1 .. Len(src) - 1 :
            /\ src[i] = "/" /\ src[i + 1] = "/"
            /\ \A j \in i .. Len(src) : src[j] # Newline

\* Where the next token begins, or the one that is being read.
At == IF mode \in {"next", "done"} THEN r ELSE l

\* tokenize reads whole tokens, blanks and comments, one after the other and as long
\* as they are, and names each by what it is (NegiLex).
Lexes == INSTANCE NegiLex WITH
             at <- At, found <- Toks,
             LineEnds <- {"\r", Newline}, Underline <- "_", Slash <- "/"
LexImplemented == Lexes!Spec

\* Every turn of every loop of tokenize leaves less of the source, or is one of those
\* that are left within a token.
TextLeft == Len(src) - At
TurnsLeft ==
    IF mode = "next" THEN Len(src) + 2
    ELSE IF mode \in {"done", "crash"} THEN 0
    ELSE Len(src) + 1 - r
TokenizerProgress ==
    [][\/ TextLeft' \in 0 .. TextLeft - 1
       \/ TextLeft' = TextLeft /\ TurnsLeft' \in 0 .. TurnsLeft - 1]_vars
=============================================================================
