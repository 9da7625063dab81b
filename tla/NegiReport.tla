------------------------------ MODULE NegiReport ------------------------------
(***************************************************************************)
(* What the C implementation says of a source: the errors, each at the     *)
(* place of a token, and their summary (err_add, find_pos, err_summary and *)
(* negi_lang_eval_for_testing in src/c/negi_lang.c); and the dump of the   *)
(* tokens (negi_lang_tokenize_dump).                                       *)
(*                                                                         *)
(* Both begin when the tokenizer is done.  Which tokens are in error is    *)
(* for the parser and the machine to say: here it may be any of them, in   *)
(* any order, as a program may fail anywhere.  All messages are the same.  *)
(***************************************************************************)
EXTENDS NegiTokenize, FiniteSets

Seqs == INSTANCE SequencesExt

CONSTANT MaxErrs  \* bound on the number of errors

VARIABLES errs,  \* the vector of errors
          out,   \* the string builder
          turn,  \* how often the loop over the list was passed
          use    \* what is made of the tokens

reportVars == <<vars, errs, out, turn, use>>

Message == <<"!">>

\* The digits of a number, for string_format.
Decimal(n) ==
    LET digit(d) == CHOOSE c \in Digits : \E i \in 0 .. 9 :
                        d = i /\ c = <<"0", "1", "2", "3", "4", "5", "6", "7", "8", "9">>[i + 1]
        decimal[k \in 0 .. n] ==
            IF k < 10 THEN <<digit(k)>> ELSE Append(decimal[k \div 10], digit(k % 10))
    IN decimal[n]

\* Mutant: the column goes on after the end of a line.
FindPosColumn(i) ==
    LET pos[k \in 0 .. i] ==
            IF k = 0 THEN [y |-> 0, x |-> 0]
            ELSE IF src[k] = Newline THEN [pos[k - 1] EXCEPT !.y = @ + 1]
            ELSE [pos[k - 1] EXCEPT !.x = @ + 1]
    IN pos[i]

\* The line and the column of a place.
FindPos(i) ==
    LET pos[k \in 0 .. i] ==
            IF k = 0 THEN [y |-> 0, x |-> 0]
            ELSE IF src[k] = Newline THEN [y |-> pos[k - 1].y + 1, x |-> 0]
            ELSE [pos[k - 1] EXCEPT !.x = @ + 1]
    IN pos[i]

PosText(i) == Decimal(1 + FindPos(i).y) \o <<":">> \o Decimal(1 + FindPos(i).x)

\* err_add: the error is where its token is.
ErrAdd(tok) == errs' = VecPush(errs, [l |-> tok.l, r |-> tok.r])

---------------------------------------------------------------------------
(* Actions.                                                                *)

Tokenize == Next /\ UNCHANGED <<errs, out, turn, use>>

\* parse_eof and eval_abort.
Fail ==
    /\ mode = "done" /\ use = "none" /\ errs.len < MaxErrs
    /\ \E i \in DOMAIN Toks : ErrAdd(Toks[i])
    /\ UNCHANGED <<vars, out, turn, use>>

\* The dump is of a source that is not parsed.
Begin(what) ==
    /\ mode = "done" /\ use = "none"
    /\ what = "dump" => errs.len = 0
    /\ use' = what
    /\ UNCHANGED <<vars, errs, out, turn>>

\* A turn of the loop of err_summary; its pieces are added one by one.
Summarize ==
    /\ use = "summary" /\ turn < errs.len
    /\ LET err == errs.data[turn + 1]
           at == SbAppend(out, PosText(err.l) \o <<".", ".">> \o PosText(err.r))
           near == SbAppend(SbAppend(at, <<" ", "n", "e", "a", "r", " ", "'">>),
                            Slice(src, err.l, err.r))
           text == SbAppend(SbAppend(near, <<"'", Newline, " ", " ">>), Message)
       IN out' = SbAppend(text, <<Newline>>)
    /\ turn' = turn + 1
    /\ UNCHANGED <<vars, errs, use>>

\* A turn of the loop of negi_lang_tokenize_dump.
Dump ==
    /\ use = "dump" /\ turn < toks.len
    /\ LET tok == toks.data[turn + 1]
       IN out' = SbAppend(SbAppend(out, Slice(src, tok.l, tok.r)), <<",">>)
    /\ turn' = turn + 1
    /\ UNCHANGED <<vars, errs, use>>

---------------------------------------------------------------------------

ReportInit == Init /\ errs = VecNew /\ out = SbNew /\ turn = 0 /\ use = "none"

ReportNext == Tokenize \/ Fail \/ Begin("summary") \/ Begin("dump") \/ Summarize \/ Dump

\* The tokenizer is one call, which nothing suspends.
ReportSpec == ReportInit /\ [][ReportNext]_reportVars /\ WF_vars(Next)

---------------------------------------------------------------------------
(* Properties.                                                             *)

\* Type invariant.  The vectors and the builder have the room they say, and errors
\* are where tokens are: the assertions of find_pos, vec_grow and sb_append.
FrontOK ==
    /\ VecOK(errs) /\ SbOK(out)
    /\ \A i \in 1 .. errs.len : \E j \in DOMAIN Toks :
          errs.data[i] = [l |-> Toks[j].l, r |-> Toks[j].r]

\* The lines before a place, and the characters before it in its line.
LineEndsBefore(i) == {k \in 1 .. i : src[k] = Newline}
PlaceText(i) ==
    LET ends == LineEndsBefore(i)
        begin == IF ends = {} THEN 0 ELSE CHOOSE k \in ends : \A j \in ends : j <= k
    IN Decimal(Cardinality(ends) + 1) \o <<":">> \o Decimal(i - begin + 1)

ErrorText(err) ==
    PlaceText(err.l) \o <<".", ".">> \o PlaceText(err.r)
    \o <<" ", "n", "e", "a", "r", " ", "'">> \o Slice(src, err.l, err.r)
    \o <<"'", Newline, " ", " ">> \o Message \o <<Newline>>

TokenText(tok) == Slice(src, tok.l, tok.r) \o <<",">>

\* The summary names each error once, in the order they were met, with the line and
\* the column where it is, and loses nothing of what was written before; the dump
\* does so for the tokens (err_summary, negi_lang_tokenize_dump, sb_append).
ReportRight ==
    Content(out.data) =
        Seqs!FlattenSeq([i \in 1 .. turn |-> IF use = "summary" THEN ErrorText(errs.data[i])
                                             ELSE TokenText(toks.data[i])])
=============================================================================
