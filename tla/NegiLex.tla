------------------------------- MODULE NegiLex -------------------------------
(***************************************************************************)
(* What the tokenizer of the C implementation promises: a source is read   *)
(* from left to right, and what comes next is one whole token, one blank   *)
(* or one comment.  What each of them is, is said of its characters alone; *)
(* module NegiTokenize, which reads one character at a time, implements    *)
(* this.  Places count from 0.                                             *)
(***************************************************************************)
EXTENDS Integers, Sequences

CONSTANTS Digits, Letters, OpChars, Brackets, Blanks, Quotes,  \* sets of characters
          LineEnds, Newline, Backslash, Underline, Slash,
          Keywords  \* the text of each keyword

VARIABLES src, at, found

vars == <<src, at, found>>

WordChars == Letters \cup Digits \cup {Underline}

Part(from, to) == SubSeq(src, from + 1, to)
All(from, to, chars) == \A i \in from + 1 .. to : src[i] \in chars

\* No character after the part belongs to it.
Longest(to, chars) == to = Len(src) \/ src[to + 1] \notin chars

IsInt(from, to) == All(from, to, Digits) /\ Longest(to, Digits)
IsWord(from, to) ==
    src[from + 1] \notin Digits /\ All(from, to, WordChars) /\ Longest(to, WordChars)
IsOp(from, to) == All(from, to, OpChars) /\ Longest(to, OpChars)

\* A character between quotes is hidden by the backslash before it, which is not
\* hidden itself: the backslashes before it are odd in number.
Hidden(from, i) ==
    \E k \in 0 .. i - from - 2 :
        /\ k % 2 = 1
        /\ \A j \in i - k .. i - 1 : src[j] = Backslash
        /\ src[i - k - 1] # Backslash

\* The places where a quoted part may end: its quote again, or the end of a line.
Ends(from, i) == src[i] \in {src[from + 1]} \cup LineEnds /\ ~Hidden(from, i)

IsQuoted(from, to) ==
    /\ src[from + 1] \in Quotes
    /\ \A i \in from + 2 .. to - 1 : ~Ends(from, i)
    /\ to = Len(src) \/ (to > from + 1 /\ Ends(from, to))

IsComment(from, to) ==
    /\ to >= from + 2 /\ src[from + 1] = Slash /\ src[from + 2] = Slash
    /\ \A i \in from + 1 .. to : src[i] # Newline
    /\ to = Len(src) \/ src[to + 1] = Newline

BeginsComment(from) == from + 2 <= Len(src) /\ src[from + 1] = Slash /\ src[from + 2] = Slash

Other(c) == c \notin WordChars \cup OpChars \cup Brackets \cup Blanks \cup Quotes

\* The kinds that a part of the source may be read as.
KindsOf(from, to) ==
    {kind \in {"int"} : IsInt(from, to)}
    \cup {kind \in DOMAIN Keywords : IsWord(from, to) /\ Keywords[kind] = Part(from, to)}
    \cup {kind \in {"ident"} :
              IsWord(from, to) /\ \A k \in DOMAIN Keywords : Keywords[k] # Part(from, to)}
    \cup {kind \in {"op"} : IsOp(from, to) /\ ~BeginsComment(from)}
    \cup {kind \in {"str"} : IsQuoted(from, to) /\ src[from + 1] # "'"}
    \cup {kind \in {"char"} : IsQuoted(from, to) /\ src[from + 1] = "'"}
    \cup {kind \in Brackets : to = from + 1 /\ src[to] = kind}
    \cup {kind \in {"err"} : to = from + 1 /\ Other(src[to])}

---------------------------------------------------------------------------

Init == at = 0 /\ found = << >>

Skip ==
    \E to \in at + 1 .. Len(src) :
        /\ IsComment(at, to) \/ (to = at + 1 /\ src[to] \in Blanks)
        /\ at' = to /\ UNCHANGED <<src, found>>

Take ==
    \E to \in at + 1 .. Len(src) : \E kind \in KindsOf(at, to) :
        /\ found' = Append(found, [kind |-> kind, l |-> at, r |-> to])
        /\ at' = to /\ UNCHANGED src

Finish ==
    /\ at = Len(src) /\ (found = << >> \/ found[Len(found)].kind # "eof")
    /\ found' = Append(found, [kind |-> "eof", l |-> at, r |-> at])
    /\ UNCHANGED <<src, at>>

Next == Skip \/ Take \/ Finish

Spec == Init /\ [][Next]_vars
=============================================================================
