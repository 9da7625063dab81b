------------------------- MODULE NegiTokenize_proofs -------------------------
(***************************************************************************)
(* Theorems about the tokenizer, for every source: its tokens are in       *)
(* order, it fails only in a comment at the end of the source, and it      *)
(* implements NegiLex.  They rest on lemmas about the vectors; those about *)
(* strings and the string builder are here as well, for NegiReport_proofs, *)
(* where a step of Summarize is too large with SbAppend expanded.          *)
(***************************************************************************)
EXTENDS NegiTokenize, SequenceTheorems, TLAPS

---------------------------------------------------------------------------
(* Vectors.                                                                *)

TokKinds == DOMAIN Keywords \cup Brackets \cup {"int", "ident", "op", "str", "char", "err"}
Tokens == [kind : TokKinds \cup {"eof"}, l : Nat, r : Nat]
Slots == Tokens \cup {Zero}

\* A vector with elements of S in its block, the Zero of an unused place included.
VecOver(vec, S) == vec \in [data : Seq(S), len : Nat] /\ vec.len <= Len(vec.data)

VecTyped(vec) == VecOver(vec, Slots)

LEMMA FunctionIsSeq ==
    ASSUME NEW S, NEW n \in Nat, NEW f \in [1 .. n -> S]
    PROVE  f \in Seq(S) /\ Len(f) = n
OBVIOUS

LEMMA GrowKeeps ==
    ASSUME NEW S, Zero \in S, NEW vec, VecOver(vec, S)
    PROVE  /\ VecGrow(vec, 1) \in [data : Seq(S), len : Nat]
           /\ VecGrow(vec, 1).len = vec.len
           /\ vec.len + 1 <= Len(VecGrow(vec, 1).data)
           /\ \A i \in 1 .. vec.len : VecGrow(vec, 1).data[i] = vec.data[i]
<1> DEFINE capacity == 2 * Len(vec.data) + 1
           block == [i \in 1 .. capacity |-> IF i <= vec.len THEN vec.data[i] ELSE Zero]
<1>1. vec.data \in Seq(S) /\ vec.len \in Nat /\ vec.len <= Len(vec.data) /\ Len(vec.data) \in Nat
  BY LenProperties DEF VecOver
<1>2. CASE vec.len + 1 <= Len(vec.data)
  BY <1>1, <1>2 DEF VecGrow, Capacity, VecOver
<1>3. CASE ~(vec.len + 1 <= Len(vec.data))
  <2>1. \A i \in 1 .. capacity : (IF i <= vec.len THEN vec.data[i] ELSE Zero) \in S
    BY <1>1, ElementOfSeq
  <2>2. block \in Seq(S) /\ Len(block) = capacity
    <3>1. capacity \in Nat
      BY <1>1
    <3>2. block \in [1 .. capacity -> S]
      BY <2>1
    <3> QED BY <3>1, <3>2, FunctionIsSeq
  <2>3. VecGrow(vec, 1) = [vec EXCEPT !.data = block]
    <3>1. MemReserve(vec.data, vec.len, capacity) = block
      BY <1>1, <1>3 DEF MemReserve
    <3>2. VecGrow(vec, 1) = [vec EXCEPT !.data = MemReserve(vec.data, vec.len, capacity)]
      BY <1>3, Zenon DEF VecGrow, Capacity
    <3> QED BY <3>1, <3>2
  <2> QED BY <1>1, <2>2, <2>3 DEF VecOver
<1> QED BY <1>2, <1>3

\* vec_grow keeps its assertions, and an element that is added comes after all
\* others, which stay.
LEMMA PushAppends ==
    ASSUME NEW S, Zero \in S, NEW vec, VecOver(vec, S), NEW e \in S
    PROVE  /\ VecOver(VecPush(vec, e), S)
           /\ Elements(VecPush(vec, e)) = Append(Elements(vec), e)
           /\ VecOK(vec)
<1> DEFINE g == VecGrow(vec, 1)
           p == VecPush(vec, e)
<1>1. /\ vec = [data |-> vec.data, len |-> vec.len] /\ vec.data \in Seq(S) /\ vec.len \in Nat
      /\ vec.len <= Len(vec.data) /\ Len(vec.data) \in Nat
  BY LenProperties DEF VecOver
<1>2. /\ g = [data |-> g.data, len |-> vec.len] /\ g.data \in Seq(S)
      /\ vec.len + 1 <= Len(g.data) /\ Len(g.data) \in Nat
      /\ \A i \in 1 .. vec.len : g.data[i] = vec.data[i]
  BY GrowKeeps, LenProperties
<1> DEFINE data == [g.data EXCEPT ![vec.len + 1] = e]
<1>3. p = [data |-> data, len |-> vec.len + 1]
  BY DEF VecPush
<1>4. /\ data \in Seq(S) /\ Len(data) = Len(g.data)
      /\ \A i \in 1 .. vec.len : data[i] = vec.data[i]
      /\ data[vec.len + 1] = e
  <2> HIDE DEF g
  <2> QED BY <1>1, <1>2, ExceptSeq
<1>5. VecOver(p, S)
  <2> HIDE DEF data, p
  <2> QED BY <1>1, <1>2, <1>3, <1>4 DEF VecOver
<1>6. Elements(p) = Append(Elements(vec), e)
  <2> HIDE DEF data, p
  <2>1. Elements(p) = SubSeq(data, 1, vec.len + 1)
    BY <1>3 DEF Elements
  <2>2. SubSeq(data, 1, vec.len + 1) \in Seq(S) /\ Len(SubSeq(data, 1, vec.len + 1)) = vec.len + 1
        /\ \A i \in 1 .. vec.len + 1 : SubSeq(data, 1, vec.len + 1)[i] = data[i]
    BY <1>1, <1>2, <1>4, SubSeqProperties
  <2>3. Elements(vec) \in Seq(S) /\ Len(Elements(vec)) = vec.len
        /\ \A i \in 1 .. vec.len : Elements(vec)[i] = vec.data[i]
    BY <1>1, SubSeqProperties DEF Elements
  <2>4. /\ Append(Elements(vec), e) \in Seq(S) /\ Len(Append(Elements(vec), e)) = vec.len + 1
        /\ \A i \in 1 .. vec.len : Append(Elements(vec), e)[i] = vec.data[i]
        /\ Append(Elements(vec), e)[vec.len + 1] = e
    BY <2>3, AppendProperties
  <2>5. \A i \in 1 .. vec.len + 1 : SubSeq(data, 1, vec.len + 1)[i] = Append(Elements(vec), e)[i]
    BY <1>1, <1>4, <2>2, <2>4
  <2> QED BY <2>1, <2>2, <2>4, <2>5, SeqEqual
<1>7. VecOK(vec)
  BY <1>1, <1>2 DEF VecOK, Capacity
<1> QED BY <1>5, <1>6, <1>7

---------------------------------------------------------------------------
(* Strings and the string builder.                                         *)

Chars == (STRING \ {Nul}) \cup Digits \cup {":", ".", ",", " ", "n", "e", "a", "r", "'", "!", Newline}
Texts == Seq(Chars)
Block == Chars \cup {Nul}

LEMMA NulNoChar == Nul \notin Chars
BY DEF Nul, Chars, Digits, Newline

\* The builder holds a text.
Holds(sb, text) ==
    /\ text \in Texts /\ sb.size = Len(text)
    /\ sb = [data |-> sb.data, size |-> sb.size]
    /\ sb.data \in Seq(Block) /\ Len(text) < Len(sb.data)
    /\ \A i \in 1 .. Len(text) : sb.data[i] = text[i]
    /\ sb.data[Len(text) + 1] = Nul

\* A string ends at its first Nul.
LEMMA HeldContent ==
    ASSUME NEW sb, NEW text, Holds(sb, text)
    PROVE  Content(sb.data) = text /\ SbOK(sb)
<1> DEFINE n == Len(text)
           block == sb.data
<1>1. n \in Nat /\ Len(block) \in Nat /\ n + 1 \in 1 .. Len(block) /\ block \in Seq(Block)
  BY LenProperties DEF Holds, Texts
<1>2. \A i \in 1 .. n : block[i] = text[i] /\ text[i] \in Chars /\ block[i] # Nul
  <2>1. \A i \in 1 .. n : block[i] = text[i] /\ text[i] \in Chars
    BY ElementOfSeq DEF Holds, Texts
  <2> QED BY <2>1, NulNoChar
<1>3. block[n + 1] = Nul
  BY DEF Holds
<1> HIDE DEF n, block
<1>4. StrLen(block) = n
  <2> DEFINE Ends(i) == block[i] = Nul /\ \A j \in 1 .. i - 1 : block[j] # Nul
             at == CHOOSE i \in 1 .. Len(block) : Ends(i)
  <2>1. Ends(n + 1)
    BY <1>1, <1>2, <1>3
  <2>2. at \in 1 .. Len(block) /\ Ends(at)
    <3> HIDE DEF Ends
    <3> QED BY <1>1, <2>1
  <2>3. at = n + 1
    <3> HIDE DEF at
    <3>1. ~(at < n + 1)
      BY <1>1, <1>2, <2>2
    <3>2. ~(at > n + 1)
      BY <1>1, <1>3, <2>2
    <3> QED BY <1>1, <2>2, <3>1, <3>2
  <2>4. StrLen(block) = at - 1
    BY DEF StrLen
  <2> HIDE DEF at
  <2> QED BY <1>1, <2>3, <2>4
<1>5. Content(block) = text
  <2>1. Content(block) = SubSeq(block, 1, n)
    BY <1>4 DEF Content
  <2>2. \A i \in 1 .. n : block[i] \in Chars
    BY <1>2
  <2>3. SubSeq(block, 1, n) \in Seq(Chars) /\ Len(SubSeq(block, 1, n)) = n
        /\ \A i \in 1 .. n : SubSeq(block, 1, n)[i] = block[i]
    BY <1>1, <2>2, SubSeqProperties
  <2>4. text \in Seq(Chars) /\ Len(text) = n
    BY DEF Holds, Texts, n
  <2>5. \A i \in 1 .. n : SubSeq(block, 1, n)[i] = text[i]
    BY <1>2, <2>3
  <2>6. SubSeq(block, 1, n) = text
    BY <2>3, <2>4, <2>5, SeqEqual
  <2> QED BY <2>1, <2>6
<1>6. SbOK(sb)
  BY <1>1, <1>4 DEF SbOK, SbCapacity, Holds, n, block
<1> QED BY <1>5, <1>6 DEF block

\* strcpy to a place of a block that has the room.
LEMMA CopyPuts ==
    ASSUME NEW block \in Seq(Block), NEW at \in Nat, NEW str \in Texts,
           at + Len(str) + 1 <= Len(block)
    PROVE  LET c == Copied(block, at, str) IN
           /\ c \in Seq(Block) /\ Len(c) = Len(block)
           /\ \A i \in 1 .. at : c[i] = block[i]
           /\ \A i \in 1 .. Len(str) : c[at + i] = str[i]
           /\ c[at + Len(str) + 1] = Nul
<1> DEFINE n == Len(block)
           k == Len(str)
           c == [i \in 1 .. n |-> IF i - at \in 1 .. k THEN str[i - at]
                                  ELSE IF i = at + k + 1 THEN Nul ELSE block[i]]
<1>1. n \in Nat /\ k \in Nat /\ DOMAIN block = 1 .. n /\ DOMAIN str = 1 .. k
      /\ at + k + 1 <= n
  BY LenProperties DEF Texts
<1>2. /\ \A i \in 1 .. n : block[i] \in Block
      /\ \A i \in 1 .. k : str[i] \in Block
      /\ Nul \in Block
  <2>1. \A i \in 1 .. k : str[i] \in Chars
    BY ElementOfSeq DEF Texts
  <2>2. \A i \in 1 .. n : block[i] \in Block
    BY ElementOfSeq
  <2> QED BY <2>1, <2>2 DEF Block
<1>3. Copied(block, at, str) = c
  BY <1>1 DEF Copied
<1> HIDE DEF n, k
<1>4. c \in [1 .. n -> Block]
  BY <1>1, <1>2
<1>5. /\ \A i \in 1 .. at : c[i] = block[i]
      /\ \A i \in 1 .. k : c[at + i] = str[i]
      /\ c[at + k + 1] = Nul
  <2>1. \A i \in 1 .. at : c[i] = block[i]
    BY <1>1
  <2>2. ASSUME NEW i \in 1 .. k PROVE c[at + i] = str[i]
    <3>1. at + i \in 1 .. n /\ (at + i) - at = i
      BY <1>1
    <3> QED BY <3>1
  <2>3. c[at + k + 1] = Nul
    <3>1. at + k + 1 \in 1 .. n /\ (at + k + 1) - at \notin 1 .. k
      BY <1>1
    <3> QED BY <3>1
  <2> QED BY <2>1, <2>2, <2>3
<1>6. c \in Seq(Block) /\ Len(c) = n
  <2> HIDE DEF c
  <2> QED BY <1>1, <1>4, FunctionIsSeq
<1> HIDE DEF c
<1> QED BY <1>3, <1>5, <1>6 DEF n, k

\* sb_reserve moves the text to a block with the room asked for.
LEMMA ReserveHolds ==
    ASSUME NEW sb, NEW text, Holds(sb, text), NEW capacity \in Nat
    PROVE  /\ Holds(SbReserve(sb, capacity), text)
           /\ capacity < Len(SbReserve(sb, capacity).data)
           /\ SbReserve(sb, capacity).size = sb.size
<1>1. /\ text \in Texts /\ Len(text) \in Nat /\ Len(sb.data) \in Nat /\ Len(text) < Len(sb.data)
      /\ sb = [data |-> sb.data, size |-> sb.size] /\ sb.size = Len(text)
  BY LenProperties DEF Holds, Texts
<1>2. CASE SbCapacity(sb) >= capacity
  BY <1>1, <1>2 DEF SbReserve, SbCapacity
<1>3. CASE ~(SbCapacity(sb) >= capacity)
  <2> DEFINE block == MemAlloc(capacity + 1, Nul)
             c == Copied(block, 0, text)
             larger == [sb EXCEPT !.data = c]
  <2>1. SbReserve(sb, capacity) = larger
    BY <1>3, HeldContent DEF SbReserve
  <2>2. block \in Seq(Block) /\ Len(block) = capacity + 1
    <3>3. Nul \in Block
      BY DEF Block
    <3>1. block \in [1 .. capacity + 1 -> Block]
      BY <3>3 DEF MemAlloc
    <3>2. capacity + 1 \in Nat
      OBVIOUS
    <3> HIDE DEF block
    <3> QED BY <3>1, <3>2, FunctionIsSeq
  <2>3. 0 + Len(text) + 1 <= Len(block)
    BY <1>1, <1>3, <2>2 DEF SbCapacity
  <2>4. /\ c \in Seq(Block) /\ Len(c) = capacity + 1
        /\ \A i \in 1 .. Len(text) : c[0 + i] = text[i]
        /\ c[0 + Len(text) + 1] = Nul
    <3>1. 0 \in Nat /\ block \in Seq(Block) /\ text \in Texts
      BY <1>1, <2>2
    <3> HIDE DEF block
    <3> QED BY <2>2, <2>3, <3>1, CopyPuts, Zenon
  <2> HIDE DEF c
  <2>5. larger.data = c /\ larger.size = sb.size /\ larger = [data |-> c, size |-> sb.size]
    BY <1>1
  <2> HIDE DEF larger
  <2>6. Holds(larger, text)
    <3>1. \A i \in 1 .. Len(text) : c[i] = text[i]
      BY <2>4
    <3>2. c[Len(text) + 1] = Nul
      BY <1>1, <2>4
    <3>3. Len(text) < Len(c)
      BY <1>1, <2>2, <2>3, <2>4
    <3> QED BY <1>1, <2>4, <2>5, <3>1, <3>2, <3>3 DEF Holds
  <2>7. capacity < Len(larger.data)
    BY <2>4, <2>5
  <2> QED BY <2>1, <2>5, <2>6, <2>7
<1> QED BY <1>2, <1>3

\* sb_append loses nothing, and adds the whole string.
LEMMA AppendHolds ==
    ASSUME NEW sb, NEW text, Holds(sb, text), NEW str \in Texts
    PROVE  Holds(SbAppend(sb, str), text \o str)
<1>1. /\ text \in Texts /\ Len(text) \in Nat /\ Len(sb.data) \in Nat /\ Len(text) < Len(sb.data)
      /\ sb.size = Len(text) /\ Len(str) \in Nat
  BY LenProperties DEF Holds, Texts
<1>2. CASE str = << >>
  <2>1. SbAppend(sb, str) = sb
    BY <1>2, Zenon DEF SbAppend
  <2>2. text \o str = text
    BY <1>1, <1>2, ConcatEmptySeq DEF Texts
  <2> QED BY <2>1, <2>2
<1>3. CASE str # << >>
  <2> DEFINE size == sb.size + Len(str)
             larger == SbReserve(sb, size + SbCapacity(sb))
             room == IF size > SbCapacity(sb) THEN larger ELSE sb
             c == Copied(room.data, sb.size, str)
             more == [room EXCEPT !.data = Copied(@, sb.size, str), !.size = size]
  <2>1. SbAppend(sb, str) = more
    BY <1>3, Zenon DEF SbAppend
  <2>2. size \in Nat /\ size + SbCapacity(sb) \in Nat
    <3>1. SbCapacity(sb) \in Nat
      BY <1>1 DEF SbCapacity
    <3> QED BY <1>1, <3>1
  <2>3. Holds(room, text) /\ size < Len(room.data) /\ room.size = sb.size
    <3>1. CASE size > SbCapacity(sb)
      <4> HIDE DEF size
      <4>1. Holds(larger, text) /\ larger.size = sb.size
            /\ size + SbCapacity(sb) < Len(larger.data)
        BY <2>2, ReserveHolds
      <4>2. SbCapacity(sb) \in Nat /\ Len(larger.data) \in Nat
        <5> HIDE DEF larger
        <5> QED BY <1>1, <4>1, LenProperties DEF SbCapacity, Holds
      <4> HIDE DEF larger
      <4> QED BY <2>2, <3>1, <4>1, <4>2
    <3>2. CASE ~(size > SbCapacity(sb))
      BY <1>1, <2>2, <3>2 DEF SbCapacity
    <3> QED BY <3>1, <3>2
  <2> HIDE DEF room
  <2>4. /\ room = [data |-> room.data, size |-> room.size] /\ room.data \in Seq(Block)
        /\ Len(room.data) \in Nat /\ \A i \in 1 .. Len(text) : room.data[i] = text[i]
    BY <2>3, LenProperties DEF Holds
  <2>5. /\ c \in Seq(Block) /\ Len(c) = Len(room.data)
        /\ \A i \in 1 .. Len(text) : c[i] = room.data[i]
        /\ \A i \in 1 .. Len(str) : c[Len(text) + i] = str[i]
        /\ c[Len(text) + Len(str) + 1] = Nul
    <3>1. Len(text) + Len(str) + 1 <= Len(room.data)
      BY <1>1, <2>3, <2>4
    <3>2. c = Copied(room.data, Len(text), str)
      BY <1>1
    <3> HIDE DEF c
    <3> QED BY <1>1, <2>4, <3>1, <3>2, CopyPuts
  <2>6. more.data = c /\ more.size = size /\ more = [data |-> c, size |-> size]
    <3> DEFINE d == room.data
               k == room.size
    <3>1. room = [data |-> d, size |-> k]
      BY <2>4
    <3>2. more = [room EXCEPT !.data = c, !.size = size]
      OBVIOUS
    <3> HIDE DEF d, k, c, size, more
    <3> QED BY <3>1, <3>2
  <2>7. /\ text \o str \in Texts /\ Len(text \o str) = Len(text) + Len(str)
        /\ \A i \in 1 .. Len(text) + Len(str) :
              (text \o str)[i] = IF i <= Len(text) THEN text[i] ELSE str[i - Len(text)]
    BY <1>1, ConcatProperties DEF Texts
  <2>8. \A i \in 1 .. Len(text) + Len(str) : c[i] = (text \o str)[i]
    <3> HIDE DEF c
    <3> TAKE i \in 1 .. Len(text) + Len(str)
    <3>1. CASE i <= Len(text)
      <4>1. i \in 1 .. Len(text)
        BY <3>1
      <4> QED BY <2>4, <2>5, <2>7, <3>1, <4>1
    <3>2. CASE ~(i <= Len(text))
      <4>1. i - Len(text) \in 1 .. Len(str) /\ Len(text) + (i - Len(text)) = i
        BY <1>1, <3>2
      <4>2. c[Len(text) + (i - Len(text))] = str[i - Len(text)]
        BY <2>5, <4>1
      <4> QED BY <2>7, <3>2, <4>1, <4>2
    <3> QED BY <3>1, <3>2
  <2>9. size = Len(text \o str) /\ Len(text \o str) < Len(c)
    BY <1>1, <2>3, <2>4, <2>5, <2>7
  <2> HIDE DEF c, more, size
  <2> QED BY <1>1, <2>1, <2>5, <2>6, <2>7, <2>8, <2>9 DEF Holds
<1> QED BY <1>2, <1>3

LEMMA NewHolds == Holds(SbNew, << >>)
<1>1. <<Nul>> \in Seq(Block) /\ Len(<<Nul>>) = 1 /\ <<Nul>>[1] = Nul
  BY DEF Block
<1>2. << >> \in Texts /\ Len(<< >>) = 0
  BY EmptySeq DEF Texts
<1> QED BY <1>1, <1>2 DEF Holds, SbNew

\* A part of the source is a text.
LEMMA SliceText ==
    ASSUME NEW str \in Seq(STRING \ {Nul}), NEW from \in Nat, NEW to \in Nat, to <= Len(str)
    PROVE  Slice(str, from, to) \in Texts
<1>1. Len(str) \in Nat
  BY LenProperties
<1>2. \A i \in from + 1 .. to : i \in 1 .. Len(str)
  BY <1>1
<1>3. \A i \in from + 1 .. to : str[i] \in STRING \ {Nul}
  BY <1>2, ElementOfSeq, Zenon
<1>4. \A i \in from + 1 .. to : str[i] \in Chars
  BY <1>3, Zenon DEF Chars
<1>5. from + 1 \in Int /\ to \in Int
  OBVIOUS
<1> QED BY <1>4, <1>5, SubSeqProperties, Zenon DEF Slice, Texts

---------------------------------------------------------------------------
(* Characters.                                                             *)

\* What the tokenizer relies on: the Nul after the source belongs to no token, and
\* no quote or line end can be taken for a backslash.
LEMMA Distinct ==
    /\ Nul \notin Blanks \cup IdentChars \cup Digits \cup Quotes \cup OpChars \cup {Newline, Backslash, "/"}
    /\ Backslash \notin Quotes \cup {"\r", Newline}
    /\ "/" # Newline
BY DEF Nul, Blanks, IdentChars, Letters, Digits, Quotes, OpChars, Newline, Backslash

LEMMA Kinds == "eof" \notin TokKinds /\ "ident" \notin DOMAIN Keywords
<1>1. DOMAIN Keywords = {"let", "if", "else", "while", "break", "fun", "return"}
  BY DEF Keywords
<1> QED BY <1>1 DEF TokKinds, Brackets

---------------------------------------------------------------------------
(* The inductive invariant.                                                *)

Modes == {"next", "comment", "int", "word", "op", "quoted", "done", "crash"}

TypeInv ==
    /\ src \in Seq(STRING \ {Nul})
    /\ l \in Nat /\ r \in Nat /\ l <= r /\ r <= Len(src)
    /\ mode \in Modes
    /\ VecTyped(toks) /\ Toks \in Seq(Tokens)

OrderInv ==
    /\ \A i \in 1 .. Len(Toks) :
          /\ Toks[i].r <= At
          /\ Toks[i].l < Toks[i].r \/ (Toks[i].kind = "eof" /\ Toks[i].l = Toks[i].r)
          /\ i > 1 => Toks[i - 1].r <= Toks[i].l
    /\ mode # "done" => \A i \in 1 .. Len(Toks) : Toks[i].kind # "eof"
    /\ mode = "done" => r = Len(src)

\* What was read of the comment that begins at l.
CommentInv ==
    mode \in {"comment", "crash"} =>
        /\ l + 2 <= Len(src) /\ src[l + 1] = "/" /\ src[l + 2] = "/"
        /\ \A i \in l + 1 .. r : src[i] # Newline
        /\ mode = "crash" => r = Len(src)

\* What was read of the token that begins at l.
PartInv ==
    /\ mode = "int" => l < Len(src) /\ src[l + 1] \in Digits /\ Lexes!All(l, r, Digits)
    /\ mode = "word" => l < r /\ src[l + 1] \notin Digits /\ Lexes!All(l, r, IdentChars)
    /\ mode = "op" => /\ l < Len(src) /\ src[l + 1] \in OpChars /\ Lexes!All(l, r, OpChars)
                     /\ ~Lexes!BeginsComment(l)

\* The backslashes before the character after the place are even in number, so that
\* none hides it.
Unhidden(from, to) ==
    \E k \in 0 .. to - from - 1 :
        /\ k % 2 = 0
        /\ \A j \in to + 1 - k .. to : src[j] = Backslash
        /\ src[to - k] # Backslash

\* What was read of the quoted token that begins at l: nothing that ends it, and
\* no escape is half read.
QuotedInv ==
    mode = "quoted" =>
        /\ l < r /\ src[l + 1] \in Quotes
        /\ \A i \in l + 2 .. r : ~Lexes!Ends(l, i)
        /\ r < Len(src) => Unhidden(l, r)

LexInv == TypeInv /\ OrderInv /\ CommentInv /\ PartInv /\ QuotedInv

---------------------------------------------------------------------------
(* Steps.                                                                  *)

LEMMA InitInv == Init => LexInv /\ Lexes!Init
<1> SUFFICES ASSUME Init PROVE LexInv /\ Lexes!Init
  OBVIOUS
<1>1. src \in Seq(STRING \ {Nul}) /\ Len(src) \in Nat
  BY SourcesAssumption, LenProperties DEF Init
<1>2. toks = [data |-> << >>, len |-> 0] /\ VecTyped(toks) /\ Toks = << >>
  <2>1. toks = [data |-> << >>, len |-> 0]
    BY DEF Init, VecNew
  <2>2. << >> \in Seq(Slots) /\ Len(<< >>) = 0
    BY EmptySeq
  <2>3. VecTyped(toks)
    BY <2>1, <2>2 DEF VecTyped, VecOver
  <2>4. Toks = SubSeq(<< >>, 1, 0)
    BY <2>1 DEF Toks, Elements
  <2>5. Toks = << >>
    BY <2>4, SubSeqEmpty, EmptySeq
  <2> QED BY <2>1, <2>3, <2>5
<1>3. << >> \in Seq(Tokens) /\ Len(<< >>) = 0
  BY EmptySeq
<1>4. TypeInv /\ OrderInv /\ CommentInv /\ PartInv /\ QuotedInv
  BY <1>1, <1>2, <1>3 DEF Init, TypeInv, OrderInv, CommentInv, PartInv, QuotedInv, Modes
<1>5. Lexes!Init
  BY <1>2 DEF Init, Lexes!Init, At
<1> QED BY <1>4, <1>5 DEF LexInv

\* The characters of the source are no Nul, so that a place with another character
\* than that is in the source.
LEMMA Here ==
    ASSUME TypeInv, NEW i \in Nat
    PROVE  /\ i < Len(src) => Inside(i) /\ Char(i) = src[i + 1] /\ Char(i) # Nul
           /\ ~(i < Len(src)) => ~Inside(i) /\ Char(i) = Nul
           /\ Len(src) \in Nat
BY ElementOfSeq, LenProperties DEF TypeInv, Inside, Char

\* A token that is added after the others keeps the tokens in order.
LEMMA TokenAdded ==
    ASSUME LexInv, mode # "done", src' = src,
           NEW kind \in TokKinds, NEW from \in Nat, NEW to \in Nat, At <= from, from < to, to <= Len(src),
           toks' = VecPush(toks, Token(kind, from, to)), mode' = "next", r' = to, l' \in Nat, l' <= r'
    PROVE  LexInv' /\ Toks' = Append(Toks, Token(kind, from, to))
<1> DEFINE token == Token(kind, from, to)
<1>1. token \in Tokens /\ token \in Slots /\ token.kind = kind /\ token.l = from /\ token.r = to
  BY DEF Token, Tokens, Slots
<1>2. VecTyped(toks') /\ Toks' = Append(Toks, token)
  BY <1>1, PushAppends DEF LexInv, TypeInv, Toks, VecTyped, Slots
<1> HIDE DEF token
<1>3. Toks \in Seq(Tokens) /\ Len(Toks) \in Nat /\ \A i \in 1 .. Len(Toks) : Toks[i] \in Tokens
  BY ElementOfSeq, LenProperties DEF LexInv, TypeInv
<1>4. /\ Toks' \in Seq(Tokens) /\ Len(Toks') = Len(Toks) + 1
      /\ \A i \in 1 .. Len(Toks) : Toks'[i] = Toks[i]
      /\ Toks'[Len(Toks) + 1] = token
  BY <1>1, <1>2, <1>3, AppendProperties
<1>5. TypeInv'
  BY <1>2, <1>4 DEF LexInv, TypeInv, Modes
<1>6. OrderInv'
  <2>1. At' = to /\ At \in Nat
    BY DEF At, LexInv, TypeInv
  <2>2. kind # "eof"
    BY Kinds
  <2>3. \A i \in 1 .. Len(Toks) : Toks[i].r <= At /\ Toks[i].r \in Nat /\ Toks[i].kind # "eof"
    BY <1>3 DEF LexInv, OrderInv, Tokens
  <2>4. \A i \in 1 .. Len(Toks') :
           /\ Toks'[i].r <= At' /\ Toks'[i].kind # "eof"
           /\ Toks'[i].l < Toks'[i].r
           /\ i > 1 => Toks'[i - 1].r <= Toks'[i].l
    <3> SUFFICES ASSUME NEW i \in 1 .. Len(Toks')
                 PROVE  /\ Toks'[i].r <= At' /\ Toks'[i].kind # "eof"
                        /\ Toks'[i].l < Toks'[i].r
                        /\ i > 1 => Toks'[i - 1].r <= Toks'[i].l
      OBVIOUS
    <3>1. CASE i = Len(Toks) + 1
      BY <1>1, <1>3, <1>4, <2>1, <2>2, <2>3, <3>1
    <3>2. CASE i # Len(Toks) + 1
      <4>1. i \in 1 .. Len(Toks) /\ Toks'[i] = Toks[i] /\ (i > 1 => Toks'[i - 1] = Toks[i - 1])
        BY <1>3, <1>4, <3>2
      <4> QED BY <2>1, <2>3, <4>1 DEF LexInv, OrderInv
    <3> QED BY <3>1, <3>2
  <2>5. mode' # "done"
    OBVIOUS
  <2> QED BY <2>4, <2>5 DEF OrderInv
<1>7. CommentInv' /\ PartInv' /\ QuotedInv'
  BY DEF CommentInv, PartInv, QuotedInv
<1> QED BY <1>2, <1>5, <1>6, <1>7 DEF LexInv, token

\* The same, as a step of NegiLex.
LEMMA Taken ==
    ASSUME LexInv, mode # "done", src' = src,
           NEW kind \in TokKinds, NEW to \in Nat, At < to, to <= Len(src), kind \in Lexes!KindsOf(At, to),
           toks' = VecPush(toks, Token(kind, At, to)), mode' = "next", r' = to, l' \in Nat, l' <= r'
    PROVE  LexInv' /\ Lexes!Next
<1>1. At \in Nat /\ Len(src) \in Nat
  BY LenProperties DEF At, LexInv, TypeInv
<1>2. LexInv' /\ Toks' = Append(Toks, Token(kind, At, to))
  BY <1>1, TokenAdded
<1>3. to \in At + 1 .. Len(src)
  BY <1>1
<1>4. At' = to
  BY DEF At
<1>5. Lexes!Take
  BY <1>2, <1>3, <1>4 DEF Lexes!Take, At, Token
<1> QED BY <1>2, <1>5 DEF Lexes!Next

\* A step that adds no token.
LEMMA NoToken ==
    ASSUME LexInv, mode # "done", mode' # "done", mode' \in Modes, src' = src, toks' = toks,
           l' \in Nat, r' \in Nat, l' <= r', r' <= Len(src), At <= At'
    PROVE  TypeInv' /\ OrderInv' /\ Toks' = Toks
<1>1. Toks' = Toks
  BY DEF Toks
<1>2. TypeInv'
  BY <1>1 DEF LexInv, TypeInv
<1>3. At \in Nat /\ At' \in Nat
  BY DEF At, LexInv, TypeInv
<1>4. \A i \in 1 .. Len(Toks) : Toks[i] \in Tokens
  BY ElementOfSeq DEF LexInv, TypeInv
<1>5. \A i \in 1 .. Len(Toks) : Toks[i].r <= At /\ Toks[i].r \in Nat
  BY <1>4 DEF LexInv, OrderInv, Tokens
<1>6. \A i \in 1 .. Len(Toks) : Toks[i].r <= At'
  BY <1>3, <1>5
<1>7. OrderInv'
  BY <1>1, <1>6 DEF LexInv, OrderInv
<1> QED BY <1>1, <1>2, <1>7

LEMMA SkipBlankStep ==
    ASSUME LexInv, SkipBlank PROVE LexInv' /\ Lexes!Next
<1>1. TypeInv /\ mode = "next" /\ r \in Nat /\ Inside(r) /\ Char(r) \in Blanks
  BY DEF SkipBlank, AtHead, LexInv, TypeInv
<1>2. r < Len(src) /\ src[r + 1] \in Blanks /\ Len(src) \in Nat
  BY <1>1, Here
<1>3. mode' = "next" /\ src' = src /\ toks' = toks /\ l' = r /\ r' = r + 1 /\ At = r /\ At' = r + 1
  BY <1>1 DEF SkipBlank, At
<1>4. TypeInv' /\ OrderInv' /\ Toks' = Toks
  BY <1>1, <1>2, <1>3, NoToken DEF Modes
<1>5. LexInv'
  BY <1>3, <1>4 DEF LexInv, CommentInv, PartInv, QuotedInv
<1>6. r + 1 \in r + 1 .. Len(src)
  BY <1>1, <1>2
<1>7. Lexes!Skip
  BY <1>1, <1>2, <1>3, <1>4, <1>6 DEF Lexes!Skip
<1> QED BY <1>5, <1>7 DEF Lexes!Next

LEMMA SingleStep ==
    ASSUME LexInv, Single PROVE LexInv' /\ Lexes!Next
<1> DEFINE kind == IF Char(r) \in Brackets THEN Char(r) ELSE "err"
<1>1. /\ TypeInv /\ mode = "next" /\ r \in Nat /\ Inside(r) /\ At = r
      /\ Char(r) \notin Blanks \cup IdentChars \cup Quotes \cup OpChars
      /\ l' = r /\ r' = r + 1 /\ src' = src /\ mode' = "next"
      /\ toks' = VecPush(toks, Token(kind, At, r + 1))
  BY DEF Single, AtHead, LexInv, TypeInv, At
<1>2. r < Len(src) /\ Char(r) = src[r + 1] /\ Len(src) \in Nat
  BY <1>1, Here
<1>3. kind \in TokKinds
  BY DEF TokKinds
<1>4. kind \in Lexes!KindsOf(r, r + 1)
  <2>1. CASE Char(r) \in Brackets
    BY <1>2, <2>1 DEF Lexes!KindsOf
  <2>2. CASE Char(r) \notin Brackets
    BY <1>1, <1>2, <2>2 DEF Lexes!KindsOf, Lexes!Other, Lexes!WordChars, IdentChars
  <2> QED BY <2>1, <2>2
<1> HIDE DEF kind
<1> QED BY <1>1, <1>2, <1>3, <1>4, Taken

LEMMA EndStep ==
    ASSUME LexInv, End PROVE LexInv' /\ Lexes!Next
<1> DEFINE token == Token("eof", r, r)
<1>1. /\ TypeInv /\ mode = "next" /\ r \in Nat /\ ~Inside(r) /\ At = r /\ r <= Len(src) /\ Len(src) \in Nat
      /\ l' = r /\ r' = r /\ src' = src /\ mode' = "done" /\ At' = r
      /\ toks' = VecPush(toks, token)
  BY LenProperties DEF End, LexInv, TypeInv, At
<1>2. r = Len(src)
  BY <1>1 DEF Inside
<1>3. token \in Tokens /\ token \in Slots /\ token.kind = "eof" /\ token.l = r /\ token.r = r
  BY <1>1 DEF Token, Tokens, Slots
<1>4. VecTyped(toks') /\ Toks' = Append(Toks, token)
  BY <1>1, <1>3, PushAppends DEF LexInv, TypeInv, Toks, VecTyped, Slots
<1>5. Toks \in Seq(Tokens) /\ Len(Toks) \in Nat /\ \A i \in 1 .. Len(Toks) : Toks[i] \in Tokens
  BY ElementOfSeq, LenProperties DEF LexInv, TypeInv
<1> HIDE DEF token
<1>6. /\ Toks' \in Seq(Tokens) /\ Len(Toks') = Len(Toks) + 1
      /\ \A i \in 1 .. Len(Toks) : Toks'[i] = Toks[i]
      /\ Toks'[Len(Toks) + 1] = token
  BY <1>3, <1>4, <1>5, AppendProperties
<1>7. TypeInv'
  BY <1>1, <1>2, <1>4, <1>6 DEF TypeInv, Modes
<1>8. \A i \in 1 .. Len(Toks') :
         /\ Toks'[i].r <= r
         /\ Toks'[i].l < Toks'[i].r \/ (Toks'[i].kind = "eof" /\ Toks'[i].l = Toks'[i].r)
         /\ i > 1 => Toks'[i - 1].r <= Toks'[i].l
  <2> SUFFICES ASSUME NEW i \in 1 .. Len(Toks')
               PROVE  /\ Toks'[i].r <= r
                      /\ Toks'[i].l < Toks'[i].r \/ (Toks'[i].kind = "eof" /\ Toks'[i].l = Toks'[i].r)
                      /\ i > 1 => Toks'[i - 1].r <= Toks'[i].l
    OBVIOUS
  <2>1. CASE i = Len(Toks) + 1
    BY <1>1, <1>3, <1>5, <1>6, <2>1 DEF LexInv, OrderInv
  <2>2. CASE i # Len(Toks) + 1
    <3>1. i \in 1 .. Len(Toks) /\ Toks'[i] = Toks[i] /\ (i > 1 => Toks'[i - 1] = Toks[i - 1])
      BY <1>5, <1>6, <2>2
    <3> QED BY <1>1, <3>1 DEF LexInv, OrderInv
  <2> QED BY <2>1, <2>2
<1>9. OrderInv'
  BY <1>1, <1>2, <1>8 DEF OrderInv
<1>10. LexInv'
  BY <1>1, <1>7, <1>9 DEF LexInv, CommentInv, PartInv, QuotedInv
<1>11. Toks = << >> \/ Toks[Len(Toks)].kind # "eof"
  BY <1>1, <1>5, EmptySeq DEF LexInv, OrderInv
<1>12. Lexes!Finish
  BY <1>1, <1>2, <1>4, <1>11 DEF Lexes!Finish, token, Token
<1> QED BY <1>10, <1>12 DEF Lexes!Next

---------------------------------------------------------------------------
(* Comments, and the parts that are read as long as they go on.            *)

\* A step that enters an inner loop, or that stays in it, is none of NegiLex.
LEMMA Stutter ==
    ASSUME src' = src, Toks' = Toks, At' = At PROVE UNCHANGED Lexes!vars
BY DEF Lexes!vars, At

LEMMA EnterStep ==
    ASSUME LexInv, AtHead, NEW loop \in Modes \ {"next", "done"}, NEW count \in {0, 1}, Enter(loop, count)
    PROVE  /\ r < Len(src) /\ Char(r) = src[r + 1] /\ Len(src) \in Nat /\ r \in Nat
           /\ l' = r /\ r' = r + count /\ src' = src /\ mode' = loop
           /\ TypeInv' /\ OrderInv' /\ UNCHANGED Lexes!vars
<1>1. /\ TypeInv /\ mode = "next" /\ r \in Nat /\ Inside(r) /\ At = r
      /\ l' = r /\ r' = r + count /\ src' = src /\ mode' = loop /\ toks' = toks /\ At' = r
  BY DEF Enter, AtHead, LexInv, TypeInv, At
<1>2. r < Len(src) /\ Char(r) = src[r + 1] /\ Len(src) \in Nat
  BY <1>1, Here
<1>3. TypeInv' /\ OrderInv' /\ Toks' = Toks
  BY <1>1, <1>2, NoToken
<1> QED BY <1>1, <1>2, <1>3, Stutter

LEMMA BeginCommentStep ==
    ASSUME LexInv, BeginComment PROVE LexInv' /\ UNCHANGED Lexes!vars
<1>1. /\ r < Len(src) /\ Char(r) = src[r + 1] /\ Len(src) \in Nat /\ r \in Nat
      /\ l' = r /\ r' = r /\ src' = src /\ mode' = "comment"
      /\ TypeInv' /\ OrderInv' /\ UNCHANGED Lexes!vars
  BY EnterStep DEF BeginComment, Modes
<1>2. Char(r) = "/" /\ Char(r + 1) = "/" /\ TypeInv
  BY DEF BeginComment, BeginsComment, LexInv
<1>3. r + 1 < Len(src) /\ src[r + 1] = "/" /\ src[r + 2] = "/"
  <2>1. r + 1 \in Nat /\ (r + 1) + 1 = r + 2
    BY <1>1
  <2> QED BY <1>1, <1>2, <2>1, Here, Distinct
<1> QED BY <1>1, <1>3 DEF LexInv, CommentInv, PartInv, QuotedInv

LEMMA BeginIntStep ==
    ASSUME LexInv, BeginInt PROVE LexInv' /\ UNCHANGED Lexes!vars
<1>1. /\ r < Len(src) /\ Char(r) = src[r + 1] /\ Len(src) \in Nat /\ r \in Nat
      /\ l' = r /\ r' = r /\ src' = src /\ mode' = "int"
      /\ TypeInv' /\ OrderInv' /\ UNCHANGED Lexes!vars
  BY EnterStep DEF BeginInt, Modes
<1>2. src[r + 1] \in Digits
  BY <1>1 DEF BeginInt
<1> QED BY <1>1, <1>2 DEF LexInv, CommentInv, PartInv, QuotedInv, Lexes!All

LEMMA BeginWordStep ==
    ASSUME LexInv, BeginWord PROVE LexInv' /\ UNCHANGED Lexes!vars
<1>1. /\ r < Len(src) /\ Char(r) = src[r + 1] /\ Len(src) \in Nat /\ r \in Nat
      /\ l' = r /\ r' = r + 1 /\ src' = src /\ mode' = "word"
      /\ TypeInv' /\ OrderInv' /\ UNCHANGED Lexes!vars
  BY EnterStep DEF BeginWord, Modes
<1>2. src[r + 1] \in IdentChars \ Digits
  BY <1>1 DEF BeginWord
<1> QED BY <1>1, <1>2 DEF LexInv, CommentInv, PartInv, QuotedInv, Lexes!All

LEMMA BeginOpStep ==
    ASSUME LexInv, BeginOp PROVE LexInv' /\ UNCHANGED Lexes!vars
<1>1. /\ r < Len(src) /\ Char(r) = src[r + 1] /\ Len(src) \in Nat /\ r \in Nat
      /\ l' = r /\ r' = r /\ src' = src /\ mode' = "op"
      /\ TypeInv' /\ OrderInv' /\ UNCHANGED Lexes!vars
  BY EnterStep DEF BeginOp, Modes
<1>2. src[r + 1] \in OpChars
  BY <1>1 DEF BeginOp
<1>3. ~(r + 2 <= Len(src) /\ src[r + 1] = "/" /\ src[r + 2] = "/")
  <2>1. r + 1 \in Nat /\ (r + 1) + 1 = r + 2 /\ (r + 2 <= Len(src) => r + 1 < Len(src))
    BY <1>1
  <2>2. r + 1 < Len(src) => Char(r + 1) = src[r + 2]
    BY <2>1, Here DEF LexInv
  <2> QED BY <1>1, <2>1, <2>2 DEF BeginOp, BeginsComment
<1>4. ~Lexes!BeginsComment(l)'
  BY <1>1, <1>3 DEF Lexes!BeginsComment
<1> QED BY <1>1, <1>2, <1>4 DEF LexInv, CommentInv, PartInv, QuotedInv, Lexes!All

\* The inner loops move r on.
LEMMA FurtherStep ==
    ASSUME LexInv, mode \in Modes \ {"next", "done"}, NEW count \in {1, 2}, Further(count),
           r + count <= Len(src)
    PROVE  /\ l' = l /\ r' = r + count /\ src' = src /\ mode' = mode
           /\ TypeInv' /\ OrderInv' /\ UNCHANGED Lexes!vars
<1>1. /\ TypeInv /\ r \in Nat /\ l \in Nat /\ l <= r
      /\ l' = l /\ r' = r + count /\ src' = src /\ mode' = mode /\ toks' = toks /\ At' = At /\ At \in Nat
  BY DEF Further, LexInv, TypeInv, At
<1>2. TypeInv' /\ OrderInv' /\ Toks' = Toks
  BY <1>1, NoToken
<1> QED BY <1>1, <1>2, Stutter

LEMMA CommentCharStep ==
    ASSUME LexInv, CommentChar PROVE LexInv' /\ UNCHANGED Lexes!vars
<1>1. mode = "comment" /\ TypeInv /\ r \in Nat /\ l \in Nat /\ l <= r /\ Inside(r) /\ Char(r) # Newline
  BY DEF CommentChar, LexInv, TypeInv
<1>2. r < Len(src) /\ Char(r) = src[r + 1] /\ Len(src) \in Nat
  BY <1>1, Here
<1>3. /\ l' = l /\ r' = r + 1 /\ src' = src /\ mode' = mode
      /\ TypeInv' /\ OrderInv' /\ UNCHANGED Lexes!vars
  BY <1>1, <1>2, FurtherStep DEF CommentChar, Modes
<1>4. CommentInv'
  BY <1>1, <1>2, <1>3 DEF LexInv, CommentInv
<1> QED BY <1>1, <1>3, <1>4 DEF LexInv, PartInv, QuotedInv

LEMMA CommentEndStep ==
    ASSUME LexInv, CommentEnd PROVE LexInv' /\ Lexes!Next
<1>1. /\ TypeInv /\ r \in Nat /\ l \in Nat /\ l <= r /\ r <= Len(src) /\ Char(r) = Newline
      /\ l' = l /\ r' = r /\ src' = src /\ mode = "comment" /\ mode' = "next" /\ toks' = toks
      /\ At = l /\ At' = r
  BY DEF CommentEnd, LexInv, TypeInv, At
<1>2. r < Len(src) /\ src[r + 1] = Newline /\ Len(src) \in Nat
  BY <1>1, Here, Distinct
<1>3. TypeInv' /\ OrderInv' /\ Toks' = Toks
  BY <1>1, NoToken DEF Modes
<1>4. LexInv'
  BY <1>1, <1>3 DEF LexInv, CommentInv, PartInv, QuotedInv
<1>5. /\ src[l + 1] = "/" /\ src[l + 2] = "/"
      /\ \A i \in l + 1 .. r : src[i] # Newline
  BY <1>1 DEF LexInv, CommentInv
<1>6. r >= l + 2
  <2>1. r + 1 # l + 1 /\ r + 1 # l + 2
    BY <1>2, <1>5, Distinct
  <2> QED BY <1>1, <2>1
<1>7. Lexes!IsComment(l, r)
  BY <1>2, <1>5, <1>6 DEF Lexes!IsComment
<1>8. r \in l + 1 .. Len(src)
  BY <1>1, <1>2, <1>6
<1>9. Lexes!Skip
  BY <1>1, <1>3, <1>7, <1>8 DEF Lexes!Skip, At
<1> QED BY <1>4, <1>9 DEF Lexes!Next

LEMMA CommentOverrunStep ==
    ASSUME LexInv, CommentOverrun PROVE LexInv' /\ UNCHANGED Lexes!vars
<1>1. /\ TypeInv /\ r \in Nat /\ l \in Nat /\ l <= r /\ r <= Len(src) /\ ~Inside(r) /\ Len(src) \in Nat
      /\ l' = l /\ r' = r /\ src' = src /\ mode = "comment" /\ mode' = "crash" /\ toks' = toks
      /\ At = l /\ At' = l
  BY LenProperties DEF CommentOverrun, LexInv, TypeInv, At
<1>2. TypeInv' /\ OrderInv' /\ Toks' = Toks
  BY <1>1, NoToken DEF Modes
<1>3. r = Len(src)
  BY <1>1 DEF Inside
<1>4. CommentInv'
  BY <1>1, <1>3 DEF LexInv, CommentInv
<1> QED BY <1>1, <1>2, <1>4, Stutter DEF LexInv, PartInv, QuotedInv

LEMMA IntCharStep ==
    ASSUME LexInv, IntChar PROVE LexInv' /\ UNCHANGED Lexes!vars
<1>1. mode = "int" /\ TypeInv /\ r \in Nat /\ l \in Nat /\ l <= r /\ Char(r) \in Digits
  BY DEF IntChar, LexInv, TypeInv
<1>2. r < Len(src) /\ src[r + 1] \in Digits /\ Len(src) \in Nat
  BY <1>1, Here, Distinct
<1>3. /\ l' = l /\ r' = r + 1 /\ src' = src /\ mode' = mode
      /\ TypeInv' /\ OrderInv' /\ UNCHANGED Lexes!vars
  BY <1>1, <1>2, FurtherStep DEF IntChar, Modes
<1>4. Lexes!All(l, r + 1, Digits)
  BY <1>1, <1>2 DEF LexInv, PartInv, Lexes!All
<1>5. PartInv'
  BY <1>1, <1>3, <1>4 DEF LexInv, PartInv, Lexes!All, Lexes!BeginsComment
<1> QED BY <1>1, <1>3, <1>5 DEF LexInv, CommentInv, QuotedInv

LEMMA IntEndStep ==
    ASSUME LexInv, IntEnd PROVE LexInv' /\ Lexes!Next
<1>1. /\ TypeInv /\ r \in Nat /\ l \in Nat /\ l <= r /\ r <= Len(src) /\ mode = "int" /\ At = l
      /\ Char(r) \notin Digits /\ Len(src) \in Nat
      /\ l' = l /\ r' = r /\ src' = src /\ mode' = "next" /\ toks' = VecPush(toks, Token("int", At, r))
  BY LenProperties DEF IntEnd, TokAdd, LexInv, TypeInv, At
<1>2. l < Len(src) /\ src[l + 1] \in Digits /\ Lexes!All(l, r, Digits)
  BY <1>1 DEF LexInv, PartInv
<1>3. Lexes!Longest(r, Digits)
  BY <1>1, Here DEF Lexes!Longest
<1>4. l < r
  BY <1>1, <1>2, Here
<1>5. "int" \in Lexes!KindsOf(l, r) /\ "int" \in TokKinds
  BY <1>2, <1>3 DEF Lexes!KindsOf, Lexes!IsInt, TokKinds
<1> QED BY <1>1, <1>4, <1>5, Taken

LEMMA WordCharStep ==
    ASSUME LexInv, WordChar PROVE LexInv' /\ UNCHANGED Lexes!vars
<1>1. mode = "word" /\ TypeInv /\ r \in Nat /\ l \in Nat /\ l <= r /\ Char(r) \in IdentChars
  BY DEF WordChar, LexInv, TypeInv
<1>2. r < Len(src) /\ src[r + 1] \in IdentChars /\ Len(src) \in Nat
  BY <1>1, Here, Distinct
<1>3. /\ l' = l /\ r' = r + 1 /\ src' = src /\ mode' = mode
      /\ TypeInv' /\ OrderInv' /\ UNCHANGED Lexes!vars
  BY <1>1, <1>2, FurtherStep DEF WordChar, Modes
<1>4. Lexes!All(l, r + 1, IdentChars)
  BY <1>1, <1>2 DEF LexInv, PartInv, Lexes!All
<1>5. PartInv'
  BY <1>1, <1>3, <1>4 DEF LexInv, PartInv, Lexes!All, Lexes!BeginsComment
<1> QED BY <1>1, <1>3, <1>5 DEF LexInv, CommentInv, QuotedInv

LEMMA WordEndStep ==
    ASSUME LexInv, WordEnd PROVE LexInv' /\ Lexes!Next
<1> DEFINE text == Slice(src, l, r)
           kind == WordKind(text)
<1>1. /\ TypeInv /\ r \in Nat /\ l \in Nat /\ l <= r /\ r <= Len(src) /\ mode = "word" /\ At = l
      /\ Char(r) \notin IdentChars /\ Len(src) \in Nat
      /\ l' = l /\ r' = r /\ src' = src /\ mode' = "next" /\ toks' = VecPush(toks, Token(kind, At, r))
  BY LenProperties DEF WordEnd, TokAdd, LexInv, TypeInv, At
<1>2. l < r /\ src[l + 1] \notin Digits /\ Lexes!All(l, r, IdentChars)
  BY <1>1 DEF LexInv, PartInv
<1>3. Lexes!Longest(r, IdentChars)
  BY <1>1, Here DEF Lexes!Longest
<1>4. IdentChars = Lexes!WordChars
  BY DEF IdentChars, Lexes!WordChars
<1>5. Lexes!IsWord(l, r)
  BY <1>2, <1>3, <1>4 DEF Lexes!IsWord
<1>6. Lexes!Part(l, r) = text
  BY DEF Lexes!Part, Slice
<1>7. kind \in Lexes!KindsOf(l, r) /\ kind \in TokKinds
  <2> HIDE DEF text
  <2>1. CASE \E k \in DOMAIN Keywords : Keywords[k] = text
    <3>1. kind \in DOMAIN Keywords /\ Keywords[kind] = text
      BY <2>1 DEF WordKind
    <3> HIDE DEF kind
    <3> QED BY <1>5, <1>6, <3>1 DEF Lexes!KindsOf, TokKinds
  <2>2. CASE ~\E k \in DOMAIN Keywords : Keywords[k] = text
    <3>1. kind = "ident"
      BY <2>2 DEF WordKind
    <3> HIDE DEF kind
    <3> QED BY <1>5, <1>6, <2>2, <3>1 DEF Lexes!KindsOf, TokKinds
  <2> QED BY <2>1, <2>2
<1> HIDE DEF kind
<1> QED BY <1>1, <1>2, <1>7, Taken

LEMMA OpCharStep ==
    ASSUME LexInv, OpChar PROVE LexInv' /\ UNCHANGED Lexes!vars
<1>1. mode = "op" /\ TypeInv /\ r \in Nat /\ l \in Nat /\ l <= r /\ Char(r) \in OpChars
  BY DEF OpChar, LexInv, TypeInv
<1>2. r < Len(src) /\ src[r + 1] \in OpChars /\ Len(src) \in Nat
  BY <1>1, Here, Distinct
<1>3. /\ l' = l /\ r' = r + 1 /\ src' = src /\ mode' = mode
      /\ TypeInv' /\ OrderInv' /\ UNCHANGED Lexes!vars
  BY <1>1, <1>2, FurtherStep DEF OpChar, Modes
<1>4. Lexes!All(l, r + 1, OpChars)
  BY <1>1, <1>2 DEF LexInv, PartInv, Lexes!All
<1>5. PartInv'
  BY <1>1, <1>3, <1>4 DEF LexInv, PartInv, Lexes!All, Lexes!BeginsComment
<1> QED BY <1>1, <1>3, <1>5 DEF LexInv, CommentInv, QuotedInv

LEMMA OpEndStep ==
    ASSUME LexInv, OpEnd PROVE LexInv' /\ Lexes!Next
<1>1. /\ TypeInv /\ r \in Nat /\ l \in Nat /\ l <= r /\ r <= Len(src) /\ mode = "op" /\ At = l
      /\ Char(r) \notin OpChars /\ Len(src) \in Nat
      /\ l' = l /\ r' = r /\ src' = src /\ mode' = "next" /\ toks' = VecPush(toks, Token("op", At, r))
  BY LenProperties DEF OpEnd, TokAdd, LexInv, TypeInv, At
<1>2. /\ l < Len(src) /\ src[l + 1] \in OpChars /\ Lexes!All(l, r, OpChars)
      /\ ~Lexes!BeginsComment(l)
  BY <1>1 DEF LexInv, PartInv
<1>3. Lexes!Longest(r, OpChars)
  BY <1>1, Here DEF Lexes!Longest
<1>4. l < r
  BY <1>1, <1>2, Here
<1>5. "op" \in Lexes!KindsOf(l, r) /\ "op" \in TokKinds
  BY <1>2, <1>3 DEF Lexes!KindsOf, Lexes!IsOp, TokKinds
<1> QED BY <1>1, <1>4, <1>5, Taken

---------------------------------------------------------------------------
(* Quoted tokens.                                                          *)

\* A run of backslashes before a place has one length: when it is even, the character
\* after it is not hidden.
LEMMA EvenUnhidden ==
    ASSUME NEW from \in Nat, NEW to \in Nat, Unhidden(from, to)
    PROVE  ~Lexes!Hidden(from, to + 1)
<1> SUFFICES ASSUME Lexes!Hidden(from, to + 1) PROVE FALSE
  OBVIOUS
<1>1. PICK k \in 0 .. to - from - 1 :
          k % 2 = 0 /\ (\A j \in to + 1 - k .. to : src[j] = Backslash) /\ src[to - k] # Backslash
  BY DEF Unhidden
<1>2. PICK n \in 0 .. to - from - 1 :
          n % 2 = 1 /\ (\A j \in to + 1 - n .. to : src[j] = Backslash) /\ src[to - n] # Backslash
  <2>1. to + 1 - from - 2 = to - from - 1 /\ to + 1 - 1 = to /\ \A n \in Nat : to + 1 - n - 1 = to - n
    OBVIOUS
  <2> QED BY <2>1 DEF Lexes!Hidden
<1>3. CASE k < n
  <2>1. to - k \in to + 1 - n .. to
    BY <1>3
  <2> QED BY <1>1, <1>2, <2>1
<1>4. CASE n < k
  <2>1. to - n \in to + 1 - k .. to
    BY <1>4
  <2> QED BY <1>1, <1>2, <2>1
<1>5. CASE n = k
  BY <1>1, <1>2, <1>5
<1> QED BY <1>3, <1>4, <1>5

\* The backslash after an even run hides the character after it, and the run that
\* the two may make is even again.
LEMMA EvenHides ==
    ASSUME NEW from \in Nat, NEW to \in Nat, Unhidden(from, to), src[to + 1] = Backslash
    PROVE  Lexes!Hidden(from, to + 2) /\ Unhidden(from, to + 2)
<1>1. PICK k \in 0 .. to - from - 1 :
          k % 2 = 0 /\ (\A j \in to + 1 - k .. to : src[j] = Backslash) /\ src[to - k] # Backslash
  BY DEF Unhidden
<1>2. \A j \in to + 1 - k .. to + 1 : src[j] = Backslash
  BY <1>1
<1>3. Lexes!Hidden(from, to + 2)
  <2>1. /\ k + 1 \in 0 .. to + 2 - from - 2 /\ (k + 1) % 2 = 1
        /\ to + 2 - (k + 1) = to + 1 - k /\ to + 2 - 1 = to + 1 /\ to + 2 - (k + 1) - 1 = to - k
    BY <1>1
  <2> QED BY <1>1, <1>2, <2>1 DEF Lexes!Hidden
<1>4. CASE src[to + 2] = Backslash
  <2>1. /\ k + 2 \in 0 .. to + 2 - from - 1 /\ (k + 2) % 2 = 0
        /\ to + 2 + 1 - (k + 2) = to + 1 - k /\ to + 2 - (k + 2) = to - k
    BY <1>1
  <2>2. \A j \in to + 1 - k .. to + 2 : src[j] = Backslash
    BY <1>1, <1>2, <1>4
  <2> QED BY <1>1, <1>3, <2>1, <2>2 DEF Unhidden
<1>5. CASE src[to + 2] # Backslash
  <2>1. /\ 0 \in 0 .. to + 2 - from - 1 /\ 0 % 2 = 0 /\ to + 2 - 0 = to + 2
        /\ \A j \in to + 2 + 1 - 0 .. to + 2 : src[j] = Backslash
    BY <1>1
  <2> QED BY <1>3, <1>5, <2>1 DEF Unhidden
<1> QED BY <1>4, <1>5

LEMMA BeginQuotedStep ==
    ASSUME LexInv, BeginQuoted PROVE LexInv' /\ UNCHANGED Lexes!vars
<1>1. /\ r < Len(src) /\ Char(r) = src[r + 1] /\ Len(src) \in Nat /\ r \in Nat
      /\ l' = r /\ r' = r + 1 /\ src' = src /\ mode' = "quoted"
      /\ TypeInv' /\ OrderInv' /\ UNCHANGED Lexes!vars
  BY EnterStep DEF BeginQuoted, Modes
<1>2. src[r + 1] \in Quotes /\ src[r + 1] # Backslash
  BY <1>1, Distinct DEF BeginQuoted
<1>3. Unhidden(r, r + 1)
  <2>1. 0 \in 0 .. (r + 1) - r - 1 /\ 0 % 2 = 0 /\ (r + 1) - 0 = r + 1
    BY <1>1
  <2>2. \A j \in (r + 1) + 1 - 0 .. r + 1 : src[j] = Backslash
    BY <1>1
  <2> QED BY <1>2, <2>1, <2>2 DEF Unhidden
<1>4. QuotedInv'
  BY <1>1, <1>2, <1>3 DEF QuotedInv, Unhidden
<1> QED BY <1>1, <1>4 DEF LexInv, CommentInv, PartInv

\* What every step in a quoted token begins with.
LEMMA InQuoted ==
    ASSUME LexInv, mode = "quoted"
    PROVE  /\ TypeInv /\ l \in Nat /\ r \in Nat /\ l < r /\ r <= Len(src) /\ Len(src) \in Nat
           /\ At = l /\ Char(l) = src[l + 1] /\ src[l + 1] \in Quotes
           /\ \A i \in l + 2 .. r : ~Lexes!Ends(l, i)
           /\ r < Len(src) => Unhidden(l, r) /\ ~Lexes!Hidden(l, r + 1) /\ Char(r) = src[r + 1]
<1>1. /\ TypeInv /\ l \in Nat /\ r \in Nat /\ l < r /\ r <= Len(src) /\ Len(src) \in Nat /\ At = l
      /\ src[l + 1] \in Quotes
      /\ \A i \in l + 2 .. r : ~Lexes!Ends(l, i)
      /\ r < Len(src) => Unhidden(l, r)
  BY LenProperties DEF LexInv, TypeInv, QuotedInv, At
<1> QED BY <1>1, Here, EvenUnhidden

LEMMA QuotedEscapeStep ==
    ASSUME LexInv, QuotedEscape PROVE LexInv' /\ UNCHANGED Lexes!vars
<1>1. mode = "quoted" /\ Char(r) = Backslash
  BY DEF QuotedEscape
<1>2. r < Len(src) /\ src[r + 1] = Backslash
  BY <1>1, InQuoted, Here, Distinct
<1>3. ~Lexes!Ends(l, r + 1)
  BY <1>1, <1>2, InQuoted, Distinct DEF Lexes!Ends
<1>4. CASE r + 1 < Len(src)
  <2>1. Inside(r + 1)
    BY <1>4 DEF Inside
  <2>2. /\ l' = l /\ r' = r + 2 /\ src' = src /\ mode' = mode
        /\ TypeInv' /\ OrderInv' /\ UNCHANGED Lexes!vars
    BY <1>1, <1>4, <2>1, InQuoted, FurtherStep DEF QuotedEscape, Modes
  <2>3. Lexes!Hidden(l, r + 2) /\ Unhidden(l, r + 2)
    BY <1>1, <1>2, InQuoted, EvenHides
  <2>4. \A i \in l + 2 .. r + 2 : ~Lexes!Ends(l, i)
    <3>1. ~Lexes!Ends(l, r + 2)
      BY <2>3 DEF Lexes!Ends
    <3>2. \A i \in l + 2 .. r + 2 : i \in l + 2 .. r \/ i = r + 1 \/ i = r + 2
      BY <1>1, InQuoted
    <3> QED BY <1>1, <1>3, <3>1, <3>2, InQuoted
  <2>5. l \in Nat /\ r \in Nat /\ l < r /\ src[l + 1] \in Quotes
    BY <1>1, InQuoted
  <2>6. (\A i \in l + 2 .. r : ~Lexes!Ends(l, i))'
    BY <2>2, <2>4 DEF Lexes!Ends, Lexes!Hidden
  <2>7. Unhidden(l, r)'
    BY <2>2, <2>3 DEF Unhidden
  <2>8. (l < r /\ src[l + 1] \in Quotes)'
    BY <2>2, <2>5
  <2> QED BY <1>1, <2>2, <2>6, <2>7, <2>8 DEF LexInv, CommentInv, PartInv, QuotedInv
<1>5. CASE ~(r + 1 < Len(src))
  <2>1. ~Inside(r + 1)
    BY <1>5 DEF Inside
  <2>2. r + 1 = Len(src)
    BY <1>1, <1>2, <1>5, InQuoted
  <2>3. /\ l' = l /\ r' = r + 1 /\ src' = src /\ mode' = mode
        /\ TypeInv' /\ OrderInv' /\ UNCHANGED Lexes!vars
    BY <1>1, <2>1, <2>2, InQuoted, FurtherStep DEF QuotedEscape, Modes
  <2>4. \A i \in l + 2 .. r + 1 : ~Lexes!Ends(l, i)
    <3>1. \A i \in l + 2 .. r + 1 : i \in l + 2 .. r \/ i = r + 1
      BY <1>1, InQuoted
    <3> QED BY <1>1, <1>3, <3>1, InQuoted
  <2>5. l \in Nat /\ r \in Nat /\ l < r /\ src[l + 1] \in Quotes
    BY <1>1, InQuoted
  <2>6. (\A i \in l + 2 .. r : ~Lexes!Ends(l, i))'
    BY <2>3, <2>4 DEF Lexes!Ends, Lexes!Hidden
  <2>7. (l < r /\ src[l + 1] \in Quotes /\ ~(r < Len(src)))'
    BY <2>2, <2>3, <2>5
  <2> QED BY <1>1, <2>3, <2>6, <2>7 DEF LexInv, CommentInv, PartInv, QuotedInv
<1> QED BY <1>4, <1>5

LEMMA QuotedCharStep ==
    ASSUME LexInv, QuotedChar PROVE LexInv' /\ UNCHANGED Lexes!vars
<1>1. mode = "quoted" /\ r < Len(src) /\ Char(r) # Backslash /\ ~Closes(Char(r))
  BY DEF QuotedChar, Inside
<1>2. src[r + 1] # Backslash /\ ~Lexes!Ends(l, r + 1)
  BY <1>1, InQuoted DEF Lexes!Ends, Closes
<1>3. /\ l' = l /\ r' = r + 1 /\ src' = src /\ mode' = mode
      /\ TypeInv' /\ OrderInv' /\ UNCHANGED Lexes!vars
  BY <1>1, InQuoted, FurtherStep DEF QuotedChar, Modes
<1>4. \A i \in l + 2 .. r + 1 : ~Lexes!Ends(l, i)
  <2>1. \A i \in l + 2 .. r + 1 : i \in l + 2 .. r \/ i = r + 1
    BY <1>1, InQuoted
  <2> QED BY <1>1, <1>2, <2>1, InQuoted
<1>5. Unhidden(l, r + 1)
  <2>1. 0 \in 0 .. (r + 1) - l - 1 /\ 0 % 2 = 0 /\ (r + 1) - 0 = r + 1
    BY <1>1, InQuoted
  <2>2. \A j \in (r + 1) + 1 - 0 .. r + 1 : src[j] = Backslash
    BY <1>1, InQuoted
  <2> QED BY <1>2, <2>1, <2>2 DEF Unhidden
<1>6. (\A i \in l + 2 .. r : ~Lexes!Ends(l, i))'
  BY <1>1, <1>3, <1>4, InQuoted DEF Lexes!Ends, Lexes!Hidden
<1>7. Unhidden(l, r)'
  BY <1>3, <1>5 DEF Unhidden
<1>8. (l < r /\ src[l + 1] \in Quotes)'
  BY <1>1, <1>3, InQuoted
<1> QED BY <1>1, <1>3, <1>6, <1>7, <1>8 DEF LexInv, CommentInv, PartInv, QuotedInv

\* A quoted part is named by its quote.
LEMMA QuotedNamed ==
    ASSUME LexInv, mode = "quoted", NEW to, Lexes!IsQuoted(l, to)
    PROVE  QuotedKind \in Lexes!KindsOf(l, to) /\ QuotedKind \in TokKinds
BY InQuoted DEF QuotedKind, Lexes!KindsOf, TokKinds

LEMMA QuotedClosedStep ==
    ASSUME LexInv, QuotedClosed PROVE LexInv' /\ Lexes!Next
<1>1. /\ mode = "quoted" /\ r < Len(src) /\ Closes(Char(r))
      /\ l' = l /\ r' = r + 1 /\ src' = src /\ mode' = "next" /\ toks' = VecPush(toks, Token(QuotedKind, l, r + 1))
  BY DEF QuotedClosed, Inside, TokAdd
<1>2. Lexes!Ends(l, r + 1)
  BY <1>1, InQuoted DEF Lexes!Ends, Closes
<1>3. Lexes!IsQuoted(l, r + 1)
  <2>1. (r + 1) - 1 = r /\ r + 1 > l + 1
    BY <1>1, InQuoted
  <2> QED BY <1>1, <1>2, <2>1, InQuoted DEF Lexes!IsQuoted
<1>4. QuotedKind \in Lexes!KindsOf(l, r + 1) /\ QuotedKind \in TokKinds
  BY <1>1, <1>3, QuotedNamed
<1>5. r + 1 \in Nat /\ l < r + 1 /\ r + 1 <= Len(src) /\ At = l /\ l \in Nat
  BY <1>1, InQuoted
<1> QED BY <1>1, <1>4, <1>5, Taken

LEMMA QuotedCutStep ==
    ASSUME LexInv, QuotedCut PROVE LexInv' /\ Lexes!Next
<1>1. /\ mode = "quoted" /\ ~(r < Len(src))
      /\ l' = l /\ r' = r /\ src' = src /\ mode' = "next" /\ toks' = VecPush(toks, Token(QuotedKind, l, r))
  BY DEF QuotedCut, Inside, TokAdd
<1>2. Lexes!IsQuoted(l, r)
  <2>1. r = Len(src) /\ \A i \in l + 2 .. r - 1 : i \in l + 2 .. r
    BY <1>1, InQuoted
  <2> QED BY <1>1, <2>1, InQuoted DEF Lexes!IsQuoted
<1>3. QuotedKind \in Lexes!KindsOf(l, r) /\ QuotedKind \in TokKinds
  BY <1>1, <1>2, QuotedNamed
<1>4. r \in Nat /\ l < r /\ r <= Len(src) /\ At = l /\ l \in Nat
  BY <1>1, InQuoted
<1> QED BY <1>1, <1>3, <1>4, Taken

---------------------------------------------------------------------------
(* The theorems.                                                           *)

LEMMA StepInv == LexInv /\ [Next]_vars => LexInv' /\ [Lexes!Next]_(Lexes!vars)
<1> SUFFICES ASSUME LexInv, [Next]_vars PROVE LexInv' /\ [Lexes!Next]_(Lexes!vars)
  OBVIOUS
<1>1. CASE Turn
  BY <1>1, SkipBlankStep, BeginCommentStep, BeginIntStep, BeginQuotedStep, BeginWordStep,
     BeginOpStep, SingleStep, EndStep DEF Turn
<1>2. CASE Inner
  BY <1>2, CommentCharStep, CommentEndStep, CommentOverrunStep, IntCharStep, IntEndStep,
     WordCharStep, WordEndStep, OpCharStep, OpEndStep,
     QuotedEscapeStep, QuotedCharStep, QuotedClosedStep, QuotedCutStep DEF Inner
<1>3. CASE UNCHANGED vars
  <2>1. src' = src /\ l' = l /\ r' = r /\ mode' = mode /\ toks' = toks /\ Toks' = Toks /\ At' = At
    BY <1>3 DEF vars, Toks, At
  <2>2. LexInv'
    BY <2>1 DEF LexInv, TypeInv, OrderInv, CommentInv, PartInv, QuotedInv, Unhidden,
                Lexes!All, Lexes!BeginsComment, Lexes!Ends, Lexes!Hidden
  <2> QED BY <2>1, <2>2, Stutter
<1> QED BY <1>1, <1>2, <1>3 DEF Next

\* The inductive invariant holds, for every source.
THEOREM LexInvariant == Spec => []LexInv
<1>1. Init => LexInv
  BY InitInv
<1>2. LexInv /\ [Next]_vars => LexInv'
  BY StepInv
<1> QED BY <1>1, <1>2, PTL DEF Spec

\* tokenize implements NegiLex: whatever the source is, what it takes at each turn is
\* a whole token, blank or comment, and the kind of each token is what its
\* characters are.
THEOREM TokenizerImplementsLex == Spec => LexImplemented
<1>1. Init => Lexes!Init
  BY InitInv
<1>2. LexInv /\ [Next]_vars => [Lexes!Next]_(Lexes!vars)
  BY StepInv
<1> QED BY <1>1, <1>2, LexInvariant, PTL DEF Spec, LexImplemented, Lexes!Spec

\* The tokens of every source are in order and inside it, and the assertions of
\* tokenize, tok_add, src_slice and vec_grow hold.
THEOREM TokensInOrder == Spec => []TokensOK
<1>1. LexInv => TokensOK
  <2> SUFFICES ASSUME LexInv PROVE TokensOK
    OBVIOUS
  <2>1. /\ l \in Nat /\ r \in Nat /\ l <= r /\ r <= Len(src) /\ Len(src) \in Nat
        /\ At \in Nat /\ At <= r
    BY LenProperties DEF LexInv, TypeInv, At
  <2>2. DOMAIN Toks = 1 .. Len(Toks) /\ \A i \in 1 .. Len(Toks) : Toks[i] \in Tokens
    BY ElementOfSeq, LenProperties DEF LexInv, TypeInv
  <2>3. \A i \in 1 .. Len(Toks) : 0 <= Toks[i].l /\ Toks[i].r <= Len(src)
    BY <2>1, <2>2 DEF LexInv, OrderInv, Tokens
  <2>4. VecOK(toks)
    <3>1. VecTyped(toks) /\ Zero \in Slots
      BY DEF LexInv, TypeInv, Slots
    <3> QED BY <3>1, PushAppends DEF VecTyped
  <2> QED BY <2>1, <2>2, <2>3, <2>4 DEF LexInv, OrderInv, TokensOK
<1> QED BY <1>1, LexInvariant, PTL

\* The process ends in the tokenizer only for a source with two slashes in its last line.
THEOREM CrashIsComment == Spec => []OnlyCommentCrashes
<1>1. LexInv => OnlyCommentCrashes
  <2> SUFFICES ASSUME LexInv, mode = "crash"
               PROVE  \E i \in 1 .. Len(src) - 1 :
                          /\ src[i] = "/" /\ src[i + 1] = "/"
                          /\ \A j \in i .. Len(src) : src[j] # Newline
    BY DEF OnlyCommentCrashes
  <2>1. /\ l \in Nat /\ Len(src) \in Nat /\ l + 2 <= Len(src) /\ src[l + 1] = "/" /\ src[l + 2] = "/"
        /\ \A j \in l + 1 .. Len(src) : src[j] # Newline
    BY LenProperties DEF LexInv, TypeInv, CommentInv
  <2>2. l + 1 \in 1 .. Len(src) - 1 /\ (l + 1) + 1 = l + 2
    BY <2>1
  <2> QED BY <2>1, <2>2
<1> QED BY <1>1, LexInvariant, PTL

---------------------------------------------------------------------------
(* The tokenizer comes nearer to its end.                                  *)

Nearer == \/ TextLeft' \in 0 .. TextLeft - 1
          \/ TextLeft' = TextLeft /\ TurnsLeft' \in 0 .. TurnsLeft - 1

\* A step of NegiLex takes a part of the source, unless it is the last one.
LEMMA TakesText ==
    ASSUME LexInv, LexInv', Lexes!Next, mode' # "done" PROVE Nearer
<1>1. At \in Nat /\ Len(src) \in Nat /\ Toks \in Seq(Tokens)
  BY LenProperties DEF LexInv, TypeInv, At
<1>2. CASE Lexes!Skip \/ Lexes!Take
  <2>1. PICK to \in At + 1 .. Len(src) : At' = to /\ src' = src
    BY <1>2 DEF Lexes!Skip, Lexes!Take
  <2> QED BY <1>1, <2>1 DEF Nearer, TextLeft
<1>3. CASE Lexes!Finish
  <2> DEFINE token == [kind |-> "eof", l |-> At, r |-> At]
  <2>1. Toks' = Append(Toks, token)
    BY <1>3 DEF Lexes!Finish
  <2>2. token.kind = "eof"
    OBVIOUS
  <2> HIDE DEF token
  <2>3. Toks' \in Seq(Tokens)
    BY DEF LexInv, TypeInv
  <2>4. Len(Toks) \in Nat /\ Len(Toks') = Len(Toks) + 1 /\ Toks'[Len(Toks) + 1] = token
    BY <1>1, <2>1, LenProperties DEF Append
  <2>5. \A i \in 1 .. Len(Toks') : Toks'[i].kind # "eof"
    BY DEF LexInv, OrderInv
  <2> QED BY <2>2, <2>4, <2>5
<1> QED BY <1>2, <1>3 DEF Lexes!Next

\* What the other steps leave alone.
LEMMA TextKept ==
    ASSUME UNCHANGED Lexes!vars PROVE TextLeft' = TextLeft /\ src' = src
BY DEF Lexes!vars, TextLeft

\* To enter an inner loop, and to go on in it, takes one of the turns that are left.
LEMMA LoopTurn ==
    ASSUME LexInv, LexInv', UNCHANGED Lexes!vars,
           mode' \in Modes \ {"next", "done", "crash"},
           mode = "next" \/ (mode \in Modes \ {"next", "done", "crash"} /\ r < r')
    PROVE  Nearer
<1>1. /\ r \in Nat /\ r' \in Nat /\ Len(src) \in Nat /\ r' <= Len(src) /\ src' = src
      /\ TextLeft' = TextLeft
  BY TextKept, LenProperties DEF LexInv, TypeInv
<1>2. TurnsLeft' = Len(src) + 1 - r'
  BY <1>1 DEF TurnsLeft
<1>3. TurnsLeft = Len(src) + 2 \/ (TurnsLeft = Len(src) + 1 - r /\ r < r')
  BY DEF TurnsLeft
<1> QED BY <1>1, <1>2, <1>3 DEF Nearer

LEMMA ProgressStep ==
    ASSUME LexInv, Next PROVE Nearer
<1>1. LexInv'
  BY StepInv
<1>2. /\ r \in Nat /\ l \in Nat /\ Len(src) \in Nat /\ r <= Len(src)
  BY LenProperties DEF LexInv, TypeInv
<1>3. CASE SkipBlank \/ Single \/ CommentEnd \/ IntEnd \/ WordEnd \/ OpEnd
           \/ QuotedClosed \/ QuotedCut
  <2>1. Lexes!Next
    BY <1>3, SkipBlankStep, SingleStep, CommentEndStep, IntEndStep, WordEndStep, OpEndStep,
       QuotedClosedStep, QuotedCutStep
  <2>2. mode' # "done"
    BY <1>3 DEF SkipBlank, AtHead, Single, CommentEnd, IntEnd, WordEnd, OpEnd, QuotedClosed,
                QuotedCut, TokAdd
  <2> QED BY <1>1, <2>1, <2>2, TakesText
<1>4. CASE BeginComment \/ BeginInt \/ BeginQuoted \/ BeginWord \/ BeginOp
  <2>1. UNCHANGED Lexes!vars
    BY <1>4, BeginCommentStep, BeginIntStep, BeginQuotedStep, BeginWordStep, BeginOpStep
  <2>2. mode = "next" /\ mode' \in Modes \ {"next", "done", "crash"}
    BY <1>4 DEF BeginComment, BeginInt, BeginQuoted, BeginWord, BeginOp, AtHead, Enter, Modes
  <2> QED BY <1>1, <2>1, <2>2, LoopTurn
<1>5. CASE CommentChar \/ IntChar \/ WordChar \/ OpChar \/ QuotedEscape \/ QuotedChar
  <2>1. UNCHANGED Lexes!vars
    BY <1>5, CommentCharStep, IntCharStep, WordCharStep, OpCharStep, QuotedEscapeStep,
       QuotedCharStep
  <2>2. mode \in Modes \ {"next", "done", "crash"} /\ mode' = mode
    BY <1>5 DEF CommentChar, IntChar, WordChar, OpChar, QuotedEscape, QuotedChar, Further, Modes
  <2>3. r' = r + 1 \/ r' = r + 2
    BY <1>5 DEF CommentChar, IntChar, WordChar, OpChar, QuotedEscape, QuotedChar, Further
  <2> QED BY <1>1, <1>2, <2>1, <2>2, <2>3, LoopTurn
<1>6. CASE End
  <2>1. /\ mode = "next" /\ mode' = "done" /\ src' = src /\ r' = r
    BY <1>6 DEF End
  <2> QED BY <1>2, <2>1 DEF Nearer, TextLeft, TurnsLeft, At
<1>7. CASE CommentOverrun
  <2>1. /\ mode = "comment" /\ mode' = "crash" /\ src' = src /\ r' = r /\ l' = l
    BY <1>7 DEF CommentOverrun
  <2> QED BY <1>2, <2>1 DEF Nearer, TextLeft, TurnsLeft, At
<1> QED BY <1>3, <1>4, <1>5, <1>6, <1>7 DEF Next, Turn, Inner

\* Every turn of every loop of tokenize brings its end nearer, for every source.
THEOREM TokenizerMoves == Spec => TokenizerProgress
<1>1. LexInv /\ [Next]_vars =>
        [\/ TextLeft' \in 0 .. TextLeft - 1
         \/ TextLeft' = TextLeft /\ TurnsLeft' \in 0 .. TurnsLeft - 1]_vars
  BY ProgressStep DEF Nearer
<1> QED BY <1>1, LexInvariant, PTL DEF Spec, TokenizerProgress
=============================================================================
