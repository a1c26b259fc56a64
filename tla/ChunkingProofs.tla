----------------------------- MODULE ChunkingProofs -----------------------------
(***************************************************************************)
(* Theorems about module Chunking, for all documents and limits: the chunks*)
(* of a text cover it, in its order and to its end.                        *)
(*                                                                         *)
(* A piece covers the text from a place that is not behind the end of the  *)
(* pieces before it (Window).  The chunker is followed by what it has put  *)
(* out and the end of the text that it is filling (Upto); its folds are    *)
(* followed from the first part on with the lemmas of RecursionLemmas.     *)
(***************************************************************************)
EXTENDS Chunking, SequenceTheorems, FiniteSetTheorems, TLAPS

INSTANCE RecursionLemmas WITH Op <- Advance

(***************************************************************************)
(* Pieces that are windows of a text, with the ends that show it.          *)
(***************************************************************************)

Window(piece, text, p, e) ==
    e \in 1 .. Len(text) /\ e > p /\ e - Len(piece) \in 0 .. p /\ SubSeq(text, e - Len(piece) + 1, e) = piece

Windows(pieces, text, ends) ==
    /\ ends \in [0 .. Len(pieces) -> Nat]
    /\ ends[0] = 0
    /\ \A n \in 1 .. Len(pieces) : Window(pieces[n], text, ends[n - 1], ends[n])

Covered(pieces, text, e) == \E ends : Windows(pieces, text, ends) /\ ends[Len(pieces)] = e

\* What has such ends is what TextIsKept asks for.
LEMMA CoversWhatIsCovered ==
    ASSUME NEW pieces \in Seq(TextSet), NEW text \in TextSet, Covered(pieces, text, Len(text))
    PROVE  Covers(pieces, text)
<1> DEFINE N == Len(pieces)
           Ends == SUBSET (0 .. Len(text))
           first == {0}
<1>1. PICK ends : Windows(pieces, text, ends) /\ ends[N] = Len(text)
      BY DEF Covered
<1>2. N \in Nat /\ first \in Ends /\ \A c \in Ends, piece \in TextSet : Advance(text, c, piece) \in Ends
      BY DEF Advance, TextSet
<1>3. Covers(pieces, text) <=> Len(text) \in Folded(text, first, pieces)
      BY DEF Covers, Folded, FoldLeft, MapThenFoldSet
<1> HIDE DEF Ends, first
<1>4. PICK h : States(text, Ends, first, pieces, h) /\ Folded(text, first, pieces) = h[N]
  <2>1. pieces \in Seq(TextSet) /\ first \in Ends /\ \A c \in Ends, a \in TextSet : Advance(text, c, a) \in Ends
        BY <1>2
  <2>2. \E h : States(text, Ends, first, pieces, h) /\ Folded(text, first, pieces) = h[Len(pieces)]
    <3> HIDE DEF N
    <3> QED BY <2>1, FoldStates
  <2> QED BY <2>2
<1> DEFINE T == {n \in 0 .. N : ends[n] \in h[n]}
<1>5. 0 .. N \subseteq T
  <2>1. 0 \in T
        BY <1>1, <1>2, <1>4 DEF States, Windows, first
  <2>2. ASSUME NEW n \in 1 .. N, n - 1 \in T PROVE n \in T
    <3>1. Window(pieces[n], text, ends[n - 1], ends[n]) /\ h[n] = Advance(text, h[n - 1], pieces[n])
          BY <1>1, <1>4 DEF Windows, States
    <3>2. ends[n] \in h[n]
          BY <2>2, <3>1 DEF Window, Advance
    <3> QED BY <1>2, <3>2
  <2> HIDE DEF T, N
  <2> QED BY <1>2, <2>1, <2>2, InductionTo
<1>6. ends[N] \in h[N]
      BY <1>2, <1>5
<1> QED BY <1>1, <1>3, <1>4, <1>6

\* No pieces cover nothing.
LEMMA NoneCovered == ASSUME NEW text PROVE Covered(<<>>, text, 0)
<1> DEFINE ends == [n \in 0 .. 0 |-> 0]
           none == <<>>
<1>1. Len(none) = 0 /\ ends \in [0 .. 0 -> Nat] /\ ends[0] = 0
      OBVIOUS
<1>2. Windows(none, text, ends) /\ ends[Len(none)] = 0
      BY <1>1 DEF Windows
<1> HIDE DEF ends
<1> QED BY <1>2 DEF Covered

\* A window of a text is one of a longer text, and moves with what comes before it.
LEMMA WindowOfMore ==
    ASSUME NEW text \in TextSet, NEW more \in TextSet, NEW piece \in TextSet, NEW p \in Nat, NEW e, Window(piece, text, p, e)
    PROVE  Window(piece, Cat(text, more), p, e)
<1> DEFINE both == Cat(text, more)
<1>1. both \in TextSet /\ Len(both) = Len(text) + Len(more) /\ Len(text) \in Nat /\ Len(more) \in Nat /\ Len(piece) \in Nat
      BY ConcatProperties DEF Cat, TextSet
<1>2. CASE Len(piece) = 0
  <2>1. e \in Nat /\ SubSeq(both, e - Len(piece) + 1, e) = <<>> /\ piece = <<>>
        BY <1>1, <1>2, SubSeqEmpty DEF Window, TextSet
  <2> QED BY <1>1, <2>1 DEF Window
<1>3. CASE Len(piece) # 0
  <2>1. e - Len(piece) + 1 \in 1 .. Len(text) /\ e \in 1 .. Len(text)
        BY <1>1, <1>3 DEF Window
  <2>2. SubSeq(both, e - Len(piece) + 1, e) = SubSeq(text, e - Len(piece) + 1, e)
        BY <2>1, SubSeqOfConcat1 DEF Cat, TextSet
  <2>3. e > p /\ e - Len(piece) \in 0 .. p /\ e \in 1 .. Len(both) /\ SubSeq(text, e - Len(piece) + 1, e) = piece
    <3> HIDE DEF both
    <3> QED BY <1>1 DEF Window
  <2> HIDE DEF both
  <2> QED BY <2>2, <2>3 DEF Window, both
<1> QED BY <1>2, <1>3

\* A window is one of a longer text that ends with its text.
LEMMA WindowMoves ==
    ASSUME NEW text \in TextSet, NEW less \in TextSet, NEW piece \in TextSet, NEW p \in Nat, NEW e, Window(piece, text, p, e)
    PROVE  Window(piece, Cat(less, text), Len(less) + p, Len(less) + e)
<1> DEFINE both == Cat(less, text)
           k == Len(less)
<1>1. both \in TextSet /\ Len(both) = k + Len(text) /\ Len(text) \in Nat /\ k \in Nat /\ Len(piece) \in Nat /\ e \in Nat
      BY ConcatProperties DEF Cat, TextSet, Window
<1>2. CASE Len(piece) = 0
  <2>1. SubSeq(both, (k + e) - Len(piece) + 1, k + e) = <<>> /\ piece = <<>>
        BY <1>1, <1>2, SubSeqEmpty DEF TextSet
  <2> HIDE DEF both
  <2> QED BY <1>1, <1>2, <2>1 DEF Window
<1>3. CASE Len(piece) # 0
  <2> DEFINE a == e - Len(piece) + 1
  <2>1. a \in 1 .. Len(text) /\ e \in 1 .. Len(text)
        BY <1>1, <1>3 DEF Window
  <2>2. /\ k + a \in k + 1 .. k + Len(text) /\ k + e \in k + 1 .. k + Len(text)
        /\ (k + a) - k = a /\ (k + e) - k = e /\ k + a = (k + e) - Len(piece) + 1
        BY <1>1, <2>1
  <2>3. SubSeq(both, k + a, k + e) = SubSeq(text, a, e)
    <3> DEFINE m == k + a
               n == k + e
    <3>1. m \in k + 1 .. k + Len(text) /\ n \in k + 1 .. k + Len(text) /\ m - k = a /\ n - k = e
          BY <2>2
    <3> HIDE DEF a, m, n
    <3>2. SubSeq(both, m, n) = SubSeq(text, m - k, n - k)
          BY <3>1, SubSeqOfConcat2 DEF Cat, TextSet
    <3> QED BY <3>1, <3>2 DEF m, n
  <2>4. e > p /\ e - Len(piece) \in 0 .. p /\ SubSeq(text, a, e) = piece
        BY DEF Window
  <2>5. /\ k + e > k + p /\ (k + e) - Len(piece) \in 0 .. k + p /\ k + e \in 1 .. Len(both)
        /\ SubSeq(both, (k + e) - Len(piece) + 1, k + e) = piece
    <3>1. k + e > k + p /\ (k + e) - Len(piece) \in 0 .. k + p /\ k + e \in 1 .. Len(both)
      <4> HIDE DEF a, k, both
      <4> QED BY <1>1, <2>1, <2>4
    <3>2. SubSeq(both, k + a, k + e) = piece /\ k + a = (k + e) - Len(piece) + 1
      <4> HIDE DEF a, k, both
      <4> QED BY <2>2, <2>3, <2>4
    <3> HIDE DEF k, both, a
    <3> QED BY <3>1, <3>2
  <2> HIDE DEF both
  <2> QED BY <2>5 DEF Window, both
<1> QED BY <1>2, <1>3

\* A text's end is a window.
LEMMA WindowAtEnd ==
    ASSUME NEW less \in TextSet, NEW piece \in TextSet, NEW p \in Nat,
           Len(less) <= p, p < Len(Cat(less, piece))
    PROVE  Window(piece, Cat(less, piece), p, Len(Cat(less, piece)))
<1> DEFINE both == Cat(less, piece)
           k == Len(less)
           n == Len(piece)
<1>1. both \in TextSet /\ Len(both) = k + n /\ n \in Nat /\ k \in Nat
      BY ConcatProperties DEF Cat, TextSet
<1>2. n > 0
      BY <1>1
<1>3. /\ k + 1 \in k + 1 .. k + n /\ k + n \in k + 1 .. k + n /\ (k + 1) - k = 1 /\ (k + n) - k = n
      /\ (k + n) - n + 1 = k + 1 /\ (k + n) - n = k
      BY <1>1, <1>2
<1>4. SubSeq(both, k + 1, k + n) = SubSeq(piece, 1, n)
      BY <1>3, SubSeqOfConcat2 DEF Cat, TextSet
<1>5. SubSeq(piece, 1, n) = piece
      BY SubSeqFull DEF TextSet
<1> HIDE DEF both, k, n
<1> QED BY <1>1, <1>2, <1>3, <1>4, <1>5 DEF Window, both, k, n

\* One more piece.
LEMMA CoveredWithOne ==
    ASSUME NEW pieces \in Seq(TextSet), NEW text \in TextSet, NEW p, Covered(pieces, text, p),
           NEW piece \in TextSet, NEW e, Window(piece, text, p, e)
    PROVE  Covered(Append(pieces, piece), text, e)
<1> DEFINE N == Len(pieces)
           more == Append(pieces, piece)
<1>1. PICK ends : Windows(pieces, text, ends) /\ ends[N] = p
      BY DEF Covered
<1>2. N \in Nat /\ Len(more) = N + 1 /\ more[N + 1] = piece /\ \A n \in 1 .. N : more[n] = pieces[n]
      BY AppendProperties
<1>3. e \in Nat
      BY DEF Window, TextSet
<1> DEFINE after == [n \in 0 .. N + 1 |-> IF n = N + 1 THEN e ELSE ends[n]]
<1> HIDE DEF N, more
<1>4. ends \in [0 .. N -> Nat] /\ ends[0] = 0 /\ \A n \in 1 .. N : Window(pieces[n], text, ends[n - 1], ends[n])
      BY <1>1 DEF Windows, N
<1>5. after \in [0 .. N + 1 -> Nat] /\ after[0] = 0 /\ after[N + 1] = e /\ \A n \in 0 .. N : after[n] = ends[n]
      BY <1>2, <1>3, <1>4
<1> HIDE DEF after
<1>6. ASSUME NEW n \in 1 .. N + 1 PROVE Window(more[n], text, after[n - 1], after[n])
  <2>1. n - 1 \in 0 .. N /\ (n # N + 1 => n \in 1 .. N /\ n \in 0 .. N) /\ (n = N + 1 => n - 1 = N)
        BY <1>2
  <2> QED BY <1>1, <1>2, <1>4, <1>5, <2>1
<1>7. Windows(more, text, after)
      BY <1>2, <1>5, <1>6 DEF Windows
<1> QED BY <1>2, <1>5, <1>7 DEF Covered, more

\* More of the text.
LEMMA CoveredOfMore ==
    ASSUME NEW pieces \in Seq(TextSet), NEW text \in TextSet, NEW more \in TextSet, NEW e, Covered(pieces, text, e)
    PROVE  Covered(pieces, Cat(text, more), e)
<1>1. PICK ends : Windows(pieces, text, ends) /\ ends[Len(pieces)] = e
      BY DEF Covered
<1>2. ASSUME NEW n \in 1 .. Len(pieces) PROVE Window(pieces[n], Cat(text, more), ends[n - 1], ends[n])
  <2>1. n - 1 \in 0 .. Len(pieces) /\ pieces[n] \in TextSet
        OBVIOUS
  <2>2. ends[n - 1] \in Nat /\ Window(pieces[n], text, ends[n - 1], ends[n])
        BY <1>1, <2>1 DEF Windows
  <2> QED BY <2>1, <2>2, WindowOfMore
<1>3. Windows(pieces, Cat(text, more), ends)
      BY <1>1, <1>2 DEF Windows
<1> QED BY <1>1, <1>3 DEF Covered

\* A text that is all covered, and another after it.
LEMMA CoveredBoth ==
    ASSUME NEW a \in Seq(TextSet), NEW s \in TextSet, Covered(a, s, Len(s)),
           NEW b \in Seq(TextSet), NEW t \in TextSet, NEW e, Covered(b, t, e)
    PROVE  Covered(a \o b, Cat(s, t), Len(s) + e)
<1> DEFINE M == Len(a)
           N == Len(b)
           k == Len(s)
           ab == a \o b
<1>1. ab \in Seq(TextSet) /\ Len(ab) = M + N /\ M \in Nat /\ N \in Nat
      /\ (\A i \in 1 .. M : ab[i] = a[i] /\ a[i] \in TextSet) /\ \A i \in 1 .. N : ab[M + i] = b[i] /\ b[i] \in TextSet
  <2>1. /\ ab \in Seq(TextSet) /\ Len(ab) = M + N /\ M \in Nat /\ N \in Nat
        /\ \A i \in 1 .. M + N : ab[i] = IF i <= M THEN a[i] ELSE b[i - M]
        BY ConcatProperties
  <2>2. (\A i \in 1 .. M : a[i] \in TextSet) /\ \A i \in 1 .. N : b[i] \in TextSet
        OBVIOUS
  <2> HIDE DEF M, N, ab
  <2>3. \A i \in 1 .. M : ab[i] = a[i]
        BY <2>1
  <2>4. ASSUME NEW i \in 1 .. N PROVE ab[M + i] = b[i]
    <3>1. M + i \in 1 .. M + N /\ ~(M + i <= M) /\ (M + i) - M = i
          BY <2>1
    <3> QED BY <2>1, <3>1
  <2> QED BY <2>1, <2>2, <2>3, <2>4
<1>2. k \in Nat
      BY DEF TextSet
<1>3. PICK f : Windows(a, s, f) /\ f[M] = k
      BY DEF Covered
<1>4. PICK g : Windows(b, t, g) /\ g[N] = e
      BY DEF Covered
<1>5. f \in [0 .. M -> Nat] /\ f[0] = 0 /\ \A n \in 1 .. M : Window(a[n], s, f[n - 1], f[n])
      BY <1>3 DEF Windows
<1>6. g \in [0 .. N -> Nat] /\ g[0] = 0 /\ \A n \in 1 .. N : Window(b[n], t, g[n - 1], g[n])
      BY <1>4 DEF Windows
<1> HIDE DEF M, N, ab, k
<1> DEFINE h == [n \in 0 .. M + N |-> IF n <= M THEN f[n] ELSE k + g[n - M]]
<1>7. h \in [0 .. M + N -> Nat] /\ h[0] = 0 /\ \A n \in 0 .. M : h[n] = f[n]
  <2>1. \A n \in 0 .. M + N : n \notin 0 .. M => n - M \in 0 .. N
        BY <1>1
  <2>2. ASSUME NEW n \in 0 .. M + N PROVE h[n] \in Nat
    <3>1. n \in 0 .. M => f[n] \in Nat
          BY <1>5
    <3>2. n \notin 0 .. M => g[n - M] \in Nat /\ k + g[n - M] \in Nat
          BY <1>2, <1>6, <2>1
    <3>3. n <= M <=> n \in 0 .. M
          BY <1>1
    <3> QED BY <3>1, <3>2, <3>3
  <2> QED BY <1>1, <1>5, <2>2
<1>8. ASSUME NEW n \in 0 .. N PROVE h[M + n] = k + g[n]
  <2>1. M + n \in 0 .. M + N /\ (M + n) - M = n /\ (M + n <= M => n = 0 /\ M + n = M)
        BY <1>1
  <2> QED BY <1>2, <1>3, <1>6, <2>1
<1> HIDE DEF h
<1>9. ASSUME NEW n \in 1 .. M + N PROVE Window(ab[n], Cat(s, t), h[n - 1], h[n])
  <2>1. CASE n \in 1 .. M
    <3>1. n - 1 \in 0 .. M /\ n \in 0 .. M
          BY <1>1, <2>1
    <3>2. f[n - 1] \in Nat /\ Window(a[n], s, f[n - 1], f[n]) /\ ab[n] = a[n] /\ a[n] \in TextSet
          BY <1>1, <1>5, <2>1, <3>1
    <3>3. Window(a[n], Cat(s, t), f[n - 1], f[n])
          BY <3>2, WindowOfMore
    <3> QED BY <1>7, <3>1, <3>2, <3>3
  <2>2. CASE n \notin 1 .. M
    <3>1. PICK m \in 1 .. N : n = M + m
      <4>1. n - M \in 1 .. N /\ n = M + (n - M)
            BY <1>1, <2>2
      <4> QED BY <4>1
    <3>2. m \in 0 .. N /\ m - 1 \in 0 .. N /\ n - 1 = M + (m - 1)
          BY <1>1, <3>1
    <3>3. g[m - 1] \in Nat /\ Window(b[m], t, g[m - 1], g[m]) /\ ab[n] = b[m] /\ b[m] \in TextSet
          BY <1>1, <1>6, <3>1, <3>2
    <3>4. Window(b[m], Cat(s, t), k + g[m - 1], k + g[m])
          BY <3>3, WindowMoves DEF k
    <3> QED BY <1>8, <3>1, <3>2, <3>3, <3>4
  <2> QED BY <2>1, <2>2
<1>10. Windows(ab, Cat(s, t), h)
      BY <1>1, <1>7, <1>9 DEF Windows
<1>11. h[M + N] = k + e
      BY <1>1, <1>4, <1>8 DEF N
<1> QED BY <1>1, <1>10, <1>11 DEF Covered, ab, k

(***************************************************************************)
(* Chunks, and the text that has been cut into them.                       *)
(***************************************************************************)

\* The text of parts is theirs, joined.
LEMMA TextLaws ==
    /\ Text(<<>>) = <<>>
    /\ \A parts \in ChunkSet : Text(parts) \in TextSet
    /\ \A a, b \in ChunkSet : Text(a \o b) = Cat(Text(a), Text(b))
    /\ \A a \in ChunkSet, part \in PartSet : Text(Append(a, part)) = Cat(Text(a), part)
    /\ \A part \in PartSet : Text(<<part>>) = part
<1> DEFINE S == Int
           U == Seq(S)
<1>1. U = Seq(S) /\ U = TextSet /\ ChunkSet \subseteq Seq(U) /\ PartSet \subseteq U
      BY DEF TextSet, PartSet, ChunkSet
<1> HIDE DEF U, S
<1>2. \A parts \in ChunkSet : FlattenSeq(parts) \in U
      BY <1>1, FlattenType
<1>3. \A a, b \in ChunkSet : FlattenSeq(a \o b) = Cat(FlattenSeq(a), FlattenSeq(b))
      BY <1>1, FlattenConcat
<1>4. \A a \in ChunkSet, part \in PartSet : FlattenSeq(Append(a, part)) = Cat(FlattenSeq(a), part)
      BY <1>1, FlattenAppend
<1>5. \A part \in PartSet : FlattenSeq(<<part>>) = part
      BY <1>1, FlattenOne
<1> QED BY <1>1, <1>2, <1>3, <1>4, <1>5, FlattenNone DEF Text

\* Texts joined are a text, as long as they are together.
LEMMA CatTexts ==
    /\ <<>> \in TextSet
    /\ \A s \in TextSet : Cat(s, <<>>) = s /\ Cat(<<>>, s) = s
    /\ \A s, t \in TextSet : Cat(s, t) \in TextSet /\ Len(Cat(s, t)) = Len(s) + Len(t)
    /\ \A s, t, v \in TextSet : Cat(Cat(s, t), v) = Cat(s, Cat(t, v))
    /\ \A s \in TextSet : Len(s) \in Nat /\ (Len(s) = 0 <=> s = <<>>)
<1> DEFINE S == Int
           U == Seq(S)
<1>1. U = Seq(S) /\ U = TextSet
      BY DEF TextSet
<1>2. \A s, t \in TextSet : Len(Cat(s, t)) = Len(s) + Len(t)
      BY ConcatProperties DEF Cat, TextSet
<1>3. \A s \in TextSet : Len(s) \in Nat /\ (Len(s) = 0 <=> s = <<>>)
      BY DEF TextSet
<1> HIDE DEF U, S
<1> QED BY <1>1, <1>2, <1>3, CatLaws

\* The texts of chunks are as many, in their order.
LEMMA TextsOfChunks ==
    /\ Texts(<<>>) = <<>>
    /\ \A chunks \in Seq(ChunkSet) : Texts(chunks) \in Seq(TextSet) /\ Len(Texts(chunks)) = Len(chunks)
    /\ \A chunks \in Seq(ChunkSet) : \A chunk \in ChunkSet : Texts(Append(chunks, chunk)) = Append(Texts(chunks), Text(chunk))
    /\ \A a, b \in Seq(ChunkSet) : Texts(a \o b) = Texts(a) \o Texts(b)
<1>1. ASSUME NEW chunks \in Seq(ChunkSet)
      PROVE  Texts(chunks) \in Seq(TextSet) /\ Len(Texts(chunks)) = Len(chunks) /\ \A i \in 1 .. Len(chunks) : Texts(chunks)[i] = Text(chunks[i])
  <2>1. DOMAIN chunks = 1 .. Len(chunks) /\ Len(chunks) \in Nat /\ \A i \in 1 .. Len(chunks) : Text(chunks[i]) \in TextSet
        BY TextLaws
  <2>2. Texts(chunks) = [i \in 1 .. Len(chunks) |-> Text(chunks[i])]
        BY <2>1 DEF Texts
  <2> HIDE DEF Texts
  <2>3. \A i \in 1 .. Len(chunks) : Texts(chunks)[i] = Text(chunks[i]) /\ Texts(chunks)[i] \in TextSet
        BY <2>1, <2>2
  <2>4. Texts(chunks) \in [1 .. Len(chunks) -> TextSet]
        BY <2>1, <2>2
  <2>5. Texts(chunks) \in Seq(TextSet) /\ Len(Texts(chunks)) = Len(chunks)
        BY <2>1, <2>4
  <2> QED BY <2>3, <2>5
<1>2. ASSUME NEW chunks \in Seq(ChunkSet), NEW chunk \in ChunkSet
      PROVE  Texts(Append(chunks, chunk)) = Append(Texts(chunks), Text(chunk))
  <2> DEFINE s == Append(chunks, chunk)
             t == Append(Texts(chunks), Text(chunk))
             N == Len(chunks)
  <2>1. s \in Seq(ChunkSet) /\ Len(s) = N + 1 /\ N \in Nat /\ s[N + 1] = chunk /\ \A i \in 1 .. N : s[i] = chunks[i]
        BY AppendProperties
  <2>2. t \in Seq(TextSet) /\ Len(t) = N + 1 /\ t[N + 1] = Text(chunk) /\ \A i \in 1 .. N : t[i] = Texts(chunks)[i]
        BY <1>1, TextLaws, AppendProperties
  <2>3. Texts(s) \in Seq(TextSet) /\ Len(Texts(s)) = N + 1 /\ \A i \in 1 .. N + 1 : Texts(s)[i] = Text(s[i])
        BY <1>1, <2>1
  <2>4. \A i \in 1 .. N : Texts(chunks)[i] = Text(chunks[i])
        BY <1>1
  <2> HIDE DEF s, t, N
  <2>5. \A i \in 1 .. N + 1 : Texts(s)[i] = t[i]
        BY <2>1, <2>2, <2>3, <2>4
  <2>6. Texts(s) = t
        BY <2>2, <2>3, <2>5, SeqEqual
  <2> QED BY <2>6 DEF s, t
<1>3. ASSUME NEW a \in Seq(ChunkSet), NEW b \in Seq(ChunkSet)
      PROVE  Texts(a \o b) = Texts(a) \o Texts(b)
  <2> DEFINE s == a \o b
             t == Texts(a) \o Texts(b)
             M == Len(a)
             N == Len(b)
  <2>1. s \in Seq(ChunkSet) /\ Len(s) = M + N /\ N \in Nat /\ M \in Nat /\ \A i \in 1 .. M + N : s[i] = IF i <= M THEN a[i] ELSE b[i - M]
        BY ConcatProperties
  <2>2. t \in Seq(TextSet) /\ Len(t) = M + N /\ \A i \in 1 .. M + N : t[i] = IF i <= M THEN Texts(a)[i] ELSE Texts(b)[i - M]
    <3> DEFINE x == Texts(a)
               y == Texts(b)
    <3>1. x \in Seq(TextSet) /\ y \in Seq(TextSet) /\ Len(x) = M /\ Len(y) = N
          BY <1>1
    <3> HIDE DEF x, y
    <3>2. /\ x \o y \in Seq(TextSet) /\ Len(x \o y) = Len(x) + Len(y)
          /\ \A i \in 1 .. Len(x) + Len(y) : (x \o y)[i] = IF i <= Len(x) THEN x[i] ELSE y[i - Len(x)]
          BY <3>1, ConcatProperties
    <3>3. t = x \o y
          BY DEF x, y
    <3> HIDE DEF M, N, t
    <3> QED BY <3>1, <3>2, <3>3 DEF x, y
  <2>3. Texts(s) \in Seq(TextSet) /\ Len(Texts(s)) = M + N /\ \A i \in 1 .. M + N : Texts(s)[i] = Text(s[i])
        BY <1>1, <2>1
  <2>4. (\A i \in 1 .. M : Texts(a)[i] = Text(a[i])) /\ \A i \in 1 .. N : Texts(b)[i] = Text(b[i])
        BY <1>1
  <2> HIDE DEF s, t, M, N
  <2>5. ASSUME NEW i \in 1 .. M + N PROVE Texts(s)[i] = t[i]
    <3>1. (i <= M => i \in 1 .. M) /\ (~(i <= M) => i - M \in 1 .. N)
          BY <2>1
    <3> QED BY <2>1, <2>2, <2>3, <2>4, <3>1
  <2>6. Texts(s) = t
        BY <2>2, <2>3, <2>5, SeqEqual
  <2> QED BY <2>6 DEF s, t
<1>4. Texts(<<>>) = <<>>
      BY DEF Texts
<1> QED BY <1>1, <1>2, <1>3, <1>4

\* What has been put out of a text, and the end of it that is being filled.
Upto(chunks, current, text) ==
    \E e \in Nat : /\ Covered(Texts(chunks), text, e)
                   /\ \E less \in TextSet : text = Cat(less, Text(current)) /\ Len(less) <= e
                   /\ IF current = <<>> THEN e = Len(text) ELSE e < Len(text)

\* Nothing has been put out of nothing.
LEMMA UptoNothing == Upto(<<>>, <<>>, <<>>)
<1> DEFINE none == <<>>
           e == 0
<1>1. e \in Nat /\ none \in TextSet /\ Len(none) = e /\ Text(none) = none /\ Texts(none) = none
      BY CatTexts, TextLaws, TextsOfChunks
<1>2. Covered(none, none, e)
      BY NoneCovered
<1>3. none = Cat(none, none) /\ Len(none) <= e
      BY <1>1, CatTexts
<1>4. Covered(Texts(none), none, e) /\ none = Cat(none, Text(none))
      BY <1>1, <1>2, <1>3
<1> HIDE DEF none, e
<1>5. Upto(none, none, none)
      BY <1>1, <1>3, <1>4 DEF Upto, none
<1> QED BY <1>5 DEF none

\* What is being filled grows.
LEMMA UptoGrows ==
    ASSUME NEW chunks \in Seq(ChunkSet), NEW current \in ChunkSet, NEW text \in TextSet, Upto(chunks, current, text),
           NEW parts \in ChunkSet, Text(parts) # <<>>
    PROVE  Upto(chunks, current \o parts, Cat(text, Text(parts)))
<1>1. PICK e \in Nat : /\ Covered(Texts(chunks), text, e)
                       /\ \E less \in TextSet : text = Cat(less, Text(current)) /\ Len(less) <= e
                       /\ IF current = <<>> THEN e = Len(text) ELSE e < Len(text)
      BY DEF Upto
<1>2. PICK less \in TextSet : text = Cat(less, Text(current)) /\ Len(less) <= e
      BY <1>1
<1> DEFINE grown == current \o parts
           longer == Cat(text, Text(parts))
<1>3. Text(current) \in TextSet /\ Text(parts) \in TextSet /\ Texts(chunks) \in Seq(TextSet)
      BY TextLaws, TextsOfChunks
<1>4. Text(grown) = Cat(Text(current), Text(parts))
      BY TextLaws
<1>5. longer = Cat(less, Text(grown))
  <2>1. Cat(Cat(less, Text(current)), Text(parts)) = Cat(less, Cat(Text(current), Text(parts)))
        BY <1>3, CatTexts
  <2> QED BY <1>2, <1>4, <2>1
<1>6. Len(longer) = Len(text) + Len(Text(parts)) /\ Len(Text(parts)) > 0 /\ Len(text) \in Nat
      BY <1>3, CatTexts
<1>7. e < Len(longer)
  <2> HIDE DEF longer
  <2> QED BY <1>1, <1>6
<1>8. Covered(Texts(chunks), longer, e)
      BY <1>1, <1>3, CoveredOfMore
<1>9. grown # <<>>
  <2>1. parts # <<>>
        BY TextLaws
  <2> QED BY <2>1 DEF ChunkSet
<1> HIDE DEF grown, longer
<1>10. Upto(chunks, grown, longer)
      BY <1>2, <1>5, <1>7, <1>8, <1>9 DEF Upto
<1> QED BY <1>10 DEF grown, longer

\* What was being filled is put out.
LEMMA UptoPutOut ==
    ASSUME NEW chunks \in Seq(ChunkSet), NEW current \in ChunkSet, NEW text \in TextSet, Upto(chunks, current, text),
           current # <<>>
    PROVE  Upto(Append(chunks, current), <<>>, text)
<1>1. PICK e \in Nat : /\ Covered(Texts(chunks), text, e)
                       /\ \E less \in TextSet : text = Cat(less, Text(current)) /\ Len(less) <= e
                       /\ IF current = <<>> THEN e = Len(text) ELSE e < Len(text)
      BY DEF Upto
<1>2. PICK less \in TextSet : text = Cat(less, Text(current)) /\ Len(less) <= e
      BY <1>1
<1>3. Text(current) \in TextSet /\ Texts(chunks) \in Seq(TextSet) /\ Texts(Append(chunks, current)) = Append(Texts(chunks), Text(current))
      BY TextLaws, TextsOfChunks
<1>4. Window(Text(current), text, e, Len(text))
      BY <1>1, <1>2, <1>3, WindowAtEnd
<1>5. Covered(Append(Texts(chunks), Text(current)), text, Len(text))
      BY <1>1, <1>3, <1>4, CoveredWithOne
<1> DEFINE none == <<>>
<1>6. text = Cat(text, Text(none)) /\ Len(text) <= Len(text) /\ Len(text) \in Nat
      BY TextLaws, CatTexts
<1>7. none = <<>>
      OBVIOUS
<1> HIDE DEF none
<1>8. Upto(Append(chunks, current), none, text)
      BY <1>3, <1>5, <1>6, <1>7 DEF Upto
<1> QED BY <1>7, <1>8

\* The end of what is put out begins the next.
LEMMA UptoCarries ==
    ASSUME NEW chunks \in Seq(ChunkSet), NEW text \in TextSet, Upto(chunks, <<>>, text),
           NEW carried \in ChunkSet, NEW less \in TextSet, text = Cat(less, Text(carried)),
           NEW parts \in ChunkSet, Text(parts) # <<>>
    PROVE  Upto(chunks, carried \o parts, Cat(text, Text(parts)))
<1> DEFINE none == <<>>
           grown == carried \o parts
           longer == Cat(text, Text(parts))
           e == Len(text)
<1>1. Covered(Texts(chunks), text, e)
      BY DEF Upto
<1>2. Text(carried) \in TextSet /\ Text(parts) \in TextSet /\ Texts(chunks) \in Seq(TextSet)
      BY TextLaws, TextsOfChunks
<1>3. Text(grown) = Cat(Text(carried), Text(parts))
      BY TextLaws
<1>4. longer = Cat(less, Text(grown))
  <2>1. Cat(Cat(less, Text(carried)), Text(parts)) = Cat(less, Cat(Text(carried), Text(parts)))
        BY <1>2, CatTexts
  <2> QED BY <1>3, <2>1
<1>5. Len(longer) = e + Len(Text(parts)) /\ Len(Text(parts)) > 0 /\ e \in Nat /\ Len(less) <= e
  <2>1. e = Len(less) + Len(Text(carried)) /\ Len(less) \in Nat /\ Len(Text(carried)) \in Nat
        BY <1>2, CatTexts
  <2>2. Len(longer) = e + Len(Text(parts)) /\ Len(Text(parts)) \in Nat /\ Len(Text(parts)) # 0
        BY <1>2, CatTexts
  <2> HIDE DEF longer, e
  <2> QED BY <2>1, <2>2
<1>6. Covered(Texts(chunks), longer, e)
      BY <1>1, <1>2, CoveredOfMore
<1>7. grown # <<>>
  <2>1. parts # <<>>
        BY TextLaws
  <2> QED BY <2>1 DEF ChunkSet
<1> HIDE DEF grown, longer, e
<1>8. e < Len(longer)
      BY <1>5
<1>9. Upto(chunks, grown, longer)
      BY <1>4, <1>5, <1>6, <1>7, <1>8 DEF Upto
<1> QED BY <1>9 DEF grown, longer

\* Chunks of what comes next are put out.
LEMMA UptoBoth ==
    ASSUME NEW chunks \in Seq(ChunkSet), NEW text \in TextSet, Upto(chunks, <<>>, text),
           NEW more \in Seq(ChunkSet), NEW next \in TextSet, Covered(Texts(more), next, Len(next))
    PROVE  Upto(chunks \o more, <<>>, Cat(text, next))
<1> DEFINE none == <<>>
           longer == Cat(text, next)
           e == Len(longer)
<1>1. Covered(Texts(chunks), text, Len(text))
      BY DEF Upto
<1>2. Texts(chunks) \in Seq(TextSet) /\ Texts(more) \in Seq(TextSet) /\ Texts(chunks \o more) = Texts(chunks) \o Texts(more)
      BY TextsOfChunks
<1>3. Covered(Texts(chunks) \o Texts(more), longer, Len(text) + Len(next))
      BY <1>1, <1>2, CoveredBoth
<1>4. e = Len(text) + Len(next) /\ e \in Nat /\ longer \in TextSet
      BY CatTexts
<1>5. longer = Cat(longer, Text(none)) /\ none = <<>>
      BY <1>4, TextLaws, CatTexts
<1> HIDE DEF none, longer
<1>6. Upto(chunks \o more, none, longer)
      BY <1>2, <1>3, <1>4, <1>5 DEF Upto
<1> QED BY <1>5, <1>6 DEF longer

\* When nothing is being filled, all of the text has been put out.
LEMMA UptoAll ==
    ASSUME NEW chunks, NEW text, Upto(chunks, <<>>, text)
    PROVE  Covered(Texts(chunks), text, Len(text))
  BY DEF Upto

\* What a quotient bounds.
LEMMA DivBounds ==
    ASSUME NEW a \in Nat, NEW b \in Nat \ {0}
    PROVE  a \div b \in Nat /\ (a \div b) * b <= a /\ a < (a \div b) * b + b
  OBVIOUS

(***************************************************************************)
(* Ends and beginnings of parts.                                           *)
(***************************************************************************)
EndsWith(text, end) == \E less \in TextSet : text = Cat(less, end)

\* Parts in two are the text in two.
LEMMA PartsInTwo ==
    ASSUME NEW parts \in ChunkSet, NEW n \in 0 .. Len(parts)
    PROVE  /\ SubSeq(parts, 1, n) \in ChunkSet /\ SubSeq(parts, n + 1, Len(parts)) \in ChunkSet
           /\ parts = SubSeq(parts, 1, n) \o SubSeq(parts, n + 1, Len(parts))
           /\ EndsWith(Text(parts), Text(SubSeq(parts, n + 1, Len(parts))))
<1> DEFINE a == SubSeq(parts, 1, n)
           b == SubSeq(parts, n + 1, Len(parts))
<1>1. Len(parts) \in Nat /\ \A i \in 1 .. Len(parts) : parts[i] \in PartSet
      BY DEF ChunkSet
<1>2. a \in ChunkSet /\ b \in ChunkSet
      BY <1>1, SubSeqProperties DEF ChunkSet
<1>3. parts = a \o b
  <2>1. 1 \in 1 .. Len(parts) + 1 /\ n \in 1 - 1 .. Len(parts) /\ Len(parts) \in n .. Len(parts)
        BY <1>1
  <2>2. SubSeq(parts, 1, n) \o SubSeq(parts, n + 1, Len(parts)) = SubSeq(parts, 1, Len(parts))
        BY <2>1, ConcatAdjacentSubSeq DEF ChunkSet
  <2>3. SubSeq(parts, 1, Len(parts)) = parts
        BY SubSeqFull DEF ChunkSet
  <2> QED BY <2>2, <2>3
<1> HIDE DEF a, b
<1>4. Text(parts) = Cat(Text(a), Text(b)) /\ Text(a) \in TextSet
      BY <1>2, <1>3, TextLaws
<1>5. EndsWith(Text(parts), Text(b))
      BY <1>4 DEF EndsWith
<1> QED BY <1>2, <1>3, <1>5 DEF a, b

\* The parts up to one, and it.
LEMMA OnePartMore ==
    ASSUME NEW S, NEW seq \in Seq(S), NEW n \in 1 .. Len(seq)
    PROVE  /\ SubSeq(seq, 1, n - 1) \in Seq(S) /\ seq[n] \in S
           /\ SubSeq(seq, 1, n) = Append(SubSeq(seq, 1, n - 1), seq[n])
<1>1. seq[n] \in S /\ 1 \in 1 .. Len(seq) /\ n \in 1 .. Len(seq) /\ \A i \in 1 .. n - 1 : seq[i] \in S
      OBVIOUS
<1>2. SubSeq(seq, 1, n - 1) \in Seq(S)
      BY <1>1, SubSeqProperties
<1>3. SubSeq(seq, 1, n) = SubSeq(seq, 1, n - 1) \o <<seq[n]>>
      BY <1>1, SubSeqRecursiveSecond
<1>4. Append(SubSeq(seq, 1, n - 1), seq[n]) = SubSeq(seq, 1, n - 1) \o <<seq[n]>>
      BY <1>1, <1>2, AppendIsConcat
<1> QED BY <1>1, <1>2, <1>3, <1>4

\* What fits of the end of the parts is an end of their text.
LEMMA FittingTailEnds ==
    ASSUME NEW parts \in ChunkSet, NEW limit
    PROVE  FittingTail(parts, limit) \in ChunkSet /\ EndsWith(Text(parts), Text(FittingTail(parts, limit)))
<1> DEFINE N == Len(parts)
           tail(n) == SubSeq(parts, N - n + 1, N)
           fits == {n \in 0 .. N : n = 0 \/ Chars(tail(n)) + 1 <= limit}
           chosen == CHOOSE n \in fits : \A m \in fits : m <= n
<1>1. N \in Nat
      BY DEF ChunkSet
<1>2. 0 \in fits /\ fits \in SUBSET (0 .. N)
  <2> HIDE DEF tail
  <2> QED BY <1>1
<1>3. \E n \in fits : \A m \in fits : m <= n
  <2> HIDE DEF fits, N
  <2> QED BY <1>1, <1>2, NatHasMaximum
<1>4. chosen \in fits
  <2> HIDE DEF fits
  <2> QED BY <1>3
<1>5. FittingTail(parts, limit) = tail(chosen)
      BY DEF FittingTail
<1> HIDE DEF chosen
<1>6. chosen \in 0 .. N
      BY <1>4
<1> DEFINE k == N - chosen
<1>7. k \in 0 .. N /\ tail(chosen) = SubSeq(parts, k + 1, N)
      BY <1>1, <1>6
<1> HIDE DEF k, tail
<1>8. SubSeq(parts, k + 1, Len(parts)) \in ChunkSet /\ EndsWith(Text(parts), Text(SubSeq(parts, k + 1, Len(parts))))
      BY <1>7, PartsInTwo
<1> QED BY <1>5, <1>7, <1>8

\* What is carried over is an end of the chunk.
LEMMA CarryEnds ==
    ASSUME NEW rule, NEW parts \in ChunkSet, parts # <<>>
    PROVE  Carry(rule, parts) \in ChunkSet /\ EndsWith(Text(parts), Text(Carry(rule, parts)))
<1> DEFINE one == <<Last(parts)>>
           none == <<>>
           N == Len(parts)
<1>1. N \in Nat \ {0} /\ parts[N] \in PartSet /\ Last(parts) = parts[N]
      BY DEF ChunkSet, Last
<1>2. one \in ChunkSet /\ EndsWith(Text(parts), Text(one))
  <2>1. one = SubSeq(parts, N, N)
        BY <1>1 DEF ChunkSet
  <2>2. N - 1 \in 0 .. Len(parts) /\ (N - 1) + 1 = N
        BY <1>1
  <2> HIDE DEF one, N
  <2>3. SubSeq(parts, (N - 1) + 1, Len(parts)) \in ChunkSet /\ EndsWith(Text(parts), Text(SubSeq(parts, (N - 1) + 1, Len(parts))))
        BY <2>2, PartsInTwo
  <2> QED BY <2>1, <2>2, <2>3 DEF N
<1>3. none \in ChunkSet /\ EndsWith(Text(parts), Text(none))
  <2>1. Text(parts) \in TextSet /\ Cat(Text(parts), none) = Text(parts) /\ Text(none) = none
        BY TextLaws, CatTexts
  <2>2. none \in ChunkSet
        BY DEF ChunkSet
  <2> HIDE DEF none
  <2> QED BY <2>1, <2>2 DEF EndsWith
<1>4. Carry(rule, parts) = FittingTail(parts, rule.overlap) \/ Carry(rule, parts) = one \/ Carry(rule, parts) = none
      BY DEF Carry
<1>5. FittingTail(parts, rule.overlap) \in ChunkSet /\ EndsWith(Text(parts), Text(FittingTail(parts, rule.overlap)))
      BY FittingTailEnds
<1> HIDE DEF one, none
<1> QED BY <1>2, <1>3, <1>4, <1>5

(***************************************************************************)
(* A part in slices.                                                       *)
(***************************************************************************)
\* A part that is too long is cut into slices that cover it.
LEMMA SlicesCover ==
    ASSUME NEW part \in PartSet, NEW chars \in Nat, chars >= AtomChars
    PROVE  Slices(part, chars) \in Seq(ChunkSet) /\ Covered(Texts(Slices(part, chars)), part, Len(part))
<1> DEFINE size == chars \div AtomChars
           L == Len(part)
           N == (L + size - 1) \div size
           EndOf(n) == IF n * size < L THEN n * size ELSE L
           piece(n) == SubSeq(part, (n - 1) * size + 1, EndOf(n))
<1>1. size \in Nat \ {0}
      BY DEF AtomChars
<1>2. L \in Nat \ {0} /\ part \in TextSet /\ part \in Seq(Int)
      BY DEF PartSet, TextSet
<1>3. Slices(part, chars) = [n \in 1 .. N |-> <<piece(n)>>]
      BY DEF Slices
<1> HIDE DEF size, L
<1>4. L + size - 1 \in Nat
      BY <1>1, <1>2
<1>5. N \in Nat /\ N * size <= L + size - 1 /\ L + size - 1 < N * size + size
      BY <1>1, <1>4, DivBounds
<1> HIDE DEF N
<1>6. N # 0 /\ ~(N * size < L)
      BY <1>1, <1>2, <1>5
<1>7. ASSUME NEW n \in 1 .. N
      PROVE  /\ (n - 1) * size \in Nat /\ n * size \in Nat /\ (n - 1) * size < L /\ n * size = (n - 1) * size + size
             /\ (n # 1 => EndOf(n - 1) = (n - 1) * size)
  <2>1. n \in Nat /\ N - n \in Nat /\ n - 1 \in Nat
        BY <1>5
  <2>2. n * size = (n - 1) * size + size /\ (n - 1) * size \in Nat /\ n * size \in Nat
        BY <1>1, <2>1
  <2>3. N * size = n * size + (N - n) * size /\ (N - n) * size \in Nat /\ N * size \in Nat
    <3>1. N = n + (N - n)
          BY <1>5, <2>1
    <3>2. \A a, b, c \in Nat : (a + b) * c = a * c + b * c /\ b * c \in Nat /\ a * c \in Nat
          OBVIOUS
    <3> QED BY <1>1, <2>1, <3>1, <3>2
  <2>4. (n - 1) * size < L
        BY <1>1, <1>2, <1>5, <2>2, <2>3
  <2> QED BY <2>2, <2>4
<1> DEFINE ends == [n \in 0 .. N |-> IF n = 0 THEN 0 ELSE EndOf(n)]
<1>8. ASSUME NEW n \in 1 .. N
      PROVE  /\ ends[n - 1] = (n - 1) * size /\ ends[n] = EndOf(n) /\ EndOf(n) \in 1 .. L /\ EndOf(n) > (n - 1) * size
  <2>1. n - 1 \in 0 .. N /\ n \in 0 .. N /\ n # 0
        BY <1>5
  <2>2. ends[n] = EndOf(n)
        BY <2>1
  <2>3. ends[n - 1] = (n - 1) * size
    <3>1. CASE n = 1
      <4>1. ends[0] = 0 /\ n - 1 = 0 /\ 0 * size = 0
            BY <1>1, <2>1, <3>1
      <4> QED BY <4>1
    <3>2. CASE n # 1
      <4>1. ends[n - 1] = EndOf(n - 1)
            BY <2>1, <3>2
      <4> QED BY <1>7, <3>2, <4>1
    <3> QED BY <3>1, <3>2
  <2>4. EndOf(n) \in 1 .. L /\ EndOf(n) > (n - 1) * size
        BY <1>1, <1>2, <1>7
  <2> QED BY <2>2, <2>3, <2>4
<1>9. ASSUME NEW n \in 1 .. N
      PROVE  piece(n) \in PartSet /\ Window(piece(n), part, ends[n - 1], ends[n])
  <2> DEFINE a == (n - 1) * size
             b == EndOf(n)
  <2>1. a \in Nat /\ a < L /\ b \in 1 .. L /\ b > a /\ ends[n - 1] = a /\ ends[n] = b
        BY <1>7, <1>8
  <2> HIDE DEF a, b, ends
  <2>2. \A i \in a + 1 .. b : part[i] \in Int
        BY <1>2, <2>1 DEF L
  <2>3. SubSeq(part, a + 1, b) \in Seq(Int) /\ Len(SubSeq(part, a + 1, b)) = b - a
        BY <1>2, <2>1, <2>2, SubSeqProperties
  <2> DEFINE s == SubSeq(part, a + 1, b)
  <2>4. b - Len(s) = a /\ b - Len(s) + 1 = a + 1 /\ s \in TextSet /\ s # <<>>
    <3>1. b - Len(s) = a
          BY <1>2, <2>1, <2>3
    <3>2. s # <<>>
      <4>1. Len(s) > 0
            BY <2>1, <2>3
      <4> HIDE DEF s
      <4> QED BY <4>1
    <3> QED BY <2>3, <3>1, <3>2 DEF TextSet
  <2>5. piece(n) = s
        BY DEF a, b
  <2>6. a \in 0 .. a /\ s = SubSeq(part, a + 1, b)
        BY <2>1
  <2> HIDE DEF s, piece
  <2>7. Window(s, part, a, b)
        BY <2>1, <2>4, <2>6 DEF Window, L
  <2> QED BY <2>1, <2>4, <2>5, <2>7 DEF PartSet
<1>10. ends \in [0 .. N -> Nat] /\ ends[0] = 0 /\ ends[N] = L
  <2>1. ASSUME NEW n \in 0 .. N PROVE ends[n] \in Nat
    <3>1. CASE n = 0
          BY <3>1
    <3>2. CASE n # 0
      <4>1. n \in 1 .. N
            BY <1>5, <3>2
      <4>2. ends[n] = EndOf(n) /\ EndOf(n) \in 1 .. L
            BY <1>8, <4>1
      <4> HIDE DEF ends, EndOf
      <4> QED BY <1>2, <4>2
    <3> QED BY <3>1, <3>2
  <2>2. ends[0] = 0 /\ ends[N] = EndOf(N) /\ EndOf(N) = L
        BY <1>5, <1>6
  <2> HIDE DEF EndOf
  <2> QED BY <2>1, <2>2
<1> HIDE DEF ends, piece
<1> DEFINE slices == [n \in 1 .. N |-> <<piece(n)>>]
<1>11. slices \in Seq(ChunkSet) /\ Len(slices) = N /\ \A n \in 1 .. N : slices[n] = <<piece(n)>>
  <2>1. \A n \in 1 .. N : <<piece(n)>> \in ChunkSet
        BY <1>9 DEF ChunkSet
  <2>2. slices \in [1 .. N -> ChunkSet]
        BY <2>1
  <2> QED BY <1>5, <2>2
<1> HIDE DEF slices
<1>12. DOMAIN slices = 1 .. N
      BY <1>11
<1>13. Texts(slices) = [n \in 1 .. N |-> piece(n)]
  <2>1. \A n \in 1 .. N : Text(slices[n]) = piece(n)
        BY <1>9, <1>11, TextLaws
  <2> QED BY <1>12, <2>1 DEF Texts
<1>14. Len(Texts(slices)) = N /\ \A n \in 1 .. N : Texts(slices)[n] = piece(n)
      BY <1>11, <1>13, TextsOfChunks
<1> DEFINE ts == Texts(slices)
<1> HIDE DEF ts
<1>15. Windows(ts, part, ends)
      BY <1>9, <1>10, <1>14 DEF Windows, ts
<1>16. Covered(ts, part, L)
      BY <1>10, <1>14, <1>15 DEF Covered, ts
<1>17. Slices(part, chars) = slices
      BY <1>3 DEF slices
<1> QED BY <1>11, <1>16, <1>17 DEF ts, L

(***************************************************************************)
(* Sentences.                                                              *)
(***************************************************************************)
JoinSentence(all, done, part) ==
    IF done # <<>> /\ Last(Last(done)) > LineEnds
    THEN [done EXCEPT ![Len(done)] = @ \o part] ELSE Append(done, part)

Splitting == INSTANCE RecursionLemmas WITH Op <- JoinSentence

\* A part that is joined to the sentences adds its text.
LEMMA JoinSentenceText ==
    ASSUME NEW all, NEW done \in ChunkSet, NEW part \in PartSet
    PROVE  JoinSentence(all, done, part) \in ChunkSet /\ Text(JoinSentence(all, done, part)) = Cat(Text(done), part)
<1> DEFINE N == Len(done)
           joined == [done EXCEPT ![N] = @ \o part]
           added == Append(done, part)
<1>1. added \in ChunkSet /\ Text(added) = Cat(Text(done), part)
      BY TextLaws DEF ChunkSet
<1>2. CASE done = <<>>
      BY <1>1, <1>2 DEF JoinSentence
<1>3. CASE done # <<>>
  <2> DEFINE front == SubSeq(done, 1, N - 1)
             last == done[N]
             both == Cat(last, part)
  <2>1. N \in Nat \ {0} /\ N \in 1 .. N /\ last \in PartSet
        BY <1>3 DEF ChunkSet
  <2>2. front \in ChunkSet /\ done = Append(front, last)
    <3>1. SubSeq(done, 1, N) = done
          BY SubSeqFull DEF ChunkSet
    <3> QED BY <2>1, <3>1, OnePartMore DEF ChunkSet
  <2>3. last \in TextSet /\ part \in TextSet
        BY <2>1 DEF PartSet
  <2>4. both \in PartSet /\ both = last \o part
    <3>1. both \in TextSet /\ Len(both) = Len(last) + Len(part) /\ Len(last) \in Nat /\ Len(part) \in Nat
          BY <2>3, CatTexts
    <3>2. Len(part) # 0
          BY <2>3, CatTexts DEF PartSet
    <3> HIDE DEF both, last
    <3>3. both # <<>>
          BY <3>1, <3>2, CatTexts
    <3> QED BY <3>1, <3>3 DEF PartSet, both, Cat
  <2>5. joined = Append(front, both)
    <3>1. joined \in Seq(PartSet) /\ Len(joined) = N /\ \A i \in 1 .. N : joined[i] = IF i = N THEN both ELSE done[i]
      <4>1. joined = [done EXCEPT ![N] = both]
            BY <2>1, <2>4 DEF ChunkSet
      <4> HIDE DEF joined, both
      <4> QED BY <2>1, <2>4, <4>1, ExceptSeq DEF ChunkSet
    <3>2. front \in Seq(PartSet) /\ Len(front) = N - 1 /\ \A i \in 1 .. N - 1 : front[i] = done[i]
      <4>1. Len(done) = Len(front) + 1 /\ \A i \in 1 .. Len(front) : done[i] = front[i]
        <5> HIDE DEF front, last
        <5>1. Append(front, last) = done /\ front \in Seq(PartSet)
              BY <2>2 DEF ChunkSet
        <5> QED BY <2>1, <5>1, AppendProperties
      <4>2. front \in Seq(PartSet) /\ Len(front) \in Nat
            BY <2>2 DEF ChunkSet
      <4> HIDE DEF front
      <4> QED BY <2>1, <4>1, <4>2
    <3> DEFINE other == Append(front, both)
    <3> HIDE DEF joined, front, both
    <3>3. other \in Seq(PartSet) /\ Len(other) = (N - 1) + 1 /\ (\A i \in 1 .. N - 1 : other[i] = front[i]) /\ other[(N - 1) + 1] = both
          BY <2>4, <3>2, AppendProperties
    <3> HIDE DEF other, N
    <3>4. \A i \in 1 .. N : joined[i] = other[i]
      <4> TAKE i \in 1 .. N
      <4>1. i = N \/ i \in 1 .. N - 1
            BY <2>1
      <4> QED BY <2>1, <3>1, <3>2, <3>3, <4>1
    <3>5. joined = other
          BY <2>1, <3>1, <3>3, <3>4, SeqEqual
    <3> QED BY <3>5 DEF other
  <2>6. joined \in ChunkSet /\ Text(joined) = Cat(Text(done), part)
    <3>1. Append(front, both) \in ChunkSet
      <4> HIDE DEF front, both
      <4> QED BY <2>2, <2>4, AppendProperties DEF ChunkSet
    <3>2. Text(Append(front, both)) = Cat(Text(front), both) /\ Text(Append(front, last)) = Cat(Text(front), last)
          /\ Text(front) \in TextSet
      <4> HIDE DEF front, both, last
      <4> QED BY <2>1, <2>2, <2>4, TextLaws
    <3>3. Cat(Cat(Text(front), last), part) = Cat(Text(front), both)
      <4> HIDE DEF front, last
      <4> QED BY <2>3, <3>2, CatTexts
    <3> HIDE DEF front, both, last, joined
    <3> QED BY <2>2, <2>5, <3>1, <3>2, <3>3
  <2> HIDE DEF joined
  <2> QED BY <1>1, <2>6 DEF JoinSentence, joined
<1> QED BY <1>2, <1>3

\* Splitting into sentences keeps the text.
LEMMA SentencesText ==
    ASSUME NEW parts \in ChunkSet
    PROVE  Sentences(parts) \in ChunkSet /\ Text(Sentences(parts)) = Text(parts)
<1> DEFINE N == Len(parts)
           none == <<>>
           upto(n) == SubSeq(parts, 1, n)
<1>1. N \in Nat /\ none \in ChunkSet /\ parts \in Seq(PartSet)
      BY DEF ChunkSet
<1>2. Splitting!Folded(none, none, parts) = Sentences(parts)
      BY DEF Splitting!Folded, Splitting!FoldLeft, Splitting!MapThenFoldSet, Splitting!Max, Max, Sentences, JoinSentence, FoldLeft, MapThenFoldSet
<1>3. \A c \in ChunkSet, a \in PartSet : JoinSentence(none, c, a) \in ChunkSet
      BY JoinSentenceText
<1> HIDE DEF none
<1>4. PICK h : Splitting!States(none, ChunkSet, none, parts, h) /\ Splitting!Folded(none, none, parts) = h[Len(parts)]
      BY <1>1, <1>3, Splitting!FoldStates
<1>5. h \in [0 .. N -> ChunkSet] /\ h[0] = none /\ \A n \in 1 .. N : h[n] = JoinSentence(none, h[n - 1], parts[n])
      BY <1>4 DEF Splitting!States
<1> DEFINE T == {n \in 0 .. N : Text(h[n]) = Text(upto(n))}
<1>6. 0 .. N \subseteq T
  <2>1. 0 \in T
    <3>1. upto(0) = <<>>
          BY SubSeqEmpty
    <3> HIDE DEF upto
    <3> QED BY <1>1, <1>5, <3>1 DEF none
  <2>2. ASSUME NEW n \in 1 .. N, n - 1 \in T PROVE n \in T
    <3>1. upto(n - 1) \in ChunkSet /\ parts[n] \in PartSet /\ upto(n) = Append(upto(n - 1), parts[n])
          BY <1>1, OnePartMore DEF ChunkSet
    <3> HIDE DEF upto
    <3>2. h[n - 1] \in ChunkSet /\ n \in 0 .. N
          BY <1>1, <1>5
    <3>3. Text(h[n]) = Cat(Text(h[n - 1]), parts[n])
          BY <1>5, <3>1, <3>2, JoinSentenceText
    <3>4. Text(upto(n)) = Cat(Text(upto(n - 1)), parts[n])
          BY <3>1, TextLaws
    <3> QED BY <2>2, <3>2, <3>3, <3>4
  <2> HIDE DEF T, N
  <2> QED BY <1>1, <2>1, <2>2, InductionTo
<1>7. upto(N) = parts
      BY SubSeqFull DEF ChunkSet
<1>8. N \in 0 .. N
      BY <1>1
<1> HIDE DEF upto
<1> QED BY <1>2, <1>4, <1>5, <1>6, <1>7, <1>8

(***************************************************************************)
(* Packing.                                                                *)
(***************************************************************************)
Packing == INSTANCE RecursionLemmas WITH Op <- AddPart

PackingSet == [chunks : Seq(ChunkSet), current : ChunkSet]
RuleOK(rule) == rule.slice \in Nat /\ rule.slice >= AtomChars

\* What is being filled is put out, if there is something.
LEMMA UptoFlushed ==
    ASSUME NEW chunks \in Seq(ChunkSet), NEW current \in ChunkSet
    PROVE  /\ chunks \o Nonempty(current) \in Seq(ChunkSet)
           /\ \A text \in TextSet : Upto(chunks, current, text) => Upto(chunks \o Nonempty(current), <<>>, text)
<1>1. CASE current = <<>>
  <2>1. chunks \o Nonempty(current) = chunks
        BY <1>1, ConcatEmptySeq DEF Nonempty
  <2> QED BY <1>1, <2>1
<1>2. CASE current # <<>>
  <2>1. chunks \o Nonempty(current) = Append(chunks, current)
        BY <1>2, AppendIsConcat DEF Nonempty
  <2>2. Append(chunks, current) \in Seq(ChunkSet)
        BY AppendProperties
  <2> QED BY <1>2, <2>1, <2>2, UptoPutOut
<1> QED BY <1>1, <1>2

\* Packing a part goes on with the text.
LEMMA AddPartStep ==
    ASSUME NEW rule, RuleOK(rule), NEW packing \in PackingSet, NEW part \in PartSet
    PROVE  LET after == AddPart(rule, packing, part) IN
           /\ after \in PackingSet
           /\ \A text \in TextSet :
                 Upto(packing.chunks, packing.current, text) => Upto(after.chunks, after.current, Cat(text, part))
<1> DEFINE chunks == packing.chunks
           current == packing.current
           one == <<part>>
           slices == Slices(part, rule.slice)
           sliced == [packing EXCEPT !.chunks = @ \o slices]
           grown == [packing EXCEPT !.current = Append(@, part)]
           begun == [chunks |-> Append(chunks, current), current |-> Append(Carry(rule, current), part)]
           after == AddPart(rule, packing, part)
<1>1. chunks \in Seq(ChunkSet) /\ current \in ChunkSet /\ packing = [chunks |-> chunks, current |-> current]
      BY DEF PackingSet
<1>2. one \in ChunkSet /\ Text(one) = part /\ part \in TextSet /\ part # <<>>
      BY TextLaws DEF ChunkSet, PartSet
<1>3. \A parts \in ChunkSet : Append(parts, part) = parts \o one /\ parts \o one \in ChunkSet
  <2> TAKE parts \in ChunkSet
  <2>1. Append(parts, part) = parts \o one /\ Append(parts, part) \in ChunkSet
        BY AppendIsConcat, AppendProperties DEF ChunkSet
  <2> QED BY <2>1
<1>4. slices \in Seq(ChunkSet) /\ Covered(Texts(slices), part, Len(part))
      BY SlicesCover DEF RuleOK
<1>5. \/ current = <<>> /\ after = sliced
      \/ after = grown
      \/ current # <<>> /\ after = begun
      BY DEF AddPart
<1>6. /\ sliced = [chunks |-> chunks \o slices, current |-> current]
      /\ grown = [chunks |-> chunks, current |-> Append(current, part)]
  <2> DEFINE more == chunks \o slices
             longer == Append(current, part)
  <2>1. sliced = [packing EXCEPT !.chunks = more] /\ grown = [packing EXCEPT !.current = longer]
        OBVIOUS
  <2> HIDE DEF more, longer, sliced, grown, chunks, current
  <2>2. sliced = [chunks |-> more, current |-> current] /\ grown = [chunks |-> chunks, current |-> longer]
        BY <1>1, <2>1
  <2> QED BY <2>2 DEF more, longer
<1> HIDE DEF chunks, current, one, slices, after, sliced, grown
<1>7. CASE current = <<>> /\ after = sliced
  <2>1. chunks \o slices \in Seq(ChunkSet) /\ after.chunks = chunks \o slices /\ after.current = current
        BY <1>1, <1>4, <1>6, <1>7, ConcatProperties
  <2>2. after \in PackingSet
        BY <1>1, <1>6, <1>7, <2>1 DEF PackingSet
  <2>3. ASSUME NEW text \in TextSet, Upto(chunks, current, text) PROVE Upto(chunks \o slices, current, Cat(text, part))
        BY <1>1, <1>2, <1>4, <1>7, <2>3, UptoBoth
  <2> QED BY <2>1, <2>2, <2>3 DEF after, chunks, current
<1>8. CASE after = grown
  <2>1. after.chunks = chunks /\ after.current = current \o one /\ after = [chunks |-> chunks, current |-> current \o one]
        BY <1>1, <1>3, <1>6, <1>8
  <2>2. after \in PackingSet
        BY <1>1, <1>3, <2>1 DEF PackingSet
  <2>3. ASSUME NEW text \in TextSet, Upto(chunks, current, text) PROVE Upto(chunks, current \o one, Cat(text, part))
        BY <1>1, <1>2, <2>3, UptoGrows
  <2> QED BY <2>1, <2>2, <2>3 DEF after, chunks, current
<1>9. CASE current # <<>> /\ after = begun
  <2> DEFINE carried == Carry(rule, current)
  <2>1. carried \in ChunkSet /\ EndsWith(Text(current), Text(carried))
        BY <1>1, <1>9, CarryEnds
  <2>2. Append(chunks, current) \in Seq(ChunkSet)
        BY <1>1, AppendProperties
  <2>3. after.chunks = Append(chunks, current) /\ after.current = carried \o one
        /\ after = [chunks |-> Append(chunks, current), current |-> carried \o one]
        BY <1>3, <1>9, <2>1
  <2>4. after \in PackingSet
        BY <1>3, <2>1, <2>2, <2>3 DEF PackingSet
  <2> HIDE DEF carried, begun
  <2>5. ASSUME NEW text \in TextSet, Upto(chunks, current, text)
        PROVE  Upto(Append(chunks, current), carried \o one, Cat(text, part))
    <3>1. Upto(Append(chunks, current), <<>>, text)
          BY <1>1, <1>9, <2>5, UptoPutOut
    <3>2. PICK less \in TextSet : text = Cat(less, Text(current))
          BY <2>5 DEF Upto
    <3>3. PICK front \in TextSet : Text(current) = Cat(front, Text(carried))
          BY <2>1 DEF EndsWith
    <3>4. Text(carried) \in TextSet
          BY <2>1, TextLaws
    <3>5. text = Cat(Cat(less, front), Text(carried)) /\ Cat(less, front) \in TextSet
          BY <3>2, <3>3, <3>4, CatTexts
    <3> QED BY <1>2, <2>1, <2>2, <3>1, <3>5, UptoCarries
  <2> QED BY <2>3, <2>4, <2>5 DEF after, chunks, current
<1> QED BY <1>5, <1>7, <1>8, <1>9

\* What is packed covers what the parts make together.
LEMMA PackedCovers ==
    ASSUME NEW rule, RuleOK(rule), NEW parts \in ChunkSet
    PROVE  Packed(rule, parts) \in Seq(ChunkSet) /\ Covered(Texts(Packed(rule, parts)), Text(parts), Len(Text(parts)))
<1> DEFINE N == Len(parts)
           start == Empty
           upto(n) == SubSeq(parts, 1, n)
<1>1. N \in Nat /\ start \in PackingSet /\ start.chunks = <<>> /\ start.current = <<>> /\ parts \in Seq(PartSet)
      BY DEF ChunkSet, PackingSet, Empty
<1>2. Packing!Folded(rule, start, parts) = FoldLeft(LAMBDA done, part : AddPart(rule, done, part), Empty, parts)
      BY DEF Packing!Folded, Packing!FoldLeft, Packing!MapThenFoldSet, Packing!Max, Max, FoldLeft, MapThenFoldSet
<1>3. \A c \in PackingSet, a \in PartSet : AddPart(rule, c, a) \in PackingSet
      BY AddPartStep
<1> HIDE DEF start
<1>4. PICK h : Packing!States(rule, PackingSet, start, parts, h) /\ Packing!Folded(rule, start, parts) = h[Len(parts)]
      BY <1>1, <1>3, Packing!FoldStates
<1>5. h \in [0 .. N -> PackingSet] /\ h[0] = start /\ \A n \in 1 .. N : h[n] = AddPart(rule, h[n - 1], parts[n])
      BY <1>4 DEF Packing!States
<1> DEFINE T == {n \in 0 .. N : Upto(h[n].chunks, h[n].current, Text(upto(n)))}
<1>6. 0 .. N \subseteq T
  <2>1. 0 \in T
    <3>1. upto(0) = <<>> /\ Text(<<>>) = <<>>
          BY SubSeqEmpty, TextLaws
    <3> HIDE DEF upto
    <3> QED BY <1>1, <1>5, <3>1, UptoNothing
  <2>2. ASSUME NEW n \in 1 .. N, n - 1 \in T PROVE n \in T
    <3>1. upto(n - 1) \in ChunkSet /\ parts[n] \in PartSet /\ upto(n) = Append(upto(n - 1), parts[n])
          BY <1>1, OnePartMore DEF ChunkSet
    <3> HIDE DEF upto
    <3>2. h[n - 1] \in PackingSet /\ n \in 0 .. N /\ h[n] = AddPart(rule, h[n - 1], parts[n])
          BY <1>1, <1>5
    <3>3. Text(upto(n)) = Cat(Text(upto(n - 1)), parts[n]) /\ Text(upto(n - 1)) \in TextSet
          BY <3>1, TextLaws
    <3> HIDE DEF N
    <3>4. Upto(h[n].chunks, h[n].current, Cat(Text(upto(n - 1)), parts[n]))
          BY <2>2, <3>1, <3>2, <3>3, AddPartStep
    <3> QED BY <3>2, <3>3, <3>4
  <2> HIDE DEF T, N
  <2> QED BY <1>1, <2>1, <2>2, InductionTo
<1>7. upto(N) = parts
      BY SubSeqFull DEF ChunkSet
<1> DEFINE last == h[N]
<1>8. last \in PackingSet /\ Upto(last.chunks, last.current, Text(parts))
  <2>1. N \in 0 .. N
        BY <1>1
  <2> HIDE DEF upto
  <2> QED BY <1>5, <1>6, <1>7, <2>1
<1>9. Packed(rule, parts) = last.chunks \o Nonempty(last.current)
      BY <1>2, <1>4 DEF Packed
<1> HIDE DEF last, N, T, upto
<1>10. last.chunks \in Seq(ChunkSet) /\ last.current \in ChunkSet /\ Text(parts) \in TextSet
      BY <1>8, TextLaws DEF PackingSet
<1>11. /\ last.chunks \o Nonempty(last.current) \in Seq(ChunkSet)
       /\ Upto(last.chunks \o Nonempty(last.current), <<>>, Text(parts))
      BY <1>8, <1>10, UptoFlushed
<1> QED BY <1>9, <1>11, UptoAll

(***************************************************************************)
(* Blocks.                                                                 *)
(***************************************************************************)
BlockTypes == {"code", "table", "list", "quote", "caption", "heading", "paragraph"}
BlockSet == [type : BlockTypes, parts : ChunkSet \ {<<>>}]

\* Parts have a text.
LEMMA TextOfSome == ASSUME NEW parts \in ChunkSet, parts # <<>> PROVE Text(parts) # <<>>
<1> DEFINE N == Len(parts)
           front == SubSeq(parts, 1, N - 1)
<1>1. N \in 1 .. N /\ parts \in Seq(PartSet) /\ SubSeq(parts, 1, N) = parts
      BY SubSeqFull DEF ChunkSet
<1>2. front \in ChunkSet /\ parts[N] \in PartSet /\ parts = Append(front, parts[N])
      BY <1>1, OnePartMore DEF ChunkSet
<1> HIDE DEF front, N
<1> DEFINE last == parts[N]
           before == Text(front)
<1>3. last \in TextSet /\ last # <<>> /\ parts = Append(front, last) /\ last \in PartSet
      BY <1>2 DEF PartSet
<1> HIDE DEF last
<1>4. Text(Append(front, last)) = Cat(before, last) /\ before \in TextSet
      BY <1>2, <1>3, TextLaws
<1> HIDE DEF before
<1>5. Len(Cat(before, last)) = Len(before) + Len(last) /\ Cat(before, last) \in TextSet
      BY <1>3, <1>4, CatTexts
<1>6. Len(before) \in Nat /\ Len(last) \in Nat /\ Len(last) # 0
      BY <1>3, <1>4, CatTexts
<1>7. Len(Text(parts)) # 0
      BY <1>3, <1>4, <1>5, <1>6
<1> QED BY <1>7, <1>3, <1>4, <1>5, CatTexts

\* The content of blocks is their parts, joined.
LEMMA ContentLaws ==
    /\ Content(<<>>) = <<>>
    /\ \A blocks \in Seq(BlockSet) : Content(blocks) \in ChunkSet
    /\ \A blocks \in Seq(BlockSet) : \A block \in BlockSet : Content(Append(blocks, block)) = Content(blocks) \o block.parts
    /\ \A block \in BlockSet : Content(<<block>>) = block.parts
<1> DEFINE S == PartSet
           U == Seq(S)
           PartsOf(blocks) == [i \in DOMAIN blocks |-> blocks[i].parts]
<1>1. U = Seq(S) /\ U = ChunkSet /\ \A block \in BlockSet : block.parts \in U
      BY DEF ChunkSet, BlockSet
<1> HIDE DEF U, S
<1>2. ASSUME NEW blocks \in Seq(BlockSet)
      PROVE  PartsOf(blocks) \in Seq(U) /\ Len(PartsOf(blocks)) = Len(blocks) /\ \A i \in 1 .. Len(blocks) : PartsOf(blocks)[i] = blocks[i].parts
  <2>1. DOMAIN blocks = 1 .. Len(blocks) /\ Len(blocks) \in Nat /\ \A i \in 1 .. Len(blocks) : blocks[i] \in BlockSet
        OBVIOUS
  <2>2. PartsOf(blocks) \in [1 .. Len(blocks) -> U]
        BY <1>1, <2>1
  <2>3. PartsOf(blocks) \in Seq(U) /\ Len(PartsOf(blocks)) = Len(blocks)
    <3> HIDE DEF PartsOf
    <3> QED BY <2>1, <2>2
  <2> QED BY <2>1, <2>3
<1>3. ASSUME NEW blocks \in Seq(BlockSet), NEW block \in BlockSet
      PROVE  PartsOf(Append(blocks, block)) = Append(PartsOf(blocks), block.parts)
  <2> DEFINE s == PartsOf(Append(blocks, block))
             t == Append(PartsOf(blocks), block.parts)
             p == PartsOf(blocks)
             more == Append(blocks, block)
             N == Len(blocks)
  <2>1. more \in Seq(BlockSet) /\ Len(more) = N + 1 /\ N \in Nat /\ more[N + 1] = block /\ \A i \in 1 .. N : more[i] = blocks[i]
        BY AppendProperties
  <2>2. p \in Seq(U) /\ Len(p) = N /\ \A i \in 1 .. N : p[i] = blocks[i].parts
        BY <1>2
  <2>3. s \in Seq(U) /\ Len(s) = N + 1 /\ \A i \in 1 .. N + 1 : s[i] = more[i].parts
    <3> HIDE DEF PartsOf, N
    <3> QED BY <1>2, <2>1
  <2> HIDE DEF p, more, s, N, PartsOf
  <2>4. t \in Seq(U) /\ Len(t) = N + 1 /\ t[N + 1] = block.parts /\ \A i \in 1 .. N : t[i] = p[i]
    <3>1. t = Append(p, block.parts) /\ block.parts \in U
          BY <1>1 DEF p
    <3> HIDE DEF t
    <3> QED BY <2>2, <3>1, AppendProperties
  <2> HIDE DEF t
  <2>5. \A i \in 1 .. N + 1 : s[i] = t[i]
    <3> TAKE i \in 1 .. N + 1
    <3>1. i = N + 1 \/ i \in 1 .. N
          BY <2>1
    <3> QED BY <2>1, <2>2, <2>3, <2>4, <3>1
  <2>6. s = t
        BY <2>3, <2>4, <2>5, SeqEqual
  <2> QED BY <2>6 DEF s, t
<1>4. \A blocks : Content(blocks) = FlattenSeq(PartsOf(blocks))
      BY DEF Content
<1>5. Content(<<>>) = <<>>
  <2>1. PartsOf(<<>>) = <<>>
        OBVIOUS
  <2> QED BY <1>4, <2>1, FlattenNone
<1>6. ASSUME NEW block \in BlockSet PROVE Content(<<block>>) = block.parts
  <2>1. PartsOf(<<block>>) = <<block.parts>> /\ block.parts \in U
        BY <1>1
  <2> HIDE DEF PartsOf
  <2>2. FlattenSeq(<<block.parts>>) = block.parts
        BY <1>1, <2>1, FlattenOne
  <2> QED BY <1>4, <2>1, <2>2
<1> HIDE DEF PartsOf
<1>7. ASSUME NEW blocks \in Seq(BlockSet)
      PROVE  Content(blocks) \in ChunkSet /\ \A block \in BlockSet : Content(Append(blocks, block)) = Content(blocks) \o block.parts
  <2>1. Content(blocks) \in ChunkSet
        BY <1>1, <1>2, <1>4, FlattenType
  <2>2. ASSUME NEW block \in BlockSet PROVE Content(Append(blocks, block)) = Content(blocks) \o block.parts
    <3>1. FlattenSeq(Append(PartsOf(blocks), block.parts)) = Cat(FlattenSeq(PartsOf(blocks)), block.parts)
          BY <1>1, <1>2, FlattenAppend
    <3> QED BY <1>3, <1>4, <3>1 DEF Cat
  <2> QED BY <2>1, <2>2
<1> QED BY <1>5, <1>6, <1>7

(***************************************************************************)
(* The chunker.                                                            *)
(***************************************************************************)
Chunker == INSTANCE RecursionLemmas WITH Op <- AddBlock

ChunkingSet == [chunks : Seq(ChunkSet), current : Seq(BlockSet)]
LimitsOK(limits) ==
    /\ limits.semantic_chunk_max_tokens \in Nat /\ limits.semantic_chunk_max_tokens >= 10
    /\ limits.child_chunk_size \in Nat /\ limits.child_chunk_size >= AtomChars

\* A block that is too long is cut into chunks that cover it.
LEMMA SplitBlockCovers ==
    ASSUME NEW limits, LimitsOK(limits), NEW block \in BlockSet
    PROVE  /\ SplitSemanticBlock(limits, block) \in Seq(ChunkSet)
           /\ Covered(Texts(SplitSemanticBlock(limits, block)), Text(block.parts), Len(Text(block.parts)))
<1> DEFINE rule == [unit |-> "tokens", max |-> limits.semantic_chunk_max_tokens,
                    slice |-> limits.semantic_chunk_max_tokens * 4,
                    carries |-> "one", overlap |-> limits.chunk_overlap]
           parts == IF block.type \in {"table", "code", "list"} THEN block.parts ELSE Sentences(block.parts)
<1>1. RuleOK(rule)
      BY DEF RuleOK, LimitsOK, AtomChars
<1>2. block.parts \in ChunkSet
      BY DEF BlockSet
<1>3. parts \in ChunkSet /\ Text(parts) = Text(block.parts)
      BY <1>2, SentencesText
<1>4. SplitSemanticBlock(limits, block) = Packed(rule, parts)
      BY DEF SplitSemanticBlock
<1> HIDE DEF rule, parts
<1> QED BY <1>1, <1>3, <1>4, PackedCovers

\* The blocks that a chunk begins with again are an end of the one before.
LEMMA OverlapEnds ==
    ASSUME NEW limits, NEW blocks \in Seq(BlockSet), blocks # <<>>
    PROVE  /\ OverlapBlocks(limits, blocks) \in Seq(BlockSet)
           /\ EndsWith(Text(Content(blocks)), Text(Content(OverlapBlocks(limits, blocks))))
<1> DEFINE N == Len(blocks)
           last == blocks[N]
           front == SubSeq(blocks, 1, N - 1)
           none == <<>>
           one == <<last>>
           tail == FittingTail(Sentences(last.parts), limits.chunk_overlap)
           cut == [last EXCEPT !.parts = tail]
           ended == <<cut>>
<1>1. N \in 1 .. N /\ SubSeq(blocks, 1, N) = blocks
      BY SubSeqFull
<1>2. front \in Seq(BlockSet) /\ last \in BlockSet /\ blocks = Append(front, last)
      BY <1>1, OnePartMore
<1>3. Last(blocks) = last
      BY DEF Last
<1>4. last.parts \in ChunkSet /\ last = [type |-> last.type, parts |-> last.parts] /\ last.type \in BlockTypes
      BY <1>2 DEF BlockSet
<1>5. OverlapBlocks(limits, blocks) = none \/ OverlapBlocks(limits, blocks) = one
      \/ (OverlapBlocks(limits, blocks) = ended /\ tail # <<>>)
      BY <1>3 DEF OverlapBlocks
<1>6. tail \in ChunkSet /\ EndsWith(Text(last.parts), Text(tail))
      BY <1>4, SentencesText, FittingTailEnds
<1> HIDE DEF N, last, front
<1>7. Text(Content(blocks)) = Cat(Text(Content(front)), Text(last.parts)) /\ Text(Content(front)) \in TextSet
      /\ Text(Content(blocks)) \in TextSet /\ Text(last.parts) \in TextSet
  <2>1. Content(blocks) = Content(front) \o last.parts /\ Content(front) \in ChunkSet /\ Content(blocks) \in ChunkSet
        BY <1>2, ContentLaws
  <2> QED BY <1>4, <2>1, TextLaws
<1>8. none \in Seq(BlockSet) /\ EndsWith(Text(Content(blocks)), Text(Content(none)))
  <2>1. Text(Content(none)) = <<>> /\ none \in Seq(BlockSet)
        BY ContentLaws, TextLaws
  <2>2. Text(Content(blocks)) = Cat(Text(Content(blocks)), <<>>)
        BY <1>7, CatTexts
  <2> HIDE DEF none
  <2> QED BY <1>7, <2>1, <2>2 DEF EndsWith
<1>9. one \in Seq(BlockSet) /\ EndsWith(Text(Content(blocks)), Text(Content(one)))
  <2>1. Content(one) = last.parts /\ one \in Seq(BlockSet)
        BY <1>2, ContentLaws
  <2> HIDE DEF one
  <2> QED BY <1>7, <2>1 DEF EndsWith
<1>10. ASSUME tail # <<>> PROVE ended \in Seq(BlockSet) /\ EndsWith(Text(Content(blocks)), Text(Content(ended)))
  <2> HIDE DEF tail
  <2>1. cut = [type |-> last.type, parts |-> tail] /\ cut \in BlockSet
        BY <1>4, <1>6, <1>10 DEF BlockSet
  <2> HIDE DEF cut
  <2>2. ended \in Seq(BlockSet) /\ Content(ended) = cut.parts /\ cut.parts = tail
        BY <2>1, ContentLaws
  <2> HIDE DEF ended
  <2>3. PICK less \in TextSet : Text(last.parts) = Cat(less, Text(tail))
        BY <1>6 DEF EndsWith
  <2>4. Text(tail) \in TextSet
        BY <1>6, TextLaws
  <2>5. Text(Content(blocks)) = Cat(Cat(Text(Content(front)), less), Text(tail)) /\ Cat(Text(Content(front)), less) \in TextSet
        BY <1>7, <2>3, <2>4, CatTexts
  <2> QED BY <2>2, <2>5 DEF EndsWith
<1> HIDE DEF none, one, ended, tail
<1> QED BY <1>5, <1>8, <1>9, <1>10

\* A flush puts out all that was being filled.
LEMMA FlushKeeps ==
    ASSUME NEW chunking \in ChunkingSet
    PROVE  /\ Flush(chunking) \in ChunkingSet /\ Flush(chunking).current = <<>>
           /\ \A text \in TextSet : Upto(chunking.chunks, Content(chunking.current), text) => Upto(Flush(chunking).chunks, <<>>, text)
<1>1. chunking.chunks \in Seq(ChunkSet) /\ chunking.current \in Seq(BlockSet)
      BY DEF ChunkingSet
<1>2. Content(chunking.current) \in ChunkSet
      BY <1>1, ContentLaws
<1> DEFINE more == chunking.chunks \o Nonempty(Content(chunking.current))
           none == <<>>
<1>3. Flush(chunking) = [chunks |-> more, current |-> none]
      BY DEF Flush
<1>4. more \in Seq(ChunkSet) /\ \A text \in TextSet : Upto(chunking.chunks, Content(chunking.current), text) => Upto(more, <<>>, text)
      BY <1>1, <1>2, UptoFlushed
<1>5. none \in Seq(BlockSet) /\ none = <<>>
      OBVIOUS
<1> HIDE DEF more, none
<1> QED BY <1>3, <1>4, <1>5 DEF ChunkingSet

\* A block goes on with the text.
LEMMA AddBlockStep ==
    ASSUME NEW limits, LimitsOK(limits), NEW chunking \in ChunkingSet, NEW block \in BlockSet
    PROVE  LET after == AddBlock(limits, chunking, block) IN
           /\ after \in ChunkingSet
           /\ \A text \in TextSet : Upto(chunking.chunks, Content(chunking.current), text)
                 => Upto(after.chunks, Content(after.current), Cat(text, Text(block.parts)))
<1> DEFINE start == IF block.type = "heading" THEN Flush(chunking) ELSE chunking
           flushed == Flush(start)
           carried == IF start.current = <<>> THEN <<>> ELSE OverlapBlocks(limits, start.current)
           split == SplitSemanticBlock(limits, block)
           grown == [start EXCEPT !.current = Append(@, block)]
           apart == [flushed EXCEPT !.chunks = @ \o split]
           begun == [flushed EXCEPT !.current = Append(carried, block)]
           after == AddBlock(limits, chunking, block)
           none == <<>>
<1>1. after = grown \/ after = apart \/ after = begun
      BY DEF AddBlock
<1>2. Content(none) = none /\ none \in Seq(BlockSet) /\ none = <<>>
      BY ContentLaws
<1>3. start \in ChunkingSet /\ \A text \in TextSet :
         Upto(chunking.chunks, Content(chunking.current), text) => Upto(start.chunks, Content(start.current), text)
      BY <1>2, FlushKeeps
<1>4. block.parts \in ChunkSet /\ Text(block.parts) # <<>> /\ Text(block.parts) \in TextSet
      BY TextOfSome, TextLaws DEF BlockSet
<1>5. split \in Seq(ChunkSet) /\ Covered(Texts(split), Text(block.parts), Len(Text(block.parts)))
      BY SplitBlockCovers
<1> HIDE DEF start, split, none
<1>6. flushed \in ChunkingSet /\ flushed.current = none
      /\ \A text \in TextSet : Upto(start.chunks, Content(start.current), text) => Upto(flushed.chunks, none, text)
      BY <1>2, <1>3, FlushKeeps
<1>7. carried \in Seq(BlockSet) /\ EndsWith(Text(Content(start.current)), Text(Content(carried)))
  <2>1. start.current \in Seq(BlockSet)
        BY <1>3 DEF ChunkingSet
  <2>2. CASE start.current = none
    <3>1. carried = none /\ Text(Content(none)) = <<>> /\ Cat(<<>>, <<>>) = <<>> /\ <<>> \in TextSet
          BY <1>2, <2>2, TextLaws, CatTexts
    <3>2. EndsWith(Text(Content(none)), Text(Content(none)))
          BY <3>1 DEF EndsWith
    <3> HIDE DEF carried
    <3> QED BY <1>2, <2>2, <3>1, <3>2
  <2>3. CASE start.current # none
        BY <1>2, <2>1, <2>3, OverlapEnds
  <2> QED BY <2>2, <2>3
<1> HIDE DEF flushed, carried
<1>8. /\ start = [chunks |-> start.chunks, current |-> start.current] /\ start.chunks \in Seq(ChunkSet) /\ start.current \in Seq(BlockSet)
      /\ flushed = [chunks |-> flushed.chunks, current |-> none] /\ flushed.chunks \in Seq(ChunkSet)
      BY <1>3, <1>6 DEF ChunkingSet
<1>9. \A blocks \in Seq(BlockSet) : Append(blocks, block) \in Seq(BlockSet) /\ Content(blocks) \in ChunkSet
         /\ Content(Append(blocks, block)) = Content(blocks) \o block.parts
      BY ContentLaws, AppendProperties
<1> DEFINE Goal == after \in ChunkingSet /\ \A text \in TextSet :
              Upto(start.chunks, Content(start.current), text) => Upto(after.chunks, Content(after.current), Cat(text, Text(block.parts)))
<1>10. ASSUME after = grown PROVE Goal
  <2> DEFINE longer == Append(start.current, block)
  <2>1. grown = [start EXCEPT !.current = longer]
        OBVIOUS
  <2>2. longer \in Seq(BlockSet) /\ Content(longer) = Content(start.current) \o block.parts /\ Content(start.current) \in ChunkSet
        BY <1>8, <1>9
  <2> HIDE DEF longer, grown, after
  <2>3. after = [chunks |-> start.chunks, current |-> longer]
        BY <1>8, <1>10, <2>1
  <2>4. after \in ChunkingSet
        BY <1>8, <2>2, <2>3 DEF ChunkingSet
  <2>5. ASSUME NEW text \in TextSet, Upto(start.chunks, Content(start.current), text)
        PROVE  Upto(start.chunks, Content(start.current) \o block.parts, Cat(text, Text(block.parts)))
        BY <1>4, <1>8, <2>2, <2>5, UptoGrows
  <2> QED BY <2>2, <2>3, <2>4, <2>5
<1>11. ASSUME after = apart PROVE Goal
  <2> DEFINE more == flushed.chunks \o split
  <2>1. apart = [flushed EXCEPT !.chunks = more]
        OBVIOUS
  <2>2. more \in Seq(ChunkSet)
        BY <1>5, <1>8, ConcatProperties
  <2>3. ASSUME NEW text \in TextSet, Upto(flushed.chunks, <<>>, text)
        PROVE  Upto(more, <<>>, Cat(text, Text(block.parts)))
        BY <1>4, <1>5, <1>8, <2>3, UptoBoth
  <2> HIDE DEF more, apart, after
  <2>4. after = [chunks |-> more, current |-> none]
        BY <1>8, <1>11, <2>1
  <2>5. after \in ChunkingSet
        BY <1>2, <2>2, <2>4 DEF ChunkingSet
  <2> QED BY <1>2, <1>6, <2>3, <2>4, <2>5
<1>12. ASSUME after = begun PROVE Goal
  <2> DEFINE longer == Append(carried, block)
  <2>1. begun = [flushed EXCEPT !.current = longer]
        OBVIOUS
  <2>2. longer \in Seq(BlockSet) /\ Content(longer) = Content(carried) \o block.parts /\ Content(carried) \in ChunkSet
        BY <1>7, <1>9
  <2> HIDE DEF longer, begun, after
  <2>3. after = [chunks |-> flushed.chunks, current |-> longer]
        BY <1>8, <1>12, <2>1
  <2>4. after \in ChunkingSet
        BY <1>8, <2>2, <2>3 DEF ChunkingSet
  <2>5. ASSUME NEW text \in TextSet, Upto(start.chunks, Content(start.current), text)
        PROVE  Upto(flushed.chunks, Content(carried) \o block.parts, Cat(text, Text(block.parts)))
    <3>1. Upto(flushed.chunks, <<>>, text)
          BY <1>2, <1>6, <2>5
    <3>2. PICK less \in TextSet : text = Cat(less, Text(Content(start.current)))
          BY <2>5 DEF Upto
    <3>3. PICK front \in TextSet : Text(Content(start.current)) = Cat(front, Text(Content(carried)))
          BY <1>7 DEF EndsWith
    <3>4. Text(Content(carried)) \in TextSet
          BY <2>2, TextLaws
    <3>5. text = Cat(Cat(less, front), Text(Content(carried))) /\ Cat(less, front) \in TextSet
          BY <3>2, <3>3, <3>4, CatTexts
    <3> QED BY <1>4, <1>8, <2>2, <3>1, <3>5, UptoCarries
  <2> QED BY <2>2, <2>3, <2>4, <2>5
<1>13. Goal
  <2> HIDE DEF Goal
  <2> QED BY <1>1, <1>10, <1>11, <1>12
<1> QED BY <1>3, <1>13

\* The parents of a document cover its text.
LEMMA ParentsCover ==
    ASSUME NEW limits, LimitsOK(limits), NEW document \in Seq(BlockSet)
    PROVE  /\ Parents(limits, document) \in Seq(ChunkSet)
           /\ Covered(Texts(Parents(limits, document)), Text(Content(document)), Len(Text(Content(document))))
<1> DEFINE N == Len(document)
           start == Empty
           none == <<>>
           upto(n) == SubSeq(document, 1, n)
<1>1. N \in Nat /\ start \in ChunkingSet /\ start.chunks = none /\ start.current = none /\ none = <<>>
      BY DEF ChunkingSet, Empty
<1>2. Chunker!Folded(limits, start, document) = FoldLeft(LAMBDA chunking, block : AddBlock(limits, chunking, block), Empty, document)
      BY DEF Chunker!Folded, Chunker!FoldLeft, Chunker!MapThenFoldSet, Chunker!Max, Max, FoldLeft, MapThenFoldSet
<1>3. \A c \in ChunkingSet, a \in BlockSet : AddBlock(limits, c, a) \in ChunkingSet
      BY AddBlockStep
<1>n. Content(none) = none /\ Text(none) = none
      BY ContentLaws, TextLaws
<1> HIDE DEF start, none
<1>4. PICK h : Chunker!States(limits, ChunkingSet, start, document, h) /\ Chunker!Folded(limits, start, document) = h[Len(document)]
      BY <1>1, <1>3, Chunker!FoldStates
<1>5. h \in [0 .. N -> ChunkingSet] /\ h[0] = start /\ \A n \in 1 .. N : h[n] = AddBlock(limits, h[n - 1], document[n])
      BY <1>4 DEF Chunker!States
<1> DEFINE T == {n \in 0 .. N : Upto(h[n].chunks, Content(h[n].current), Text(Content(upto(n))))}
<1>6. 0 .. N \subseteq T
  <2>1. 0 \in T
    <3>1. upto(0) = none
          BY <1>1, SubSeqEmpty
    <3>2. Upto(none, none, none)
          BY <1>1, UptoNothing
    <3> HIDE DEF upto
    <3> QED BY <1>1, <1>5, <1>n, <3>1, <3>2
  <2>2. ASSUME NEW n \in 1 .. N, n - 1 \in T PROVE n \in T
    <3>1. upto(n - 1) \in Seq(BlockSet) /\ document[n] \in BlockSet /\ upto(n) = Append(upto(n - 1), document[n])
          BY <1>1, OnePartMore
    <3> HIDE DEF upto
    <3>2. h[n - 1] \in ChunkingSet /\ n \in 0 .. N /\ h[n] = AddBlock(limits, h[n - 1], document[n])
          BY <1>1, <1>5
    <3> DEFINE before == Content(upto(n - 1))
               block == document[n]
    <3>3. Content(upto(n)) = before \o block.parts /\ before \in ChunkSet /\ block.parts \in ChunkSet
          BY <3>1, ContentLaws DEF BlockSet
    <3>4. Text(Content(upto(n))) = Cat(Text(before), Text(block.parts)) /\ Text(before) \in TextSet
      <4> HIDE DEF before, block
      <4> QED BY <3>3, TextLaws
    <3> HIDE DEF N
    <3>5. Upto(h[n].chunks, Content(h[n].current), Cat(Text(before), Text(block.parts)))
          BY <2>2, <3>1, <3>2, <3>4, AddBlockStep
    <3> QED BY <3>2, <3>4, <3>5
  <2> HIDE DEF T, N
  <2> QED BY <1>1, <2>1, <2>2, InductionTo
<1>7. upto(N) = document
      BY SubSeqFull
<1> DEFINE last == h[N]
<1>8. last \in ChunkingSet /\ Upto(last.chunks, Content(last.current), Text(Content(document)))
  <2>1. N \in 0 .. N
        BY <1>1
  <2> HIDE DEF upto
  <2> QED BY <1>5, <1>6, <1>7, <2>1
<1>9. Parents(limits, document) = Flush(last).chunks
      BY <1>2, <1>4 DEF Parents
<1> HIDE DEF last, N, T, upto
<1>10. Content(document) \in ChunkSet
      BY ContentLaws
<1>11. Text(Content(document)) \in TextSet
      BY <1>10, TextLaws
<1>12. Flush(last) \in ChunkingSet /\ Upto(Flush(last).chunks, <<>>, Text(Content(document)))
      BY <1>8, <1>11, FlushKeeps
<1> QED BY <1>9, <1>12, UptoAll DEF ChunkingSet

\* Pieces that cover a text are not empty.
LEMMA CoveringPieces ==
    ASSUME NEW pieces \in Seq(TextSet), NEW text \in TextSet, NEW e, Covered(pieces, text, e), NEW i \in 1 .. Len(pieces)
    PROVE  pieces[i] # <<>> /\ \E from \in 0 .. Len(text) : SubSeq(text, from + 1, from + Len(pieces[i])) = pieces[i]
<1>1. PICK ends : Windows(pieces, text, ends)
      BY DEF Covered
<1>2. Window(pieces[i], text, ends[i - 1], ends[i]) /\ ends[i - 1] \in Nat /\ pieces[i] \in TextSet
      BY <1>1 DEF Windows
<1> DEFINE p == ends[i - 1]
           q == ends[i]
           piece == pieces[i]
<1> HIDE DEF p, q, piece
<1>3. piece \in TextSet /\ p \in Nat /\ q \in 1 .. Len(text) /\ q > p /\ q - Len(piece) \in 0 .. p /\ SubSeq(text, q - Len(piece) + 1, q) = piece
      BY <1>2 DEF p, q, piece, Window
<1> DEFINE from == q - Len(piece)
<1>4. Len(piece) \in Nat /\ Len(text) \in Nat
      BY <1>3 DEF TextSet
<1>5. from \in 0 .. Len(text) /\ from + Len(piece) = q /\ from + 1 = q - Len(piece) + 1 /\ Len(piece) # 0
      BY <1>3, <1>4
<1>6. piece # <<>>
      BY <1>5
<1> HIDE DEF from
<1>7. SubSeq(text, from + 1, from + Len(piece)) = piece
      BY <1>3, <1>5
<1> QED BY <1>5, <1>6, <1>7 DEF piece

\* A text covers itself.
LEMMA CoveredByItself ==
    ASSUME NEW text \in TextSet, text # <<>>
    PROVE  Covered(<<text>>, text, Len(text))
<1> DEFINE none == <<>>
           one == Append(none, text)
<1>1. Covered(none, text, 0) /\ none \in Seq(TextSet)
      BY NoneCovered
<1>2. Len(text) \in Nat /\ Len(text) # 0 /\ SubSeq(text, 1, Len(text)) = text
      BY CatTexts, SubSeqFull DEF TextSet
<1>3. Window(text, text, 0, Len(text))
      BY <1>2 DEF Window
<1>4. one = <<text>>
      OBVIOUS
<1> HIDE DEF none
<1> QED BY <1>1, <1>3, <1>4, CoveredWithOne

\* The children of a parent cover its text.
LEMMA ChildrenCover ==
    ASSUME NEW limits, LimitsOK(limits), NEW parent \in ChunkSet, Text(parent) # <<>>
    PROVE  /\ GenerateChildren(limits, parent) \in Seq(ChunkSet)
           /\ Covered(Texts(GenerateChildren(limits, parent)), Text(parent), Len(Text(parent)))
<1> DEFINE rule == [unit |-> "chars", max |-> limits.child_chunk_size, slice |-> limits.child_chunk_size,
                    carries |-> "tail", overlap |-> limits.child_chunk_overlap]
           one == <<parent>>
<1>1. RuleOK(rule)
      BY DEF RuleOK, LimitsOK
<1>2. Sentences(parent) \in ChunkSet /\ Text(Sentences(parent)) = Text(parent) /\ Text(parent) \in TextSet
      BY SentencesText, TextLaws
<1>3. GenerateChildren(limits, parent) = one \/ GenerateChildren(limits, parent) = Packed(rule, Sentences(parent))
      BY DEF GenerateChildren
<1>4. one \in Seq(ChunkSet) /\ Texts(one) = <<Text(parent)>>
      BY DEF Texts
<1>5. Covered(Texts(one), Text(parent), Len(Text(parent)))
      BY <1>2, <1>4, CoveredByItself
<1> HIDE DEF rule, one
<1>6. Packed(rule, Sentences(parent)) \in Seq(ChunkSet) /\ Covered(Texts(Packed(rule, Sentences(parent))), Text(parent), Len(Text(parent)))
      BY <1>1, <1>2, PackedCovers
<1> QED BY <1>3, <1>4, <1>5, <1>6

\* Whatever the limits and the document, its parents cover its text and the children
\* of each parent the text of the parent (StructureAwareChunker, ParentChildBuilder).
THEOREM ChunksKeepTheText ==
    ASSUME NEW limits, LimitsOK(limits), NEW document \in Seq(BlockSet), NEW chunks, chunks = Parents(limits, document)
    PROVE  LET kids == BuildRelations(limits, chunks) IN
           /\ chunks \in Seq(ChunkSet)
           /\ Covers(Texts(chunks), Text(Content(document)))
           /\ kids \in Seq(Seq(ChunkSet)) /\ Len(kids) = Len(chunks)
           /\ \A i \in DOMAIN chunks : Covered(Texts(kids[i]), Text(chunks[i]), Len(Text(chunks[i])))
<1> DEFINE kids == BuildRelations(limits, chunks)
           text == Text(Content(document))
           N == Len(chunks)
<1>1. chunks \in Seq(ChunkSet) /\ Covered(Texts(chunks), text, Len(text))
      BY ParentsCover
<1>2. text \in TextSet
      BY ContentLaws, TextLaws
<1>3. Texts(chunks) \in Seq(TextSet) /\ Len(Texts(chunks)) = N
      BY <1>1, TextsOfChunks
<1> HIDE DEF text
<1>4. Covers(Texts(chunks), text)
      BY <1>1, <1>2, <1>3, CoversWhatIsCovered
<1>5. ASSUME NEW i \in 1 .. N
      PROVE  /\ kids[i] = GenerateChildren(limits, chunks[i]) /\ kids[i] \in Seq(ChunkSet)
             /\ Covered(Texts(kids[i]), Text(chunks[i]), Len(Text(chunks[i])))
  <2>1. chunks[i] \in ChunkSet /\ Texts(chunks)[i] = Text(chunks[i])
        BY <1>1 DEF Texts
  <2>2. Text(chunks[i]) # <<>>
        BY <1>1, <1>2, <1>3, <2>1, CoveringPieces
  <2>3. kids[i] = GenerateChildren(limits, chunks[i])
        BY <1>1 DEF BuildRelations
  <2> HIDE DEF kids
  <2> QED BY <2>1, <2>2, <2>3, ChildrenCover
<1>6. DOMAIN chunks = 1 .. N /\ N \in Nat
      BY <1>1
<1>7. kids = [i \in 1 .. N |-> GenerateChildren(limits, chunks[i])]
      BY <1>6 DEF BuildRelations
<1>8. kids \in [1 .. N -> Seq(ChunkSet)]
      BY <1>5, <1>7
<1>9. kids \in Seq(Seq(ChunkSet)) /\ Len(kids) = N
  <2> DEFINE S == Seq(ChunkSet)
  <2> HIDE DEF kids, S
  <2>1. kids \in [1 .. N -> S]
        BY <1>8 DEF S
  <2>2. kids \in Seq(S) /\ Len(kids) = N
        BY <1>6, <2>1
  <2> QED BY <2>2 DEF S
<1> HIDE DEF kids
<1>10. /\ chunks \in Seq(ChunkSet) /\ Covers(Texts(chunks), Text(Content(document)))
       /\ kids \in Seq(Seq(ChunkSet)) /\ Len(kids) = Len(chunks)
       /\ \A i \in DOMAIN chunks : Covered(Texts(kids[i]), Text(chunks[i]), Len(Text(chunks[i])))
      BY <1>1, <1>4, <1>5, <1>6, <1>9 DEF text
<1> QED BY <1>10 DEF kids
=================================================================================
