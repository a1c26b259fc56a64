----------------------------- MODULE PipelineProofs -----------------------------
(***************************************************************************)
(* Theorems about module Pipeline, for all files, settings, secrets, hits  *)
(* and requests: what became of the text (ChunkInv), of the vectors        *)
(* (BatchInv), why a document is refused (ReasonInv), and what a search    *)
(* answers.  ChunkingProofs has what chunking does.                        *)
(***************************************************************************)
EXTENDS Pipeline, ChunkingProofs

(***************************************************************************)
(* What is parsed of a file.                                               *)
(***************************************************************************)
ParagraphSet == [marks : SUBSET STRING, parts : ChunkSet \ {<<>>}]

\* Whatever file is parsed, its blocks have parts.
LEMMA ParsedIsBlocks ==
    ASSUME NEW f \in Files
    PROVE  ParseToCanonical(f) \in Seq(BlockSet)
<1> DEFINE U == Seq(ParagraphSet)
           ps == Paragraphs(f)
<1>1. U = Seq(ParagraphSet) /\ f.pages \in Seq(U)
      BY FilesAssumption DEF ParagraphSet
<1>2. ps \in U
  <2> HIDE DEF U
  <2> QED BY <1>1, FlattenType DEF Paragraphs
<1> HIDE DEF ps
<1>3. DOMAIN ps = 1 .. Len(ps) /\ Len(ps) \in Nat /\ \A i \in 1 .. Len(ps) : ps[i] \in ParagraphSet
      BY <1>2
<1>4. DocxParagraphs(f) \in U
  <2> DEFINE kept(i) == IF "grid" \in ps[i].marks THEN <<>> ELSE <<ps[i]>>
             seqs == [i \in DOMAIN ps |-> kept(i)]
  <2>1. ASSUME NEW i \in 1 .. Len(ps) PROVE kept(i) \in U
        BY <1>3
  <2> HIDE DEF kept, U
  <2>2. seqs \in [1 .. Len(ps) -> U]
        BY <1>3, <2>1
  <2> HIDE DEF seqs
  <2>3. seqs \in Seq(U)
        BY <1>3, <2>2
  <2>4. FlattenSeq(seqs) \in U
        BY <1>1, <2>3, FlattenType
  <2>5. DocxParagraphs(f) = FlattenSeq(seqs)
        BY DEF DocxParagraphs, seqs, kept, ps
  <2> QED BY <2>4, <2>5
<1>5. MarkdownLines(f) \in U
  <2> DEFINE line(p, n) == [marks |-> p.marks \cap LineMarks, parts |-> <<p.parts[n]>>]
             lines(p) == [n \in DOMAIN p.parts |-> line(p, n)]
             seqs == [i \in DOMAIN ps |-> lines(ps[i])]
  <2>1. ASSUME NEW p \in ParagraphSet PROVE lines(p) \in U
    <3>1. p.parts \in Seq(PartSet) /\ p.marks \in SUBSET STRING
          BY DEF ParagraphSet, ChunkSet
    <3>2. DOMAIN p.parts = 1 .. Len(p.parts) /\ Len(p.parts) \in Nat /\ \A n \in 1 .. Len(p.parts) : p.parts[n] \in PartSet
          BY <3>1
    <3>3. ASSUME NEW n \in 1 .. Len(p.parts) PROVE line(p, n) \in ParagraphSet
      <4>1. <<p.parts[n]>> \in ChunkSet \ {<<>>}
            BY <3>2 DEF ChunkSet
      <4> QED BY <3>1, <4>1 DEF ParagraphSet
    <3> HIDE DEF line
    <3>4. lines(p) \in [1 .. Len(p.parts) -> ParagraphSet]
          BY <3>2, <3>3
    <3> HIDE DEF lines
    <3> QED BY <3>2, <3>4
  <2> HIDE DEF lines, U
  <2>2. seqs \in [1 .. Len(ps) -> U]
        BY <1>3, <2>1
  <2> HIDE DEF seqs
  <2>3. seqs \in Seq(U)
        BY <1>3, <2>2
  <2>4. FlattenSeq(seqs) \in U
        BY <1>1, <2>3, FlattenType
  <2>5. MarkdownLines(f) = FlattenSeq(seqs)
        BY DEF MarkdownLines, seqs, lines, line, ps
  <2> QED BY <2>4, <2>5
<1>6. Extracted(f) \in Seq(ParagraphSet)
      BY <1>2, <1>4, <1>5 DEF Extracted, ps
<1> DEFINE blocks == Extracted(f)
<1> HIDE DEF U, blocks
<1>7. blocks \in Seq(ParagraphSet)
      BY <1>6 DEF blocks
<1>8. DOMAIN blocks = 1 .. Len(blocks) /\ Len(blocks) \in Nat /\ \A i \in 1 .. Len(blocks) : blocks[i] \in ParagraphSet
      BY <1>7
<1>9. ASSUME NEW i \in 1 .. Len(blocks) PROVE [type |-> ClassifyBlock(blocks[i]), parts |-> blocks[i].parts] \in BlockSet
  <2>1. ClassifyBlock(blocks[i]) \in BlockTypes
        BY DEF ClassifyBlock, BlockTypes
  <2>2. blocks[i].parts \in ChunkSet \ {<<>>}
        BY <1>8 DEF ParagraphSet
  <2> QED BY <2>1, <2>2 DEF BlockSet
<1>10. Detect(blocks) \in [1 .. Len(blocks) -> BlockSet]
      BY <1>8, <1>9 DEF Detect
<1>11. Detect(blocks) \in Seq(BlockSet)
      BY <1>8, <1>10
<1> QED BY <1>11 DEF ParseToCanonical, blocks

(***************************************************************************)
(* Sequences in which each member is once.                                 *)
(***************************************************************************)
Once(s) == \A i, j \in 1 .. Len(s) : s[i] = s[j] => i = j

\* One more member.
LEMMA AppendMembers ==
    ASSUME NEW S, NEW s \in Seq(S), NEW x \in S
    PROVE  /\ Append(s, x) \in Seq(S) /\ ToSet(Append(s, x)) = ToSet(s) \cup {x}
           /\ Once(s) /\ x \notin ToSet(s) => Once(Append(s, x))
<1> DEFINE K == Len(s)
           more == Append(s, x)
<1>1. K \in Nat /\ DOMAIN s = 1 .. K /\ more \in Seq(S) /\ Len(more) = K + 1 /\ DOMAIN more = 1 .. K + 1 /\ more[K + 1] = x
      /\ \A i \in 1 .. K : more[i] = s[i]
      BY AppendProperties
<1> HIDE DEF more
<1>2. ToSet(more) = ToSet(s) \cup {x}
  <2>1. 1 .. K + 1 = (1 .. K) \cup {K + 1}
        BY <1>1
  <2> HIDE DEF K
  <2> QED BY <1>1, <2>1 DEF ToSet
<1>3. ASSUME Once(s), x \notin ToSet(s) PROVE Once(more)
  <2>1. \A i \in 1 .. K : s[i] # x
        BY <1>1, <1>3 DEF ToSet
  <2>2. ASSUME NEW i \in 1 .. K + 1, NEW j \in 1 .. K + 1, more[i] = more[j] PROVE i = j
    <3>1. CASE i = K + 1 /\ j = K + 1
          BY <3>1
    <3>2. CASE i = K + 1 /\ j # K + 1
          BY <1>1, <2>1, <2>2, <3>2
    <3>3. CASE i # K + 1 /\ j = K + 1
          BY <1>1, <2>1, <2>2, <3>3
    <3>4. CASE i # K + 1 /\ j # K + 1
      <4>1. i \in 1 .. K /\ j \in 1 .. K /\ s[i] = s[j]
            BY <1>1, <2>2, <3>4
      <4> QED BY <1>3, <4>1 DEF Once
    <3> QED BY <3>1, <3>2, <3>3, <3>4
  <2> QED BY <1>1, <2>2 DEF Once
<1> QED BY <1>1, <1>2, <1>3 DEF more

(***************************************************************************)
(* The texts that are embedded, and the rows of the children.              *)
(***************************************************************************)
SeenStep(all, seen, text) == KeepUnlessSeen(seen, text)
Seen == INSTANCE RecursionLemmas WITH Op <- SeenStep

\* Each text is kept, once or not.
LEMMA UniqueTextsKeep ==
    ASSUME NEW chunks \in Seq(ChunkSet)
    PROVE  UniqueTexts(chunks) \in Seq(TextSet) /\ ToSet(UniqueTexts(chunks)) = ToSet(Texts(chunks))
<1> DEFINE given == Texts(chunks)
           N == Len(given)
           none == <<>>
           U == Seq(TextSet)
           To(n) == {given[i] : i \in 1 .. n}
<1>1. given \in Seq(TextSet)
      BY TextsOfChunks
<1>2. Seen!Folded(given, none, given) = UniqueTexts(chunks)
      BY DEF Seen!Folded, Seen!FoldLeft, Seen!MapThenFoldSet, Seen!Max, Max, FoldLeft, MapThenFoldSet, UniqueTexts, SeenStep
<1> HIDE DEF given
<1>3. N \in Nat /\ DOMAIN given = 1 .. N /\ \A i \in 1 .. N : given[i] \in TextSet
      BY <1>1
<1>4. none \in U /\ ToSet(none) = {} /\ To(0) = {}
      BY DEF ToSet
<1>5. ASSUME NEW c \in U, NEW text \in TextSet
      PROVE  SeenStep(given, c, text) \in U /\ ToSet(SeenStep(given, c, text)) = ToSet(c) \cup {text}
  <2>1. CASE text \in ToSet(c)
        BY <2>1 DEF SeenStep, KeepUnlessSeen
  <2>2. CASE text \notin ToSet(c)
    <3>1. SeenStep(given, c, text) = Append(c, text)
          BY <2>2 DEF SeenStep, KeepUnlessSeen
    <3>2. Append(c, text) \in U /\ ToSet(Append(c, text)) = ToSet(c) \cup {text}
          BY AppendMembers
    <3> QED BY <3>1, <3>2
  <2> QED BY <2>1, <2>2
<1> HIDE DEF U, none
<1>6. PICK h : Seen!States(given, U, none, given, h) /\ Seen!Folded(given, none, given) = h[Len(given)]
  <2>1. \A c \in U, text \in TextSet : SeenStep(given, c, text) \in U
        BY <1>5
  <2> QED BY <1>1, <1>4, <2>1, Seen!FoldStates
<1>7. h \in [0 .. N -> U] /\ h[0] = none /\ \A n \in 1 .. N : h[n] = SeenStep(given, h[n - 1], given[n])
      BY <1>6 DEF Seen!States
<1> DEFINE T == {n \in 0 .. N : ToSet(h[n]) = To(n)}
<1>8. 0 .. N \subseteq T
  <2>1. 0 \in T
        BY <1>3, <1>4, <1>7
  <2>2. ASSUME NEW n \in 1 .. N, n - 1 \in T PROVE n \in T
    <3>1. n - 1 \in 0 .. N /\ n \in 0 .. N /\ given[n] \in TextSet /\ ToSet(h[n - 1]) = To(n - 1)
          BY <1>3, <2>2
    <3>2. To(n) = To(n - 1) \cup {given[n]}
      <4>1. 1 .. n = (1 .. n - 1) \cup {n}
            BY <1>3
      <4> QED BY <4>1
    <3> HIDE DEF To, N
    <3>3. h[n - 1] \in U /\ h[n] = SeenStep(given, h[n - 1], given[n])
          BY <1>7, <3>1
    <3>4. ToSet(h[n]) = To(n)
          BY <1>5, <3>1, <3>2, <3>3
    <3> QED BY <3>1, <3>4
  <2> HIDE DEF T, N
  <2> QED BY <1>3, <2>1, <2>2, InductionTo
<1>9. ToSet(given) = To(N)
      BY <1>3 DEF ToSet
<1>10. N \in 0 .. N
      BY <1>3
<1> HIDE DEF To
<1>11. h[N] \in U /\ ToSet(h[N]) = ToSet(given)
      BY <1>7, <1>8, <1>9, <1>10
<1> QED BY <1>2, <1>6, <1>11 DEF U, given

\* The least position with a text.
LEMMA FirstOfText ==
    ASSUME NEW S, NEW all \in Seq(S), NEW n \in DOMAIN all
    PROVE  \E m \in DOMAIN all : all[m].text = all[n].text /\ \A l \in 1 .. m - 1 : all[l].text # all[m].text
<1> DEFINE same == {m \in DOMAIN all : all[m].text = all[n].text}
<1>1. DOMAIN all = 1 .. Len(all) /\ Len(all) \in Nat
      OBVIOUS
<1>2. same \in SUBSET Nat /\ same # {}
      BY <1>1
<1>3. PICK m \in same : \A k \in same : m <= k
      BY <1>2, NatHasMinimum
<1>4. ASSUME NEW l \in 1 .. m - 1 PROVE all[l].text # all[m].text
      BY <1>1, <1>3
<1> QED BY <1>3, <1>4

\* The first rows of each text have all texts, each once.
LEMMA FirstRows ==
    ASSUME NEW S, NEW all \in Seq(S), NEW found,
           found = {all[n] : n \in {m \in DOMAIN all : \A l \in 1 .. m - 1 : all[l].text # all[m].text}}
    PROVE  /\ found \subseteq ToSet(all)
           /\ {row.text : row \in found} = {row.text : row \in ToSet(all)}
           /\ Cardinality({row.text : row \in found}) = Cardinality(found)
<1> DEFINE First == {m \in DOMAIN all : \A l \in 1 .. m - 1 : all[l].text # all[m].text}
           N == Len(all)
           words == {row.text : row \in found}
           at == [n \in First |-> all[n]]
           of == [row \in found |-> row.text]
<1>1. N \in Nat /\ DOMAIN all = 1 .. N
      OBVIOUS
<1>2. found \subseteq ToSet(all)
      BY DEF ToSet
<1>3. words = {row.text : row \in ToSet(all)}
  <2>1. ASSUME NEW n \in DOMAIN all PROVE all[n].text \in words
    <3>1. PICK m \in DOMAIN all : all[m].text = all[n].text /\ \A l \in 1 .. m - 1 : all[l].text # all[m].text
          BY FirstOfText
    <3>2. all[m] \in found
          BY <3>1
    <3> QED BY <3>1, <3>2
  <2> QED BY <1>2, <2>1 DEF ToSet
<1>4. IsFiniteSet(First)
  <2>1. IsFiniteSet(1 .. N)
        BY <1>1, FS_Interval
  <2>2. First \in SUBSET (1 .. N)
        BY <1>1
  <2> HIDE DEF First
  <2> QED BY <2>1, <2>2, FS_Subset
<1>5. at \in Surjection(First, found)
  <2>1. found = {all[n] : n \in First}
        OBVIOUS
  <2> HIDE DEF First
  <2> QED BY <2>1 DEF Surjection
<1>6. IsFiniteSet(found)
  <2> HIDE DEF at, First
  <2> QED BY <1>4, <1>5, FS_Surjection
<1>7. of \in Bijection(found, words)
  <2>1. of \in [found -> words] /\ \A t \in words : \E row \in found : of[row] = t
        OBVIOUS
  <2>2. ASSUME NEW a \in found, NEW b \in found, of[a] = of[b] PROVE a = b
    <3>1. PICK m \in First : a = all[m]
          OBVIOUS
    <3>2. PICK n \in First : b = all[n]
          OBVIOUS
    <3>3. all[m].text = all[n].text /\ m \in 1 .. N /\ n \in 1 .. N
          BY <1>1, <2>2, <3>1, <3>2
    <3>4. ~(m < n) /\ ~(n < m)
          BY <3>3
    <3> QED BY <3>1, <3>2, <3>3, <3>4
  <2> HIDE DEF of, words
  <2> QED BY <2>1, <2>2 DEF Bijection, Injection, Surjection, IsInjective
<1>8. Cardinality(words) = Cardinality(found)
  <2>1. ExistsBijection(found, words)
        BY <1>7 DEF ExistsBijection
  <2> HIDE DEF words
  <2> QED BY <1>6, <2>1, FS_Bijection
<1> QED BY <1>2, <1>3, <1>8

ChildrenOK(chunks, kids) ==
    /\ kids \in Seq(Seq(ChunkSet)) /\ Len(kids) = Len(chunks)
    /\ \A i \in DOMAIN chunks : Covered(Texts(kids[i]), Text(chunks[i]), Len(Text(chunks[i])))

\* The child rows have all the children's texts, each once, and lie in their parents.
LEMMA ChildRows ==
    ASSUME NEW chunks \in Seq(ChunkSet), ChildrenOK(chunks, children),
           NEW kept \in Seq(TextSet), ToSet(kept) = ToSet(Texts(chunks)),
           NEW found, found = UniqueChildren(chunks, kept)
    PROVE  /\ {row.text : row \in found} = UNION {ToSet(Texts(children[i])) : i \in DOMAIN children}
           /\ Cardinality({row.text : row \in found}) = Cardinality(found)
           /\ \A row \in found : \E from \in 0 .. Len(kept[row.parent]) :
                 SubSeq(kept[row.parent], from + 1, from + Len(row.text)) = row.text
<1> DEFINE KeeperOf(i) == CHOOSE k \in DOMAIN kept : kept[k] = Text(chunks[i])
           row(i, n) == [parent |-> KeeperOf(i), text |-> Text(children[i][n])]
           of(i) == [n \in DOMAIN children[i] |-> row(i, n)]
           seqs == [i \in DOMAIN chunks |-> of(i)]
           all == FlattenSeq(seqs)
           R == [parent : DOMAIN kept, text : TextSet]
           U == Seq(R)
           N == Len(chunks)
<1>1. found = {all[n] : n \in {m \in DOMAIN all : \A l \in 1 .. m - 1 : all[l].text # all[m].text}}
      BY DEF UniqueChildren
<1>2. N \in Nat /\ DOMAIN chunks = 1 .. N /\ DOMAIN children = 1 .. N /\ \A i \in 1 .. N : children[i] \in Seq(ChunkSet) /\ chunks[i] \in ChunkSet
      BY DEF ChildrenOK
<1>3. ASSUME NEW i \in 1 .. N
      PROVE  KeeperOf(i) \in DOMAIN kept /\ kept[KeeperOf(i)] = Text(chunks[i])
  <2>1. Text(chunks[i]) \in ToSet(Texts(chunks))
        BY <1>2 DEF Texts, ToSet
  <2>2. \E k \in DOMAIN kept : kept[k] = Text(chunks[i])
        BY <2>1 DEF ToSet
  <2> QED BY <2>2
<1> HIDE DEF KeeperOf
<1>4. ASSUME NEW i \in 1 .. N
      PROVE  /\ of(i) \in U
             /\ {r.text : r \in ToSet(of(i))} = ToSet(Texts(children[i]))
             /\ \A r \in ToSet(of(i)) : \E from \in 0 .. Len(kept[r.parent]) :
                   SubSeq(kept[r.parent], from + 1, from + Len(r.text)) = r.text
  <2> DEFINE kids == children[i]
             K == Len(kids)
             whole == Text(chunks[i])
  <2>1. kids \in Seq(ChunkSet) /\ chunks[i] \in ChunkSet /\ Covered(Texts(kids), whole, Len(whole))
        BY <1>2 DEF ChildrenOK
  <2>2. whole \in TextSet
        BY <2>1, TextLaws
  <2>3. Texts(kids) \in Seq(TextSet) /\ Len(Texts(kids)) = K
        BY <2>1, TextsOfChunks
  <2>4. DOMAIN kids = 1 .. K /\ K \in Nat /\ \A n \in 1 .. K : Texts(kids)[n] = Text(kids[n]) /\ Text(kids[n]) \in TextSet
        BY <2>1, TextLaws DEF Texts
  <2>5. ASSUME NEW n \in 1 .. K
        PROVE  \E from \in 0 .. Len(whole) : SubSeq(whole, from + 1, from + Len(Text(kids[n]))) = Text(kids[n])
    <3>1. n \in 1 .. Len(Texts(kids)) /\ Texts(kids)[n] = Text(kids[n])
          BY <2>3, <2>4
    <3> HIDE DEF kids, whole
    <3>2. \E from \in 0 .. Len(whole) : SubSeq(whole, from + 1, from + Len(Texts(kids)[n])) = Texts(kids)[n]
          BY <2>1, <2>2, <2>3, <3>1, CoveringPieces
    <3> QED BY <3>1, <3>2
  <2>6. ASSUME NEW n \in 1 .. K PROVE row(i, n) \in R /\ row(i, n).parent = KeeperOf(i) /\ row(i, n).text = Text(kids[n])
        BY <1>3, <2>4
  <2>7. of(i) = [n \in 1 .. K |-> row(i, n)]
        BY <2>4
  <2> HIDE DEF row, of, R
  <2>8. of(i) \in [1 .. K -> R]
        BY <2>6, <2>7
  <2>9. of(i) \in U /\ DOMAIN of(i) = 1 .. K
    <3> HIDE DEF kids
    <3>1. of(i) \in Seq(R)
      <4> HIDE DEF K
      <4> QED BY <2>4, <2>8
    <3> QED BY <2>8, <3>1
  <2>10. ToSet(of(i)) = {row(i, n) : n \in 1 .. K}
        BY <2>7, <2>9 DEF ToSet
  <2>11. ToSet(Texts(kids)) = {Text(kids[n]) : n \in 1 .. K}
        BY <2>4 DEF Texts, ToSet
  <2>12. {r.text : r \in ToSet(of(i))} = ToSet(Texts(kids))
        BY <2>6, <2>10, <2>11
  <2>13. ASSUME NEW r \in ToSet(of(i))
         PROVE  \E from \in 0 .. Len(kept[r.parent]) : SubSeq(kept[r.parent], from + 1, from + Len(r.text)) = r.text
    <3>1. PICK n \in 1 .. K : r = row(i, n)
          BY <2>10
    <3>2. r.text = Text(kids[n]) /\ kept[r.parent] = whole
          BY <1>3, <2>6, <3>1
    <3> HIDE DEF whole, kids
    <3> QED BY <2>5, <3>2
  <2> QED BY <2>9, <2>12, <2>13
<1> HIDE DEF R, of
<1>5. seqs \in Seq(U) /\ Len(seqs) = N /\ \A i \in 1 .. N : seqs[i] = of(i)
  <2>1. seqs \in [1 .. N -> U] /\ \A i \in 1 .. N : seqs[i] = of(i)
        BY <1>2, <1>4
  <2> HIDE DEF U, seqs
  <2> QED BY <1>2, <2>1
<1> HIDE DEF seqs
<1>6. all \in Seq(R) /\ ToSet(all) = UNION {ToSet(seqs[i]) : i \in 1 .. N}
  <2>1. U = Seq(R)
        OBVIOUS
  <2> HIDE DEF U, N
  <2>2. all \in U
        BY <1>5, <2>1, FlattenType
  <2>3. ToSet(all) = UNION {ToSet(seqs[i]) : i \in 1 .. Len(seqs)}
        BY <1>5, <2>1, FlattenMembers
  <2> QED BY <1>5, <2>1, <2>2, <2>3
<1> HIDE DEF all, U
<1>7. /\ found \subseteq ToSet(all)
      /\ {r.text : r \in found} = {r.text : r \in ToSet(all)}
      /\ Cardinality({r.text : r \in found}) = Cardinality(found)
      BY <1>1, <1>6, FirstRows
<1>8. {r.text : r \in ToSet(all)} = UNION {ToSet(Texts(children[i])) : i \in DOMAIN children}
  <2>1. ASSUME NEW r \in ToSet(all) PROVE \E i \in 1 .. N : r.text \in ToSet(Texts(children[i]))
    <3>1. PICK i \in 1 .. N : r \in ToSet(of(i))
          BY <1>5, <1>6
    <3>2. r.text \in {q.text : q \in ToSet(of(i))}
          BY <3>1
    <3> QED BY <1>4, <3>2
  <2>2. ASSUME NEW i \in 1 .. N, NEW text \in ToSet(Texts(children[i])) PROVE \E r \in ToSet(all) : r.text = text
    <3>1. PICK r \in ToSet(of(i)) : r.text = text
          BY <1>4
    <3>2. r \in ToSet(all)
          BY <1>5, <1>6, <3>1
    <3> QED BY <3>1, <3>2
  <2> DEFINE sets == {ToSet(Texts(children[i])) : i \in 1 .. N}
  <2>3. \A r \in ToSet(all) : r.text \in UNION sets
        BY <2>1
  <2>4. \A text \in UNION sets : \E r \in ToSet(all) : r.text = text
        BY <2>2
  <2>5. sets = {ToSet(Texts(children[i])) : i \in DOMAIN children}
        BY <1>2
  <2> HIDE DEF sets
  <2>6. {r.text : r \in ToSet(all)} = UNION sets
        BY <2>3, <2>4
  <2> QED BY <2>5, <2>6
<1>9. ASSUME NEW r \in found
      PROVE  \E from \in 0 .. Len(kept[r.parent]) : SubSeq(kept[r.parent], from + 1, from + Len(r.text)) = r.text
  <2>1. PICK i \in 1 .. N : r \in ToSet(of(i))
        BY <1>5, <1>6, <1>7
  <2> QED BY <1>4, <2>1
<1> QED BY <1>7, <1>8, <1>9

(***************************************************************************)
(* What a process started with.                                            *)
(***************************************************************************)
StartInv == settings \in Configurations /\ Starts(settings, env, present) /\ file \in Files

\* The settings that are read are in their ranges.
LEMMA StartedInRange ==
    ASSUME StartInv
    PROVE  /\ LimitsOK(settings)
           /\ settings.embedding_batch_size \in Nat \ {0}
           /\ settings.retrieval_default_top_k \in Nat \ {0} /\ settings.retrieval_max_top_k \in Nat \ {0}
           /\ settings.hybrid_candidate_pool_size \in Nat \ {0} /\ settings.rrf_k \in Nat \ {0}
<1>1. SettingsRead \subseteq DOMAIN settings /\ settings.child_chunk_size >= AtomChars
      BY ConfigurationsAssumption DEF StartInv
<1>2. {"semantic_chunk_max_tokens", "child_chunk_size", "embedding_batch_size", "retrieval_default_top_k", "retrieval_max_top_k",
       "hybrid_candidate_pool_size", "rrf_k"} \subseteq DOMAIN settings
      BY <1>1 DEF SettingsRead
<1>3. \A f \in DOMAIN settings : f \in DOMAIN RetrievalRanges => settings[f] \in RetrievalRanges[f]
      BY DEF StartInv, Starts, Accepted, Within
<1>4. \A f \in DOMAIN settings : f \in DOMAIN IngestionRanges => settings[f] \in IngestionRanges[f]
      BY DEF StartInv, Starts, Accepted, Within
<1>5. settings.embedding_batch_size \in Nat /\ settings.embedding_batch_size >= 1
  <2>1. "embedding_batch_size" \in DOMAIN RetrievalRanges
        BY DEF RetrievalRanges
  <2>2. \A x \in RetrievalRanges.embedding_batch_size : x \in Nat /\ x >= 1
        BY DEF RetrievalRanges
  <2> QED BY <1>2, <1>3, <2>1, <2>2
<1>6. settings.retrieval_default_top_k \in Nat /\ settings.retrieval_default_top_k >= 1
  <2>1. "retrieval_default_top_k" \in DOMAIN RetrievalRanges
        BY DEF RetrievalRanges
  <2>2. \A x \in RetrievalRanges.retrieval_default_top_k : x \in Nat /\ x >= 1
        BY DEF RetrievalRanges
  <2> QED BY <1>2, <1>3, <2>1, <2>2
<1>7. settings.retrieval_max_top_k \in Nat /\ settings.retrieval_max_top_k >= 1
  <2>1. "retrieval_max_top_k" \in DOMAIN RetrievalRanges
        BY DEF RetrievalRanges
  <2>2. \A x \in RetrievalRanges.retrieval_max_top_k : x \in Nat /\ x >= 1
        BY DEF RetrievalRanges
  <2> QED BY <1>2, <1>3, <2>1, <2>2
<1>8. settings.hybrid_candidate_pool_size \in Nat /\ settings.hybrid_candidate_pool_size >= 10
  <2>1. "hybrid_candidate_pool_size" \in DOMAIN RetrievalRanges
        BY DEF RetrievalRanges
  <2>2. \A x \in RetrievalRanges.hybrid_candidate_pool_size : x \in Nat /\ x >= 10
        BY DEF RetrievalRanges
  <2> QED BY <1>2, <1>3, <2>1, <2>2
<1>9. settings.rrf_k \in Nat /\ settings.rrf_k >= 10
  <2>1. "rrf_k" \in DOMAIN RetrievalRanges
        BY DEF RetrievalRanges
  <2>2. \A x \in RetrievalRanges.rrf_k : x \in Nat /\ x >= 10
        BY DEF RetrievalRanges
  <2> QED BY <1>2, <1>3, <2>1, <2>2
<1>10. settings.semantic_chunk_max_tokens \in Nat /\ settings.semantic_chunk_max_tokens >= 10
  <2>1. "semantic_chunk_max_tokens" \in DOMAIN IngestionRanges
        BY DEF IngestionRanges
  <2>2. \A x \in IngestionRanges.semantic_chunk_max_tokens : x \in Nat /\ x >= 10
        BY DEF IngestionRanges
  <2> QED BY <1>2, <1>4, <2>1, <2>2
<1>11. settings.child_chunk_size \in Nat /\ settings.child_chunk_size >= 10
  <2>1. "child_chunk_size" \in DOMAIN IngestionRanges
        BY DEF IngestionRanges
  <2>2. \A x \in IngestionRanges.child_chunk_size : x \in Nat /\ x >= 10
        BY DEF IngestionRanges
  <2> QED BY <1>2, <1>4, <2>1, <2>2
<1>12. LimitsOK(settings)
      BY <1>1, <1>10, <1>11 DEF LimitsOK
<1> QED BY <1>12, <1>5, <1>6, <1>7, <1>8, <1>9, <1>10, <1>11

\* What a process started with never changes.
LEMMA StartedForGood ==
    ASSUME StartInv, [Next]_vars
    PROVE  StartInv' /\ UNCHANGED <<settings, env, present, file>>
<1>1. UNCHANGED <<settings, env, present, file>>
      BY DEF Next, vars, started, Upload, ParseAndPreview, EmbedStart, EmbedBatch, AttemptFails, UpsertBatch, UpsertFails,
             SearchStep, SearchFails
<1> QED BY <1>1 DEF StartInv

(***************************************************************************)
(* What an accepted document may be refused for afterwards.                *)
(***************************************************************************)
ReasonInv ==
    /\ pc \notin {"received", "rejected"} => Refusal = "none"
    /\ reason \in {"none", "file", "unreadable", "embedding", "store", "provider", "storage", "pinecone"}
    /\ reason = "provider" => ProviderRaises(settings, present)
    /\ reason = "storage" => ~ProviderRaises(settings, present) /\ ~CloudinaryConfigured(present)
    /\ reason = "pinecone" => ~PineconeConfigured(present)
    /\ search.status = "not_ready" => ~PineconeConfigured(present)

\* A file of a type that an upload accepts has a parser.
LEMMA AcceptedHasParser == Valid(file) => ParserKey(file.mime) # "none"
<1>1. SUFFICES ASSUME Valid(file) PROVE ParserKey(file.mime) # "none"
      OBVIOUS
<1>2. file.ext \in Extensions /\ file.mime \in AllowedMimes[file.ext]
      BY <1>1 DEF Valid, DeclaredMatches
<1>3. file.mime \in {"application/pdf", Docx, "text/plain", "text/markdown", "text/x-markdown"}
      BY <1>2 DEF Extensions, AllowedMimes
<1> QED BY <1>3 DEF ParserKey, Docx

LEMMA ReasonInit == Init => ReasonInv
  BY DEF Init, ReasonInv, NoSearch

LEMMA ReasonStep == StartInv /\ ReasonInv /\ [Next]_vars => ReasonInv'
<1>1. SUFFICES ASSUME StartInv, ReasonInv, [Next]_vars PROVE ReasonInv'
      OBVIOUS
<1>2. UNCHANGED <<settings, env, present, file>>
      BY <1>1, StartedForGood
<1>3. Refusal' = Refusal
      BY <1>2 DEF Refusal
<1>4. CASE UNCHANGED vars
      BY <1>1, <1>2, <1>3, <1>4 DEF ReasonInv, vars
<1>5. CASE Upload
  <2>1. reason' = Refusal /\ pc' = (IF Refusal = "none" THEN "stored" ELSE "rejected") /\ search' = search
        BY <1>5 DEF Upload
  <2>2. /\ Refusal \in {"none", "provider", "file", "storage"}
        /\ Refusal = "provider" => ProviderRaises(settings, present)
        /\ Refusal = "storage" => ~ProviderRaises(settings, present) /\ ~CloudinaryConfigured(present)
        BY DEF Refusal
  <2> QED BY <1>1, <1>2, <1>3, <2>1, <2>2 DEF ReasonInv
<1>6. CASE ParseAndPreview
  <2>1. Refusal = "none"
        BY <1>1, <1>6 DEF ReasonInv, ParseAndPreview
  <2>2. ParserKey(file.mime) # "none"
        BY <2>1, AcceptedHasParser DEF Refusal
  <2>3. reason' \in {reason, "unreadable"} /\ search' = search /\ pc' \in {"parsed", "failed"}
        BY <1>6, <2>2 DEF ParseAndPreview, Fail
  <2> QED BY <1>1, <1>2, <1>3, <2>1, <2>3 DEF ReasonInv
<1>7. CASE EmbedStart
  <2>1. pc = "parsed" /\ search' = search /\ pc' \notin {"received", "rejected"}
        BY <1>7 DEF EmbedStart, Fail
  <2>2. reason' = reason \/ (reason' = "pinecone" /\ ~PineconeConfigured(present))
        BY <1>7 DEF EmbedStart, Fail
  <2> QED BY <1>1, <1>2, <1>3, <2>1, <2>2 DEF ReasonInv
<1>8. CASE EmbedBatch
  <2>1. pc = "embedding" /\ reason' = reason /\ search' = search
        BY <1>8 DEF EmbedBatch
  <2> QED BY <1>1, <1>2, <1>3, <2>1 DEF ReasonInv
<1>9. CASE AttemptFails
  <2>1. pc = "embedding" /\ reason' \in {reason, "embedding"} /\ search' = search
        BY <1>9 DEF AttemptFails, Fail
  <2> QED BY <1>1, <1>2, <1>3, <2>1 DEF ReasonInv
<1>10. CASE UpsertBatch
  <2>1. pc = "indexing" /\ reason' = reason /\ search' = search
        BY <1>10 DEF UpsertBatch
  <2> QED BY <1>1, <1>2, <1>3, <2>1 DEF ReasonInv
<1>11. CASE UpsertFails
  <2>1. pc = "indexing" /\ reason' = "store" /\ search' = search
        BY <1>11 DEF UpsertFails, Fail
  <2> QED BY <1>1, <1>2, <1>3, <2>1 DEF ReasonInv
<1>12. CASE SearchStep
  <2>1. pc' = pc /\ reason' = reason
        BY <1>12 DEF SearchStep
  <2>2. PICK request \in Requests, sims \in [1 .. Len(index) -> Scores.sims], boosted \in SUBSET {0, 1} :
           \E others \in {{}, {h.doc : h \in Others}} :
              search' = SearchDocuments(request, Hits(sims, boosted), IsReady \cup others)
        BY <1>12 DEF SearchStep
  <2>3. search'.status = "not_ready" => ~PineconeConfigured(present)
        BY <2>2 DEF SearchDocuments
  <2> QED BY <1>1, <1>2, <1>3, <2>1, <2>3 DEF ReasonInv
<1>13. CASE SearchFails
  <2>1. pc' = pc /\ reason' = reason /\ search'.status = "unavailable"
        BY <1>13 DEF SearchFails
  <2> QED BY <1>1, <1>2, <1>3, <2>1 DEF ReasonInv
<1> QED BY <1>1, <1>4, <1>5, <1>6, <1>7, <1>8, <1>9, <1>10, <1>11, <1>12, <1>13 DEF Next

LEMMA ReasonSound == StartInv /\ ReasonInv => AcceptedIsProcessed
<1>1. SUFFICES ASSUME StartInv, ReasonInv PROVE AcceptedIsProcessed
      OBVIOUS
<1> DEFINE health == HealthData(settings, env, present, Services)
<1>2. ASSUME env \in StrictEnvironments
      PROVE  /\ reason \notin {"storage", "type", "pinecone"}
             /\ reason = "provider" => settings.enable_original_file_storage
             /\ search.status # "not_ready"
             /\ health.deployment /\ health.auth /\ health.webhook_signing /\ health.rate_limiting
             /\ health.streaming /\ health.ingestion /\ health.retrieval /\ health.llm # {}
  <2>1. MissingRequirements(present) = {}
        BY <1>1, <1>2 DEF StartInv, Starts, Enforced
  <2>2. RequiredSecrets \subseteq present
        BY <2>1 DEF MissingRequirements
  <2>3. PineconeConfigured(present) /\ CloudinaryConfigured(present)
        BY <2>2 DEF RequiredSecrets, PineconeConfigured, CloudinaryConfigured
  <2>4. {"redis_url", "clerk_jwt_issuer", "clerk_webhook_signing_key", "generation_api_key"} \subseteq present
        BY <2>2 DEF RequiredSecrets, ModelSecrets
  <2>5. reason = "provider" => settings.enable_original_file_storage
        BY <1>1 DEF ReasonInv, ProviderRaises
  <2>6. reason \notin {"storage", "type", "pinecone"} /\ search.status # "not_ready"
        BY <1>1, <2>3 DEF ReasonInv
  <2>7. health.deployment /\ health.auth /\ health.webhook_signing /\ health.rate_limiting
        BY <2>1, <2>4 DEF HealthData, DeploymentReady
  <2>8. health.streaming /\ health.ingestion /\ health.retrieval
        BY <2>3, <2>4 DEF HealthData, StreamingReady, RedisReachable, IngestionPipelineReady, BrokerOk, CeleryConfigured,
               RetrievalPipelineReady, PineconeReachable, Services
  <2>9. settings.generation_model # ""
        BY <1>1, ConfigurationsAssumption DEF StartInv
  <2>10. LlmReady(settings, present) # {}
    <3> DEFINE use == [model |-> "generation_model", key |-> "generation_api_key"]
    <3>1. use.key \in present /\ settings[use.model] # ""
          BY <2>4, <2>9
    <3>2. GetProvider(settings[use.model]) \in LlmReady(settings, present)
          BY <3>1 DEF LlmReady
    <3> QED BY <3>2
  <2> QED BY <2>5, <2>6, <2>7, <2>8, <2>10 DEF HealthData
<1>3. ASSUME health.storage
      PROVE  reason # "provider" /\ (reason = "storage" => settings.enable_original_file_storage)
  <2>1. StorageReady(settings, present, Services)
        BY <1>3 DEF HealthData
  <2> QED BY <1>1, <2>1 DEF ReasonInv, StorageReady, ProviderRaises
<1>4. ASSUME health.retrieval
      PROVE  reason # "pinecone" /\ search.status # "not_ready"
  <2>1. RetrievalPipelineReady(present, Services)
        BY <1>4 DEF HealthData
  <2> QED BY <1>1, <2>1 DEF ReasonInv, RetrievalPipelineReady
<1> QED BY <1>2, <1>3, <1>4 DEF AcceptedIsProcessed

\* No document that the upload of a strict environment accepts fails for its type or for
\* want of a setting (enforce_deployment_settings, validate_document_upload,
\* run_parse_and_preview), and what /health calls ready is not refused for want of one.
THEOREM AcceptedDocumentsAreProcessed == Spec => []AcceptedIsProcessed
<1>1. Init => StartInv /\ ReasonInv
      BY ReasonInit DEF Init, StartInv
<1>2. StartInv /\ ReasonInv /\ [Next]_vars => (StartInv /\ ReasonInv)'
      BY ReasonStep, StartedForGood
<1>3. StartInv /\ ReasonInv => AcceptedIsProcessed
      BY ReasonSound
<1> QED BY <1>1, <1>2, <1>3, PTL DEF Spec

(***************************************************************************)
(* The chunks of a document, and what is kept of them.                     *)
(***************************************************************************)
Chunked == {"parsed", "embedding", "indexing", "embedded"}
ChunkInv ==
    /\ pc \in Chunked => parents = RunChunker /\ children = RunBuilder(parents)
    /\ pc \in {"received", "stored", "parsed"} => childRows = {}
    /\ pc \in Chunked \ {"parsed"} =>
          /\ texts = UniqueTexts(parents)
          /\ childRows = IF texts = <<>> THEN {} ELSE UniqueChildren(parents, texts)

LEMMA ChunkInit == Init => ChunkInv
  BY DEF Init, ChunkInv, Chunked

LEMMA ChunkStep == StartInv /\ ChunkInv /\ [Next]_vars => ChunkInv'
<1>1. SUFFICES ASSUME StartInv, ChunkInv, [Next]_vars PROVE ChunkInv'
      OBVIOUS
<1>2. UNCHANGED <<settings, env, present, file>>
      BY <1>1, StartedForGood
<1>3. RunChunker' = RunChunker
      BY <1>2 DEF RunChunker
<1> DEFINE Kept == UNCHANGED <<parents, children, texts>>
<1>4. ASSUME Kept PROVE RunBuilder(parents)' = RunBuilder(parents) /\ UniqueTexts(parents)' = UniqueTexts(parents)
                        /\ UniqueChildren(parents, texts)' = UniqueChildren(parents, texts)
  <2>1. parents' = parents /\ children' = children /\ texts' = texts
        BY <1>4
  <2> QED BY <1>2, <2>1 DEF RunBuilder, UniqueTexts, UniqueChildren
<1>5. ASSUME Kept, pc' \in {pc, "rejected", "failed", "indexing", "embedded"}, pc' \in {"indexing", "embedded"} => pc' = pc \/ pc \in {"embedding", "indexing"},
             pc' # "failed" => childRows' = childRows
      PROVE  ChunkInv'
      BY <1>1, <1>3, <1>4, <1>5 DEF ChunkInv, Chunked
<1>6. CASE UNCHANGED vars
      BY <1>5, <1>6 DEF vars
<1>7. CASE Upload
  <2>1. pc = "received" /\ pc' \in {"stored", "rejected"} /\ childRows' = childRows
        BY <1>7 DEF Upload
  <2> QED BY <1>1, <2>1 DEF ChunkInv, Chunked
<1>8. CASE ParseAndPreview
  <2>1. CASE pc' = "failed"
        BY <2>1 DEF ChunkInv, Chunked
  <2>2. CASE pc' # "failed"
    <3>1. pc = "stored" /\ pc' = "parsed" /\ parents' = RunChunker /\ children' = RunBuilder(parents') /\ childRows' = childRows
          BY <1>8, <2>2 DEF ParseAndPreview, Fail
    <3>2. RunBuilder(parents') = RunBuilder(parents)'
          BY <1>2 DEF RunBuilder
    <3> QED BY <1>1, <1>3, <3>1, <3>2 DEF ChunkInv, Chunked
  <2> QED BY <2>1, <2>2
<1>9. CASE EmbedStart
  <2>1. pc = "parsed" /\ parents' = parents /\ children' = children /\ childRows = {}
        BY <1>1, <1>9 DEF EmbedStart, ChunkInv
  <2>2. parents = RunChunker /\ children = RunBuilder(parents)
        BY <1>1, <2>1 DEF ChunkInv, Chunked
  <2>3. RunBuilder(parents)' = RunBuilder(parents) /\ UniqueTexts(parents)' = UniqueTexts(parents)
        BY <1>2, <2>1 DEF RunBuilder, UniqueTexts
  <2>4. CASE pc' = "failed"
        BY <2>4 DEF ChunkInv, Chunked
  <2>5. CASE pc' # "failed"
    <3>1. /\ texts' = UniqueTexts(parents)
          /\ IF texts' = <<>> THEN pc' = "embedded" /\ childRows' = childRows
             ELSE pc' = "embedding" /\ childRows' = UniqueChildren(parents, texts')
          BY <1>9, <2>5 DEF EmbedStart, Fail, PersistToPostgres
    <3>2. UniqueChildren(parents, texts)' = UniqueChildren(parents, texts')
          BY <2>1 DEF UniqueChildren
    <3> QED BY <1>3, <2>1, <2>2, <2>3, <3>1, <3>2 DEF ChunkInv, Chunked
  <2> QED BY <2>4, <2>5
<1>10. CASE EmbedBatch
  <2>1. pc = "embedding" /\ pc' \in {pc, "indexing"} /\ Kept /\ childRows' = childRows
        BY <1>10 DEF EmbedBatch, UpsertToPinecone
  <2> QED BY <1>5, <2>1
<1>11. CASE AttemptFails
  <2>1. pc = "embedding" /\ Kept /\ (pc' = "failed" \/ (pc' = pc /\ childRows' = childRows))
        BY <1>11 DEF AttemptFails, Fail
  <2> QED BY <1>5, <2>1
<1>12. CASE UpsertBatch
  <2>1. pc = "indexing" /\ pc' \in {pc, "embedded"} /\ Kept /\ childRows' = childRows
        BY <1>12 DEF UpsertBatch
  <2> QED BY <1>5, <2>1
<1>13. CASE UpsertFails
  <2>1. pc' = "failed" /\ Kept
        BY <1>13 DEF UpsertFails, Fail
  <2> QED BY <1>5, <2>1
<1>14. CASE SearchStep
  <2>1. pc' = pc /\ childRows' = childRows /\ Kept
        BY <1>14 DEF SearchStep
  <2> QED BY <1>5, <2>1
<1>15. CASE SearchFails
  <2>1. pc' = pc /\ childRows' = childRows /\ Kept
        BY <1>15 DEF SearchFails
  <2> QED BY <1>5, <2>1
<1> QED BY <1>1, <1>6, <1>7, <1>8, <1>9, <1>10, <1>11, <1>12, <1>13, <1>14, <1>15 DEF Next

\* What is chunked is what ChunksKeepTheText says.
LEMMA ChunkedKeepsText ==
    ASSUME StartInv, ChunkInv, pc \in Chunked
    PROVE  /\ parents \in Seq(ChunkSet) /\ ChildrenOK(parents, children)
           /\ Covers(Texts(parents), Text(Content(ParseToCanonical(file))))
<1>1. ParseToCanonical(file) \in Seq(BlockSet)
      BY ParsedIsBlocks DEF StartInv
<1>2. parents = Parents(settings, ParseToCanonical(file)) /\ children = BuildRelations(settings, parents)
      BY DEF ChunkInv, RunChunker, RunBuilder
<1>3. LimitsOK(settings)
      BY StartedInRange
<1> DEFINE document == ParseToCanonical(file)
           kids == BuildRelations(settings, parents)
<1> HIDE DEF document, kids
<1>4. /\ parents \in Seq(ChunkSet) /\ Covers(Texts(parents), Text(Content(document)))
      /\ kids \in Seq(Seq(ChunkSet)) /\ Len(kids) = Len(parents)
      /\ \A i \in DOMAIN parents : Covered(Texts(kids[i]), Text(parents[i]), Len(Text(parents[i])))
      BY <1>1, <1>2, <1>3, ChunksKeepTheText DEF document, kids
<1> QED BY <1>2, <1>4 DEF document, kids, ChildrenOK

LEMMA ChunkSound == StartInv /\ ChunkInv => TextIsKept
<1>1. SUFFICES ASSUME StartInv, ChunkInv PROVE TextIsKept
      OBVIOUS
<1> DEFINE document == Content(ParseToCanonical(file))
<1>2. ASSUME pc = "parsed"
      PROVE  /\ Covers(Texts(parents), Text(document))
             /\ \A i \in DOMAIN parents : Covers(Texts(children[i]), Text(parents[i]))
  <2>1. parents \in Seq(ChunkSet) /\ ChildrenOK(parents, children) /\ Covers(Texts(parents), Text(document))
        BY <1>1, <1>2, ChunkedKeepsText DEF Chunked
  <2>2. ASSUME NEW i \in DOMAIN parents PROVE Covers(Texts(children[i]), Text(parents[i]))
    <3>1. parents[i] \in ChunkSet /\ children[i] \in Seq(ChunkSet) /\ Covered(Texts(children[i]), Text(parents[i]), Len(Text(parents[i])))
          BY <2>1 DEF ChildrenOK
    <3>2. Text(parents[i]) \in TextSet /\ Texts(children[i]) \in Seq(TextSet)
          BY <3>1, TextLaws, TextsOfChunks
    <3> QED BY <3>1, <3>2, CoversWhatIsCovered
  <2> QED BY <2>1, <2>2
<1>3. ASSUME pc \in {"embedding", "indexing", "embedded"}
      PROVE  /\ ToSet(texts) = ToSet(Texts(parents))
             /\ {row.text : row \in childRows} = UNION {ToSet(Texts(children[i])) : i \in DOMAIN children}
             /\ Cardinality({row.text : row \in childRows}) = Cardinality(childRows)
             /\ \A row \in childRows : \E from \in 0 .. Len(texts[row.parent]) :
                   SubSeq(texts[row.parent], from + 1, from + Len(row.text)) = row.text
  <2>1. parents \in Seq(ChunkSet) /\ ChildrenOK(parents, children)
        BY <1>1, <1>3, ChunkedKeepsText DEF Chunked
  <2>2. texts = UniqueTexts(parents) /\ childRows = IF texts = <<>> THEN {} ELSE UniqueChildren(parents, texts)
        BY <1>1, <1>3 DEF ChunkInv, Chunked
  <2>3. texts \in Seq(TextSet) /\ ToSet(texts) = ToSet(Texts(parents))
        BY <2>1, <2>2, UniqueTextsKeep
  <2>4. CASE texts # <<>>
    <3>1. childRows = UniqueChildren(parents, texts)
          BY <2>2, <2>4
    <3> QED BY <2>1, <2>3, <3>1, ChildRows
  <2>5. CASE texts = <<>>
    <3>1. childRows = {} /\ ToSet(Texts(parents)) = {}
          BY <2>2, <2>3, <2>5 DEF ToSet
    <3>2. DOMAIN parents = {} /\ DOMAIN children = {}
      <4>1. DOMAIN Texts(parents) = {}
            BY <3>1 DEF ToSet
      <4>2. DOMAIN Texts(parents) = DOMAIN parents /\ DOMAIN parents = 1 .. Len(parents) /\ DOMAIN children = 1 .. Len(children)
            BY <2>1 DEF Texts, ChildrenOK
      <4> QED BY <2>1, <4>1, <4>2 DEF ChildrenOK
    <3> QED BY <2>3, <3>1, <3>2
  <2> QED BY <2>4, <2>5
<1> QED BY <1>2, <1>3 DEF TextIsKept

\* Chunking loses no text of a document and disorders none (StructureAwareChunker,
\* ParentChildBuilder), and deduplicating the rows by hash loses none (run_embedding_ingest).
THEOREM ChunkingKeepsTheText == Spec => []TextIsKept
<1>1. Init => StartInv /\ ChunkInv
      BY ChunkInit DEF Init, StartInv
<1>2. StartInv /\ ChunkInv /\ [Next]_vars => (StartInv /\ ChunkInv)'
      BY ChunkStep, StartedForGood
<1>3. StartInv /\ ChunkInv => TextIsKept
      BY ChunkSound
<1> QED BY <1>1, <1>2, <1>3, PTL DEF Spec

(***************************************************************************)
(* The batches.                                                            *)
(***************************************************************************)
BatchInv ==
    /\ pc \in {"received", "stored", "parsed"} => vectors = <<>>
    /\ pc = "embedding" => \E n \in 0 .. Len(texts) - 1 : vectors = SubSeq(texts, 1, n)
    /\ pc \in {"received", "stored", "parsed", "embedding"} => upserted = 0
    /\ pc = "indexing" => upserted \in 0 .. Len(texts) - 1
    /\ index \in Seq(TextSet)
    /\ VectorsMatchTexts

\* A beginning of a sequence and the batch after it are a longer beginning.
LEMMA BatchAfter ==
    ASSUME NEW S, NEW seq \in Seq(S), NEW n \in 0 .. Len(seq), NEW last \in n .. Len(seq)
    PROVE  /\ Len(SubSeq(seq, 1, n)) = n /\ SubSeq(seq, 1, n) \in Seq(S)
           /\ SubSeq(seq, 1, n) \o SubSeq(seq, n + 1, last) = SubSeq(seq, 1, last)
<1>1. Len(seq) \in Nat /\ \A i \in 1 .. n : seq[i] \in S
      OBVIOUS
<1>2. SubSeq(seq, 1, n) \in Seq(S) /\ Len(SubSeq(seq, 1, n)) = IF 1 <= n THEN n - 1 + 1 ELSE 0
      BY <1>1, SubSeqProperties
<1>3. 1 \in 1 .. Len(seq) + 1 /\ n \in 1 - 1 .. Len(seq) /\ last \in n .. Len(seq)
      BY <1>1
<1>4. SubSeq(seq, 1, n) \o SubSeq(seq, n + 1, last) = SubSeq(seq, 1, last)
      BY <1>3, ConcatAdjacentSubSeq
<1> QED BY <1>2, <1>4

\* The first n of one sequence, and what the other has beyond.
IsOverlay(both, S, new, old, n) ==
    /\ both \in Seq(S) /\ n <= Len(both)
    /\ Len(old) <= n => Len(both) = n
    /\ \A i \in DOMAIN both :
          IF i <= n THEN both[i] = new[i] ELSE i \in DOMAIN old /\ both[i] = old[i]

\* What an upsert of the first vectors leaves in the store.
LEMMA Overlay ==
    ASSUME NEW S, NEW new \in Seq(S), NEW old \in Seq(S), NEW n \in 0 .. Len(new),
           NEW both, both = SubSeq(new, 1, n) \o SubSeq(old, n + 1, Len(old))
    PROVE  IsOverlay(both, S, new, old, n)
<1> DEFINE first == SubSeq(new, 1, n)
           rest == SubSeq(old, n + 1, Len(old))
<1>1. n \in Nat /\ Len(new) \in Nat /\ Len(old) \in Nat /\ n <= Len(new)
      OBVIOUS
<1>2. first \in Seq(S) /\ Len(first) = n /\ \A i \in 1 .. n : first[i] = new[i]
  <2>1. \A i \in 1 .. n : new[i] \in S
        BY <1>1
  <2>2. /\ first \in Seq(S) /\ Len(first) = IF 1 <= n THEN n - 1 + 1 ELSE 0
        /\ \A i \in 1 .. n - 1 + 1 : first[i] = new[1 + i - 1]
        BY <1>1, <2>1, SubSeqProperties
  <2>3. \A i \in 1 .. n : i \in 1 .. n - 1 + 1 /\ 1 + i - 1 = i
        BY <1>1
  <2>4. Len(first) = n
        BY <1>1, <2>2
  <2> QED BY <2>2, <2>3, <2>4
<1>3. /\ rest \in Seq(S) /\ Len(rest) = IF n + 1 <= Len(old) THEN Len(old) - n ELSE 0
      /\ \A i \in 1 .. Len(old) - n : rest[i] = old[n + i]
  <2>1. \A i \in n + 1 .. Len(old) : old[i] \in S
        BY <1>1
  <2>2. /\ rest \in Seq(S) /\ Len(rest) = IF n + 1 <= Len(old) THEN Len(old) - (n + 1) + 1 ELSE 0
        /\ \A i \in 1 .. Len(old) - (n + 1) + 1 : rest[i] = old[(n + 1) + i - 1]
        BY <1>1, <2>1, SubSeqProperties
  <2>3. \A i \in 1 .. Len(old) - n : i \in 1 .. Len(old) - (n + 1) + 1 /\ (n + 1) + i - 1 = n + i
        BY <1>1
  <2>4. Len(rest) = IF n + 1 <= Len(old) THEN Len(old) - n ELSE 0
        BY <1>1, <2>2
  <2> QED BY <2>2, <2>3, <2>4
<1> HIDE DEF first, rest
<1>4. /\ first \o rest \in Seq(S) /\ Len(first \o rest) = n + Len(rest)
      /\ \A i \in 1 .. n + Len(rest) : (first \o rest)[i] = IF i <= n THEN first[i] ELSE rest[i - n]
      BY <1>2, <1>3, ConcatProperties
<1>5. n <= Len(first \o rest) /\ (Len(old) <= n => Len(first \o rest) = n)
      BY <1>1, <1>3, <1>4
<1>6. ASSUME NEW i \in DOMAIN (first \o rest)
      PROVE  IF i <= n THEN (first \o rest)[i] = new[i] ELSE i \in DOMAIN old /\ (first \o rest)[i] = old[i]
  <2>1. i \in 1 .. n + Len(rest)
        BY <1>4
  <2>2. CASE i <= n
        BY <1>1, <1>2, <1>4, <2>1, <2>2
  <2>3. CASE ~(i <= n)
    <3>1. i - n \in 1 .. Len(old) - n /\ n + (i - n) = i /\ i \in 1 .. Len(old)
          BY <1>1, <1>3, <2>1, <2>3
    <3>2. (first \o rest)[i] = rest[i - n]
          BY <1>4, <2>1, <2>3
    <3>3. rest[i - n] = old[n + (i - n)]
          BY <1>3, <3>1
    <3> QED BY <2>3, <3>1, <3>2, <3>3
  <2> QED BY <2>2, <2>3
<1>7. /\ first \o rest \in Seq(S) /\ n <= Len(first \o rest)
      /\ Len(old) <= n => Len(first \o rest) = n
      /\ \A i \in DOMAIN (first \o rest) :
            IF i <= n THEN (first \o rest)[i] = new[i] ELSE i \in DOMAIN old /\ (first \o rest)[i] = old[i]
      BY <1>4, <1>5, <1>6
<1> QED BY <1>7 DEF first, rest, IsOverlay

\* What is embedded of a chunked document is texts.
LEMMA TextsAreTexts ==
    ASSUME StartInv, ChunkInv, pc \in Chunked
    PROVE  UniqueTexts(parents) \in Seq(TextSet) /\ (pc # "parsed" => texts \in Seq(TextSet))
<1>1. UniqueTexts(parents) \in Seq(TextSet)
      BY ChunkedKeepsText, UniqueTextsKeep
<1> QED BY <1>1 DEF ChunkInv

LEMMA BatchInit == Init => BatchInv
<1> SUFFICES ASSUME Init PROVE BatchInv
    OBVIOUS
<1>1. index \in Seq(TextSet) /\ (index = <<>> \/ index = Leftover)
      BY LeftoverAssumption DEF Init
<1>2. HoldsFirst(0)
      BY <1>1, LeftoverAssumption DEF HoldsFirst
<1> QED BY <1>1, <1>2 DEF Init, BatchInv, VectorsMatchTexts

\* An upsert that goes on where the last one ended keeps the vectors at their chunks.
LEMMA UpsertKeeps ==
    ASSUME StartInv, ChunkInv, BatchInv, pc = "indexing", texts' = texts, NEW n \in upserted .. Len(texts), Upsert(n)
    PROVE  upserted' = n /\ index' \in Seq(TextSet) /\ HoldsFirst(n)' /\ (swallowed \/ Len(index') = n)
<1>1. texts \in Seq(TextSet) /\ vectors = texts /\ index \in Seq(TextSet)
      BY TextsAreTexts DEF Chunked, BatchInv, VectorsMatchTexts, HoldsFirst
<1>2. upserted \in Nat /\ Len(texts) \in Nat /\ n \in 0 .. Len(texts) /\ upserted <= n
      BY <1>1 DEF BatchInv
<1>3. HoldsFirst(upserted) /\ (swallowed \/ Len(index) = upserted)
      BY <1>1, <1>2 DEF BatchInv, VectorsMatchTexts
<1>4. PICK both : both = SubSeq(texts, 1, n) \o SubSeq(index, n + 1, Len(index))
      OBVIOUS
<1>5. IsOverlay(both, TextSet, texts, index, n)
      BY <1>1, <1>2, <1>4, Overlay
<1>6. /\ both \in Seq(TextSet) /\ n <= Len(both)
      /\ Len(index) <= n => Len(both) = n
      /\ \A i \in DOMAIN both : IF i <= n THEN both[i] = texts[i] ELSE i \in DOMAIN index /\ both[i] = index[i]
      BY <1>5 DEF IsOverlay
<1>7. index' = both /\ upserted' = n
      BY <1>1, <1>4 DEF Upsert
<1>8. swallowed \/ Len(both) = n
      BY <1>2, <1>3, <1>6
<1>9. ASSUME NEW i \in DOMAIN both
      PROVE  IF i <= n THEN both[i] = texts[i] ELSE i \in DOMAIN Leftover /\ both[i] = Leftover[i]
  <2>1. i \in Nat
        BY <1>6
  <2>2. CASE i <= n
        BY <1>6, <2>2
  <2>3. CASE ~(i <= n)
    <3>1. i \in DOMAIN index /\ both[i] = index[i] /\ ~(i <= upserted)
          BY <1>2, <1>6, <2>1, <2>3
    <3> QED BY <1>3, <2>3, <3>1 DEF HoldsFirst
  <2> QED BY <2>2, <2>3
<1>10. HoldsFirst(n)'
      BY <1>6, <1>7, <1>9 DEF HoldsFirst
<1> QED BY <1>6, <1>7, <1>8, <1>10

\* Where a batch of an upsert ends.
LEMMA BatchEnds ==
    ASSUME StartInv, ChunkInv, BatchInv, pc = "indexing"
    PROVE  upserted \in Nat /\ Len(texts) \in Nat /\ EndOfBatch \in upserted + 1 .. Len(texts)
<1>1. texts \in Seq(TextSet)
      BY TextsAreTexts DEF Chunked
<1> QED BY <1>1, UpsertAssumption DEF BatchInv, EndOfBatch, SmallerOf

LEMMA BatchStep == StartInv /\ ChunkInv /\ BatchInv /\ [Next]_vars => BatchInv'
<1> DEFINE none == <<>>
<1>1. SUFFICES ASSUME StartInv, ChunkInv, BatchInv, [Next]_vars PROVE BatchInv'
      OBVIOUS
<1>2. none \in Seq(TextSet) /\ none = <<>>
      OBVIOUS
<1> HIDE DEF none
<1>3. CASE UNCHANGED vars
      BY <1>1, <1>3 DEF BatchInv, VectorsMatchTexts, HoldsFirst, vars
<1>4. CASE Upload
  <2>1. pc = "received" /\ pc' \in {"stored", "rejected"} /\ vectors' = vectors /\ UNCHANGED <<texts, upserted, index, swallowed>>
        BY <1>4 DEF Upload
  <2> QED BY <1>1, <2>1 DEF BatchInv, VectorsMatchTexts, HoldsFirst
<1>5. CASE ParseAndPreview
  <2>1. pc = "stored" /\ vectors' = vectors /\ pc' \in {"parsed", "failed"} /\ UNCHANGED <<texts, upserted, index, swallowed>>
        BY <1>5 DEF ParseAndPreview, Fail
  <2> QED BY <1>1, <2>1 DEF BatchInv, VectorsMatchTexts, HoldsFirst
<1>6. CASE EmbedStart
  <2>1. pc = "parsed" /\ vectors' = vectors /\ UNCHANGED <<upserted, index, swallowed>>
        BY <1>6 DEF EmbedStart
  <2>2. pc' = "failed" \/ (pc' = "embedded" /\ texts' = <<>>)
        \/ (pc' = "embedding" /\ texts' = UniqueTexts(parents) /\ texts' # <<>>)
        BY <1>6 DEF EmbedStart, Fail
  <2>3. upserted = 0 /\ HoldsFirst(0)' /\ index' \in Seq(TextSet)
    <3>1. upserted = 0 /\ HoldsFirst(0) /\ index \in Seq(TextSet)
          BY <1>1, <2>1 DEF BatchInv, VectorsMatchTexts
    <3>2. \A i \in DOMAIN index : ~(i <= 0)
          BY <3>1
    <3> QED BY <2>1, <3>1, <3>2 DEF HoldsFirst
  <2>4. CASE pc' = "failed"
        BY <2>1, <2>3, <2>4 DEF BatchInv, VectorsMatchTexts
  <2>5. CASE pc' = "embedded" /\ texts' = <<>>
    <3>1. Len(texts') = 0
          BY <2>5
    <3> QED BY <2>1, <2>3, <2>5, <3>1 DEF BatchInv, VectorsMatchTexts
  <2>6. CASE pc' = "embedding" /\ texts' = UniqueTexts(parents) /\ texts' # <<>>
    <3>1. UniqueTexts(parents) \in Seq(TextSet)
          BY <1>1, <2>1, TextsAreTexts DEF Chunked
    <3>2. 0 \in 0 .. Len(texts') - 1
          BY <2>6, <3>1
    <3>3. SubSeq(texts', 1, 0) = <<>>
          BY SubSeqEmpty
    <3>4. vectors' = SubSeq(texts', 1, 0)
          BY <1>1, <2>1, <3>3 DEF BatchInv
    <3> QED BY <2>1, <2>3, <2>6, <3>2, <3>4 DEF BatchInv, VectorsMatchTexts
  <2> QED BY <2>2, <2>4, <2>5, <2>6
<1>7. CASE EmbedBatch
  <2>1. pc = "embedding" /\ texts' = texts /\ upserted' = upserted
        BY <1>7 DEF EmbedBatch
  <2>2. PICK n \in 0 .. Len(texts) - 1 : vectors = SubSeq(texts, 1, n)
        BY <1>1, <2>1 DEF BatchInv
  <2>3. texts \in Seq(TextSet)
        BY <1>1, <2>1, TextsAreTexts DEF Chunked
  <2>4. settings.embedding_batch_size \in Nat \ {0}
        BY <1>1, StartedInRange
  <2> DEFINE last == SmallerOf(Len(texts), Len(vectors) + settings.embedding_batch_size)
             longer == SubSeq(texts, 1, last)
  <2>5. vectors' = vectors \o SubSeq(texts, Len(vectors) + 1, last)
        BY <1>7 DEF EmbedBatch, NextBatch
  <2>6. last \in n + 1 .. Len(texts) /\ vectors' = longer /\ Len(longer) = last
    <3> DEFINE size == settings.embedding_batch_size
    <3>1. last = SmallerOf(Len(texts), Len(vectors) + size) /\ size \in Nat \ {0}
          BY <2>4
    <3> HIDE DEF last, size
    <3>2. /\ last \in n + 1 .. Len(texts)
          /\ vectors \o SubSeq(texts, Len(vectors) + 1, last) = SubSeq(texts, 1, last)
          /\ Len(SubSeq(texts, 1, last)) = last
      <4>1. n \in 0 .. Len(texts) /\ Len(texts) \in Nat
            BY <2>2, <2>3
      <4>2. Len(vectors) = n
        <5> HIDE DEF last, size
        <5>1. n \in n .. Len(texts)
              BY <4>1
        <5> QED BY <2>2, <2>3, <4>1, <5>1, BatchAfter
      <4>3. last \in n + 1 .. Len(texts)
            BY <2>2, <3>1, <4>1, <4>2 DEF SmallerOf
      <4>4. last \in n .. Len(texts) /\ last \in 0 .. Len(texts) /\ last \in last .. Len(texts)
            BY <4>1, <4>3
      <4>5. SubSeq(texts, 1, n) \o SubSeq(texts, n + 1, last) = SubSeq(texts, 1, last)
            BY <2>3, <4>1, <4>4, BatchAfter
      <4>6. Len(SubSeq(texts, 1, last)) = last
            BY <2>3, <4>4, BatchAfter
      <4> QED BY <2>2, <4>2, <4>3, <4>5, <4>6
    <3> QED BY <2>5, <3>2
  <2> HIDE DEF longer, last
  <2>7. Len(vectors') = last /\ Len(texts) \in Nat /\ last \in Nat /\ 1 <= last /\ last <= Len(texts)
        BY <2>2, <2>3, <2>6
  <2>8. CASE last = Len(texts)
    <3>1. pc' = "indexing" /\ (index' = none \/ index' = index) /\ swallowed' = (index' # none)
          BY <1>2, <1>7, <2>7, <2>8 DEF EmbedBatch, UpsertToPinecone, PurgeDocumentVectors
    <3>2. vectors' = texts
          BY <2>3, <2>6, <2>8, SubSeqFull DEF longer
    <3>3. upserted = 0 /\ upserted' = 0 /\ HoldsFirst(0) /\ index \in Seq(TextSet) /\ 0 \in 0 .. Len(texts) - 1
          BY <1>1, <2>1, <2>7 DEF BatchInv, VectorsMatchTexts
    <3>4. Len(none) = 0 /\ DOMAIN none = {}
          BY <1>2
    <3>5. HoldsFirst(0)' /\ index' \in Seq(TextSet) /\ (swallowed' \/ Len(index') = 0)
      <4>1. CASE index' = none
            BY <1>2, <3>4, <4>1 DEF HoldsFirst
      <4>2. CASE index' = index /\ index' # none
        <5>1. \A i \in DOMAIN index : ~(i <= 0)
              BY <3>3
        <5> QED BY <3>1, <3>3, <4>2, <5>1 DEF HoldsFirst
      <4> QED BY <3>1, <4>1, <4>2
    <3> QED BY <2>1, <3>1, <3>2, <3>3, <3>5 DEF BatchInv, VectorsMatchTexts
  <2>9. CASE last # Len(texts)
    <3>1. pc' = pc /\ UNCHANGED <<index, swallowed>>
          BY <1>7, <2>7, <2>9 DEF EmbedBatch
    <3>2. last \in 0 .. Len(texts) - 1
          BY <2>7, <2>9
    <3> QED BY <1>1, <2>1, <2>6, <3>1, <3>2 DEF BatchInv, VectorsMatchTexts, HoldsFirst, longer
  <2> QED BY <2>8, <2>9
<1>8. CASE AttemptFails
  <2>1. pc = "embedding" /\ UNCHANGED <<texts, vectors, upserted, index, swallowed>> /\ pc' \in {pc, "failed"}
        BY <1>8 DEF AttemptFails, Fail
  <2> QED BY <1>1, <2>1 DEF BatchInv, VectorsMatchTexts, HoldsFirst
<1>9. CASE UpsertBatch
  <2>1. /\ pc = "indexing" /\ UNCHANGED <<texts, vectors, swallowed>> /\ Upsert(EndOfBatch)
        /\ pc' = IF EndOfBatch = Len(texts) THEN "embedded" ELSE pc
        BY <1>9 DEF UpsertBatch
  <2>2. upserted \in Nat /\ Len(texts) \in Nat /\ EndOfBatch \in upserted + 1 .. Len(texts)
        BY <1>1, <2>1, BatchEnds
  <2>3. PICK n \in upserted + 1 .. Len(texts) : n = EndOfBatch
        BY <2>2
  <2>4. n \in upserted .. Len(texts) /\ n \in Nat /\ Upsert(n) /\ pc' = IF n = Len(texts) THEN "embedded" ELSE pc
        BY <2>1, <2>2, <2>3
  <2>5. upserted' = n /\ index' \in Seq(TextSet) /\ HoldsFirst(n)' /\ (swallowed \/ Len(index') = n)
        BY <1>1, <2>1, <2>4, UpsertKeeps
  <2>6. vectors = texts
        BY <1>1, <2>1, TextsAreTexts DEF BatchInv, VectorsMatchTexts, Chunked
  <2>7. VectorsMatchTexts'
        BY <2>1, <2>2, <2>4, <2>5, <2>6 DEF VectorsMatchTexts
  <2> QED BY <2>1, <2>2, <2>3, <2>4, <2>5, <2>7 DEF BatchInv
<1>10. CASE UpsertFails
  <2>1. pc = "indexing" /\ pc' = "failed" /\ texts' = texts /\ \E n \in {upserted, EndOfBatch} : Upsert(n)
        BY <1>10 DEF UpsertFails, Fail
  <2>2. PICK n \in {upserted, EndOfBatch} : Upsert(n)
        BY <2>1
  <2>3. n \in upserted .. Len(texts)
        BY <1>1, <2>1, BatchEnds
  <2>4. upserted' = n /\ index' \in Seq(TextSet) /\ HoldsFirst(n)'
        BY <1>1, <2>1, <2>2, <2>3, UpsertKeeps
  <2> QED BY <2>1, <2>4 DEF BatchInv, VectorsMatchTexts
<1>11. CASE SearchStep
  <2>1. pc' = pc /\ reason' = reason /\ UNCHANGED <<texts, vectors, upserted, index, swallowed>>
        BY <1>11 DEF SearchStep
  <2> QED BY <1>1, <2>1 DEF BatchInv, VectorsMatchTexts, HoldsFirst
<1>12. CASE SearchFails
  <2>1. pc' = pc /\ reason' = reason /\ UNCHANGED <<texts, vectors, upserted, index, swallowed>>
        BY <1>12 DEF SearchFails
  <2> QED BY <1>1, <2>1 DEF BatchInv, VectorsMatchTexts, HoldsFirst
<1> QED BY <1>1, <1>3, <1>4, <1>5, <1>6, <1>7, <1>8, <1>9, <1>10, <1>11, <1>12 DEF Next

\* However batches are cut, retried and lost, each vector that was upserted stands at the
\* chunk of its own text; an embedded document has all of its texts, and nothing else
\* unless the purge failed (embed_texts_batched, _purge_document_vectors, upsert_chunks).
THEOREM VectorsMatch == Spec => []VectorsMatchTexts
<1> DEFINE Inv == StartInv /\ ChunkInv /\ BatchInv
<1>1. Init => Inv
      BY ChunkInit, BatchInit DEF Init, StartInv
<1>2. Inv /\ [Next]_vars => Inv'
      BY ChunkStep, StartedForGood, BatchStep
<1>3. Inv => VectorsMatchTexts
      BY DEF BatchInv
<1> HIDE DEF Inv
<1> QED BY <1>1, <1>2, <1>3, PTL DEF Spec

(***************************************************************************)
(* A finite set in the order that a strict total order gives it.           *)
(***************************************************************************)
StrictTotal(S, R) ==
    /\ \A x \in S : <<x, x>> \notin R
    /\ \A x, y, z \in S : <<x, y>> \in R /\ <<y, z>> \in R => <<x, z>> \in R
    /\ \A x, y \in S : x = y \/ <<x, y>> \in R \/ <<y, x>> \in R

\* At each position is a member with so many before it, if there is one.
Placed(a, S, R) ==
    /\ DOMAIN a = 1 .. Cardinality(S)
    /\ a = [i \in 1 .. Cardinality(S) |-> a[i]]
    /\ \A i \in 1 .. Cardinality(S) :
          (\E x \in S : Cardinality({y \in S : <<y, x>> \in R}) = i - 1)
             => a[i] \in S /\ Cardinality({y \in S : <<y, a[i]>> \in R}) = i - 1

InOrderOf(a, S, R) ==
    /\ a \in Seq(S)
    /\ \A x \in S : \E i \in 1 .. Len(a) : a[i] = x
    /\ \A i, j \in 1 .. Len(a) : i < j => <<a[i], a[j]>> \in R

\* Such a sequence has every member of the set, in order.
LEMMA PlacedInOrder ==
    ASSUME NEW S, IsFiniteSet(S), NEW R, StrictTotal(S, R), NEW a, Placed(a, S, R)
    PROVE  InOrderOf(a, S, R)
<1> DEFINE n == Cardinality(S)
           below(x) == {y \in S : <<y, x>> \in R}
           rank == [x \in S |-> Cardinality(below(x))]
<1>1. n \in Nat
      BY FS_CardinalityType
<1>2. ASSUME NEW x \in S PROVE below(x) \in SUBSET S /\ x \notin below(x) /\ IsFiniteSet(below(x)) /\ Cardinality(below(x)) \in 0 .. n - 1
  <2>1. below(x) \in SUBSET S /\ x \notin below(x)
        BY DEF StrictTotal
  <2> HIDE DEF below
  <2>2. IsFiniteSet(below(x)) /\ Cardinality(below(x)) <= n /\ (n = Cardinality(below(x)) => S = below(x))
        BY <2>1, FS_Subset
  <2>3. Cardinality(below(x)) \in Nat
        BY <2>2, FS_CardinalityType
  <2> QED BY <1>1, <2>1, <2>2, <2>3
<1>3. ASSUME NEW x \in S, NEW y \in S, <<x, y>> \in R PROVE rank[x] < rank[y]
  <2>1. below(x) \in SUBSET below(y) /\ x \in below(y) /\ x \notin below(x)
        BY <1>2, <1>3 DEF StrictTotal
  <2>2. IsFiniteSet(below(y)) /\ Cardinality(below(x)) \in Nat /\ Cardinality(below(y)) \in Nat
    <3> HIDE DEF below, n
    <3>1. IsFiniteSet(below(x)) /\ IsFiniteSet(below(y))
          BY <1>2
    <3> QED BY <3>1, FS_CardinalityType
  <2>3. Cardinality(below(x)) <= Cardinality(below(y)) /\ Cardinality(below(x)) # Cardinality(below(y))
    <3> HIDE DEF below
    <3> QED BY <2>1, <2>2, FS_Subset
  <2> QED BY <2>2, <2>3
<1>4. \A x \in S : rank[x] = Cardinality(below(x)) /\ rank[x] \in 0 .. n - 1
      BY <1>2
<1>5. \A x, y \in S : rank[x] = rank[y] => x = y
  <2> HIDE DEF rank
  <2>1. ASSUME NEW x \in S, NEW y \in S, rank[x] = rank[y] PROVE x = y
    <3> HIDE DEF n, below
    <3>0. rank[x] \in Nat
          BY <1>1, <1>4
    <3>1. ~(rank[x] < rank[y]) /\ ~(rank[y] < rank[x])
          BY <2>1, <3>0
    <3>2. <<x, y>> \notin R /\ <<y, x>> \notin R
          BY <1>3, <3>1
    <3> QED BY <3>2 DEF StrictTotal
  <2> QED BY <2>1
<1>6. \A i \in 0 .. n - 1 : \E x \in S : rank[x] = i
  <2> DEFINE T == 0 .. n - 1
  <2>1. rank \in Injection(S, T)
        BY <1>2, <1>5 DEF Injection, IsInjective
  <2>2. IsFiniteSet(T) /\ Cardinality(T) = n
        BY <1>1, FS_Interval
  <2> HIDE DEF T, rank
  <2>3. rank \in Surjection(S, T)
        BY <2>1, <2>2, FS_Injection
  <2> QED BY <2>3 DEF Surjection, T
<1>7. a = [i \in 1 .. n |-> a[i]] /\ \A i \in 1 .. n : (\E x \in S : Cardinality(below(x)) = i - 1) => a[i] \in S /\ Cardinality(below(a[i])) = i - 1
      BY DEF Placed
<1> HIDE DEF rank, below
<1>8. \A i \in 1 .. n : a[i] \in S /\ rank[a[i]] = i - 1
  <2>1. ASSUME NEW i \in 1 .. n PROVE a[i] \in S /\ rank[a[i]] = i - 1
    <3>1. i - 1 \in 0 .. n - 1
          BY <1>1
    <3>2. \E x \in S : Cardinality(below(x)) = i - 1
          BY <1>4, <1>6, <3>1
    <3>3. a[i] \in S /\ Cardinality(below(a[i])) = i - 1
          BY <1>7, <3>2
    <3> QED BY <1>4, <3>3
  <2> QED BY <2>1
<1>9. a \in Seq(S) /\ Len(a) = n
  <2>1. a \in [1 .. n -> S]
        BY <1>7, <1>8
  <2> HIDE DEF n
  <2> QED BY <1>1, <2>1
<1>10. \A x \in S : \E i \in 1 .. n : a[i] = x
  <2>1. ASSUME NEW x \in S PROVE \E i \in 1 .. n : a[i] = x
    <3>1. rank[x] \in 0 .. n - 1 /\ rank[x] + 1 \in 1 .. n /\ (rank[x] + 1) - 1 = rank[x]
          BY <1>1, <1>4
    <3>2. a[rank[x] + 1] \in S /\ rank[a[rank[x] + 1]] = rank[x]
          BY <1>8, <3>1
    <3>3. a[rank[x] + 1] = x
          BY <1>5, <3>2
    <3> QED BY <3>1, <3>3
  <2> QED BY <2>1
<1>11. \A i, j \in 1 .. n : i < j => <<a[i], a[j]>> \in R
  <2>1. ASSUME NEW i \in 1 .. n, NEW j \in 1 .. n, i < j PROVE <<a[i], a[j]>> \in R
    <3>1. a[i] \in S /\ a[j] \in S /\ rank[a[i]] = i - 1 /\ rank[a[j]] = j - 1
          BY <1>8
    <3>2. ~(rank[a[j]] < rank[a[i]]) /\ rank[a[i]] # rank[a[j]]
          BY <1>1, <2>1, <3>1
    <3>3. <<a[j], a[i]>> \notin R /\ a[i] # a[j]
          BY <1>3, <3>1, <3>2
    <3> QED BY <3>1, <3>3 DEF StrictTotal
  <2> QED BY <2>1
<1> HIDE DEF n
<1> QED BY <1>9, <1>10, <1>11 DEF InOrderOf

(***************************************************************************)
(* Filters.                                                                *)
(***************************************************************************)
\* What is left of a sequence in which each is once.
LEMMA OnlyOfMembers ==
    ASSUME NEW S, NEW hits \in Seq(S), Once(hits), NEW some
    PROVE  /\ OnlyOf(hits, some) \in Seq(S) /\ Once(OnlyOf(hits, some))
           /\ ToSet(OnlyOf(hits, some)) = ToSet(hits) \cap some
<1> DEFINE N == Len(hits)
           U == Seq(S)
           none == <<>>
           one(i) == IF hits[i] \in some THEN <<hits[i]>> ELSE <<>>
           seqs == [i \in DOMAIN hits |-> one(i)]
           To(n) == {hits[i] : i \in 1 .. n}
<1>1. N \in Nat /\ DOMAIN hits = 1 .. N /\ \A i \in 1 .. N : hits[i] \in S
      OBVIOUS
<1>2. U = Seq(S) /\ none \in U /\ \A i \in 1 .. N : one(i) \in U
      BY <1>1
<1>3. \A s \in U : Cat(s, none) = s /\ \A x \in S : Cat(s, <<x>>) = Append(s, x)
      BY ConcatEmptySeq, AppendIsConcat DEF Cat
<1>4. \A i \in 1 .. N : one(i) = (IF hits[i] \in some THEN <<hits[i]>> ELSE none)
      OBVIOUS
<1>5. ToSet(none) = {} /\ Once(none) /\ To(0) = {}
      BY DEF ToSet, Once
<1>6. OnlyOf(hits, some) = FlattenSeq(seqs)
      BY DEF OnlyOf
<1> HIDE DEF U, none, one
<1>7. seqs \in Seq(U) /\ Len(seqs) = N /\ \A i \in 1 .. N : seqs[i] = one(i)
  <2>1. seqs \in [1 .. N -> U] /\ \A i \in 1 .. N : seqs[i] = one(i)
        BY <1>1, <1>2
  <2> HIDE DEF seqs
  <2> QED BY <1>1, <2>1
<1> HIDE DEF seqs
<1>8. PICK h : Joined(U, seqs, h) /\ FlattenSeq(seqs) = h[Len(seqs)]
      BY <1>2, <1>7, FlattenIsJoined
<1>9. h \in [0 .. N -> U] /\ h[0] = none /\ \A n \in 1 .. N : h[n] = Cat(h[n - 1], one(n))
      BY <1>7, <1>8 DEF Joined, none
<1> DEFINE T == {n \in 0 .. N : Once(h[n]) /\ ToSet(h[n]) = To(n) \cap some}
<1>10. 0 .. N \subseteq T
  <2>1. 0 \in T
        BY <1>1, <1>5, <1>9
  <2>2. ASSUME NEW n \in 1 .. N, n - 1 \in T PROVE n \in T
    <3>1. n - 1 \in 0 .. N /\ n \in 0 .. N /\ hits[n] \in S /\ Once(h[n - 1]) /\ ToSet(h[n - 1]) = To(n - 1) \cap some
          BY <1>1, <2>2
    <3>2. h[n - 1] \in U /\ h[n] = Cat(h[n - 1], one(n))
          BY <1>9, <3>1
    <3>3. To(n) = To(n - 1) \cup {hits[n]} /\ hits[n] \notin To(n - 1)
      <4>1. 1 .. n = (1 .. n - 1) \cup {n} /\ \A i \in 1 .. n - 1 : i \in 1 .. N /\ i # n
            BY <1>1
      <4>2. \A i \in 1 .. n - 1 : hits[i] # hits[n]
            BY <4>1 DEF Once
      <4> QED BY <4>1, <4>2
    <3> HIDE DEF To, N
    <3>4. CASE hits[n] \in some
      <4>1. h[n] = Append(h[n - 1], hits[n])
            BY <1>3, <1>4, <3>1, <3>2, <3>4
      <4>2. hits[n] \notin ToSet(h[n - 1])
            BY <3>1, <3>3
      <4>3. ToSet(h[n]) = ToSet(h[n - 1]) \cup {hits[n]} /\ Once(h[n])
            BY <1>2, <3>1, <3>2, <4>1, <4>2, AppendMembers
      <4> QED BY <3>1, <3>3, <3>4, <4>3
    <3>5. CASE hits[n] \notin some
      <4>1. h[n] = h[n - 1]
            BY <1>3, <1>4, <3>1, <3>2, <3>5
      <4>2. ToSet(h[n]) = To(n) \cap some
            BY <3>1, <3>3, <3>5, <4>1
      <4> QED BY <3>1, <4>1, <4>2
    <3> QED BY <3>4, <3>5
  <2> HIDE DEF T, N
  <2> QED BY <1>1, <2>1, <2>2, InductionTo
<1>11. ToSet(hits) = To(N)
      BY <1>1 DEF ToSet
<1>12. N \in 0 .. N
      BY <1>1
<1> HIDE DEF To
<1>13. h[N] \in U /\ Once(h[N]) /\ ToSet(h[N]) = ToSet(hits) \cap some
      BY <1>9, <1>10, <1>11, <1>12
<1> QED BY <1>2, <1>6, <1>7, <1>8, <1>13

(***************************************************************************)
(* What the vector store returns.                                          *)
(***************************************************************************)
HitSet == [doc : Int, index : Int, words : SUBSET Int, sim : Int, boost : Int, bm25 : Int]
HitsOK(hits) == IsFiniteSet(hits) /\ hits \subseteq HitSet /\ \A h, g \in hits : h.doc = g.doc /\ h.index = g.index => h = g

\* A finite set of hits, nearest first.
LEMMA NearestFirst ==
    ASSUME NEW hits, HitsOK(hits), NEW docs, NEW limit \in Nat
    PROVE  LET found == SemanticSearch(hits, docs, limit) IN
           /\ found \in Seq(hits) /\ Once(found)
           /\ \A h \in ToSet(found) : docs = {} \/ h.doc \in docs
<1> DEFINE S == {h \in hits : docs = {} \/ h.doc \in docs}
           Nearer(a, b) == a.sim > b.sim \/ (a.sim = b.sim /\ InOrder(a, b))
           R == {p \in S \X S : Nearer(p[1], p[2])}
           nearest == Sorted(S, Nearer)
           k == SmallerOf(Len(nearest), LargerOf(1, SmallerOf(limit, 256)))
           found == SemanticSearch(hits, docs, limit)
<1>1. S \subseteq hits /\ IsFiniteSet(S) /\ \A h \in S : docs = {} \/ h.doc \in docs
      BY FS_Subset DEF HitsOK
<1>2. \A x \in S : x.sim \in Int /\ x.doc \in Int /\ x.index \in Int
      BY DEF HitsOK, HitSet
<1>3. \A x, y \in S : x.doc = y.doc /\ x.index = y.index => x = y
      BY DEF HitsOK
<1>4. Placed(nearest, S, R)
  <2> DEFINE pick(i) == CHOOSE x \in S : Cardinality({y \in S : Nearer(y, x)}) = i - 1
  <2>1. nearest = [i \in 1 .. Cardinality(S) |-> pick(i)]
        BY DEF Sorted
  <2>2. \A x \in S : {y \in S : Nearer(y, x)} = {y \in S : <<y, x>> \in R}
        OBVIOUS
  <2>3. ASSUME NEW i, \E x \in S : Cardinality({y \in S : <<y, x>> \in R}) = i - 1
        PROVE  pick(i) \in S /\ Cardinality({y \in S : <<y, pick(i)>> \in R}) = i - 1
    <3>1. \E x \in S : Cardinality({y \in S : Nearer(y, x)}) = i - 1
      <4> HIDE DEF S, Nearer, R
      <4> QED BY <2>2, <2>3
    <3>2. pick(i) \in S /\ Cardinality({y \in S : Nearer(y, pick(i))}) = i - 1
      <4> HIDE DEF S, Nearer
      <4> QED BY <3>1
    <3> HIDE DEF pick, S, Nearer, R
    <3> QED BY <2>2, <3>2
  <2> HIDE DEF pick, S, Nearer, R, nearest
  <2> QED BY <2>1, <2>3 DEF Placed
<1>5. found = SubSeq(nearest, 1, k)
      BY DEF SemanticSearch
<1> HIDE DEF S
<1>6. StrictTotal(S, R)
  <2>1. \A x, y \in S : <<x, y>> \in R <=> (x.sim > y.sim \/ (x.sim = y.sim /\ (x.doc < y.doc \/ (x.doc = y.doc /\ x.index < y.index))))
        BY DEF InOrder
  <2> HIDE DEF R
  <2>2. \A x \in S : <<x, x>> \notin R
        BY <1>2, <2>1
  <2>3. \A x, y, z \in S : <<x, y>> \in R /\ <<y, z>> \in R => <<x, z>> \in R
        BY <1>2, <2>1
  <2>4. ASSUME NEW x \in S, NEW y \in S, x # y PROVE <<x, y>> \in R \/ <<y, x>> \in R
    <3>1. x.sim \in Int /\ y.sim \in Int /\ x.doc \in Int /\ y.doc \in Int /\ x.index \in Int /\ y.index \in Int
          BY <1>2
    <3>2. x.doc # y.doc \/ x.index # y.index
          BY <1>3, <2>4
    <3>3. \/ x.sim > y.sim \/ (x.sim = y.sim /\ (x.doc < y.doc \/ (x.doc = y.doc /\ x.index < y.index)))
          \/ y.sim > x.sim \/ (y.sim = x.sim /\ (y.doc < x.doc \/ (y.doc = x.doc /\ y.index < x.index)))
          BY <3>1, <3>2
    <3> QED BY <2>1, <3>3
  <2> QED BY <2>2, <2>3, <2>4 DEF StrictTotal
<1> HIDE DEF R, nearest
<1>7. InOrderOf(nearest, S, R)
      BY <1>1, <1>4, <1>6, PlacedInOrder
<1>8. nearest \in Seq(S) /\ Len(nearest) \in Nat /\ \A i, j \in 1 .. Len(nearest) : i < j => nearest[i] # nearest[j]
  <2>1. nearest \in Seq(S) /\ \A i, j \in 1 .. Len(nearest) : i < j => <<nearest[i], nearest[j]>> \in R
        BY <1>7 DEF InOrderOf
  <2>2. ASSUME NEW i \in 1 .. Len(nearest), NEW j \in 1 .. Len(nearest), i < j PROVE nearest[i] # nearest[j]
    <3>1. \A x \in S : <<x, x>> \notin R
          BY <1>6 DEF StrictTotal
    <3>2. nearest[i] \in S /\ <<nearest[i], nearest[j]>> \in R
          BY <2>1, <2>2
    <3> QED BY <3>1, <3>2
  <2> QED BY <2>1, <2>2
<1>9. k \in 0 .. Len(nearest)
      BY <1>8 DEF SmallerOf, LargerOf
<1> HIDE DEF k
<1>10. /\ found \in Seq(S) /\ Len(found) = k
       /\ \A i \in 1 .. k : found[i] = nearest[i]
  <2>1. 1 \in Int /\ k \in Int /\ \A i \in 1 .. k : nearest[i] \in S
        BY <1>8, <1>9
  <2>2. /\ SubSeq(nearest, 1, k) \in Seq(S) /\ Len(SubSeq(nearest, 1, k)) = (IF 1 <= k THEN k - 1 + 1 ELSE 0)
        /\ \A i \in 1 .. k - 1 + 1 : SubSeq(nearest, 1, k)[i] = nearest[1 + i - 1]
        BY <2>1, SubSeqProperties
  <2>3. k - 1 + 1 = k /\ (1 <= k \/ k = 0) /\ \A i \in 1 .. k : 1 + i - 1 = i
        BY <1>9
  <2> HIDE DEF found
  <2> QED BY <1>5, <2>2, <2>3
<1> HIDE DEF found
<1>11. Once(found)
  <2>1. ASSUME NEW i \in 1 .. k, NEW j \in 1 .. k, found[i] = found[j] PROVE i = j
    <3>1. i \in 1 .. Len(nearest) /\ j \in 1 .. Len(nearest) /\ nearest[i] = nearest[j]
          BY <1>8, <1>9, <1>10, <2>1
    <3> QED BY <1>8, <3>1
  <2> QED BY <1>10, <2>1 DEF Once
<1>12. ToSet(found) \subseteq S
      BY <1>10 DEF ToSet
<1>13. found \in Seq(hits)
      BY <1>1, <1>10
<1>14. \A h \in ToSet(found) : docs = {} \/ h.doc \in docs
      BY <1>1, <1>12
<1> QED BY <1>11, <1>13, <1>14 DEF found

(***************************************************************************)
(* What is fetched, and what is left to rank.                              *)
(***************************************************************************)
\* The hits of the scope, each once.
LEMMA FetchedHits ==
    ASSUME StartInv, NEW hits, HitsOK(hits), NEW scope \in Requests
    PROVE  LET fetched == Fetched(settings, hits, scope) IN
           /\ fetched \in Seq(hits) /\ Once(fetched)
           /\ \A h \in ToSet(fetched) : scope.scoped => h.doc \in scope.docs
<1> DEFINE fetched == Fetched(settings, hits, scope)
           docs == IF scope.scoped THEN scope.docs ELSE {}
           limit == FetchLimit(settings, docs)
           none == <<>>
<1>1. scope.scoped \in BOOLEAN
      BY RequestsAssumption
<1>2. limit \in Nat
      BY StartedInRange DEF FetchLimit, SmallerOf
<1>3. none \in Seq(hits) /\ Once(none) /\ ToSet(none) = {}
      BY DEF Once, ToSet
<1>4. fetched = IF scope.scoped /\ scope.docs = {} THEN none ELSE SemanticSearch(hits, docs, limit)
      BY DEF Fetched
<1> HIDE DEF fetched, limit, none
<1>5. CASE scope.scoped /\ scope.docs = {}
      BY <1>3, <1>4, <1>5 DEF fetched
<1>6. CASE ~(scope.scoped /\ scope.docs = {})
  <2> DEFINE found == SemanticSearch(hits, docs, limit)
  <2> HIDE DEF docs
  <2>1. found \in Seq(hits) /\ Once(found) /\ \A h \in ToSet(found) : docs = {} \/ h.doc \in docs
        BY <1>2, NearestFirst
  <2>2. fetched = found
        BY <1>4, <1>6
  <2> HIDE DEF found
  <2>3. ASSUME NEW h \in ToSet(fetched), scope.scoped PROVE h.doc \in scope.docs
        BY <1>6, <2>1, <2>2, <2>3 DEF docs
  <2> QED BY <2>1, <2>2, <2>3 DEF fetched
<1> QED BY <1>5, <1>6

\* The fetched hits of ready documents that are near enough, each once.
LEMMA CandidateHits ==
    ASSUME NEW S, NEW fetched \in Seq(S), Once(fetched), NEW ready
    PROVE  LET found == Candidates(settings, fetched, ready) IN
           /\ found \in Seq(S) /\ Once(found)
           /\ ToSet(found) = {h \in ToSet(fetched) : h.doc \in ready /\ h.sim >= settings.retrieval_minimum_similarity * 1000}
<1> DEFINE least == settings.retrieval_minimum_similarity * 1000
           near == PassesSimilarity(fetched, least)
           found == Candidates(settings, fetched, ready)
<1>1. near = OnlyOf(fetched, {h \in ToSet(fetched) : h.sim >= least}) /\ found = OnlyOf(near, {h \in ToSet(near) : h.doc \in ready})
      BY DEF PassesSimilarity, Candidates, ReadyHits
<1> HIDE DEF near, found, least
<1>2. near \in Seq(S) /\ Once(near) /\ ToSet(near) = ToSet(fetched) \cap {h \in ToSet(fetched) : h.sim >= least}
      BY <1>1, OnlyOfMembers
<1>3. found \in Seq(S) /\ Once(found) /\ ToSet(found) = ToSet(near) \cap {h \in ToSet(near) : h.doc \in ready}
      BY <1>1, <1>2, OnlyOfMembers
<1>4. ToSet(found) = {h \in ToSet(fetched) : h.doc \in ready /\ h.sim >= least}
      BY <1>2, <1>3
<1> QED BY <1>3, <1>4 DEF found, least

(***************************************************************************)
(* The ranking.                                                            *)
(***************************************************************************)
RowSet == [hit : HitSet, score : Int, rank : Int]

\* The ranking is an order.
LEMMA BeforeIsTransitive ==
    \A a, b, c \in RowSet : Before(a, b) /\ Before(b, c) => Before(a, c)
<1>1. ASSUME NEW a \in RowSet, NEW b \in RowSet, NEW c \in RowSet, Before(a, b), Before(b, c) PROVE Before(a, c)
  <2>1. /\ a.rank \in Int /\ b.rank \in Int /\ c.rank \in Int
        /\ a.hit.doc \in Int /\ b.hit.doc \in Int /\ c.hit.doc \in Int
        /\ a.hit.index \in Int /\ b.hit.index \in Int /\ c.hit.index \in Int
        BY DEF RowSet, HitSet
  <2> QED BY <1>1, <2>1 DEF Before, InOrder
<1> QED BY <1>1

\* Every score is an integer.
LEMMA ScoresAreIntegers ==
    ASSUME StartInv, NEW hits \in Seq(HitSet)
    PROVE  \A i \in DOMAIN hits : FusedScores(settings, hits)[i] \in Int
<1> DEFINE dense == [i \in DOMAIN hits |-> hits[i].sim]
           sparse == [i \in DOMAIN hits |-> hits[i].bm25]
<1>1. DOMAIN hits = 1 .. Len(hits) /\ Len(hits) \in Nat
      OBVIOUS
<1>2. ASSUME NEW scores, DOMAIN scores = 1 .. Len(hits), NEW i PROVE Rank(scores, i) \in Nat \ {0}
  <2> DEFINE better == {j \in DOMAIN scores : scores[j] > scores[i] \/ (scores[j] = scores[i] /\ j < i)}
  <2>1. better \in SUBSET (1 .. Len(hits)) /\ IsFiniteSet(1 .. Len(hits))
        BY <1>1, <1>2, FS_Interval
  <2>2. Rank(scores, i) = 1 + Cardinality(better)
        BY DEF Rank
  <2> HIDE DEF better
  <2>3. Cardinality(better) \in Nat
        BY <2>1, FS_Subset, FS_CardinalityType
  <2> QED BY <2>2, <2>3
<1>3. DOMAIN dense = 1 .. Len(hits) /\ DOMAIN sparse = 1 .. Len(hits)
      BY <1>1
<1>4. settings.rrf_k \in Nat \ {0}
      BY StartedInRange
<1>5. \A i \in DOMAIN hits : dense[i] \in Int
  <2>1. \A h \in HitSet : h.sim \in Int
        BY DEF HitSet
  <2>2. \A i \in DOMAIN hits : dense[i] = hits[i].sim /\ hits[i] \in HitSet
        BY <1>1
  <2> HIDE DEF dense
  <2> QED BY <2>1, <2>2
<1>6. FusedScores(settings, hits) = IF settings.hybrid_retrieval_enabled
         THEN [i \in DOMAIN hits |-> One \div (settings.rrf_k + Rank(dense, i)) + One \div (settings.rrf_k + Rank(sparse, i))]
         ELSE dense
      BY DEF FusedScores
<1> HIDE DEF dense, sparse
<1>7. ASSUME NEW i \in DOMAIN hits PROVE FusedScores(settings, hits)[i] \in Int
  <2>1. Rank(dense, i) \in Nat \ {0} /\ Rank(sparse, i) \in Nat \ {0}
        BY <1>2, <1>3
  <2>2. One \div (settings.rrf_k + Rank(dense, i)) + One \div (settings.rrf_k + Rank(sparse, i)) \in Int
        BY <1>4, <2>1 DEF One
  <2> QED BY <1>5, <1>6, <2>2
<1> QED BY <1>7

\* The hits in the order of the ranking.
LEMMA RankedRows ==
    ASSUME StartInv, NEW hits \in Seq(HitSet), Once(hits),
           \A h, g \in ToSet(hits) : h.doc = g.doc /\ h.index = g.index => h = g
    PROVE  LET ranked == Ranked(settings, hits) IN
           /\ ranked \in Seq(RowSet)
           /\ \A i, j \in 1 .. Len(ranked) : i < j => Before(ranked[i], ranked[j])
           /\ \A row \in ToSet(ranked) : row.hit \in ToSet(hits)
<1> DEFINE scores == FusedScores(settings, hits)
           row(i) == [hit |-> hits[i], score |-> scores[i], rank |-> Composite(scores[i], hits[i].boost)]
           S == {row(i) : i \in DOMAIN hits}
           R == {p \in S \X S : Before(p[1], p[2])}
           ranked == Ranked(settings, hits)
<1>1. DOMAIN hits = 1 .. Len(hits) /\ Len(hits) \in Nat /\ \A i \in DOMAIN hits : hits[i] \in HitSet /\ hits[i] \in ToSet(hits)
      BY DEF ToSet
<1>2. \A i \in DOMAIN hits : scores[i] \in Int
      BY ScoresAreIntegers
<1>3. ranked = Sorted(S, Before)
      BY DEF Ranked
<1> HIDE DEF scores
<1>4. \A i \in DOMAIN hits : row(i) \in RowSet /\ row(i).hit = hits[i]
  <2>1. \A h \in HitSet : h.boost \in Int
        BY DEF HitSet
  <2>2. \A i \in DOMAIN hits : Composite(scores[i], hits[i].boost) \in Int
        BY <1>1, <1>2, <2>1 DEF Composite, SmallerOf, LargerOf, One
  <2> QED BY <1>1, <1>2, <2>2 DEF RowSet
<1>5. IsFiniteSet(S)
  <2> DEFINE at == [i \in 1 .. Len(hits) |-> row(i)]
  <2>1. at \in Surjection(1 .. Len(hits), S)
    <3>1. S = {at[i] : i \in 1 .. Len(hits)}
          BY <1>1
    <3> HIDE DEF S
    <3> HIDE DEF row
    <3> QED BY <3>1 DEF Surjection
  <2>2. IsFiniteSet(1 .. Len(hits))
        BY <1>1, FS_Interval
  <2> HIDE DEF S, at
  <2> QED BY <2>1, <2>2, FS_Surjection
<1>6. \A x \in S : x \in RowSet /\ x.hit \in ToSet(hits)
      BY <1>1, <1>4
<1>7. \A x, y \in S : x.hit.doc = y.hit.doc /\ x.hit.index = y.hit.index => x = y
  <2>1. ASSUME NEW i \in DOMAIN hits, NEW j \in DOMAIN hits, hits[i].doc = hits[j].doc, hits[i].index = hits[j].index
        PROVE  i = j
    <3>1. hits[i] = hits[j]
          BY <1>1, <2>1
    <3> QED BY <1>1, <3>1 DEF Once
  <2> HIDE DEF row
  <2>2. ASSUME NEW x \in S, NEW y \in S, x.hit.doc = y.hit.doc, x.hit.index = y.hit.index PROVE x = y
    <3>1. PICK i \in DOMAIN hits : x = row(i)
          OBVIOUS
    <3>2. PICK j \in DOMAIN hits : y = row(j)
          OBVIOUS
    <3>3. i = j
          BY <1>4, <2>1, <2>2, <3>1, <3>2
    <3> QED BY <3>1, <3>2, <3>3
  <2> QED BY <2>2
<1> HIDE DEF row
<1>8. Placed(ranked, S, R)
  <2> DEFINE pick(i) == CHOOSE x \in S : Cardinality({y \in S : Before(y, x)}) = i - 1
  <2>1. ranked = [i \in 1 .. Cardinality(S) |-> pick(i)]
        BY <1>3 DEF Sorted
  <2>2. \A x \in S : {y \in S : Before(y, x)} = {y \in S : <<y, x>> \in R}
        OBVIOUS
  <2>3. ASSUME NEW i, \E x \in S : Cardinality({y \in S : <<y, x>> \in R}) = i - 1
        PROVE  pick(i) \in S /\ Cardinality({y \in S : <<y, pick(i)>> \in R}) = i - 1
    <3>1. \E x \in S : Cardinality({y \in S : Before(y, x)}) = i - 1
      <4> HIDE DEF S, R
      <4> QED BY <2>2, <2>3
    <3>2. pick(i) \in S /\ Cardinality({y \in S : Before(y, pick(i))}) = i - 1
      <4> HIDE DEF S
      <4> QED BY <3>1
    <3> HIDE DEF pick, S, R
    <3> QED BY <2>2, <3>2
  <2> HIDE DEF pick, S, R, ranked
  <2> QED BY <2>1, <2>3 DEF Placed
<1> HIDE DEF S
<1>9. StrictTotal(S, R)
  <2>1. \A x, y \in S : <<x, y>> \in R <=> Before(x, y)
        OBVIOUS
  <2> HIDE DEF R
  <2>2. ASSUME NEW x \in S, NEW y \in S
        PROVE  /\ x.rank \in Int /\ x.hit.doc \in Int /\ x.hit.index \in Int
               /\ y.rank \in Int /\ y.hit.doc \in Int /\ y.hit.index \in Int
        BY <1>6 DEF RowSet, HitSet
  <2>3. \A x \in S : <<x, x>> \notin R
        BY <2>1, <2>2 DEF Before, InOrder
  <2>4. \A x, y, z \in S : <<x, y>> \in R /\ <<y, z>> \in R => <<x, z>> \in R
        BY <1>6, <2>1, BeforeIsTransitive
  <2>5. ASSUME NEW x \in S, NEW y \in S, x # y PROVE <<x, y>> \in R \/ <<y, x>> \in R
    <3>1. x.hit.doc # y.hit.doc \/ x.hit.index # y.hit.index
          BY <1>7, <2>5
    <3>2. Before(x, y) \/ Before(y, x)
          BY <2>2, <3>1 DEF Before, InOrder
    <3> QED BY <2>1, <3>2
  <2> QED BY <2>3, <2>4, <2>5 DEF StrictTotal
<1>10. \A x, y \in S : <<x, y>> \in R => Before(x, y)
      OBVIOUS
<1> HIDE DEF R, ranked
<1>11. InOrderOf(ranked, S, R)
      BY <1>5, <1>8, <1>9, PlacedInOrder
<1>12. ranked \in Seq(S) /\ \A i, j \in 1 .. Len(ranked) : i < j => <<ranked[i], ranked[j]>> \in R
      BY <1>11 DEF InOrderOf
<1>13. DOMAIN ranked = 1 .. Len(ranked) /\ \A i \in 1 .. Len(ranked) : ranked[i] \in S
      BY <1>12
<1>14. ranked \in Seq(RowSet) /\ \A x \in ToSet(ranked) : x.hit \in ToSet(hits)
  <2>1. S \subseteq RowSet
        BY <1>6
  <2> QED BY <1>6, <1>12, <1>13, <2>1 DEF ToSet
<1>15. \A i, j \in 1 .. Len(ranked) : i < j => Before(ranked[i], ranked[j])
      BY <1>10, <1>12, <1>13
<1> QED BY <1>14, <1>15 DEF ranked

(***************************************************************************)
(* Near duplicates.                                                        *)
(***************************************************************************)
\* Which of two texts is the near duplicate does not matter.
LEMMA NearDuplicateBothWays == \A v, w : NearDuplicate(v, w) <=> NearDuplicate(w, v)
<1>1. \A v, w : v \cap w = w \cap v /\ v \cup w = w \cup v
      OBVIOUS
<1>2. \A v, w : Cardinality(v \cap w) = Cardinality(w \cap v) /\ Cardinality(v \cup w) = Cardinality(w \cup v)
      BY <1>1
<1> QED BY <1>2 DEF NearDuplicate

NearStep(all, kept, row) == KeepUnlessNear(kept, row)
Near == INSTANCE RecursionLemmas WITH Op <- NearStep

Like(r, row) == NearDuplicate(r.hit.words, row.hit.words)

\* The rows that are kept of the first n: in order, no two near duplicates, and of
\* each that is not kept there is a near duplicate before it.
KeptOf(rows, n, c) ==
    /\ \A i \in 1 .. Len(c) : \E m \in 1 .. n : c[i] = rows[m]
    /\ \A i, j \in 1 .. Len(c) : i < j => Before(c[i], c[j]) /\ ~Like(c[i], c[j])
    /\ \A m \in 1 .. n : \E i \in 1 .. Len(c) : c[i] = rows[m] \/ (Before(c[i], rows[m]) /\ Like(c[i], rows[m]))

\* One more row of the ranking.
LEMMA KeptOneMore ==
    ASSUME NEW rows \in Seq(RowSet), \A i, j \in 1 .. Len(rows) : i < j => Before(rows[i], rows[j]),
           NEW n \in 1 .. Len(rows), NEW c \in Seq(RowSet), KeptOf(rows, n - 1, c)
    PROVE  KeptOf(rows, n, KeepUnlessNear(c, rows[n]))
<1> DEFINE K == Len(c)
           row == rows[n]
           more == Append(c, row)
<1>1. K \in Nat /\ DOMAIN c = 1 .. K /\ n \in Nat /\ row \in RowSet
      OBVIOUS
<1>2. \A i \in 1 .. K : \E m \in 1 .. n - 1 : c[i] = rows[m]
      BY DEF KeptOf
<1>3. \A i, j \in 1 .. K : i < j => Before(c[i], c[j]) /\ ~Like(c[i], c[j])
      BY DEF KeptOf
<1>4. \A m \in 1 .. n - 1 : \E i \in 1 .. K : c[i] = rows[m] \/ (Before(c[i], rows[m]) /\ Like(c[i], rows[m]))
      BY DEF KeptOf
<1>5. \A i \in 1 .. K : Before(c[i], row)
  <2>1. ASSUME NEW i \in 1 .. K PROVE Before(c[i], row)
    <3>1. PICK m \in 1 .. n - 1 : c[i] = rows[m]
          BY <1>2
    <3>2. m \in 1 .. Len(rows) /\ m < n
          OBVIOUS
    <3> QED BY <3>1, <3>2
  <2> QED BY <2>1
<1>6. KeepUnlessNear(c, row) = IF \E i \in 1 .. K : Like(row, c[i]) THEN c ELSE more
      BY <1>1 DEF KeepUnlessNear, Like
<1>7. \A i \in 1 .. K : Like(row, c[i]) <=> Like(c[i], row)
      BY NearDuplicateBothWays DEF Like
<1>8. CASE \E i \in 1 .. K : Like(row, c[i])
  <2>1. KeepUnlessNear(c, row) = c
        BY <1>6, <1>8
  <2>2. \A i \in 1 .. K : \E m \in 1 .. n : c[i] = rows[m]
        BY <1>1, <1>2
  <2>3. ASSUME NEW m \in 1 .. n PROVE \E i \in 1 .. K : c[i] = rows[m] \/ (Before(c[i], rows[m]) /\ Like(c[i], rows[m]))
    <3>1. CASE m = n
          BY <1>5, <1>7, <1>8, <3>1
    <3>2. CASE m # n
      <4>1. m \in 1 .. n - 1
            BY <1>1, <3>2
      <4> QED BY <1>4, <4>1
    <3> QED BY <3>1, <3>2
  <2>4. KeptOf(rows, n, c)
        BY <1>3, <2>2, <2>3 DEF KeptOf
  <2> QED BY <2>1, <2>4
<1>9. CASE ~ \E i \in 1 .. K : Like(row, c[i])
  <2>1. KeepUnlessNear(c, row) = more
        BY <1>6, <1>9
  <2>2. Len(more) = K + 1 /\ more[K + 1] = row /\ \A i \in 1 .. K : more[i] = c[i]
        BY <1>1, AppendProperties
  <2> HIDE DEF more
  <2>3. ASSUME NEW i \in 1 .. K + 1 PROVE i = K + 1 \/ i \in 1 .. K
        BY <1>1
  <2>4. ASSUME NEW i \in 1 .. K + 1 PROVE \E m \in 1 .. n : more[i] = rows[m]
    <3>1. CASE i = K + 1
          BY <1>1, <2>2, <3>1
    <3>2. CASE i \in 1 .. K
      <4>1. PICK m \in 1 .. n - 1 : c[i] = rows[m]
            BY <1>2, <3>2
      <4>2. m \in 1 .. n
            BY <1>1
      <4> QED BY <2>2, <3>2, <4>1, <4>2
    <3> QED BY <2>3, <3>1, <3>2
  <2>5. ASSUME NEW i \in 1 .. K + 1, NEW j \in 1 .. K + 1, i < j PROVE Before(more[i], more[j]) /\ ~Like(more[i], more[j])
    <3>1. i \in 1 .. K /\ more[i] = c[i]
          BY <1>1, <2>2, <2>5
    <3>2. CASE j = K + 1
          BY <1>5, <1>7, <1>9, <2>2, <3>1, <3>2
    <3>3. CASE j \in 1 .. K
          BY <1>3, <2>2, <2>5, <3>1, <3>3
    <3> QED BY <2>3, <3>2, <3>3
  <2>6. ASSUME NEW m \in 1 .. n
        PROVE  \E i \in 1 .. K + 1 : more[i] = rows[m] \/ (Before(more[i], rows[m]) /\ Like(more[i], rows[m]))
    <3>1. CASE m = n
      <4>1. K + 1 \in 1 .. K + 1
            BY <1>1
      <4> QED BY <2>2, <3>1, <4>1
    <3>2. CASE m # n
      <4>1. m \in 1 .. n - 1
            BY <1>1, <3>2
      <4>2. PICK i \in 1 .. K : c[i] = rows[m] \/ (Before(c[i], rows[m]) /\ Like(c[i], rows[m]))
            BY <1>4, <4>1
      <4>3. i \in 1 .. K + 1 /\ more[i] = c[i]
            BY <1>1, <2>2
      <4> QED BY <4>2, <4>3
    <3> QED BY <3>1, <3>2
  <2>7. KeptOf(rows, n, more)
        BY <2>2, <2>4, <2>5, <2>6 DEF KeptOf
  <2> QED BY <2>1, <2>7
<1> QED BY <1>8, <1>9

\* What is kept of a ranking.
LEMMA DeduplicatedRows ==
    ASSUME NEW rows \in Seq(RowSet), \A i, j \in 1 .. Len(rows) : i < j => Before(rows[i], rows[j])
    PROVE  Deduplicated(rows) \in Seq(RowSet) /\ KeptOf(rows, Len(rows), Deduplicated(rows))
<1> DEFINE N == Len(rows)
           none == <<>>
           U == Seq(RowSet)
<1>1. Near!Folded(rows, none, rows) = Deduplicated(rows)
      BY DEF Near!Folded, Near!FoldLeft, Near!MapThenFoldSet, Near!Max, Max, FoldLeft, MapThenFoldSet, Deduplicated, NearStep
<1>2. N \in Nat /\ DOMAIN rows = 1 .. N /\ \A i \in 1 .. N : rows[i] \in RowSet
      OBVIOUS
<1>3. none \in U /\ KeptOf(rows, 0, none)
      BY DEF KeptOf
<1>4. \A c \in U, row \in RowSet : NearStep(rows, c, row) \in U
      BY DEF NearStep, KeepUnlessNear
<1>5. \A n \in 1 .. N : \A c \in U : KeptOf(rows, n - 1, c) => KeptOf(rows, n, NearStep(rows, c, rows[n]))
      BY KeptOneMore DEF NearStep
<1> HIDE DEF U, none
<1>6. PICK h : Near!States(rows, U, none, rows, h) /\ Near!Folded(rows, none, rows) = h[Len(rows)]
      BY <1>3, <1>4, Near!FoldStates
<1>7. h \in [0 .. N -> U] /\ h[0] = none /\ \A n \in 1 .. N : h[n] = NearStep(rows, h[n - 1], rows[n])
      BY <1>6 DEF Near!States
<1> DEFINE T == {n \in 0 .. N : KeptOf(rows, n, h[n])}
<1>8. 0 .. N \subseteq T
  <2>1. 0 \in T
        BY <1>2, <1>3, <1>7
  <2>2. ASSUME NEW n \in 1 .. N, n - 1 \in T PROVE n \in T
    <3>1. n - 1 \in 0 .. N /\ n \in 0 .. N /\ KeptOf(rows, n - 1, h[n - 1])
          BY <1>2, <2>2
    <3>2. h[n - 1] \in U /\ h[n] = NearStep(rows, h[n - 1], rows[n])
          BY <1>7, <3>1
    <3> QED BY <1>5, <3>1, <3>2
  <2> HIDE DEF T, N
  <2> QED BY <1>2, <2>1, <2>2, InductionTo
<1>9. N \in 0 .. N
      BY <1>2
<1>10. h[N] \in U /\ KeptOf(rows, N, h[N])
      BY <1>7, <1>8, <1>9
<1> QED BY <1>1, <1>6, <1>10 DEF U

(***************************************************************************)
(* The answer.                                                             *)
(***************************************************************************)
\* What is kept, cut at a number.
LEMMA CutRows ==
    ASSUME NEW rows \in Seq(RowSet), NEW c \in Seq(RowSet), KeptOf(rows, Len(rows), c), NEW top \in Nat
    PROVE  LET cut == SubSeq(c, 1, SmallerOf(Len(c), top)) IN
           /\ DOMAIN cut = 1 .. Len(cut)
           /\ Len(cut) <= top
           /\ ToSet(cut) \subseteq ToSet(rows)
           /\ \A i, j \in DOMAIN cut : i < j => Before(cut[i], cut[j]) /\ ~Like(cut[i], cut[j])
           /\ \A row \in ToSet(rows) \ ToSet(cut) :
                 \/ \E r \in ToSet(cut) : Before(r, row) /\ Like(r, row)
                 \/ Len(cut) = top /\ \A r \in ToSet(cut) : Before(r, row)
<1> DEFINE K == Len(c)
           k == SmallerOf(K, top)
           cut == SubSeq(c, 1, k)
           N == Len(rows)
<1>1. K \in Nat /\ N \in Nat /\ DOMAIN rows = 1 .. N /\ (\A i \in 1 .. K : c[i] \in RowSet) /\ \A m \in 1 .. N : rows[m] \in RowSet
      OBVIOUS
<1>2. k \in 0 .. K /\ k <= top /\ (k = K \/ k = top)
      BY <1>1 DEF SmallerOf
<1> HIDE DEF k
<1>3. cut \in Seq(RowSet) /\ Len(cut) = k /\ \A i \in 1 .. k : cut[i] = c[i]
  <2>1. 1 \in Int /\ k \in Int /\ \A i \in 1 .. k : c[i] \in RowSet
        BY <1>1, <1>2
  <2>2. /\ SubSeq(c, 1, k) \in Seq(RowSet) /\ Len(SubSeq(c, 1, k)) = (IF 1 <= k THEN k - 1 + 1 ELSE 0)
        /\ \A i \in 1 .. k - 1 + 1 : SubSeq(c, 1, k)[i] = c[1 + i - 1]
        BY <2>1, SubSeqProperties
  <2>3. k - 1 + 1 = k /\ (1 <= k \/ k = 0) /\ \A i \in 1 .. k : 1 + i - 1 = i
        BY <1>2
  <2> HIDE DEF cut
  <2> QED BY <2>2, <2>3 DEF cut
<1> HIDE DEF cut
<1>4. DOMAIN cut = 1 .. k
      BY <1>3
<1>5. ToSet(cut) = {c[i] : i \in 1 .. k}
      BY <1>3, <1>4 DEF ToSet
<1>6. ToSet(rows) = {rows[m] : m \in 1 .. N}
      BY <1>1 DEF ToSet
<1>7. ToSet(cut) \subseteq ToSet(rows)
  <2>1. ASSUME NEW i \in 1 .. k PROVE c[i] \in ToSet(rows)
    <3>1. i \in 1 .. K
          BY <1>1, <1>2
    <3>2. PICK m \in 1 .. N : c[i] = rows[m]
          BY <3>1 DEF KeptOf
    <3> QED BY <1>6, <3>2
  <2> QED BY <1>5, <2>1
<1>8. \A i, j \in 1 .. K : i < j => Before(c[i], c[j]) /\ ~Like(c[i], c[j])
      BY DEF KeptOf
<1>9. \A i, j \in 1 .. k : i < j => Before(cut[i], cut[j]) /\ ~Like(cut[i], cut[j])
      BY <1>1, <1>2, <1>3, <1>8
<1>10. ASSUME NEW row \in ToSet(rows), row \notin ToSet(cut)
       PROVE  \/ \E r \in ToSet(cut) : Before(r, row) /\ Like(r, row)
              \/ Len(cut) = top /\ \A r \in ToSet(cut) : Before(r, row)
  <2>1. PICK m \in 1 .. N : row = rows[m]
        BY <1>6
  <2>2. PICK i \in 1 .. K : c[i] = rows[m] \/ (Before(c[i], rows[m]) /\ Like(c[i], rows[m]))
        BY DEF KeptOf
  <2>3. CASE i <= k
    <3>1. i \in 1 .. k
          BY <1>2, <2>3
    <3>2. c[i] \in ToSet(cut) /\ c[i] # row
          BY <1>5, <1>10, <3>1
    <3> QED BY <2>1, <2>2, <3>2
  <2>4. CASE i > k
    <3>1. k = top
          BY <1>2, <2>4
    <3>2. ASSUME NEW l \in 1 .. k PROVE Before(c[l], row)
      <4>1. l \in 1 .. K /\ Before(c[l], c[i])
            BY <1>1, <1>2, <1>8, <2>4
      <4>2. CASE c[i] = row
            BY <4>1, <4>2
      <4>3. CASE c[i] # row
        <5>1. Before(c[i], row) /\ c[l] \in RowSet /\ c[i] \in RowSet /\ row \in RowSet
              BY <1>1, <2>1, <2>2, <4>1, <4>3
        <5> QED BY <4>1, <5>1, BeforeIsTransitive
      <4> QED BY <4>2, <4>3
    <3> QED BY <1>3, <1>5, <3>1, <3>2
  <2> QED BY <1>2, <2>3, <2>4
<1> QED BY <1>2, <1>3, <1>4, <1>7, <1>9, <1>10 DEF cut, k

\* The hits of a search are what the vector store may return.
LEMMA HitsAreOK ==
    ASSUME index \in Seq(TextSet), NEW sims \in [1 .. Len(index) -> Scores.sims], NEW boosted
    PROVE  HitsOK(Hits(sims, boosted))
<1> DEFINE N == Len(index)
           own(i) == [doc |-> Document, index |-> i - 1, words |-> WordsOf(index[i])]
           owned == [i \in DOMAIN index |-> own(i)]
           hit(h) == [doc |-> h.doc, index |-> h.index, words |-> h.words, sim |-> sims[h.index + 1],
                      boost |-> IF h.index \in boosted THEN Scores.boost ELSE 0,
                      bm25 |-> IF h.index \in boosted THEN 1 ELSE 0]
           found == {hit(h) : h \in ToSet(owned)}
           of == [i \in 1 .. N |-> hit(own(i))]
<1>1. Hits(sims, boosted) = found \cup Others
      BY DEF Hits
<1>2. N \in Nat /\ DOMAIN index = 1 .. N /\ \A i \in 1 .. N : index[i] \in TextSet
      OBVIOUS
<1>3. ASSUME NEW i \in 1 .. N
      PROVE  /\ own(i).doc = 1 /\ own(i).index = i - 1 /\ own(i).words \in SUBSET Int
  <2>1. WordsOf(index[i]) \in SUBSET Int
    <3>1. index[i] \in Seq(Int)
          BY <1>2 DEF TextSet
    <3>2. ToSet(index[i]) \subseteq Int
          BY <3>1 DEF ToSet
    <3> QED BY <3>2 DEF WordsOf
  <2> QED BY <2>1 DEF Document
<1> HIDE DEF own
<1>4. ASSUME NEW i \in 1 .. N
      PROVE  /\ of[i] \in HitSet /\ of[i].doc = 1 /\ of[i].index = i - 1
  <2>1. sims[own(i).index + 1] \in Int
    <3>1. own(i).index + 1 = i
          BY <1>3
    <3> QED BY <3>1, ScoresAssumption
  <2>2. of[i] = hit(own(i)) /\ own(i).doc \in Int /\ own(i).index \in Int /\ own(i).words \in SUBSET Int
        BY <1>3
  <2>3. hit(own(i)) \in HitSet /\ hit(own(i)).doc = own(i).doc /\ hit(own(i)).index = own(i).index
        BY <2>1, <2>2, ScoresAssumption DEF HitSet
  <2> QED BY <1>3, <2>2, <2>3
<1>5. found = {of[i] : i \in 1 .. N}
  <2>1. ToSet(owned) = {own(i) : i \in 1 .. N}
        BY <1>2 DEF ToSet
  <2>2. \A i \in 1 .. N : of[i] = hit(own(i))
        OBVIOUS
  <2> HIDE DEF owned, hit, of
  <2> QED BY <2>1, <2>2
<1> HIDE DEF found, of
<1>6. IsFiniteSet(found)
  <2>1. DOMAIN of = 1 .. N /\ of = [i \in 1 .. N |-> of[i]]
        BY DEF of
  <2>2. of \in Surjection(1 .. N, found)
        BY <1>5, <2>1 DEF Surjection
  <2>3. IsFiniteSet(1 .. N)
        BY <1>2, FS_Interval
  <2> QED BY <2>2, <2>3, FS_Surjection
<1>7. \A h \in found : h \in HitSet /\ h.doc = Document
      BY <1>4, <1>5 DEF Document
<1>8. \A h, g \in found : h.index = g.index => h = g
  <2>1. ASSUME NEW i \in 1 .. N, NEW j \in 1 .. N, of[i].index = of[j].index PROVE i = j
        BY <1>2, <1>4, <2>1
  <2> QED BY <1>5, <2>1
<1>9. \A h \in Others : h \in HitSet /\ h.doc # Document
      BY OthersAssumption DEF HitSet
<1>10. IsFiniteSet(found \cup Others)
      BY <1>6, OthersAssumption, FS_Union
<1>11. ASSUME NEW h \in found \cup Others, NEW g \in found \cup Others, h.doc = g.doc, h.index = g.index PROVE h = g
  <2>1. CASE h \in found /\ g \in found
        BY <1>8, <1>11, <2>1
  <2>2. CASE h \in Others /\ g \in Others
        BY <1>11, <2>2, OthersAssumption
  <2>3. CASE h.doc # g.doc
        BY <1>11, <2>3
  <2> QED BY <1>7, <1>9, <2>1, <2>2, <2>3
<1> QED BY <1>1, <1>7, <1>9, <1>10, <1>11 DEF HitsOK

\* A search over such hits is sound.
SoundSearch(found) ==
    found.status = "found" =>
        LET answer == found.rows
            scope == found.request
            candidates == {h \in ToSet(found.fetched) : h.doc \in found.ready
                              /\ h.sim >= settings.retrieval_minimum_similarity * 1000}
            ranked == ToSet(Ranked(settings, Candidates(settings, found.fetched, found.ready)))
            answered == ToSet(answer)
        IN  /\ \A row \in answered : row.hit \in candidates /\ (scope.scoped => row.hit.doc \in scope.docs)
            /\ \A i, j \in DOMAIN answer :
                  i < j => /\ Before(answer[i], answer[j])
                           /\ ~NearDuplicate(answer[i].hit.words, answer[j].hit.words)
            /\ Len(answer) <= EffectiveTopK(settings, scope.asked)
            /\ \A row \in ranked \ answered :
                  \/ \E r \in answered : Before(r, row) /\ NearDuplicate(r.hit.words, row.hit.words)
                  \/ Len(answer) = EffectiveTopK(settings, scope.asked) /\ \A r \in answered : Before(r, row)

\* Whatever the vector store returns, for any request and settings.
LEMMA SearchFinds ==
    ASSUME StartInv, NEW hits, HitsOK(hits), NEW request \in Requests, NEW ready
    PROVE  SoundSearch(SearchDocuments(request, hits, ready))
<1> DEFINE fetched == Fetched(settings, hits, request)
           left == Candidates(settings, fetched, ready)
           status == IF ~PineconeConfigured(present) THEN "not_ready"
                     ELSE IF RankingFails(settings, left) THEN "error" ELSE "found"
           order == Ranked(settings, left)
           kept == Deduplicated(order)
           top == EffectiveTopK(settings, request.asked)
           cut == SubSeq(kept, 1, SmallerOf(Len(kept), top))
           done == SearchDocuments(request, hits, ready)
<1>1. done = [status |-> status, request |-> request, ready |-> ready, fetched |-> fetched,
              rows |-> IF status = "found" THEN cut ELSE <<>>]
      BY DEF SearchDocuments, Search, RerankDedupe
<1>2. top \in Nat
  <2>1. request.asked \in Nat
        BY RequestsAssumption
  <2> QED BY <2>1, StartedInRange DEF EffectiveTopK, SmallerOf
<1>3. /\ fetched \in Seq(hits) /\ Once(fetched)
      /\ \A h \in ToSet(fetched) : request.scoped => h.doc \in request.docs
      BY FetchedHits
<1>4. done.status = "found" => done.rows = cut
  <2> HIDE DEF done, status, fetched, cut
  <2>1. done.status = status /\ done.rows = IF status = "found" THEN cut ELSE <<>>
        BY <1>1
  <2> QED BY <2>1
<1>5. done.request = request /\ done.ready = ready /\ done.fetched = fetched
      BY <1>1
<1> HIDE DEF done, status, fetched
<1>6. /\ left \in Seq(hits) /\ Once(left)
      /\ ToSet(left) = {h \in ToSet(fetched) : h.doc \in ready /\ h.sim >= settings.retrieval_minimum_similarity * 1000}
      BY <1>3, CandidateHits
<1> HIDE DEF left
<1>7. left \in Seq(HitSet) /\ \A h, g \in ToSet(left) : h.doc = g.doc /\ h.index = g.index => h = g
  <2>1. hits \subseteq HitSet
        BY DEF HitsOK
  <2>2. ToSet(left) \subseteq hits
        BY <1>6 DEF ToSet
  <2> QED BY <1>6, <2>1, <2>2 DEF HitsOK
<1>8. /\ order \in Seq(RowSet)
      /\ \A i, j \in 1 .. Len(order) : i < j => Before(order[i], order[j])
      /\ \A row \in ToSet(order) : row.hit \in ToSet(left)
      BY <1>6, <1>7, RankedRows
<1> HIDE DEF order
<1>9. kept \in Seq(RowSet) /\ KeptOf(order, Len(order), kept)
      BY <1>8, DeduplicatedRows
<1> HIDE DEF kept, top
<1>10. /\ DOMAIN cut = 1 .. Len(cut)
       /\ Len(cut) <= top
       /\ ToSet(cut) \subseteq ToSet(order)
       /\ \A i, j \in DOMAIN cut : i < j => Before(cut[i], cut[j]) /\ ~Like(cut[i], cut[j])
       /\ \A row \in ToSet(order) \ ToSet(cut) :
             \/ \E r \in ToSet(cut) : Before(r, row) /\ Like(r, row)
             \/ Len(cut) = top /\ \A r \in ToSet(cut) : Before(r, row)
      BY <1>2, <1>8, <1>9, CutRows
<1> HIDE DEF cut
<1>11. \A row \in ToSet(cut) :
          /\ row.hit \in {h \in ToSet(fetched) : h.doc \in ready /\ h.sim >= settings.retrieval_minimum_similarity * 1000}
          /\ request.scoped => row.hit.doc \in request.docs
      BY <1>3, <1>6, <1>8, <1>10
<1>12. ASSUME done.status = "found" PROVE SoundSearch(done)
  <2>1. done.rows = cut
        BY <1>4, <1>12
  <2> QED BY <1>5, <1>10, <1>11, <2>1 DEF SoundSearch, Like, top, order, left
<1> QED BY <1>12 DEF done, SoundSearch

LEMMA SearchInit == Init => SearchIsSound
<1>1. NoSearch.status # "found"
      BY DEF NoSearch
<1> QED BY <1>1 DEF Init, SearchIsSound

LEMMA SearchStepSound == StartInv /\ BatchInv /\ SearchIsSound /\ [Next]_vars => SearchIsSound'
<1>1. SUFFICES ASSUME StartInv, BatchInv, SearchIsSound, [Next]_vars PROVE SearchIsSound'
      OBVIOUS
<1>2. UNCHANGED <<settings, env, present, file>>
      BY <1>1, StartedForGood
<1>3. CASE UNCHANGED search
      BY <1>1, <1>2, <1>3 DEF SearchIsSound
<1>4. CASE SearchStep
  <2>1. PICK request \in Requests, sims \in [1 .. Len(index) -> Scores.sims], boosted \in SUBSET {0, 1},
             others \in {{}, {h.doc : h \in Others}} :
             search' = SearchDocuments(request, Hits(sims, boosted), IsReady \cup others)
        BY <1>4 DEF SearchStep
  <2>2. index \in Seq(TextSet)
        BY <1>1 DEF BatchInv
  <2>3. HitsOK(Hits(sims, boosted))
        BY <2>2, HitsAreOK
  <2>4. SoundSearch(search')
        BY <1>1, <2>1, <2>3, SearchFinds
  <2> QED BY <1>2, <2>4 DEF SoundSearch, SearchIsSound
<1>5. CASE SearchFails
  <2>1. search'.status # "found"
        BY <1>5 DEF SearchFails
  <2> QED BY <2>1 DEF SearchIsSound
<1>6. UNCHANGED search \/ SearchStep \/ SearchFails
      BY <1>1 DEF Next, vars, Upload, ParseAndPreview, EmbedStart, EmbedBatch, AttemptFails, UpsertBatch, UpsertFails
<1> QED BY <1>3, <1>4, <1>5, <1>6

\* A search answers with the best of what it may, and leaves out near duplicates and
\* what is beyond top_k only (RetrievalService.search and what it calls).
THEOREM SearchesAreSound == Spec => []SearchIsSound
<1> DEFINE Inv == StartInv /\ ChunkInv /\ BatchInv /\ SearchIsSound
<1>1. Init => Inv
      BY ChunkInit, BatchInit, SearchInit DEF Init, StartInv
<1>2. Inv /\ [Next]_vars => Inv'
      BY ChunkStep, StartedForGood, BatchStep, SearchStepSound
<1>3. Inv => SearchIsSound
      OBVIOUS
<1> HIDE DEF Inv
<1> QED BY <1>1, <1>2, <1>3, PTL DEF Spec
=================================================================================
