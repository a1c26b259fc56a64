------------------------------- MODULE Chunking -------------------------------
(***************************************************************************)
(* From a parsed document to the texts that are embedded and searched: the *)
(* structure-aware chunker makes parents of its blocks, the parent-child   *)
(* builder cuts each parent into children.                                 *)
(*                                                                         *)
(* A text is a sequence of atoms, each of AtomChars characters; a part (a  *)
(* sentence, or a line) is a text that is not cut without need; a block is *)
(* a type and a sequence of parts.  A chunk is a sequence of parts: what   *)
(* joins them is one character (while blocks are packed, two between       *)
(* blocks), and has no atom.  An atom above LineEnds ends a line that ends *)
(* no sentence: the splitting into sentences joins it with the next.       *)
(***************************************************************************)
EXTENDS Integers, FiniteSets, Sequences, SequencesExt

TextSet == Seq(Int)
PartSet == TextSet \ {<<>>}
ChunkSet == Seq(PartSet)

AtomChars == 20
LineEnds == 100
Text(parts) == FlattenSeq(parts)
Chars(parts) == AtomChars * Len(Text(parts)) + Len(parts) - 1
Tokens(chars) == IF chars < 4 THEN 1 ELSE chars \div 4

Nonempty(parts) == IF parts = <<>> THEN <<>> ELSE <<parts>>

\* split_sentences: the sentences of what the parts make together.
Sentences(parts) ==
    FoldLeft(LAMBDA done, part :
                IF done # <<>> /\ Last(Last(done)) > LineEnds
                THEN [done EXCEPT ![Len(done)] = @ \o part] ELSE Append(done, part),
             <<>>, parts)

\* A part in slices of so many characters.
Slices(part, chars) ==
    LET size == chars \div AtomChars
        EndOf(n) == IF n * size < Len(part) THEN n * size ELSE Len(part)
    IN  [n \in 1 .. (Len(part) + size - 1) \div size |-> <<SubSeq(part, (n - 1) * size + 1, EndOf(n))>>]

\* The longest tail of the parts that fits, each with the separator after it.
FittingTail(parts, limit) ==
    LET tail(n) == SubSeq(parts, Len(parts) - n + 1, Len(parts))
        fits == {n \in 0 .. Len(parts) : n = 0 \/ Chars(tail(n)) + 1 <= limit}
    IN  tail(CHOOSE n \in fits : \A m \in fits : m <= n)

(***************************************************************************)
(* Packing: parts go into the chunk that is being filled while they fit;   *)
(* a full chunk is put out, and Carry of it begins the next.  A part that  *)
(* is too long is sliced only when it comes to an empty chunk.             *)
(***************************************************************************)
Empty == [chunks |-> <<>>, current |-> <<>>]

\* A rule of packing: the unit that lengths are counted in, the longest chunk (max), the
\* characters of a slice, and which end of a full chunk is carried over.
Measure(rule, parts) == IF rule.unit = "tokens" THEN Tokens(Chars(parts)) ELSE Chars(parts)

Carry(rule, parts) ==
    IF rule.carries = "tail" THEN FittingTail(parts, rule.overlap)
    ELSE IF Chars(<<Last(parts)>>) <= rule.overlap THEN <<Last(parts)>> ELSE <<>>

AddPart(rule, packing, part) ==
    IF packing.current = <<>> /\ Measure(rule, <<part>>) > rule.max
    THEN [packing EXCEPT !.chunks = @ \o Slices(part, rule.slice)]
    ELSE IF packing.current = <<>> \/ Measure(rule, packing.current) + 1 + Measure(rule, <<part>>) <= rule.max
    THEN [packing EXCEPT !.current = Append(@, part)]
    ELSE [chunks |-> Append(packing.chunks, packing.current),
          current |-> Append(Carry(rule, packing.current), part)]

Packed(rule, parts) ==
    LET packing == FoldLeft(LAMBDA done, part : AddPart(rule, done, part), Empty, parts)
    IN  packing.chunks \o Nonempty(packing.current)

(***************************************************************************)
(* StructureAwareChunker.  `limits` has the settings semantic_chunk_max_   *)
(* tokens, chunk_overlap, child_chunk_size and child_chunk_overlap.        *)
(***************************************************************************)
Content(blocks) == FlattenSeq([i \in DOMAIN blocks |-> blocks[i].parts])
BlockTokens(block) == Tokens(Chars(block.parts))
ContentTokens(blocks) == Tokens(Chars(Content(blocks)) + Len(blocks) - 1)

SplitSemanticBlock(limits, block) ==
    Packed([unit |-> "tokens", max |-> limits.semantic_chunk_max_tokens,
            slice |-> limits.semantic_chunk_max_tokens * 4,
            carries |-> "one", overlap |-> limits.chunk_overlap],
           IF block.type \in {"table", "code", "list"} THEN block.parts ELSE Sentences(block.parts))

\* The end of the last block, which begins the next chunk.
OverlapBlocks(limits, blocks) ==
    LET last == Last(blocks)
        tail == FittingTail(Sentences(last.parts), limits.chunk_overlap)
    IN  IF limits.chunk_overlap = 0 THEN <<>>
        ELSE IF Chars(last.parts) <= limits.chunk_overlap THEN <<last>>
        ELSE IF tail = <<>> THEN <<>> ELSE <<[last EXCEPT !.parts = tail]>>

\* mutation: the chunk that was being filled is forgotten at a heading
FlushForgotten(chunking) == [chunking EXCEPT !.current = <<>>]

Flush(chunking) ==
    [chunks |-> chunking.chunks \o Nonempty(Content(chunking.current)), current |-> <<>>]

AddBlock(limits, chunking, block) ==
    LET start == IF block.type = "heading" THEN Flush(chunking) ELSE chunking
        flushed == Flush(start)
        carried == IF start.current = <<>> THEN <<>> ELSE OverlapBlocks(limits, start.current)
    IN  IF start.current # <<>> /\ ContentTokens(start.current) + BlockTokens(block) <= limits.semantic_chunk_max_tokens
        THEN [start EXCEPT !.current = Append(@, block)]
        ELSE IF BlockTokens(block) > limits.semantic_chunk_max_tokens
        THEN [flushed EXCEPT !.chunks = @ \o SplitSemanticBlock(limits, block)]
        ELSE [flushed EXCEPT !.current = Append(carried, block)]

Parents(limits, document) ==
    Flush(FoldLeft(LAMBDA chunking, block : AddBlock(limits, chunking, block), Empty, document)).chunks

(***************************************************************************)
(* ParentChildBuilder.                                                     *)
(***************************************************************************)
GenerateChildren(limits, parent) ==
    IF Chars(parent) <= limits.child_chunk_size THEN <<parent>>
    ELSE Packed([unit |-> "chars", max |-> limits.child_chunk_size, slice |-> limits.child_chunk_size,
                 carries |-> "tail", overlap |-> limits.child_chunk_overlap],
                Sentences(parent))

BuildRelations(limits, parents) == [i \in DOMAIN parents |-> GenerateChildren(limits, parents[i])]

(***************************************************************************)
(* What chunking promises: the pieces are windows of the text, in order,   *)
(* and each brings text that those before it did not have.                 *)
(***************************************************************************)
Advance(text, ends, piece) ==
    {e \in 1 .. Len(text) :
        \E p \in ends : e > p /\ e - Len(piece) \in 0 .. p /\ SubSeq(text, e - Len(piece) + 1, e) = piece}

Covers(pieces, text) == Len(text) \in FoldLeft(LAMBDA ends, piece : Advance(text, ends, piece), {0}, pieces)

Texts(chunks) == [i \in DOMAIN chunks |-> Text(chunks[i])]
=============================================================================
