-------------------------------- MODULE Context --------------------------------
(***************************************************************************)
(* What the language model is given: the earlier messages of the           *)
(* conversation that fit, and the retrieved chunks that fit, with the      *)
(* citations that go with them.                                            *)
(*                                                                         *)
(* A text's length is a number; tokens and characters are one budget.      *)
(***************************************************************************)
EXTENDS Integers, FiniteSets, Sequences, SequencesExt

ShorterOf(a, b) == IF a <= b THEN a ELSE b

(***************************************************************************)
(* History.                                                                *)
(***************************************************************************)
TotalLength(rows) ==
    LET upTo[n \in 0 .. Len(rows)] == IF n = 0 THEN 0 ELSE upTo[n - 1] + rows[n].length
    IN  upTo[Len(rows)]

\* The oldest rows go until the rest fits.  The parameter is newest first.
PriorTurnsBlock(newestFirst, budget) ==
    LET rows == Reverse(newestFirst)
        fits == {n \in 0 .. Len(rows) : TotalLength(SubSeq(rows, n + 1, Len(rows))) <= budget}
        dropped == CHOOSE n \in fits : \A m \in fits : n <= m
    IN  SubSeq(rows, dropped + 1, Len(rows))

\* The question that is being answered is no part of its history.
WithoutOwn(recent, own) ==
    IF recent # <<>> /\ recent[Len(recent)] = own THEN SubSeq(recent, 1, Len(recent) - 1) ELSE recent

\* `recent` is in chronological order.
AssembleHistory(recent, own, budget) == PriorTurnsBlock(WithoutOwn(recent, own), budget)

(***************************************************************************)
(* Chunks and citations.                                                   *)
(***************************************************************************)
Capped(items, maxChunks) == SubSeq(items, 1, ShorterOf(Len(items), maxChunks))

\* How many of the chunks are at least in part in the text that fits.
Shown(items, budget) ==
    Cardinality({n \in 1 .. Len(items) : TotalLength(SubSeq(items, 1, n - 1)) < budget})

CiteOnce(citations, item) ==
    LET key == [doc |-> item.doc, index |-> item.index]
    IN  IF key \in ToSet(citations) THEN citations ELSE Append(citations, key)

\* mutation: the chunks themselves are the citations
CitationsUnprojected(items) == items

CitationsFromChunks(items) == FoldLeft(CiteOnce, <<>>, items)

\* A plan that wants no retrieval has no chunks, whatever was found.
AssembleRetrieved(found, need, maxChunks, budget) ==
    IF ~need THEN [capped |-> <<>>, shown |-> 0]
    ELSE LET capped == Capped(found, maxChunks) IN [capped |-> capped, shown |-> Shown(capped, budget)]

\* All that are capped are cited, those that were cut from the text too.
AssembleCitations(retrieved) == CitationsFromChunks(retrieved.capped)

\* ContextAssemblyEngine.assemble: the package that the prompt is made from.
ContextPackage(recent, own, found, need, limits) ==
    LET retrieved == AssembleRetrieved(found, need, limits.chunks, limits.context)
    IN  [items |-> SubSeq(retrieved.capped, 1, retrieved.shown),
         cites |-> AssembleCitations(retrieved),
         history |-> AssembleHistory(recent, own, limits.history)]

(***************************************************************************)
(* The query that is searched: the latest message, and as much of the end  *)
(* of the earlier turns as fits.                                           *)
(***************************************************************************)
BlendedMax == 800
Blend(latest, prior) ==
    IF prior = 0 THEN [latest |-> ShorterOf(latest, BlendedMax), prior |-> 0]
    ELSE IF latest >= BlendedMax - 2 THEN [latest |-> ShorterOf(latest, BlendedMax), prior |-> 0]
    ELSE [latest |-> latest, prior |-> ShorterOf(prior, BlendedMax - latest - 2)]
=============================================================================
