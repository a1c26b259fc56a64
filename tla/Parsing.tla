-------------------------------- MODULE Parsing --------------------------------
(***************************************************************************)
(* From an uploaded file to the blocks of a document: what an upload must  *)
(* be to be accepted, which parser reads it, and which type each block     *)
(* gets.                                                                   *)
(*                                                                         *)
(* A file is a record: name ("ok", "path", "blocked" or "none"), ext,      *)
(* mime (the declared type), head (how its bytes begin), eicar, oversize,  *)
(* readable (by the library that parses its format) and pages, sequences   *)
(* of paragraphs.  A paragraph has marks (the shapes that its text has)    *)
(* and parts (Chunking).                                                   *)
(***************************************************************************)
EXTENDS Chunking

(***************************************************************************)
(* Upload: the name, the size, the type, the scan.                         *)
(***************************************************************************)
Extensions == {"pdf", "docx", "txt", "md"}
Docx == "application/vnd.openxmlformats-officedocument.wordprocessingml.document"
AllowedMimes == [
    pdf |-> {"application/pdf"},
    docx |-> {Docx},
    txt |-> {"text/plain"},
    md |-> {"text/markdown", "text/x-markdown"}]

NameAllowed(file) == file.name \notin {"none", "path", "blocked"}
DeclaredMatches(file) == file.ext \in Extensions /\ file.mime \in AllowedMimes[file.ext]

\* "cut": the 4096th byte is inside a character, so those 4096 are no UTF-8.
SniffMatches(file) ==
    CASE file.ext = "pdf" -> file.head = "%PDF-"
      [] file.ext = "docx" -> file.head = "PK"
      [] OTHER -> file.head \notin {"binary", "cut"}

ExecutableMagic == {"MZ", "ELF", "#!"}
Dangerous(file) == file.eicar \/ file.head \in ExecutableMagic

Valid(file) ==
    NameAllowed(file) /\ ~file.oversize /\ DeclaredMatches(file) /\ SniffMatches(file) /\ ~Dangerous(file)

(***************************************************************************)
(* The parsers.                                                            *)
(***************************************************************************)
\* mutation: one of the two types of Markdown has no parser
ParserKeyPlainMarkdown(mime) ==
    CASE mime = "application/pdf" -> "pdf"
      [] mime = Docx -> "docx"
      [] mime = "text/plain" -> "text"
      [] mime = "text/markdown" -> "markdown"
      [] OTHER -> "none"

ParserKey(mime) ==
    CASE mime = "application/pdf" -> "pdf"
      [] mime = Docx -> "docx"
      [] mime = "text/plain" -> "text"
      [] mime \in {"text/markdown", "text/x-markdown"} -> "markdown"
      [] OTHER -> "none"

Paragraphs(file) == FlattenSeq(file.pages)

\* python-docx has the tables of a document apart from its paragraphs.
DocxParagraphs(file) ==
    FlattenSeq([i \in DOMAIN Paragraphs(file) |->
        LET p == Paragraphs(file)[i] IN IF "grid" \in p.marks THEN <<>> ELSE <<p>>])

\* Markdown is made HTML and its text taken: the marks of the markup are gone,
\* and each line is a block.
LineMarks == {"numbered", "caption", "period"}
MarkdownLines(file) ==
    FlattenSeq([i \in DOMAIN Paragraphs(file) |->
        LET p == Paragraphs(file)[i]
        IN  [n \in DOMAIN p.parts |-> [marks |-> p.marks \cap LineMarks, parts |-> <<p.parts[n]>>]]])

ParserFails(file) ==
    ParserKey(file.mime) = "none" \/ (ParserKey(file.mime) \in {"pdf", "docx"} /\ ~file.readable)

Extracted(file) ==
    CASE ParserKey(file.mime) = "markdown" -> MarkdownLines(file)
      [] ParserKey(file.mime) = "docx" -> DocxParagraphs(file)
      [] OTHER -> Paragraphs(file)

(***************************************************************************)
(* StructureDetectionEngine.                                               *)
(***************************************************************************)
ClassifyBlock(block) ==
    LET marks == block.marks
        lines == Len(block.parts)
        chars == Chars(block.parts)
    IN  IF "fence" \in marks THEN "code"
        ELSE IF lines >= 2 /\ ("divider" \in marks \/ ("pipe" \in marks /\ lines >= 3)) THEN "table"
        ELSE IF "bullet" \in marks THEN "list"
        ELSE IF "quote" \in marks THEN "quote"
        ELSE IF "caption" \in marks /\ chars < 250 THEN "caption"
        ELSE IF "heading" \in marks THEN "heading"
        ELSE IF chars < 150 /\ "period" \notin marks /\ "numbered" \in marks THEN "heading"
        ELSE "paragraph"

Detect(blocks) ==
    [i \in DOMAIN blocks |-> [type |-> ClassifyBlock(blocks[i]), parts |-> blocks[i].parts]]

ParseToCanonical(file) == Detect(Extracted(file))
=============================================================================
