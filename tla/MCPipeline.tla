------------------------------ MODULE MCPipeline ------------------------------
(* Instances of Pipeline for TLC.                                           *)
EXTENDS Pipeline

P(marks, parts) == [marks |-> marks, parts |-> parts]
File(ext, mime, head, pages) ==
    [name |-> "ok", ext |-> ext, mime |-> mime, head |-> head, eicar |-> FALSE, oversize |-> FALSE,
     readable |-> TRUE, pages |-> pages]

\* A heading between paragraphs, sentences of every length, text that comes again.
Manual == File("txt", "text/plain", "utf8",
    << <<P({"period"}, <<<<1, 2>>, <<3>>>>), P({"period"}, <<<<4>>, <<5>>>>), P({"numbered"}, <<<<106>>>>),
         P({"period"}, <<<<7>>, <<1, 2, 3, 4, 5, 6, 7>>, <<8>>>>)>> >>)
Scan == File("pdf", "application/pdf", "%PDF-",
    << <<P({"period"}, <<<<1, 2, 3, 4, 5, 6>>, <<7>>>>)>>, <<>>, <<P({}, <<<<101>>, <<102>>>>), P({}, <<<<101>>, <<102>>>>)>> >>)
Table == File("md", "text/x-markdown", "utf8",
    << <<P({"bullet", "pipe", "divider"}, <<<<1>>, <<102>>, <<103>>>>), P({"numbered"}, <<<<101>>>>), P({"numbered"}, <<<<101>>>>)>> >>)
Foreign == File("docx", Docx, "PK", << <<P({"period"}, <<<<-1, -2, -3>>, <<-4>>>>), P({"grid"}, <<<<9>>>>)>> >>)
Blank == File("txt", "text/plain", "empty", << <<>> >>)
Broken == [File("pdf", "application/pdf", "%PDF-", <<>>) EXCEPT !.readable = FALSE]
Wrong == {[Blank EXCEPT !.name = "path"], [Blank EXCEPT !.oversize = TRUE], [Scan EXCEPT !.head = "PK"],
          [Blank EXCEPT !.head = "#!"], [Blank EXCEPT !.mime = "text/markdown"]}
MCFiles == {Manual, Scan, Table, Foreign, Blank, Broken} \cup Wrong

Plain == [
    retrieval_default_top_k |-> 2, retrieval_max_top_k |-> 3, retrieval_minimum_similarity |-> 300,
    hybrid_retrieval_enabled |-> FALSE, hybrid_candidate_pool_size |-> 10, rrf_k |-> 60,
    embedding_batch_size |-> 2, embedding_max_retries |-> 2,
    chunk_size |-> 1200, chunk_overlap |-> 25, semantic_chunk_max_tokens |-> 20,
    child_chunk_size |-> 40, child_chunk_overlap |-> 21,
    enable_original_file_storage |-> FALSE,
    generation_model |-> "llama-3.1-8b-instant", fallback_generation_model |-> "gemini-2.0-flash"]
MCConfigurations == {
    Plain,
    [Plain EXCEPT !.hybrid_retrieval_enabled = TRUE, !.embedding_batch_size = 1, !.chunk_overlap = 0,
        !.child_chunk_overlap = 0, !.semantic_chunk_max_tokens = 10, !.enable_original_file_storage = TRUE],
    [Plain EXCEPT !.retrieval_default_top_k = 4],
    [Plain EXCEPT !.chunk_overlap = 1200],
    [Plain EXCEPT !.embedding_max_retries = 0]}
MCPresences == {RequiredSecrets, RequiredSecrets \cup SupabaseSecrets, RequiredSecrets \ {"pinecone_region"},
                (RequiredSecrets \cup SupabaseSecrets) \ {"cloudinary_api_key"}, {"database_url"}}
MCLeftover == <<<<9>>, <<10>>, <<11>>>>
MCOthers == {[doc |-> 2, index |-> 0, words |-> {1, 2}, sim |-> 505000, boost |-> 0, bm25 |-> 1],
             [doc |-> 3, index |-> 0, words |-> {3}, sim |-> 500000, boost |-> 0, bm25 |-> 0],
             [doc |-> 3, index |-> 1, words |-> {4}, sim |-> 299000, boost |-> 0, bm25 |-> 1]}
MCRequests == [scoped : {FALSE}, docs : {{}}, asked : {0, 3}] \cup [scoped : {TRUE}, docs : {{}, {1}, {1, 2}}, asked : {1}]
MCScores == [sims |-> {500000, 510000}, boost |-> 22000]
===============================================================================
