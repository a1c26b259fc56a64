------------------------------- MODULE Settings -------------------------------
(***************************************************************************)
(* AppEnvironment: which settings a process starts with.  The range of     *)
(* each numeric setting, the relations between two of them, and what an    *)
(* environment other than development must provide.                        *)
(*                                                                         *)
(* A record of settings has some of the fields; those it has not are at    *)
(* their defaults, which are in range.  Fractions are in thousandths.      *)
(***************************************************************************)
EXTENDS Integers, FiniteSets

Thousandths(least, most) == least * 1000 .. most * 1000

Storage == [
    backend_port |-> 1 .. 65535,
    database_pool_size |-> 1 .. 100,
    database_max_overflow |-> 0 .. 100,
    database_pool_timeout |-> 1 .. 300,
    database_pool_recycle |-> 60 .. 86400]

RetrievalRanges == [
    embedding_batch_size |-> 1 .. 10000,
    embedding_max_retries |-> 1 .. 10,
    embedding_retry_delay_seconds |-> 100 .. 60000,
    embedding_timeout_seconds |-> Thousandths(1, 300),
    retrieval_default_top_k |-> 1 .. 50,
    retrieval_max_top_k |-> 1 .. 100,
    retrieval_minimum_similarity |-> 0 .. 1000,
    hybrid_retrieval_enabled |-> BOOLEAN,
    hybrid_candidate_pool_size |-> 10 .. 500,
    rrf_k |-> 10 .. 200]

ChatRanges == [
    rag_max_chunks |-> 1 .. 50,
    rag_max_context_chars |-> 500 .. 500000,
    rag_max_context_tokens |-> 100 .. 500000,
    llm_timeout_seconds |-> Thousandths(5, 300),
    chat_history_max_messages |-> 1 .. 50,
    chat_history_max_chars |-> 500 .. 100000,
    chat_memory_max_tokens |-> 100 .. 100000,
    redis_stream_ttl_seconds |-> 60 .. 86400,
    chat_stream_max_duration_seconds |-> 30 .. 3600]

IngestionRanges == [
    ingestion_max_retries |-> 0 .. 20,
    ingestion_retry_backoff_seconds |-> 1 .. 600,
    chunk_size |-> 10 .. 50000,
    chunk_overlap |-> 0 .. 25000,
    parent_chunk_size |-> 10 .. 50000,
    child_chunk_size |-> 10 .. 25000,
    child_chunk_overlap |-> 0 .. 12500,
    semantic_chunk_max_tokens |-> 10 .. 50000,
    semantic_chunk_min_tokens |-> 1 .. 25000]

LimiterRanges == [
    rate_limit_window_seconds |-> 1 .. 3600,
    rate_limit_chat_message |-> 1 .. 10000,
    rate_limit_chat_stream |-> 1 .. 10000,
    rate_limit_rag_ask |-> 1 .. 10000,
    rate_limit_documents_upload |-> 1 .. 10000,
    rate_limit_evaluation_run |-> 1 .. 10000,
    rate_limit_benchmark_run |-> 1 .. 10000]

Within(settings, ranges) == \A f \in DOMAIN settings \cap DOMAIN ranges : settings[f] \in ranges[f]

TopKConsistent(settings) == settings.retrieval_default_top_k <= settings.retrieval_max_top_k
OverlapConsistent(settings) == settings.chunk_overlap < settings.chunk_size

(***************************************************************************)
(* Secrets: `present` is the set of those that are set and not blank.      *)
(***************************************************************************)
StrictEnvironments == {"production", "staging"}
PineconeSecrets == {"pinecone_api_key", "pinecone_index_name", "pinecone_cloud", "pinecone_region"}
CloudinarySecrets == {"cloudinary_cloud_name", "cloudinary_api_key", "cloudinary_api_secret"}
ModelSecrets == {"root_agent_api_key", "planning_api_key", "query_rewrite_api_key", "context_api_key",
                 "generation_api_key", "reviewer_api_key", "evaluation_api_key",
                 "fallback_generation_api_key", "huggingface_api_key"}
RequiredSecrets ==
    {"database_url", "redis_url", "clerk_jwt_issuer", "clerk_webhook_signing_key"}
        \cup PineconeSecrets \cup CloudinarySecrets \cup ModelSecrets

MissingRequirements(present) == RequiredSecrets \ present

PineconeConfigured(present) == PineconeSecrets \subseteq present
CloudinaryConfigured(present) == CloudinarySecrets \subseteq present
IssuerConsistent(env, present) == env \in StrictEnvironments => "clerk_jwt_issuer" \in present
Enforced(env, present) == env \in StrictEnvironments => MissingRequirements(present) = {}

(***************************************************************************)
(* get_app_environment: the process starts, or the exception ends it.      *)
(***************************************************************************)
Accepted(settings) ==
    /\ Within(settings, Storage) /\ Within(settings, RetrievalRanges) /\ Within(settings, ChatRanges)
    /\ Within(settings, IngestionRanges) /\ Within(settings, LimiterRanges)
    /\ TopKConsistent(settings)
    /\ OverlapConsistent(settings)

Starts(settings, env, present) ==
    Accepted(settings) /\ "database_url" \in present /\ IssuerConsistent(env, present) /\ Enforced(env, present)
=============================================================================
