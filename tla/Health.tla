-------------------------------- MODULE Health --------------------------------
(***************************************************************************)
(* What /health says of a process: a function of the settings and secrets  *)
(* it started with and of the services that answer it now (`up`).  The     *)
(* database's part is left out.                                            *)
(***************************************************************************)
EXTENDS Settings, Provider

Services == {"postgresql", "redis", "worker", "pinecone", "cloudinary", "supabase"}

\* storage_provider_for: the provider raises as it is built, on every document route.
SupabaseSecrets == {"supabase_url", "supabase_service_role_key", "supabase_storage_bucket"}
ProviderRaises(settings, present) ==
    settings.enable_original_file_storage /\ ~(SupabaseSecrets \subseteq present)

StorageReady(settings, present, up) ==
    IF settings.enable_original_file_storage
    THEN SupabaseSecrets \subseteq present /\ "supabase" \in up
    ELSE CloudinaryConfigured(present) /\ "cloudinary" \in up

PineconeReachable(present, up) == PineconeConfigured(present) /\ "pinecone" \in up
RetrievalPipelineReady(present, up) == PineconeConfigured(present) /\ PineconeReachable(present, up)

RedisReachable(present, up) == "redis_url" \in present /\ "redis" \in up
StreamingReady(present, up) == "redis_url" \in present /\ RedisReachable(present, up)

\* The broker is a URL of its own or the one of Redis, and only Redis is pinged.
CeleryConfigured(present) == {"celery_broker_url", "redis_url"} \cap present # {}
BrokerOk(present, up) == RedisReachable(present, up) /\ CeleryConfigured(present)
IngestionPipelineReady(present, up) == BrokerOk(present, up) /\ "worker" \in up

\* rag_health: the providers of a model that is named and whose key is present.
LlmReady(settings, present) ==
    {GetProvider(settings[use.model]) : use \in
        {u \in {[model |-> "generation_model", key |-> "generation_api_key"],
                [model |-> "fallback_generation_model", key |-> "fallback_generation_api_key"]} :
            u.key \in present /\ settings[u.model] # ""}}

DeploymentReady(env, present) == env \in StrictEnvironments => MissingRequirements(present) = {}

HealthData(settings, env, present, up) == [
    storage |-> StorageReady(settings, present, up),
    retrieval |-> RetrievalPipelineReady(present, up),
    streaming |-> StreamingReady(present, up),
    ingestion |-> IngestionPipelineReady(present, up),
    llm |-> LlmReady(settings, present),
    deployment |-> DeploymentReady(env, present),
    auth |-> "clerk_jwt_issuer" \in present,
    rate_limiting |-> "redis_url" \in present,
    webhook_signing |-> "clerk_webhook_signing_key" \in present]
===============================================================================
