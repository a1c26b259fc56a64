------------------------------- MODULE ChatTurn -------------------------------
(***************************************************************************)
(* POST /chat/message: a user's question is stored, answered from the      *)
(* selected documents and the answer stored, in one transaction, the one   *)
(* in which the request's user was looked up or made (Identity).  POST     *)
(* /rag/ask answers a question of no conversation and stores nothing.      *)
(*                                                                         *)
(* A step ends where another session can act: at an await of the database, *)
(* of the vector store or of a language model.  The nodes of the RAG graph *)
(* that only compute belong to the step before them.                       *)
(***************************************************************************)
EXTENDS Identity, Retrieval, Context, Provider

CONSTANTS
    Asks,           \* what the requests may ask: the conversation, the documents, the text's length
    Holder,         \* the account that has the conversation "old"
    Earlier,        \* the messages in it, in chronological order
    Docs,           \* the documents there are
    OwnerOf,        \* the account of each document
    Chunks,         \* the chunks in the vector store
    Rewritings,     \* the lengths of the queries the rewriting model may answer with
    TopK,           \* retrieval_default_top_k
    HistoryLimit,   \* chat_history_max_messages
    HistoryBudget,  \* chat_history_max_chars and chat_memory_max_tokens
    MaxChunks,      \* rag_max_chunks
    ContextBudget,  \* rag_max_context_chars and rag_max_context_tokens
    Models,         \* language models configured, in the order they are tried
    Responses,      \* what each provider may respond
    Faults          \* "db", "search": what can fail

ASSUME AsksAssumption ==
    Asks \subseteq [Requests -> [conversation : {"old", "new", "none"}, docs : SUBSET Docs, length : Nat]]
ASSUME HolderAssumption == Holder \in Known
ASSUME EarlierAssumption ==
    /\ "earlier" \notin Requests
    /\ Earlier \in Seq([by : {"earlier"}, role : {"user", "assistant"}, length : Nat])
ASSUME ChunksAssumption == Chunks \subseteq [doc : Docs, index : Nat, length : Nat]
\* The settings: ge=1, and for the budgets more.
ASSUME LimitsAssumption ==
    TopK \in Nat \ {0} /\ HistoryLimit \in Nat \ {0} /\ HistoryBudget \in Nat /\ MaxChunks \in Nat \ {0}
ASSUME ModelsAssumption ==
    \A m \in DOMAIN Models :
        GetProvider(Models[m]) \in DOMAIN Responses /\ Outcomes(Models[m], Responses) \subseteq Nat
ASSUME FaultsAssumption == Faults \subseteq {"db", "search"}

VARIABLES
    ask,        \* what each request asks: never changes
    pc,         \* where each turn is
    rows,       \* the messages its transaction has inserted
    recent,     \* the messages it has loaded, in chronological order
    filter,     \* the scope of the search in its plan
    items,      \* the retrieved chunks in its prompt
    history,    \* the earlier messages in its prompt
    cites,      \* the citations of its answer
    answer      \* the length of its answer

turnVars == <<ask, pc, rows, recent, filter, items, history, cites, answer>>
vars == <<identityVars, turnVars>>

Roles == {"user", "assistant"}
NoFilter == [scoped |-> FALSE, docs |-> {}]
TurnSteps == {"attach", "load", "plan", "rewrite", "search", "insufficient", "generate", "store", "commit"}

\* The questions of different requests have different texts.
Message(t, role) == [by |-> t, role |-> role, length |-> IF role = "user" THEN ask[t].length ELSE answer[t]]
Question(t) == Message(t, "user")
MessageSet == [by : Requests \cup {"earlier"}, role : Roles, length : Nat]

TypeOK ==
    /\ IdentityTypeOK
    /\ ask \in Asks
    /\ pc \in [Requests -> TurnSteps]
    /\ rows \in [Requests -> SUBSET Roles]
    /\ recent \in [Requests -> Seq(MessageSet)]
    /\ filter \in [Requests -> [scoped : BOOLEAN, docs : SUBSET Docs]]
    /\ items \in [Requests -> Seq([doc : Docs, index : Nat, length : Nat])]
    /\ history \in [Requests -> Seq(MessageSet)]
    /\ cites \in [Requests -> Seq([doc : Docs, index : Nat])]
    /\ answer \in [Requests -> Nat]

Init ==
    /\ IdentityInit
    /\ ask \in Asks
    /\ pc = [t \in Requests |-> "attach"]
    /\ rows = [t \in Requests |-> {}]
    /\ recent = [t \in Requests |-> <<>>]
    /\ filter = [t \in Requests |-> NoFilter]
    /\ items = [t \in Requests |-> <<>>]
    /\ history = [t \in Requests |-> <<>>]
    /\ cites = [t \in Requests |-> <<>>]
    /\ answer = [t \in Requests |-> 0]

(***************************************************************************)
(* Helpers.                                                                *)
(***************************************************************************)
At(t, place) == step[t] = "ready" /\ pc[t] = place
SameConversation(t, u) == ask[t].conversation = "old" /\ ask[u].conversation = "old" /\ who[t] = who[u]

\* An exception: the transaction is rolled back, the turn's work is lost.
Fail(t) ==
    /\ Crash(t)
    /\ pc' = [pc EXCEPT ![t] = "attach"]
    /\ rows' = [rows EXCEPT ![t] = {}]
    /\ recent' = [recent EXCEPT ![t] = <<>>]
    /\ filter' = [filter EXCEPT ![t] = NoFilter]
    /\ items' = [items EXCEPT ![t] = <<>>]
    /\ history' = [history EXCEPT ![t] = <<>>]
    /\ cites' = [cites EXCEPT ![t] = <<>>]
    /\ answer' = [answer EXCEPT ![t] = 0]
    /\ UNCHANGED ask

(***************************************************************************)
(* attach_user_message: the conversation is found or made, the question    *)
(* inserted.                                                               *)
(***************************************************************************)
FindsConversation(t) == ask[t].conversation # "old" \/ who[t] = Holder
Chats(t) == ask[t].conversation # "none"

Attach(t) ==
    /\ At(t, "attach")
    /\ IF ~FindsConversation(t) THEN Fail(t)
       ELSE /\ pc' = [pc EXCEPT ![t] = "load"]
            /\ rows' = [rows EXCEPT ![t] = IF Chats(t) THEN {"user"} ELSE {}]
            /\ UNCHANGED <<identityVars, ask, recent, filter, items, history, cites, answer>>

(***************************************************************************)
(* RuntimeContextLoader.load: the most recent messages, and the documents  *)
(* of the request, which must be the organization's.                       *)
(***************************************************************************)
\* The messages a query of t sees.  All messages of one transaction have its
\* start as their time, and the order of equal times is the database's choice.
\* mutation: the question is committed when it is attached, so turns under way are seen
SeenTurnsDirty(t) == {u \in Requests : SameConversation(t, u)} \cup {t}

SeenTurns(t) == {u \in Requests : SameConversation(t, u) /\ (step[u] = "committed" \/ u = t)} \cup {t}
MessagesOf(u, userFirst) ==
    IF rows[u] # Roles THEN SetToSeq(rows[u])
    ELSE IF userFirst THEN <<"user", "assistant">> ELSE <<"assistant", "user">>

Chronological(t, userFirst) ==
    LET turn(n) == {u \in SeenTurns(t) : began[u] = n}
        MessagesAt(n) ==
            IF turn(n) = {} THEN <<>>
            ELSE LET u == CHOOSE v \in turn(n) : TRUE
                     roles == MessagesOf(u, u \in userFirst)
                 IN  [i \in DOMAIN roles |-> Message(u, roles[i])]
        upTo[n \in 0 .. Cardinality(Requests)] ==
            IF n > 0 THEN upTo[n - 1] \o MessagesAt(n)
            ELSE IF ask[t].conversation = "old" THEN Earlier ELSE <<>>
    IN  upTo[Cardinality(Requests)]

LastOf(seq, n) == SubSeq(seq, IF Len(seq) > n THEN Len(seq) - n + 1 ELSE 1, Len(seq))

ListRecent(t) == {LastOf(Chronological(t, userFirst), HistoryLimit) : userFirst \in SUBSET SeenTurns(t)}

FindsDocuments(t) == \A d \in ask[t].docs : OwnerOf[d] = who[t]

Load(t) ==
    /\ At(t, "load")
    /\ IF ~FindsDocuments(t) THEN Fail(t)
       ELSE /\ pc' = [pc EXCEPT ![t] = "plan"]
            /\ \E messages \in ListRecent(t) : recent' = [recent EXCEPT ![t] = messages]
            /\ UNCHANGED <<identityVars, ask, rows, filter, items, history, cites, answer>>

(***************************************************************************)
(* PlanningEngine.plan.  PlannerAgentService.generate_plan asks a model    *)
(* whether to retrieve; the rule decides when there is no key, no answer   *)
(* or none that parses.  The scope is the request's documents either way.  *)
(***************************************************************************)
DetermineRetrieval(t) == ask[t].docs # {}
PlannerAnswers(t) == {TRUE, FALSE}
PlansOf(t) == {DetermineRetrieval(t)} \cup PlannerAnswers(t)

Plan(t) ==
    /\ At(t, "plan")
    /\ \E need \in PlansOf(t) :
          /\ pc' = [pc EXCEPT ![t] = IF need THEN "rewrite" ELSE "insufficient"]
          /\ filter' = [filter EXCEPT ![t] = IF need THEN [scoped |-> TRUE, docs |-> ask[t].docs] ELSE NoFilter]
    /\ UNCHANGED <<identityVars, ask, rows, recent, items, history, cites, answer>>

(***************************************************************************)
(* QueryRewriteAgent.rewrite_query, and the node prepare_query: the query  *)
(* that is searched is the model's, or the message with the end of the     *)
(* earlier turns.  A text of fewer than three or more than two thousand    *)
(* characters is no RetrievalSearchRequest.                                *)
(***************************************************************************)
IsQuery(length) == length \in 3 .. 2000

PriorLength(t) == TotalLength(PriorTurnsBlock(SubSeq(recent[t], 1, Len(recent[t]) - 1), HistoryBudget))
BlendedLength(t) ==
    LET blend == Blend(ask[t].length, PriorLength(t))
    IN  IF blend.prior = 0 THEN blend.latest ELSE blend.latest + 2 + blend.prior

Rewrite(t) ==
    /\ At(t, "rewrite")
    /\ \E valid \in {IsQuery(ask[t].length) /\ IsQuery(length) : length \in Rewritings \cup {BlendedLength(t)}} :
          IF valid
          THEN /\ pc' = [pc EXCEPT ![t] = "search"]
               /\ UNCHANGED <<identityVars, ask, rows, recent, filter, items, history, cites, answer>>
          ELSE Fail(t)

(***************************************************************************)
(* The nodes retrieval, context, citation and prompt, or insufficient.     *)
(***************************************************************************)
Limits == [chunks |-> MaxChunks, context |-> ContextBudget, history |-> HistoryBudget]

Assemble(t, found) ==
    \* the plan wants retrieval just when it has a scope
    LET package == ContextPackage(recent[t], Question(t), found, filter[t].scoped, Limits)
    IN  /\ items' = [items EXCEPT ![t] = package.items]
        /\ cites' = [cites EXCEPT ![t] = package.cites]
        /\ history' = [history EXCEPT ![t] = package.history]

\* RetrievalService.search, by what it promises (Retrieval, SearchIsSound): distinct
\* chunks of the organization's documents in the scope, at most TopK.  Which of them
\* depends on their texts, the query and the documents' statuses at this moment.
InScope(t) ==
    LET scope == DocScope(filter[t], ask[t].docs)
    IN  {c \in Chunks : OwnerOf[c.doc] = who[t] /\ (scope.scoped => c.doc \in scope.docs)}
Findings(t) == {found \in BoundedSeq(InScope(t), TopK) : IsInjective(found)}

RouteAfterRetrieval(found) == IF found = <<>> THEN "insufficient" ELSE "generate"

Retrieve(t) ==
    /\ At(t, "search")
    /\ \E found \in Findings(t) :
          /\ pc' = [pc EXCEPT ![t] = RouteAfterRetrieval(found)]
          /\ IF found = <<>> THEN UNCHANGED <<items, cites, history>> ELSE Assemble(t, found)
    /\ recent' = [recent EXCEPT ![t] = <<>>]
    /\ filter' = [filter EXCEPT ![t] = NoFilter]
    /\ UNCHANGED <<identityVars, ask, rows, answer>>

\* No Pinecone, no embedding, or no answer from either.
RetrieveFails(t) ==
    /\ "search" \in Faults
    /\ At(t, "search")
    /\ Fail(t)

\* The graph ends with the fixed answer; execute then makes a ContextPackage of
\* the graph's raw values, which are of other types, and the exception ends the turn.
AnswerFixed(t) ==
    /\ At(t, "insufficient")
    /\ Fail(t)

(***************************************************************************)
(* The node generation: the models in their order, until one answers.      *)
(***************************************************************************)
Generate(t) ==
    /\ At(t, "generate")
    /\ \E length \in Completions(Models, Responses) : answer' = [answer EXCEPT ![t] = length]
    /\ pc' = [pc EXCEPT ![t] = "store"]
    /\ items' = [items EXCEPT ![t] = <<>>]
    /\ history' = [history EXCEPT ![t] = <<>>]
    /\ UNCHANGED <<identityVars, ask, rows, recent, filter, cites>>

\* mutation: the error is answered, and what was stored before it committed
GenerateFailsCommitted(t) ==
    /\ MayFail(Models, Responses)
    /\ At(t, "generate")
    /\ step' = [step EXCEPT ![t] = "committed"]
    /\ UNCHANGED <<who, member, slug, wrote, began, deliveries, turnVars>>

GenerateFails(t) ==
    /\ MayFail(Models, Responses)
    /\ At(t, "generate")
    /\ Fail(t)

(***************************************************************************)
(* The answer is inserted and the conversation's row updated, which locks  *)
(* it until the transaction ends.                                          *)
(***************************************************************************)
Touching(t) == {u \in Requests \ {t} : SameConversation(t, u) /\ At(u, "commit")}

Store(t) ==
    /\ At(t, "store")
    /\ Chats(t) => Touching(t) = {}
    /\ rows' = [rows EXCEPT ![t] = IF Chats(t) THEN Roles ELSE {}]
    /\ pc' = [pc EXCEPT ![t] = "commit"]
    /\ UNCHANGED <<identityVars, ask, recent, filter, items, history, cites, answer>>

\* The dependency get_db_session commits before the response is sent.
Commit(t) ==
    /\ At(t, "commit")
    /\ step' = [step EXCEPT ![t] = "committed"]
    /\ UNCHANGED <<who, member, slug, wrote, began, deliveries, turnVars>>

(***************************************************************************)
(* The surroundings.                                                       *)
(***************************************************************************)
ConnectionLost(s) ==
    /\ "db" \in Faults
    /\ Open(s)
    /\ IF s \in Requests THEN Fail(s) ELSE Crash(s) /\ UNCHANGED <<turnVars>>

SignInStep(s) == SignIn(s) /\ UNCHANGED <<turnVars>>

Turn(t) == Attach(t) \/ Load(t) \/ Plan(t) \/ Rewrite(t) \/ Retrieve(t) \/ RetrieveFails(t) \/ AnswerFixed(t)
           \/ Generate(t) \/ GenerateFails(t) \/ Store(t) \/ Commit(t)

Progress == (\E s \in Sessions : SignInStep(s)) \/ (\E t \in Requests : Turn(t))

Next == Progress \/ \E s \in Sessions : ConnectionLost(s)

Spec == Init /\ [][Next]_vars

\* Some session that can go on does: every query, call and commit ends, as the
\* database, the vector store and the models are called with timeouts.
FairSpec == Spec /\ WF_vars(Progress)

(***************************************************************************)
(* What holds of a turn between any two steps, by where it is.             *)
(***************************************************************************)
\* A request is past "attach" only while its transaction is open or committed.
TurnByStep ==
    \A t \in Requests :
        /\ pc[t] # "attach" => step[t] \in {"ready", "committed"} /\ FindsConversation(t)
        /\ step[t] = "committed" => pc[t] = "commit"

\* The rows a turn has inserted.
StoredByStep ==
    \A t \in Requests :
        rows[t] = IF pc[t] = "attach" \/ ~Chats(t) THEN {} ELSE IF pc[t] = "commit" THEN Roles ELSE {"user"}

\* The search is scoped to the documents that were selected, and what it finds is theirs.
ScopedToRequest ==
    \A t \in Requests :
        /\ pc[t] \in {"rewrite", "search"} => filter[t] = [scoped |-> TRUE, docs |-> ask[t].docs]
        /\ pc[t] \in {"generate", "store", "commit"} =>
              /\ cites[t] # <<>>
              /\ \A i \in DOMAIN cites[t] : cites[t][i].doc \in ask[t].docs /\ OwnerOf[cites[t][i].doc] = who[t]
        /\ pc[t] \in {"store", "commit"} => answer[t] > 0

\* Nothing is loaded before the question is attached.
LoadedByStep == \A t \in Requests : pc[t] = "attach" => recent[t] = <<>> /\ history[t] = <<>>

\* A committed turn of the same conversation that began later.
Overtaken(t) == \E u \in Requests : SameConversation(t, u) /\ step[u] = "committed" /\ began[u] > began[t]

\* The messages a turn has loaded are of its conversation, each once; its question is
\* the last of them, unless a turn that began later overtook it.
RecentIsPast ==
    \A t \in Requests :
        /\ \A i, j \in DOMAIN recent[t] : i # j => recent[t][i] # recent[t][j] \/ recent[t][i].by = "earlier"
        /\ \A i \in DOMAIN recent[t] :
              LET by == recent[t][i].by
              IN  \/ by = "earlier" /\ ask[t].conversation = "old" /\ who[t] = Holder
                  \/ by \in Requests \ {t} /\ SameConversation(t, by) /\ step[by] = "committed"
                  \/ recent[t][i] = Question(t) /\ (i = Len(recent[t]) \/ Overtaken(t))

(***************************************************************************)
(* Properties.                                                             *)
(***************************************************************************)
Stores(s) == IF Durable(s) THEN wrote[s] ELSE {}

\* What load_or_create_user leaves is whole: however a first request and the
\* webhooks of the same account interleave, the account has at most one user and
\* no organization is left without the user it was made for.
OneUserPerAccount ==
    /\ \A a \in Accounts :
          Cardinality({s \in Sessions : who[s] = a /\ "user" \in Stores(s)}) + (IF a \in Known THEN 1 ELSE 0) <= 1
    /\ \A s \in Sessions : "organization" \in Stores(s) => "user" \in Stores(s)

\* A webhook event that was answered with 200 has done its work, if the role "member" is
\* in the database: Clerk will not send it again, so its account must have a user, although
\* others make or lose that user's rows at the same time.  Without the role the event is
\* answered 200 as well and nothing is done (RoleMissing): the migrations must be complete
\* before the first event.
AckedHasUser ==
    \A w \in Webhooks :
        step[w] = "acked" /\ member =>
            who[w] \in Known \/ \E s \in Sessions : who[s] = who[w] /\ "user" \in Stores(s)

\* An answer has text and rests on sources of its own: it cites something, and only
\* chunks of documents that the request selected and that belong to the user's
\* organization, whatever planner, rewriter, filters and models did on the way.
AnswerIsGrounded ==
    \A t \in Requests :
        At(t, "commit") \/ step[t] = "committed" =>
            /\ answer[t] > 0 /\ cites[t] # <<>>
            /\ \A i \in DOMAIN cites[t] : cites[t][i].doc \in ask[t].docs /\ OwnerOf[cites[t][i].doc] = who[t]

\* The earlier messages in a prompt are messages of the same conversation that are
\* committed, each once, and they fit; the question itself is among them only if a
\* turn that began later overtook this one.
HistoryIsPast ==
    \A t \in Requests :
        /\ \A i, j \in DOMAIN history[t] : i # j => history[t][i] # history[t][j] \/ history[t][i].by = "earlier"
        /\ TotalLength(history[t]) <= HistoryBudget
        /\ \A i \in DOMAIN history[t] :
              LET by == history[t][i].by
              IN  \/ by = "earlier" /\ ask[t].conversation = "old" /\ who[t] = Holder
                  \/ by \in Requests \ {t} /\ SameConversation(t, by) /\ step[by] = "committed"
                  \/ by = t /\ Overtaken(t)

\* The chat implements TurnStore: the transaction of a request makes its question,
\* its answer and the user who asked durable in one step, or none of them.
Reply(t) ==
    IF step[t] = "committed" THEN "answer"
    ELSE IF step[t] \in {"refused", "rejected"} THEN "error" ELSE "none"

Promise == INSTANCE TurnStore WITH
    chats <- {t \in Requests : Chats(t)},
    users <- Known \cup {a \in Accounts : \E s \in Sessions : who[s] = a /\ "user" \in Stores(s)},
    stored <- [t \in Requests |-> IF Durable(t) THEN rows[t] ELSE {}],
    reply <- [t \in Requests |-> Reply(t)]

TurnIsAtomic == Promise!StoreSpec

\* "Execute LLM text generation or emit fixed reply fallback" (chat_rag_nodes.py), and
\* "Fallback early exit response compilation" (workflowOrchestrator.py): a question
\* to which nothing is found is answered with the fixed reply.
NothingFoundIsAnswered ==
    [][\A t \in Requests : At(t, "insufficient") => step'[t] # "refused"]_vars

\* Every request is answered or refused, although first requests of one account, its
\* webhooks and turns of one conversation wait for each other's rows.
EveryRequestEnds == \A t \in Requests : <>(Reply(t) # "none")
=============================================================================
