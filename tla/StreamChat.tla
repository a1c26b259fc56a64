----------------------------- MODULE StreamChat -----------------------------
(***************************************************************************)
(* The streaming chat endpoint: the streams of one user's conversation,    *)
(* the requests that cancel them, and the registry in Redis through which  *)
(* a cancel request reaches a stream that may run in another process.      *)
(*                                                                         *)
(* A stream's step ends where another process can act: at an await of      *)
(* Redis, of the database or of the language model, and at a yield of an   *)
(* event to the client.  The RAG workflow before the first token is one    *)
(* step, Prepare; what it computes is left out.                            *)
(***************************************************************************)
EXTENDS Naturals, FiniteSets

CONSTANTS
    Streams,    \* requests to the streaming endpoint
    Cancels,    \* requests to the cancel endpoint
    NModels,    \* language models configured, in the order they are tried
    None,
    Faults      \* which faults of the surroundings can happen

\* "ttl": the registry's time to live is shorter than a stream
FaultKinds == {"redis", "db", "disconnect", "ttl"}

ASSUME StreamsAssumption == None \notin Streams /\ IsFiniteSet(Streams)
ASSUME ModelsAssumption == NModels \in Nat
ASSUME FaultsAssumption == Faults \subseteq FaultKinds

VARIABLES
    target,     \* the conversation each request names: never changes
    pc,         \* each stream's next step
    phase,      \* what the stream's client has seen
    voice,      \* the models whose text the client has seen
    model,      \* the model the router is at, and whether it has yielded text
    late,       \* is chat_stream_max_duration_seconds over?
    tx,         \* messages in the open transaction of the stream's session
    stored,     \* messages committed
    reg,        \* the registry's hash of each generation
    cpc,        \* each cancel request's next step
    scan,       \* each cancel request's iteration over the registry
    overdue     \* tokens sent while the stream's hash said cancelled

streamVars == <<pc, phase, voice, model, late, tx, stored, overdue>>
cancelVars == <<cpc, scan>>
vars == <<target, streamVars, reg, cancelVars>>

Models == 1 .. NModels

\* "new": no conversation_id in the request, so the stream creates one
Targets == {"existing", "new", "missing"}
Roles == {"user", "assistant"}
StreamSteps == {"start", "attach", "register", "expire", "prepare", "stream", "check",
                "emit", "final", "store", "cite", "done", "drop", "closed"}
Hash == [key: BOOLEAN, cancelled: BOOLEAN, ttl: BOOLEAN]
NoHash == [key |-> FALSE, cancelled |-> FALSE, ttl |-> FALSE]
Scan == [owed: SUBSET Streams, batch: SUBSET Streams, visited: SUBSET Streams,
         key: Streams \cup {None}]

OverdueBound == 2   \* bound: the ghost counter saturates here

TypeOK ==
    /\ target \in [Streams -> Targets]
    /\ pc \in [Streams -> StreamSteps]
    /\ phase \in [Streams -> {"waiting", "open", "cited", "refused", "done", "error",
                              "cancelled", "lost"}]
    /\ voice \in [Streams -> SUBSET Models]
    /\ model \in [Streams -> [at: 1 .. NModels + 1, yielded: BOOLEAN]]
    /\ late \in [Streams -> BOOLEAN]
    /\ tx \in [Streams -> SUBSET Roles]
    /\ stored \in [Streams -> SUBSET Roles]
    /\ reg \in [Streams -> Hash]
    /\ cpc \in [Cancels -> {"idle", "scan", "expire", "returned", "failed"}]
    /\ scan \in [Cancels -> Scan]
    /\ overdue \in [Streams -> 0 .. OverdueBound]

Init ==
    /\ target \in [Streams -> Targets]
    /\ pc = [s \in Streams |-> "start"]
    /\ phase = [s \in Streams |-> "waiting"]
    /\ voice = [s \in Streams |-> {}]
    /\ model = [s \in Streams |-> [at |-> 1, yielded |-> FALSE]]
    /\ late = [s \in Streams |-> FALSE]
    /\ tx = [s \in Streams |-> {}]
    /\ stored = [s \in Streams |-> {}]
    /\ reg = [s \in Streams |-> NoHash]
    /\ cpc = [c \in Cancels |-> "idle"]
    /\ scan = [c \in Cancels |-> [owed |-> {}, batch |-> {}, visited |-> {}, key |-> None]]
    /\ overdue = [s \in Streams |-> 0]

(***************************************************************************)
(* Helpers.                                                                *)
(***************************************************************************)
\* nothing commits the session a stream reopened: it is rolled back when collected
Discard(s) == tx' = [tx EXCEPT ![s] = {}]

Goto(s, step) == pc' = [pc EXCEPT ![s] = step]
Send(s, event) == phase' = [phase EXCEPT ![s] = event]

\* DEL, or the key's time to live is over; a scan need not return the key any more
DeleteKey(s) ==
    /\ reg' = [reg EXCEPT ![s] = NoHash]
    /\ scan' = [c \in Cancels |-> [scan[c] EXCEPT !.owed = @ \ {s}]]

\* the prefix of the keys names the conversation
Present == {s \in Streams : reg[s].key /\ target[s] = "existing"}

(***************************************************************************)
(* The request up to its response.  Its session commits and closes when    *)
(* the handler returns, before the body is produced.                       *)
(***************************************************************************)
Refuse(s) ==
    /\ pc[s] = "start"
    /\ Goto(s, "closed") /\ Send(s, "refused")
    /\ UNCHANGED <<target, voice, model, late, tx, stored, overdue, reg, cancelVars>>

Respond(s) ==
    /\ pc[s] = "start"
    /\ Goto(s, "attach") /\ Send(s, "open")
    /\ stored' = [stored EXCEPT ![s] = @ \cup tx[s]]
    /\ tx' = [tx EXCEPT ![s] = {}]
    /\ UNCHANGED <<target, voice, model, late, overdue, reg, cancelVars>>

(***************************************************************************)
(* iter_chat_sse up to the first token.                                    *)
(***************************************************************************)
Attach(s) ==
    /\ pc[s] = "attach" /\ target[s] # "missing"
    /\ tx' = [tx EXCEPT ![s] = @ \cup {"user"}]
    /\ Goto(s, "register")
    /\ UNCHANGED <<target, phase, voice, model, late, stored, overdue, reg, cancelVars>>

\* nothing is registered yet and nothing dropped
AttachFails(s) ==
    /\ pc[s] = "attach" /\ (target[s] = "missing" \/ "db" \in Faults)
    /\ Goto(s, "closed") /\ Send(s, "error")
    /\ Discard(s)
    /\ UNCHANGED <<target, voice, model, late, stored, overdue, reg, cancelVars>>

Register(s) ==
    /\ pc[s] = "register"
    /\ reg' = [reg EXCEPT ![s] = [key |-> TRUE, cancelled |-> FALSE, ttl |-> @.ttl]]
    /\ Goto(s, "expire")
    /\ UNCHANGED <<target, phase, voice, model, late, tx, stored, overdue, cancelVars>>

SetExpiry(s) ==
    /\ pc[s] = "expire"
    /\ reg' = [reg EXCEPT ![s].ttl = @ \/ reg[s].key]
    /\ Goto(s, "prepare")
    /\ UNCHANGED <<target, phase, voice, model, late, tx, stored, overdue, cancelVars>>

\* register is called outside the try: no event, and the hash stays
RegisterFails(s) ==
    /\ "redis" \in Faults
    /\ pc[s] \in {"register", "expire"}
    /\ Goto(s, "closed") /\ Send(s, "lost")
    /\ Discard(s)
    /\ UNCHANGED <<target, voice, model, late, stored, overdue, reg, cancelVars>>

Prepare(s) ==
    /\ pc[s] = "prepare"
    /\ Goto(s, "stream")
    /\ UNCHANGED <<target, phase, voice, model, late, tx, stored, overdue, reg, cancelVars>>

\* an error of the workflow; or retrieval found nothing, and the fixed reply is
\* put into a ContextPackage whose fields have other types: ValidationError
PrepareFails(s) ==
    /\ pc[s] = "prepare"
    /\ Goto(s, "drop") /\ Send(s, "error")
    /\ UNCHANGED <<target, voice, model, late, tx, stored, overdue, reg, cancelVars>>

(***************************************************************************)
(* stream_chat_with_fallback: the models in order, until one yields.       *)
(***************************************************************************)
NextToken(s) ==
    /\ pc[s] = "stream" /\ model[s].at \in Models
    /\ model' = [model EXCEPT ![s].yielded = TRUE]
    /\ Goto(s, "check")
    /\ UNCHANGED <<target, phase, voice, late, tx, stored, overdue, reg, cancelVars>>

AnswerEnds(s) ==
    /\ pc[s] = "stream" /\ model[s].at \in Models
    /\ Goto(s, "final")
    /\ UNCHANGED <<target, phase, voice, model, late, tx, stored, overdue, reg, cancelVars>>

\* mutation: the next model is tried whatever has been sent
FallbackAlways(s) ==
    /\ pc[s] = "stream" /\ model[s].at \in Models
    /\ model' = [model EXCEPT ![s].at = @ + 1]
    /\ UNCHANGED <<target, pc, phase, voice, late, tx, stored, overdue, reg, cancelVars>>

\* mutation: the loop over the models has no end
ModelFailsPastEnd(s) ==
    /\ pc[s] = "stream" /\ ~model[s].yielded
    /\ model' = [model EXCEPT ![s].at = @ + 1]
    /\ UNCHANGED <<target, pc, phase, voice, late, tx, stored, overdue, reg, cancelVars>>

ModelFails(s) ==
    /\ pc[s] = "stream" /\ model[s].at \in Models /\ ~model[s].yielded
    /\ model' = [model EXCEPT ![s].at = @ + 1]
    /\ UNCHANGED <<target, pc, phase, voice, late, tx, stored, overdue, reg, cancelVars>>

\* no model is left, or none is configured, or this one failed after its first token
StreamFails(s) ==
    /\ pc[s] = "stream" /\ (model[s].at \in Models => model[s].yielded)
    /\ Goto(s, "drop") /\ Send(s, "error")
    /\ UNCHANGED <<target, voice, model, late, tx, stored, overdue, reg, cancelVars>>

(***************************************************************************)
(* The loop over the chunks: cancelled?, then too late?, then send.        *)
(***************************************************************************)
\* mutation: the cancelled flag is looked at after the last token only
CheckDeadlineOnly(s) ==
    /\ pc[s] = "check"
    /\ IF late[s] THEN Goto(s, "drop") /\ Send(s, "error")
       ELSE Goto(s, "emit") /\ UNCHANGED phase
    /\ UNCHANGED <<target, voice, model, late, tx, stored, overdue, reg, cancelVars>>

\* mutation: no deadline
CheckCancelledOnly(s) ==
    /\ pc[s] = "check"
    /\ IF reg[s].cancelled THEN Goto(s, "drop") /\ Send(s, "cancelled")
       ELSE Goto(s, "emit") /\ UNCHANGED phase
    /\ UNCHANGED <<target, voice, model, late, tx, stored, overdue, reg, cancelVars>>

CheckToken(s) ==
    /\ pc[s] = "check"
    /\ CASE reg[s].cancelled -> Goto(s, "drop") /\ Send(s, "cancelled")
         [] ~reg[s].cancelled /\ late[s] -> Goto(s, "drop") /\ Send(s, "error")
         [] OTHER -> Goto(s, "emit") /\ UNCHANGED phase
    /\ UNCHANGED <<target, voice, model, late, tx, stored, overdue, reg, cancelVars>>

EmitToken(s) ==
    /\ pc[s] = "emit"
    /\ voice' = [voice EXCEPT ![s] = @ \cup {model[s].at}]
    /\ overdue' = [overdue EXCEPT ![s] =
                      IF reg[s].cancelled /\ @ < OverdueBound THEN @ + 1 ELSE @]
    /\ Goto(s, "stream")
    /\ UNCHANGED <<target, phase, model, late, tx, stored, reg, cancelVars>>

\* mutation: no look at the flag after the last token
SkipFinalCheck(s) ==
    /\ pc[s] = "final"
    /\ Goto(s, "store") /\ UNCHANGED phase
    /\ UNCHANGED <<target, voice, model, late, tx, stored, overdue, reg, cancelVars>>

FinalCheck(s) ==
    /\ pc[s] = "final"
    /\ IF reg[s].cancelled THEN Goto(s, "drop") /\ Send(s, "cancelled")
       ELSE Goto(s, "store") /\ UNCHANGED phase
    /\ UNCHANGED <<target, voice, model, late, tx, stored, overdue, reg, cancelVars>>

\* hget raises; both looks at the flag are inside a try that sends an error
CheckFails(s) ==
    /\ "redis" \in Faults
    /\ pc[s] \in {"check", "final"}
    /\ Goto(s, "drop") /\ Send(s, "error")
    /\ UNCHANGED <<target, voice, model, late, tx, stored, overdue, reg, cancelVars>>

\* only the loop reads the clock
DeadlinePasses(s) ==
    /\ ~late[s] /\ pc[s] \in {"stream", "check", "emit"}
    /\ late' = [late EXCEPT ![s] = TRUE]
    /\ UNCHANGED <<target, pc, phase, voice, model, tx, stored, overdue, reg, cancelVars>>

(***************************************************************************)
(* After the last token: the assistant's message, citations, done.         *)
(***************************************************************************)
StoreAnswer(s) ==
    /\ pc[s] = "store" /\ voice[s] # {}
    /\ tx' = [tx EXCEPT ![s] = @ \cup {"assistant"}]
    /\ Goto(s, "cite")
    /\ UNCHANGED <<target, phase, voice, model, late, stored, overdue, reg, cancelVars>>

\* an empty text is refused by AddMessageRequest
StoreFails(s) ==
    /\ pc[s] = "store" /\ (voice[s] = {} \/ "db" \in Faults)
    /\ Goto(s, "drop") /\ Send(s, "error")
    /\ UNCHANGED <<target, voice, model, late, tx, stored, overdue, reg, cancelVars>>

EmitCitations(s) ==
    /\ pc[s] = "cite"
    /\ Goto(s, "done") /\ Send(s, "cited")
    /\ UNCHANGED <<target, voice, model, late, tx, stored, overdue, reg, cancelVars>>

EmitDone(s) ==
    /\ pc[s] = "done"
    /\ Goto(s, "drop") /\ Send(s, "done")
    /\ UNCHANGED <<target, voice, model, late, tx, stored, overdue, reg, cancelVars>>

\* the finally block
Drop(s) ==
    /\ pc[s] = "drop"
    /\ Goto(s, "closed") /\ DeleteKey(s) /\ Discard(s)
    /\ UNCHANGED <<target, phase, voice, model, late, stored, overdue, cpc>>

DropFails(s) ==
    /\ "redis" \in Faults
    /\ pc[s] = "drop"
    /\ Goto(s, "closed") /\ Discard(s)
    /\ UNCHANGED <<target, phase, voice, model, late, stored, overdue, reg, cancelVars>>

\* the client goes away: the server cancels the generator at its await, and in the
\* finally block, which register precedes, the await of DEL may be cancelled as well
Disconnect(s) ==
    /\ "disconnect" \in Faults
    /\ pc[s] \notin {"start", "closed"}
    /\ Goto(s, "closed") /\ Discard(s)
    /\ IF phase[s] \in {"open", "cited"} THEN Send(s, "lost") ELSE UNCHANGED phase
    /\ \/ pc[s] \notin {"attach", "register", "expire"} /\ DeleteKey(s)
       \/ UNCHANGED <<reg, scan>>
    /\ UNCHANGED <<target, voice, model, late, stored, overdue, cpc>>

KeyExpires(s) ==
    /\ reg[s].key /\ reg[s].ttl
    /\ pc[s] = "closed" \/ "ttl" \in Faults
    /\ DeleteKey(s)
    /\ UNCHANGED <<target, streamVars, cpc>>

(***************************************************************************)
(* cancel_all_for_conversation.  SCAN returns keys in batches; it returns  *)
(* every key that exists from its start to its end, and a key of a batch   *)
(* may be gone when its turn comes: HSET then creates it again.            *)
(***************************************************************************)
CancelRejected(c) ==
    /\ cpc[c] = "idle"
    /\ cpc' = [cpc EXCEPT ![c] = "failed"]
    /\ UNCHANGED <<target, streamVars, reg, scan>>

CancelStart(c) ==
    /\ cpc[c] = "idle"
    /\ cpc' = [cpc EXCEPT ![c] = "scan"]
    /\ scan' = [scan EXCEPT ![c].owed = Present]
    /\ UNCHANGED <<target, streamVars, reg>>

ScanBatch(c) ==
    /\ cpc[c] = "scan" /\ scan[c].batch = {}
    /\ \E batch \in (SUBSET (Present \ scan[c].visited)) \ {{}} :
         scan' = [scan EXCEPT ![c].batch = batch]
    /\ UNCHANGED <<target, streamVars, reg, cpc>>

\* mutation: the time to live is not renewed, so a key created again has none
MarkOnly(c) ==
    /\ cpc[c] = "scan"
    /\ \E s \in scan[c].batch :
         /\ reg' = [reg EXCEPT ![s].key = TRUE, ![s].cancelled = TRUE]
         /\ scan' = [scan EXCEPT ![c].batch = @ \ {s}, ![c].visited = @ \cup {s}]
    /\ UNCHANGED <<target, streamVars, cpc>>

MarkKey(c) ==
    /\ cpc[c] = "scan"
    /\ \E s \in scan[c].batch :
         /\ reg' = [reg EXCEPT ![s].key = TRUE, ![s].cancelled = TRUE]
         /\ scan' = [scan EXCEPT ![c].batch = @ \ {s}, ![c].visited = @ \cup {s},
                                 ![c].key = s]
    /\ cpc' = [cpc EXCEPT ![c] = "expire"]
    /\ UNCHANGED <<target, streamVars>>

RenewKey(c) ==
    /\ cpc[c] = "expire"
    /\ reg' = [reg EXCEPT ![scan[c].key].ttl = reg[scan[c].key].key]
    /\ cpc' = [cpc EXCEPT ![c] = "scan"]
    /\ UNCHANGED <<target, streamVars, scan>>

\* mutation: one batch is taken for the whole iteration
ReturnAfterBatch(c) ==
    /\ cpc[c] = "scan" /\ scan[c].batch = {}
    /\ cpc' = [cpc EXCEPT ![c] = "returned"]
    /\ UNCHANGED <<target, streamVars, reg, scan>>

CancelReturn(c) ==
    /\ cpc[c] = "scan" /\ scan[c].batch = {} /\ scan[c].owed \subseteq scan[c].visited
    /\ cpc' = [cpc EXCEPT ![c] = "returned"]
    /\ UNCHANGED <<target, streamVars, reg, scan>>

CancelFails(c) ==
    /\ "redis" \in Faults
    /\ cpc[c] \in {"scan", "expire"}
    /\ cpc' = [cpc EXCEPT ![c] = "failed"]
    /\ UNCHANGED <<target, streamVars, reg, scan>>

(***************************************************************************)
Stream(s) ==
    \/ Refuse(s) \/ Respond(s) \/ Attach(s) \/ AttachFails(s)
    \/ Register(s) \/ SetExpiry(s) \/ RegisterFails(s) \/ Prepare(s) \/ PrepareFails(s)
    \/ NextToken(s) \/ AnswerEnds(s) \/ ModelFails(s) \/ StreamFails(s)
    \/ CheckToken(s) \/ EmitToken(s) \/ FinalCheck(s) \/ CheckFails(s)
    \/ StoreAnswer(s) \/ StoreFails(s) \/ EmitCitations(s) \/ EmitDone(s)
    \/ Drop(s) \/ DropFails(s)

Cancel(c) ==
    \/ CancelRejected(c) \/ CancelStart(c) \/ ScanBatch(c) \/ MarkKey(c) \/ RenewKey(c)
    \/ CancelReturn(c) \/ CancelFails(c)

Next ==
    \/ \E s \in Streams : Stream(s) \/ DeadlinePasses(s) \/ Disconnect(s) \/ KeyExpires(s)
    \/ \E c \in Cancels : Cancel(c)

Spec == Init /\ [][Next]_vars

\* calls return or time out, the clock advances, Redis removes what has expired
FairSpec ==
    /\ Spec
    /\ \A s \in Streams : WF_vars(Stream(s)) /\ WF_vars(DeadlinePasses(s))
                           /\ WF_vars(KeyExpires(s))
    /\ \A c \in Cancels : WF_vars(Cancel(c))

(***************************************************************************)
(* Properties.                                                             *)
(***************************************************************************)
KeysOutliveStreams == "ttl" \notin Faults

\* What the client of each stream sees is what ChatProtocol promises: one model's
\* tokens, one final event, citations before done, no empty answer.
Protocol == INSTANCE ChatProtocol
ClientProtocol == Protocol!Spec

\* A stream sends at most one token after its generation was marked as cancelled:
\* the one whose look at the flag came before the mark.
PromptCancel == KeysOutliveStreams => \A s \in Streams : overdue[s] <= 1

\* A stream whose hash says cancelled before its last look at it never announces an
\* answer: whatever else happens, its client gets neither citations nor done.
LastLookAhead(s) == pc[s] \in {"expire", "prepare", "stream", "check", "emit", "final"}
Answered(s) == phase[s] \in {"cited", "done"}
CancelIsHeeded ==
    \A s \in Streams :
        [](KeysOutliveStreams /\ reg[s].cancelled /\ LastLookAhead(s) => [](~Answered(s)))

\* A cancel request that returns has marked every generation that was registered when
\* it started and still is.
CancelReachesAll ==
    \A c \in Cancels : cpc[c] = "returned" => \A s \in scan[c].owed : reg[s].cancelled

\* The registry forgets a stream that ended: a cancel request that comes too late may
\* create its hash again, but with a time to live that Redis ends.
RegistryForgets == \A s \in Streams : pc[s] = "closed" ~> [](~reg[s].key)

\* Every stream ends, even when the model never stops: the deadline ends it.
EveryStreamEnds == \A s \in Streams : pc[s] = "attach" ~> pc[s] = "closed"

\* A stream that told its client done has stored the question and the answer.
DoneIsStored == \A s \in Streams : phase[s] = "done" /\ pc[s] = "closed" => stored[s] = Roles

(***************************************************************************)
(* Inductive invariants behind the safety properties.                      *)
(***************************************************************************)
OpenSteps == StreamSteps \ {"start", "done", "drop", "closed"}
BeforeKey == {"start", "attach", "register"}

\* the stream's next step tells what its client has seen
PhaseInv ==
    \A s \in Streams :
        /\ pc[s] = "start" <=> phase[s] = "waiting"
        /\ pc[s] \in OpenSteps <=> phase[s] = "open"
        /\ pc[s] = "done" <=> phase[s] = "cited"

\* the client has heard at most the router's present model, and that one has yielded
VoiceInv ==
    \A s \in Streams :
        /\ voice[s] \subseteq {model[s].at}
        /\ voice[s] # {} => model[s].yielded
        /\ pc[s] \in {"check", "emit"} => model[s].yielded /\ model[s].at \in Models
        /\ pc[s] = "cite" => voice[s] # {}

\* a stream that owes its end to a mark has it ahead
OverdueInv ==
    KeysOutliveStreams =>
        \A s \in Streams :
            /\ overdue[s] <= 1
            /\ overdue[s] = 1 => /\ pc[s] \in {"stream", "check", "final", "drop", "closed"}
                                 /\ pc[s] \in {"stream", "check", "final"} => reg[s].cancelled

\* a key exists only after register, and what a scan still owes has kept its key
ScanInv ==
    /\ \A s \in Streams : pc[s] \in BeforeKey => ~reg[s].key
    /\ \A c \in Cancels :
         /\ cpc[c] = "idle" => scan[c].visited = {}
         /\ \A s \in scan[c].batch : pc[s] \notin BeforeKey
         /\ \A s \in scan[c].owed : reg[s].key
         /\ \A s \in scan[c].owed \cap scan[c].visited : reg[s].cancelled
         /\ cpc[c] = "returned" => scan[c].owed \subseteq scan[c].visited
=============================================================================
