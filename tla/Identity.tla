------------------------------- MODULE Identity -------------------------------
(***************************************************************************)
(* Users and organizations.  A Clerk account gets its organization, its    *)
(* user row and the role "member" from whatever comes first: an API        *)
(* request that carries its token, or the webhook Clerk sends when the     *)
(* account is made.  Both call load_or_create_user in a transaction of     *)
(* their own: the webhook's ends at once, a request's is the transaction   *)
(* of the whole request.                                                   *)
(*                                                                         *)
(* PostgreSQL runs with READ COMMITTED: a query sees the rows of committed *)
(* transactions and of its own; an insert whose unique key an open         *)
(* transaction has written waits for that transaction to end, and fails if *)
(* it is committed.                                                        *)
(***************************************************************************)
EXTENDS Naturals, FiniteSets

CONSTANTS
    Requests,       \* API requests
    Webhooks,       \* webhook events; Clerk sends one again that got no 200
    Accounts,       \* Clerk accounts
    Known,          \* those that had a user before
    MaxDeliveries   \* bound: deliveries of one webhook event

ASSUME RequestsAssumption == IsFiniteSet(Requests) /\ Requests \cap Webhooks = {}
ASSUME KnownAssumption == Known \subseteq Accounts
ASSUME DeliveriesAssumption == MaxDeliveries \in Nat

Sessions == Requests \cup Webhooks

VARIABLES
    who,        \* the account of each session: never changes
    member,     \* whether a migration has inserted the role "member": never changes
    step,       \* where each session is
    slug,       \* the slug it has chosen for the organization
    wrote,      \* the rows its transaction has inserted
    began,      \* when a request's transaction began: now() in all of its statements
    deliveries  \* how often each webhook event was sent

identityVars == <<who, member, step, slug, wrote, began, deliveries>>

\* "base": the account's email up to the @, or its id, normalized.  "own": that
\* and a random suffix, which no other session draws.
Slugs == {"none", "base", "own"}
Rows == {"organization", "user"}
\* "rejected": 401 or 400.  "ignored": 200 for an event that makes no user.
\* "acked": 200 for one that should.  "failed": no 200, so Clerk sends it again.
Steps == {"start", "lookup", "slug", "organization", "user", "ready",
          "committed", "refused", "rejected", "ignored", "acked", "failed"}

IdentityTypeOK ==
    /\ who \in [Sessions -> Accounts]
    /\ member \in BOOLEAN
    /\ step \in [Sessions -> Steps]
    /\ slug \in [Sessions -> Slugs]
    /\ wrote \in [Sessions -> SUBSET Rows]
    /\ began \in [Requests -> 0 .. Cardinality(Requests)]
    /\ deliveries \in [Webhooks -> 0 .. MaxDeliveries]

IdentityInit ==
    /\ who \in [Sessions -> Accounts]
    /\ member \in BOOLEAN
    /\ step = [s \in Sessions |-> "start"]
    /\ slug = [s \in Sessions |-> "none"]
    /\ wrote = [s \in Sessions |-> {}]
    /\ began = [s \in Requests |-> 0]
    /\ deliveries = [w \in Webhooks |-> 0]

(***************************************************************************)
(* What a session sees and what it waits for.  The accounts that are new   *)
(* have the same slug base: only then do their organizations meet.         *)
(***************************************************************************)
Open(s) == step[s] \in {"lookup", "slug", "organization", "user", "ready"}
Durable(s) == step[s] \in {"committed", "acked"}
Visible(s, r) == Durable(r) \/ r = s

HasUser(s, a) == a \in Known \/ \E r \in Sessions : Visible(s, r) /\ who[r] = a /\ "user" \in wrote[r]
SlugTaken(s) == \E r \in Sessions : Visible(s, r) /\ slug[r] = "base" /\ "organization" \in wrote[r]

\* The sessions whose rows have the unique key that s is about to insert.
SameSlug(s) == {r \in Sessions \ {s} : slug[s] = "base" /\ slug[r] = "base" /\ "organization" \in wrote[r]}
\* mutation: clerk_user_id is not unique
SameUserUnchecked(s) == {}

SameUser(s) == {r \in Sessions \ {s} : who[r] = who[s] /\ "user" \in wrote[r]}
\* mutation: a session's commit does not end the transaction that holds its rows' keys
WaitsForAll(holders) == holders # {}

Waits(holders) == \E r \in holders : Open(r)
Conflict(holders) == \E r \in holders : Durable(r)

Clock == Cardinality({s \in Requests : began[s] > 0})

\* The transaction of s is rolled back; the client sees `outcome`.
Abort(s, outcome) ==
    /\ step' = [step EXCEPT ![s] = outcome]
    /\ wrote' = [wrote EXCEPT ![s] = {}]
    /\ slug' = [slug EXCEPT ![s] = "none"]
    /\ UNCHANGED <<who, member, began, deliveries>>

\* mutation: a webhook that failed is acknowledged
CrashAcknowledged(s) == Abort(s, IF s \in Requests THEN "refused" ELSE "acked")

\* An exception other than BaseApplicationException ends s.
Crash(s) == Abort(s, IF s \in Requests THEN "refused" ELSE "failed")

\* A BaseApplicationException ends s: the webhook logs it and answers 200 all the same.
ApplicationError(s) == Abort(s, IF s \in Requests THEN "refused" ELSE "acked")

(***************************************************************************)
(* Requests: a bearer token, its signature, issuer and expiry.             *)
(***************************************************************************)
Settings == [test : BOOLEAN, issuer : BOOLEAN]
Tokens == [header : BOOLEAN, key : {"test", "issuer", "other"}, expired : BOOLEAN, subject : BOOLEAN]

VerifyBearerToken(settings, token) ==
    /\ token.key = IF settings.test THEN "test" ELSE "issuer"
    /\ settings.test \/ settings.issuer
    /\ ~token.expired
    /\ token.subject

Authenticate(s) ==
    /\ s \in Requests
    /\ step[s] = "start"
    /\ \E accepted \in {token.header /\ VerifyBearerToken(settings, token) : settings \in Settings, token \in Tokens} :
          step' = [step EXCEPT ![s] = IF accepted THEN "lookup" ELSE "rejected"]
    /\ UNCHANGED <<who, member, slug, wrote, began, deliveries>>

(***************************************************************************)
(* Webhooks: the signature over id, time and body, the five minutes a      *)
(* delivery is good for, and the events that concern users.                *)
(***************************************************************************)
Tolerance == 300
Events == [headers : BOOLEAN, age : {0, Tolerance, Tolerance + 1}, signed : BOOLEAN, json : BOOLEAN,
           type : {"user.created", "user.updated", "other"}, id : BOOLEAN]
SupportedEvents == {"user.created", "user.updated"}

VerifyClerkWebhook(event) ==
    event.headers /\ event.age <= Tolerance /\ event.signed /\ event.json

\* 503 as long as the signing key is not configured
Outcome(keyed, event) ==
    IF ~keyed THEN "failed"
    ELSE IF ~VerifyClerkWebhook(event) THEN "rejected"
    ELSE IF event.type \in SupportedEvents /\ event.id THEN "lookup" ELSE "ignored"

Receive(w) ==
    /\ w \in Webhooks
    /\ step[w] \in {"start", "failed", "rejected"}
    /\ deliveries[w] < MaxDeliveries
    /\ deliveries' = [deliveries EXCEPT ![w] = @ + 1]
    /\ \E outcome \in {Outcome(keyed, event) : keyed \in BOOLEAN, event \in Events} : step' = [step EXCEPT ![w] = outcome]
    /\ UNCHANGED <<who, member, slug, wrote, began>>

(***************************************************************************)
(* load_or_create_user: one action per await of the database that another  *)
(* session can come between.                                               *)
(***************************************************************************)
Lookup(s) ==
    /\ step[s] = "lookup"
    /\ HasUser(s, who[s]) \/ member
    /\ began' = IF s \in Requests THEN [began EXCEPT ![s] = Clock + 1] ELSE began
    /\ step' = [step EXCEPT ![s] = IF HasUser(s, who[s]) THEN "ready" ELSE "slug"]
    /\ UNCHANGED <<who, member, slug, wrote, deliveries>>

\* "Default member role is missing; run migrations."
RoleMissing(s) ==
    /\ step[s] = "lookup"
    /\ ~HasUser(s, who[s]) /\ ~member
    /\ ApplicationError(s)

ReserveUniqueSlug(s) ==
    /\ step[s] = "slug"
    /\ slug' = [slug EXCEPT ![s] = IF SlugTaken(s) THEN "own" ELSE "base"]
    /\ step' = [step EXCEPT ![s] = "organization"]
    /\ UNCHANGED <<who, member, wrote, began, deliveries>>

AddOrganization(s) ==
    /\ step[s] = "organization"
    /\ ~Waits(SameSlug(s))
    /\ IF Conflict(SameSlug(s)) THEN Crash(s)
       ELSE /\ wrote' = [wrote EXCEPT ![s] = @ \cup {"organization"}]
            /\ step' = [step EXCEPT ![s] = "user"]
            /\ UNCHANGED <<who, member, slug, began, deliveries>>

\* The user's row, its role, and the user read again with both.
AddUser(s) ==
    /\ step[s] = "user"
    /\ ~Waits(SameUser(s))
    /\ IF Conflict(SameUser(s)) THEN Crash(s)
       ELSE /\ wrote' = [wrote EXCEPT ![s] = @ \cup {"user"}]
            /\ step' = [step EXCEPT ![s] = "ready"]
            /\ UNCHANGED <<who, member, slug, began, deliveries>>

Acknowledge(w) ==
    /\ w \in Webhooks
    /\ step[w] = "ready"
    /\ step' = [step EXCEPT ![w] = "acked"]
    /\ UNCHANGED <<who, member, slug, wrote, began, deliveries>>

SignIn(s) == Authenticate(s) \/ Receive(s) \/ Lookup(s) \/ RoleMissing(s) \/ ReserveUniqueSlug(s)
             \/ AddOrganization(s) \/ AddUser(s) \/ Acknowledge(s)

(***************************************************************************)
(* What holds of the sessions between any two steps.                       *)
(***************************************************************************)
\* A session that is past the user's row has inserted both rows or none.
RowsByStep ==
    \A s \in Sessions :
        /\ ~Open(s) /\ ~Durable(s) => wrote[s] = {}
        /\ step[s] \in {"lookup", "slug", "organization"} => wrote[s] = {}
        /\ step[s] = "user" => wrote[s] = {"organization"}
        /\ step[s] \in {"ready", "committed", "acked"} => wrote[s] \in {{}, Rows}

\* Rows are made for accounts that had no user, and for one session of each.
MadeOnce ==
    /\ \A s \in Sessions :
          step[s] \in {"slug", "organization", "user"} \/ wrote[s] # {} => who[s] \notin Known
    /\ \A r, s \in Sessions :
          who[r] = who[s] /\ "user" \in wrote[r] /\ "user" \in wrote[s] => r = s

\* Whoever got past the sign-in has a user that no rollback but its own removes; so has
\* the account of an acknowledged event, if the role was there.
SignedIn ==
    \A s \in Sessions :
        step[s] \in {"ready", "committed"} \/ (step[s] = "acked" /\ member) => HasUser(s, who[s])

\* Only a request commits what it did in its own time, only a webhook is acknowledged.
EndsByKind ==
    /\ \A t \in Requests : step[t] # "acked"
    /\ \A w \in Webhooks : step[w] # "committed"

\* No two transactions of requests begin at the same time.
BeginsInOrder ==
    /\ \A t \in Requests :
          /\ step[t] \in {"start", "lookup"} => began[t] = 0
          /\ (Open(t) /\ step[t] # "lookup") \/ Durable(t) => began[t] > 0
          /\ began[t] <= Clock
    /\ \A t, u \in Requests : began[t] = began[u] /\ began[t] > 0 => t = u

IdentityInv == RowsByStep /\ MadeOnce /\ SignedIn /\ EndsByKind /\ BeginsInOrder
=============================================================================
