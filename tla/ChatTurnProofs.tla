--------------------------- MODULE ChatTurnProofs ----------------------------
(***************************************************************************)
(* Theorems about module ChatTurn and the sign-in it composes (Identity),  *)
(* for every set of requests, webhooks, accounts, documents and messages,  *)
(* and for all settings.  First what the transactions store (StoreInv),    *)
(* then what the answers are made from (TurnInv).                          *)
(***************************************************************************)
EXTENDS ChatTurn, SequenceTheorems, FiniteSetTheorems, TLAPS

(***************************************************************************)
(* The sign-in.  Identity has no next-state relation of its own: a step of *)
(* it is one of its actions, a crash of an open session, or a commit.      *)
(***************************************************************************)
Commits(s) ==
    /\ s \in Requests /\ step[s] = "ready"
    /\ step' = [step EXCEPT ![s] = "committed"]
    /\ UNCHANGED <<who, member, slug, wrote, began, deliveries>>

IdentityStep(s) == SignIn(s) \/ (Open(s) /\ Crash(s)) \/ Commits(s)

LEMMA RequestsFinite == IsFiniteSet(Requests) /\ Cardinality(Requests) \in Nat
  BY RequestsAssumption, FS_CardinalityType

\* A session acts only before its end, and on nothing of another.
LEMMA SessionFrame ==
    ASSUME IdentityTypeOK, NEW s \in Sessions, IdentityStep(s)
    PROVE  /\ who' = who /\ member' = member /\ ~Durable(s)
           /\ \A r \in Sessions \ {s} : step'[r] = step[r] /\ wrote'[r] = wrote[r]
           /\ \A t \in Requests \ {s} : began'[t] = began[t]
<1> USE DEF IdentityTypeOK, Durable, Sessions
<1>1. CASE Authenticate(s) \/ Receive(s) \/ ReserveUniqueSlug(s) \/ Acknowledge(s)
      BY <1>1 DEF Authenticate, Receive, ReserveUniqueSlug, Acknowledge
<1>2. CASE Lookup(s) \/ RoleMissing(s)
      BY <1>2 DEF Lookup, RoleMissing, ApplicationError, Abort
<1>3. CASE AddOrganization(s) \/ AddUser(s)
      BY <1>3 DEF AddOrganization, AddUser, Crash, Abort
<1>4. CASE Open(s) /\ Crash(s)
      BY <1>4 DEF Open, Crash, Abort
<1>5. CASE Commits(s)
      BY <1>5 DEF Commits
<1> QED BY <1>1, <1>2, <1>3, <1>4, <1>5 DEF IdentityStep, SignIn

\* What the acting session writes, and where it goes.
LEMMA OwnStep ==
    ASSUME IdentityTypeOK, RowsByStep, NEW s \in Sessions, IdentityStep(s)
    PROVE  \/ /\ step[s] \in {"start", "failed", "rejected"}
              /\ step'[s] \in {"lookup", "rejected", "ignored", "failed"} /\ wrote'[s] = {}
              /\ step'[s] = "lookup" /\ s \in Requests => step[s] = "start"
           \/ Lookup(s) /\ step'[s] \in {"ready", "slug"} /\ wrote'[s] = {}
           \/ /\ step[s] = "lookup" /\ ~member /\ wrote'[s] = {}
              /\ step'[s] = IF s \in Requests THEN "refused" ELSE "acked"
           \/ step[s] = "slug" /\ step'[s] = "organization" /\ wrote'[s] = {}
           \/ step[s] = "organization" /\ step'[s] = "user" /\ wrote'[s] = {"organization"}
           \/ /\ step[s] = "user" /\ step'[s] = "ready" /\ wrote'[s] = Rows
              /\ \A r \in SameUser(s) : ~Open(r) /\ ~Durable(r)
           \/ /\ step[s] = "ready" /\ wrote'[s] = wrote[s]
              /\ step'[s] = IF s \in Requests THEN "committed" ELSE "acked"
           \/ /\ Open(s) /\ wrote'[s] = {}
              /\ step'[s] = IF s \in Requests THEN "refused" ELSE "failed"
<1> USE DEF IdentityTypeOK, RowsByStep, Open, Durable
<1>1. CASE Authenticate(s)
      BY <1>1 DEF Authenticate
<1>2. CASE Receive(s)
      BY <1>2, RequestsAssumption DEF Receive, Outcome
<1>3. CASE Lookup(s)
      BY <1>3 DEF Lookup
<1>4. CASE ReserveUniqueSlug(s)
      BY <1>4 DEF ReserveUniqueSlug
<1>5. CASE AddOrganization(s)
      BY <1>5 DEF AddOrganization, Crash, Abort
<1>6. CASE AddUser(s)
      BY <1>6 DEF AddUser, Crash, Abort, Waits, Conflict, Rows
<1>7. CASE Acknowledge(s) \/ Commits(s)
      BY <1>7, RequestsAssumption DEF Acknowledge, Commits
<1>8. CASE Open(s) /\ Crash(s)
      BY <1>8 DEF Crash, Abort
<1>9. CASE RoleMissing(s)
      BY <1>9 DEF RoleMissing, ApplicationError, Abort
<1> QED BY <1>1, <1>2, <1>3, <1>4, <1>5, <1>6, <1>7, <1>8, <1>9 DEF IdentityStep, SignIn

LEMMA RowsStep ==
    ASSUME IdentityTypeOK, RowsByStep, NEW s \in Sessions, IdentityStep(s)
    PROVE  RowsByStep'
<1>1. \A r \in Sessions \ {s} : step'[r] = step[r] /\ wrote'[r] = wrote[r]
      BY SessionFrame
<1>2. wrote[s] \in {{}, Rows} \/ step[s] # "ready"
      BY DEF RowsByStep
<1>3. /\ step'[s] \in {"start", "refused", "rejected", "ignored", "failed"} => wrote'[s] = {}
      /\ step'[s] \in {"lookup", "slug", "organization"} => wrote'[s] = {}
      /\ step'[s] = "user" => wrote'[s] = {"organization"}
      /\ step'[s] \in {"ready", "committed", "acked"} => wrote'[s] \in {{}, Rows}
      BY <1>2, OwnStep DEF Open
<1>4. step'[s] \in Steps
      BY OwnStep DEF Steps
<1> QED BY <1>1, <1>3, <1>4 DEF RowsByStep, Open, Durable, Steps

LEMMA MadeStep ==
    ASSUME IdentityTypeOK, RowsByStep, MadeOnce, NEW s \in Sessions, IdentityStep(s)
    PROVE  MadeOnce'
<1>1. who' = who /\ \A r \in Sessions \ {s} : step'[r] = step[r] /\ wrote'[r] = wrote[r]
      BY SessionFrame
<1>2. step'[s] \in {"slug", "organization", "user"} \/ wrote'[s] # {} => who[s] \notin Known
  <2>1. Lookup(s) /\ step'[s] = "slug" => who[s] \notin Known
        BY DEF Lookup, HasUser, IdentityTypeOK
  <2> QED BY <2>1, OwnStep DEF MadeOnce
<1>3. ASSUME NEW r \in Sessions \ {s}, who[r] = who[s], "user" \in wrote[r] PROVE "user" \notin wrote'[s]
  <2>1. "user" \notin wrote[s] /\ (Open(r) \/ Durable(r)) /\ r \in SameUser(s)
        BY <1>3 DEF MadeOnce, RowsByStep, SameUser
  <2> QED BY <2>1, OwnStep DEF Open, RowsByStep
<1> QED BY <1>1, <1>2, <1>3 DEF MadeOnce

LEMMA SignedStep ==
    ASSUME IdentityTypeOK, RowsByStep, SignedIn, NEW s \in Sessions, IdentityStep(s)
    PROVE  SignedIn'
<1> USE DEF HasUser, Visible
<1>1. /\ who' = who /\ member' = member /\ ~Durable(s)
      /\ \A r \in Sessions \ {s} : step'[r] = step[r] /\ wrote'[r] = wrote[r]
      BY SessionFrame
<1>2. \A r \in Sessions : Durable(r) => r # s /\ Durable(r)' /\ wrote'[r] = wrote[r]
      BY <1>1 DEF Durable
<1>3. \A r \in Sessions \ {s} : \A a : HasUser(r, a) => HasUser(r, a)'
      BY <1>1, <1>2
<1>4. step'[s] \in {"ready", "committed"} \/ (step'[s] = "acked" /\ member) => HasUser(s, who[s])'
  <2>1. CASE Lookup(s) /\ step'[s] = "ready"
    <3>1. HasUser(s, who[s]) /\ wrote'[s] = wrote[s]
          BY <2>1 DEF Lookup, IdentityTypeOK
    <3> QED BY <1>1, <1>2, <3>1
  <2>2. CASE "user" \in wrote'[s]
        BY <1>1, <2>2
  <2>3. CASE step[s] = "ready" /\ wrote'[s] = wrote[s]
        BY <1>1, <1>2, <2>3 DEF SignedIn
  <2> QED BY <2>1, <2>2, <2>3, OwnStep DEF Rows
<1> QED BY <1>1, <1>3, <1>4 DEF SignedIn

LEMMA KindStep ==
    ASSUME IdentityTypeOK, RowsByStep, EndsByKind, NEW s \in Sessions, IdentityStep(s)
    PROVE  EndsByKind'
  BY SessionFrame, OwnStep, RequestsAssumption DEF EndsByKind, Sessions

\* The clock counts the requests whose transactions have begun.
LEMMA ClockTicks ==
    ASSUME IdentityTypeOK, BeginsInOrder, NEW s \in Requests, Lookup(s)
    PROVE  /\ Clock \in Nat /\ Clock + 1 <= Cardinality(Requests)
           /\ Clock' = Clock + 1 /\ began' = [began EXCEPT ![s] = Clock + 1]
<1> DEFINE Begun == {t \in Requests : began[t] > 0}
<1>1. began[s] = 0 /\ began' = [began EXCEPT ![s] = Clock + 1]
      BY DEF Lookup, BeginsInOrder
<1>2. IsFiniteSet(Begun) /\ Clock \in Nat
      BY RequestsFinite, FS_Subset, FS_CardinalityType DEF Clock
<1>3. Begun' = Begun \cup {s} /\ s \notin Begun
      BY <1>1, <1>2 DEF IdentityTypeOK
<1>4. Cardinality(Begun \cup {s}) = Cardinality(Begun) + 1
      BY <1>2, <1>3, FS_AddElement
<1>5. Cardinality(Begun \cup {s}) <= Cardinality(Requests)
      BY RequestsFinite, FS_Subset
<1> QED BY <1>1, <1>2, <1>3, <1>4, <1>5 DEF Clock

LEMMA BeginsStep ==
    ASSUME IdentityTypeOK, RowsByStep, EndsByKind, BeginsInOrder, NEW s \in Sessions, IdentityStep(s)
    PROVE  BeginsInOrder'
<1>1. /\ ~Durable(s)
      /\ \A r \in Sessions \ {s} : step'[r] = step[r]
      /\ \A t \in Requests \ {s} : began'[t] = began[t]
      BY SessionFrame
<1>2. s \in Requests => (((Open(s) /\ step[s] # "lookup") \/ Durable(s)) => began[s] > 0)
      BY DEF BeginsInOrder
<1>3. CASE s \in Requests /\ Lookup(s)
  <2>1. Clock \in Nat /\ Clock' = Clock + 1 /\ began'[s] = Clock + 1
        BY <1>3, ClockTicks DEF IdentityTypeOK
  <2>2. step'[s] \in {"ready", "slug"}
        BY <1>3 DEF Lookup, IdentityTypeOK
  <2>3. \A t \in Requests : began[t] \in Nat
        BY RequestsFinite DEF IdentityTypeOK
  <2> QED BY <1>1, <2>1, <2>2, <2>3 DEF BeginsInOrder, Sessions, Open, Durable
<1>4. CASE ~(s \in Requests /\ Lookup(s))
  <2>1. began' = began
        BY <1>4 DEF IdentityStep, SignIn, Authenticate, Receive, Lookup, ReserveUniqueSlug,
                    AddOrganization, AddUser, Acknowledge, Crash, Abort, Commits, RoleMissing, ApplicationError
  <2>2. Clock' = Clock
        BY <2>1 DEF Clock
  <2>3. s \in Requests =>
           /\ step'[s] \in {"start", "lookup"} => step[s] = "start"
           /\ (Open(s)' /\ step'[s] # "lookup") \/ Durable(s)' => Open(s) /\ step[s] # "lookup"
        BY <1>4, OwnStep DEF Open, Durable
  <2> QED BY <1>1, <2>1, <2>2, <2>3 DEF BeginsInOrder, Sessions, Open, Durable
<1> QED BY <1>3, <1>4

LEMMA IdentityTypeStep ==
    ASSUME IdentityTypeOK, BeginsInOrder, NEW s \in Sessions, IdentityStep(s)
    PROVE  IdentityTypeOK'
<1> USE DEF IdentityTypeOK, Steps, Slugs, Rows
<1>1. CASE Authenticate(s) \/ ReserveUniqueSlug(s) \/ Acknowledge(s) \/ Commits(s)
      BY <1>1 DEF Authenticate, ReserveUniqueSlug, Acknowledge, Commits
<1>2. CASE Receive(s)
  <2>1. step' \in [Sessions -> Steps]
        BY <1>2 DEF Receive, Outcome
  <2>2. deliveries' \in [Webhooks -> 0 .. MaxDeliveries]
        BY <1>2, DeliveriesAssumption DEF Receive
  <2> QED BY <1>2, <2>1, <2>2 DEF Receive
<1>3. CASE Lookup(s)
  <2>1. began' \in [Requests -> 0 .. Cardinality(Requests)]
    <3>1. CASE s \in Requests
          BY <1>3, <3>1, ClockTicks, RequestsFinite
    <3>2. CASE s \notin Requests
          BY <1>3, <3>2 DEF Lookup
    <3> QED BY <3>1, <3>2
  <2> QED BY <1>3, <2>1 DEF Lookup
<1>4. CASE AddOrganization(s) \/ AddUser(s)
      BY <1>4 DEF AddOrganization, AddUser, Crash, Abort
<1>5. CASE (Open(s) /\ Crash(s)) \/ RoleMissing(s)
      BY <1>5 DEF Crash, Abort, RoleMissing, ApplicationError
<1> QED BY <1>1, <1>2, <1>3, <1>4, <1>5 DEF IdentityStep, SignIn

LEMMA IdentityInitInv == IdentityInit => IdentityTypeOK /\ IdentityInv
<1> SUFFICES ASSUME IdentityInit PROVE IdentityTypeOK /\ IdentityInv
    OBVIOUS
<1> USE DEF IdentityInit
<1>1. IdentityTypeOK
      BY RequestsFinite, DeliveriesAssumption DEF IdentityTypeOK, Steps, Slugs, Rows
<1>2. RowsByStep /\ MadeOnce /\ SignedIn /\ EndsByKind
      BY DEF RowsByStep, MadeOnce, SignedIn, EndsByKind, Open, Durable, Sessions
<1>3. BeginsInOrder
  <2>1. Clock \in Nat
        BY RequestsFinite, FS_Subset, FS_CardinalityType DEF Clock
  <2> QED BY <2>1 DEF BeginsInOrder, Open, Durable, Sessions
<1> QED BY <1>1, <1>2, <1>3 DEF IdentityInv

\* Every step of a session keeps what the sessions promise each other.
LEMMA IdentityInvStep ==
    ASSUME IdentityTypeOK, IdentityInv, (\E s \in Sessions : IdentityStep(s)) \/ UNCHANGED identityVars
    PROVE  (IdentityTypeOK /\ IdentityInv)'
<1>1. CASE UNCHANGED identityVars
  <2>1. (IdentityTypeOK /\ RowsByStep /\ MadeOnce /\ EndsByKind /\ BeginsInOrder)'
        BY <1>1 DEF identityVars, IdentityTypeOK, IdentityInv, RowsByStep, MadeOnce, EndsByKind, BeginsInOrder,
                    Open, Durable, Clock
  <2>2. /\ who' = who /\ (member' <=> member) /\ step' = step
        /\ \A s \in Sessions : \A a : HasUser(s, a)' <=> HasUser(s, a)
        BY <1>1 DEF identityVars, HasUser, Visible, Durable
  <2>3. SignedIn'
        BY <2>2 DEF SignedIn, IdentityInv
  <2> QED BY <2>1, <2>3 DEF IdentityInv
<1>2. ASSUME NEW s \in Sessions, IdentityStep(s) PROVE (IdentityTypeOK /\ IdentityInv)'
      BY <1>2, IdentityTypeStep, RowsStep, MadeStep, SignedStep, KindStep, BeginsStep DEF IdentityInv
<1> QED BY <1>1, <1>2

(***************************************************************************)
(* Every step is one of a session (IdentityProofs), one of a turn's own    *)
(* work, or both.                                                          *)
(***************************************************************************)
Work(t) == Attach(t) \/ Load(t) \/ Plan(t) \/ Rewrite(t) \/ Retrieve(t) \/ Generate(t) \/ Store(t)

\* The functions a turn's work changes, only in its own place.
TurnShape ==
    /\ ask \in Asks
    /\ pc \in [Requests -> TurnSteps]
    /\ rows \in [Requests -> SUBSET Roles]

Works(t) ==
    /\ Work(t) /\ step[t] = "ready"
    /\ UNCHANGED <<identityVars, ask>>
    /\ \A u \in Requests \ {t} : pc'[u] = pc[u] /\ rows'[u] = rows[u]

Kinds(t) == Works(t) \/ Commit(t) \/ (Open(t) /\ Fail(t))
Aside == \/ \E s \in Sessions : SignInStep(s)
         \/ \E w \in Webhooks : Open(w) /\ Crash(w) /\ UNCHANGED turnVars
         \/ UNCHANGED vars

LEMMA StepKinds ==
    ASSUME TurnShape, [Next]_vars
    PROVE  (\E t \in Requests : Kinds(t)) \/ Aside
<1>1. ASSUME NEW t \in Requests, Turn(t) PROVE Kinds(t)
  <2> USE DEF At, Kinds, Works, TurnShape
  <2>1. CASE Attach(t)
        BY <2>1 DEF Attach, Work, Open
  <2>2. CASE Load(t)
        BY <2>2 DEF Load, Work, Open
  <2>3. CASE Plan(t)
        BY <2>3 DEF Plan, Work
  <2>4. CASE Rewrite(t)
        BY <2>4 DEF Rewrite, Work, Open
  <2>5. CASE Retrieve(t)
        BY <2>5 DEF Retrieve, Work
  <2>6. CASE RetrieveFails(t) \/ AnswerFixed(t) \/ GenerateFails(t)
        BY <2>6 DEF RetrieveFails, AnswerFixed, GenerateFails, Open
  <2>7. CASE Generate(t)
        BY <2>7 DEF Generate, Work
  <2>8. CASE Store(t)
        BY <2>8 DEF Store, Work
  <2>9. CASE Commit(t)
        BY <2>9
  <2> QED BY <1>1, <2>1, <2>2, <2>3, <2>4, <2>5, <2>6, <2>7, <2>8, <2>9 DEF Turn
<1>2. ASSUME NEW s \in Sessions, ConnectionLost(s) PROVE (\E t \in Requests : Kinds(t)) \/ Aside
      BY <1>2 DEF ConnectionLost, Kinds, Aside, Sessions
<1> QED BY <1>1, <1>2 DEF Next, Progress, Aside

LEMMA StepOfSessions ==
    ASSUME TurnShape, [Next]_vars
    PROVE  (\E s \in Sessions : IdentityStep(s)) \/ UNCHANGED identityVars
<1>1. ASSUME NEW t \in Requests, Kinds(t) PROVE IdentityStep(t) \/ UNCHANGED identityVars
      BY <1>1 DEF Kinds, Works, Commit, At, Fail, IdentityStep, Commits
<1>2. CASE Aside
      BY <1>2 DEF Aside, SignInStep, IdentityStep, vars, Sessions
<1> QED BY <1>1, <1>2, StepKinds DEF Sessions

(***************************************************************************)
(* Where the turns are and what they have stored.                          *)
(***************************************************************************)
StoreInv == IdentityTypeOK /\ IdentityInv /\ TurnShape /\ TurnByStep /\ StoredByStep

LEMMA AskOfRequests ==
    ASSUME TurnShape
    PROVE  ask \in [Requests -> [conversation : {"old", "new", "none"}, docs : SUBSET Docs, length : Nat]]
  BY AsksAssumption DEF TurnShape

LEMMA ShapeStep ==
    ASSUME TurnShape, [Next]_vars
    PROVE  TurnShape'
<1> USE DEF TurnShape, TurnSteps, Roles
<1>1. ASSUME NEW t \in Requests, Turn(t) PROVE TurnShape'
  <2>1. CASE Attach(t) \/ Load(t) \/ Plan(t) \/ Rewrite(t)
        BY <2>1 DEF Attach, Load, Plan, Rewrite, Fail
  <2>2. CASE Retrieve(t)
        BY <2>2 DEF Retrieve, RouteAfterRetrieval
  <2>3. CASE RetrieveFails(t) \/ AnswerFixed(t) \/ GenerateFails(t)
        BY <2>3 DEF RetrieveFails, AnswerFixed, GenerateFails, Fail
  <2>4. CASE Generate(t) \/ Store(t) \/ Commit(t)
        BY <2>4 DEF Generate, Store, Commit, turnVars
  <2> QED BY <1>1, <2>1, <2>2, <2>3, <2>4 DEF Turn
<1>2. ASSUME NEW s \in Sessions, ConnectionLost(s) \/ SignInStep(s) PROVE TurnShape'
      BY <1>2 DEF ConnectionLost, SignInStep, Fail, turnVars
<1>3. CASE UNCHANGED vars
      BY <1>3 DEF vars, turnVars
<1> QED BY <1>1, <1>2, <1>3 DEF Next, Progress

\* A session that is signing in has no turn yet; what it does is no turn's work.
LEMMA AsideFrame ==
    ASSUME StoreInv, Aside
    PROVE  /\ UNCHANGED turnVars /\ who' = who
           /\ \A t \in Requests : step[t] \in {"ready", "committed"} => step'[t] = step[t]
           /\ \A t \in Requests : step'[t] = "committed" => step[t] = "committed"
<1> USE DEF StoreInv
<1>1. CASE UNCHANGED vars
      BY <1>1 DEF vars, identityVars
<1>2. ASSUME NEW w \in Webhooks, Open(w) /\ Crash(w) /\ UNCHANGED turnVars
      PROVE  UNCHANGED turnVars /\ who' = who /\ \A t \in Requests : step'[t] = step[t]
      BY <1>2, RequestsAssumption DEF Crash, Abort, IdentityTypeOK, Sessions
<1>3. ASSUME NEW s \in Sessions, SignInStep(s)
      PROVE  /\ UNCHANGED turnVars /\ who' = who
             /\ \A t \in Requests : step[t] \in {"ready", "committed"} => step'[t] = step[t]
             /\ \A t \in Requests : step'[t] = "committed" => step[t] = "committed"
  <2> USE DEF IdentityTypeOK, Sessions
  <2>1. CASE Authenticate(s)
        BY <1>3, <2>1 DEF SignInStep, Authenticate
  <2>2. CASE Receive(s)
        BY <1>3, <2>2, RequestsAssumption DEF SignInStep, Receive
  <2>3. CASE Lookup(s) \/ RoleMissing(s)
        BY <1>3, <2>3 DEF SignInStep, Lookup, RoleMissing, ApplicationError, Abort
  <2>4. CASE ReserveUniqueSlug(s)
        BY <1>3, <2>4 DEF SignInStep, ReserveUniqueSlug
  <2>5. CASE AddOrganization(s) \/ AddUser(s)
        BY <1>3, <2>5 DEF SignInStep, AddOrganization, AddUser, Crash, Abort
  <2>6. CASE Acknowledge(s)
        BY <1>3, <2>6, RequestsAssumption DEF SignInStep, Acknowledge
  <2> QED BY <1>3, <2>1, <2>2, <2>3, <2>4, <2>5, <2>6 DEF SignInStep, SignIn
<1> QED BY <1>1, <1>2, <1>3 DEF Aside

\* A turn works while its transaction is open, and on nothing of another's.
LEMMA KindsFrame ==
    ASSUME StoreInv, NEW t \in Requests, Kinds(t)
    PROVE  /\ who' = who /\ ask' = ask /\ step[t] # "committed"
           /\ \A u \in Requests \ {t} : pc'[u] = pc[u] /\ rows'[u] = rows[u] /\ step'[u] = step[u]
<1> USE DEF StoreInv, TurnShape, IdentityTypeOK, Sessions
<1>1. CASE Works(t)
      BY <1>1 DEF Works, identityVars
<1>2. CASE Commit(t)
      BY <1>2 DEF Commit, At, turnVars
<1>3. CASE Open(t) /\ Fail(t)
      BY <1>3 DEF Fail, Crash, Abort, Open
<1> QED BY <1>1, <1>2, <1>3 DEF Kinds

\* Where a turn's work takes it, and what it has stored there.
LEMMA WorkMoves ==
    ASSUME StoreInv, NEW t \in Requests, Works(t)
    PROVE  \/ pc[t] = "attach" /\ pc'[t] = "load" /\ rows'[t] = (IF Chats(t) THEN {"user"} ELSE {}) /\ FindsConversation(t)
           \/ pc[t] \in {"load", "plan", "rewrite", "search", "generate"} /\ rows' = rows
                /\ pc'[t] \in {"plan", "rewrite", "search", "insufficient", "generate", "store"}
           \/ pc[t] = "store" /\ pc'[t] = "commit" /\ rows'[t] = (IF Chats(t) THEN Roles ELSE {})
<1> USE DEF StoreInv, TurnShape, Works, At, IdentityTypeOK, identityVars, Sessions
<1>1. CASE Fail(t)
      BY <1>1 DEF Fail, Crash, Abort
<1>2. CASE Attach(t) /\ ~Fail(t)
      BY <1>2 DEF Attach
<1>3. CASE (Load(t) \/ Rewrite(t)) /\ ~Fail(t)
      BY <1>3 DEF Load, Rewrite
<1>4. CASE Plan(t) \/ Generate(t)
      BY <1>4 DEF Plan, Generate
<1>5. CASE Retrieve(t)
      BY <1>5 DEF Retrieve, RouteAfterRetrieval
<1>6. CASE Store(t)
      BY <1>6 DEF Store
<1> QED BY <1>1, <1>2, <1>3, <1>4, <1>5, <1>6 DEF Works, Work

LEMMA StoredStep ==
    ASSUME StoreInv, [Next]_vars
    PROVE  (TurnByStep /\ StoredByStep)'
<1> USE DEF TurnByStep, StoredByStep, FindsConversation, Chats
<1>1. CASE Aside
      BY <1>1, AsideFrame DEF StoreInv, turnVars
<1>2. ASSUME NEW t \in Requests, Kinds(t) PROVE (TurnByStep /\ StoredByStep)'
  <2>1. /\ who' = who /\ ask' = ask
        /\ \A u \in Requests \ {t} : pc'[u] = pc[u] /\ rows'[u] = rows[u] /\ step'[u] = step[u]
        BY <1>2, KindsFrame
  <2>2. CASE Works(t)
    <3>1. step[t] = "ready" /\ step' = step
          BY <2>2 DEF Works, identityVars
    <3> QED BY <2>1, <2>2, <3>1, WorkMoves DEF StoreInv
  <2>3. CASE Commit(t)
        BY <2>1, <2>3 DEF StoreInv, Commit, At, turnVars, IdentityTypeOK, Sessions
  <2>4. CASE Fail(t)
    <3>1. step'[t] = "refused" /\ pc'[t] = "attach" /\ rows'[t] = {}
          BY <2>4 DEF StoreInv, Fail, Crash, Abort, IdentityTypeOK, TurnShape, Sessions
    <3> QED BY <2>1, <3>1 DEF StoreInv
  <2> QED BY <1>2, <2>2, <2>3, <2>4 DEF Kinds
<1> QED BY <1>1, <1>2, StepKinds DEF StoreInv

LEMMA StoreInvInit == Init => StoreInv
<1> SUFFICES ASSUME Init PROVE StoreInv
    OBVIOUS
<1>1. IdentityTypeOK /\ IdentityInv
      BY IdentityInitInv DEF Init
<1>2. TurnShape
      BY DEF Init, TurnShape, TurnSteps, Roles
<1>3. TurnByStep /\ StoredByStep
      BY DEF Init, IdentityInit, TurnByStep, StoredByStep, Sessions
<1> QED BY <1>1, <1>2, <1>3 DEF StoreInv

LEMMA StoreInvStep == StoreInv /\ [Next]_vars => StoreInv'
  BY IdentityInvStep, StepOfSessions, ShapeStep, StoredStep DEF StoreInv

LEMMA StoreInvHolds == Spec => []StoreInv
  BY StoreInvInit, StoreInvStep, PTL DEF Spec

(***************************************************************************)
(* What load_or_create_user leaves.                                        *)
(***************************************************************************)
LEMMA OneUser == StoreInv => OneUserPerAccount
<1> SUFFICES ASSUME StoreInv PROVE OneUserPerAccount
    OBVIOUS
<1> USE DEF StoreInv, IdentityInv, Stores
<1>1. ASSUME NEW a \in Accounts
      PROVE  Cardinality({s \in Sessions : who[s] = a /\ "user" \in Stores(s)}) + (IF a \in Known THEN 1 ELSE 0) <= 1
  <2> DEFINE holders == {s \in Sessions : who[s] = a /\ "user" \in Stores(s)}
  <2>1. \A s \in holders : a \notin Known /\ \A r \in holders : r = s
        BY DEF MadeOnce
  <2>2. CASE holders = {}
    <3>1. Cardinality(holders) = 0
          BY <2>2, FS_EmptySet
    <3> QED BY <3>1
  <2>3. CASE holders # {}
    <3>1. PICK s \in holders : holders = {s} /\ a \notin Known
          BY <2>1, <2>3
    <3>2. Cardinality(holders) = 1
          BY <3>1, FS_Singleton
    <3> QED BY <3>1, <3>2
  <2> QED BY <2>2, <2>3
<1>2. ASSUME NEW s \in Sessions, "organization" \in Stores(s) PROVE "user" \in Stores(s)
      BY <1>2 DEF RowsByStep, Durable, Rows
<1> QED BY <1>1, <1>2 DEF OneUserPerAccount

\* However first requests and webhooks of one account interleave, with rollbacks at any
\* moment, load_or_create_user leaves the account at most one user, and no organization
\* without the user it was made for.
THEOREM UsersAreMadeOnce == Spec => []OneUserPerAccount
  BY StoreInvHolds, OneUser, PTL

\* If the role "member" is in the database, an account whose webhook event was answered
\* with 200, which Clerk will not send again, has a user.  (Without the role the event is
\* answered 200 too: RoleMissing.)
THEOREM AcknowledgedAccountsHaveUsers == Spec => []AckedHasUser
<1>1. StoreInv => AckedHasUser
      BY DEF StoreInv, IdentityInv, SignedIn, HasUser, Visible, AckedHasUser, Stores, Durable, Sessions
<1> QED BY <1>1, StoreInvHolds, PTL

(***************************************************************************)
(* The chat implements TurnStore.                                          *)
(***************************************************************************)
Users == Known \cup {a \in Accounts : \E s \in Sessions : who[s] = a /\ "user" \in Stores(s)}
StoredOf(t) == IF Durable(t) THEN rows[t] ELSE {}

\* A commit makes the rows of a turn and the user who asked durable together.
LEMMA CommitAnswers ==
    ASSUME StoreInv, NEW t \in Requests, Commit(t)
    PROVE  Promise!Answer(t)
<1> USE DEF StoreInv, IdentityInv
<1>1. step[t] = "ready" /\ pc[t] = "commit" /\ step' = [step EXCEPT ![t] = "committed"]
      /\ UNCHANGED <<who, wrote, ask, rows>>
      BY DEF Commit, At, turnVars
<1>2. rows[t] = IF Chats(t) THEN Roles ELSE {}
      BY <1>1 DEF StoredByStep
<1>3. \A u \in Requests : Chats(u)' = Chats(u)
      BY <1>1 DEF Chats
<1>4. Reply(t) = "none" /\ Reply(t)' = "answer" /\ \A u \in Requests \ {t} : Reply(u)' = Reply(u)
      BY <1>1 DEF Reply, IdentityTypeOK, Sessions
<1>5. /\ StoredOf(t)' = rows[t]
      /\ \A u \in Requests \ {t} : StoredOf(u)' = StoredOf(u)
      BY <1>1 DEF StoredOf, Durable, IdentityTypeOK, Sessions
<1>6. \A s \in Sessions : Stores(s)' = IF s = t THEN wrote[t] ELSE Stores(s)
      BY <1>1 DEF Stores, Durable, IdentityTypeOK, Sessions
<1>7. HasUser(t, who[t])
      BY <1>1 DEF SignedIn, Sessions
<1>8. Users' = Users \cup {who[t]}
  <2>1. who[t] \in Accounts /\ t \in Sessions /\ ~Durable(t) /\ Stores(t) = {}
        BY <1>1 DEF IdentityTypeOK, Sessions, Durable, Stores
  <2>2. who[t] \in Users'
        BY <1>1, <1>6, <1>7, <2>1 DEF Users, HasUser, Visible, Stores
  <2>3. Users \subseteq Users'
        BY <1>1, <1>6, <2>1 DEF Users
  <2>4. Users' \subseteq Users \cup {who[t]}
        BY <1>1, <1>6, <2>1 DEF Users
  <2> QED BY <2>2, <2>3, <2>4
<1>9. [u \in Requests |-> Reply(u)]' = [[u \in Requests |-> Reply(u)] EXCEPT ![t] = "answer"]
      BY <1>4
<1>10. [u \in Requests |-> StoredOf(u)]' = [[u \in Requests |-> StoredOf(u)] EXCEPT ![t] = rows[t]]
      BY <1>5
<1> QED BY <1>1, <1>2, <1>3, <1>4, <1>8, <1>9, <1>10 DEF Promise!Answer, Users, StoredOf, Roles

\* While nothing becomes durable nothing is stored, and no account gets a user.
LEMMA NothingDurable ==
    ASSUME StoreInv, StoreInv', who' = who, ask' = ask,
           \A s \in Sessions : Durable(s)' = Durable(s) /\ (Durable(s) => wrote'[s] = wrote[s]),
           \A t \in Requests : Durable(t) => rows'[t] = rows[t]
    PROVE  UNCHANGED <<who, {t \in Requests : Chats(t)}, Users, [t \in Requests |-> StoredOf(t)]>>
<1>1. \A s \in Sessions : Stores(s)' = Stores(s)
      BY DEF Stores
<1>2. Users' = Users
      BY <1>1 DEF Users
<1>3. \A t \in Requests : StoredOf(t)' = StoredOf(t) /\ Chats(t)' = Chats(t)
      BY DEF StoredOf, Chats, Sessions
<1> QED BY <1>2, <1>3

\* A rejection or an exception tells the client, and stores nothing.
LEMMA EndsRefused ==
    ASSUME StoreInv, StoreInv', NEW t \in Requests, ~Durable(t), step[t] \notin {"refused", "rejected"},
           who' = who, ask' = ask,
           step'[t] \in {"refused", "rejected"}, \A s \in Sessions \ {t} : step'[s] = step[s] /\ wrote'[s] = wrote[s],
           \A u \in Requests \ {t} : rows'[u] = rows[u]
    PROVE  Promise!Refuse(t)
<1>1. \A s \in Sessions : Durable(s)' = Durable(s) /\ (Durable(s) => wrote'[s] = wrote[s])
      BY DEF Durable
<1>2. UNCHANGED <<who, {u \in Requests : Chats(u)}, Users, [u \in Requests |-> StoredOf(u)]>>
      BY <1>1, NothingDurable
<1>3. Reply(t) = "none" /\ Reply(t)' = "error" /\ \A u \in Requests \ {t} : Reply(u)' = Reply(u)
      BY DEF Reply, Durable, Sessions
<1>4. [u \in Requests |-> Reply(u)]' = [[u \in Requests |-> Reply(u)] EXCEPT ![t] = "error"]
      BY <1>3
<1> QED BY <1>2, <1>3, <1>4 DEF Promise!Refuse, Users, StoredOf

\* A step that ends no session's work and acknowledges nothing is not seen.
LEMMA NotSeen ==
    ASSUME StoreInv, StoreInv', who' = who, ask' = ask,
           \A s \in Sessions : Durable(s)' = Durable(s) /\ (Durable(s) => wrote'[s] = wrote[s]),
           \A t \in Requests : (Durable(t) => rows'[t] = rows[t]) /\ Reply(t)' = Reply(t)
    PROVE  UNCHANGED Promise!storeVars
<1>1. UNCHANGED <<who, {t \in Requests : Chats(t)}, Users, [t \in Requests |-> StoredOf(t)]>>
      BY NothingDurable
<1>2. [t \in Requests |-> Reply(t)]' = [t \in Requests |-> Reply(t)]
      OBVIOUS
<1> QED BY <1>1, <1>2 DEF Promise!storeVars, Users, StoredOf

\* An acknowledged webhook has made its user durable.
LEMMA AcknowledgeDelivers ==
    ASSUME StoreInv, NEW w \in Webhooks, Acknowledge(w), UNCHANGED turnVars
    PROVE  Promise!Deliver(w)
<1> USE DEF StoreInv, IdentityInv, IdentityTypeOK, Sessions
<1>1. step[w] = "ready" /\ step' = [step EXCEPT ![w] = "acked"] /\ UNCHANGED <<who, wrote, ask, rows>>
      BY DEF Acknowledge, turnVars
<1>2. w \notin Requests /\ \A s \in Sessions \ {w} : step'[s] = step[s]
      BY <1>1, RequestsAssumption
<1>3. \A t \in Requests : Chats(t)' = Chats(t) /\ Reply(t)' = Reply(t) /\ StoredOf(t)' = StoredOf(t)
      BY <1>1, <1>2 DEF Chats, Reply, StoredOf, Durable
<1>4. \A s \in Sessions : Stores(s)' = IF s = w THEN wrote[w] ELSE Stores(s)
      BY <1>1, <1>2 DEF Stores, Durable
<1>5. HasUser(w, who[w]) /\ who[w] \in Accounts /\ Stores(w) = {}
      BY <1>1 DEF SignedIn, Stores, Durable
<1>6. Users' = Users \cup {who[w]}
  <2>1. who[w] \in Users'
        BY <1>1, <1>4, <1>5 DEF Users, HasUser, Visible, Stores
  <2>2. Users \subseteq Users' /\ Users' \subseteq Users \cup {who[w]}
        BY <1>1, <1>4, <1>5 DEF Users
  <2> QED BY <2>1, <2>2
<1>7. /\ {t \in Requests : Chats(t)}' = {t \in Requests : Chats(t)}
      /\ [t \in Requests |-> Reply(t)]' = [t \in Requests |-> Reply(t)]
      /\ [t \in Requests |-> StoredOf(t)]' = [t \in Requests |-> StoredOf(t)]
      BY <1>3
<1> QED BY <1>1, <1>6, <1>7 DEF Promise!Deliver, Users, StoredOf

\* An event that was acknowledged for want of the role has stored nothing.
LEMMA RoleMissingNotSeen ==
    ASSUME StoreInv, NEW w \in Webhooks, RoleMissing(w), UNCHANGED turnVars
    PROVE  UNCHANGED Promise!storeVars
<1> USE DEF StoreInv, IdentityTypeOK, Sessions
<1>1. /\ w \notin Requests /\ ~Durable(w) /\ UNCHANGED <<who, ask, rows>>
      /\ step'[w] = "acked" /\ wrote'[w] = {}
      /\ \A s \in Sessions \ {w} : step'[s] = step[s] /\ wrote'[s] = wrote[s]
      BY RequestsAssumption DEF RoleMissing, ApplicationError, Abort, Durable, turnVars
<1>2. \A s \in Sessions : Stores(s)' = Stores(s)
      BY <1>1 DEF Stores, Durable
<1>3. \A t \in Requests : Chats(t)' = Chats(t) /\ Reply(t)' = Reply(t) /\ StoredOf(t)' = StoredOf(t)
      BY <1>1 DEF Chats, Reply, StoredOf, Durable
<1>4. Users' = Users
      BY <1>1, <1>2 DEF Users
<1>5. /\ {t \in Requests : Chats(t)}' = {t \in Requests : Chats(t)}
      /\ [t \in Requests |-> Reply(t)]' = [t \in Requests |-> Reply(t)]
      /\ [t \in Requests |-> StoredOf(t)]' = [t \in Requests |-> StoredOf(t)]
      BY <1>3
<1> QED BY <1>1, <1>4, <1>5 DEF Promise!storeVars, Users, StoredOf

\* A step of the sign-in is seen when it refuses a request or acknowledges an event.
LEMMA SignInSeen ==
    ASSUME StoreInv, StoreInv', NEW s \in Sessions, SignInStep(s)
    PROVE  Promise!StoreNext \/ UNCHANGED Promise!storeVars
<1>1. /\ UNCHANGED turnVars /\ who' = who /\ ask' = ask /\ rows' = rows
      /\ \A t \in Requests : step'[t] = "committed" => step[t] = "committed"
      BY AsideFrame DEF Aside, turnVars
<1>2. ~Durable(s) /\ \A r \in Sessions \ {s} : step'[r] = step[r] /\ wrote'[r] = wrote[r]
      BY SessionFrame DEF SignInStep, IdentityStep, StoreInv
<1>3. CASE Acknowledge(s)
      BY <1>1, <1>3, AcknowledgeDelivers DEF Promise!StoreNext, Acknowledge
<1>4. CASE s \in Webhooks /\ RoleMissing(s)
      BY <1>1, <1>4, RoleMissingNotSeen DEF turnVars, SignInStep
<1>5. CASE ~Acknowledge(s) /\ ~(s \in Webhooks /\ RoleMissing(s))
  <2>1. step'[s] \notin {"committed", "acked"}
    <3>1. step[s] = "ready" \/ RoleMissing(s) => s \in Requests
          BY <1>5 DEF SignInStep, SignIn, Authenticate, Receive, Lookup, RoleMissing, ReserveUniqueSlug, AddOrganization, AddUser, Sessions
    <3>2. step[s] = "lookup" /\ ~Lookup(s) => RoleMissing(s)
          BY DEF SignInStep, SignIn, Authenticate, Receive, ReserveUniqueSlug, AddOrganization, AddUser, Acknowledge
    <3> QED BY <1>1, <1>2, <3>1, <3>2, OwnStep, RequestsAssumption
            DEF SignInStep, IdentityStep, StoreInv, IdentityInv, Durable, Sessions, IdentityTypeOK, Lookup
  <2>2. \A r \in Sessions : Durable(r)' = Durable(r) /\ (Durable(r) => wrote'[r] = wrote[r])
        BY <1>2, <2>1 DEF Durable
  <2>3. s \in Requests => step[s] \notin {"refused", "rejected"}
        BY RequestsAssumption DEF SignInStep, SignIn, Authenticate, Receive, Lookup, RoleMissing, ReserveUniqueSlug, AddOrganization, AddUser, Acknowledge
  <2>4. CASE s \in Requests /\ step'[s] \in {"refused", "rejected"}
        BY <1>1, <1>2, <2>3, <2>4, EndsRefused DEF Promise!StoreNext
  <2>5. CASE ~(s \in Requests /\ step'[s] \in {"refused", "rejected"})
    <3>1. \A t \in Requests : Reply(t)' = Reply(t)
          BY <1>2, <2>1, <2>3, <2>5 DEF Reply, Sessions, Durable
    <3> QED BY <1>1, <2>2, <3>1, NotSeen
  <2> QED BY <2>4, <2>5
<1> QED BY <1>3, <1>4, <1>5

\* A turn's step is seen when it commits or fails.
LEMMA KindsSeen ==
    ASSUME StoreInv, StoreInv', NEW t \in Requests, Kinds(t)
    PROVE  Promise!StoreNext \/ UNCHANGED Promise!storeVars
<1>1. /\ who' = who /\ ask' = ask /\ step[t] # "committed"
      /\ \A u \in Requests \ {t} : pc'[u] = pc[u] /\ rows'[u] = rows[u] /\ step'[u] = step[u]
      BY KindsFrame
<1>2. CASE Works(t)
  <2>1. step[t] = "ready" /\ UNCHANGED <<step, wrote>>
        BY <1>2 DEF Works, identityVars
  <2>2. \A s \in Sessions : Durable(s)' = Durable(s) /\ wrote'[s] = wrote[s]
        BY <2>1 DEF Durable
  <2>3. \A u \in Requests : (Durable(u) => rows'[u] = rows[u]) /\ Reply(u)' = Reply(u)
        BY <1>1, <2>1 DEF Durable, Reply
  <2> QED BY <1>1, <2>2, <2>3, NotSeen
<1>3. CASE Commit(t)
      BY <1>3, CommitAnswers DEF Promise!StoreNext
<1>4. CASE Open(t) /\ Fail(t)
  <2>1. /\ step'[t] = "refused" /\ ~Durable(t) /\ step[t] \notin {"refused", "rejected"}
        /\ \A s \in Sessions \ {t} : step'[s] = step[s] /\ wrote'[s] = wrote[s]
        BY <1>4 DEF Open, Durable, Fail, Crash, Abort, StoreInv, IdentityTypeOK, Sessions
  <2> QED BY <1>1, <2>1, EndsRefused DEF Promise!StoreNext
<1> QED BY <1>2, <1>3, <1>4 DEF Kinds

LEMMA TurnRefinesInit == Init => Promise!StoreInit
  BY DEF Init, IdentityInit, Promise!StoreInit, Reply, Durable, Sessions

LEMMA TurnRefinesStep ==
    ASSUME StoreInv, StoreInv', [Next]_vars
    PROVE  [Promise!StoreNext]_(Promise!storeVars)
<1>1. ASSUME NEW t \in Requests, Kinds(t) PROVE [Promise!StoreNext]_(Promise!storeVars)
      BY <1>1, KindsSeen
<1>2. ASSUME NEW s \in Sessions, SignInStep(s) PROVE [Promise!StoreNext]_(Promise!storeVars)
      BY <1>2, SignInSeen
<1>3. ASSUME NEW w \in Webhooks, Open(w) /\ Crash(w) /\ UNCHANGED turnVars
      PROVE  [Promise!StoreNext]_(Promise!storeVars)
  <2>1. /\ who' = who /\ ask' = ask /\ rows' = rows
        /\ step' = [step EXCEPT ![w] = "failed"] /\ wrote' = [wrote EXCEPT ![w] = {}]
        BY <1>3, RequestsAssumption DEF Crash, Abort, turnVars
  <2>2. \A s \in Sessions : Durable(s)' = Durable(s) /\ (Durable(s) => wrote'[s] = wrote[s])
        BY <1>3, <2>1 DEF Open, Durable, StoreInv, IdentityTypeOK, Sessions
  <2>3. \A t \in Requests : Reply(t)' = Reply(t)
        BY <2>1, RequestsAssumption DEF Reply, StoreInv, IdentityTypeOK, Sessions
  <2> QED BY <2>1, <2>2, <2>3, NotSeen
<1>4. CASE UNCHANGED vars
  <2>1. /\ who' = who /\ ask' = ask /\ rows' = rows /\ step' = step /\ wrote' = wrote
        BY <1>4 DEF vars, identityVars, turnVars
  <2>2. \A s \in Sessions : Durable(s)' = Durable(s) /\ wrote'[s] = wrote[s]
        BY <2>1 DEF Durable
  <2>3. \A t \in Requests : Reply(t)' = Reply(t)
        BY <2>1 DEF Reply
  <2> QED BY <2>1, <2>2, <2>3, NotSeen
<1> QED BY <1>1, <1>2, <1>3, <1>4, StepKinds DEF Aside, StoreInv

\* The chat implements TurnStore: a request is answered once, and its question, its
\* answer and the user who asked become durable in that step; or it is refused, and
\* nothing of it is; whatever other requests and webhooks do meanwhile.
THEOREM TurnsAreAtomic == Spec => TurnIsAtomic
<1>1. Init => Promise!StoreInit
      BY TurnRefinesInit
<1>2. StoreInv /\ StoreInv' /\ [Next]_vars => [Promise!StoreNext]_(Promise!storeVars)
      BY TurnRefinesStep
<1> QED BY <1>1, <1>2, StoreInvHolds, PTL DEF Spec, TurnIsAtomic, Promise!StoreSpec

\* What is folded here is the citations.
Cite(all, citations, item) == CiteOnce(citations, item)
INSTANCE RecursionLemmas WITH Op <- Cite

(***************************************************************************)
(* The earlier messages that fit in a prompt.                              *)
(***************************************************************************)
\* An empty history has no length.
LEMMA TotalLengthOfNone == TotalLength(<<>>) = 0
<1> DEFINE g == [n \in 0 .. 0 |-> 0]
           Rec(f) == f = [n \in 0 .. Len(<<>>) |-> IF n = 0 THEN 0 ELSE f[n - 1] + <<>>[n].length]
<1>1. Rec(g)
      OBVIOUS
<1>2. TotalLength(<<>>) = (CHOOSE f : Rec(f))[0]
      BY DEF TotalLength
<1> HIDE DEF g
<1>3. Rec(CHOOSE f : Rec(f))
  <2> HIDE DEF Rec
  <2> QED BY <1>1
<1> QED BY <1>2, <1>3

\* A total of lengths is a length.
LEMMA TotalLengthType ==
    ASSUME NEW S, \A row \in S : row.length \in Nat, NEW seq \in Seq(S)
    PROVE  TotalLength(seq) \in Nat
<1> DEFINE N == Len(seq)
           Rec(f) == f = [n \in 0 .. N |-> IF n = 0 THEN 0 ELSE f[n - 1] + seq[n].length]
           F == [n \in 1 .. N |-> [x \in Nat |-> x + seq[n].length]]
<1>1. N \in Nat /\ \A n \in 1 .. N : seq[n].length \in Nat
      OBVIOUS
<1>2. F \in [1 .. N -> [Nat -> Nat]]
      BY <1>1
<1>3. PICK g \in [0 .. N -> Nat] : g[0] = 0 /\ \A n \in 1 .. N : g[n] = F[n][g[n - 1]]
  <2> DEFINE base == 0
             Values == Nat
  <2>1. N \in Nat /\ base \in Values /\ F \in [1 .. N -> [Values -> Values]]
        BY <1>1, <1>2
  <2> HIDE DEF F, N, Rec, base, Values
  <2>2. \E g : Recursion(N, Values, base, F, g)
        BY <2>1, RecursionTo
  <2> QED BY <2>2 DEF base, Values, Recursion
<1>4. Rec(g)
  <2>1. \A n \in 1 .. N : g[n] = g[n - 1] + seq[n].length
    <3> TAKE n \in 1 .. N
    <3>1. g[n - 1] \in Nat
          BY <1>1
    <3>2. F[n][g[n - 1]] = g[n - 1] + seq[n].length
          BY <3>1
    <3> QED BY <1>3, <3>2
  <2> QED BY <2>1, <1>1, <1>3
<1> DEFINE u == CHOOSE h : Rec(h)
<1>5. Rec(u)
  <2> HIDE DEF Rec
  <2> QED BY <1>4
<1>6. TotalLength(seq) = u[N]
      BY DEF TotalLength
<1> HIDE DEF u
<1>7. u[0] \in Nat /\ \A n \in 1 .. N : u[n - 1] \in Nat => u[n] \in Nat
  <2>1. \A n \in 0 .. N : u[n] = IF n = 0 THEN 0 ELSE u[n - 1] + seq[n].length
        BY <1>5
  <2>2. u[0] = 0
        BY <1>1, <2>1
  <2>3. ASSUME NEW n \in 1 .. N, u[n - 1] \in Nat PROVE u[n] \in Nat
    <3>1. n \in 0 .. N /\ n # 0 /\ seq[n].length \in Nat
          BY <1>1
    <3>2. u[n] = u[n - 1] + seq[n].length
          BY <2>1, <3>1
    <3> QED BY <2>3, <3>1, <3>2
  <2> QED BY <2>2, <2>3
<1>8. \A n \in 0 .. N : u[n] \in Nat
  <2> HIDE DEF N
  <2> QED BY <1>1, <1>7, RecursionStays
<1> QED BY <1>1, <1>6, <1>8

\* Reverse of the community modules.
LEMMA ReverseProperties ==
    ASSUME NEW S, NEW seq \in Seq(S)
    PROVE  /\ Reverse(seq) \in Seq(S) /\ Len(Reverse(seq)) = Len(seq)
           /\ \A i \in 1 .. Len(seq) : Reverse(seq)[i] = seq[Len(seq) - i + 1]
<1>1. \A i \in 1 .. Len(seq) : Len(seq) - i + 1 \in 1 .. Len(seq)
      OBVIOUS
<1>2. Reverse(seq) = [i \in 1 .. Len(seq) |-> seq[Len(seq) - i + 1]]
      BY DEF Reverse
<1> QED BY <1>1, <1>2

\* The newest rows that fit, in their order.
LEMMA PriorTurnsFit ==
    ASSUME NEW S, \A row \in S : row.length \in Nat, NEW seq \in Seq(S), NEW budget \in Nat
    PROVE  LET block == PriorTurnsBlock(seq, budget) IN
           /\ block \in Seq(S)
           /\ TotalLength(block) <= budget
           /\ Len(block) <= Len(seq)
           /\ \A i \in 1 .. Len(block) : block[i] = seq[Len(block) - i + 1]
<1> DEFINE ordered == Reverse(seq)
           tail(n) == SubSeq(ordered, n + 1, Len(ordered))
           fits == {n \in 0 .. Len(ordered) : TotalLength(tail(n)) <= budget}
           dropped == CHOOSE n \in fits : \A m \in fits : n <= m
           block == PriorTurnsBlock(seq, budget)
<1>0. block = tail(dropped)
      BY DEF PriorTurnsBlock
<1>1. ordered \in Seq(S) /\ Len(ordered) = Len(seq) /\ Len(seq) \in Nat
      BY ReverseProperties
<1>2. \A i \in 1 .. Len(seq) : ordered[i] = seq[Len(seq) - i + 1]
      BY ReverseProperties
<1> HIDE DEF ordered
<1>3. tail(Len(ordered)) = <<>>
      BY <1>1, SubSeqEmpty
<1>4. Len(ordered) \in fits
  <2>1. TotalLength(tail(Len(ordered))) <= budget
    <3>1. \A none : none = <<>> => TotalLength(none) = 0
          BY TotalLengthOfNone
    <3> HIDE DEF tail
    <3>2. TotalLength(tail(Len(ordered))) = 0
          BY <1>3, <3>1
    <3> QED BY <3>2
  <2> HIDE DEF tail
  <2> QED BY <1>1, <2>1
<1>5. fits \in SUBSET Nat
      OBVIOUS
<1>6. \E n \in fits : \A m \in fits : n <= m
  <2> HIDE DEF fits
  <2> QED BY <1>4, <1>5, NatHasMinimum
<1>7. dropped \in fits
  <2> HIDE DEF fits
  <2> QED BY <1>6
<1> HIDE DEF dropped
<1>9. dropped \in 0 .. Len(ordered) /\ TotalLength(block) <= budget
      BY <1>7, <1>0
<1>10. tail(dropped) \in Seq(S) /\ Len(tail(dropped)) = Len(ordered) - dropped
       /\ \A i \in 1 .. Len(ordered) - dropped : tail(dropped)[i] = ordered[dropped + i]
  <2>1. \A i \in dropped + 1 .. Len(ordered) : ordered[i] \in S
        BY <1>1, <1>9
  <2> QED BY <2>1, <1>1, <1>9, SubSeqProperties
<1> HIDE DEF block
<1>11. \A i \in 1 .. Len(block) : block[i] = seq[Len(block) - i + 1]
  <2> TAKE i \in 1 .. Len(block)
  <2>1. dropped + i \in 1 .. Len(seq) /\ Len(seq) - (dropped + i) + 1 = Len(block) - i + 1
        BY <1>1, <1>0, <1>9, <1>10
  <2>2. block[i] = ordered[dropped + i]
        BY <1>0, <1>10
  <2> QED BY <1>2, <2>1, <2>2
<1>12. block \in Seq(S) /\ Len(block) <= Len(seq)
  <2>1. block \in Seq(S) /\ Len(block) = Len(ordered) - dropped
        BY <1>0, <1>10
  <2> QED BY <1>1, <1>9, <2>1
<1> QED BY <1>9, <1>11, <1>12 DEF block

(***************************************************************************)
(* The citations.                                                          *)
(***************************************************************************)
\* The citations of what is not empty are not empty, and are of the same documents.
LEMMA CitationsOfChunks ==
    ASSUME NEW S, NEW Index, \A item \in S : item.index \in Index, NEW seq \in Seq(S)
    PROVE  /\ CitationsFromChunks(seq) \in Seq([doc : {seq[i].doc : i \in DOMAIN seq}, index : Index])
           /\ seq # <<>> => CitationsFromChunks(seq) # <<>>
<1> DEFINE N == Len(seq)
           Named == {seq[i].doc : i \in DOMAIN seq}
           Keys == [doc : Named, index : Index]
           Items == {seq[i] : i \in DOMAIN seq}
           none == <<>>
<1>1. N \in Nat /\ DOMAIN seq = 1 .. N /\ seq \in Seq(Items)
      OBVIOUS
<1>2. \A c \in Seq(Keys), item \in Items : Cite(S, c, item) \in Seq(Keys) /\ Cite(S, c, item) # <<>>
  <2> TAKE c \in Seq(Keys), item \in Items
  <2> DEFINE key == [doc |-> item.doc, index |-> item.index]
  <2>1. key \in Keys
        BY <1>1
  <2>2. Cite(S, c, item) = IF key \in ToSet(c) THEN c ELSE Append(c, key)
        BY DEF Cite, CiteOnce
  <2>3. Append(c, key) \in Seq(Keys) /\ Append(c, key) # <<>>
    <3> HIDE DEF Keys, key
    <3> QED BY <2>1, AppendProperties
  <2>4. key \in ToSet(c) => c # <<>>
        BY DEF ToSet
  <2> QED BY <2>2, <2>3, <2>4
<1>3. Folded(S, none, seq) = CitationsFromChunks(seq)
      BY DEF Folded, Cite, CitationsFromChunks, FoldLeft, MapThenFoldSet
<1> DEFINE Values == Seq(Keys)
<1>4. none \in Values
      OBVIOUS
<1>5. PICK h : States(S, Values, none, seq, h) /\ Folded(S, none, seq) = h[N]
  <2> HIDE DEF Keys, Items, Values, none, N
  <2>1. \A c \in Values, item \in Items : Cite(S, c, item) \in Values
        BY <1>2 DEF Values
  <2> QED BY <1>1, <1>4, <2>1, FoldStates DEF N
<1>6. h \in [0 .. N -> Values] /\ \A n \in 1 .. N : h[n] = Cite(S, h[n - 1], seq[n])
  <2> HIDE DEF Keys, Items, Values, none
  <2> QED BY <1>5 DEF States
<1>7. h[N] \in Seq(Keys) /\ (seq # <<>> => h[N] = Cite(S, h[N - 1], seq[N]) /\ h[N - 1] \in Seq(Keys) /\ seq[N] \in Items)
  <2>1. N \in 0 .. N /\ (seq # <<>> => N \in 1 .. N /\ N - 1 \in 0 .. N)
        BY <1>1
  <2> HIDE DEF Keys, N
  <2> QED BY <1>1, <1>6, <2>1
<1> HIDE DEF Named, Items
<1> HIDE DEF Keys
<1>8. seq # <<>> => h[N] # <<>>
      BY <1>2, <1>7
<1> QED BY <1>3, <1>5, <1>7, <1>8 DEF Keys, Named

(***************************************************************************)
(* What a turn may load: the messages of the turns it sees, in the order   *)
(* in which they began, each once.                                         *)
(***************************************************************************)
\* The messages of a turn are messages.
LEMMA MessageType ==
    ASSUME NEW u \in Requests, NEW role \in Roles, ask[u].length \in Nat, answer[u] \in Nat
    PROVE  Message(u, role) \in MessageSet /\ Message(u, role).by = u /\ Message(u, role).role = role
  BY DEF Message, MessageSet

\* Their lengths are numbers.
LEMMA LengthsOfMessages == \A m \in MessageSet : m.length \in Nat
  BY DEF MessageSet

\* So are those of the conversation there was.
LEMMA EarlierType ==
    /\ Earlier \in Seq(MessageSet)
    /\ \A i \in DOMAIN Earlier : Earlier[i].by = "earlier"
<1> DEFINE Past == [by : {"earlier"}, role : {"user", "assistant"}, length : Nat]
<1>1. Past \subseteq MessageSet /\ Earlier \in Seq(Past)
      BY EarlierAssumption DEF MessageSet, Roles
<1>2. Earlier \in Seq(MessageSet)
  <2> HIDE DEF Past
  <2> QED BY <1>1
<1>3. \A i \in DOMAIN Earlier : Earlier[i] \in Past
  <2> HIDE DEF Past
  <2> QED BY <1>1
<1> QED BY <1>2, <1>3

\* The rows of a turn, in one of the orders the database may give them.
LEMMA MessagesOfType ==
    ASSUME NEW u \in Requests, NEW userFirst, rows[u] \in {{}, {"user"}, Roles}
    PROVE  /\ MessagesOf(u, u \in userFirst) \in Seq(rows[u]) /\ Len(MessagesOf(u, u \in userFirst)) = Cardinality(rows[u])
           /\ Cardinality(rows[u]) \in 0 .. 2 /\ (rows[u] = {"user"} => Cardinality(rows[u]) = 1)
           /\ \A i, j \in DOMAIN MessagesOf(u, u \in userFirst) :
                 MessagesOf(u, u \in userFirst)[i] = MessagesOf(u, u \in userFirst)[j] => i = j
<1> USE DEF MessagesOf
<1>1. CASE rows[u] = Roles
  <2>1. Cardinality(Roles) = 2
    <3> DEFINE first == {"user"}
    <3>1. Cardinality(first) = 1 /\ IsFiniteSet(first)
          BY FS_Singleton
    <3>2. Roles = first \cup {"assistant"} /\ "assistant" \notin first
          BY DEF Roles
    <3> HIDE DEF first
    <3>3. Cardinality(first \cup {"assistant"}) = Cardinality(first) + 1
          BY <3>1, <3>2, FS_AddElement
    <3> QED BY <3>1, <3>2, <3>3
  <2>2. \A s : s = <<"user", "assistant">> \/ s = <<"assistant", "user">> =>
            /\ s \in Seq(Roles) /\ Len(s) = 2
            /\ \A i, j \in DOMAIN s : s[i] = s[j] => i = j
    <3>1. <<"user", "assistant">> \in Seq(Roles) /\ <<"assistant", "user">> \in Seq(Roles)
          BY DEF Roles
    <3>2. \A s : s = <<"user", "assistant">> \/ s = <<"assistant", "user">> =>
             Len(s) = 2 /\ DOMAIN s = {1, 2} /\ s[1] # s[2]
          OBVIOUS
    <3> QED BY <3>1, <3>2
  <2>3. rows[u] # {"user"}
        BY <1>1 DEF Roles
  <2> QED BY <1>1, <2>1, <2>2, <2>3
<1>2. CASE rows[u] # Roles
  <2> DEFINE n == Cardinality(rows[u])
             Orders == {f \in [1 .. n -> rows[u]] : IsInjective(f)}
  <2>1. n \in {0, 1} /\ (rows[u] = {"user"} => n = 1) /\ (rows[u] = {} => n = 0)
        BY <1>2, FS_EmptySet, FS_Singleton
  <2>2. Orders # {}
    <3>1. CASE rows[u] = {}
      <4>1. <<>> \in [1 .. 0 -> rows[u]] /\ IsInjective(<<>>)
            BY DEF IsInjective
      <4> QED BY <2>1, <3>1, <4>1
    <3>2. CASE rows[u] = {"user"}
      <4>1. [i \in 1 .. 1 |-> "user"] \in Orders
            BY <2>1, <3>2 DEF IsInjective
      <4> QED BY <4>1
    <3> QED BY <1>2, <3>1, <3>2
  <2>3. MessagesOf(u, u \in userFirst) \in Orders
        BY <1>2, <2>2 DEF SetToSeq
  <2> HIDE DEF MessagesOf
  <2>4. MessagesOf(u, u \in userFirst) \in Seq(rows[u]) /\ DOMAIN MessagesOf(u, u \in userFirst) = 1 .. n /\ Len(MessagesOf(u, u \in userFirst)) = n
        BY <2>1, <2>3
  <2> QED BY <2>1, <2>3, <2>4 DEF IsInjective
<1> QED BY <1>1, <1>2

\* What a turn may load: messages of seen turns that began by n, after the earlier
\* ones, in the order of their beginning, each once.
PastTo(t, n, seq) ==
    /\ seq \in Seq(MessageSet)
    /\ \A i \in DOMAIN seq :
          \/ seq[i].by = "earlier" /\ ask[t].conversation = "old"
          \/ \E u \in SeenTurns(t) : \E role \in rows[u] : seq[i] = Message(u, role) /\ began[u] \in 1 .. n
    /\ \A i, j \in DOMAIN seq :
          i < j /\ seq[i].by # "earlier" =>
              seq[j].by # "earlier" /\ seq[i] # seq[j] /\ began[seq[i].by] <= began[seq[j].by]

\* The messages of the turn that began at n.
LEMMA AppendTurn ==
    ASSUME StoreInv, answer \in [Requests -> Nat], NEW t \in Requests, NEW n \in Nat \ {0},
           NEW seq, PastTo(t, n - 1, seq), NEW u \in SeenTurns(t), began[u] = n,
           NEW userFirst
    PROVE  PastTo(t, n, seq \o [i \in DOMAIN MessagesOf(u, u \in userFirst) |-> Message(u, MessagesOf(u, u \in userFirst)[i])])
<1> DEFINE roles == MessagesOf(u, u \in userFirst)
           new == [i \in DOMAIN roles |-> Message(u, roles[i])]
           all == seq \o new
<1>1. u \in Requests /\ ask[u].length \in Nat /\ rows[u] \in {{}, {"user"}, Roles}
      BY AskOfRequests DEF StoreInv, SeenTurns, StoredByStep
<1>2. roles \in Seq(rows[u]) /\ \A i, j \in DOMAIN roles : roles[i] = roles[j] => i = j
      BY <1>1, MessagesOfType
<1> HIDE DEF roles
<1>3. \A i \in DOMAIN roles : roles[i] \in rows[u] /\ roles[i] \in Roles
      BY <1>1, <1>2 DEF Roles
<1>4. \A i \in DOMAIN roles : new[i] = Message(u, roles[i]) /\ new[i] \in MessageSet /\ new[i].by = u /\ new[i].role = roles[i]
      BY <1>1, <1>3, MessageType
<1>5. DOMAIN roles = 1 .. Len(roles) /\ Len(roles) \in Nat
      BY <1>2
<1>6. new \in Seq(MessageSet) /\ Len(new) = Len(roles) /\ DOMAIN new = 1 .. Len(roles)
      BY <1>4, <1>5
<1>7. seq \in Seq(MessageSet) /\ Len(seq) \in Nat /\ DOMAIN seq = 1 .. Len(seq)
      BY DEF PastTo
<1> HIDE DEF new
<1>8. all \in Seq(MessageSet) /\ DOMAIN all = 1 .. Len(seq) + Len(roles)
      BY <1>5, <1>6, <1>7
<1>9. \A i \in DOMAIN seq : all[i] = seq[i]
      BY <1>6, <1>7
<1>10. \A i \in DOMAIN all : i \notin DOMAIN seq => i - Len(seq) \in DOMAIN roles /\ all[i] = new[i - Len(seq)]
  <2> TAKE i \in DOMAIN all
  <2> HAVE i \notin DOMAIN seq
  <2>1. i - Len(seq) \in 1 .. Len(roles) /\ i > Len(seq) /\ i \in 1 .. Len(seq) + Len(new)
        BY <1>5, <1>6, <1>7, <1>8
  <2> QED BY <2>1, <1>5, <1>6, <1>7, ConcatProperties
<1> HIDE DEF all
<1>11. u # "earlier"
      BY <1>1, EarlierAssumption
<1>12. \A i \in DOMAIN seq : seq[i].by # "earlier" => seq[i].by \in Requests /\ began[seq[i].by] \in 1 .. n - 1
  <2> TAKE i \in DOMAIN seq
  <2> HAVE seq[i].by # "earlier"
  <2>1. PICK v \in SeenTurns(t) : \E role \in rows[v] : seq[i] = Message(v, role) /\ began[v] \in 1 .. n - 1
        BY DEF PastTo
  <2>2. v \in Requests /\ seq[i].by = v
        BY <2>1 DEF SeenTurns, Message
  <2> QED BY <2>1, <2>2
<1>13. ASSUME NEW i \in DOMAIN all
       PROVE  \/ all[i].by = "earlier" /\ ask[t].conversation = "old"
              \/ \E v \in SeenTurns(t) : \E role \in rows[v] : all[i] = Message(v, role) /\ began[v] \in 1 .. n
  <2>1. CASE i \in DOMAIN seq
    <3>1. \A v : began[v] \in 1 .. n - 1 => began[v] \in 1 .. n
          OBVIOUS
    <3> QED BY <1>9, <2>1, <3>1 DEF PastTo
  <2>2. CASE i \notin DOMAIN seq
    <3>1. n \in 1 .. n
          OBVIOUS
    <3> QED BY <1>3, <1>4, <1>10, <2>2, <3>1
  <2> QED BY <2>1, <2>2
<1>14. ASSUME NEW i \in DOMAIN all, NEW j \in DOMAIN all, i < j, all[i].by # "earlier"
       PROVE  all[j].by # "earlier" /\ all[i] # all[j] /\ began[all[i].by] <= began[all[j].by]
  <2>1. CASE j \in DOMAIN seq
    <3>1. i \in DOMAIN seq
          BY <1>7, <1>8, <1>14, <2>1
    <3> QED BY <1>9, <1>14, <2>1, <3>1 DEF PastTo
  <2>2. CASE j \notin DOMAIN seq
    <3>1. all[j].by = u /\ all[j].role = roles[j - Len(seq)] /\ j - Len(seq) \in DOMAIN roles
          BY <1>4, <1>10, <2>2
    <3>2. CASE i \in DOMAIN seq
      <4>1. all[i].by \in Requests /\ began[all[i].by] \in 1 .. n - 1
            BY <1>9, <1>12, <1>14, <3>2
      <4>2. began[all[i].by] <= n /\ began[all[i].by] # n
            BY <4>1
      <4> QED BY <1>11, <3>1, <4>2
    <3>3. CASE i \notin DOMAIN seq
      <4>1. all[i].by = u /\ all[i].role = roles[i - Len(seq)] /\ i - Len(seq) \in DOMAIN roles
            BY <1>4, <1>10, <3>3
      <4>2. i - Len(seq) # j - Len(seq)
            BY <1>7, <1>8, <1>14
      <4> QED BY <1>2, <1>11, <3>1, <4>1, <4>2
    <3> QED BY <3>2, <3>3
  <2> QED BY <2>1, <2>2
<1> QED BY <1>8, <1>13, <1>14 DEF PastTo, all, new, roles

\* All that a turn sees of its conversation.
LEMMA ChronologicalIsPast ==
    ASSUME StoreInv, answer \in [Requests -> Nat], NEW t \in Requests, NEW userFirst
    PROVE  PastTo(t, Cardinality(Requests), Chronological(t, userFirst))
<1> DEFINE N == Cardinality(Requests)
           turn(n) == {u \in SeenTurns(t) : began[u] = n}
           MessagesAt(n) ==
               IF turn(n) = {} THEN <<>>
               ELSE LET u == CHOOSE v \in turn(n) : TRUE
                        roles == MessagesOf(u, u \in userFirst)
                    IN  [i \in DOMAIN roles |-> Message(u, roles[i])]
           first == IF ask[t].conversation = "old" THEN Earlier ELSE <<>>
           Rec(f) == f = [n \in 0 .. N |-> IF n > 0 THEN f[n - 1] \o MessagesAt(n)
                                           ELSE IF ask[t].conversation = "old" THEN Earlier ELSE <<>>]
           u == CHOOSE f : Rec(f)
<1>1. N \in Nat
      BY RequestsFinite
<1>2. Chronological(t, userFirst) = u[N]
      BY DEF Chronological
<1>3. PastTo(t, 0, first)
  <2>1. CASE ask[t].conversation = "old"
        BY <2>1, EarlierType DEF PastTo
  <2>2. CASE ask[t].conversation # "old"
    <3>1. <<>> \in Seq(MessageSet) /\ DOMAIN <<>> = {}
          OBVIOUS
    <3> QED BY <2>2, <3>1 DEF PastTo
  <2> QED BY <2>1, <2>2
<1>4. ASSUME NEW n \in 1 .. N, NEW seq, PastTo(t, n - 1, seq)
      PROVE  PastTo(t, n, seq \o MessagesAt(n))
  <2>1. CASE turn(n) = {}
    <3>1. seq \in Seq(MessageSet) /\ seq \o MessagesAt(n) = seq
          BY <1>4, <2>1 DEF PastTo
    <3>2. \A v : began[v] \in 1 .. n - 1 => began[v] \in 1 .. n
          OBVIOUS
    <3> HIDE DEF MessagesAt
    <3> QED BY <1>4, <3>1, <3>2 DEF PastTo
  <2>2. CASE turn(n) # {}
    <3> DEFINE v == CHOOSE v \in turn(n) : TRUE
    <3>1. v \in SeenTurns(t) /\ began[v] = n
          BY <2>2
    <3>2. MessagesAt(n) = [i \in DOMAIN MessagesOf(v, v \in userFirst) |-> Message(v, MessagesOf(v, v \in userFirst)[i])]
          BY <2>2
    <3> HIDE DEF MessagesAt, v
    <3>3. n \in Nat \ {0}
          OBVIOUS
    <3> QED BY <1>4, <3>1, <3>2, <3>3, AppendTurn
  <2> QED BY <2>1, <2>2
<1> HIDE DEF MessagesAt
<1> DEFINE Messages == Seq(MessageSet)
           F == [n \in 1 .. N |-> [x \in Messages |-> IF x \o MessagesAt(n) \in Messages THEN x \o MessagesAt(n) ELSE <<>>]]
           P(f) == \A n \in 0 .. N : PastTo(t, n, f[n])
<1>5. \E f : Rec(f)
  <2>1. F \in [1 .. N -> [Messages -> Messages]] /\ first \in Messages
        BY EarlierType
  <2>2. \E g : Recursion(N, Messages, first, F, g)
    <3> HIDE DEF F, Messages, N, first
    <3> QED BY <1>1, <2>1, RecursionTo DEF N
  <2>3. PICK g : Recursion(N, Messages, first, F, g)
        BY <2>2
  <2> DEFINE Q == {n \in 0 .. N : PastTo(t, n, g[n])}
  <2>4. 0 \in Q
        BY <1>1, <1>3, <2>3 DEF Recursion
  <2>5. ASSUME NEW n \in 1 .. N, n - 1 \in Q PROVE n \in Q /\ g[n] = g[n - 1] \o MessagesAt(n)
    <3>1. PastTo(t, n - 1, g[n - 1]) /\ PastTo(t, n, g[n - 1] \o MessagesAt(n))
          BY <1>4, <2>5
    <3>2. g[n - 1] \in Messages /\ g[n - 1] \o MessagesAt(n) \in Messages
          BY <3>1 DEF PastTo
    <3>3. g[n] = F[n][g[n - 1]]
          BY <2>3 DEF Recursion
    <3>4. F[n][g[n - 1]] = g[n - 1] \o MessagesAt(n)
          BY <3>2
    <3>5. g[n] = g[n - 1] \o MessagesAt(n)
          BY <3>3, <3>4
    <3>6. PastTo(t, n, g[n]) /\ n \in 0 .. N
          BY <3>1, <3>5
    <3> HIDE DEF F, Rec
    <3> QED BY <3>5, <3>6
  <2>6. 0 .. N \subseteq Q
    <3> HIDE DEF Q, N
    <3> QED BY <1>1, <2>4, <2>5, InductionTo DEF N
  <2>7. \A n \in 1 .. N : g[n] = g[n - 1] \o MessagesAt(n)
    <3> TAKE n \in 1 .. N
    <3>1. n - 1 \in 0 .. N
          BY <1>1
    <3> HIDE DEF Q
    <3> QED BY <2>5, <2>6, <3>1
  <2>8. g = [n \in 0 .. N |-> IF n > 0 THEN g[n - 1] \o MessagesAt(n) ELSE first]
        BY <1>1, <2>3, <2>7 DEF Recursion
  <2> QED BY <2>8
<1>6. Rec(u)
  <2> HIDE DEF Rec
  <2> QED BY <1>5
<1> HIDE DEF u
<1>7. u[0] = first /\ \A n \in 1 .. N : u[n] = u[n - 1] \o MessagesAt(n)
  <2>1. \A n \in 0 .. N : u[n] = IF n > 0 THEN u[n - 1] \o MessagesAt(n) ELSE first
        BY <1>6
  <2>2. 0 \in 0 .. N /\ \A n \in 1 .. N : n \in 0 .. N /\ n > 0
        BY <1>1
  <2> HIDE DEF Rec, first, N, F
  <2>3. u[0] = first
        BY <2>1, <2>2
  <2>4. ASSUME NEW n \in 1 .. N PROVE u[n] = u[n - 1] \o MessagesAt(n)
    <3>1. n \in 0 .. N /\ n > 0
          BY <2>2
    <3> QED BY <2>1, <3>1
  <2> QED BY <2>3, <2>4
<1> DEFINE Q == {n \in 0 .. N : PastTo(t, n, u[n])}
<1>8. 0 \in Q /\ \A n \in 1 .. N : n - 1 \in Q => n \in Q
  <2>1. 0 \in 0 .. N /\ PastTo(t, 0, u[0])
        BY <1>1, <1>3, <1>7
  <2>2. ASSUME NEW n \in 1 .. N, n - 1 \in Q PROVE n \in Q
    <3>1. PastTo(t, n - 1, u[n - 1]) /\ n \in 0 .. N
          BY <1>1, <2>2
    <3>2. PastTo(t, n, u[n])
          BY <1>4, <1>7, <3>1
    <3> QED BY <3>1, <3>2
  <2> QED BY <2>1, <2>2
<1>9. 0 .. N \subseteq Q
  <2> HIDE DEF Q, N
  <2> QED BY <1>1, <1>8, InductionTo DEF N
<1> QED BY <1>1, <1>2, <1>9

(***************************************************************************)
(* What a step leaves alone.                                               *)
(***************************************************************************)
\* The last messages of a sequence are the end of it.
LEMMA LastOfProperties ==
    ASSUME NEW S, NEW seq \in Seq(S), NEW n \in Nat
    PROVE  /\ LastOf(seq, n) \in Seq(S)
           /\ \E k \in 0 .. Len(seq) : /\ Len(LastOf(seq, n)) = Len(seq) - k
                                       /\ \A i \in 1 .. Len(seq) - k : LastOf(seq, n)[i] = seq[k + i]
<1> DEFINE k == IF Len(seq) > n THEN Len(seq) - n ELSE 0
<1>1. k \in 0 .. Len(seq) /\ Len(seq) \in Nat
      OBVIOUS
<1>2. LastOf(seq, n) = SubSeq(seq, k + 1, Len(seq))
      BY DEF LastOf
<1> HIDE DEF k
<1>3. \A i \in k + 1 .. Len(seq) : seq[i] \in S
      BY <1>1
<1>4. LastOf(seq, n) \in Seq(S) /\ Len(LastOf(seq, n)) = Len(seq) - k
      /\ \A i \in 1 .. Len(seq) - k : LastOf(seq, n)[i] = seq[k + i]
      BY <1>1, <1>2, <1>3, SubSeqProperties
<1> QED BY <1>1, <1>4

\* A turn acts on its own data.
LEMMA TurnDataFrame ==
    ASSUME StoreInv, TypeOK, NEW t \in Requests, Kinds(t)
    PROVE  \A u \in Requests \ {t} :
               /\ recent'[u] = recent[u] /\ filter'[u] = filter[u] /\ items'[u] = items[u]
               /\ history'[u] = history[u] /\ cites'[u] = cites[u] /\ answer'[u] = answer[u]
<1> USE DEF TypeOK
<1>1. CASE Fail(t)
      BY <1>1 DEF Fail
<1>2. CASE Commit(t)
      BY <1>2 DEF Commit, turnVars
<1>3. CASE (Attach(t) \/ Load(t) \/ Plan(t) \/ Rewrite(t)) /\ ~Fail(t)
      BY <1>3 DEF Attach, Load, Plan, Rewrite
<1>4. CASE Retrieve(t)
      BY <1>4 DEF Retrieve, Assemble
<1>5. CASE Generate(t) \/ Store(t)
      BY <1>5 DEF Generate, Store
<1> QED BY <1>1, <1>2, <1>3, <1>4, <1>5 DEF Kinds, Works, Work

\* What has begun keeps its time, what is committed stays.
LEMMA PastStays ==
    ASSUME StoreInv, [Next]_vars
    PROVE  /\ who' = who /\ ask' = ask
           /\ \A u \in Requests : step[u] = "committed" => step'[u] = "committed"
           /\ \A u \in Requests : pc[u] # "attach" \/ step[u] = "committed" => began'[u] = began[u]
           /\ \A t, u \in Requests : SameConversation(t, u)' = SameConversation(t, u)
           /\ \A t \in Requests : Question(t)' = Question(t)
           /\ \A t \in Requests : pc[t] # "attach" /\ Overtaken(t) => Overtaken(t)'
<1>1. who' = who /\ ask' = ask /\ \A u \in Requests : step[u] = "committed" => step'[u] = "committed"
      BY StepKinds, AsideFrame, KindsFrame DEF StoreInv, turnVars
<1>2. ASSUME NEW u \in Requests, pc[u] # "attach" \/ step[u] = "committed" PROVE began'[u] = began[u]
  <2>1. step[u] \in {"ready", "committed"}
        BY <1>2 DEF StoreInv, TurnByStep
  <2>2. ASSUME NEW s \in Sessions, IdentityStep(s) PROVE began'[u] = began[u]
    <3>1. CASE s # u
          BY <2>2, <3>1, SessionFrame DEF StoreInv
    <3>2. CASE s = u
          BY <2>1, <2>2, <3>2, RequestsAssumption
          DEF StoreInv, IdentityTypeOK, IdentityStep, SignIn, Authenticate, Receive, Lookup, ReserveUniqueSlug,
              AddOrganization, AddUser, Acknowledge, Crash, Abort, Commits, RoleMissing, ApplicationError
    <3> QED BY <3>1, <3>2
  <2> QED BY <2>2, StepOfSessions DEF StoreInv, identityVars
<1>3. /\ \A t, u \in Requests : SameConversation(t, u)' = SameConversation(t, u)
      /\ \A t \in Requests : Question(t)' = Question(t)
      BY <1>1 DEF SameConversation, Question, Message
<1>4. ASSUME NEW t \in Requests, pc[t] # "attach", Overtaken(t) PROVE Overtaken(t)'
  <2>1. PICK u \in Requests : SameConversation(t, u) /\ step[u] = "committed" /\ began[u] > began[t]
        BY <1>4 DEF Overtaken
  <2>2. SameConversation(t, u)' /\ step'[u] = "committed" /\ began'[u] > began'[t]
        BY <1>1, <1>2, <1>3, <1>4, <2>1
  <2> QED BY <2>2 DEF Overtaken
<1> QED BY <1>1, <1>2, <1>3, <1>4

(***************************************************************************)
(* What a turn loads, and what it makes of it.                             *)
(***************************************************************************)
\* RecentIsPast of one turn.
LoadedRight(t, seq) ==
    /\ seq \in Seq(MessageSet)
    /\ \A i, j \in DOMAIN seq : i # j => seq[i] # seq[j] \/ seq[i].by = "earlier"
    /\ \A i \in DOMAIN seq :
          \/ seq[i].by = "earlier" /\ ask[t].conversation = "old" /\ who[t] = Holder
          \/ seq[i].by \in Requests \ {t} /\ SameConversation(t, seq[i].by) /\ step[seq[i].by] = "committed"
          \/ seq[i] = Question(t) /\ (i = Len(seq) \/ Overtaken(t))

\* Whatever order the database gives equal times, the question is the last message
\* unless a turn that began later has committed.
LEMMA LoadsPast ==
    ASSUME StoreInv, TypeOK, NEW t \in Requests, At(t, "load"), NEW seq \in ListRecent(t)
    PROVE  LoadedRight(t, seq)
<1>1. PICK userFirst \in SUBSET SeenTurns(t) : seq = LastOf(Chronological(t, userFirst), HistoryLimit)
      BY DEF ListRecent
<1> DEFINE all == Chronological(t, userFirst)
           N == Cardinality(Requests)
<1>2. PastTo(t, N, all)
      BY ChronologicalIsPast DEF TypeOK
<1> HIDE DEF all, N
<1>3. all \in Seq(MessageSet) /\ HistoryLimit \in Nat
      BY <1>2, LimitsAssumption DEF PastTo
<1>4. seq \in Seq(MessageSet) /\ \E k \in 0 .. Len(all) : Len(seq) = Len(all) - k /\ \A i \in 1 .. Len(all) - k : seq[i] = all[k + i]
      BY <1>1, <1>3, LastOfProperties DEF all
<1>5. PICK k \in 0 .. Len(all) : Len(seq) = Len(all) - k /\ \A i \in 1 .. Len(all) - k : seq[i] = all[k + i]
      BY <1>4
<1>6. DOMAIN seq = 1 .. Len(seq) /\ Len(seq) \in Nat /\ DOMAIN all = 1 .. Len(all) /\ Len(all) \in Nat
      BY <1>3, <1>4
<1>7. \A i \in DOMAIN seq : k + i \in DOMAIN all /\ seq[i] = all[k + i]
      BY <1>5, <1>6
<1>8. \A i, j \in DOMAIN seq : i < j /\ seq[i].by # "earlier" =>
          seq[j].by # "earlier" /\ seq[i] # seq[j] /\ began[seq[i].by] <= began[seq[j].by]
  <2> TAKE i, j \in DOMAIN seq
  <2>1. i < j => k + i < k + j
        BY <1>5, <1>6
  <2> QED BY <1>2, <1>7, <2>1 DEF PastTo
<1>9. \A i, j \in DOMAIN seq : i # j => seq[i] # seq[j] \/ seq[i].by = "earlier"
  <2> TAKE i, j \in DOMAIN seq
  <2>1. i < j \/ j < i \/ i = j
        BY <1>6
  <2> QED BY <1>8, <2>1
<1>10. \A i \in DOMAIN seq : \/ seq[i].by = "earlier" /\ ask[t].conversation = "old"
                             \/ \E u \in SeenTurns(t) : \E role \in rows[u] : seq[i] = Message(u, role)
      BY <1>2, <1>7 DEF PastTo
<1>11. rows[t] \subseteq {"user"} /\ (ask[t].conversation = "old" => who[t] = Holder)
      BY DEF StoreInv, StoredByStep, TurnByStep, At, FindsConversation
<1>12. ASSUME NEW i \in DOMAIN seq, seq[i].by # "earlier"
       PROVE  \/ seq[i].by \in Requests \ {t} /\ SameConversation(t, seq[i].by) /\ step[seq[i].by] = "committed"
              \/ seq[i] = Question(t)
  <2>1. PICK u \in SeenTurns(t) : \E role \in rows[u] : seq[i] = Message(u, role)
        BY <1>10, <1>12
  <2>2. seq[i].by = u /\ u \in Requests
        BY <2>1 DEF Message, SeenTurns
  <2> QED BY <1>11, <2>1, <2>2 DEF SeenTurns, Question
<1>13. ASSUME NEW i \in DOMAIN seq, seq[i] = Question(t), i # Len(seq) PROVE Overtaken(t)
  <2> DEFINE j == Len(seq)
  <2>1. i < j /\ j \in DOMAIN seq
        BY <1>6, <1>13
  <2>2. seq[i].by = t /\ t # "earlier"
        BY <1>13, EarlierAssumption DEF Question, Message
  <2>3. seq[j].by # "earlier" /\ seq[j] # Question(t) /\ began[t] <= began[seq[j].by]
        BY <1>8, <1>13, <2>1, <2>2
  <2>4. seq[j].by \in Requests \ {t} /\ SameConversation(t, seq[j].by) /\ step[seq[j].by] = "committed"
        BY <1>12, <2>1, <2>3
  <2>5. began[seq[j].by] # began[t] /\ began[t] \in Nat /\ began[seq[j].by] \in Nat
    <3>1. began[t] > 0
          BY DEF StoreInv, IdentityInv, BeginsInOrder, At, Open
    <3> QED BY <2>4, <3>1, RequestsFinite DEF StoreInv, IdentityInv, BeginsInOrder, IdentityTypeOK
  <2>6. began[seq[j].by] > began[t]
        BY <2>3, <2>5
  <2> QED BY <2>4, <2>6 DEF Overtaken
<1>14. \A i \in DOMAIN seq : seq[i].by = "earlier" => ask[t].conversation = "old" /\ who[t] = Holder
  <2> TAKE i \in DOMAIN seq
  <2> HAVE seq[i].by = "earlier"
  <2>1. \A u \in SeenTurns(t) : \A role : seq[i] # Message(u, role)
        BY EarlierAssumption DEF Message, SeenTurns
  <2> QED BY <1>10, <1>11, <2>1
<1>15. \A i \in DOMAIN seq :
          \/ seq[i].by = "earlier" /\ ask[t].conversation = "old" /\ who[t] = Holder
          \/ seq[i].by \in Requests \ {t} /\ SameConversation(t, seq[i].by) /\ step[seq[i].by] = "committed"
          \/ seq[i] = Question(t) /\ (i = Len(seq) \/ Overtaken(t))
      BY <1>12, <1>13, <1>14
<1> QED BY <1>4, <1>9, <1>15 DEF LoadedRight

(***************************************************************************)
(* What a turn makes of the messages and of the chunks.                    *)
(***************************************************************************)
\* The history in the prompt: of the conversation, each message once, and it fits.
LEMMA AssembledHistory ==
    ASSUME NEW t \in Requests, NEW seq, LoadedRight(t, seq)
    PROVE  LET block == AssembleHistory(seq, Question(t), HistoryBudget) IN
           /\ block \in Seq(MessageSet)
           /\ TotalLength(block) <= HistoryBudget
           /\ \A i, j \in DOMAIN block : i # j => block[i] # block[j] \/ block[i].by = "earlier"
           /\ \A i \in DOMAIN block :
                 \/ block[i].by = "earlier" /\ ask[t].conversation = "old" /\ who[t] = Holder
                 \/ block[i].by \in Requests \ {t} /\ SameConversation(t, block[i].by) /\ step[block[i].by] = "committed"
                 \/ block[i].by = t /\ Overtaken(t)
<1> DEFINE past == WithoutOwn(seq, Question(t))
           block == AssembleHistory(seq, Question(t), HistoryBudget)
<1>1. seq \in Seq(MessageSet) /\ Len(seq) \in Nat /\ DOMAIN seq = 1 .. Len(seq)
      BY DEF LoadedRight
<1>2. /\ past \in Seq(MessageSet) /\ Len(past) <= Len(seq)
      /\ \A i \in 1 .. Len(past) : past[i] = seq[i]
      /\ Len(past) = Len(seq) => seq = <<>> \/ seq[Len(seq)] # Question(t)
  <2>1. CASE seq # <<>> /\ seq[Len(seq)] = Question(t)
    <3>1. past = SubSeq(seq, 1, Len(seq) - 1)
          BY <2>1 DEF WithoutOwn
    <3>2. Len(seq) - 1 \in Nat
          BY <1>1, <2>1
    <3> HIDE DEF past
    <3>3. \A i \in 1 .. Len(seq) - 1 : seq[i] \in MessageSet
          BY <1>1
    <3>4. past \in Seq(MessageSet) /\ Len(past) = Len(seq) - 1 /\ \A i \in 1 .. Len(past) : past[i] = seq[i]
          BY <1>1, <3>1, <3>2, <3>3, SubSeqProperties
    <3>5. \A n \in Nat : n - 1 <= n /\ n - 1 # n
          OBVIOUS
    <3> QED BY <1>1, <3>4, <3>5
  <2>2. CASE ~(seq # <<>> /\ seq[Len(seq)] = Question(t))
    <3>1. past = seq
          BY <2>2 DEF WithoutOwn
    <3> QED BY <1>1, <2>2, <3>1
  <2> QED BY <2>1, <2>2
<1>3. block = PriorTurnsBlock(past, HistoryBudget)
      BY DEF AssembleHistory
<1> HIDE DEF past
<1>4. /\ block \in Seq(MessageSet)
      /\ TotalLength(block) <= HistoryBudget
      /\ Len(block) <= Len(past)
      /\ \A i \in 1 .. Len(block) : block[i] = past[Len(block) - i + 1]
      BY <1>2, <1>3, PriorTurnsFit, LengthsOfMessages, LimitsAssumption
<1> HIDE DEF block
<1>5. DOMAIN block = 1 .. Len(block) /\ Len(block) \in Nat /\ Len(past) \in Nat
      BY <1>2, <1>4
<1>6. \A i \in DOMAIN block : /\ Len(block) - i + 1 \in DOMAIN seq
                              /\ Len(block) - i + 1 <= Len(past)
                              /\ block[i] = seq[Len(block) - i + 1]
  <2> TAKE i \in DOMAIN block
  <2>1. Len(block) - i + 1 \in 1 .. Len(past) /\ Len(block) - i + 1 \in 1 .. Len(seq)
        BY <1>1, <1>2, <1>4, <1>5
  <2> QED BY <1>1, <1>2, <1>4, <1>5, <2>1
<1>7. \A i, j \in DOMAIN block : i # j => block[i] # block[j] \/ block[i].by = "earlier"
  <2> TAKE i, j \in DOMAIN block
  <2>1. i # j => Len(block) - i + 1 # Len(block) - j + 1
        BY <1>5
  <2> QED BY <1>6, <2>1 DEF LoadedRight
<1>8. ASSUME NEW i \in DOMAIN block
      PROVE  \/ block[i].by = "earlier" /\ ask[t].conversation = "old" /\ who[t] = Holder
             \/ block[i].by \in Requests \ {t} /\ SameConversation(t, block[i].by) /\ step[block[i].by] = "committed"
             \/ block[i].by = t /\ Overtaken(t)
  <2> DEFINE k == Len(block) - i + 1
  <2>1. k \in DOMAIN seq /\ k <= Len(past) /\ block[i] = seq[k]
        BY <1>6
  <2> HIDE DEF k
  <2>2. CASE seq[k] = Question(t) /\ k = Len(seq)
    <3>1. Len(past) = Len(seq) /\ seq # <<>>
          BY <1>1, <1>2, <1>5, <2>1, <2>2
    <3> QED BY <1>2, <2>2, <3>1
  <2>3. CASE seq[k] = Question(t) /\ Overtaken(t)
    <3>1. block[i].by = t
          BY <2>1, <2>3 DEF Question, Message
    <3> QED BY <2>3, <3>1
  <2> QED BY <2>1, <2>2, <2>3 DEF LoadedRight
<1> QED BY <1>4, <1>7, <1>8 DEF block

\* Chunks, as a search finds them.
Items == [doc : Docs, index : Nat, length : Nat]

\* The prompt and the citations, of chunks that a scoped search found.
LEMMA AssembledChunks ==
    ASSUME NEW t \in Requests, NEW found \in Seq(Items), found # <<>>, NEW seq
    PROVE  LET package == ContextPackage(seq, Question(t), found, TRUE, Limits) IN
           /\ package.items \in Seq(Items)
           /\ package.cites \in Seq([doc : {found[i].doc : i \in DOMAIN found}, index : Nat]) /\ package.cites # <<>>
           /\ package.history = AssembleHistory(seq, Question(t), HistoryBudget)
<1> DEFINE capped == Capped(found, MaxChunks)
           shown == Shown(capped, ContextBudget)
           package == ContextPackage(seq, Question(t), found, TRUE, Limits)
           CappedDocs == {capped[i].doc : i \in DOMAIN capped}
           FoundDocs == {found[i].doc : i \in DOMAIN found}
<1>1. /\ package.items = SubSeq(capped, 1, shown)
      /\ package.cites = CitationsFromChunks(capped)
      /\ package.history = AssembleHistory(seq, Question(t), HistoryBudget)
      BY DEF ContextPackage, AssembleRetrieved, AssembleCitations, Limits
<1> HIDE DEF package
<1>2. Len(found) \in Nat \ {0} /\ DOMAIN found = 1 .. Len(found)
      BY EmptySeq
<1>3. /\ capped \in Seq(Items) /\ capped # <<>> /\ DOMAIN capped \subseteq DOMAIN found
      /\ \A i \in DOMAIN capped : capped[i] = found[i]
  <2> DEFINE n == ShorterOf(Len(found), MaxChunks)
  <2>1. n \in 1 .. Len(found)
        BY <1>2, LimitsAssumption DEF ShorterOf
  <2>2. capped = SubSeq(found, 1, n)
        BY DEF Capped
  <2> HIDE DEF n, capped
  <2>3. \A i \in 1 .. n : found[i] \in Items
        BY <1>2, <2>1
  <2>4. capped \in Seq(Items) /\ Len(capped) = n /\ \A i \in 1 .. n : capped[i] = found[i]
        BY <1>2, <2>1, <2>2, <2>3, SubSeqProperties
  <2>5. DOMAIN capped = 1 .. n
        BY <2>4
  <2> QED BY <1>2, <2>1, <2>4, <2>5
<1> HIDE DEF capped
<1>4. shown \in 0 .. Len(capped)
  <2> DEFINE fitting == {n \in 1 .. Len(capped) : TotalLength(SubSeq(capped, 1, n - 1)) < ContextBudget}
  <2>1. Len(capped) \in Nat
        BY <1>3
  <2>2. IsFiniteSet(1 .. Len(capped)) /\ Cardinality(1 .. Len(capped)) = Len(capped)
    <3> DEFINE n == Len(capped)
    <3>1. n \in Nat /\ 1 \in Int /\ n \in Int
          BY <2>1
    <3>2. IsFiniteSet(1 .. n) /\ Cardinality(1 .. n) = IF 1 > n THEN 0 ELSE n - 1 + 1
      <4> HIDE DEF n
      <4> QED BY <3>1, FS_Interval
    <3>3. (IF 1 > n THEN 0 ELSE n - 1 + 1) = n
      <4> HIDE DEF n
      <4> QED BY <3>1
    <3> QED BY <3>2, <3>3
  <2>3. fitting \subseteq 1 .. Len(capped)
        OBVIOUS
  <2>4. Cardinality(fitting) <= Cardinality(1 .. Len(capped)) /\ Cardinality(fitting) \in Nat
    <3> HIDE DEF fitting
    <3> QED BY <2>2, <2>3, FS_Subset, FS_CardinalityType
  <2>5. shown = Cardinality(fitting)
        BY DEF Shown
  <2> HIDE DEF fitting, shown
  <2> QED BY <2>1, <2>2, <2>4, <2>5
<1> HIDE DEF shown
<1>5. SubSeq(capped, 1, shown) \in Seq(Items)
  <2>1. \A i \in 1 .. shown : capped[i] \in Items
        BY <1>3, <1>4
  <2> QED BY <1>4, <2>1, SubSeqProperties
<1>6. /\ CitationsFromChunks(capped) \in Seq([doc : CappedDocs, index : Nat])
      /\ CitationsFromChunks(capped) # <<>>
  <2>1. \A item \in Items : item.index \in Nat
        BY DEF Items
  <2> DEFINE Index == Nat
  <2>2. /\ CitationsFromChunks(capped) \in Seq([doc : {capped[i].doc : i \in DOMAIN capped}, index : Index])
        /\ capped # <<>> => CitationsFromChunks(capped) # <<>>
    <3>1. \A item \in Items : item.index \in Index
          BY <2>1
    <3> HIDE DEF Index
    <3> QED BY <1>3, <3>1, CitationsOfChunks
  <2> QED BY <1>3, <2>2
<1>7. [doc : CappedDocs, index : Nat] \subseteq [doc : FoundDocs, index : Nat]
  <2>1. CappedDocs \subseteq FoundDocs
        BY <1>3
  <2> HIDE DEF CappedDocs, FoundDocs
  <2> QED BY <2>1
<1>8. CitationsFromChunks(capped) \in Seq([doc : FoundDocs, index : Nat])
  <2> HIDE DEF CappedDocs, FoundDocs
  <2> QED BY <1>6, <1>7, SeqMonotonic
<1> QED BY <1>1, <1>5, <1>6, <1>8 DEF package

\* What a search finds: chunks of the documents asked for, of the user's organization.
LEMMA FindingsInScope ==
    ASSUME StoreInv, TypeOK, ScopedToRequest, NEW t \in Requests, At(t, "search"), NEW found \in Findings(t)
    PROVE  /\ found \in Seq(Items) /\ filter[t].scoped = TRUE
           /\ \A i \in DOMAIN found : found[i].doc \in ask[t].docs /\ OwnerOf[found[i].doc] = who[t]
<1>1. filter[t] = [scoped |-> TRUE, docs |-> ask[t].docs]
      BY DEF ScopedToRequest, At
<1>2. DocScope(filter[t], ask[t].docs).scoped /\ DocScope(filter[t], ask[t].docs).docs = ask[t].docs
  <2>1. filter[t].scoped = TRUE /\ filter[t].docs = ask[t].docs
        BY <1>1
  <2> QED BY <2>1 DEF DocScope
<1>3. \A c \in InScope(t) : c \in Items /\ c.doc \in ask[t].docs /\ OwnerOf[c.doc] = who[t]
      BY <1>2, ChunksAssumption DEF InScope, Items
<1>4. PICK m \in 0 .. TopK : found \in [1 .. m -> InScope(t)]
      BY DEF Findings, BoundedSeq, SeqOf
<1>5. m \in Nat /\ DOMAIN found = 1 .. m
      BY <1>4, LimitsAssumption
<1>6. found \in Seq(Items)
      BY <1>3, <1>4, <1>5
<1> QED BY <1>1, <1>3, <1>4, <1>5, <1>6

\* What a model answers has text.
LEMMA CompletionsAreTexts == Completions(Models, Responses) \subseteq Nat \ {0}
  BY ModelsAssumption DEF Completions, Raised

\* The invariant says of each turn what LoadedRight does.
LEMMA RecentIsLoadedRight ==
    ASSUME TypeOK, RecentIsPast, NEW t \in Requests
    PROVE  LoadedRight(t, recent[t])
  BY DEF TypeOK, RecentIsPast, LoadedRight

\* What the nodes of the graph make of what was found.
LEMMA RetrieveAssembles ==
    ASSUME StoreInv, TypeOK, ScopedToRequest, RecentIsPast, NEW t \in Requests, Retrieve(t)
    PROVE  /\ recent' = [recent EXCEPT ![t] = <<>>] /\ filter' = [filter EXCEPT ![t] = NoFilter]
           /\ UNCHANGED <<identityVars, ask, rows, answer>>
           /\ \/ pc' = [pc EXCEPT ![t] = "insufficient"] /\ UNCHANGED <<items, cites, history>>
              \/ /\ pc' = [pc EXCEPT ![t] = "generate"]
                 /\ \E new \in Seq(Items) : items' = [items EXCEPT ![t] = new]
                 /\ history' = [history EXCEPT ![t] = AssembleHistory(recent[t], Question(t), HistoryBudget)]
                 /\ \E new \in Seq([doc : Docs, index : Nat]) :
                       /\ cites' = [cites EXCEPT ![t] = new] /\ new # <<>>
                       /\ \A i \in DOMAIN new : new[i].doc \in ask[t].docs /\ OwnerOf[new[i].doc] = who[t]
<1>1. PICK found \in Findings(t) :
          /\ pc' = [pc EXCEPT ![t] = RouteAfterRetrieval(found)]
          /\ IF found = <<>> THEN UNCHANGED <<items, cites, history>> ELSE Assemble(t, found)
      BY DEF Retrieve
<1>2. recent' = [recent EXCEPT ![t] = <<>>] /\ filter' = [filter EXCEPT ![t] = NoFilter]
      /\ UNCHANGED <<identityVars, ask, rows, answer>> /\ At(t, "search")
      BY DEF Retrieve
<1>3. CASE found = <<>>
      BY <1>1, <1>2, <1>3 DEF RouteAfterRetrieval
<1>4. CASE found # <<>>
  <2>1. /\ found \in Seq(Items) /\ filter[t].scoped = TRUE
        /\ \A i \in DOMAIN found : found[i].doc \in ask[t].docs /\ OwnerOf[found[i].doc] = who[t]
        BY <1>2, FindingsInScope
  <2> DEFINE package == ContextPackage(recent[t], Question(t), found, TRUE, Limits)
             FoundDocs == {found[i].doc : i \in DOMAIN found}
  <2>2. /\ items' = [items EXCEPT ![t] = package.items]
        /\ cites' = [cites EXCEPT ![t] = package.cites]
        /\ history' = [history EXCEPT ![t] = package.history]
        BY <1>1, <1>4, <2>1 DEF Assemble
  <2>3. /\ package.items \in Seq(Items)
        /\ package.cites \in Seq([doc : FoundDocs, index : Nat]) /\ package.cites # <<>>
        /\ package.history = AssembleHistory(recent[t], Question(t), HistoryBudget)
        BY <1>4, <2>1, AssembledChunks
  <2> DEFINE Found == [doc : FoundDocs, index : Nat]
             Citations == [doc : Docs, index : Nat]
  <2> HIDE DEF package
  <2>4. \A d \in FoundDocs : d \in Docs /\ d \in ask[t].docs /\ OwnerOf[d] = who[t]
    <3>1. \A i \in DOMAIN found : found[i] \in Items
          BY <2>1
    <3>2. \A i \in DOMAIN found : found[i].doc \in Docs
          BY <3>1 DEF Items
    <3> QED BY <2>1, <3>2
  <2> HIDE DEF FoundDocs
  <2>5. Found \subseteq Citations /\ \A key \in Found : key.doc \in FoundDocs
        BY <2>4
  <2>6. package.cites \in Seq(Found)
        BY <2>3
  <2> HIDE DEF Found, Citations
  <2>7. package.cites \in Seq(Citations)
        BY <2>5, <2>6, SeqMonotonic
  <2>8. \A i \in DOMAIN package.cites : package.cites[i].doc \in ask[t].docs /\ OwnerOf[package.cites[i].doc] = who[t]
    <3>1. \A i \in DOMAIN package.cites : package.cites[i] \in Found
          BY <2>6
    <3> QED BY <2>4, <2>5, <3>1
  <2> USE DEF Citations
  <2> QED BY <1>1, <1>2, <1>4, <2>2, <2>3, <2>7, <2>8 DEF RouteAfterRetrieval
<1> QED BY <1>3, <1>4

\* The types.
LEMMA TypeStep ==
    ASSUME StoreInv, TypeOK, ScopedToRequest, RecentIsPast, StoreInv', [Next]_vars
    PROVE  TypeOK'
<1> DEFINE Messages == Seq(MessageSet)
           Filters == [scoped : BOOLEAN, docs : SUBSET Docs]
           Chosen == Seq(Items)
           Citations == Seq([doc : Docs, index : Nat])
           Texts == Nat
           DataType == /\ recent \in [Requests -> Messages] /\ filter \in [Requests -> Filters]
                       /\ items \in [Requests -> Chosen] /\ history \in [Requests -> Messages]
                       /\ cites \in [Requests -> Citations] /\ answer \in [Requests -> Texts]
<1>1. DataType
      BY DEF TypeOK, Items
<1>2. <<>> \in Messages /\ NoFilter \in Filters /\ <<>> \in Chosen /\ <<>> \in Citations /\ 0 \in Texts
      BY DEF NoFilter
<1>3. \A t \in Requests : [scoped |-> TRUE, docs |-> ask[t].docs] \in Filters
      BY AskOfRequests DEF StoreInv
<1>4. ASSUME NEW t \in Requests, Kinds(t) PROVE DataType'
  <2>1. \A length \in Completions(Models, Responses) : length \in Texts
        BY CompletionsAreTexts
  <2>2. CASE Load(t) /\ ~Fail(t)
    <3>1. PICK new \in ListRecent(t) : recent' = [recent EXCEPT ![t] = new]
          BY <2>2 DEF Load
    <3>2. new \in Messages
          BY <2>2, <3>1, LoadsPast DEF Load, LoadedRight
    <3> HIDE DEF Messages, Filters, Chosen, Citations, Texts
    <3> QED BY <1>1, <2>2, <3>1, <3>2 DEF Load
  <2>3. CASE Retrieve(t)
    <3>1. AssembleHistory(recent[t], Question(t), HistoryBudget) \in Messages
          BY RecentIsLoadedRight, AssembledHistory
    <3>2. recent' = [recent EXCEPT ![t] = <<>>] /\ filter' = [filter EXCEPT ![t] = NoFilter] /\ answer' = answer
          BY <2>3, RetrieveAssembles
    <3>3. items' = items \/ \E new \in Chosen : items' = [items EXCEPT ![t] = new]
          BY <2>3, RetrieveAssembles
    <3>4. history' = history \/ history' = [history EXCEPT ![t] = AssembleHistory(recent[t], Question(t), HistoryBudget)]
          BY <2>3, RetrieveAssembles
    <3>5. cites' = cites \/ \E new \in Citations : cites' = [cites EXCEPT ![t] = new]
          BY <2>3, RetrieveAssembles
    <3> HIDE DEF Messages, Filters, Chosen, Citations, Texts
    <3> QED BY <1>1, <1>2, <3>1, <3>2, <3>3, <3>4, <3>5
  <2> HIDE DEF Messages, Filters, Chosen, Citations, Texts
  <2>4. CASE Fail(t)
        BY <1>1, <1>2, <2>4 DEF Fail
  <2>5. CASE Commit(t)
        BY <1>1, <2>5 DEF Commit, turnVars
  <2>6. CASE (Attach(t) \/ Rewrite(t) \/ Store(t)) /\ ~Fail(t)
        BY <1>1, <2>6 DEF Attach, Rewrite, Store
  <2>7. CASE Plan(t)
    <3>1. filter' = [filter EXCEPT ![t] = [scoped |-> TRUE, docs |-> ask[t].docs]]
          \/ filter' = [filter EXCEPT ![t] = NoFilter]
          BY <2>7 DEF Plan
    <3>2. UNCHANGED <<recent, items, history, cites, answer>>
          BY <2>7 DEF Plan
    <3> QED BY <1>1, <1>2, <1>3, <3>1, <3>2
  <2>8. CASE Generate(t)
    <3>1. PICK length \in Completions(Models, Responses) : answer' = [answer EXCEPT ![t] = length]
          BY <2>8 DEF Generate
    <3> QED BY <1>1, <1>2, <2>1, <2>8, <3>1 DEF Generate
  <2> QED BY <1>4, <2>2, <2>3, <2>4, <2>5, <2>6, <2>7, <2>8 DEF Kinds, Works, Work
<1>5. ASSUME Aside PROVE DataType'
  <2>1. UNCHANGED <<recent, filter, items, history, cites, answer>>
        BY <1>5, AsideFrame DEF turnVars
  <2> HIDE DEF Messages, Filters, Chosen, Citations, Texts
  <2> QED BY <1>1, <2>1
<1>6. DataType'
  <2> HIDE DEF DataType
  <2> QED BY <1>4, <1>5, StepKinds DEF StoreInv
<1> QED BY <1>6 DEF TypeOK, Items, StoreInv, TurnShape

(***************************************************************************)
(* The invariant.                                                          *)
(***************************************************************************)
TurnInv == StoreInv /\ TypeOK /\ ScopedToRequest /\ LoadedByStep /\ RecentIsPast /\ HistoryIsPast

\* The plan is scoped to the request, and so is what the answer cites.
LEMMA ScopeStep ==
    ASSUME StoreInv, TypeOK, ScopedToRequest, RecentIsPast, [Next]_vars
    PROVE  ScopedToRequest'
<1> DEFINE Scoped(t) ==
        /\ pc[t] \in {"rewrite", "search"} => filter[t] = [scoped |-> TRUE, docs |-> ask[t].docs]
        /\ pc[t] \in {"generate", "store", "commit"} =>
              /\ cites[t] # <<>>
              /\ \A i \in DOMAIN cites[t] : cites[t][i].doc \in ask[t].docs /\ OwnerOf[cites[t][i].doc] = who[t]
        /\ pc[t] \in {"store", "commit"} => answer[t] > 0
<1>1. \A t \in Requests : Scoped(t)
      BY DEF ScopedToRequest
<1>2. who' = who /\ ask' = ask
      BY PastStays
<1>3. ASSUME NEW t \in Requests, Kinds(t) PROVE Scoped(t)'
  <2> USE <1>1, <1>2 DEF TypeOK
  <2>1. CASE Fail(t)
        BY <2>1 DEF Fail
  <2>2. CASE Commit(t)
        BY <2>2 DEF Commit, turnVars
  <2>3. CASE (Attach(t) \/ Load(t) \/ Plan(t)) /\ ~Fail(t)
        BY <2>3 DEF Attach, Load, Plan
  <2>4. CASE Rewrite(t) /\ ~Fail(t)
        BY <2>4 DEF Rewrite, At
  <2>5. CASE Retrieve(t)
    <3>1. CASE pc' = [pc EXCEPT ![t] = "insufficient"]
          BY <3>1
    <3>2. CASE pc' = [pc EXCEPT ![t] = "generate"]
      <4>1. PICK new \in Seq([doc : Docs, index : Nat]) :
                /\ cites' = [cites EXCEPT ![t] = new] /\ new # <<>>
                /\ \A i \in DOMAIN new : new[i].doc \in ask[t].docs /\ OwnerOf[new[i].doc] = who[t]
        <5>1. pc' # [pc EXCEPT ![t] = "insufficient"]
              BY <3>2
        <5> HIDE DEF TypeOK
        <5> QED BY <2>5, <5>1, RetrieveAssembles
      <4>2. cites'[t] = new /\ pc'[t] = "generate"
            BY <3>2, <4>1
      <4> QED BY <4>1, <4>2
    <3> QED BY <2>5, <3>1, <3>2, RetrieveAssembles
  <2>6. CASE Generate(t)
    <3>1. pc[t] = "generate" /\ pc'[t] = "store" /\ cites' = cites
          BY <2>6 DEF Generate, At
    <3>2. answer'[t] \in Completions(Models, Responses)
          BY <2>6 DEF Generate
    <3>3. answer'[t] > 0
          BY <3>2, CompletionsAreTexts
    <3> QED BY <3>1, <3>3
  <2>7. CASE Store(t)
        BY <2>7 DEF Store, At
  <2> QED BY <1>3, <2>1, <2>2, <2>3, <2>4, <2>5, <2>6, <2>7 DEF Kinds, Works, Work
<1>4. ASSUME NEW t \in Requests, Kinds(t), NEW u \in Requests \ {t} PROVE Scoped(u)'
  <2>1. pc'[u] = pc[u] /\ filter'[u] = filter[u] /\ cites'[u] = cites[u] /\ answer'[u] = answer[u]
        BY <1>4, KindsFrame, TurnDataFrame
  <2> QED BY <1>1, <1>2, <2>1
<1>5. ASSUME Aside, NEW u \in Requests PROVE Scoped(u)'
  <2>1. UNCHANGED <<pc, filter, cites, answer>>
        BY <1>5, AsideFrame DEF turnVars
  <2> QED BY <1>1, <1>2, <2>1
<1>6. \A t \in Requests : Scoped(t)'
  <2> HIDE DEF Scoped
  <2> QED BY <1>3, <1>4, <1>5, StepKinds DEF StoreInv
<1> QED BY <1>6 DEF ScopedToRequest

\* What a step makes of the messages that a turn holds.
LEMMA MessagesKept ==
    ASSUME StoreInv, TypeOK, ScopedToRequest, LoadedByStep, RecentIsPast, [Next]_vars, NEW u \in Requests
    PROVE  /\ \/ recent'[u] = <<>>
              \/ pc[u] # "attach" /\ pc'[u] # "attach" /\ recent'[u] = recent[u]
              \/ At(u, "load") /\ pc'[u] # "attach" /\ recent'[u] \in ListRecent(u)
           /\ \/ history'[u] = <<>>
              \/ pc[u] # "attach" /\ pc'[u] # "attach" /\ history'[u] = history[u]
              \/ At(u, "search") /\ pc'[u] # "attach" /\ history'[u] = AssembleHistory(recent[u], Question(u), HistoryBudget)
<1> DEFINE Kept == \/ recent'[u] = <<>> /\ history'[u] = <<>>
                   \/ pc'[u] # "attach" /\ pc[u] # "attach" /\ recent'[u] = recent[u] /\ history'[u] \in {history[u], <<>>}
                   \/ /\ At(u, "load") /\ pc'[u] # "attach" /\ recent'[u] \in ListRecent(u)
                      /\ history'[u] = history[u]
                   \/ /\ At(u, "search") /\ pc'[u] # "attach" /\ recent'[u] = <<>>
                      /\ history'[u] \in {history[u], AssembleHistory(recent[u], Question(u), HistoryBudget)}
<1>1. pc'[u] = pc[u] /\ recent'[u] = recent[u] /\ history'[u] = history[u] => Kept
      BY DEF LoadedByStep
<1>2. ASSUME Kinds(u) PROVE Kept
  <2> USE DEF TypeOK
  <2>1. CASE Fail(u)
        BY <2>1 DEF Fail
  <2>2. CASE Commit(u)
        BY <1>1, <2>2 DEF Commit, turnVars
  <2>3. CASE Attach(u) /\ ~Fail(u)
        BY <2>3 DEF Attach, At, LoadedByStep
  <2>4. CASE Load(u) /\ ~Fail(u)
        BY <2>4 DEF Load, At
  <2>5. CASE Plan(u)
    <3>1. pc[u] = "plan" /\ pc'[u] # "attach" /\ recent' = recent /\ history' = history
          BY <2>5 DEF Plan, At
    <3> QED BY <3>1
  <2>6. CASE Rewrite(u) /\ ~Fail(u)
        BY <2>6 DEF Rewrite, At
  <2>7. CASE Retrieve(u)
    <3> DEFINE assembled == AssembleHistory(recent[u], Question(u), HistoryBudget)
    <3>1. /\ At(u, "search") /\ recent' = [recent EXCEPT ![u] = <<>>]
          /\ pc' = [pc EXCEPT ![u] = "insufficient"] \/ pc' = [pc EXCEPT ![u] = "generate"]
          /\ history' = history \/ history' = [history EXCEPT ![u] = assembled]
          BY <2>7, RetrieveAssembles DEF Retrieve
    <3> HIDE DEF assembled
    <3>2. recent'[u] = <<>> /\ pc'[u] # "attach" /\ history'[u] \in {history[u], assembled}
          BY <3>1
    <3> USE DEF assembled
    <3>3. recent'[u] = <<>> /\ pc'[u] # "attach" /\ At(u, "search")
          /\ history'[u] \in {history[u], AssembleHistory(recent[u], Question(u), HistoryBudget)}
          BY <3>1, <3>2
    <3> QED BY <3>3
  <2>8. CASE Generate(u) \/ Store(u)
        BY <2>8 DEF Generate, Store, At
  <2> QED BY <1>2, <2>1, <2>2, <2>3, <2>4, <2>5, <2>6, <2>7, <2>8 DEF Kinds, Works, Work
<1>3. ASSUME NEW t \in Requests, Kinds(t), t # u PROVE Kept
  <2>1. pc'[u] = pc[u] /\ recent'[u] = recent[u] /\ history'[u] = history[u]
        BY <1>3, KindsFrame, TurnDataFrame
  <2> QED BY <1>1, <2>1
<1>4. ASSUME Aside PROVE Kept
  <2>1. UNCHANGED <<pc, recent, history>>
        BY <1>4, AsideFrame DEF turnVars
  <2> QED BY <1>1, <2>1
<1>5. Kept
  <2> HIDE DEF Kept
  <2> QED BY <1>2, <1>3, <1>4, StepKinds DEF StoreInv
<1> QED BY <1>5 DEF At, LoadedByStep

\* Nothing is loaded before the question is attached.
LEMMA LoadedStep ==
    ASSUME StoreInv, TypeOK, ScopedToRequest, LoadedByStep, RecentIsPast, [Next]_vars
    PROVE  LoadedByStep'
<1> QED BY MessagesKept DEF LoadedByStep

\* What is loaded stays past.
LEMMA RecentStep ==
    ASSUME StoreInv, TypeOK, ScopedToRequest, LoadedByStep, RecentIsPast, [Next]_vars
    PROVE  RecentIsPast'
<1>1. ASSUME NEW t \in Requests PROVE LoadedRight(t, recent[t])'
  <2>1. CASE recent'[t] = <<>>
        BY <2>1 DEF LoadedRight
  <2>2. CASE pc[t] # "attach" /\ LoadedRight(t, recent'[t])
    <3>1. /\ who' = who /\ ask' = ask
          /\ \A u \in Requests : step[u] = "committed" => step'[u] = "committed"
          /\ Question(t)' = Question(t)
          /\ Overtaken(t) => Overtaken(t)'
          BY <2>2, PastStays
    <3>2. /\ recent'[t] \in Seq(MessageSet)
          /\ \A i, j \in DOMAIN recent'[t] : i # j => recent'[t][i] # recent'[t][j] \/ recent'[t][i].by = "earlier"
          /\ \A i \in DOMAIN recent'[t] :
                \/ recent'[t][i].by = "earlier" /\ ask[t].conversation = "old" /\ who[t] = Holder
                \/ recent'[t][i].by \in Requests \ {t} /\ SameConversation(t, recent'[t][i].by) /\ step[recent'[t][i].by] = "committed"
                \/ recent'[t][i] = Question(t) /\ (i = Len(recent'[t]) \/ Overtaken(t))
          BY <2>2 DEF LoadedRight
    <3> QED BY <3>1, <3>2 DEF LoadedRight, SameConversation
  <2> QED BY <2>1, <2>2, MessagesKept, RecentIsLoadedRight, LoadsPast DEF At
<1> QED BY <1>1 DEF RecentIsPast, LoadedRight

\* HistoryIsPast of one turn.
HistoryRight(t, seq) ==
    /\ \A i, j \in DOMAIN seq : i # j => seq[i] # seq[j] \/ seq[i].by = "earlier"
    /\ TotalLength(seq) <= HistoryBudget
    /\ \A i \in DOMAIN seq :
          \/ seq[i].by = "earlier" /\ ask[t].conversation = "old" /\ who[t] = Holder
          \/ seq[i].by \in Requests \ {t} /\ SameConversation(t, seq[i].by) /\ step[seq[i].by] = "committed"
          \/ seq[i].by = t /\ Overtaken(t)

\* And so does what the prompt holds.
LEMMA HistoryStep ==
    ASSUME StoreInv, TypeOK, ScopedToRequest, LoadedByStep, RecentIsPast, HistoryIsPast, [Next]_vars
    PROVE  HistoryIsPast'
<1>1. ASSUME NEW t \in Requests PROVE HistoryRight(t, history[t])'
  <2>1. CASE history'[t] = <<>>
        BY <2>1, TotalLengthOfNone, LimitsAssumption DEF HistoryRight
  <2>2. CASE pc[t] # "attach" /\ HistoryRight(t, history'[t])
    <3>1. /\ who' = who /\ ask' = ask
          /\ \A u \in Requests : step[u] = "committed" => step'[u] = "committed"
          /\ Overtaken(t) => Overtaken(t)'
          BY <2>2, PastStays
    <3>2. /\ \A i, j \in DOMAIN history'[t] : i # j => history'[t][i] # history'[t][j] \/ history'[t][i].by = "earlier"
          /\ TotalLength(history'[t]) <= HistoryBudget
          /\ \A i \in DOMAIN history'[t] :
                \/ history'[t][i].by = "earlier" /\ ask[t].conversation = "old" /\ who[t] = Holder
                \/ history'[t][i].by \in Requests \ {t} /\ SameConversation(t, history'[t][i].by) /\ step[history'[t][i].by] = "committed"
                \/ history'[t][i].by = t /\ Overtaken(t)
          BY <2>2 DEF HistoryRight
    <3> QED BY <3>1, <3>2 DEF HistoryRight, SameConversation
  <2>3. HistoryRight(t, history[t])
        BY DEF HistoryIsPast, HistoryRight
  <2>4. HistoryRight(t, AssembleHistory(recent[t], Question(t), HistoryBudget))
        BY RecentIsLoadedRight, AssembledHistory DEF HistoryRight
  <2> QED BY <2>1, <2>2, <2>3, <2>4, MessagesKept DEF At
<1> QED BY <1>1 DEF HistoryIsPast, HistoryRight

LEMMA TurnInvInit == Init => TurnInv
<1> SUFFICES ASSUME Init PROVE TurnInv
    OBVIOUS
<1>1. StoreInv
      BY StoreInvInit
<1>2. TypeOK
      BY <1>1 DEF Init, TypeOK, NoFilter, StoreInv, TurnShape
<1>3. ScopedToRequest /\ LoadedByStep /\ RecentIsPast
      BY DEF Init, ScopedToRequest, LoadedByStep, RecentIsPast
<1>4. HistoryIsPast
  <2>1. \A t \in Requests : history[t] = <<>>
        BY DEF Init
  <2> QED BY <2>1, TotalLengthOfNone, LimitsAssumption DEF HistoryIsPast
<1> QED BY <1>1, <1>2, <1>3, <1>4 DEF TurnInv

LEMMA TurnInvStep == TurnInv /\ [Next]_vars => TurnInv'
  BY StoreInvStep, TypeStep, ScopeStep, LoadedStep, RecentStep, HistoryStep DEF TurnInv

LEMMA TurnInvHolds == Spec => []TurnInv
  BY TurnInvInit, TurnInvStep, PTL DEF Spec

\* Every variable of a turn and of the sign-in keeps its type.
THEOREM TypesAreKept == Spec => []TypeOK
  BY TurnInvHolds, PTL DEF TurnInv

\* An answer has text and cites only chunks of documents the request selected.
THEOREM AnswersAreGrounded == Spec => []AnswerIsGrounded
<1>1. TurnInv => AnswerIsGrounded
      BY DEF TurnInv, StoreInv, TurnByStep, ScopedToRequest, AnswerIsGrounded, At
<1> QED BY <1>1, TurnInvHolds, PTL

\* The earlier messages in a prompt are committed, each once, and fit.
THEOREM PromptsHoldThePast == Spec => []HistoryIsPast
  BY TurnInvHolds, PTL DEF TurnInv
==============================================================================
