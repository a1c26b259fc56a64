---------------------------- MODULE RateLimiter -----------------------------
(***************************************************************************)
(* The sliding window of one endpoint and user: requests of any number of  *)
(* API hosts, each reading its host's clock, and the sorted set in Redis   *)
(* that one script trims, counts and extends.  Times are milliseconds.     *)
(***************************************************************************)
EXTENDS Integers, FiniteSets

CONSTANTS
    Requests,
    Limit,      \* rate_limit_... of the endpoint
    Window,     \* rate_limit_window_seconds
    Second,     \* milliseconds in a second
    Skew,       \* how far a host's clock may be from Redis's
    MaxTime     \* bound: the clock stops here

ASSUME RequestsAssumption == IsFiniteSet(Requests)
ASSUME SettingsAssumption == Limit \in Nat \ {0} /\ Window \in Nat \ {0}
ASSUME ClockAssumption == Second \in Nat \ {0} /\ Skew \in Nat /\ MaxTime \in Nat

VARIABLES
    now,        \* Redis's clock
    pc,         \* what became of each request
    stamp,      \* the time each request read
    retry,      \* the Retry-After each refused request was given
    entries,    \* the sorted set: each member is its own score
    expires,    \* when Redis drops the set
    allowed,    \* ghost: stamps that the script has let through
    latest,     \* ghost: the stamp of the script's last execution
    orderly     \* ghost: executions follow the stamps, each within a second of its own

callVars == <<pc, stamp, retry>>
setVars == <<entries, expires>>
ghostVars == <<allowed, latest, orderly>>
vars == <<now, callVars, setVars, ghostVars>>

WindowMs == Window * Second

TypeOK ==
    /\ now \in Nat
    /\ pc \in [Requests -> {"new", "sent", "admitted", "refused", "unavailable"}]
    /\ stamp \in [Requests -> Int]
    /\ retry \in [Requests -> Nat]
    /\ entries \in SUBSET Int
    /\ expires \in Nat
    /\ allowed \in SUBSET Int
    /\ latest \in Int
    /\ orderly \in BOOLEAN

Init ==
    /\ now = 0
    /\ pc = [r \in Requests |-> "new"]
    /\ stamp = [r \in Requests |-> 0]
    /\ retry = [r \in Requests |-> 0]
    /\ entries = {} /\ expires = 0
    /\ allowed = {} /\ latest = -Skew /\ orderly = TRUE

Tick ==
    /\ now < MaxTime
    /\ now' = now + 1
    /\ UNCHANGED <<callVars, setVars, ghostVars>>

(***************************************************************************)
(* The script, which Redis runs as one step.                               *)
(***************************************************************************)
\* what is left of the set at a time that a request read
InWindow(set, t) == {s \in set : s > t - WindowMs}

\* a set past its time to live is not there
Live == IF now < expires THEN entries ELSE {}

\* mutation: the member at the cutoff stays
TrimmedInclusive(t) == {s \in Live : s >= t - WindowMs}

Trimmed(t) == InWindow(Live, t)

\* mutation: one request too many
FullPlusOne(t) == Cardinality(Trimmed(t)) > Limit

Full(t) == Cardinality(Trimmed(t)) >= Limit

Oldest(set) == CHOOSE s \in set : \A u \in set : s <= u

\* mutation: the remainder of the second is dropped
Floor(a, b) == a \div b

Ceil(a, b) == (a + b - 1) \div b

\* mutation: the length of the window is forgotten
RetryAfterOldest(t) == Ceil(Oldest(Trimmed(t)) - t, Second)

RetryAfter(t) == Ceil(Oldest(Trimmed(t)) + WindowMs - t, Second)

\* mutation: the set lives just as long as the window
WindowToLive == WindowMs

TimeToLive == (Window + 1) * Second

Executed(t) ==
    /\ latest' = t
    /\ orderly' = (orderly /\ latest <= t /\ t <= now /\ now < t + Second)

Allow(t) ==
    /\ ~Full(t)
    /\ entries' = Trimmed(t) \cup {t}
    /\ expires' = now + TimeToLive
    /\ allowed' = allowed \cup {t}
    /\ Executed(t)

Refuse(t) ==
    /\ Full(t)
    /\ entries' = Trimmed(t)
    /\ UNCHANGED <<expires, allowed>>
    /\ Executed(t)

(***************************************************************************)
(* RateLimiter.check.                                                      *)
(***************************************************************************)
\* the host's clock is read, then the call is on its way
Send(r) ==
    /\ pc[r] = "new"
    /\ \E t \in now - Skew .. now + Skew : stamp' = [stamp EXCEPT ![r] = t]
    /\ pc' = [pc EXCEPT ![r] = "sent"]
    /\ UNCHANGED <<now, retry, setVars, ghostVars>>

Admit(r) ==
    /\ pc[r] = "sent"
    /\ Allow(stamp[r])
    /\ pc' = [pc EXCEPT ![r] = "admitted"]
    /\ UNCHANGED <<now, stamp, retry>>

Reject(r) ==
    /\ pc[r] = "sent"
    /\ Refuse(stamp[r])
    /\ retry' = [retry EXCEPT ![r] = RetryAfter(stamp[r])]
    /\ pc' = [pc EXCEPT ![r] = "refused"]
    /\ UNCHANGED <<now, stamp>>

\* the script ran but its answer is lost: the client library sends it again, or gives up
AnswerLost(r) ==
    /\ pc[r] = "sent"
    /\ Allow(stamp[r]) \/ Refuse(stamp[r])
    /\ \E next \in {"sent", "unavailable"} : pc' = [pc EXCEPT ![r] = next]
    /\ UNCHANGED <<now, stamp, retry>>

\* Redis is not reached: the request is answered 503, not let through
NotReached(r) ==
    /\ pc[r] = "sent"
    /\ pc' = [pc EXCEPT ![r] = "unavailable"]
    /\ UNCHANGED <<now, stamp, retry, setVars, ghostVars>>

Next ==
    \/ Tick
    \/ \E r \in Requests :
         Send(r) \/ Admit(r) \/ Reject(r) \/ AnswerLost(r) \/ NotReached(r)

Spec == Init /\ [][Next]_vars

(***************************************************************************)
(* Properties.                                                             *)
(***************************************************************************)
\* Whatever the clocks, the set never holds more than the limit, although a call whose
\* answer was lost may be made again and Redis may drop the set at any size.
SetIsBounded == Cardinality(entries) <= Limit

\* the stamps let through in the window that ends at one of them
WindowUpTo(e) == {s \in InWindow(allowed, e) : s <= e}

\* While executions follow the stamps, each within a second of its own, no window holds
\* more admitted milliseconds than the limit, although the set has forgotten all but the
\* last window and may have expired in between.
LimitPerWindow ==
    orderly => \A e \in allowed : Cardinality(WindowUpTo(e)) <= Limit

\* A request is refused only when the limit was let through within its window, so refused
\* requests use up nobody's limit.  What the script let through counts, answered or not: a
\* call whose answer was lost has used the limit, and may be refused for that when repeated.
RefusedAtLimit ==
    [][\A r \in Requests : pc[r] = "sent" /\ pc'[r] = "refused" =>
          \E full \in SUBSET InWindow(allowed, stamp[r]) : Cardinality(full) = Limit]_vars

\* Is there room in the set for a request of time t?
Room(set, t) == Cardinality(InWindow(set, t)) < Limit

\* Retry-After is right: a client that waits as long finds room if nobody else came, and
\* one that waits a second less does not.
RetryAfterIsRight ==
    [][\A r \in Requests : pc[r] = "sent" /\ pc'[r] = "refused" =>
          /\ retry'[r] >= 1
          /\ Room(entries', stamp[r] + retry'[r] * Second)
          /\ ~Room(entries', stamp[r] + (retry'[r] - 1) * Second)]_vars

(***************************************************************************)
(* Inductive invariants behind the properties.                             *)
(***************************************************************************)
BoundInv == IsFiniteSet(entries) /\ Cardinality(entries) <= Limit

\* the set has every stamp that a later execution must count, and lives until none is left
WindowInv ==
    /\ entries \subseteq allowed
    /\ orderly =>
         /\ \A s \in allowed : s <= latest
         /\ InWindow(allowed, latest) \subseteq entries
         /\ \A s \in entries : s + TimeToLive <= expires

LimitInv ==
    orderly => \A e \in allowed :
        IsFiniteSet(WindowUpTo(e)) /\ Cardinality(WindowUpTo(e)) <= Limit
=============================================================================
