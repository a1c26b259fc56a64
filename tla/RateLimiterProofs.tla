------------------------- MODULE RateLimiterProofs --------------------------
(***************************************************************************)
(* Theorems about module RateLimiter, for all settings, any number of      *)
(* requests and any difference of clocks.                                  *)
(***************************************************************************)
EXTENDS RateLimiter, FiniteSetTheorems, WellFoundedInduction, TLAPS

LEMMA WindowMsType == WindowMs \in Nat \ {0} /\ TimeToLive = WindowMs + Second
<1>1. WindowMs \in Nat \ {0}
      BY SettingsAssumption, ClockAssumption DEF WindowMs
<1>2. TimeToLive = WindowMs + Second
      BY SettingsAssumption, ClockAssumption DEF WindowMs, TimeToLive
<1> QED BY <1>1, <1>2

\* Rounding up: the least number of units that covers an amount.
LEMMA CeilCovers ==
    ASSUME NEW a \in Int, NEW b \in Nat \ {0}
    PROVE  /\ Ceil(a, b) \in Int
           /\ a <= Ceil(a, b) * b
           /\ (Ceil(a, b) - 1) * b < a
<1> DEFINE q == (a + b - 1) \div b
           m == (a + b - 1) % b
<1>1. q \in Int /\ m \in 0 .. b - 1 /\ a + b - 1 = b * q + m
      OBVIOUS
<1>2. b * q = q * b /\ (q - 1) * b = q * b - b
      BY <1>1
<1> QED BY <1>1, <1>2 DEF Ceil

\* A set of times after some moment has an oldest one.
LEMMA OldestExists ==
    ASSUME NEW m \in Int, NEW S \in SUBSET Int, S # {}, \A s \in S : s > m
    PROVE  Oldest(S) \in S /\ \A s \in S : Oldest(S) <= s
<1> DEFINE Less == {p \in Nat \X Nat : p[1] < p[2]}
           T == {s - m : s \in S}
<1>1. IsWellFoundedOn(Less, Nat)
      BY NatLessThanWellFounded DEF OpToRel
<1>2. T \subseteq Nat /\ T # {}
  <2>1. \A s \in S : s - m \in Nat
        OBVIOUS
  <2> QED BY <2>1
<1>3. PICK x \in T : \A y \in T : <<y, x>> \notin Less
      BY <1>1, <1>2, WFMin
<1>4. PICK s \in S : x = s - m
      BY <1>3
<1>5. \A u \in S : s <= u
  <2> SUFFICES ASSUME NEW u \in S PROVE s <= u
      OBVIOUS
  <2>1. u - m \in T /\ <<u - m, x>> \notin Less
        BY <1>3
  <2>2. x \in Nat /\ u - m \in Nat
        BY <1>2, <1>3, <2>1
  <2>3. ~(u - m < x)
        BY <2>1, <2>2, Zenon
  <2> QED BY <1>4, <2>3
<1> QED BY <1>5 DEF Oldest

(***************************************************************************)
(* One execution of the script.                                            *)
(***************************************************************************)
LEMMA TrimmedFacts ==
    ASSUME BoundInv, TypeOK, NEW t \in Int
    PROVE  /\ Trimmed(t) \subseteq entries
           /\ Trimmed(t) \in SUBSET Int
           /\ \A s \in Trimmed(t) : s > t - WindowMs
           /\ IsFiniteSet(Trimmed(t))
           /\ Cardinality(Trimmed(t)) \in Nat
           /\ Cardinality(Trimmed(t)) <= Limit
<1>1. Trimmed(t) \subseteq entries /\ \A s \in Trimmed(t) : s > t - WindowMs
      BY DEF Trimmed, InWindow, Live
<1>2. /\ IsFiniteSet(Trimmed(t)) /\ IsFiniteSet(entries)
      /\ Cardinality(Trimmed(t)) <= Cardinality(entries)
      BY <1>1, FS_Subset DEF BoundInv
<1>3. Cardinality(Trimmed(t)) \in Nat /\ Cardinality(entries) \in Nat
      BY <1>2, FS_CardinalityType
<1>4. Cardinality(Trimmed(t)) <= Limit
      BY <1>2, <1>3, SettingsAssumption DEF BoundInv
<1> QED BY <1>1, <1>2, <1>3, <1>4 DEF TypeOK

\* The answer to a refused request is positive.
LEMMA RetryAfterFacts ==
    ASSUME BoundInv, TypeOK, NEW t \in Int, Full(t)
    PROVE  /\ Oldest(Trimmed(t)) \in Trimmed(t)
           /\ \A s \in Trimmed(t) : Oldest(Trimmed(t)) <= s
           /\ RetryAfter(t) \in Nat /\ RetryAfter(t) >= 1
           /\ Oldest(Trimmed(t)) + WindowMs - t <= RetryAfter(t) * Second
           /\ (RetryAfter(t) - 1) * Second < Oldest(Trimmed(t)) + WindowMs - t
<1>1. Trimmed(t) # {}
      BY TrimmedFacts, FS_EmptySet, SettingsAssumption DEF Full
<1>2. t - WindowMs \in Int
      BY WindowMsType
<1> DEFINE o == Oldest(Trimmed(t))
           n == RetryAfter(t)
<1>3. o \in Trimmed(t) /\ \A s \in Trimmed(t) : o <= s
      BY <1>1, <1>2, TrimmedFacts, OldestExists
<1>4. o \in Int /\ o > t - WindowMs
      BY <1>3, TrimmedFacts
<1>5. o + WindowMs - t \in Int /\ o + WindowMs - t >= 1
      BY <1>4, WindowMsType
<1>6. n \in Int /\ o + WindowMs - t <= n * Second /\ (n - 1) * Second < o + WindowMs - t
      BY <1>5, CeilCovers, ClockAssumption DEF RetryAfter
<1>7. n >= 1
  <2>1. n * Second >= 1
        BY <1>5, <1>6, ClockAssumption
  <2> QED BY <1>6, <2>1, ClockAssumption
<1> QED BY <1>3, <1>6, <1>7

\* What a step may do to the set.
LEMMA StepCases ==
    ASSUME TypeOK, [Next]_vars
    PROVE  \/ UNCHANGED <<setVars, ghostVars>>
           \/ /\ now' = now
              /\ \E t \in Int : Allow(t) \/ Refuse(t)
<1>1. ASSUME NEW r \in Requests, Admit(r) \/ Reject(r) \/ AnswerLost(r)
      PROVE  now' = now /\ \E t \in Int : Allow(t) \/ Refuse(t)
      BY <1>1 DEF Admit, Reject, AnswerLost, TypeOK
<1>2. ASSUME NEW r \in Requests, Send(r) \/ NotReached(r)
      PROVE  UNCHANGED <<setVars, ghostVars>>
      BY <1>2 DEF Send, NotReached
<1>3. CASE Tick \/ UNCHANGED vars
      BY <1>3 DEF Tick, vars
<1> QED BY <1>1, <1>2, <1>3 DEF Next

LEMMA BoundStep == TypeOK /\ BoundInv /\ [Next]_vars => BoundInv'
<1> SUFFICES ASSUME TypeOK, BoundInv, [Next]_vars PROVE BoundInv'
    OBVIOUS
<1>1. CASE UNCHANGED <<setVars, ghostVars>>
      BY <1>1 DEF BoundInv, setVars
<1>2. ASSUME NEW t \in Int, Allow(t) PROVE BoundInv'
  <2>1. entries' = Trimmed(t) \cup {t} /\ Cardinality(Trimmed(t)) < Limit
        BY <1>2, TrimmedFacts, SettingsAssumption DEF Allow, Full
  <2>2. /\ IsFiniteSet(entries')
        /\ Cardinality(entries') = Cardinality(Trimmed(t))
             \/ Cardinality(entries') = Cardinality(Trimmed(t)) + 1
        BY <2>1, TrimmedFacts, FS_AddElement
  <2> QED BY <2>1, <2>2, TrimmedFacts, SettingsAssumption DEF BoundInv
<1>3. ASSUME NEW t \in Int, Refuse(t) PROVE BoundInv'
      BY <1>3, TrimmedFacts DEF Refuse, BoundInv
<1> QED BY <1>1, <1>2, <1>3, StepCases

LEMMA TypeStep == TypeOK /\ BoundInv /\ [Next]_vars => TypeOK'
<1> SUFFICES ASSUME TypeOK, BoundInv, [Next]_vars PROVE TypeOK'
    OBVIOUS
<1>1. /\ entries' \in SUBSET Int /\ expires' \in Nat /\ allowed' \in SUBSET Int
      /\ latest' \in Int /\ orderly' \in BOOLEAN
  <2>1. CASE UNCHANGED <<setVars, ghostVars>>
        BY <2>1 DEF setVars, ghostVars, TypeOK
  <2>2. ASSUME NEW t \in Int, Allow(t) \/ Refuse(t)
        PROVE  <1>1!:
    <3>1. now + TimeToLive \in Nat
          BY WindowMsType, ClockAssumption DEF TypeOK
    <3> QED BY <2>2, <3>1, TrimmedFacts DEF Allow, Refuse, Executed, TypeOK
  <2> QED BY <2>1, <2>2, StepCases
<1>2. now' \in Nat
      BY DEF Next, Tick, Send, Admit, Reject, AnswerLost, NotReached, vars, TypeOK
<1>3. /\ pc' \in [Requests -> {"new", "sent", "admitted", "refused", "unavailable"}]
      /\ stamp' \in [Requests -> Int]
      /\ retry' \in [Requests -> Nat]
  <2>1. CASE Tick \/ UNCHANGED vars
        BY <2>1 DEF Tick, vars, callVars, TypeOK
  <2>2. ASSUME NEW r \in Requests, Send(r) PROVE <1>3!:
    <3>1. \A t \in now - Skew .. now + Skew : t \in Int
          BY ClockAssumption DEF TypeOK
    <3> QED BY <2>2, <3>1 DEF Send, TypeOK
  <2>3. ASSUME NEW r \in Requests, Reject(r) PROVE <1>3!:
    <3>1. RetryAfter(stamp[r]) \in Nat
          BY <2>3, RetryAfterFacts DEF Reject, Refuse, TypeOK
    <3> QED BY <2>3, <3>1 DEF Reject, TypeOK
  <2>4. ASSUME NEW r \in Requests, Admit(r) \/ AnswerLost(r) \/ NotReached(r) PROVE <1>3!:
        BY <2>4 DEF Admit, AnswerLost, NotReached, TypeOK
  <2> QED BY <2>1, <2>2, <2>3, <2>4 DEF Next
<1> QED BY <1>1, <1>2, <1>3 DEF TypeOK

LEMMA InitHolds == Init => TypeOK /\ BoundInv /\ WindowInv
<1> SUFFICES ASSUME Init PROVE TypeOK /\ BoundInv /\ WindowInv
    OBVIOUS
<1>1. TypeOK
      BY ClockAssumption DEF Init, TypeOK
<1>2. BoundInv
      BY FS_EmptySet, SettingsAssumption DEF Init, BoundInv
<1>3. WindowInv
      BY DEF Init, WindowInv, InWindow
<1> QED BY <1>1, <1>2, <1>3

LEMMA Bounded == Spec => [](TypeOK /\ BoundInv)
<1>1. TypeOK /\ BoundInv /\ [Next]_vars => (TypeOK /\ BoundInv)'
      BY TypeStep, BoundStep
<1> QED BY <1>1, InitHolds, PTL DEF Spec

\* Every variable keeps its type; Retry-After is never negative.
THEOREM Typing == Spec => []TypeOK
  BY Bounded, PTL

\* The set never holds more than the limit.
THEOREM SetBounded == Spec => []SetIsBounded
<1>1. BoundInv => SetIsBounded
      BY DEF BoundInv, SetIsBounded
<1> QED BY <1>1, Bounded, PTL

(***************************************************************************)
(* The window.                                                             *)
(***************************************************************************)
LEMMA WindowStep == TypeOK /\ BoundInv /\ WindowInv /\ [Next]_vars => WindowInv'
<1> SUFFICES ASSUME TypeOK, BoundInv, WindowInv, [Next]_vars PROVE WindowInv'
    OBVIOUS
<1>1. CASE UNCHANGED <<setVars, ghostVars>>
      BY <1>1 DEF WindowInv, InWindow, setVars, ghostVars
<1>2. ASSUME NEW t \in Int, now' = now, Allow(t) \/ Refuse(t) PROVE WindowInv'
  <2>1. entries' \subseteq allowed'
        BY <1>2, TrimmedFacts DEF Allow, Refuse, WindowInv
  <2> SUFFICES ASSUME orderly'
               PROVE  /\ \A s \in allowed' : s <= latest'
                      /\ InWindow(allowed', latest') \subseteq entries'
                      /\ \A s \in entries' : s + TimeToLive <= expires'
      BY <2>1 DEF WindowInv
  <2>2. orderly /\ latest' = t /\ latest <= t /\ t <= now /\ now < t + Second
        BY <1>2 DEF Allow, Refuse, Executed, TypeOK
  <2>3. \A s \in allowed : s <= t
        BY <2>2 DEF WindowInv, TypeOK
  <2>4. InWindow(allowed, t) \subseteq Trimmed(t)
    <3> SUFFICES ASSUME NEW s \in allowed, s > t - WindowMs PROVE s \in Trimmed(t)
        BY DEF InWindow
    <3>1. s \in entries
          BY <2>2, WindowMsType DEF WindowInv, InWindow, TypeOK
    <3>2. now < expires
      <4>1. s + TimeToLive <= expires
            BY <2>2, <3>1 DEF WindowInv
      <4> QED BY <2>2, <4>1, WindowMsType, ClockAssumption DEF TypeOK
    <3> QED BY <3>1, <3>2 DEF Trimmed, InWindow, Live
  <2>5. CASE Allow(t)
    <3>1. allowed' = allowed \cup {t} /\ entries' = Trimmed(t) \cup {t}
          /\ expires' = now + TimeToLive
          BY <2>5 DEF Allow
    <3>2. \A s \in entries' : s <= t
          BY <2>3, <3>1, TrimmedFacts DEF WindowInv
    <3>3. \A s \in entries' : s + TimeToLive <= expires'
          BY <2>2, <3>1, <3>2, WindowMsType, ClockAssumption, TrimmedFacts DEF TypeOK
    <3>4. InWindow(allowed', t) \subseteq entries'
          BY <2>4, <3>1 DEF InWindow
    <3> QED BY <2>2, <2>3, <3>1, <3>3, <3>4
  <2>6. CASE Refuse(t)
    <3>1. allowed' = allowed /\ entries' = Trimmed(t) /\ expires' = expires
          BY <2>6 DEF Refuse
    <3>2. \A s \in entries' : s + TimeToLive <= expires'
          BY <2>2, <3>1, TrimmedFacts DEF WindowInv
    <3> QED BY <2>2, <2>3, <2>4, <3>1, <3>2
  <2> QED BY <1>2, <2>5, <2>6
<1> QED BY <1>1, <1>2, StepCases

LEMMA LimitStep ==
    TypeOK /\ BoundInv /\ WindowInv /\ LimitInv /\ [Next]_vars => LimitInv'
<1> SUFFICES ASSUME TypeOK, BoundInv, WindowInv, LimitInv, [Next]_vars PROVE LimitInv'
    OBVIOUS
<1>1. CASE UNCHANGED <<setVars, ghostVars>>
      BY <1>1 DEF LimitInv, WindowUpTo, InWindow, setVars, ghostVars
<1>2. ASSUME NEW t \in Int, Refuse(t) PROVE LimitInv'
      BY <1>2 DEF Refuse, Executed, LimitInv, WindowUpTo, InWindow, TypeOK
<1>3. ASSUME NEW t \in Int, Allow(t) PROVE LimitInv'
  <2> SUFFICES ASSUME orderly', NEW e \in allowed'
               PROVE  IsFiniteSet(WindowUpTo(e)') /\ Cardinality(WindowUpTo(e)') <= Limit
      BY DEF LimitInv
  <2>1. orderly /\ latest <= t /\ latest' = t /\ allowed' = allowed \cup {t}
        BY <1>3 DEF Allow, Executed, TypeOK
  <2>2. BoundInv' /\ WindowInv'
        BY BoundStep, WindowStep
  <2>3. CASE e = t
    <3>1. WindowUpTo(e)' \subseteq entries'
          BY <2>1, <2>2, <2>3 DEF WindowUpTo, WindowInv
    <3>2. /\ IsFiniteSet(WindowUpTo(e)') /\ IsFiniteSet(entries')
          /\ Cardinality(WindowUpTo(e)') <= Cardinality(entries')
          BY <2>2, <3>1, FS_Subset DEF BoundInv
    <3>3. Cardinality(WindowUpTo(e)') \in Nat /\ Cardinality(entries') \in Nat
          BY <3>2, FS_CardinalityType
    <3> QED BY <2>2, <3>2, <3>3, SettingsAssumption DEF BoundInv
  <2>4. CASE e # t
    <3>1. e \in allowed /\ e < t
          BY <2>1, <2>4 DEF WindowInv, TypeOK
    <3>2. WindowUpTo(e)' = WindowUpTo(e)
          BY <2>1, <3>1 DEF WindowUpTo, InWindow, TypeOK
    <3> QED BY <2>1, <3>1, <3>2 DEF LimitInv
  <2> QED BY <2>3, <2>4
<1> QED BY <1>1, <1>2, <1>3, StepCases

Inv == TypeOK /\ BoundInv /\ WindowInv /\ LimitInv

LEMMA InvHolds == Spec => []Inv
<1>1. Init => Inv
      BY InitHolds DEF Init, Inv, LimitInv
<1>2. Inv /\ [Next]_vars => Inv'
      BY TypeStep, BoundStep, WindowStep, LimitStep DEF Inv
<1> QED BY <1>1, <1>2, PTL DEF Spec

\* While executions follow the stamps, each within a second of its own, no window holds
\* more admitted milliseconds than the limit.
THEOREM LimitHolds == Spec => []LimitPerWindow
<1>1. Inv => LimitPerWindow
      BY DEF Inv, LimitInv, LimitPerWindow
<1> QED BY <1>1, InvHolds, PTL

(***************************************************************************)
(* Refusals.                                                               *)
(***************************************************************************)
LEMMA RefusalIsReject ==
    ASSUME TypeOK, [Next]_vars, NEW r \in Requests, pc[r] = "sent", pc'[r] = "refused"
    PROVE  Reject(r)
<1>1. ASSUME NEW q \in Requests,
             Send(q) \/ Admit(q) \/ AnswerLost(q) \/ NotReached(q)
      PROVE  pc'[r] # "refused"
      BY <1>1 DEF Send, Admit, AnswerLost, NotReached, TypeOK
<1>2. ASSUME NEW q \in Requests, Reject(q) PROVE q = r
      BY <1>2 DEF Reject, TypeOK
<1>3. CASE Tick \/ UNCHANGED vars
      BY <1>3 DEF Tick, vars, callVars
<1> QED BY <1>1, <1>2, <1>3 DEF Next

\* A request is refused only when the script has let the limit through within its window,
\* be it in calls whose answers were lost: refused requests use up nobody's limit.
THEOREM RefusalJustified == Spec => RefusedAtLimit
<1>1. ASSUME Inv, [Next]_vars, NEW r \in Requests, pc[r] = "sent", pc'[r] = "refused"
      PROVE  \E full \in SUBSET InWindow(allowed, stamp[r]) : Cardinality(full) = Limit
  <2> USE DEF Inv
  <2>1. stamp[r] \in Int /\ Full(stamp[r])
        BY <1>1, RefusalIsReject DEF Reject, Refuse, TypeOK
  <2>2. Trimmed(stamp[r]) \subseteq InWindow(allowed, stamp[r])
        BY <1>1 DEF Trimmed, InWindow, Live, WindowInv
  <2>3. Cardinality(Trimmed(stamp[r])) = Limit
        BY <1>1, <2>1, TrimmedFacts, SettingsAssumption DEF Full
  <2> QED BY <2>2, <2>3
<1>2. Inv /\ [Next]_vars =>
        [\A r \in Requests : pc[r] = "sent" /\ pc'[r] = "refused" =>
           \E full \in SUBSET InWindow(allowed, stamp[r]) : Cardinality(full) = Limit]_vars
      BY <1>1
<1> QED BY <1>2, InvHolds, PTL DEF Spec, RefusedAtLimit

\* The oldest member, and no other before it, leaves when the window has passed.
LEMMA OldestLeaves ==
    ASSUME NEW S \in SUBSET Int, NEW o \in S, \A s \in S : o <= s, NEW t \in Int, NEW x \in Int
    PROVE  /\ o + WindowMs - t <= x => InWindow(S, t + x) \subseteq S \ {o}
           /\ x < o + WindowMs - t => InWindow(S, t + x) = S
<1> DEFINE cutoff == t + x - WindowMs
<1>1. WindowMs \in Int /\ o \in Int
      BY WindowMsType
<1>2. InWindow(S, t + x) = {s \in S : s > cutoff}
  <2>1. \A s \in S : s > (t + x) - WindowMs <=> s > cutoff
        BY <1>1
  <2> HIDE DEF cutoff
  <2> QED BY <2>1, Zenon DEF InWindow
<1>3. o + WindowMs - t <= x => ~(o > cutoff)
      BY <1>1
<1>4. ASSUME x < o + WindowMs - t, NEW s \in S PROVE s > cutoff
  <2>1. s \in Int /\ o <= s
        OBVIOUS
  <2> QED BY <1>1, <1>4, <2>1
<1> HIDE DEF cutoff
<1>5. x < o + WindowMs - t => {s \in S : s > cutoff} = S
      BY <1>4, Zenon
<1>6. o + WindowMs - t <= x => {s \in S : s > cutoff} \subseteq S \ {o}
      BY <1>3, Zenon
<1> QED BY <1>2, <1>5, <1>6

\* There is room when Retry-After is over and none a second before.
THEOREM RetryAfterRight == Spec => RetryAfterIsRight
<1>1. ASSUME Inv, [Next]_vars, NEW r \in Requests, pc[r] = "sent", pc'[r] = "refused"
      PROVE  /\ retry'[r] >= 1
             /\ Room(entries', stamp[r] + retry'[r] * Second)
             /\ ~Room(entries', stamp[r] + (retry'[r] - 1) * Second)
  <2> DEFINE t == stamp[r]
             set == Trimmed(t)
             o == Oldest(set)
             n == RetryAfter(t)
  <2> USE DEF Inv
  <2>1. t \in Int /\ Full(t) /\ entries' = set /\ retry'[r] = n
        BY <1>1, RefusalIsReject DEF Reject, Refuse, TypeOK
  <2>2. /\ o \in set /\ \A s \in set : o <= s
        /\ n \in Nat /\ n >= 1
        /\ o + WindowMs - t <= n * Second
        /\ (n - 1) * Second < o + WindowMs - t
        BY <1>1, <2>1, RetryAfterFacts
  <2>3. /\ set \in SUBSET Int /\ IsFiniteSet(set)
        /\ Cardinality(set) = Limit
        BY <1>1, <2>1, TrimmedFacts, SettingsAssumption DEF Full
  <2>4. n * Second \in Int /\ (n - 1) * Second \in Int
        BY <2>2, ClockAssumption
  <2>5. Room(set, t + n * Second)
    <3> DEFINE later == InWindow(set, t + n * Second)
    <3>1. later \subseteq set \ {o}
          BY <2>1, <2>2, <2>3, <2>4, OldestLeaves
    <3>2. IsFiniteSet(set \ {o}) /\ Cardinality(set \ {o}) = Limit - 1
          BY <2>2, <2>3, FS_RemoveElement
    <3>3. IsFiniteSet(later) /\ Cardinality(later) <= Cardinality(set \ {o})
          BY <3>1, <3>2, FS_Subset
    <3>4. Cardinality(later) \in Nat
          BY <3>3, FS_CardinalityType
    <3> QED BY <3>2, <3>3, <3>4, SettingsAssumption DEF Room
  <2>6. ~Room(set, t + (n - 1) * Second)
    <3> DEFINE x == (n - 1) * Second
    <3>0. x \in Int /\ x < o + WindowMs - t
          BY <2>2, <2>4
    <3> HIDE DEF x
    <3>1. InWindow(set, t + x) = set
          BY <2>1, <2>2, <2>3, <3>0, OldestLeaves
    <3> QED BY <2>3, <3>1, SettingsAssumption DEF Room, x
  <2> QED BY <2>1, <2>2, <2>5, <2>6
<1>2. Inv /\ [Next]_vars =>
        [\A r \in Requests : pc[r] = "sent" /\ pc'[r] = "refused" =>
           /\ retry'[r] >= 1
           /\ Room(entries', stamp[r] + retry'[r] * Second)
           /\ ~Room(entries', stamp[r] + (retry'[r] - 1) * Second)]_vars
      BY <1>1
<1> QED BY <1>2, InvHolds, PTL DEF Spec, RetryAfterIsRight
=============================================================================
