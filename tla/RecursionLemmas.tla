---------------------------- MODULE RecursionLemmas ----------------------------
(***************************************************************************)
(* Induction and recursion over the naturals, stated with sets where the   *)
(* library's theorems take an operator: what the functions on sequences    *)
(* of the models compute, such as the length of a history, is defined by   *)
(* recursion, and its properties rest on these lemmas.  A module instances *)
(* them with the step Op of the fold that its proofs are about.            *)
(***************************************************************************)
EXTENDS Integers, FiniteSets, Sequences, SequencesExt, SequenceTheorems, WellFoundedInduction, TLAPS

CONSTANT Op(_, _, _)    \* the next state of a fold: what it has at hand, the state, the item

Less == {p \in Nat \X Nat : p[1] < p[2]}

LEMMA LessIsWellFounded == IsWellFoundedOn(Less, Nat)
<1>1. OpToRel(<, Nat) = Less
      BY DEF OpToRel, Less
<1> QED BY <1>1, NatLessThanWellFounded

\* A set of naturals that is not empty has a least member.
LEMMA NatHasMinimum ==
    ASSUME NEW T \in SUBSET Nat, T # {}
    PROVE  \E x \in T : \A y \in T : x <= y
<1>1. PICK x \in T : \A y \in T : <<y, x>> \notin Less
      BY LessIsWellFounded, WFMin
<1>2. ASSUME NEW y \in T PROVE x <= y
  <2>1. <<y, x>> \notin Less /\ x \in Nat /\ y \in Nat
        BY <1>1
  <2>2. <<y, x>> \in Nat \X Nat /\ <<y, x>>[1] = y /\ <<y, x>>[2] = x
        BY <2>1
  <2>3. ~(y < x)
        BY <2>1, <2>2 DEF Less
  <2> QED BY <2>1, <2>3
<1> QED BY <1>2

\* A bounded set of naturals that is not empty has a greatest member.
LEMMA NatHasMaximum ==
    ASSUME NEW N \in Nat, NEW T \in SUBSET (0 .. N), T # {}
    PROVE  \E x \in T : \A y \in T : y <= x
<1> DEFINE V == {k \in Nat : N - k \in T}
<1>1. PICK y \in T : TRUE
      OBVIOUS
<1>2. N - y \in V /\ V \in SUBSET Nat
      OBVIOUS
<1>3. \E k \in V : \A l \in V : k <= l
  <2> HIDE DEF V
  <2> QED BY <1>2, NatHasMinimum
<1>4. PICK k \in V : \A l \in V : k <= l
      BY <1>3
<1>5. ASSUME NEW z \in T PROVE z <= N - k
  <2>1. N - z \in V
        OBVIOUS
  <2>2. k \in Nat /\ z \in Nat
        BY <1>4
  <2> HIDE DEF V
  <2>3. k <= N - z
        BY <1>4, <2>1
  <2> QED BY <2>2, <2>3
<1> QED BY <1>4, <1>5

\* Induction up to a bound, over a set instead of a predicate.
LEMMA InductionTo ==
    ASSUME NEW N \in Nat, NEW T, 0 \in T, \A n \in 1 .. N : n - 1 \in T => n \in T
    PROVE  0 .. N \subseteq T
<1> DEFINE Missed == {n \in 0 .. N : n \notin T}
<1>1. SUFFICES ASSUME Missed # {} PROVE FALSE
      OBVIOUS
<1>2. Missed \in SUBSET Nat
      OBVIOUS
<1>3. \E n \in Missed : \A m \in Missed : n <= m
  <2> HIDE DEF Missed
  <2> QED BY <1>1, <1>2, NatHasMinimum
<1>4. PICK n \in Missed : \A m \in Missed : n <= m
      BY <1>3
<1>5. n \in 1 .. N /\ n - 1 \in 0 .. N /\ ~(n <= n - 1)
      BY <1>4
<1>6. n - 1 \notin Missed
      BY <1>4, <1>5
<1> QED BY <1>4, <1>5, <1>6

\* g is the function with the first value b and the steps F.
Recursion(N, S, b, F, g) == g \in [0 .. N -> S] /\ g[0] = b /\ \A n \in 1 .. N : g[n] = F[n][g[n - 1]]

\* A first value and a step for each number give a function.
LEMMA RecursionTo ==
    ASSUME NEW N \in Nat, NEW S, NEW b \in S, NEW F \in [1 .. N -> [S -> S]]
    PROVE  \E g : Recursion(N, S, b, F, g)
<1> DEFINE Good(n, g) == g[0] = b /\ \A m \in 1 .. n : g[m] = F[m][g[m - 1]]
           T == {n \in 0 .. N : \E g \in [0 .. n -> S] : Good(n, g)}
<1>1. 0 \in T
  <2> DEFINE h0 == [m \in 0 .. 0 |-> b]
  <2>1. h0 \in [0 .. 0 -> S] /\ h0[0] = b
        OBVIOUS
  <2>2. Good(0, h0)
        BY <2>1
  <2>3. 0 \in 0 .. N
        OBVIOUS
  <2> HIDE DEF Good, h0
  <2> QED BY <2>1, <2>2, <2>3
<1>2. ASSUME NEW n \in 1 .. N, n - 1 \in T PROVE n \in T
  <2>1. PICK g \in [0 .. n - 1 -> S] : Good(n - 1, g)
        BY <1>2
  <2> DEFINE h == [m \in 0 .. n |-> IF m = n THEN F[n][g[n - 1]] ELSE g[m]]
  <2>2. n \in Nat /\ n - 1 \in Nat /\ n - 1 \in 0 .. n - 1 /\ F[n] \in [S -> S] /\ g[n - 1] \in S
        OBVIOUS
  <2>3. F[n][g[n - 1]] \in S
        BY <2>2
  <2>4. ASSUME NEW m \in 0 .. n PROVE h[m] \in S
        BY <2>3
  <2>5. h \in [0 .. n -> S]
        BY <2>4
  <2>6. h[0] = b
        BY <2>1, <2>2
  <2>7. ASSUME NEW m \in 1 .. n PROVE h[m] = F[m][h[m - 1]]
    <3>1. m - 1 \in 0 .. n /\ m - 1 # n /\ h[m - 1] = g[m - 1]
          OBVIOUS
    <3>2. CASE m = n
          BY <3>1, <3>2
    <3>3. CASE m # n
      <4>1. m \in 1 .. n - 1
            BY <3>3
      <4> QED BY <2>1, <3>1, <3>3, <4>1
    <3> QED BY <3>2, <3>3
  <2>8. Good(n, h)
        BY <2>6, <2>7
  <2> HIDE DEF h, Good
  <2> QED BY <2>5, <2>8
<1>3. 0 .. N \subseteq T
  <2> HIDE DEF T
  <2> QED BY <1>1, <1>2, InductionTo
<1>4. N \in T
      BY <1>3
<1> QED BY <1>4 DEF Recursion

\* The values of such a function are in the set its steps are in.
LEMMA RecursionStays ==
    ASSUME NEW N \in Nat, NEW S, NEW g, g[0] \in S, \A n \in 1 .. N : g[n - 1] \in S => g[n] \in S
    PROVE  \A n \in 0 .. N : g[n] \in S
<1> DEFINE T == {n \in 0 .. N : g[n] \in S}
<1>1. 0 \in T /\ \A n \in 1 .. N : n - 1 \in T => n \in T
      OBVIOUS
<1>2. 0 .. N \subseteq T
  <2> HIDE DEF T
  <2> QED BY <1>1, InductionTo
<1> QED BY <1>2

(***************************************************************************)
(* FoldLeft of the community modules goes through the sets of positions    *)
(* of a sequence, the greatest position last.                              *)
(***************************************************************************)
LEMMA MaxOfLast == ASSUME NEW m \in Nat, NEW s \in SUBSET (1 .. m), m \in s PROVE Max(s) = m
<1>1. m \in Int /\ \A y \in s : y \in Int /\ m >= y
      OBVIOUS
<1>2. \A x \in s : (\A y \in s : x >= y) => x = m
      BY <1>1
<1>3. \E x \in s : \A y \in s : x >= y
      BY <1>1
<1>4. LET x == CHOOSE x \in s : \A y \in s : x >= y IN x \in s /\ \A y \in s : x >= y
      BY <1>3
<1> QED BY <1>2, <1>4 DEF Max

LEMMA MaxIsMember == ASSUME NEW N \in Nat, NEW s \in SUBSET (1 .. N), s # {} PROVE Max(s) \in s
<1> DEFINE T == {k \in Nat : N - k \in s}
<1>1. PICK y \in s : TRUE
      OBVIOUS
<1>2. N - y \in T /\ T \in SUBSET Nat
      OBVIOUS
<1>3. \E k \in T : \A l \in T : k <= l
  <2> HIDE DEF T
  <2> QED BY <1>2, NatHasMinimum
<1>4. PICK k \in T : \A l \in T : k <= l
      BY <1>3
<1>5. ASSUME NEW z \in s PROVE N - k >= z
  <2>1. N - z \in T
        OBVIOUS
  <2> QED BY <1>4, <2>1
<1>6. \E x \in s : \A z \in s : x >= z
      BY <1>4, <1>5
<1> QED BY <1>6 DEF Max

LEMMA PositionsTo ==
    ASSUME NEW N \in Nat, NEW n \in 1 .. N
    PROVE  /\ 1 .. n \in SUBSET (1 .. N) /\ 1 .. n # {} /\ Max(1 .. n) = n
           /\ (1 .. n) \ {n} = 1 .. (n - 1) /\ 1 .. (n - 1) \in SUBSET (1 .. N)
<1>1. n \in 1 .. n /\ 1 .. n \in SUBSET (1 .. n) /\ n \in Nat
      OBVIOUS
<1>2. Max(1 .. n) = n
      BY <1>1, MaxOfLast
<1>3. (1 .. n) \ {n} = 1 .. (n - 1)
      OBVIOUS
<1>4. 1 .. n # {}
      BY <1>1
<1>5. 1 .. n \in SUBSET (1 .. N)
      OBVIOUS
<1>6. 1 .. (n - 1) \in SUBSET (1 .. N)
      OBVIOUS
<1> QED BY <1>2, <1>3, <1>4, <1>5, <1>6

\* g folds the steps F over the sets of positions, from the value b.
Fold(N, S, b, F, g) ==
    /\ g \in [SUBSET (1 .. N) -> S]
    /\ \A s \in SUBSET (1 .. N) : g[s] = IF s = {} THEN b ELSE F[Max(s)][g[s \ {Max(s)}]]

LEMMA FoldTo ==
    ASSUME NEW N \in Nat, NEW S, NEW b \in S, NEW F \in [1 .. N -> [S -> S]]
    PROVE  \E g : Fold(N, S, b, F, g)
<1> DEFINE Known(n) == \E f : Fold(n, S, b, F, f)
           T == {n \in 0 .. N : Known(n)}
<1>1. 0 \in T
  <2> DEFINE f == [s \in SUBSET (1 .. 0) |-> b]
  <2>1. f \in [SUBSET (1 .. 0) -> S] /\ \A s \in SUBSET (1 .. 0) : s = {}
        OBVIOUS
  <2>2. Fold(0, S, b, F, f)
        BY <2>1 DEF Fold
  <2> HIDE DEF f
  <2>3. Known(0)
        BY <2>2
  <2> HIDE DEF Known
  <2> QED BY <2>3
<1>2. ASSUME NEW n \in 1 .. N, n - 1 \in T PROVE n \in T
  <2>1. PICK f : Fold(n - 1, S, b, F, f)
        BY <1>2
  <2> DEFINE g == [s \in SUBSET (1 .. n) |-> IF n \in s THEN F[n][f[s \ {n}]] ELSE f[s]]
  <2>2. n \in Nat /\ F[n] \in [S -> S] /\ f \in [SUBSET (1 .. n - 1) -> S]
        /\ \A s \in SUBSET (1 .. n) : s \ {n} \in SUBSET (1 .. n - 1) /\ (n \notin s => s \in SUBSET (1 .. n - 1))
        BY <2>1 DEF Fold
  <2>3. g \in [SUBSET (1 .. n) -> S]
    <3>1. ASSUME NEW s \in SUBSET (1 .. n) PROVE g[s] \in S
          BY <2>2
    <3> QED BY <3>1
  <2>4. ASSUME NEW s \in SUBSET (1 .. n)
        PROVE  g[s] = IF s = {} THEN b ELSE F[Max(s)][g[s \ {Max(s)}]]
    <3>1. CASE n \in s
      <4>1. Max(s) = n
            BY <2>2, <3>1, MaxOfLast
      <4>2. s \ {n} \in SUBSET (1 .. n) /\ n \notin s \ {n} /\ g[s \ {n}] = f[s \ {n}]
            BY <2>2
      <4> QED BY <3>1, <4>1, <4>2
    <3>2. CASE n \notin s
      <4>1. s \in SUBSET (1 .. n - 1) /\ s \ {Max(s)} \in SUBSET (1 .. n) /\ n \notin s \ {Max(s)}
            BY <2>2, <3>2
      <4>2. g[s] = f[s] /\ g[s \ {Max(s)}] = f[s \ {Max(s)}]
            BY <3>2, <4>1
      <4>3. f[s] = IF s = {} THEN b ELSE F[Max(s)][f[s \ {Max(s)}]]
            BY <2>1, <4>1 DEF Fold
      <4> QED BY <4>2, <4>3
    <3> QED BY <3>1, <3>2
  <2> HIDE DEF g
  <2>5. Known(n)
        BY <2>3, <2>4 DEF Fold
  <2> HIDE DEF Known
  <2> QED BY <2>5
<1>3. N \in T
  <2>1. 0 .. N \subseteq T
    <3> HIDE DEF T
    <3> QED BY <1>1, <1>2, InductionTo
  <2>2. N \in 0 .. N
        OBVIOUS
  <2> HIDE DEF T
  <2> QED BY <2>1, <2>2
<1> QED BY <1>3

\* The fold of Op over a sequence, and its states: h[n] is that after n items.
Folded(x, b, seq) == FoldLeft(LAMBDA state, item : Op(x, state, item), b, seq)

States(x, S, b, seq, h) ==
    h \in [0 .. Len(seq) -> S] /\ h[0] = b /\ \A n \in 1 .. Len(seq) : h[n] = Op(x, h[n - 1], seq[n])

LEMMA FoldStates ==
    ASSUME NEW x, NEW S, NEW A, NEW b \in S, NEW seq \in Seq(A), \A c \in S, a \in A : Op(x, c, a) \in S
    PROVE  \E h : States(x, S, b, seq, h) /\ Folded(x, b, seq) = h[Len(seq)]
<1> DEFINE N == Len(seq)
           F == [n \in 1 .. N |-> [c \in S |-> Op(x, c, seq[n])]]
           Rec(f) == f = [s \in SUBSET (1 .. N) |-> IF s = {} THEN b ELSE Op(x, f[s \ {Max(s)}], seq[Max(s)])]
<1>1. N \in Nat /\ DOMAIN seq = 1 .. N /\ F \in [1 .. N -> [S -> S]]
      OBVIOUS
<1>2. \E f : Rec(f) /\ \A s \in SUBSET (1 .. N) : f[s] \in S
  <2>1. PICK g : Fold(N, S, b, F, g)
    <3> HIDE DEF N, F
    <3> QED BY <1>1, FoldTo
  <2>2. ASSUME NEW s \in SUBSET (1 .. N), s # {} PROVE g[s] = Op(x, g[s \ {Max(s)}], seq[Max(s)])
    <3>1. Max(s) \in 1 .. N
          BY <1>1, <2>2, MaxIsMember
    <3>2. g[s \ {Max(s)}] \in S /\ g[s] = F[Max(s)][g[s \ {Max(s)}]]
          BY <2>1, <2>2 DEF Fold
    <3> QED BY <3>1, <3>2
  <2>3. DOMAIN g = SUBSET (1 .. N) /\ g = [s \in SUBSET (1 .. N) |-> g[s]] /\ g[{}] = b
        BY <2>1 DEF Fold
  <2>4. \A s \in SUBSET (1 .. N) : g[s] = IF s = {} THEN b ELSE Op(x, g[s \ {Max(s)}], seq[Max(s)])
        BY <2>2, <2>3
  <2>5. Rec(g)
    <3> HIDE DEF N
    <3> QED BY <2>3, <2>4
  <2>6. \A s \in SUBSET (1 .. N) : g[s] \in S
        BY <2>1 DEF Fold
  <2> HIDE DEF Rec, N
  <2> QED BY <2>5, <2>6
<1> DEFINE u == CHOOSE f : Rec(f)
<1>3. Rec(u)
  <2> HIDE DEF Rec
  <2> QED BY <1>2
<1>4. Folded(x, b, seq) = u[1 .. N]
  <2>1. DOMAIN seq = 1 .. N
        BY <1>1
  <2> HIDE DEF N
  <2> QED BY <2>1 DEF Folded, FoldLeft, MapThenFoldSet
<1> HIDE DEF u
<1>5. \A s \in SUBSET (1 .. N) : u[s] = IF s = {} THEN b ELSE Op(x, u[s \ {Max(s)}], seq[Max(s)])
      BY <1>3
<1> HIDE DEF Rec, F
<1>6. u[1 .. 0] = b
  <2>1. 1 .. 0 = {} /\ {} \in SUBSET (1 .. N)
        OBVIOUS
  <2> QED BY <1>5, <2>1
<1>7. ASSUME NEW n \in 1 .. N PROVE u[1 .. n] = Op(x, u[1 .. n - 1], seq[n])
  <2> DEFINE s == 1 .. n
  <2> HIDE DEF N
  <2>1. s \in SUBSET (1 .. N) /\ s # {} /\ Max(s) = n /\ s \ {Max(s)} = 1 .. n - 1
        BY <1>1, PositionsTo
  <2>2. u[s] = Op(x, u[s \ {Max(s)}], seq[Max(s)])
    <3> HIDE DEF s
    <3> QED BY <1>5, <2>1
  <2> QED BY <2>1, <2>2
<1> DEFINE h == [n \in 0 .. N |-> u[1 .. n]]
<1>8. h[0] = b /\ h[N] = u[1 .. N] /\ \A n \in 1 .. N : h[n - 1] \in S => h[n] \in S
  <2>1. \A n \in 1 .. N : seq[n] \in A
        BY <1>1
  <2> QED BY <1>1, <1>6, <1>7, <2>1
<1>9. \A n \in 1 .. N : h[n] = Op(x, h[n - 1], seq[n])
  <2> HIDE DEF N
  <2> QED BY <1>1, <1>7
<1>10. DOMAIN h = 0 .. N
      OBVIOUS
<1> HIDE DEF h
<1>11. \A n \in 0 .. N : h[n] \in S
  <2> HIDE DEF N
  <2> QED BY <1>1, <1>8, RecursionStays
<1>12. h \in [0 .. N -> S]
      BY <1>10, <1>11 DEF h
<1>13. States(x, S, b, seq, h)
      BY <1>8, <1>9, <1>12 DEF States
<1> QED BY <1>4, <1>8, <1>13
(***************************************************************************)
(* FlattenSeq joins the sequences of a sequence, the first one first.      *)
(***************************************************************************)
Cat(s, t) == s \o t

LEMMA CatLaws ==
    ASSUME NEW S, NEW U, U = Seq(S)
    PROVE  /\ <<>> \in U
           /\ \A s \in U : Cat(s, <<>>) = s /\ Cat(<<>>, s) = s
           /\ \A s, t \in U : Cat(s, t) \in U
           /\ \A s, t, v \in U : Cat(Cat(s, t), v) = Cat(s, Cat(t, v))
<1>1. \A s \in U : Cat(s, <<>>) = s /\ Cat(<<>>, s) = s
      BY ConcatEmptySeq DEF Cat
<1>2. \A s, t \in U : Cat(s, t) \in U
      BY ConcatProperties DEF Cat
<1>3. ASSUME NEW s \in U, NEW t \in U, NEW v \in U PROVE Cat(Cat(s, t), v) = Cat(s, Cat(t, v))
  <2>1. (s \o t) \o v = s \o (t \o v)
        BY ConcatAssociative
  <2> QED BY <2>1 DEF Cat
<1> QED BY <1>1, <1>2, <1>3

Joined(U, seqs, h) ==
    h \in [0 .. Len(seqs) -> U] /\ h[0] = <<>> /\ \A n \in 1 .. Len(seqs) : h[n] = Cat(h[n - 1], seqs[n])

LEMMA FlattenIsJoined ==
    ASSUME NEW S, NEW U, U = Seq(S), NEW seqs \in Seq(U)
    PROVE  \E h : Joined(U, seqs, h) /\ FlattenSeq(seqs) = h[Len(seqs)]
<1> DEFINE N == Len(seqs)
           none == <<>>
           F == [n \in 1 .. N |-> [c \in U |-> Cat(c, seqs[n])]]
<1>1. N \in Nat /\ DOMAIN seqs = 1 .. N /\ \A n \in 1 .. N : seqs[n] \in U
      OBVIOUS
<1>2. none \in U /\ \A s \in U : Cat(none, s) = s
      BY CatLaws
<1>3. F \in [1 .. N -> [U -> U]]
  <2>1. \A s, t \in U : Cat(s, t) \in U
        BY CatLaws
  <2> QED BY <1>1, <2>1
<1> HIDE DEF none
<1>4. PICK g : Recursion(N, U, none, F, g)
  <2> HIDE DEF N, F
  <2> QED BY <1>1, <1>2, <1>3, RecursionTo
<1>5. g \in [0 .. N -> U] /\ g[0] = none /\ \A n \in 1 .. N : g[n] = F[n][g[n - 1]]
      BY <1>4 DEF Recursion
<1>6. ASSUME NEW n \in 1 .. N PROVE g[n] = Cat(g[n - 1], seqs[n])
  <2>1. n - 1 \in 0 .. N
        BY <1>1
  <2>2. g[n - 1] \in U
        BY <1>5, <2>1
  <2> QED BY <1>5, <2>2
<1>7. Joined(U, seqs, g)
      BY <1>5, <1>6 DEF Joined, none
<1> HIDE DEF F
<1>8. CASE N = 0
  <2>1. seqs = <<>> /\ FlattenSeq(seqs) = seqs
        BY <1>8 DEF FlattenSeq
  <2> QED BY <1>5, <1>7, <1>8, <2>1 DEF none
<1>9. CASE N # 0
  <2> DEFINE Rec(f) == f = [i \in 1 .. N |-> IF i = 1 THEN seqs[i] ELSE f[i - 1] \o seqs[i]]
             u == CHOOSE f : Rec(f)
             k == [i \in 1 .. N |-> g[i]]
  <2>1. 1 \in 1 .. N /\ g[1] = seqs[1]
    <3>1. 1 \in 1 .. N /\ 1 - 1 = 0
          BY <1>1, <1>9
    <3>2. g[1] = Cat(g[1 - 1], seqs[1])
          BY <1>6, <3>1
    <3> QED BY <1>1, <1>2, <1>5, <3>1, <3>2
  <2>2. ASSUME NEW i \in 1 .. N PROVE k[i] = IF i = 1 THEN seqs[i] ELSE k[i - 1] \o seqs[i]
    <3>1. i # 1 => i - 1 \in 1 .. N
          BY <1>1
    <3> HIDE DEF N
    <3>2. i # 1 => k[i - 1] = g[i - 1]
          BY <3>1
    <3>3. i # 1 => k[i] = k[i - 1] \o seqs[i]
          BY <1>6, <3>2 DEF Cat
    <3> QED BY <2>1, <3>3
  <2>3. Rec(k)
    <3>1. k = [i \in 1 .. N |-> k[i]]
          OBVIOUS
    <3> HIDE DEF k, N
    <3> QED BY <2>2, <3>1
  <2>4. Rec(u)
    <3> HIDE DEF Rec, k
    <3> QED BY <2>3
  <2>5. FlattenSeq(seqs) = u[N]
        BY <1>9 DEF FlattenSeq
  <2> HIDE DEF u
  <2>6. \A i \in 1 .. N : u[i] = IF i = 1 THEN seqs[i] ELSE Cat(u[i - 1], seqs[i])
        BY <2>4 DEF Cat
  <2> HIDE DEF Rec, k
  <2> DEFINE T == {n \in 0 .. N : n = 0 \/ u[n] = g[n]}
  <2>7. 0 \in T
        BY <1>1
  <2>8. ASSUME NEW n \in 1 .. N, n - 1 \in T PROVE n \in T
    <3>1. n \in 0 .. N /\ (n # 1 => n - 1 # 0)
          BY <1>1
    <3> HIDE DEF N
    <3>2. n # 1 => u[n] = g[n]
          BY <1>6, <2>6, <2>8, <3>1
    <3>3. n = 1 => u[n] = g[n]
          BY <2>1, <2>6
    <3> QED BY <3>1, <3>2, <3>3
  <2>9. 0 .. N \subseteq T
    <3> HIDE DEF T, N
    <3> QED BY <1>1, <2>7, <2>8, InductionTo
  <2>10. u[N] = g[N]
        BY <1>1, <1>9, <2>9
  <2> QED BY <1>7, <2>5, <2>10
<1> QED BY <1>8, <1>9

\* What comes of a sequence of sequences and of another after it.
LEMMA FlattenConcat ==
    ASSUME NEW S, NEW U, U = Seq(S), NEW a \in Seq(U), NEW b \in Seq(U)
    PROVE  FlattenSeq(a \o b) = Cat(FlattenSeq(a), FlattenSeq(b))
<1> DEFINE ab == a \o b
           M == Len(a)
           N == Len(b)
<1>1. ab \in Seq(U) /\ Len(ab) = M + N /\ M \in Nat /\ N \in Nat /\ (\A n \in 1 .. N : b[n] \in U)
      /\ \A i \in 1 .. M + N : ab[i] = IF i <= M THEN a[i] ELSE b[i - M]
      BY ConcatProperties
<1> HIDE DEF ab
<1>2. PICK f : Joined(U, a, f) /\ FlattenSeq(a) = f[M]
      BY FlattenIsJoined
<1>3. PICK g : Joined(U, b, g) /\ FlattenSeq(b) = g[N]
      BY FlattenIsJoined
<1>4. PICK h : Joined(U, ab, h) /\ FlattenSeq(ab) = h[Len(ab)]
      BY <1>1, FlattenIsJoined
<1>5. /\ f \in [0 .. M -> U] /\ f[0] = <<>> /\ \A n \in 1 .. M : f[n] = Cat(f[n - 1], a[n])
      /\ g \in [0 .. N -> U] /\ g[0] = <<>> /\ \A n \in 1 .. N : g[n] = Cat(g[n - 1], b[n])
      /\ h[0] = <<>> /\ \A n \in 1 .. M + N : h[n] = Cat(h[n - 1], ab[n])
      BY <1>1, <1>2, <1>3, <1>4 DEF Joined
<1>6. \A s, t, v \in U : Cat(Cat(s, t), v) = Cat(s, Cat(t, v))
      BY CatLaws
<1> HIDE DEF M, N
<1> DEFINE T == {n \in 0 .. M : h[n] = f[n]}
<1>7. 0 .. M \subseteq T
  <2>1. 0 \in T
        BY <1>1, <1>5
  <2>2. ASSUME NEW n \in 1 .. M, n - 1 \in T PROVE n \in T
    <3>1. n \in 1 .. M + N /\ n <= M /\ n \in 0 .. M
          BY <1>1
    <3> QED BY <1>1, <1>5, <2>2, <3>1
  <2> HIDE DEF T
  <2> QED BY <1>1, <2>1, <2>2, InductionTo
<1> DEFINE V == {n \in 0 .. N : h[M + n] = Cat(f[M], g[n])}
<1>8. 0 .. N \subseteq V
  <2>1. f[M] \in U /\ h[M] = f[M] /\ M + 0 = M
    <3>1. M \in 0 .. M /\ M + 0 = M
          BY <1>1
    <3> QED BY <1>5, <1>7, <3>1
  <2>2. 0 \in V
    <3>1. Cat(f[M], <<>>) = f[M]
          BY <2>1, CatLaws
    <3> QED BY <1>1, <1>5, <2>1, <3>1
  <2>3. ASSUME NEW n \in 1 .. N, n - 1 \in V PROVE n \in V
    <3>1. M + n \in 1 .. M + N /\ ~(M + n <= M) /\ (M + n) - M = n /\ (M + n) - 1 = M + (n - 1)
          /\ n - 1 \in 0 .. N /\ n \in 0 .. N
          BY <1>1
    <3>2. h[M + n] = Cat(h[M + (n - 1)], b[n])
          BY <1>1, <1>5, <3>1
    <3>3. h[M + (n - 1)] = Cat(f[M], g[n - 1]) /\ g[n] = Cat(g[n - 1], b[n]) /\ g[n - 1] \in U /\ b[n] \in U
          BY <1>1, <1>5, <2>3, <3>1
    <3>4. Cat(Cat(f[M], g[n - 1]), b[n]) = Cat(f[M], Cat(g[n - 1], b[n]))
          BY <1>6, <2>1, <3>3
    <3> QED BY <3>1, <3>2, <3>3, <3>4
  <2> HIDE DEF V
  <2> QED BY <1>1, <2>2, <2>3, InductionTo
<1>9. h[M + N] = Cat(f[M], g[N])
      BY <1>1, <1>8
<1> QED BY <1>1, <1>2, <1>3, <1>4, <1>9 DEF ab

LEMMA FlattenType ==
    ASSUME NEW S, NEW U, U = Seq(S), NEW seqs \in Seq(U)
    PROVE  FlattenSeq(seqs) \in U
<1>1. PICK h : Joined(U, seqs, h) /\ FlattenSeq(seqs) = h[Len(seqs)]
      BY FlattenIsJoined
<1>2. Len(seqs) \in 0 .. Len(seqs)
      OBVIOUS
<1> QED BY <1>1, <1>2 DEF Joined

LEMMA FlattenNone == FlattenSeq(<<>>) = <<>>
  BY DEF FlattenSeq

LEMMA FlattenOne ==
    ASSUME NEW S, NEW U, U = Seq(S), NEW s \in U
    PROVE  FlattenSeq(<<s>>) = s
<1> DEFINE seqs == <<s>>
<1>1. seqs \in Seq(U) /\ Len(seqs) = 1 /\ seqs[1] = s
      OBVIOUS
<1> HIDE DEF seqs
<1>2. PICK h : Joined(U, seqs, h) /\ FlattenSeq(seqs) = h[Len(seqs)]
      BY <1>1, FlattenIsJoined
<1>3. h[1] = Cat(<<>>, s)
      BY <1>1, <1>2 DEF Joined
<1>4. Cat(<<>>, s) = s
      BY CatLaws
<1> QED BY <1>1, <1>2, <1>3, <1>4 DEF seqs

LEMMA FlattenAppend ==
    ASSUME NEW S, NEW U, U = Seq(S), NEW seqs \in Seq(U), NEW s \in U
    PROVE  FlattenSeq(Append(seqs, s)) = Cat(FlattenSeq(seqs), s)
<1> DEFINE one == <<s>>
<1>1. Append(seqs, s) = seqs \o one /\ one \in Seq(U)
      BY AppendIsConcat
<1>2. FlattenSeq(one) = s
      BY FlattenOne
<1> HIDE DEF one
<1>3. FlattenSeq(seqs \o one) = Cat(FlattenSeq(seqs), FlattenSeq(one))
      BY <1>1, FlattenConcat
<1> QED BY <1>1, <1>2, <1>3

\* The members of what sequences make together are those of each.
LEMMA FlattenMembers ==
    ASSUME NEW S, NEW U, U = Seq(S), NEW seqs \in Seq(U)
    PROVE  ToSet(FlattenSeq(seqs)) = UNION {ToSet(seqs[i]) : i \in 1 .. Len(seqs)}
<1> DEFINE N == Len(seqs)
           none == <<>>
           Of(n) == UNION {ToSet(seqs[i]) : i \in 1 .. n}
<1>1. PICK h : Joined(U, seqs, h) /\ FlattenSeq(seqs) = h[Len(seqs)]
      BY FlattenIsJoined
<1>2. N \in Nat /\ h \in [0 .. N -> U] /\ h[0] = none /\ \A n \in 1 .. N : h[n] = Cat(h[n - 1], seqs[n])
      BY <1>1 DEF Joined
<1>3. ToSet(none) = {} /\ Of(0) = {}
      BY DEF ToSet
<1>4. \A s, t \in U : ToSet(Cat(s, t)) = ToSet(s) \cup ToSet(t)
  <2>1. ASSUME NEW s \in U, NEW t \in U PROVE ToSet(Cat(s, t)) = ToSet(s) \cup ToSet(t)
    <3>1. s \in Seq(S) /\ t \in Seq(S)
          OBVIOUS
    <3> DEFINE M == Len(s)
               K == Len(t)
               st == s \o t
    <3>2. DOMAIN s = 1 .. M /\ DOMAIN t = 1 .. K /\ M \in Nat /\ K \in Nat /\ DOMAIN st = 1 .. M + K
          BY <3>1, ConcatProperties
    <3>3. \A i \in 1 .. M + K : st[i] = IF i <= M THEN s[i] ELSE t[i - M]
          BY <3>1, ConcatProperties
    <3> HIDE DEF st, M, K
    <3>4. \A x \in ToSet(st) : x \in ToSet(s) \cup ToSet(t)
      <4>1. ASSUME NEW i \in 1 .. M + K PROVE st[i] \in ToSet(s) \cup ToSet(t)
        <5>1. CASE i <= M
              BY <3>2, <3>3, <5>1 DEF ToSet
        <5>2. CASE i > M
          <6>1. i - M \in 1 .. K /\ st[i] = t[i - M]
                BY <3>2, <3>3, <5>2
          <6> QED BY <3>2, <6>1 DEF ToSet
        <5> QED BY <3>2, <5>1, <5>2
      <4> QED BY <3>2, <4>1 DEF ToSet
    <3>5. \A x \in ToSet(s) : x \in ToSet(st)
      <4>1. ASSUME NEW i \in 1 .. M PROVE s[i] \in ToSet(st)
        <5>1. i \in 1 .. M + K /\ st[i] = s[i]
              BY <3>2, <3>3
        <5> QED BY <3>2, <5>1 DEF ToSet
      <4> QED BY <3>2, <4>1 DEF ToSet
    <3>6. \A x \in ToSet(t) : x \in ToSet(st)
      <4>1. ASSUME NEW i \in 1 .. K PROVE t[i] \in ToSet(st)
        <5>1. M + i \in 1 .. M + K /\ st[M + i] = t[i]
              BY <3>2, <3>3
        <5> QED BY <3>2, <5>1 DEF ToSet
      <4> QED BY <3>2, <4>1 DEF ToSet
    <3> QED BY <3>4, <3>5, <3>6 DEF st, Cat
  <2> QED BY <2>1
<1>5. ASSUME NEW n \in 1 .. N PROVE Of(n) = Of(n - 1) \cup ToSet(seqs[n])
      BY <1>2
<1> DEFINE T == {n \in 0 .. N : ToSet(h[n]) = Of(n)}
<1>6. 0 .. N \subseteq T
  <2>1. 0 \in T
        BY <1>2, <1>3
  <2>2. ASSUME NEW n \in 1 .. N, n - 1 \in T PROVE n \in T
    <3>1. n - 1 \in 0 .. N /\ n \in 0 .. N /\ seqs[n] \in U /\ ToSet(h[n - 1]) = Of(n - 1)
          BY <1>2, <2>2
    <3>2. h[n - 1] \in U /\ h[n] = Cat(h[n - 1], seqs[n])
          BY <1>2, <3>1
    <3> HIDE DEF Of, N
    <3>3. ToSet(Cat(h[n - 1], seqs[n])) = ToSet(h[n - 1]) \cup ToSet(seqs[n])
          BY <1>4, <3>1, <3>2
    <3>4. Of(n) = Of(n - 1) \cup ToSet(seqs[n])
          BY <1>5
    <3>5. ToSet(h[n]) = Of(n)
          BY <3>1, <3>2, <3>3, <3>4
    <3> QED BY <3>1, <3>5
  <2> HIDE DEF T, N
  <2> QED BY <1>2, <2>1, <2>2, InductionTo
<1> QED BY <1>1, <1>2, <1>6
================================================================================
