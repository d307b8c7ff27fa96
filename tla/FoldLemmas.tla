------------------------------ MODULE FoldLemmas ------------------------------
(***************************************************************************)
(* Lemmas about data for the proofs of the session and of the library:     *)
(* induction over the naturals, stated for a set in place of a predicate;  *)
(* the existence of what a recursive function and FoldLeft of SequencesExt *)
(* define, with the step of the recursion given as a function; and what    *)
(* the filters of Filters keep.                                            *)
(***************************************************************************)
EXTENDS Integers, Filters, Folds, WellFoundedInduction, TLAPS

\* A recursion of n steps over the values V: where it starts, and its steps.
Recursion(n, V, base, step) ==
    n \in Nat /\ base \in V /\ step \in [1..n -> [V -> V]]

\* f follows the steps from base, one after the other.
Follows(f, n, base, step) ==
    f[0] = base /\ \A k \in 1..n : f[k] = step[k][f[k - 1]]

\* f follows the steps from base over sets of positions, the last one last;
\* and does so as long as it stays in V.
FollowsOnSets(f, n, base, step) ==
    \A S \in SUBSET (1..n) :
        f[S] = IF S = {} THEN base ELSE step[Max(S)][f[S \ {Max(S)}]]
FollowsWithin(f, n, V, base, step) ==
    /\ f[{}] = base
    /\ \A S \in SUBSET (1..n) :
          S # {} /\ f[S \ {Max(S)}] \in V
              => f[S] = step[Max(S)][f[S \ {Max(S)}]]

-----------------------------------------------------------------------------

Smaller == {pair \in Nat \X Nat : pair[1] < pair[2]}

LEMMA SmallerWellFounded == IsWellFoundedOn(Smaller, Nat)
  BY NatLessThanWellFounded DEF OpToRel, Smaller

LEMMA SmallerIsLess ==
    ASSUME NEW k \in Nat, NEW m \in Nat
    PROVE  <<k, m>> \in Smaller <=> k < m
  BY DEF Smaller

\* A nonempty set of naturals has a least member.
LEMMA LeastNumber ==
    ASSUME NEW T \in SUBSET Nat, T # {}
    PROVE  \E m \in T : \A k \in T : m <= k
<1>1. PICK m \in T : \A k \in T : ~ (<<k, m>> \in Smaller)
  BY SmallerWellFounded, WFMin
<1>2. ASSUME NEW k \in T PROVE m <= k
  <2>1. k \in Nat /\ m \in Nat
    OBVIOUS
  <2>2. ~ (<<k, m>> \in Smaller)
    BY <1>1
  <2>3. ~ (k < m)
    BY <2>1, <2>2, SmallerIsLess
  <2> QED BY <2>1, <2>3
<1> QED BY <1>2

\* Induction up to n: a set with 0 that contains k + 1 whenever it contains k
\* contains every number from 0 to n.
LEMMA UpToInduction ==
    ASSUME NEW n \in Nat, NEW T, 0 \in T,
           \A k \in 0..(n - 1) : k \in T => k + 1 \in T
    PROVE  0..n \subseteq T
<1> SUFFICES ASSUME (0..n) \ T # {} PROVE FALSE
  OBVIOUS
<1>1. PICK m \in (0..n) \ T : \A k \in (0..n) \ T : m <= k
  <2>1. (0..n) \ T \in SUBSET Nat
    OBVIOUS
  <2> QED BY <2>1, LeastNumber
<1>2. m # 0 /\ m - 1 \in 0..(n - 1)
  BY <1>1
<1>3. m - 1 \in T
  BY <1>1, <1>2
<1> QED BY <1>1, <1>2, <1>3

-----------------------------------------------------------------------------

\* A recursive function over 0..n, whose value at k the step k makes of the
\* value before it, exists.
LEMMA RecursionExists ==
    ASSUME NEW n, NEW V, NEW base, NEW step, Recursion(n, V, base, step)
    PROVE  \E f \in [0..n -> V] : Follows(f, n, base, step)
<1> USE DEF Recursion
<1> DEFINE Good(k, f) ==
        f[0] = base /\ \A j \in 1..k : f[j] = step[j][f[j - 1]]
<1> DEFINE Exists(k) == \E f \in [0..k -> V] : Good(k, f)
<1> DEFINE T == {k \in 0..n : Exists(k)}
<1>1. 0 \in T
  <2>1. Good(0, [j \in 0..0 |-> base])
    OBVIOUS
  <2>2. Exists(0)
    <3> [j \in 0..0 |-> base] \in [0..0 -> V]
      OBVIOUS
    <3> QED BY <2>1
  <2> QED BY <2>2
<1>2. ASSUME NEW k \in 0..(n - 1), k \in T PROVE k + 1 \in T
  <2>1. PICK f \in [0..k -> V] : Good(k, f)
    BY <1>2
  <2> DEFINE g == [j \in 0..(k + 1) |->
                      IF j = k + 1 THEN step[k + 1][f[k]] ELSE f[j]]
  <2>2. g \in [0..(k + 1) -> V]
    <3>1. step[k + 1] \in [V -> V] /\ f[k] \in V
      OBVIOUS
    <3>2. step[k + 1][f[k]] \in V
      BY <3>1
    <3> QED BY <3>2
  <2>3. g[0] = base
    BY <2>1
  <2>4. ASSUME NEW j \in 1..(k + 1) PROVE g[j] = step[j][g[j - 1]]
    <3>1. CASE j = k + 1
      BY <3>1
    <3>2. CASE j \in 1..k
      BY <3>2, <2>1
    <3> QED BY <3>1, <3>2
  <2> HIDE DEF g
  <2>5. Good(k + 1, g)
    BY <2>3, <2>4
  <2>6. Exists(k + 1)
    BY <2>2, <2>5
  <2> HIDE DEF Exists
  <2> QED BY <2>6
<1> HIDE DEF T
<1>3. \A k \in 0..(n - 1) : k \in T => k + 1 \in T
  BY <1>2
<1>4. n \in T
  <2>1. 0..n \subseteq T
    BY <1>1, <1>3, UpToInduction
  <2> QED BY <2>1
<1> QED BY <1>4 DEF T, Follows

-----------------------------------------------------------------------------

\* The greatest of the first numbers.
LEMMA MaxUpTo ==
    ASSUME NEW k \in Nat, NEW S \in SUBSET (1..k), k \in S
    PROVE  Max(S) = k
<1>1. k \in S /\ \A y \in S : k >= y
  OBVIOUS
<1> DEFINE m == Max(S)
<1>2. m \in S /\ \A y \in S : m >= y
  BY <1>1 DEF Max
<1> HIDE DEF m
<1>3. m \in Int /\ k \in Int /\ m >= k /\ k >= m
  BY <1>1, <1>2
<1>4. m = k
  BY <1>3
<1> QED BY <1>4 DEF m

\* A nonempty set of positions has a greatest one.
LEMMA MaxInside ==
    ASSUME NEW n \in Nat, NEW S \in SUBSET (1..n), S # {}
    PROVE  Max(S) \in S /\ \A y \in S : Max(S) >= y
<1> DEFINE T == {n - k : k \in S}
<1>1. T \in SUBSET Nat /\ T # {}
  <2>1. \A k \in S : k \in 1..n /\ n - k \in Nat
    OBVIOUS
  <2>2. PICK k \in S : TRUE
    OBVIOUS
  <2>3. n - k \in T
    OBVIOUS
  <2> QED BY <2>1, <2>3
<1>2. PICK m \in T : \A k \in T : m <= k
  BY <1>1, LeastNumber
<1>3. PICK x \in S : m = n - x
  BY <1>2
<1>4. ASSUME NEW y \in S PROVE x >= y
  <2>1. m <= n - y
    BY <1>2
  <2>2. x \in 1..n /\ y \in 1..n
    OBVIOUS
  <2> QED BY <1>3, <2>1, <2>2
<1>5. \E z \in S : \A y \in S : z >= y
  BY <1>4
<1> QED BY <1>5 DEF Max

\* The greatest position of a sequence, and the positions before it.
LEMMA LastPosition ==
    ASSUME NEW k \in Nat, k # 0
    PROVE  Max(1..k) = k
  BY MaxUpTo, k \in 1..k, 1..k \in SUBSET (1..k)

LEMMA WithoutLast ==
    ASSUME NEW k \in Nat, k # 0
    PROVE  1..k # {} /\ (1..k) \ {k} = 1..(k - 1)
<1>1. k \in 1..k
  OBVIOUS
<1>2. (1..k) \ {k} = 1..(k - 1)
  OBVIOUS
<1> QED BY <1>1, <1>2
\* What FoldLeft defines, a function over the sets of positions of a sequence
\* that removes the last position and works on the value of the rest, exists.
LEMMA FoldExists ==
    ASSUME NEW n, NEW V, NEW base, NEW step, Recursion(n, V, base, step)
    PROVE  \E f \in [SUBSET (1..n) -> V] : FollowsOnSets(f, n, base, step)
<1> USE DEF Recursion
<1> DEFINE Good(k, f) ==
        \A S \in SUBSET (1..k) :
            f[S] = IF S = {} THEN base ELSE step[Max(S)][f[S \ {Max(S)}]]
<1> DEFINE Exists(k) == \E f \in [SUBSET (1..k) -> V] : Good(k, f)
<1> DEFINE T == {k \in 0..n : Exists(k)}
<1>1. 0 \in T
  <2> DEFINE f == [S \in SUBSET (1..0) |-> base]
  <2>1. f \in [SUBSET (1..0) -> V]
    OBVIOUS
  <2>2. ASSUME NEW S \in SUBSET (1..0) PROVE S = {} /\ f[S] = base
    OBVIOUS
  <2> HIDE DEF f
  <2>3. Good(0, f)
    BY <2>2
  <2>4. Exists(0)
    BY <2>1, <2>3
  <2> HIDE DEF Exists
  <2> QED BY <2>4
<1>2. ASSUME NEW k \in 0..(n - 1), k \in T PROVE k + 1 \in T
  <2>1. PICK f \in [SUBSET (1..k) -> V] : Good(k, f)
    BY <1>2
  <2> DEFINE g == [S \in SUBSET (1..(k + 1)) |->
                      IF k + 1 \in S THEN step[k + 1][f[S \ {k + 1}]]
                      ELSE f[S]]
  <2>2. ASSUME NEW S \in SUBSET (1..(k + 1)) PROVE S \ {k + 1} \in SUBSET (1..k)
    OBVIOUS
  <2>3. g \in [SUBSET (1..(k + 1)) -> V]
    <3>1. ASSUME NEW S \in SUBSET (1..(k + 1))
          PROVE  (IF k + 1 \in S THEN step[k + 1][f[S \ {k + 1}]] ELSE f[S]) \in V
      <4>1. step[k + 1] \in [V -> V]
        OBVIOUS
      <4>2. CASE k + 1 \in S
        <5>1. f[S \ {k + 1}] \in V
          BY <2>2
        <5> QED BY <4>1, <4>2, <5>1
      <4>3. CASE k + 1 \notin S
        <5>1. S \in SUBSET (1..k)
          BY <4>3
        <5> QED BY <4>3, <5>1
      <4> QED BY <4>2, <4>3
    <3> QED BY <3>1
  <2>4. ASSUME NEW S \in SUBSET (1..(k + 1))
        PROVE  g[S] = IF S = {} THEN base ELSE step[Max(S)][g[S \ {Max(S)}]]
    <3>1. CASE k + 1 \in S
      <4>1. Max(S) = k + 1
        BY <3>1, MaxUpTo
      <4>2. g[S \ {k + 1}] = f[S \ {k + 1}]
        BY <2>2
      <4>3. g[S] = step[k + 1][f[S \ {k + 1}]]
        BY <3>1
      <4> QED BY <3>1, <4>1, <4>2, <4>3
    <3>2. CASE k + 1 \notin S
      <4>1. S \in SUBSET (1..k)
        BY <3>2
      <4>2. g[S] = f[S]
        BY <3>2
      <4>3. k + 1 \notin S \ {Max(S)} /\ S \ {Max(S)} \in SUBSET (1..k)
            /\ S \ {Max(S)} \in SUBSET (1..(k + 1))
        BY <3>2, <4>1
      <4>4. g[S \ {Max(S)}] = f[S \ {Max(S)}]
        BY <4>3
      <4>5. f[S] = IF S = {} THEN base ELSE step[Max(S)][f[S \ {Max(S)}]]
        BY <2>1, <4>1
      <4> QED BY <4>2, <4>4, <4>5
    <3> QED BY <3>1, <3>2
  <2> HIDE DEF g
  <2>5. Good(k + 1, g)
    BY <2>4
  <2>6. Exists(k + 1)
    BY <2>3, <2>5
  <2> HIDE DEF Exists
  <2> QED BY <2>6
<1> HIDE DEF T
<1>3. \A k \in 0..(n - 1) : k \in T => k + 1 \in T
  BY <1>2
<1>4. n \in T
  <2>1. 0..n \subseteq T
    BY <1>1, <1>3, UpToInduction
  <2> QED BY <2>1
<1>5. Exists(n)
  BY <1>4 DEF T
<1> QED BY <1>5 DEF FollowsOnSets

\* Such a function takes, over the prefixes of the sequence, the values the
\* steps give one after the other.
LEMMA FoldPrefixes ==
    ASSUME NEW n, NEW V, NEW base, NEW step, Recursion(n, V, base, step),
           NEW f, FollowsWithin(f, n, V, base, step)
    PROVE  \E t \in [0..n -> V] : Follows(t, n, base, step) /\ t[n] = f[1..n]
<1> USE DEF Recursion, FollowsWithin
<1> DEFINE T == {k \in 0..n : f[1..k] \in V}
<1>1. f[1..0] = base
  <2>1. 1..0 = {}
    OBVIOUS
  <2> QED BY <2>1
<1>2. ASSUME NEW k \in 0..(n - 1), f[1..k] \in V
      PROVE  f[1..(k + 1)] = step[k + 1][f[1..k]] /\ f[1..(k + 1)] \in V
  <2>1. k + 1 \in Nat /\ k + 1 # 0 /\ (k + 1) - 1 = k /\ k + 1 \in 1..n
        /\ 1..(k + 1) \in SUBSET (1..n)
    OBVIOUS
  <2>2. Max(1..(k + 1)) = k + 1
    BY <2>1, LastPosition
  <2>3. 1..(k + 1) # {} /\ (1..(k + 1)) \ {k + 1} = 1..k
    BY <2>1, WithoutLast
  <2>4. f[1..(k + 1)] = step[k + 1][f[1..k]]
    <3> DEFINE S == 1..(k + 1)
    <3>1. S \in SUBSET (1..n) /\ S # {} /\ Max(S) = k + 1 /\ S \ {k + 1} = 1..k
      BY <2>1, <2>2, <2>3
    <3> HIDE DEF S
    <3>2. f[S] = step[k + 1][f[1..k]]
      BY <1>2, <3>1
    <3> QED BY <3>2 DEF S
  <2>5. step[k + 1] \in [V -> V]
    BY <2>1
  <2>6. step[k + 1][f[1..k]] \in V
    BY <1>2, <2>5
  <2> QED BY <2>4, <2>6
<1>3. 0 \in T
  BY <1>1
<1>4. \A k \in 0..(n - 1) : k \in T => k + 1 \in T
  BY <1>2
<1>5. 0..n \subseteq T
  <2> HIDE DEF T
  <2> QED BY <1>3, <1>4, UpToInduction
<1> DEFINE t == [k \in 0..n |-> f[1..k]]
<1>6. t \in [0..n -> V] /\ t[0] = base /\ t[n] = f[1..n]
  BY <1>1, <1>5
<1>7. ASSUME NEW k \in 1..n PROVE t[k] = step[k][t[k - 1]]
  <2>1. k - 1 \in 0..(n - 1) /\ (k - 1) + 1 = k /\ k - 1 \in 0..n /\ k \in 0..n
    OBVIOUS
  <2>2. f[1..(k - 1)] \in V
    BY <2>1, <1>5
  <2>3. f[1..k] = step[k][f[1..(k - 1)]]
    BY <2>1, <2>2, <1>2
  <2> QED BY <2>1, <2>3
<1> HIDE DEF t
<1> QED BY <1>6, <1>7 DEF Follows

-----------------------------------------------------------------------------
(* Sequences. *)

\* A function over 1..n is a sequence.
LEMMA SequenceOf ==
    ASSUME NEW T, NEW n \in Nat, NEW f \in [1..n -> T]
    PROVE  f \in Seq(T) /\ Len(f) = n
  OBVIOUS

LEMMA Members ==
    ASSUME NEW T, NEW s \in Seq(T)
    PROVE  /\ s \in Seq(ToSet(s)) /\ ToSet(s) \subseteq T
           /\ \A k \in 1..Len(s) : s[k] \in ToSet(s)
<1>1. DOMAIN s = 1..Len(s) /\ Len(s) \in Nat /\ \A k \in 1..Len(s) : s[k] \in T
  OBVIOUS
<1>2. ToSet(s) \subseteq T /\ \A k \in 1..Len(s) : s[k] \in ToSet(s)
  BY <1>1 DEF ToSet
<1>3. s \in [1..Len(s) -> ToSet(s)]
  <2>1. s = [k \in 1..Len(s) |-> s[k]]
    OBVIOUS
  <2> QED BY <1>2, <2>1
<1>4. s \in Seq(ToSet(s))
  BY <1>1, <1>3, SequenceOf
<1> QED BY <1>2, <1>4

\* A comprehension over positions is a sequence.
LEMMA ListOf ==
    ASSUME NEW n \in Nat, NEW f, f = [k \in 1..n |-> f[k]]
    PROVE  f \in Seq(ToSet(f)) /\ Len(f) = n
<1> DEFINE T == {f[k] : k \in 1..n}
<1>1. f \in [1..n -> T]
  OBVIOUS
<1>2. f \in Seq(T) /\ Len(f) = n
  <2> HIDE DEF T
  <2> QED BY <1>1, SequenceOf
<1> HIDE DEF T
<1> QED BY <1>2, Members

\* Appending one sequence of lines to another.
LEMMA Joined ==
    ASSUME NEW a, NEW b, a \in Seq(ToSet(a)), b \in Seq(ToSet(b))
    PROVE  /\ a \o b \in Seq(ToSet(a \o b))
           /\ Len(a) \in Nat /\ Len(b) \in Nat /\ Len(a \o b) = Len(a) + Len(b)
           /\ \A k \in 1..Len(a) : (a \o b)[k] = a[k]
           /\ \A k \in 1..Len(b) : (a \o b)[Len(a) + k] = b[k]
           /\ \A k \in 1..Len(a \o b) : k > Len(a) =>
                 k - Len(a) \in 1..Len(b) /\ (a \o b)[k] = b[k - Len(a)]
           /\ ToSet(a \o b) = ToSet(a) \cup ToSet(b)
<1> DEFINE T == ToSet(a) \cup ToSet(b)
           c == a \o b
<1>1. a \in Seq(T) /\ b \in Seq(T)
  BY Members
<1>2. DOMAIN a = 1..Len(a) /\ DOMAIN b = 1..Len(b) /\ Len(a) \in Nat /\ Len(b) \in Nat
  OBVIOUS
<1>3. ToSet(a) = {a[k] : k \in 1..Len(a)} /\ ToSet(b) = {b[k] : k \in 1..Len(b)}
  BY <1>2 DEF ToSet
<1> HIDE DEF T
<1>4. /\ c \in Seq(T) /\ Len(c) = Len(a) + Len(b)
      /\ \A k \in 1..Len(a) : c[k] = a[k]
      /\ \A k \in 1..Len(b) : c[Len(a) + k] = b[k]
  BY <1>1, <1>2
<1> HIDE DEF c
<1>5. \A k \in 1..Len(c) : k > Len(a) =>
         k - Len(a) \in 1..Len(b) /\ c[k] = b[k - Len(a)]
  <2> SUFFICES ASSUME NEW k \in 1..Len(c), k > Len(a)
               PROVE  k - Len(a) \in 1..Len(b) /\ c[k] = b[k - Len(a)]
    OBVIOUS
  <2>1. k - Len(a) \in 1..Len(b) /\ Len(a) + (k - Len(a)) = k
    BY <1>2, <1>4
  <2> QED BY <1>4, <2>1
<1>6. c \in Seq(ToSet(c)) /\ ToSet(c) \subseteq T /\ \A k \in 1..Len(c) : c[k] \in ToSet(c)
  BY <1>4, Members
<1>7. T \subseteq ToSet(c)
  <2>1. \A k \in 1..Len(a) : a[k] \in ToSet(c)
    BY <1>2, <1>4, <1>6
  <2>2. \A k \in 1..Len(b) : b[k] \in ToSet(c)
    <3> SUFFICES ASSUME NEW k \in 1..Len(b) PROVE b[k] \in ToSet(c)
      OBVIOUS
    <3>1. Len(a) + k \in 1..Len(c)
      BY <1>2, <1>4
    <3> QED BY <1>4, <1>6, <3>1
  <2> QED BY <2>1, <2>2, <1>3 DEF T
<1>8. ToSet(c) = T
  BY <1>6, <1>7
<1> QED BY <1>2, <1>4, <1>5, <1>6, <1>8 DEF c, T

-----------------------------------------------------------------------------
(* Filtering a sequence. *)

\* A sequence over T of which the elements of S are kept, and what is kept of
\* it element by element.
Filtering(s, T, S) == s \in Seq(T)

\* Kept goes through the sequence element by element.
LEMMA KeptLoop ==
    ASSUME NEW T, NEW s, NEW S, Filtering(s, T, S)
    PROVE  \E t \in [0..Len(s) -> Seq(T \cap S)] :
               /\ t[0] = <<>> /\ t[Len(s)] = Kept(s, S)
               /\ \A k \in 1..Len(s) :
                     t[k] = IF s[k] \in S THEN Append(t[k - 1], s[k]) ELSE t[k - 1]
<1> DEFINE n == Len(s)
           V == Seq(T \cap S)
           Step(kept, x) == IF x \in S THEN Append(kept, x) ELSE kept
           step == [k \in 1..n |-> [v \in V |-> Step(v, s[k])]]
           P(f) == f = [D \in SUBSET DOMAIN s |->
                          IF D = {} THEN <<>> ELSE Step(f[D \ {Max(D)}], s[Max(D)])]
           iter == CHOOSE f : P(f)
<1>1. DOMAIN s = 1..n /\ n \in Nat /\ <<>> \in V /\ s \in Seq(T)
  BY DEF Filtering
<1>2. ASSUME NEW k \in 1..n, NEW v \in V PROVE Step(v, s[k]) \in V
  <2>1. s[k] \in T
    BY <1>1
  <2>2. s[k] \in S => Append(v, s[k]) \in V
    BY <2>1
  <2> QED BY <2>2
<1>3. Kept(s, S) = iter[1..n]
  BY <1>1 DEF Kept, FoldLeft, MapThenFoldSet
<1>4. Recursion(n, V, <<>>, step)
  <2> HIDE DEF V, Step
  <2> QED BY <1>1, <1>2 DEF Recursion
<1>5. ASSUME NEW k \in 1..n, NEW v \in V PROVE step[k][v] = Step(v, s[k])
  <2> HIDE DEF V, Step
  <2> QED OBVIOUS
<1> HIDE DEF step, V, Step
<1>6. P(iter)
  <2>1. PICK f \in [SUBSET (1..n) -> V] : FollowsOnSets(f, n, <<>>, step)
    BY <1>4, FoldExists
  <2>2. ASSUME NEW D \in SUBSET (1..n), D # {}
        PROVE  f[D] = Step(f[D \ {Max(D)}], s[Max(D)])
    <3>1. Max(D) \in 1..n
      BY <1>1, <2>2, MaxInside
    <3>2. f[D \ {Max(D)}] \in V
      OBVIOUS
    <3> QED BY <2>1, <2>2, <3>1, <3>2, <1>5 DEF FollowsOnSets
  <2>3. f[{}] = <<>>
    BY <2>1 DEF FollowsOnSets
  <2>4. P(f)
    BY <1>1, <2>2, <2>3
  <2> HIDE DEF P
  <2> QED BY <2>4
<1>7. iter[{}] = <<>>
  BY <1>1, <1>6
<1>8. ASSUME NEW D \in SUBSET (1..n), D # {}, iter[D \ {Max(D)}] \in V
      PROVE  iter[D] = step[Max(D)][iter[D \ {Max(D)}]]
  <2>1. iter[D] = Step(iter[D \ {Max(D)}], s[Max(D)])
    BY <1>1, <1>6, <1>8
  <2>2. Max(D) \in 1..n
    BY <1>1, <1>8, MaxInside
  <2> QED BY <1>8, <2>1, <2>2, <1>5
<1> HIDE DEF iter
<1>9. FollowsWithin(iter, n, V, <<>>, step)
  BY <1>7, <1>8 DEF FollowsWithin
<1>10. PICK t \in [0..n -> V] : Follows(t, n, <<>>, step) /\ t[n] = iter[1..n]
  BY <1>4, <1>9, FoldPrefixes
<1>11. ASSUME NEW k \in 1..n PROVE t[k] = Step(t[k - 1], s[k])
  <2>1. k - 1 \in 0..n
    BY <1>1
  <2> QED BY <1>10, <1>5, <2>1 DEF Follows
<1> QED BY <1>3, <1>10, <1>11 DEF Follows, V, Step

LEMMA KeptType ==
    ASSUME NEW T, NEW s \in Seq(T), NEW S
    PROVE  Kept(s, S) \in Seq(T \cap S)
<1>1. Len(s) \in 0..Len(s)
  OBVIOUS
<1> QED BY <1>1, KeptLoop DEF Filtering

LEMMA KeptNothing ==
    ASSUME NEW S
    PROVE  Kept(<<>>, S) = <<>>
<1>1. ASSUME NEW T, NEW s \in Seq(T), Filtering(s, T, S)
      PROVE  \E t : t[0] = <<>> /\ t[Len(s)] = Kept(s, S)
  <2>1. PICK t \in [0..Len(s) -> Seq(T \cap S)] :
               /\ t[0] = <<>> /\ t[Len(s)] = Kept(s, S)
               /\ \A k \in 1..Len(s) :
                     t[k] = IF s[k] \in S THEN Append(t[k - 1], s[k]) ELSE t[k - 1]
    BY <1>1, KeptLoop, SMTT(30)
  <2> QED BY <2>1
<1> DEFINE s == <<>>
           T == {}
<1>2. Filtering(s, T, S) /\ s \in Seq(T)
  BY DEF Filtering
<1>3. Len(s) = 0
  OBVIOUS
<1> HIDE DEF s, T
<1>4. \E t : t[0] = <<>> /\ t[Len(s)] = Kept(s, S)
  BY <1>1, <1>2
<1>5. Kept(s, S) = <<>>
  BY <1>3, <1>4
<1> QED BY <1>5 DEF s

\* Another element is kept or not.
LEMMA KeptAppend ==
    ASSUME NEW T, NEW s \in Seq(T), NEW x \in T, NEW S
    PROVE  Kept(Append(s, x), S) =
              IF x \in S THEN Append(Kept(s, S), x) ELSE Kept(s, S)
<1> DEFINE n == Len(s)
           q == Append(s, x)
<1>1. n \in Nat /\ q \in Seq(T) /\ Len(q) = n + 1 /\ q[n + 1] = x
      /\ \A k \in 1..n : q[k] = s[k]
  OBVIOUS
<1> HIDE DEF q
<1>2. PICK t \in [0..n -> Seq(T \cap S)] :
               /\ t[0] = <<>> /\ t[n] = Kept(s, S)
               /\ \A k \in 1..n :
                     t[k] = IF s[k] \in S THEN Append(t[k - 1], s[k]) ELSE t[k - 1]
  <2>1. Filtering(s, T, S)
    BY DEF Filtering
  <2> QED BY <2>1, KeptLoop
<1>3. PICK u \in [0..Len(q) -> Seq(T \cap S)] :
               /\ u[0] = <<>> /\ u[Len(q)] = Kept(q, S)
               /\ \A k \in 1..Len(q) :
                     u[k] = IF q[k] \in S THEN Append(u[k - 1], q[k]) ELSE u[k - 1]
  <2>1. Filtering(q, T, S)
    BY <1>1 DEF Filtering
  <2> QED BY <2>1, KeptLoop
<1> DEFINE Same == {k \in 0..n : t[k] = u[k]}
<1>4. 0..n \subseteq Same
  <2>1. 0 \in Same
    BY <1>1, <1>2, <1>3
  <2>2. ASSUME NEW k \in 0..(n - 1), k \in Same PROVE k + 1 \in Same
    <3>1. k + 1 \in 1..n /\ k + 1 \in 0..n /\ k + 1 \in 1..Len(q) /\ (k + 1) - 1 = k
      BY <1>1
    <3>2. t[k + 1] = IF s[k + 1] \in S THEN Append(t[k], s[k + 1]) ELSE t[k]
      BY <1>2, <3>1
    <3>3. u[k + 1] = IF s[k + 1] \in S THEN Append(u[k], s[k + 1]) ELSE u[k]
      BY <1>1, <1>3, <3>1
    <3> QED BY <2>2, <3>1, <3>2, <3>3
  <2> HIDE DEF Same
  <2> QED BY <1>1, <2>1, <2>2, UpToInduction
<1>5. t[n] = u[n]
  BY <1>1, <1>4
<1>6. u[n + 1] = IF x \in S THEN Append(u[n], x) ELSE u[n]
  <2>1. n + 1 \in 1..Len(q) /\ (n + 1) - 1 = n
    BY <1>1
  <2> QED BY <1>1, <1>3, <2>1
<1>7. Kept(q, S) = IF x \in S THEN Append(Kept(s, S), x) ELSE Kept(s, S)
  BY <1>1, <1>2, <1>3, <1>5, <1>6
<1> QED BY <1>7 DEF q

\* What is kept of two sequences, one after the other.
LEMMA KeptJoined ==
    ASSUME NEW T, NEW a \in Seq(T), NEW b \in Seq(T), NEW S
    PROVE  Kept(a \o b, S) = Kept(a, S) \o Kept(b, S)
<1> DEFINE n == Len(b)
           Good(k) == Kept(a \o SubSeq(b, 1, k), S) = Kept(a, S) \o Kept(SubSeq(b, 1, k), S)
           Same == {k \in 0..n : Good(k)}
<1>1. n \in Nat /\ Kept(a, S) \in Seq(T \cap S)
  BY KeptType
<1>2. Good(0)
  <2>1. SubSeq(b, 1, 0) = <<>>
    OBVIOUS
  <2>2. a \o <<>> = a
    OBVIOUS
  <2>3. Kept(a, S) \o <<>> = Kept(a, S)
    BY <1>1
  <2> QED BY <2>1, <2>2, <2>3, KeptNothing
<1>3. ASSUME NEW k \in 0..(n - 1), Good(k) PROVE Good(k + 1)
  <2> DEFINE p == SubSeq(b, 1, k)
             q == SubSeq(b, 1, k + 1)
             x == b[k + 1]
  <2>1. k + 1 \in 1..n
    BY <1>1
  <2>2. p \in Seq(T) /\ x \in T /\ q = Append(p, x)
    BY <1>1, <2>1
  <2>3. Kept(a \o p, S) = Kept(a, S) \o Kept(p, S)
    BY <1>3
  <2> HIDE DEF p, q, x, Good
  <2>4. a \o p \in Seq(T) /\ a \o q = Append(a \o p, x)
    BY <2>2
  <2>5. Kept(q, S) = IF x \in S THEN Append(Kept(p, S), x) ELSE Kept(p, S)
    BY <2>2, KeptAppend
  <2>6. Kept(Append(a \o p, x), S)
          = IF x \in S THEN Append(Kept(a \o p, S), x) ELSE Kept(a \o p, S)
    BY <2>2, <2>4, KeptAppend
  <2>7. Kept(p, S) \in Seq(T \cap S)
    BY <2>2, KeptType
  <2>8. CASE x \in S
    <3>1. x \in T \cap S
      BY <2>2, <2>8
    <3> DEFINE V == T \cap S
               u == Kept(a, S)
               w == Kept(p, S)
    <3>2. u \in Seq(V) /\ w \in Seq(V) /\ x \in V
      BY <1>1, <2>7, <3>1
    <3>3. Append(u \o w, x) = u \o Append(w, x)
      <4> HIDE DEF u, w, V
      <4>1. Append(u \o w, x) = (u \o w) \o <<x>>
        BY <3>2
      <4>2. Append(w, x) = w \o <<x>> /\ <<x>> \in Seq(V)
        BY <3>2
      <4>3. (u \o w) \o <<x>> = u \o (w \o <<x>>)
        BY <3>2, <4>2
      <4> QED BY <4>1, <4>2, <4>3
    <3>4. Kept(a \o q, S) = Kept(a, S) \o Kept(q, S)
      BY <2>3, <2>4, <2>5, <2>6, <2>8, <3>3
    <3> QED BY <3>4 DEF Good, q
  <2>9. CASE x \notin S
    <3>1. Kept(a \o q, S) = Kept(a, S) \o Kept(q, S)
      BY <2>3, <2>4, <2>5, <2>6, <2>9
    <3> QED BY <3>1 DEF Good, q
  <2> QED BY <2>8, <2>9
<1>4. 0..n \subseteq Same
  <2>1. 0 \in Same /\ \A k \in 0..(n - 1) : k \in Same => k + 1 \in Same
    <3> HIDE DEF Good
    <3>1. 0 \in 0..n /\ \A k \in 0..(n - 1) : k \in 0..n /\ k + 1 \in 0..n
      BY <1>1
    <3> QED BY <1>2, <1>3, <3>1
  <2> HIDE DEF Same, Good
  <2> QED BY <1>1, <2>1, UpToInduction
<1>5. Good(n)
  BY <1>1, <1>4
<1>6. SubSeq(b, 1, n) = b
  OBVIOUS
<1> QED BY <1>5, <1>6

\* What is kept depends on the elements alone.
LEMMA KeptSame ==
    ASSUME NEW T, NEW s \in Seq(T), NEW A, NEW B,
           \A x \in T : x \in A <=> x \in B
    PROVE  Kept(s, A) = Kept(s, B)
<1> DEFINE n == Len(s)
           Good(k) == Kept(SubSeq(s, 1, k), A) = Kept(SubSeq(s, 1, k), B)
           Same == {k \in 0..n : Good(k)}
<1>1. n \in Nat
  OBVIOUS
<1>2. Good(0)
  <2>1. SubSeq(s, 1, 0) = <<>>
    OBVIOUS
  <2> QED BY <2>1, KeptNothing
<1>3. ASSUME NEW k \in 0..(n - 1), Good(k) PROVE Good(k + 1)
  <2> DEFINE p == SubSeq(s, 1, k)
             q == SubSeq(s, 1, k + 1)
             x == s[k + 1]
  <2>1. k + 1 \in 1..n
    BY <1>1
  <2>2. p \in Seq(T) /\ x \in T /\ q = Append(p, x)
    BY <1>1, <2>1
  <2>3. Kept(p, A) = Kept(p, B)
    BY <1>3
  <2> HIDE DEF p, q, x, Good
  <2>4. Kept(Append(p, x), A) = IF x \in A THEN Append(Kept(p, A), x) ELSE Kept(p, A)
    BY <2>2, KeptAppend
  <2>5. Kept(Append(p, x), B) = IF x \in B THEN Append(Kept(p, B), x) ELSE Kept(p, B)
    BY <2>2, KeptAppend
  <2>6. Kept(q, A) = Kept(q, B)
    BY <2>2, <2>3, <2>4, <2>5
  <2> QED BY <2>6 DEF Good, q
<1>4. 0..n \subseteq Same
  <2>1. 0 \in Same /\ \A k \in 0..(n - 1) : k \in Same => k + 1 \in Same
    <3> HIDE DEF Good
    <3>1. 0 \in 0..n /\ \A k \in 0..(n - 1) : k \in 0..n /\ k + 1 \in 0..n
      BY <1>1
    <3> QED BY <1>2, <1>3, <3>1
  <2> HIDE DEF Same, Good
  <2> QED BY <1>1, <2>1, UpToInduction
<1>5. Good(n)
  BY <1>1, <1>4
<1>6. SubSeq(s, 1, n) = s
  OBVIOUS
<1> QED BY <1>5, <1>6

\* All or nothing of a sequence is kept.
LEMMA KeptAll ==
    ASSUME NEW T, NEW s \in Seq(T), NEW S
    PROVE  /\ (\A x \in T : x \in S) => Kept(s, S) = s
           /\ (\A x \in T : x \notin S) => Kept(s, S) = <<>>
<1> DEFINE n == Len(s)
<1>0. Filtering(s, T, S)
  BY DEF Filtering
<1>1. PICK t \in [0..Len(s) -> Seq(T \cap S)] :
               /\ t[0] = <<>> /\ t[Len(s)] = Kept(s, S)
               /\ \A k \in 1..Len(s) :
                     t[k] = IF s[k] \in S THEN Append(t[k - 1], s[k]) ELSE t[k - 1]
  BY ONLY <1>0, KeptLoop, SMTT(30)
<1>2. n \in Nat /\ \A k \in 1..n : s[k] \in T
  OBVIOUS
<1>3. ASSUME \A x \in T : x \in S PROVE Kept(s, S) = s
  <2> DEFINE Same == {k \in 0..n : t[k] = SubSeq(s, 1, k)}
  <2>1. 0 \in Same
    BY <1>1, <1>2
  <2>2. ASSUME NEW k \in 0..(n - 1), k \in Same PROVE k + 1 \in Same
    <3>1. k + 1 \in 1..n /\ k + 1 \in 0..n /\ (k + 1) - 1 = k /\ s[k + 1] \in S
      BY <1>2, <1>3
    <3>2. t[k + 1] = Append(t[k], s[k + 1])
      BY <1>1, <3>1
    <3>3. SubSeq(s, 1, k + 1) = Append(SubSeq(s, 1, k), s[k + 1])
      BY <1>2, <3>1
    <3> QED BY <2>2, <3>1, <3>2, <3>3
  <2>3. 0..n \subseteq Same
    <3> HIDE DEF Same
    <3> QED BY <1>2, <2>1, <2>2, UpToInduction
  <2>4. t[n] = SubSeq(s, 1, n)
    BY <1>2, <2>3
  <2>5. SubSeq(s, 1, n) = s
    OBVIOUS
  <2> QED BY <1>1, <2>4, <2>5
<1>4. ASSUME \A x \in T : x \notin S PROVE Kept(s, S) = <<>>
  <2>1. T \cap S = {}
    BY <1>4
  <2>2. Kept(s, S) \in Seq(T \cap S)
    BY KeptType
  <2> QED BY <2>1, <2>2
<1> QED BY <1>3, <1>4

\* What belongs to the set is kept.
LEMMA KeptSome ==
    ASSUME NEW T, NEW s \in Seq(T), NEW S, NEW j \in 1..Len(s), s[j] \in S
    PROVE  Len(Kept(s, S)) >= 1 /\ Kept(s, S)[1] \in T \cap S
<1> DEFINE a == SubSeq(s, 1, j - 1)
           b == SubSeq(s, j + 1, Len(s))
           x == s[j]
           U == T \cap S
<1> DEFINE c == Append(a, x)
           n == Len(s)
<1>1. /\ a \in Seq(T) /\ b \in Seq(T) /\ x \in T /\ c \in Seq(T) /\ s = c \o b
  <2>1. n \in Nat /\ j \in 1..n /\ x \in T
    OBVIOUS
  <2>2. a \in Seq(T) /\ Len(a) = j - 1 /\ \A k \in 1..(j - 1) : a[k] = s[k]
    BY <2>1
  <2>3. b \in Seq(T) /\ Len(b) = n - j /\ \A k \in 1..(n - j) : b[k] = s[j + k]
    BY <2>1
  <2> HIDE DEF a, b
  <2>4. /\ c \in Seq(T) /\ Len(c) = j /\ c[j] = s[j]
        /\ \A k \in 1..(j - 1) : c[k] = s[k]
    BY <2>1, <2>2
  <2> DEFINE d == c \o b
  <2> HIDE DEF c
  <2>5. /\ d \in Seq(T) /\ Len(d) = n
        /\ \A k \in 1..j : d[k] = c[k]
        /\ \A k \in (j + 1)..n : d[k] = b[k - j]
    BY <2>1, <2>3, <2>4
  <2> HIDE DEF d
  <2>6. ASSUME NEW k \in 1..n PROVE d[k] = s[k]
    <3>1. CASE k < j
      BY <2>4, <2>5, <3>1
    <3>2. CASE k = j
      BY <2>1, <2>4, <2>5, <3>2
    <3>3. CASE k > j
      <4>1. k - j \in 1..(n - j) /\ j + (k - j) = k
        BY <2>1, <3>3
      <4> QED BY <2>1, <2>3, <2>5, <3>3, <4>1
    <3> QED BY <2>1, <3>1, <3>2, <3>3
  <2>7. s = d
    BY <2>5, <2>6, n = Len(s)
  <2> QED BY <2>1, <2>2, <2>3, <2>4, <2>7 DEF d
<1> HIDE DEF a, b, x
<1>2. Kept(s, S) = Kept(Append(a, x), S) \o Kept(b, S)
  <2> HIDE DEF c
  <2>1. Kept(c \o b, S) = Kept(c, S) \o Kept(b, S)
    BY <1>1, KeptJoined
  <2> QED BY <1>1, <2>1 DEF c
<1>3. Kept(Append(a, x), S) = Append(Kept(a, S), x)
  BY <1>1, KeptAppend DEF x
<1>4. Kept(a, S) \in Seq(U) /\ Kept(b, S) \in Seq(U) /\ Kept(s, S) \in Seq(U) /\ x \in U
  BY <1>1, KeptType DEF x
<1> DEFINE ka == Kept(a, S)
           kb == Kept(b, S)
           ks == Kept(s, S)
<1>5. ka \in Seq(U) /\ kb \in Seq(U) /\ ks \in Seq(U) /\ x \in U /\ ks = Append(ka, x) \o kb
  BY <1>2, <1>3, <1>4
<1> HIDE DEF ka, kb, ks, U
<1>6. Len(ks) >= 1
  BY <1>5
<1>7. ks[1] \in U
  BY <1>5, <1>6
<1> QED BY <1>6, <1>7 DEF ks, U

\* Filtering goes along with a mapping that respects it.
Mapped(f, s) == [k \in DOMAIN s |-> f[s[k]]]

Mapping(f, T, U) == f \in [T -> U]

LEMMA MappedType ==
    ASSUME NEW T, NEW U, NEW f, Mapping(f, T, U), NEW s \in Seq(T)
    PROVE  /\ Mapped(f, s) \in Seq(U) /\ Len(Mapped(f, s)) = Len(s)
           /\ \A k \in 1..Len(s) : Mapped(f, s)[k] = f[s[k]]
           /\ \A x \in T : Mapped(f, Append(s, x)) = Append(Mapped(f, s), f[x])
<1>1. DOMAIN s = 1..Len(s) /\ Len(s) \in Nat /\ \A k \in 1..Len(s) : f[s[k]] \in U
  BY DEF Mapping
<1>2. /\ Mapped(f, s) \in Seq(U) /\ Len(Mapped(f, s)) = Len(s)
      /\ \A k \in 1..Len(s) : Mapped(f, s)[k] = f[s[k]]
  <2>1. Mapped(f, s) \in [1..Len(s) -> U]
    BY <1>1 DEF Mapped
  <2> QED BY <1>1, <2>1, SequenceOf DEF Mapped
<1>3. ASSUME NEW x \in T PROVE Mapped(f, Append(s, x)) = Append(Mapped(f, s), f[x])
  <2> DEFINE q == Append(s, x)
             y == f[x]
             m == Mapped(f, s)
  <2>1. /\ DOMAIN q = 1..(Len(s) + 1) /\ q[Len(s) + 1] = x
        /\ \A k \in 1..Len(s) : q[k] = s[k]
    BY <1>1
  <2>2. m \in Seq(U) /\ Len(m) = Len(s) /\ y \in U
    BY <1>2 DEF Mapping
  <2> HIDE DEF q, m
  <2>3. /\ Append(m, y) = [k \in 1..(Len(s) + 1) |-> Append(m, y)[k]]
        /\ Append(m, y)[Len(s) + 1] = y
        /\ \A k \in 1..Len(s) : Append(m, y)[k] = m[k]
    BY <1>1, <2>2
  <2>4. \A k \in 1..(Len(s) + 1) : f[q[k]] = Append(m, y)[k]
    <3>1. \A k \in 1..(Len(s) + 1) : k \in 1..Len(s) \/ k = Len(s) + 1
      BY <1>1
    <3> QED BY <1>2, <2>1, <2>3, <3>1 DEF m
  <2>5. Mapped(f, q) = Append(m, y)
    BY <2>1, <2>3, <2>4 DEF Mapped
  <2> QED BY <2>5 DEF q, m
<1> QED BY <1>2, <1>3

LEMMA KeptMapped ==
    ASSUME NEW T, NEW U, NEW f, Mapping(f, T, U), NEW s \in Seq(T), NEW A, NEW B,
           \A x \in T : x \in A <=> f[x] \in B
    PROVE  Kept(Mapped(f, s), B) = Mapped(f, Kept(s, A))
<1> DEFINE n == Len(s)
           Good(k) == Kept(Mapped(f, SubSeq(s, 1, k)), B) = Mapped(f, Kept(SubSeq(s, 1, k), A))
           Same == {k \in 0..n : Good(k)}
<1>1. n \in Nat
  OBVIOUS
<1>2. Good(0)
  <2>1. SubSeq(s, 1, 0) = <<>>
    OBVIOUS
  <2>2. Mapped(f, <<>>) = <<>>
    BY DEF Mapped
  <2> QED BY <2>1, <2>2, KeptNothing
<1>3. ASSUME NEW k \in 0..(n - 1), Good(k) PROVE Good(k + 1)
  <2> DEFINE p == SubSeq(s, 1, k)
             q == SubSeq(s, 1, k + 1)
             x == s[k + 1]
             y == f[x]
             g == Mapped(f, p)
             h == Kept(p, A)
  <2>1. k + 1 \in 1..n
    BY <1>1
  <2>2. p \in Seq(T) /\ x \in T /\ q = Append(p, x)
    BY <1>1, <2>1
  <2>3. Kept(g, B) = Mapped(f, h)
    BY <1>3
  <2> HIDE DEF p, q, x, Good
  <2>4. g \in Seq(U) /\ y \in U /\ Mapped(f, Append(p, x)) = Append(g, y)
    <3>1. y \in U
      BY <2>2 DEF Mapping
    <3>2. g \in Seq(U)
      BY <2>2, MappedType
    <3>3. \A e \in T : Mapped(f, Append(p, e)) = Append(Mapped(f, p), f[e])
      BY <2>2, MappedType
    <3> QED BY <2>2, <3>1, <3>2, <3>3
  <2>5. h \in Seq(T)
    <3>1. h \in Seq(T \cap A)
      BY <2>2, KeptType
    <3> DEFINE V == T \cap A
    <3>2. V \subseteq T /\ h \in Seq(V)
      BY <3>1
    <3> HIDE DEF V, h
    <3> QED BY <3>2
  <2>6. Kept(Append(p, x), A) = IF x \in A THEN Append(h, x) ELSE h
    BY <2>2, KeptAppend
  <2>9. x \in A <=> y \in B
    BY <2>2
  <2> HIDE DEF g, h, y
  <2>7. Kept(Append(g, y), B) = IF y \in B THEN Append(Kept(g, B), y) ELSE Kept(g, B)
    BY <2>4, KeptAppend
  <2>8. Mapped(f, Append(h, x)) = Append(Mapped(f, h), f[x])
    <3>1. \A e \in T : Mapped(f, Append(h, e)) = Append(Mapped(f, h), f[e])
      BY <2>5, MappedType
    <3> QED BY <2>2, <3>1
  <2>10. Kept(Mapped(f, q), B) = Mapped(f, Kept(q, A))
    BY <2>2, <2>3, <2>4, <2>6, <2>7, <2>8, <2>9 DEF y
  <2> QED BY <2>10 DEF Good, q
<1>4. 0..n \subseteq Same
  <2>1. 0 \in Same /\ \A k \in 0..(n - 1) : k \in Same => k + 1 \in Same
    <3> HIDE DEF Good
    <3>1. 0 \in 0..n /\ \A k \in 0..(n - 1) : k \in 0..n /\ k + 1 \in 0..n
      BY <1>1
    <3> QED BY <1>2, <1>3, <3>1
  <2> HIDE DEF Same, Good
  <2> QED BY <1>1, <2>1, UpToInduction
<1>5. Good(n)
  BY <1>1, <1>4
<1>6. SubSeq(s, 1, n) = s
  OBVIOUS
<1> QED BY <1>5, <1>6

\* The places of an array that are kept are those of S, in their order; places
\* behind the last one of S make no difference.
LEMMA PositionsMore ==
    ASSUME NEW n \in Nat
    PROVE  /\ Positions(n) \in Seq(1..n) /\ Len(Positions(n)) = n
           /\ Positions(n) \in Seq(Nat)
           /\ Positions(n + 1) = Append(Positions(n), n + 1)
<1>1. ASSUME NEW m \in Nat
      PROVE  /\ Positions(m) \in Seq(1..m) /\ Len(Positions(m)) = m
             /\ Positions(m) \in Seq(Nat)
  <2>1. Positions(m) \in [1..m -> 1..m] /\ Positions(m) \in [1..m -> Nat]
    BY DEF Positions
  <2> QED BY <2>1, SequenceOf
<1>2. Positions(n + 1) = Append(Positions(n), n + 1)
  <2> DEFINE p == Positions(n)
             q == Append(p, n + 1)
  <2>1. p \in Seq(Nat) /\ Len(p) = n
    BY <1>1
  <2>2. \A k \in 1..n : p[k] = k
    BY DEF Positions
  <2> HIDE DEF p
  <2>3. q = [k \in 1..(n + 1) |-> q[k]]
    BY <2>1
  <2>4. \A k \in 1..(n + 1) : q[k] = k
    BY <2>1, <2>2
  <2> HIDE DEF q
  <2>5. q = [k \in 1..(n + 1) |-> k]
    BY <2>3, <2>4
  <2> QED BY <2>5 DEF Positions, q, p
<1> QED BY <1>1, <1>2

Rising(p) == \A j, m \in 1..Len(p) : j < m => p[j] < p[m]

LEMMA PlacesKept ==
    ASSUME NEW n \in Nat, NEW S
    PROVE  /\ Kept(Positions(n), S) \in Seq((1..n) \cap S)
           /\ Rising(Kept(Positions(n), S))
<1> DEFINE Good(k) == Rising(Kept(Positions(k), S))
           T == {k \in 0..n : Good(k)}
<1>1. ASSUME NEW k \in Nat PROVE Kept(Positions(k), S) \in Seq((1..k) \cap S)
  BY PositionsMore, KeptType
<1>2. Good(0)
  <2>1. Kept(Positions(0), S) \in Seq({})
    BY <1>1
  <2>2. Len(Kept(Positions(0), S)) = 0
    BY <2>1
  <2> QED BY <2>2 DEF Rising
<1>3. ASSUME NEW k \in 0..(n - 1), Good(k) PROVE Good(k + 1)
  <2> DEFINE p == Kept(Positions(k), S)
             V == (1..k) \cap S
  <2>1. p \in Seq(V) /\ Rising(p)
    BY <1>1, <1>3
  <2>2. Kept(Append(Positions(k), k + 1), S) = IF k + 1 \in S THEN Append(p, k + 1) ELSE p
    <3>1. k + 1 \in Nat /\ Positions(k) \in Seq(Nat)
      BY PositionsMore
    <3> QED BY <3>1, KeptAppend
  <2>3. Positions(k + 1) = Append(Positions(k), k + 1)
    <3>1. k \in Nat
      OBVIOUS
    <3> QED BY <3>1, PositionsMore
  <2>4. V \subseteq 1..k
    OBVIOUS
  <2> HIDE DEF p, V, Good
  <2>5. Rising(Append(p, k + 1))
    <3>1. Len(p) \in Nat /\ \A j \in 1..Len(p) : p[j] \in 1..k
      <4>1. Len(p) \in Nat /\ \A j \in 1..Len(p) : p[j] \in V
        BY <2>1
      <4> QED BY <2>4, <4>1
    <3>2. /\ Len(Append(p, k + 1)) = Len(p) + 1
          /\ Append(p, k + 1)[Len(p) + 1] = k + 1
          /\ \A j \in 1..Len(p) : Append(p, k + 1)[j] = p[j]
      BY <2>1
    <3> DEFINE q == Append(p, k + 1)
    <3> HIDE DEF q
    <3>3. ASSUME NEW j \in 1..Len(q), NEW m \in 1..Len(q), j < m PROVE q[j] < q[m]
      <4>1. j \in 1..Len(p) /\ (m \in 1..Len(p) \/ m = Len(p) + 1)
        BY <3>1, <3>2, <3>3 DEF q
      <4> QED BY <2>1, <3>1, <3>2, <3>3, <4>1 DEF q, Rising
    <3> QED BY <3>3 DEF q, Rising
  <2>6. Rising(Kept(Positions(k + 1), S))
    BY <2>1, <2>2, <2>3, <2>5
  <2> QED BY <2>6 DEF Good
<1>4. 0..n \subseteq T
  <2>1. 0 \in T /\ \A k \in 0..(n - 1) : k \in T => k + 1 \in T
    <3> HIDE DEF Good
    <3>1. 0 \in 0..n /\ \A k \in 0..(n - 1) : k \in 0..n /\ k + 1 \in 0..n
      OBVIOUS
    <3> QED BY <1>2, <1>3, <3>1
  <2> HIDE DEF T, Good
  <2> QED BY <2>1, UpToInduction
<1>5. Good(n)
  BY <1>4
<1> QED BY <1>1, <1>5

\* Of n places, those of S are the same as of m if no others are in S.
LEMMA PlacesWithin ==
    ASSUME NEW m \in Nat, NEW n \in Nat, m <= n, NEW S,
           \A k \in (m + 1)..n : k \notin S
    PROVE  Kept(Positions(n), S) = Kept(Positions(m), S)
<1> DEFINE Good(k) == Kept(Positions(m + k), S) = Kept(Positions(m), S)
           d == n - m
           T == {k \in 0..d : Good(k)}
<1>1. d \in Nat /\ m + d = n
  OBVIOUS
<1>2. Good(0)
  OBVIOUS
<1>3. ASSUME NEW k \in 0..(d - 1), Good(k) PROVE Good(k + 1)
  <2>1. m + k \in Nat /\ m + (k + 1) = (m + k) + 1 /\ m + (k + 1) \in (m + 1)..n
    BY <1>1
  <2> DEFINE b == m + k
  <2>2. b \in Nat /\ b + 1 \notin S
    BY <2>1
  <2> HIDE DEF b
  <2>3. Positions(b + 1) = Append(Positions(b), b + 1) /\ Positions(b) \in Seq(Nat)
    BY <2>2, PositionsMore
  <2>4. Kept(Append(Positions(b), b + 1), S) = Kept(Positions(b), S)
    BY <2>2, <2>3, KeptAppend
  <2>5. Kept(Positions(b + 1), S) = Kept(Positions(b), S)
    BY <2>3, <2>4
  <2> QED BY <1>3, <2>1, <2>5 DEF b
<1>4. 0..d \subseteq T
  <2>1. 0 \in T /\ \A k \in 0..(d - 1) : k \in T => k + 1 \in T
    <3> HIDE DEF Good, d
    <3>1. 0 \in 0..d /\ \A k \in 0..(d - 1) : k \in 0..d /\ k + 1 \in 0..d
      BY <1>1
    <3> QED BY <1>2, <1>3, <3>1
  <2> HIDE DEF T, Good, d
  <2> QED BY <1>1, <2>1, UpToInduction
<1>5. Good(d)
  <2> HIDE DEF Good, d
  <2> QED BY <1>1, <1>4
<1> QED BY <1>1, <1>5

\* The elements of an array that are in B stand at the places of S.
ArrayOf(s, n, T) == s \in [1..n -> T]
Marks(S, s, n, B) == \A k \in 1..n : k \in S <=> s[k] \in B

LEMMA PlacesOf ==
    ASSUME NEW T, NEW n \in Nat, NEW s, ArrayOf(s, n, T), NEW B, NEW S,
           Marks(S, s, n, B)
    PROVE  /\ Len(Kept(s, B)) = Len(Kept(Positions(n), S))
           /\ \A k \in 1..Len(Kept(Positions(n), S)) :
                 Kept(s, B)[k] = s[Kept(Positions(n), S)[k]]
<1> DEFINE q == Positions(n)
           p == Kept(q, S)
<1>1. q \in Seq(1..n) /\ p \in Seq((1..n) \cap S) /\ Mapping(s, 1..n, T)
  BY PositionsMore, PlacesKept DEF ArrayOf, Mapping
<1>2. Mapped(s, q) = s
  BY DEF Mapped, ArrayOf, Positions
<1> HIDE DEF q
<1>3. Kept(Mapped(s, q), B) = Mapped(s, p)
  <2>1. \A k \in 1..n : k \in S <=> s[k] \in B
    BY DEF Marks
  <2> QED BY <1>1, <2>1, KeptMapped
<1>4. p \in Seq(1..n)
  <2> DEFINE U == 1..n
             V == U \cap S
  <2>1. V \subseteq U /\ p \in Seq(V)
    BY <1>1
  <2> HIDE DEF U, V, p
  <2>2. p \in Seq(U)
    BY <2>1
  <2> QED BY <2>2 DEF U
<1>5. Len(Mapped(s, p)) = Len(p) /\ \A k \in 1..Len(p) : Mapped(s, p)[k] = s[p[k]]
  <2> HIDE DEF p
  <2> QED BY <1>1, <1>4, MappedType
<1> QED BY <1>1, <1>2, <1>3, <1>5 DEF q
=============================================================================
