--------------------------- MODULE CommandLineProof ---------------------------
(***************************************************************************)
(* What the command line means: the numbers of parse_int, the options of   *)
(* parse_argv and the attributes of the counters, for every argument       *)
(* vector.  The theorems about main's whole behaviour are in SessionProof; *)
(* here are the invariant of the parser and the steps that keep it.        *)
(***************************************************************************)
EXTENDS Setup, FoldLemmas

(* Numbers *)

\* A value a long long can hold is not changed, and any other becomes one.
LEMMA LongFits ==
    ASSUME NEW v \in (-(LongMax + 1))..LongMax
    PROVE  Long(v) = v
  BY WidthAssumption DEF Long

LEMMA LongType ==
    ASSUME NEW v \in Int
    PROVE  Long(v) \in (-(LongMax + 1))..LongMax
  BY WidthAssumption DEF Long

LEMMA LongWraps == Long(LongMax + 1) = -(LongMax + 1)
<1>1. ((LongMax + 1) + LongMax + 1) % (2 * LongMax + 2) = 0
  <2>1. (LongMax + 1) + LongMax + 1 = 2 * LongMax + 2
    BY WidthAssumption
  <2>2. ASSUME NEW x \in Nat, x > 0 PROVE x % x = 0
    BY <2>2
  <2> QED BY <2>1, <2>2, WidthAssumption
<1> QED BY <1>1, WidthAssumption DEF Long

LEMMA U32Type ==
    ASSUME NEW v \in Int
    PROVE  U32(v) \in 0..IntMax /\ (v \in 0..IntMax => U32(v) = v)
  BY WidthAssumption DEF U32

LEMMA DigitsType ==
    ASSUME NEW w \in Words
    PROVE  Digits[w] \in Seq(0..9) /\ Sign[w] \in {-1, 1}
  BY WordsAssumption

\* The loop of parse_int, digit by digit.
LEMMA ParseIntLoop ==
    ASSUME NEW w \in Words
    PROVE  \E t \in [0..Len(Digits[w]) -> Int] :
               /\ t[0] = 0
               /\ ParseInt(w) = Long(Sign[w] * t[Len(Digits[w])])
               /\ \A k \in 1..Len(Digits[w]) :
                     t[k] = Long(10 * t[k - 1] + Digits[w][k])
<1> DEFINE s == Digits[w]
           n == Len(s)
           step == [k \in 1..n |-> [v \in Int |-> Long(10 * v + s[k])]]
           P(f) == f = [S \in SUBSET DOMAIN s |->
                          IF S = {} THEN 0
                          ELSE Long(10 * f[S \ {Max(S)}] + s[Max(S)])]
           iter == CHOOSE f : P(f)
<1>1. s \in Seq(0..9) /\ DOMAIN s = 1..n /\ n \in Nat
  BY DigitsType
<1>2. ASSUME NEW k \in 1..n, NEW v \in Int PROVE Long(10 * v + s[k]) \in Int
  <2>1. 10 * v + s[k] \in Int
    BY <1>1
  <2> HIDE DEF s
  <2> QED BY <2>1, LongType, WidthAssumption
<1>3. Recursion(n, Int, 0, step)
  BY <1>1, <1>2 DEF Recursion
<1>4. ParseInt(w) = Long(Sign[w] * iter[1..n])
  BY <1>1 DEF ParseInt, FoldLeft, MapThenFoldSet
<1>5. ASSUME NEW k \in 1..n, NEW v \in Int PROVE step[k][v] = Long(10 * v + s[k])
  OBVIOUS
<1> HIDE DEF step
<1>6. P(iter)
  <2>1. PICK f \in [SUBSET (1..n) -> Int] : FollowsOnSets(f, n, 0, step)
    BY <1>3, FoldExists
  <2>2. ASSUME NEW S \in SUBSET (1..n), S # {}
        PROVE  f[S] = Long(10 * f[S \ {Max(S)}] + s[Max(S)])
    <3>1. Max(S) \in 1..n
      BY <1>1, <2>2, MaxInside
    <3>2. f[S \ {Max(S)}] \in Int
      OBVIOUS
    <3> QED BY <2>1, <2>2, <3>1, <3>2, <1>5 DEF FollowsOnSets
  <2>3. f[{}] = 0
    BY <2>1 DEF FollowsOnSets
  <2>4. P(f)
    BY <1>1, <2>2, <2>3
  <2> HIDE DEF P
  <2> QED BY <2>4
<1>7. iter[{}] = 0
  BY <1>1, <1>6
<1>8. ASSUME NEW S \in SUBSET (1..n), S # {}, iter[S \ {Max(S)}] \in Int
      PROVE  iter[S] = step[Max(S)][iter[S \ {Max(S)}]]
  <2>1. iter[S] = Long(10 * iter[S \ {Max(S)}] + s[Max(S)])
    BY <1>1, <1>6, <1>8
  <2>2. Max(S) \in 1..n
    BY <1>1, <1>8, MaxInside
  <2> QED BY <1>8, <2>1, <2>2, <1>5
<1> HIDE DEF iter
<1>9. FollowsWithin(iter, n, Int, 0, step)
  BY <1>7, <1>8 DEF FollowsWithin
<1>10. PICK t \in [0..n -> Int] : Follows(t, n, 0, step) /\ t[n] = iter[1..n]
  BY <1>3, <1>9, FoldPrefixes
<1>11. ASSUME NEW k \in 1..n PROVE t[k] = Long(10 * t[k - 1] + s[k])
  <2>1. k - 1 \in 0..n
    BY <1>1
  <2> QED BY <1>10, <1>5, <2>1 DEF Follows
<1> QED BY <1>4, <1>10, <1>11 DEF Follows

\* The same without the wrap-around.
LEMMA StatedLoop ==
    ASSUME NEW w \in Words
    PROVE  \E t \in [0..Len(Digits[w]) -> Int] :
               /\ t[0] = 0
               /\ Stated(w) = Sign[w] * t[Len(Digits[w])]
               /\ \A k \in 1..Len(Digits[w]) :
                     t[k] = 10 * t[k - 1] + Digits[w][k]
<1> DEFINE s == Digits[w]
           n == Len(s)
           step == [k \in 1..n |-> [v \in Int |-> 10 * v + s[k]]]
           P(f) == f = [S \in SUBSET DOMAIN s |->
                          IF S = {} THEN 0
                          ELSE 10 * f[S \ {Max(S)}] + s[Max(S)]]
           iter == CHOOSE f : P(f)
<1>1. s \in Seq(0..9) /\ DOMAIN s = 1..n /\ n \in Nat
  BY DigitsType
<1>2. ASSUME NEW k \in 1..n, NEW v \in Int PROVE 10 * v + s[k] \in Int
  BY <1>1
<1>3. Recursion(n, Int, 0, step)
  BY <1>1, <1>2 DEF Recursion
<1>4. Stated(w) = Sign[w] * iter[1..n]
  BY <1>1 DEF Stated, FoldLeft, MapThenFoldSet
<1>5. ASSUME NEW k \in 1..n, NEW v \in Int PROVE step[k][v] = 10 * v + s[k]
  OBVIOUS
<1> HIDE DEF step
<1>6. P(iter)
  <2>1. PICK f \in [SUBSET (1..n) -> Int] : FollowsOnSets(f, n, 0, step)
    BY <1>3, FoldExists
  <2>2. ASSUME NEW S \in SUBSET (1..n), S # {}
        PROVE  f[S] = 10 * f[S \ {Max(S)}] + s[Max(S)]
    <3>1. Max(S) \in 1..n
      BY <1>1, <2>2, MaxInside
    <3>2. f[S \ {Max(S)}] \in Int
      OBVIOUS
    <3> QED BY <2>1, <2>2, <3>1, <3>2, <1>5 DEF FollowsOnSets
  <2>3. f[{}] = 0
    BY <2>1 DEF FollowsOnSets
  <2>4. P(f)
    BY <1>1, <2>2, <2>3
  <2> HIDE DEF P
  <2> QED BY <2>4
<1>7. iter[{}] = 0
  BY <1>1, <1>6
<1>8. ASSUME NEW S \in SUBSET (1..n), S # {}, iter[S \ {Max(S)}] \in Int
      PROVE  iter[S] = step[Max(S)][iter[S \ {Max(S)}]]
  <2>1. iter[S] = 10 * iter[S \ {Max(S)}] + s[Max(S)]
    BY <1>1, <1>6, <1>8
  <2>2. Max(S) \in 1..n
    BY <1>1, <1>8, MaxInside
  <2> QED BY <1>8, <2>1, <2>2, <1>5
<1> HIDE DEF iter
<1>9. FollowsWithin(iter, n, Int, 0, step)
  BY <1>7, <1>8 DEF FollowsWithin
<1>10. PICK t \in [0..n -> Int] : Follows(t, n, 0, step) /\ t[n] = iter[1..n]
  BY <1>3, <1>9, FoldPrefixes
<1>11. ASSUME NEW k \in 1..n PROVE t[k] = 10 * t[k - 1] + s[k]
  <2>1. k - 1 \in 0..n
    BY <1>1
  <2> QED BY <1>10, <1>5, <2>1 DEF Follows
<1> QED BY <1>4, <1>10, <1>11 DEF Follows

\* parse_int yields the number the word states whenever a long long can hold
\* it; the most negative one is reached through a wrap-around.
LEMMA ParsesWhatIsStated ==
    ASSUME NEW w \in Words
    PROVE  /\ ParseInt(w) \in (-(LongMax + 1))..LongMax /\ Stated(w) \in Int
           /\ Stated(w) \in (-(LongMax + 1))..LongMax => ParseInt(w) = Stated(w)
<1> DEFINE s == Digits[w]
           n == Len(s)
<1>1. s \in Seq(0..9) /\ n \in Nat /\ Sign[w] \in {-1, 1}
  BY DigitsType
<1>2. PICK t \in [0..n -> Int] :
          /\ t[0] = 0 /\ ParseInt(w) = Long(Sign[w] * t[n])
          /\ \A k \in 1..n : t[k] = Long(10 * t[k - 1] + s[k])
  BY ParseIntLoop
<1>3. PICK u \in [0..n -> Int] :
          /\ u[0] = 0 /\ Stated(w) = Sign[w] * u[n]
          /\ \A k \in 1..n : u[k] = 10 * u[k - 1] + s[k]
  BY StatedLoop
<1>4. \A k \in 1..n : s[k] \in 0..9
  BY <1>1
<1> HIDE DEF s, n
<1>5. t[n] \in Int /\ u[n] \in Int
  BY <1>1
<1>6. ParseInt(w) \in (-(LongMax + 1))..LongMax /\ Stated(w) \in Int
  <2>1. Sign[w] * t[n] \in Int /\ Sign[w] * u[n] \in Int
    BY <1>1, <1>5
  <2>2. Long(Sign[w] * t[n]) \in (-(LongMax + 1))..LongMax
    BY <2>1, LongType
  <2> QED BY <1>2, <1>3, <2>1, <2>2
<1>7. \A k \in 0..n : u[k] >= 0
  <2> DEFINE T == {k \in 0..n : u[k] >= 0}
  <2>1. 0 \in T
    BY <1>1, <1>3
  <2>2. ASSUME NEW k \in 0..(n - 1), k \in T PROVE k + 1 \in T
    <3>1. k + 1 \in 1..n /\ (k + 1) - 1 = k /\ k + 1 \in 0..n
      BY <1>1
    <3>2. u[k + 1] = 10 * u[k] + s[k + 1]
      BY <3>1, <1>3
    <3>3. u[k] \in Int /\ u[k] >= 0 /\ s[k + 1] \in 0..9
      BY <2>2, <3>1, <1>4
    <3> QED BY <3>1, <3>2, <3>3
  <2>3. \A k \in 0..(n - 1) : k \in T => k + 1 \in T
    BY <2>2
  <2>4. 0..n \subseteq T
    <3> HIDE DEF T
    <3> QED BY <2>1, <2>3, <1>1, UpToInduction
  <2> QED BY <2>4
<1>8. \A k \in 1..n : /\ u[k - 1] \in Nat /\ u[k] \in Nat
                      /\ u[k] >= 10 * u[k - 1]
  <2>1. ASSUME NEW k \in 1..n
        PROVE  u[k - 1] \in Nat /\ u[k] \in Nat /\ u[k] >= 10 * u[k - 1]
    <3>1. k - 1 \in 0..n /\ k \in 0..n
      BY <1>1
    <3>2. u[k] = 10 * u[k - 1] + s[k]
      BY <1>3
    <3>3. u[k - 1] \in Nat /\ u[k] \in Nat
      BY <3>1, <1>7
    <3>4. s[k] \in Nat
      BY <1>4
    <3> HIDE DEF s
    <3> QED BY <3>2, <3>3, <3>4
  <2> QED BY <2>1
<1>9. \A k \in 0..n : t[k] = u[k] \/ u[k] > LongMax
  <2> DEFINE T == {k \in 0..n : t[k] = u[k] \/ u[k] > LongMax}
  <2>1. 0 \in T
    BY <1>1, <1>2, <1>3
  <2>2. ASSUME NEW k \in 0..(n - 1), k \in T PROVE k + 1 \in T
    <3>1. k + 1 \in 1..n /\ (k + 1) - 1 = k /\ k + 1 \in 0..n
      BY <1>1
    <3>2. t[k + 1] = Long(10 * t[k] + s[k + 1]) /\ u[k + 1] = 10 * u[k] + s[k + 1]
      BY <3>1, <1>2, <1>3
    <3>3. u[k] \in Nat /\ u[k + 1] \in Nat /\ u[k + 1] >= 10 * u[k]
      BY <3>1, <1>8
    <3>4. CASE u[k] > LongMax
      <4>1. u[k + 1] > LongMax
        BY <3>3, <3>4, WidthAssumption
      <4> QED BY <3>1, <4>1
    <3>5. CASE t[k] = u[k] /\ u[k + 1] <= LongMax
      <4>1. u[k + 1] \in (-(LongMax + 1))..LongMax
        BY <3>3, <3>5, WidthAssumption
      <4>2. Long(u[k + 1]) = u[k + 1]
        BY <4>1, LongFits
      <4>3. t[k + 1] = u[k + 1]
        BY <3>2, <3>5, <4>2
      <4> QED BY <3>1, <4>3
    <3>6. CASE u[k + 1] > LongMax
      BY <3>1, <3>6
    <3> QED BY <2>2, <3>3, <3>4, <3>5, <3>6, WidthAssumption
  <2>3. \A k \in 0..(n - 1) : k \in T => k + 1 \in T
    BY <2>2
  <2>4. 0..n \subseteq T
    <3> HIDE DEF T
    <3> QED BY <2>1, <2>3, <1>1, UpToInduction
  <2> QED BY <2>4
<1>10. u[n] \in Nat
  BY <1>1, <1>5, <1>7
<1>11. CASE u[n] <= LongMax
  <2>1. t[n] = u[n]
    BY <1>1, <1>9, <1>10, <1>11, WidthAssumption
  <2>2. Sign[w] * u[n] \in (-(LongMax + 1))..LongMax
    BY <1>1, <1>10, <1>11, WidthAssumption
  <2>3. Long(Sign[w] * u[n]) = Sign[w] * u[n]
    BY <2>2, LongFits
  <2> QED BY <1>2, <1>3, <1>6, <2>1, <2>3
<1>12. CASE u[n] = LongMax + 1 /\ Sign[w] = -1
  <2>1. n \in 1..n /\ n - 1 \in 0..n
    BY <1>1, <1>3, <1>12, WidthAssumption
  <2>2. u[n - 1] \in Nat /\ u[n] >= 10 * u[n - 1]
    BY <2>1, <1>8
  <2>3. u[n - 1] <= LongMax
    BY <2>2, <1>12, WidthAssumption
  <2>4. t[n - 1] = u[n - 1]
    BY <2>1, <2>2, <2>3, <1>9, WidthAssumption
  <2>5. t[n] = Long(LongMax + 1)
    BY <2>1, <2>4, <1>2, <1>3, <1>12
  <2>6. t[n] = -(LongMax + 1) /\ Sign[w] * t[n] = LongMax + 1
        /\ Sign[w] * u[n] = -(LongMax + 1)
    BY <2>5, <1>12, LongWraps, WidthAssumption
  <2>7. ParseInt(w) = Long(LongMax + 1) /\ Stated(w) = -(LongMax + 1)
    BY <2>6, <1>2, <1>3
  <2> QED BY <2>7, LongWraps, <1>6
<1>13. CASE ~(u[n] <= LongMax) /\ ~(u[n] = LongMax + 1 /\ Sign[w] = -1)
  <2>1. ~(Sign[w] * u[n] \in (-(LongMax + 1))..LongMax)
    <3>1. CASE Sign[w] = 1
      <4>1. Sign[w] * u[n] = u[n] /\ u[n] > LongMax
        BY <3>1, <1>10, <1>13, WidthAssumption
      <4> QED BY <4>1, <1>10, WidthAssumption
    <3>2. CASE Sign[w] = -1
      <4>1. Sign[w] * u[n] = -u[n] /\ u[n] > LongMax + 1
        BY <3>2, <1>10, <1>13, WidthAssumption
      <4> QED BY <4>1, <1>10, WidthAssumption
    <3> QED BY <3>1, <3>2, <1>1
  <2> QED BY <2>1, <1>3, <1>6
<1> QED BY <1>11, <1>12, <1>13

-----------------------------------------------------------------------------
(* Roles and places *)

Roles == {"flag", "value", "path"}
Valued == NumberFlags \cup WordFlags

\* The role of an argument follows from the one before it.
LEMMA RoleMeans ==
    ASSUME argv \in Seq(Words)
    PROVE  /\ Role \in [1..Len(argv) -> Roles]
           /\ \A k \in 1..Len(argv) :
                 Role[k] = IF k > 1 /\ Role[k - 1] = "flag" /\ argv[k - 1] \in Valued
                           THEN "value"
                           ELSE IF argv[k] \in Dashed THEN "flag" ELSE "path"
<1> DEFINE n == Len(argv)
           Next(k, before) ==
               IF k > 1 /\ before = "flag" /\ argv[k - 1] \in Valued
               THEN "value"
               ELSE IF argv[k] \in Dashed THEN "flag" ELSE "path"
           step == [k \in 1..n |-> [v \in Roles |-> Next(k, v)]]
           P(f) == f = [k \in 1..n |->
                          IF /\ k > 1 /\ f[k - 1] = "flag"
                             /\ argv[k - 1] \in NumberFlags \cup WordFlags
                          THEN "value"
                          ELSE IF argv[k] \in Dashed THEN "flag" ELSE "path"]
<1>1. Role = CHOOSE f : P(f)
  BY DEF Role
<1>2. Recursion(n, Roles, "path", step)
  BY DEF Recursion, Roles
<1>3. ASSUME NEW k \in 1..n, NEW v \in Roles PROVE step[k][v] = Next(k, v)
  OBVIOUS
<1>4. \E f : P(f)
  <2> HIDE DEF step
  <2>1. PICK f \in [0..n -> Roles] : Follows(f, n, "path", step)
    BY <1>2, RecursionExists
  <2> DEFINE g == [k \in 1..n |-> f[k]]
  <2>2. ASSUME NEW k \in 1..n PROVE g[k] = Next(k, g[k - 1])
    <3>1. f[k - 1] \in Roles /\ f[k] = step[k][f[k - 1]]
      <4>1. k - 1 \in 0..n
        OBVIOUS
      <4> QED BY <2>1, <4>1 DEF Follows
    <3>2. f[k] = Next(k, f[k - 1])
      BY <3>1, <1>3
    <3>3. k > 1 => g[k - 1] = f[k - 1]
      OBVIOUS
    <3>4. k \in Nat /\ g[k] = f[k]
      OBVIOUS
    <3> HIDE DEF g
    <3> QED BY <3>2, <3>3, <3>4
  <2>3. P(g)
    <3>1. g = [k \in 1..n |-> g[k]]
      OBVIOUS
    <3> HIDE DEF g
    <3> QED BY <2>2, <3>1 DEF Valued
  <2> QED BY <2>3
<1>5. P(Role)
  <2> HIDE DEF P
  <2> QED BY <1>1, <1>4
<1> QED BY <1>5 DEF Roles, Valued

\* The places of flags among the first m arguments, and the last of them.
Placed(flags, m) == {k \in 1..m : Role[k] = "flag" /\ argv[k] \in flags}
LastOf(S) == CHOOSE k \in S : \A j \in S : j <= k
LastAmong(flags, m) == argv[LastOf(Placed(flags, m))]
WordAmong(flags, m) ==
    IF Placed(flags, m) = {} THEN NoWord ELSE argv[LastOf(Placed(flags, m)) + 1]

LEMMA PlacesArePlaced ==
    ASSUME argv \in Seq(Words), NEW flags
    PROVE  /\ Places(flags) = Placed(flags, Len(argv))
           /\ LastPlace(flags) = LastOf(Placed(flags, Len(argv)))
           /\ LastWord(flags) = WordAmong(flags, Len(argv))
  BY DEF Places, LastPlace, LastWord, Placed, LastOf, WordAmong

LEMMA LastOfNew ==
    ASSUME NEW k \in Nat, NEW S \in SUBSET (1..k), k \in S
    PROVE  LastOf(S) = k
<1>1. k \in S /\ \A j \in S : j <= k
  OBVIOUS
<1> DEFINE m == LastOf(S)
<1>2. m \in S /\ \A j \in S : j <= m
  BY <1>1 DEF LastOf
<1> HIDE DEF m
<1>3. m \in Int /\ m >= k /\ k >= m
  BY <1>1, <1>2
<1> QED BY <1>3 DEF m

\* A nonempty set of places has a last one.
LEMMA LastOfInside ==
    ASSUME NEW n \in Nat, NEW S \in SUBSET (1..n), S # {}
    PROVE  LastOf(S) \in S
<1>1. \E k \in S : \A j \in S : k >= j
  BY MaxInside
<1>2. \E k \in S : \A j \in S : j <= k
  <2>1. S \subseteq Int
    OBVIOUS
  <2> QED BY <1>1, <2>1
<1> QED BY <1>2 DEF LastOf

\* The argument the parser looks at, at the start of its loop, is no value.
AtBoundary == i \in 1..(Len(argv) + 1) /\ (HasArgument => Role[i] # "value")

\* A flag without value adds its place.
LEMMA SwitchPlaced ==
    ASSUME argv \in Seq(Words), AtBoundary, HasArgument,
           argv[i] \in Dashed, NEW flags
    PROVE  /\ Role[i] = "flag"
           /\ argv[i] \in flags =>
                 /\ Placed(flags, i) # {} /\ LastOf(Placed(flags, i)) = i
           /\ argv[i] \notin flags => Placed(flags, i) = Placed(flags, i - 1)
<1>1. i \in 1..Len(argv) /\ Len(argv) \in Nat
  BY DEF AtBoundary, HasArgument
<1>2. Role[i] = "flag"
  BY <1>1, RoleMeans DEF AtBoundary
<1>3. CASE argv[i] \in flags
  <2>1. i \in Placed(flags, i) /\ Placed(flags, i) \in SUBSET (1..i)
    BY <1>1, <1>2, <1>3 DEF Placed
  <2>2. LastOf(Placed(flags, i)) = i
    BY <1>1, <2>1, LastOfNew
  <2> QED BY <1>2, <1>3, <2>1, <2>2
<1>4. CASE argv[i] \notin flags
  <2>1. Placed(flags, i) = Placed(flags, i - 1)
    BY <1>1, <1>4 DEF Placed
  <2> QED BY <1>2, <1>4, <2>1
<1> QED BY <1>3, <1>4

\* A flag with its value adds the place of the flag, and nothing else.
LEMMA ValuePlaced ==
    ASSUME argv \in Seq(Words), AtBoundary, HasArgument, HasValue,
           argv[i] \in Dashed, argv[i] \in Valued, NEW flags
    PROVE  /\ Role[i] = "flag" /\ Role[i + 1] = "value"
           /\ argv[i] \in flags =>
                 /\ Placed(flags, i + 1) # {} /\ LastOf(Placed(flags, i + 1)) = i
           /\ argv[i] \notin flags => Placed(flags, i + 1) = Placed(flags, i - 1)
<1>1. i \in 1..Len(argv) /\ Len(argv) \in Nat /\ i + 1 \in 1..Len(argv)
      /\ (i + 1) - 1 = i
  BY DEF AtBoundary, HasArgument, HasValue
<1>2. Role[i] = "flag" /\ Role[i + 1] = "value"
  BY <1>1, RoleMeans DEF AtBoundary
<1>3. Placed(flags, i + 1) = Placed(flags, i)
  BY <1>1, <1>2 DEF Placed
<1> QED BY <1>2, <1>3, SwitchPlaced

\* A path adds no place.
LEMMA PathPlaced ==
    ASSUME argv \in Seq(Words), AtBoundary, HasArgument,
           argv[i] \notin Dashed, NEW flags
    PROVE  Role[i] = "path" /\ Placed(flags, i) = Placed(flags, i - 1)
<1>1. i \in 1..Len(argv) /\ Len(argv) \in Nat
  BY DEF AtBoundary, HasArgument
<1>2. Role[i] = "path"
  BY <1>1, RoleMeans DEF AtBoundary
<1> QED BY <1>1, <1>2 DEF Placed

-----------------------------------------------------------------------------
(* The meaning of the options after the first m arguments *)

MeantFlags(m) ==
    \A k \in 1..m :
        Role[k] = "flag" => /\ argv[k] \in Flags \ HelpFlags
                            /\ argv[k] \in Switches \/ k < Len(argv)

MeantWords(o, m) ==
    /\ o.csv = WordAmong({"-e"}, m)
    /\ o.pre = WordAmong({"--pre"}, m) /\ o.post = WordAmong({"--post"}, m)
    /\ o.file = WordAmong({"-o"}, m) /\ o.metrics = WordAmong({"-M"}, m)
    /\ o.sep = IF Placed({"-x"}, m) = {} THEN NoWord
               ELSE IF WordAmong({"-x"}, m) = "" THEN ","
               ELSE First[WordAmong({"-x"}, m)]

ByKernel(m) == Placed(Rings, m) # {} /\ LastAmong(Rings, m) = "--all-kernel"

MeantSwitches(o, m) ==
    /\ o.detail = IF Placed({"-d", "-dd", "-ddd"}, m) = {} THEN 1
                  ELSE CASE LastAmong({"-d", "-dd", "-ddd"}, m) = "-d"   -> 1
                         [] LastAmong({"-d", "-dd", "-ddd"}, m) = "-dd"  -> 2
                         [] LastAmong({"-d", "-dd", "-ddd"}, m) = "-ddd" -> 3
    /\ o.table = (Placed({"--table"}, m) # {})
    /\ o.verbose = (Placed({"-v", "--verbose"}, m) # {})
    /\ o.topdown = (Placed({"--topdown"}, m) # {})
    /\ o.inherit = (Placed({"--no-inherit"}, m) = {})
    /\ o.pinned = (Placed({"--pinned"}, m) # {})
    /\ o.exclKernel = ~ByKernel(m) /\ o.exclUser = ByKernel(m)

\* A number given by the flags is v, which is not below the least accepted.
Given(flags, m, least, v) ==
    v = ParseInt(WordAmong(flags, m)) /\ v >= least

MeantNumbers(o, m) ==
    /\ IF Placed({"-n", "-r"}, m) = {} THEN o.n = 1
       ELSE Given({"-n", "-r"}, m, 1, o.n)
    /\ IF Placed({"-D"}, m) = {} THEN o.delay = 0
       ELSE \E v \in Int : Given({"-D"}, m, 0, v) /\ o.delay = U32(v)
    /\ IF Placed({"--timeout"}, m) = {} THEN o.timeout = 0
       ELSE \E v \in Int : Given({"--timeout"}, m, 0, v) /\ o.timeout = U32(v)

\* places enumerates the paths among the first m arguments in their order.
PathsAt(places, paths, m) ==
    /\ places \in [1..Len(paths) -> {k \in 1..m : Role[k] = "path"}]
    /\ \A k \in 1..m : Role[k] = "path" =>
          \E j \in 1..Len(paths) : places[j] = k
    /\ \A j \in 1..Len(paths) :
          /\ paths[j] = argv[places[j]]
          /\ \A b \in 1..(j - 1) : places[b] < places[j]
MeantPaths(o, m) == \E places : PathsAt(places, o.paths, m)

Meant(o, m) ==
    /\ MeantFlags(m) /\ MeantWords(o, m) /\ MeantSwitches(o, m)
    /\ MeantNumbers(o, m) /\ MeantPaths(o, m)

\* The three kinds of flags are apart from each other.
LEMMA FlagKinds ==
    /\ Switches \cap Valued = {} /\ NumberFlags \cap WordFlags = {}
    /\ HelpFlags \cap (Switches \cup Valued) = {}
    /\ Flags = Switches \cup Valued \cup HelpFlags
  BY DEF Switches, Valued, NumberFlags, WordFlags, HelpFlags, Flags

\* Each option keeps its type when another value of it is set.
LEMMA OptionsUpdated ==
    ASSUME NEW o \in OptionsType
    PROVE  /\ \A v \in Int : [o EXCEPT !.n = v] \in OptionsType
           /\ \A v \in 1..3 : [o EXCEPT !.detail = v] \in OptionsType
           /\ \A v \in Nat : /\ [o EXCEPT !.delay = v] \in OptionsType
                             /\ [o EXCEPT !.timeout = v] \in OptionsType
           /\ \A v \in BOOLEAN : /\ [o EXCEPT !.table = v] \in OptionsType
                                 /\ [o EXCEPT !.verbose = v] \in OptionsType
                                 /\ [o EXCEPT !.topdown = v] \in OptionsType
                                 /\ [o EXCEPT !.inherit = v] \in OptionsType
                                 /\ [o EXCEPT !.scale = v] \in OptionsType
                                 /\ [o EXCEPT !.pinned = v] \in OptionsType
           /\ \A v, u \in BOOLEAN :
                 [o EXCEPT !.exclKernel = v, !.exclUser = u] \in OptionsType
           /\ \A w \in Words : /\ [o EXCEPT !.csv = w] \in OptionsType
                               /\ [o EXCEPT !.pre = w] \in OptionsType
                               /\ [o EXCEPT !.post = w] \in OptionsType
                               /\ [o EXCEPT !.file = w] \in OptionsType
                               /\ [o EXCEPT !.metrics = w] \in OptionsType
           /\ \A c \in {First[w] : w \in Words} \cup {","} :
                 [o EXCEPT !.sep = c] \in OptionsType
           /\ \A p \in Seq(Words) : [o EXCEPT !.paths = p] \in OptionsType
<1>1. \A v \in Int : [o EXCEPT !.n = v] \in OptionsType
  BY DEF OptionsType
<1>2. \A v \in 1..3 : [o EXCEPT !.detail = v] \in OptionsType
  BY DEF OptionsType
<1>3. \A v \in Nat : /\ [o EXCEPT !.delay = v] \in OptionsType
                     /\ [o EXCEPT !.timeout = v] \in OptionsType
  BY DEF OptionsType
<1>4. \A v \in BOOLEAN : /\ [o EXCEPT !.table = v] \in OptionsType
                         /\ [o EXCEPT !.verbose = v] \in OptionsType
                         /\ [o EXCEPT !.topdown = v] \in OptionsType
  <2>1. \A v \in BOOLEAN : [o EXCEPT !.table = v] \in OptionsType
    BY DEF OptionsType
  <2>2. \A v \in BOOLEAN : [o EXCEPT !.verbose = v] \in OptionsType
    BY DEF OptionsType
  <2>3. \A v \in BOOLEAN : [o EXCEPT !.topdown = v] \in OptionsType
    BY DEF OptionsType
  <2> QED BY <2>1, <2>2, <2>3
<1>5. \A v \in BOOLEAN : /\ [o EXCEPT !.inherit = v] \in OptionsType
                         /\ [o EXCEPT !.scale = v] \in OptionsType
                         /\ [o EXCEPT !.pinned = v] \in OptionsType
  <2>1. \A v \in BOOLEAN : [o EXCEPT !.inherit = v] \in OptionsType
    BY DEF OptionsType
  <2>2. \A v \in BOOLEAN : [o EXCEPT !.scale = v] \in OptionsType
    BY DEF OptionsType
  <2>3. \A v \in BOOLEAN : [o EXCEPT !.pinned = v] \in OptionsType
    BY DEF OptionsType
  <2> QED BY <2>1, <2>2, <2>3
<1>6. \A v, u \in BOOLEAN :
         [o EXCEPT !.exclKernel = v, !.exclUser = u] \in OptionsType
  BY DEF OptionsType
<1>7. \A w \in Words : /\ [o EXCEPT !.csv = w] \in OptionsType
                       /\ [o EXCEPT !.pre = w] \in OptionsType
                       /\ [o EXCEPT !.post = w] \in OptionsType
                       /\ [o EXCEPT !.file = w] \in OptionsType
                       /\ [o EXCEPT !.metrics = w] \in OptionsType
  BY DEF OptionsType
<1>8. \A c \in {First[w] : w \in Words} \cup {","} :
         [o EXCEPT !.sep = c] \in OptionsType
  BY DEF OptionsType
<1>9. \A p \in Seq(Words) : [o EXCEPT !.paths = p] \in OptionsType
  BY DEF OptionsType
<1> QED BY <1>1, <1>2, <1>3, <1>4, <1>5, <1>6, <1>7, <1>8, <1>9

LEMMA SwitchMeant ==
    ASSUME argv \in Seq(Words), AtBoundary, HasArgument, argv[i] \in Switches,
           NEW o \in OptionsType, Meant(o, i - 1)
    PROVE  Meant(Switched(o, argv[i]), i) /\ Switched(o, argv[i]) \in OptionsType
<1> DEFINE a == argv[i]
           q == Switched(o, a)
<1>1. i \in 1..Len(argv) /\ Len(argv) \in Nat /\ a \in Words
  BY DEF AtBoundary, HasArgument
<1>2. a \in Dashed /\ a \in Flags \ HelpFlags
  BY <1>1, FlagKinds, WordsAssumption
<1>3. \A flags : /\ a \in flags => Placed(flags, i) # {} /\ LastAmong(flags, i) = a
                 /\ a \notin flags => Placed(flags, i) = Placed(flags, i - 1)
  BY <1>2, SwitchPlaced DEF LastAmong
<1>4. \A flags : a \notin flags => /\ LastAmong(flags, i) = LastAmong(flags, i - 1)
                                   /\ WordAmong(flags, i) = WordAmong(flags, i - 1)
  BY <1>3 DEF LastAmong, WordAmong
<1>5. Role[i] = "flag"
  BY <1>2, SwitchPlaced
<1>6. a \in Switches
  OBVIOUS
<1> HIDE DEF a
<1>7. q \in OptionsType
  <2>1. 1 \in 1..3 /\ 2 \in 1..3 /\ 3 \in 1..3
    OBVIOUS
  <2>2. CASE a = "-d"
    BY <2>1, <2>2, OptionsUpdated DEF Switched
  <2>3. CASE a = "-dd"
    BY <2>1, <2>3, OptionsUpdated DEF Switched
  <2>4. CASE a = "-ddd"
    BY <2>1, <2>4, OptionsUpdated DEF Switched
  <2>5. CASE a = "--table"
    BY <2>5, OptionsUpdated DEF Switched
  <2>6. CASE a \in {"-v", "--verbose"}
    BY <2>6, OptionsUpdated DEF Switched
  <2>7. CASE a = "--topdown"
    BY <2>7, OptionsUpdated DEF Switched
  <2>8. CASE a = "--no-inherit"
    BY <2>8, OptionsUpdated DEF Switched
  <2>9. CASE a = "--no-scale"
    BY <2>9, OptionsUpdated DEF Switched
  <2>10. CASE a = "--all-user"
    BY <2>10, OptionsUpdated DEF Switched
  <2>11. CASE a = "--all-kernel"
    BY <2>11, OptionsUpdated DEF Switched
  <2>12. CASE a = "--pinned"
    BY <2>12, OptionsUpdated DEF Switched
  <2> QED BY <1>6, <2>2, <2>3, <2>4, <2>5, <2>6, <2>7, <2>8, <2>9, <2>10,
             <2>11, <2>12 DEF Switches
<1>8. MeantFlags(i)
  BY <1>1, <1>2, <1>6 DEF MeantFlags, Meant, a
<1>9. MeantWords(q, i)
  <2>1. /\ q.csv = o.csv /\ q.pre = o.pre /\ q.post = o.post
        /\ q.file = o.file /\ q.metrics = o.metrics /\ q.sep = o.sep
    BY <1>6 DEF Switches, Switched, OptionsType
  <2>2. a \notin WordFlags
    BY <1>6, FlagKinds DEF Valued
  <2>3. \A f \in WordFlags : /\ Placed({f}, i) = Placed({f}, i - 1)
                             /\ WordAmong({f}, i) = WordAmong({f}, i - 1)
    BY <1>3, <1>4, <2>2
  <2> HIDE DEF q
  <2> QED BY <2>1, <2>3 DEF MeantWords, Meant, WordFlags
<1>10. MeantSwitches(q, i)
  <2>1. q.detail = CASE a = "-d" -> 1 [] a = "-dd" -> 2 [] a = "-ddd" -> 3
                     [] OTHER -> o.detail
    BY <1>6 DEF Switches, Switched, OptionsType
  <2>2. /\ q.table = IF a = "--table" THEN TRUE ELSE o.table
        /\ q.verbose = IF a \in {"-v", "--verbose"} THEN TRUE ELSE o.verbose
        /\ q.topdown = IF a = "--topdown" THEN TRUE ELSE o.topdown
    BY <1>6 DEF Switches, Switched, OptionsType
  <2>3. /\ q.inherit = IF a = "--no-inherit" THEN FALSE ELSE o.inherit
        /\ q.pinned = IF a = "--pinned" THEN TRUE ELSE o.pinned
    BY <1>6 DEF Switches, Switched, OptionsType
  <2>4. /\ a \notin Rings => q.exclKernel = o.exclKernel /\ q.exclUser = o.exclUser
        /\ a = "--all-user" => q.exclKernel = TRUE /\ q.exclUser = FALSE
        /\ a = "--all-kernel" => q.exclKernel = FALSE /\ q.exclUser = TRUE
    BY <1>6 DEF Switches, Switched, OptionsType, Rings
  <2> HIDE DEF q
  <2>5. MeantSwitches(o, i - 1)
    BY DEF Meant
  <2>6. q.detail = IF Placed({"-d", "-dd", "-ddd"}, i) = {} THEN 1
                   ELSE CASE LastAmong({"-d", "-dd", "-ddd"}, i) = "-d"   -> 1
                          [] LastAmong({"-d", "-dd", "-ddd"}, i) = "-dd"  -> 2
                          [] LastAmong({"-d", "-dd", "-ddd"}, i) = "-ddd" -> 3
    <3>1. CASE a \in {"-d", "-dd", "-ddd"}
      BY <3>1, <2>1, <1>3
    <3>2. CASE a \notin {"-d", "-dd", "-ddd"}
      BY <3>2, <2>1, <2>5, <1>3, <1>4 DEF MeantSwitches
    <3> QED BY <3>1, <3>2
  <2>7. q.table = (Placed({"--table"}, i) # {})
    BY <2>2, <2>5, <1>3 DEF MeantSwitches
  <2>8. q.verbose = (Placed({"-v", "--verbose"}, i) # {})
    BY <2>2, <2>5, <1>3 DEF MeantSwitches
  <2>9. q.topdown = (Placed({"--topdown"}, i) # {})
    BY <2>2, <2>5, <1>3 DEF MeantSwitches
  <2>10. q.inherit = (Placed({"--no-inherit"}, i) = {})
    BY <2>3, <2>5, <1>3 DEF MeantSwitches
  <2>11. q.pinned = (Placed({"--pinned"}, i) # {})
    BY <2>3, <2>5, <1>3 DEF MeantSwitches
  <2>12. q.exclKernel = ~ByKernel(i) /\ q.exclUser = ByKernel(i)
    <3>1. CASE a \notin Rings
      BY <3>1, <2>4, <2>5, <1>3, <1>4 DEF MeantSwitches, ByKernel
    <3>2. CASE a = "--all-user"
      BY <3>2, <2>4, <1>3 DEF ByKernel, Rings
    <3>3. CASE a = "--all-kernel"
      BY <3>3, <2>4, <1>3 DEF ByKernel, Rings
    <3> QED BY <3>1, <3>2, <3>3 DEF Rings
  <2> QED BY <2>6, <2>7, <2>8, <2>9, <2>10, <2>11, <2>12 DEF MeantSwitches
<1>11. MeantNumbers(q, i)
  <2>1. q.n = o.n /\ q.delay = o.delay /\ q.timeout = o.timeout
    BY <1>6 DEF Switches, Switched, OptionsType
  <2>2. a \notin NumberFlags
    BY <1>6, FlagKinds DEF Valued
  <2>3. \A f \in SUBSET NumberFlags : /\ Placed(f, i) = Placed(f, i - 1)
                                      /\ WordAmong(f, i) = WordAmong(f, i - 1)
    BY <1>3, <1>4, <2>2
  <2> HIDE DEF q
  <2> QED BY <2>1, <2>3 DEF MeantNumbers, Meant, NumberFlags, Given
<1>12. MeantPaths(q, i)
  <2>1. q.paths = o.paths
    BY <1>6 DEF Switches, Switched, OptionsType
  <2>2. {k \in 1..i : Role[k] = "path"} = {k \in 1..(i - 1) : Role[k] = "path"}
    BY <1>1, <1>5
  <2> HIDE DEF q
  <2>3. PICK places : PathsAt(places, o.paths, i - 1)
    BY DEF MeantPaths, Meant
  <2>4. PathsAt(places, o.paths, i)
    BY <1>1, <1>5, <2>2, <2>3 DEF PathsAt
  <2> QED BY <2>1, <2>4 DEF MeantPaths
<1> QED BY <1>7, <1>8, <1>9, <1>10, <1>11, <1>12 DEF Meant, a

LEMMA NumberMeant ==
    ASSUME argv \in Seq(Words), AtBoundary, HasArgument, HasValue,
           argv[i] \in NumberFlags, NEW o \in OptionsType, Meant(o, i - 1),
           ParseInt(argv[i + 1]) >= Least(argv[i])
    PROVE  LET q == Numbered(o, argv[i], ParseInt(argv[i + 1]))
           IN  Meant(q, i + 1) /\ q \in OptionsType
<1> DEFINE a == argv[i]
           w == argv[i + 1]
           q == Numbered(o, a, ParseInt(w))
<1>1. i \in 1..Len(argv) /\ i + 1 \in 1..Len(argv) /\ Len(argv) \in Nat
      /\ a \in Words /\ w \in Words
  BY DEF AtBoundary, HasArgument, HasValue
<1>2. a \in Dashed /\ a \in Valued /\ a \in Flags \ HelpFlags /\ i < Len(argv)
  BY <1>1, FlagKinds, WordsAssumption DEF Valued, HasValue
<1>3. \A flags : /\ a \in flags => /\ Placed(flags, i + 1) # {}
                                   /\ LastAmong(flags, i + 1) = a
                                   /\ WordAmong(flags, i + 1) = w
                 /\ a \notin flags => Placed(flags, i + 1) = Placed(flags, i - 1)
  BY <1>2, ValuePlaced DEF LastAmong, WordAmong
<1>4. \A flags : a \notin flags =>
          /\ LastAmong(flags, i + 1) = LastAmong(flags, i - 1)
          /\ WordAmong(flags, i + 1) = WordAmong(flags, i - 1)
  BY <1>3 DEF LastAmong, WordAmong
<1>5. Role[i] = "flag" /\ Role[i + 1] = "value"
  BY <1>2, ValuePlaced
<1>6. a \in NumberFlags
  OBVIOUS
<1>a. ParseInt(w) \in Int /\ ParseInt(w) >= Least(a)
  BY <1>1, ParsesWhatIsStated, WidthAssumption
<1> HIDE DEF a, w
<1>7. q \in OptionsType
  <2>1. U32(ParseInt(w)) \in Nat
    BY <1>a, U32Type, WidthAssumption
  <2>2. CASE a \in {"-n", "-r"}
    BY <2>2, <1>a, OptionsUpdated DEF Numbered
  <2>3. CASE a = "-D"
    BY <2>3, <2>1, OptionsUpdated DEF Numbered
  <2>4. CASE a = "--timeout"
    BY <2>4, <2>1, OptionsUpdated DEF Numbered
  <2> QED BY <1>6, <2>2, <2>3, <2>4 DEF NumberFlags
<1>8. MeantFlags(i + 1)
  <2>1. \A k \in 1..(i + 1) : k \in 1..(i - 1) \/ k = i \/ k = i + 1
    BY <1>1
  <2> QED BY <1>2, <1>5, <2>1 DEF MeantFlags, Meant, a
<1>9. MeantWords(q, i + 1)
  <2>1. /\ q.csv = o.csv /\ q.pre = o.pre /\ q.post = o.post
        /\ q.file = o.file /\ q.metrics = o.metrics /\ q.sep = o.sep
    BY <1>6 DEF NumberFlags, Numbered, OptionsType
  <2>2. a \notin WordFlags
    BY <1>6, FlagKinds
  <2>3. \A f \in WordFlags : /\ Placed({f}, i + 1) = Placed({f}, i - 1)
                             /\ WordAmong({f}, i + 1) = WordAmong({f}, i - 1)
    BY <1>3, <1>4, <2>2
  <2> HIDE DEF q
  <2> QED BY <2>1, <2>3 DEF MeantWords, Meant, WordFlags
<1>10. MeantSwitches(q, i + 1)
  <2>1. /\ q.detail = o.detail /\ q.table = o.table /\ q.verbose = o.verbose
        /\ q.topdown = o.topdown /\ q.inherit = o.inherit /\ q.pinned = o.pinned
        /\ q.exclKernel = o.exclKernel /\ q.exclUser = o.exclUser
    BY <1>6 DEF NumberFlags, Numbered, OptionsType
  <2>2. a \notin Switches
    BY <1>2, FlagKinds
  <2>3. \A f \in SUBSET Switches : /\ Placed(f, i + 1) = Placed(f, i - 1)
                                   /\ LastAmong(f, i + 1) = LastAmong(f, i - 1)
    BY <1>3, <1>4, <2>2
  <2>4. /\ {"-d", "-dd", "-ddd"} \subseteq Switches /\ Rings \subseteq Switches
        /\ {"--table"} \subseteq Switches /\ {"-v", "--verbose"} \subseteq Switches
        /\ {"--topdown"} \subseteq Switches /\ {"--no-inherit"} \subseteq Switches
        /\ {"--pinned"} \subseteq Switches
    BY DEF Switches, Rings
  <2> HIDE DEF q
  <2> QED BY <2>1, <2>3, <2>4 DEF MeantSwitches, Meant, ByKernel
<1>11. MeantNumbers(q, i + 1)
  <2>1. MeantNumbers(o, i - 1)
    BY DEF Meant
  <2>2. CASE a \in {"-n", "-r"}
    <3>1. q.n = ParseInt(w) /\ q.delay = o.delay /\ q.timeout = o.timeout
      BY <2>2 DEF Numbered, OptionsType
    <3>2. Given({"-n", "-r"}, i + 1, 1, q.n)
      BY <2>2, <3>1, <1>3, <1>a DEF Given, Least
    <3>3. a \notin {"-D"} /\ a \notin {"--timeout"}
      BY <2>2
    <3> HIDE DEF q
    <3> QED BY <2>1, <2>2, <3>1, <3>2, <3>3, <1>3, <1>4 DEF MeantNumbers, Given
  <2>3. CASE a = "-D"
    <3>1. q.n = o.n /\ q.delay = U32(ParseInt(w)) /\ q.timeout = o.timeout
      BY <2>3 DEF Numbered, OptionsType
    <3>2. Given({"-D"}, i + 1, 0, ParseInt(w))
      BY <2>3, <1>3, <1>a DEF Given, Least
    <3>3. a \notin {"-n", "-r"} /\ a \notin {"--timeout"} /\ a \in {"-D"}
      BY <2>3
    <3> HIDE DEF q
    <3> QED BY <2>1, <3>1, <3>2, <3>3, <1>3, <1>4, <1>a DEF MeantNumbers, Given
  <2>4. CASE a = "--timeout"
    <3>1. q.n = o.n /\ q.delay = o.delay /\ q.timeout = U32(ParseInt(w))
      BY <2>4 DEF Numbered, OptionsType
    <3>2. Given({"--timeout"}, i + 1, 0, ParseInt(w))
      BY <2>4, <1>3, <1>a DEF Given, Least
    <3>3. a \notin {"-n", "-r"} /\ a \notin {"-D"} /\ a \in {"--timeout"}
      BY <2>4
    <3> HIDE DEF q
    <3> QED BY <2>1, <3>1, <3>2, <3>3, <1>3, <1>4, <1>a DEF MeantNumbers, Given
  <2> QED BY <1>6, <2>2, <2>3, <2>4 DEF NumberFlags
<1>12. MeantPaths(q, i + 1)
  <2>1. q.paths = o.paths
    BY <1>6 DEF NumberFlags, Numbered, OptionsType
  <2>2. {k \in 1..(i + 1) : Role[k] = "path"} = {k \in 1..(i - 1) : Role[k] = "path"}
    <3>1. \A k \in 1..(i + 1) : k \in 1..(i - 1) \/ k = i \/ k = i + 1
      BY <1>1
    <3>2. 1..(i - 1) \subseteq 1..(i + 1)
      BY <1>1
    <3> QED BY <1>5, <3>1, <3>2
  <2> HIDE DEF q
  <2>3. PICK places : PathsAt(places, o.paths, i - 1)
    BY DEF MeantPaths, Meant
  <2>4. PathsAt(places, o.paths, i + 1)
    BY <1>1, <1>5, <2>2, <2>3 DEF PathsAt
  <2> QED BY <2>1, <2>4 DEF MeantPaths
<1> QED BY <1>7, <1>8, <1>9, <1>10, <1>11, <1>12 DEF Meant, a, w

LEMMA WordMeant ==
    ASSUME argv \in Seq(Words), AtBoundary, HasArgument, HasValue,
           argv[i] \in WordFlags, NEW o \in OptionsType, Meant(o, i - 1)
    PROVE  LET q == Worded(o, argv[i], argv[i + 1])
           IN  Meant(q, i + 1) /\ q \in OptionsType
<1> DEFINE a == argv[i]
           w == argv[i + 1]
           q == Worded(o, a, w)
<1>1. i \in 1..Len(argv) /\ i + 1 \in 1..Len(argv) /\ Len(argv) \in Nat
      /\ a \in Words /\ w \in Words
  BY DEF AtBoundary, HasArgument, HasValue
<1>2. a \in Dashed /\ a \in Valued /\ a \in Flags \ HelpFlags /\ i < Len(argv)
  BY <1>1, FlagKinds, WordsAssumption DEF Valued, HasValue
<1>3. \A flags : /\ a \in flags => /\ Placed(flags, i + 1) # {}
                                   /\ LastAmong(flags, i + 1) = a
                                   /\ WordAmong(flags, i + 1) = w
                 /\ a \notin flags => Placed(flags, i + 1) = Placed(flags, i - 1)
  BY <1>2, ValuePlaced DEF LastAmong, WordAmong
<1>4. \A flags : a \notin flags =>
          /\ LastAmong(flags, i + 1) = LastAmong(flags, i - 1)
          /\ WordAmong(flags, i + 1) = WordAmong(flags, i - 1)
  BY <1>3 DEF LastAmong, WordAmong
<1>5. Role[i] = "flag" /\ Role[i + 1] = "value"
  BY <1>2, ValuePlaced
<1>6. a \in WordFlags
  OBVIOUS
<1> HIDE DEF a, w
<1>7. q \in OptionsType
  <2>1. First[w] \in {First[x] : x \in Words} \cup {","}
        /\ "," \in {First[x] : x \in Words} \cup {","}
    BY <1>1
  <2>2. CASE a = "-e"
    BY <2>2, <1>1, OptionsUpdated DEF Worded
  <2>3. CASE a = "--pre"
    BY <2>3, <1>1, OptionsUpdated DEF Worded
  <2>4. CASE a = "--post"
    BY <2>4, <1>1, OptionsUpdated DEF Worded
  <2>5. CASE a = "-x"
    BY <2>5, <2>1, OptionsUpdated DEF Worded
  <2>6. CASE a = "-o"
    BY <2>6, <1>1, OptionsUpdated DEF Worded
  <2>7. CASE a = "-M"
    BY <2>7, <1>1, OptionsUpdated DEF Worded
  <2> QED BY <1>6, <2>2, <2>3, <2>4, <2>5, <2>6, <2>7 DEF WordFlags
<1>8. MeantFlags(i + 1)
  <2>1. \A k \in 1..(i + 1) : k \in 1..(i - 1) \/ k = i \/ k = i + 1
    BY <1>1
  <2> QED BY <1>2, <1>5, <2>1 DEF MeantFlags, Meant, a
<1>9. MeantWords(q, i + 1)
  <2>1. MeantWords(o, i - 1)
    BY DEF Meant
  <2>2. /\ q.csv = IF a = "-e" THEN w ELSE o.csv
        /\ q.pre = IF a = "--pre" THEN w ELSE o.pre
        /\ q.post = IF a = "--post" THEN w ELSE o.post
    BY <1>6 DEF WordFlags, Worded, OptionsType
  <2>3. /\ q.file = IF a = "-o" THEN w ELSE o.file
        /\ q.metrics = IF a = "-M" THEN w ELSE o.metrics
        /\ q.sep = IF a = "-x" THEN (IF First[w] = "" THEN "," ELSE First[w])
                   ELSE o.sep
    BY <1>6 DEF WordFlags, Worded, OptionsType
  <2>4. First[w] = "" <=> w = ""
    BY <1>1, WordsAssumption
  <2> HIDE DEF q
  <2>5. q.csv = WordAmong({"-e"}, i + 1)
    BY <2>1, <2>2, <1>3, <1>4 DEF MeantWords
  <2>6. q.pre = WordAmong({"--pre"}, i + 1) /\ q.post = WordAmong({"--post"}, i + 1)
    BY <2>1, <2>2, <1>3, <1>4 DEF MeantWords
  <2>7. q.file = WordAmong({"-o"}, i + 1) /\ q.metrics = WordAmong({"-M"}, i + 1)
    BY <2>1, <2>3, <1>3, <1>4 DEF MeantWords
  <2>8. q.sep = IF Placed({"-x"}, i + 1) = {} THEN NoWord
                ELSE IF WordAmong({"-x"}, i + 1) = "" THEN ","
                ELSE First[WordAmong({"-x"}, i + 1)]
    <3>1. CASE a = "-x"
      BY <3>1, <2>3, <2>4, <1>3
    <3>2. CASE a # "-x"
      BY <3>2, <2>1, <2>3, <1>3, <1>4 DEF MeantWords
    <3> QED BY <3>1, <3>2
  <2> QED BY <2>5, <2>6, <2>7, <2>8 DEF MeantWords
<1>10. MeantSwitches(q, i + 1)
  <2>1. /\ q.detail = o.detail /\ q.table = o.table /\ q.verbose = o.verbose
        /\ q.topdown = o.topdown /\ q.inherit = o.inherit /\ q.pinned = o.pinned
        /\ q.exclKernel = o.exclKernel /\ q.exclUser = o.exclUser
    BY <1>6 DEF WordFlags, Worded, OptionsType
  <2>2. a \notin Switches
    BY <1>2, FlagKinds
  <2>3. \A f \in SUBSET Switches : /\ Placed(f, i + 1) = Placed(f, i - 1)
                                   /\ LastAmong(f, i + 1) = LastAmong(f, i - 1)
    BY <1>3, <1>4, <2>2
  <2>4. /\ {"-d", "-dd", "-ddd"} \subseteq Switches /\ Rings \subseteq Switches
        /\ {"--table"} \subseteq Switches /\ {"-v", "--verbose"} \subseteq Switches
        /\ {"--topdown"} \subseteq Switches /\ {"--no-inherit"} \subseteq Switches
        /\ {"--pinned"} \subseteq Switches
    BY DEF Switches, Rings
  <2> HIDE DEF q
  <2> QED BY <2>1, <2>3, <2>4 DEF MeantSwitches, Meant, ByKernel
<1>11. MeantNumbers(q, i + 1)
  <2>1. q.n = o.n /\ q.delay = o.delay /\ q.timeout = o.timeout
    BY <1>6 DEF WordFlags, Worded, OptionsType
  <2>2. a \notin NumberFlags
    BY <1>6, FlagKinds
  <2>3. \A f \in SUBSET NumberFlags : /\ Placed(f, i + 1) = Placed(f, i - 1)
                                      /\ WordAmong(f, i + 1) = WordAmong(f, i - 1)
    BY <1>3, <1>4, <2>2
  <2> HIDE DEF q
  <2> QED BY <2>1, <2>3 DEF MeantNumbers, Meant, NumberFlags, Given
<1>12. MeantPaths(q, i + 1)
  <2>1. q.paths = o.paths
    BY <1>6 DEF WordFlags, Worded, OptionsType
  <2>2. {k \in 1..(i + 1) : Role[k] = "path"} = {k \in 1..(i - 1) : Role[k] = "path"}
    <3>1. \A k \in 1..(i + 1) : k \in 1..(i - 1) \/ k = i \/ k = i + 1
      BY <1>1
    <3>2. 1..(i - 1) \subseteq 1..(i + 1)
      BY <1>1
    <3> QED BY <1>5, <3>1, <3>2
  <2> HIDE DEF q
  <2>3. PICK places : PathsAt(places, o.paths, i - 1)
    BY DEF MeantPaths, Meant
  <2>4. PathsAt(places, o.paths, i + 1)
    BY <1>1, <1>5, <2>2, <2>3 DEF PathsAt
  <2> QED BY <2>1, <2>4 DEF MeantPaths
<1> QED BY <1>7, <1>8, <1>9, <1>10, <1>11, <1>12 DEF Meant, a, w

LEMMA PathMeant ==
    ASSUME argv \in Seq(Words), AtBoundary, HasArgument, argv[i] \notin Dashed,
           NEW o \in OptionsType, Meant(o, i - 1)
    PROVE  LET q == [o EXCEPT !.paths = Append(@, argv[i])]
           IN  Meant(q, i) /\ q \in OptionsType
<1> DEFINE a == argv[i]
           q == [o EXCEPT !.paths = Append(@, a)]
<1>1. i \in 1..Len(argv) /\ Len(argv) \in Nat /\ a \in Words
  BY DEF AtBoundary, HasArgument
<1>2. \A flags : Placed(flags, i) = Placed(flags, i - 1)
  BY PathPlaced
<1>3. \A flags : /\ LastAmong(flags, i) = LastAmong(flags, i - 1)
                 /\ WordAmong(flags, i) = WordAmong(flags, i - 1)
  BY <1>2 DEF LastAmong, WordAmong
<1>4. Role[i] = "path"
  BY PathPlaced
<1>5. o.paths \in Seq(Words) /\ q.paths = Append(o.paths, a)
  BY DEF OptionsType
<1>6. q \in OptionsType
  <2>1. Append(o.paths, a) \in Seq(Words)
    BY <1>1, <1>5
  <2> QED BY <2>1, OptionsUpdated
<1>7. MeantFlags(i)
  BY <1>1, <1>4 DEF MeantFlags, Meant
<1>8. MeantWords(q, i)
  <2>1. /\ q.csv = o.csv /\ q.pre = o.pre /\ q.post = o.post
        /\ q.file = o.file /\ q.metrics = o.metrics /\ q.sep = o.sep
    BY DEF OptionsType
  <2> HIDE DEF q
  <2> QED BY <2>1, <1>2, <1>3 DEF MeantWords, Meant
<1>9. MeantSwitches(q, i)
  <2>1. /\ q.detail = o.detail /\ q.table = o.table /\ q.verbose = o.verbose
        /\ q.topdown = o.topdown /\ q.inherit = o.inherit /\ q.pinned = o.pinned
        /\ q.exclKernel = o.exclKernel /\ q.exclUser = o.exclUser
    BY DEF OptionsType
  <2> HIDE DEF q
  <2> QED BY <2>1, <1>2, <1>3 DEF MeantSwitches, Meant, ByKernel
<1>10. MeantNumbers(q, i)
  <2>1. q.n = o.n /\ q.delay = o.delay /\ q.timeout = o.timeout
    BY DEF OptionsType
  <2> HIDE DEF q
  <2> QED BY <2>1, <1>2, <1>3 DEF MeantNumbers, Meant, Given
<1>11. MeantPaths(q, i)
  <2> DEFINE n == Len(o.paths)
  <2>1. PICK places : PathsAt(places, o.paths, i - 1)
    BY DEF MeantPaths, Meant
  <2> DEFINE new == [j \in 1..(n + 1) |-> IF j = n + 1 THEN i ELSE places[j]]
  <2>2. n \in Nat /\ Len(q.paths) = n + 1 /\ q.paths[n + 1] = a
        /\ \A j \in 1..n : q.paths[j] = o.paths[j]
    BY <1>1, <1>5
  <2> HIDE DEF q, n
  <2>3. \A j \in 1..n : /\ places[j] \in 1..(i - 1) /\ Role[places[j]] = "path"
                        /\ new[j] = places[j]
    BY <2>1, <2>2 DEF PathsAt, n
  <2>4. new[n + 1] = i
    BY <2>2
  <2>5. new \in [1..(n + 1) -> {k \in 1..i : Role[k] = "path"}]
    <3>1. ASSUME NEW j \in 1..(n + 1)
          PROVE  (IF j = n + 1 THEN i ELSE places[j]) \in {k \in 1..i : Role[k] = "path"}
      <4>1. CASE j = n + 1
        BY <4>1, <1>1, <1>4
      <4>2. CASE j \in 1..n
        <5>1. places[j] \in 1..(i - 1) /\ Role[places[j]] = "path"
          BY <4>2, <2>3
        <5>2. j # n + 1 /\ places[j] \in 1..i
          BY <4>2, <5>1, <1>1, <2>2
        <5> QED BY <5>1, <5>2
      <4> QED BY <4>1, <4>2, <2>2
    <3> QED BY <3>1
  <2> HIDE DEF new
  <2>6. \A k \in 1..i : Role[k] = "path" => \E j \in 1..(n + 1) : new[j] = k
    <3>1. ASSUME NEW k \in 1..i, Role[k] = "path"
          PROVE  \E j \in 1..(n + 1) : new[j] = k
      <4>1. CASE k = i
        BY <4>1, <2>2, <2>4
      <4>2. CASE k \in 1..(i - 1)
        <5>1. PICK j \in 1..n : places[j] = k
          BY <3>1, <4>2, <2>1 DEF PathsAt, n
        <5>2. j \in 1..(n + 1)
          BY <2>2
        <5>3. new[j] = k
          BY <5>1, <2>3
        <5> QED BY <5>2, <5>3
      <4> QED BY <4>1, <4>2, <1>1
    <3> QED BY <3>1
  <2>7. ASSUME NEW j \in 1..(n + 1)
        PROVE  q.paths[j] = argv[new[j]] /\ \A b \in 1..(j - 1) : new[b] < new[j]
    <3>1. CASE j = n + 1
      <4>1. \A b \in 1..n : new[b] < i
        BY <1>1, <2>3
      <4> QED BY <3>1, <4>1, <2>2, <2>4 DEF a
    <3>2. CASE j \in 1..n
      <4>1. /\ o.paths[j] = argv[places[j]]
            /\ \A b \in 1..(j - 1) : places[b] < places[j]
        BY <3>2, <2>1 DEF PathsAt, n
      <4>2. \A b \in 1..(j - 1) : b \in 1..n
        BY <3>2, <2>2
      <4> QED BY <3>2, <4>1, <4>2, <2>2, <2>3
    <3> QED BY <3>1, <3>2, <2>2
  <2>8. PathsAt(new, q.paths, i)
    BY <2>2, <2>5, <2>6, <2>7 DEF PathsAt
  <2> QED BY <2>8 DEF MeantPaths
<1> QED BY <1>6, <1>7, <1>8, <1>9, <1>10, <1>11 DEF Meant

-----------------------------------------------------------------------------
(* The invariant of the parser *)

\* How many arguments the options stand for.
Done == IF pc = "argv" THEN i - 1 ELSE Len(argv)

ParseInv ==
    /\ argv \in CommandLines /\ opts \in OptionsType
    /\ pc = "argv" => AtBoundary
    /\ pc # "usage" => Meant(opts, Done)
    /\ Parsed => opts.paths # <<>>
    /\ opts.n >= 1 /\ opts.delay <= IntMax /\ opts.timeout <= IntMax

\* The roles and the places are those of the argument vector, which no step
\* changes.
LEMMA RoleKept ==
    ASSUME argv' = argv
    PROVE  Role' = Role
  BY DEF Role

LEMMA MeantKept ==
    ASSUME argv' = argv, NEW m, Done' = m, Meant(opts', m)
    PROVE  Meant(opts, Done)'
<1>1. Role' = Role
  BY RoleKept
<1>2. MeantFlags(m)
  BY DEF Meant
<1>3. MeantFlags(Done)'
  BY <1>1, <1>2 DEF MeantFlags
<1>4. MeantWords(opts, Done)'
  <2>1. MeantWords(opts', m)
    BY DEF Meant
  <2>2. /\ WordAmong({"-e"}, Done)' = WordAmong({"-e"}, m)
        /\ WordAmong({"--pre"}, Done)' = WordAmong({"--pre"}, m)
        /\ WordAmong({"--post"}, Done)' = WordAmong({"--post"}, m)
    BY <1>1 DEF WordAmong, Placed
  <2>3. /\ WordAmong({"-o"}, Done)' = WordAmong({"-o"}, m)
        /\ WordAmong({"-M"}, Done)' = WordAmong({"-M"}, m)
        /\ WordAmong({"-x"}, Done)' = WordAmong({"-x"}, m)
    BY <1>1 DEF WordAmong, Placed
  <2>4. Placed({"-x"}, Done)' = Placed({"-x"}, m)
    BY <1>1 DEF Placed
  <2> QED BY <2>1, <2>2, <2>3, <2>4 DEF MeantWords
<1>5. MeantSwitches(opts, Done)'
  <2>1. MeantSwitches(opts', m)
    BY DEF Meant
  <2> QED BY <1>1, <2>1 DEF MeantSwitches, ByKernel, LastAmong, Placed
<1>6. MeantNumbers(opts, Done)'
  <2>1. MeantNumbers(opts', m)
    BY DEF Meant
  <2> QED BY <1>1, <2>1 DEF MeantNumbers, Given, WordAmong, Placed
<1>7. MeantPaths(opts, Done)'
  <2>1. MeantPaths(opts', m)
    BY DEF Meant
  <2> QED BY <1>1, <2>1 DEF MeantPaths, PathsAt
<1> QED BY <1>3, <1>4, <1>5, <1>6, <1>7 DEF Meant

\* The numbers that arrive are in range.
LEMMA NumbersInRange ==
    ASSUME NEW o, NEW m, Meant(o, m)
    PROVE  o.n >= 1 /\ o.delay <= IntMax /\ o.timeout <= IntMax
<1>1. MeantNumbers(o, m)
  BY DEF Meant
<1>2. o.n >= 1
  BY <1>1 DEF MeantNumbers, Given
<1>3. o.delay <= IntMax
  <2>1. CASE o.delay = 0
    BY <2>1, WidthAssumption
  <2>2. CASE \E v \in Int : o.delay = U32(v)
    BY <2>2, U32Type, WidthAssumption
  <2> QED BY <1>1, <2>1, <2>2 DEF MeantNumbers
<1>4. o.timeout <= IntMax
  <2>1. CASE o.timeout = 0
    BY <2>1, WidthAssumption
  <2>2. CASE \E v \in Int : o.timeout = U32(v)
    BY <2>2, U32Type, WidthAssumption
  <2> QED BY <1>1, <2>1, <2>2 DEF MeantNumbers
<1> QED BY <1>2, <1>3, <1>4

\* Nothing is said by no argument.
LEMMA NothingMeant ==
    ASSUME argv \in Seq(Words)
    PROVE  Meant(Defaults, 0) /\ Defaults \in OptionsType
<1>1. 1..0 = {}
  OBVIOUS
<1>2. \A flags : Placed(flags, 0) = {}
  BY <1>1 DEF Placed
<1>3. Defaults \in OptionsType
  <2>1. <<>> \in Seq(Words)
    OBVIOUS
  <2> QED BY <2>1 DEF Defaults, OptionsType
<1>4. MeantFlags(0)
  BY <1>1 DEF MeantFlags
<1>5. MeantWords(Defaults, 0)
  BY <1>2 DEF MeantWords, WordAmong, Defaults
<1>6. MeantSwitches(Defaults, 0)
  BY <1>2 DEF MeantSwitches, ByKernel, Defaults
<1>7. MeantNumbers(Defaults, 0)
  BY <1>2 DEF MeantNumbers, Defaults
<1>8. MeantPaths(Defaults, 0)
  <2>1. Len(Defaults.paths) = 0
    BY DEF Defaults
  <2>2. PathsAt([k \in 1..0 |-> 0], Defaults.paths, 0)
    BY <1>1, <2>1 DEF PathsAt
  <2> QED BY <2>2 DEF MeantPaths
<1> QED BY <1>3, <1>4, <1>5, <1>6, <1>7, <1>8 DEF Meant

LEMMA ArgvType ==
    ASSUME argv \in CommandLines
    PROVE  argv \in Seq(Words) /\ Len(argv) \in Nat
<1>1. argv \in Seq(Words)
  BY WordsAssumption
<1> QED BY <1>1

\* A flag that takes a value starts with a dash.
LEMMA ValuedDashed ==
    ASSUME argv \in Seq(Words), NEW k \in 1..Len(argv), argv[k] \in Valued
    PROVE  argv[k] \in Dashed
<1>1. argv[k] \in Words /\ argv[k] \in Flags
  BY FlagKinds
<1> QED BY <1>1, WordsAssumption

LEMMA ParseInvInit == ParseInit => ParseInv
<1> SUFFICES ASSUME ParseInit PROVE ParseInv
  OBVIOUS
<1>1. argv \in CommandLines /\ argv \in Seq(Words) /\ Len(argv) \in Nat
  <2>1. argv \in CommandLines
    BY DEF ParseInit
  <2> QED BY <2>1, ArgvType
<1>2. AtBoundary
  <2>1. i = 1
    BY DEF ParseInit
  <2>2. HasArgument => Role[1] # "value"
    BY <1>1, <2>1, RoleMeans DEF HasArgument
  <2> QED BY <1>1, <2>1, <2>2 DEF AtBoundary
<1>3. Done = 0
  BY DEF ParseInit, Done
<1>4. Meant(opts, Done) /\ opts \in OptionsType
  BY <1>1, <1>3, NothingMeant DEF ParseInit
<1>5. pc = "argv" /\ opts = Defaults
  BY DEF ParseInit
<1>6. opts.n >= 1 /\ opts.delay <= IntMax /\ opts.timeout <= IntMax
  BY <1>4, NumbersInRange
<1> QED BY <1>1, <1>2, <1>4, <1>5, <1>6 DEF ParseInv, Parsed

\* The parser's steps keep it.
LEMMA ParseInvStep ==
    ASSUME ParseInv, ParseStep
    PROVE  ParseInv'
<1>1. argv \in CommandLines /\ argv \in Seq(Words) /\ Len(argv) \in Nat
      /\ opts \in OptionsType
  BY ArgvType DEF ParseInv
<1>2. argv' = argv
  BY DEF ParseStep, TakeSwitch, TakeNumber, TakeWord, TakePath, Refuse, Accept,
         ListName, ListDone, At
<1>3. Role' = Role
  BY <1>2, RoleKept
<1>4. CASE TakeSwitch
  <2>1. AtBoundary /\ HasArgument /\ argv[i] \in Switches /\ pc = "argv"
        /\ pc' = "argv" /\ i' = i + 1 /\ opts' = Switched(opts, argv[i])
        /\ Meant(opts, i - 1)
    BY <1>4 DEF TakeSwitch, At, ParseInv, Done
  <2>2. Meant(opts', i) /\ opts' \in OptionsType
    BY <1>1, <2>1, SwitchMeant
  <2>3. i \in 1..Len(argv) /\ Done' = i
    BY <1>1, <1>2, <2>1 DEF AtBoundary, HasArgument, Done
  <2>4. AtBoundary'
    <3>1. Role[i] = "flag" => argv[i] \notin Valued
      BY <2>1, FlagKinds
    <3>2. i + 1 \in 1..Len(argv) => Role[i + 1] # "value"
      BY <1>1, <2>3, <3>1, RoleMeans
    <3> QED BY <1>1, <1>2, <1>3, <2>1, <2>3, <3>2 DEF AtBoundary, HasArgument
  <2>5. Meant(opts, Done)'
    BY <1>2, <2>2, <2>3, MeantKept
  <2>6. opts'.n >= 1 /\ opts'.delay <= IntMax /\ opts'.timeout <= IntMax
    BY <2>2, NumbersInRange
  <2> QED BY <1>1, <1>2, <2>1, <2>2, <2>4, <2>5, <2>6 DEF ParseInv, Parsed
<1>5. CASE TakeNumber
  <2>1. AtBoundary /\ HasArgument /\ HasValue /\ argv[i] \in NumberFlags
        /\ pc = "argv" /\ pc' = "argv" /\ i' = i + 2
        /\ opts' = Numbered(opts, argv[i], ParseInt(argv[i + 1]))
        /\ ParseInt(argv[i + 1]) >= Least(argv[i]) /\ Meant(opts, i - 1)
    BY <1>5 DEF TakeNumber, At, ParseInv, Done
  <2>2. Meant(opts', i + 1) /\ opts' \in OptionsType
    BY <1>1, <2>1, NumberMeant
  <2>3. i \in 1..Len(argv) /\ i + 1 \in 1..Len(argv) /\ Done' = i + 1
    BY <1>1, <1>2, <2>1 DEF AtBoundary, HasArgument, HasValue, Done
  <2>4. AtBoundary'
    <3>1. Role[i + 1] = "value"
      <4>1. argv[i] \in Dashed /\ argv[i] \in Valued
        BY <1>1, <2>1, <2>3, ValuedDashed DEF Valued
      <4> QED BY <1>1, <2>1, <4>1, ValuePlaced
    <3>2. i + 2 \in 1..Len(argv) => Role[i + 2] # "value"
      BY <1>1, <2>3, <3>1, RoleMeans
    <3> QED BY <1>1, <1>2, <1>3, <2>1, <2>3, <3>2 DEF AtBoundary, HasArgument
  <2>5. Meant(opts, Done)'
    BY <1>2, <2>2, <2>3, MeantKept
  <2>6. opts'.n >= 1 /\ opts'.delay <= IntMax /\ opts'.timeout <= IntMax
    BY <2>2, NumbersInRange
  <2> QED BY <1>1, <1>2, <2>1, <2>2, <2>4, <2>5, <2>6 DEF ParseInv, Parsed
<1>6. CASE TakeWord
  <2>1. AtBoundary /\ HasArgument /\ HasValue /\ argv[i] \in WordFlags
        /\ pc = "argv" /\ pc' = "argv" /\ i' = i + 2
        /\ opts' = Worded(opts, argv[i], argv[i + 1]) /\ Meant(opts, i - 1)
    BY <1>6 DEF TakeWord, At, ParseInv, Done
  <2>2. Meant(opts', i + 1) /\ opts' \in OptionsType
    BY <1>1, <2>1, WordMeant
  <2>3. i \in 1..Len(argv) /\ i + 1 \in 1..Len(argv) /\ Done' = i + 1
    BY <1>1, <1>2, <2>1 DEF AtBoundary, HasArgument, HasValue, Done
  <2>4. AtBoundary'
    <3>1. Role[i + 1] = "value"
      <4>1. argv[i] \in Dashed /\ argv[i] \in Valued
        BY <1>1, <2>1, <2>3, ValuedDashed DEF Valued
      <4> QED BY <1>1, <2>1, <4>1, ValuePlaced
    <3>2. i + 2 \in 1..Len(argv) => Role[i + 2] # "value"
      BY <1>1, <2>3, <3>1, RoleMeans
    <3> QED BY <1>1, <1>2, <1>3, <2>1, <2>3, <3>2 DEF AtBoundary, HasArgument
  <2>5. Meant(opts, Done)'
    BY <1>2, <2>2, <2>3, MeantKept
  <2>6. opts'.n >= 1 /\ opts'.delay <= IntMax /\ opts'.timeout <= IntMax
    BY <2>2, NumbersInRange
  <2> QED BY <1>1, <1>2, <2>1, <2>2, <2>4, <2>5, <2>6 DEF ParseInv, Parsed
<1>7. CASE TakePath
  <2>1. AtBoundary /\ HasArgument /\ argv[i] \notin Dashed /\ pc = "argv"
        /\ pc' = "argv" /\ i' = i + 1
        /\ opts' = [opts EXCEPT !.paths = Append(@, argv[i])]
        /\ Meant(opts, i - 1)
    BY <1>7 DEF TakePath, At, ParseInv, Done
  <2>2. Meant(opts', i) /\ opts' \in OptionsType
    BY <1>1, <2>1, PathMeant
  <2>3. i \in 1..Len(argv) /\ Done' = i
    BY <1>1, <1>2, <2>1 DEF AtBoundary, HasArgument, Done
  <2>4. AtBoundary'
    <3>1. Role[i] = "path"
      BY <1>1, <2>1, PathPlaced
    <3>2. i + 1 \in 1..Len(argv) => Role[i + 1] # "value"
      BY <1>1, <2>3, <3>1, RoleMeans
    <3> QED BY <1>1, <1>2, <1>3, <2>1, <2>3, <3>2 DEF AtBoundary, HasArgument
  <2>5. Meant(opts, Done)'
    BY <1>2, <2>2, <2>3, MeantKept
  <2>6. opts'.n >= 1 /\ opts'.delay <= IntMax /\ opts'.timeout <= IntMax
    BY <2>2, NumbersInRange
  <2> QED BY <1>1, <1>2, <2>1, <2>2, <2>4, <2>5, <2>6 DEF ParseInv, Parsed
<1>8. CASE Refuse
  BY <1>1, <1>2, <1>8 DEF Refuse, ParseInv, Parsed
<1>9. CASE Accept
  <2>1. AtBoundary /\ ~HasArgument /\ pc' = "sink" /\ opts' = opts
        /\ opts.paths # <<>> /\ Meant(opts, i - 1)
    BY <1>9 DEF Accept, At, ParseInv, Done
  <2>2. Done' = Len(argv) /\ i - 1 = Len(argv)
    BY <1>1, <1>2, <2>1 DEF AtBoundary, HasArgument, Done
  <2>3. Meant(opts, Done)'
    BY <1>2, <2>1, <2>2, MeantKept
  <2> QED BY <1>1, <1>2, <2>1, <2>3 DEF ParseInv, Parsed
<1>10. CASE ListName \/ ListDone
  <2>1. pc = "list" /\ pc' \in {"list", "parsed"} /\ opts' = opts
    BY <1>10 DEF ListName, ListDone, At
  <2>2. Meant(opts, Len(argv)) /\ opts.paths # <<>> /\ Done' = Len(argv)
    BY <1>2, <2>1 DEF ParseInv, Done, Parsed
  <2>3. Meant(opts, Done)'
    BY <1>2, <2>1, <2>2, MeantKept
  <2> QED BY <1>1, <1>2, <2>1, <2>2, <2>3 DEF ParseInv, Parsed
<1> QED BY <1>4, <1>5, <1>6, <1>7, <1>8, <1>9, <1>10 DEF ParseStep

\* And every step after the parser, which leaves the options alone.
LEMMA ParseInvKept ==
    ASSUME ParseInv, argv' = argv, opts' = opts, pc # "argv", pc' # "argv",
           pc = "usage" <=> pc' = "usage"
    PROVE  ParseInv'
<1>1. Done = Len(argv) /\ Done' = Len(argv)
  BY DEF Done
<1>2. CASE pc # "usage"
  <2>1. Meant(opts, Done)'
    BY <1>1, <1>2, MeantKept DEF ParseInv
  <2> QED BY <1>2, <2>1 DEF ParseInv, Parsed
<1>3. CASE pc = "usage"
  BY <1>3 DEF ParseInv, Parsed
<1> QED BY <1>2, <1>3

\* A step that changes nothing keeps it too.
LEMMA ParseInvStutter ==
    ASSUME ParseInv, UNCHANGED <<argv, pc, i, opts>>
    PROVE  ParseInv'
<1>1. Role' = Role
  BY RoleKept
<1>2. AtBoundary => AtBoundary'
  BY <1>1 DEF AtBoundary, HasArgument
<1>3. pc # "usage" => Meant(opts, Done)'
  BY MeantKept DEF ParseInv, Done
<1> QED BY <1>2, <1>3 DEF ParseInv, Parsed

-----------------------------------------------------------------------------
(* What follows from it *)

\* An accepted argument vector sets what its flags say (ParsedAsMeant).
LEMMA MeantAsParsed == ParseInv => ParsedAsMeant
<1> SUFFICES ASSUME ParseInv, Parsed PROVE ParsedAsMeant
  BY DEF ParsedAsMeant
<1> DEFINE m == Len(argv)
<1>1. argv \in Seq(Words) /\ m \in Nat /\ DOMAIN argv = 1..m
  <2>1. argv \in Seq(Words) /\ m \in Nat
    BY ArgvType DEF ParseInv
  <2> QED BY <2>1
<1>2. Meant(opts, m) /\ opts.paths # <<>>
  BY DEF ParseInv, Done, Parsed
<1>3. \A flags : /\ Places(flags) = Placed(flags, m)
                 /\ LastPlace(flags) = LastOf(Placed(flags, m))
                 /\ LastWord(flags) = WordAmong(flags, m)
  BY <1>1, PlacesArePlaced
<1>4. \A k \in DOMAIN argv :
         Role[k] = "flag" => /\ argv[k] \in Flags \ HelpFlags
                             /\ argv[k] \in Switches \/ k < Len(argv)
  BY <1>1, <1>2 DEF Meant, MeantFlags
<1>5. \E places \in [1..Len(opts.paths) -> {k \in 1..Len(argv) : Role[k] = "path"}] :
         /\ \A k \in 1..Len(argv) : Role[k] = "path" =>
               \E j \in 1..Len(opts.paths) : places[j] = k
         /\ \A j \in 1..Len(opts.paths) :
               /\ opts.paths[j] = argv[places[j]]
               /\ \A b \in 1..(j - 1) : places[b] < places[j]
  BY <1>2 DEF Meant, MeantPaths, PathsAt
<1> HIDE DEF m
<1>6. /\ opts.csv = LastWord({"-e"})
      /\ opts.pre = LastWord({"--pre"}) /\ opts.post = LastWord({"--post"})
      /\ opts.file = LastWord({"-o"}) /\ opts.metrics = LastWord({"-M"})
      /\ opts.sep = IF Places({"-x"}) = {} THEN NoWord
                    ELSE IF LastWord({"-x"}) = "" THEN ","
                    ELSE First[LastWord({"-x"})]
  BY <1>2, <1>3 DEF Meant, MeantWords
<1>7. /\ opts.detail =
            IF Places({"-d", "-dd", "-ddd"}) = {} THEN 1
            ELSE CASE argv[LastPlace({"-d", "-dd", "-ddd"})] = "-d"   -> 1
                   [] argv[LastPlace({"-d", "-dd", "-ddd"})] = "-dd"  -> 2
                   [] argv[LastPlace({"-d", "-dd", "-ddd"})] = "-ddd" -> 3
      /\ opts.table = (Places({"--table"}) # {})
      /\ opts.verbose = (Places({"-v", "--verbose"}) # {})
      /\ opts.topdown = (Places({"--topdown"}) # {})
  BY <1>2, <1>3 DEF Meant, MeantSwitches, LastAmong
<1> QED BY <1>2, <1>4, <1>5, <1>6, <1>7 DEF ParsedAsMeant

\* The value of a flag that takes one is a word of the argument vector.
LEMMA ValueOfLast ==
    ASSUME argv \in Seq(Words), NEW flags, flags \subseteq Valued,
           MeantFlags(Len(argv)), Placed(flags, Len(argv)) # {}
    PROVE  /\ WordAmong(flags, Len(argv)) \in Words
           /\ LastAmong(flags, Len(argv)) \in flags
<1> DEFINE S == Placed(flags, Len(argv))
           k == LastOf(S)
<1>1. Len(argv) \in Nat
  OBVIOUS
<1>2. S \in SUBSET (1..Len(argv)) /\ S # {}
  BY DEF Placed
<1>3. k \in S
  <2> HIDE DEF S
  <2> QED BY <1>1, <1>2, LastOfInside
<1>4. k \in 1..Len(argv) /\ Role[k] = "flag" /\ argv[k] \in flags
  BY <1>3 DEF Placed
<1> HIDE DEF k, S
<1>5. k < Len(argv)
  <2>1. argv[k] \notin Switches
    BY <1>4, FlagKinds
  <2> QED BY <1>4, <2>1 DEF MeantFlags
<1>6. argv[k + 1] \in Words
  BY <1>1, <1>4, <1>5
<1>7. WordAmong(flags, Len(argv)) = argv[k + 1] /\ LastAmong(flags, Len(argv)) = argv[k]
  BY <1>2 DEF WordAmong, LastAmong, k, S
<1> QED BY <1>4, <1>6, <1>7

\* A number arrives as stated when the type of its option can hold it
\* (NumbersArrive).
LEMMA NumbersMeant == ParseInv => NumbersArrive
<1> SUFFICES ASSUME ParseInv, Parsed,
                    NEW flags \in {{"-n", "-r"}, {"-D"}, {"--timeout"}},
                    Places(flags) # {}
             PROVE  LET v == Stated(LastWord(flags))
                    IN  /\ v < Least(argv[LastPlace(flags)]) => v < -(LongMax + 1)
                        /\ "-n" \in flags /\ v \in 1..LongMax => opts.n = v
                        /\ "-D" \in flags /\ v \in 0..IntMax => opts.delay = v
                        /\ "--timeout" \in flags /\ v \in 0..IntMax =>
                              opts.timeout = v
  BY DEF NumbersArrive
<1> DEFINE m == Len(argv)
           w == WordAmong(flags, m)
           v == Stated(w)
<1>1. argv \in Seq(Words) /\ Meant(opts, m)
  BY ArgvType DEF ParseInv, Done, Parsed
<1>2. /\ Placed(flags, m) # {} /\ LastWord(flags) = w
      /\ argv[LastPlace(flags)] = LastAmong(flags, m)
  BY <1>1, PlacesArePlaced DEF LastAmong
<1>3. flags \subseteq Valued
  BY DEF Valued, NumberFlags
<1>4. w \in Words /\ LastAmong(flags, m) \in flags
  BY <1>1, <1>2, <1>3, ValueOfLast DEF Meant
<1>5. /\ ParseInt(w) \in (-(LongMax + 1))..LongMax /\ v \in Int
      /\ v \in (-(LongMax + 1))..LongMax => ParseInt(w) = v
  BY <1>4, ParsesWhatIsStated
<1> DEFINE least == Least(LastAmong(flags, m))
<1>6. least = (IF flags = {"-n", "-r"} THEN 1 ELSE 0) /\ ParseInt(w) >= least
  <2>1. MeantNumbers(opts, m)
    BY <1>1 DEF Meant
  <2>2. CASE flags = {"-n", "-r"}
    BY <2>1, <2>2, <1>2, <1>4 DEF MeantNumbers, Given, Least
  <2>3. CASE flags = {"-D"}
    BY <2>1, <2>3, <1>2, <1>4 DEF MeantNumbers, Given, Least
  <2>4. CASE flags = {"--timeout"}
    BY <2>1, <2>4, <1>2, <1>4 DEF MeantNumbers, Given, Least
  <2> QED BY <2>2, <2>3, <2>4
<1>7. "-n" \in flags => opts.n = ParseInt(w)
  <2>1. "-n" \in flags => flags = {"-n", "-r"}
    OBVIOUS
  <2> QED BY <1>1, <1>2, <2>1 DEF Meant, MeantNumbers, Given
<1>8. "-D" \in flags => opts.delay = U32(ParseInt(w))
  <2>1. "-D" \in flags => flags = {"-D"}
    OBVIOUS
  <2> QED BY <1>1, <1>2, <2>1 DEF Meant, MeantNumbers, Given
<1>9. "--timeout" \in flags => opts.timeout = U32(ParseInt(w))
  <2>1. "--timeout" \in flags => flags = {"--timeout"}
    OBVIOUS
  <2> QED BY <1>1, <1>2, <2>1 DEF Meant, MeantNumbers, Given
<1> HIDE DEF w, v, least
<1>10. v < least => v < -(LongMax + 1)
  BY <1>5, <1>6, WidthAssumption
<1>11. v \in 1..LongMax => ParseInt(w) = v
  BY <1>5, WidthAssumption
<1>12. v \in 0..IntMax => U32(ParseInt(w)) = v
  <2>1. v \in 0..IntMax => ParseInt(w) = v /\ v \in Int
    BY <1>5, WidthAssumption
  <2> QED BY <2>1, U32Type
<1> QED BY <1>2, <1>7, <1>8, <1>9, <1>10, <1>11, <1>12 DEF v, least

-----------------------------------------------------------------------------
(* The list of events *)

\* A name that the buffer cuts is not a known one, nor empty.
LEMMA BufferedName ==
    ASSUME NEW T, NEW name \in Seq(T)
    PROVE  /\ Buffered(name) \in Seq(T)
           /\ Buffered(name) \in DOMAIN Known <=> name \in DOMAIN Known
           /\ Buffered(name) \in DOMAIN Known => Buffered(name) = name
           /\ Buffered(name) = <<>> <=> name = <<>>
<1>1. Len(name) \in Nat /\ NameMax \in Nat /\ NameMax # 0
  BY NamesAssumption
<1>2. CASE Len(name) < NameMax
  <2>1. Buffered(name) = name
    BY <1>1, <1>2 DEF Buffered
  <2> QED BY <2>1
<1>3. CASE ~(Len(name) < NameMax)
  <2>1. Buffered(name) = SubSeq(name, 1, NameMax)
    BY <1>3 DEF Buffered
  <2>2. Buffered(name) \in Seq(T) /\ Len(Buffered(name)) = NameMax
    BY <1>1, <1>3, <2>1
  <2>3. Buffered(name) \notin DOMAIN Known /\ name \notin DOMAIN Known
    BY <1>1, <1>3, <2>2, NamesAssumption
  <2>4. Buffered(name) # <<>> /\ name # <<>>
    BY <1>1, <1>3, <2>2
  <2> QED BY <2>2, <2>3, <2>4
<1> QED BY <1>2, <1>3

\* The names of -e, and what the first m of them add.
Names == Items[opts.csv]
KnownOf(m) == Kept(SubSeq(Names, 1, m), DOMAIN Known)
Understood(m) ==
    \A k \in 1..m : Names[k] = <<>> \/ Names[k] \in DOMAIN Known
ListedUpTo(m) ==
    /\ events = [k \in DOMAIN KnownOf(m) |-> Known[KnownOf(m)[k]]]
    /\ allOk = Understood(m)

ListInv ==
    /\ events \in Seq({Known[name] : name \in DOMAIN Known}) /\ allOk \in BOOLEAN
    /\ pc \in {"argv", "usage", "sink"} => events = <<>> /\ allOk = TRUE
    /\ pc = "sink" => i = 1
    /\ pc = "list" => /\ opts.csv # NoWord
                      /\ i \in 1..(Len(Names) + 1) /\ ListedUpTo(i - 1)
    /\ Listed => ListedUpTo(Len(Names))

LEMMA NamesType ==
    ASSUME opts \in OptionsType, opts.csv # NoWord
    PROVE  /\ Names \in Seq(ToSet(Names))
           /\ \A k \in DOMAIN Names : Names[k] \in Seq(ToSet(Names[k]))
<1>1. opts.csv \in Words
  BY DEF OptionsType
<1> QED BY <1>1, WordsAssumption DEF Names

LEMMA ListedNothing ==
    ASSUME opts \in OptionsType, opts.csv # NoWord, events = <<>>, allOk = TRUE
    PROVE  ListedUpTo(0)
<1>1. Names \in Seq(ToSet(Names))
  BY NamesType
<1>2. SubSeq(Names, 1, 0) = <<>>
  BY <1>1
<1>3. KnownOf(0) = <<>>
  BY <1>2, KeptNothing DEF KnownOf
<1>4. Understood(0)
  BY DEF Understood
<1>5. events = [k \in DOMAIN KnownOf(0) |-> Known[KnownOf(0)[k]]]
  BY <1>3
<1> QED BY <1>4, <1>5 DEF ListedUpTo

\* One more name.
LEMMA KnownNext ==
    ASSUME opts \in OptionsType, opts.csv # NoWord,
           NEW m \in 1..Len(Names)
    PROVE  /\ KnownOf(m - 1) \in Seq(DOMAIN Known)
           /\ KnownOf(m) = IF Names[m] \in DOMAIN Known
                           THEN Append(KnownOf(m - 1), Names[m])
                           ELSE KnownOf(m - 1)
<1> DEFINE T == ToSet(Names)
           s == SubSeq(Names, 1, m - 1)
<1>1. Names \in Seq(T) /\ m \in Nat
  BY NamesType
<1> HIDE DEF T
<1>2. s \in Seq(T) /\ Names[m] \in T
  BY <1>1
<1>3. SubSeq(Names, 1, m) = Append(s, Names[m])
  BY <1>1
<1> HIDE DEF s
<1>4. Kept(s, DOMAIN Known) \in Seq(T \cap DOMAIN Known)
  BY <1>2, KeptType
<1>5. Kept(s, DOMAIN Known) \in Seq(DOMAIN Known)
  BY <1>4
<1>6. Kept(Append(s, Names[m]), DOMAIN Known) =
          IF Names[m] \in DOMAIN Known
          THEN Append(Kept(s, DOMAIN Known), Names[m])
          ELSE Kept(s, DOMAIN Known)
  BY <1>2, KeptAppend
<1> QED BY <1>3, <1>5, <1>6 DEF KnownOf, s

\* ListName goes through the list.
LEMMA ListNameListed ==
    ASSUME opts \in OptionsType, ListInv, ListName
    PROVE  /\ i' = i + 1 /\ i \in 1..Len(Names) /\ opts.csv # NoWord
           /\ ListedUpTo(i - 1)'
           /\ events' \in Seq({Known[name] : name \in DOMAIN Known})
           /\ allOk' \in BOOLEAN
<1> DEFINE name == Names[i]
           E == {Known[x] : x \in DOMAIN Known}
<1>1. /\ i' = i + 1 /\ opts' = opts /\ opts.csv # NoWord
      /\ ListedUpTo(i - 1) /\ events \in Seq(E) /\ allOk \in BOOLEAN
  BY DEF ListName, At, ListInv
<1>2. Names \in Seq(ToSet(Names)) /\ \A k \in DOMAIN Names : Names[k] \in Seq(ToSet(Names[k]))
  BY <1>1, NamesType
<1>3. i \in 1..Len(Names) /\ i - 1 \in Nat
  BY <1>2 DEF ListName, At, ListInv, Names
<1>4. name \in Seq(ToSet(name))
  BY <1>2, <1>3
<1>5. /\ Buffered(name) \in DOMAIN Known <=> name \in DOMAIN Known
      /\ Buffered(name) \in DOMAIN Known => Buffered(name) = name
      /\ Buffered(name) = <<>> <=> name = <<>>
  <2> HIDE DEF name
  <2> QED BY <1>4, BufferedName
<1>6. /\ events' = IF Buffered(name) \in DOMAIN Known
                   THEN Append(events, Known[Buffered(name)]) ELSE events
      /\ allOk' = (allOk /\ (Buffered(name) = <<>> \/ Buffered(name) \in DOMAIN Known))
  BY DEF ListName, Names
<1>7. /\ events' = IF name \in DOMAIN Known THEN Append(events, Known[name]) ELSE events
      /\ allOk' = (allOk /\ (name = <<>> \/ name \in DOMAIN Known))
  BY <1>5, <1>6
<1>8. Names' = Names
  BY <1>1 DEF Names
<1>9. /\ KnownOf(i - 1) \in Seq(DOMAIN Known)
      /\ KnownOf(i) = IF name \in DOMAIN Known THEN Append(KnownOf(i - 1), name)
                      ELSE KnownOf(i - 1)
  BY <1>1, <1>3, KnownNext
<1> DEFINE before == KnownOf(i - 1)
           after == KnownOf(i)
<1>10. /\ events = [k \in DOMAIN before |-> Known[before[k]]]
       /\ allOk = Understood(i - 1)
  BY <1>1 DEF ListedUpTo
<1>11. events' = [k \in DOMAIN after |-> Known[after[k]]]
  <2> HIDE DEF name, before, after
  <2>1. CASE name \notin DOMAIN Known
    BY <2>1, <1>7, <1>9, <1>10 DEF before, after
  <2>2. CASE name \in DOMAIN Known
    <3>1. before \in Seq(DOMAIN Known) /\ after = Append(before, name)
      BY <2>2, <1>9 DEF before, after
    <3>2. events' = Append(events, Known[name])
      BY <2>2, <1>7
    <3>3. Append([k \in DOMAIN before |-> Known[before[k]]], Known[name])
             = [k \in DOMAIN after |-> Known[after[k]]]
      BY <2>2, <3>1
    <3> QED BY <1>10, <3>2, <3>3
  <2> QED BY <2>1, <2>2
<1>12. allOk' = Understood(i)
  <2>1. 1..i = 1..(i - 1) \cup {i}
    BY <1>3
  <2>2. Understood(i) <=> (Understood(i - 1) /\ (name = <<>> \/ name \in DOMAIN Known))
    <3> HIDE DEF name
    <3>1. (\A k \in 1..(i - 1) : Names[k] = <<>> \/ Names[k] \in DOMAIN Known)
          /\ (name = <<>> \/ name \in DOMAIN Known)
          <=> \A k \in 1..(i - 1) \cup {i} : Names[k] = <<>> \/ Names[k] \in DOMAIN Known
      BY DEF name
    <3> QED BY <2>1, <3>1 DEF Understood
  <2>3. Understood(i) \in BOOLEAN /\ Understood(i - 1) \in BOOLEAN
    BY DEF Understood
  <2> QED BY <2>2, <2>3, <1>7, <1>10
<1>13. ListedUpTo(i - 1)'
  <2>1. i' - 1 = i
    BY <1>1, <1>3
  <2>2. KnownOf(i - 1)' = KnownOf(i) /\ Understood(i - 1)' = Understood(i)
    BY <1>8, <2>1 DEF KnownOf, Understood
  <2> QED BY <1>11, <1>12, <2>2 DEF ListedUpTo
<1>14. events' \in Seq(E)
  <2> HIDE DEF name
  <2>1. name \in DOMAIN Known => Known[name] \in E
    OBVIOUS
  <2> HIDE DEF E
  <2> QED BY <1>1, <1>7, <2>1
<1>15. allOk' \in BOOLEAN
  BY <1>7
<1> QED BY <1>1, <1>3, <1>13, <1>14, <1>15

\* What is listed does not change while its variables do not.
LEMMA ListedKept ==
    ASSUME UNCHANGED <<opts, events, allOk>>, NEW m, ListedUpTo(m)
    PROVE  /\ Names' = Names /\ KnownOf(m)' = KnownOf(m)
           /\ events' = [k \in DOMAIN KnownOf(m) |-> Known[KnownOf(m)[k]]]
           /\ allOk' = Understood(m)
  BY DEF ListedUpTo, Names, KnownOf

LEMMA ListInvInit == ParseInit => ListInv
<1> SUFFICES ASSUME ParseInit PROVE ListInv
  OBVIOUS
<1>1. pc = "argv" /\ events = <<>> /\ allOk = TRUE
  BY DEF ParseInit
<1>2. <<>> \in Seq({Known[name] : name \in DOMAIN Known})
  OBVIOUS
<1> QED BY <1>1, <1>2 DEF ListInv, Listed, Parsed

LEMMA ListInvStep ==
    ASSUME opts \in OptionsType, ListInv, ParseStep
    PROVE  ListInv'
<1> DEFINE E == {Known[x] : x \in DOMAIN Known}
<1>1. events \in Seq(E) /\ allOk \in BOOLEAN
  BY DEF ListInv
<1>2. CASE TakeSwitch \/ TakeNumber \/ TakeWord \/ TakePath \/ Refuse
  <2>1. pc = "argv" /\ pc' \in {"argv", "usage"} /\ UNCHANGED <<events, allOk>>
    BY <1>2 DEF TakeSwitch, TakeNumber, TakeWord, TakePath, Refuse, At
  <2> HIDE DEF E
  <2>2. events' \in Seq(E) /\ events' = <<>> /\ allOk' = TRUE
    BY <1>1, <2>1 DEF ListInv
  <2> QED BY <2>1, <2>2 DEF ListInv, Listed, Parsed, E
<1>3. CASE Accept
  <2>1. pc = "argv" /\ pc' = "sink" /\ i' = 1 /\ UNCHANGED <<events, allOk>>
    BY <1>3 DEF Accept, At
  <2> HIDE DEF E
  <2>2. events' \in Seq(E) /\ events' = <<>> /\ allOk' = TRUE
    BY <1>1, <2>1 DEF ListInv
  <2> QED BY <2>1, <2>2 DEF ListInv, Listed, Parsed, E
<1>4. CASE ListName
  <2>1. pc' = "list" /\ opts' = opts
    BY <1>4 DEF ListName, At
  <2>2. /\ i' = i + 1 /\ i \in 1..Len(Names) /\ opts.csv # NoWord
        /\ ListedUpTo(i - 1)' /\ events' \in Seq(E) /\ allOk' \in BOOLEAN
    BY <1>4, ListNameListed
  <2>3. Len(Names) \in Nat
    BY <2>2, NamesType
  <2>4. i' \in 1..(Len(Names') + 1) /\ opts'.csv # NoWord
    BY <2>1, <2>2, <2>3 DEF Names
  <2> HIDE DEF E
  <2> QED BY <2>1, <2>2, <2>4 DEF ListInv, Listed, E
<1>5. CASE ListDone
  <2>1. /\ pc = "list" /\ pc' = "parsed" /\ UNCHANGED <<opts, events, allOk>>
        /\ i > Len(Names)
    BY <1>5 DEF ListDone, At, Names
  <2>2. opts.csv # NoWord /\ i \in 1..(Len(Names) + 1) /\ ListedUpTo(i - 1)
    BY <2>1 DEF ListInv
  <2>3. Len(Names) \in Nat
    BY <2>2, NamesType
  <2>4. i - 1 = Len(Names)
    BY <2>1, <2>2, <2>3
  <2>5. ListedUpTo(Len(Names))
    BY <2>2, <2>4
  <2>6. ListedUpTo(Len(Names))'
    BY <2>1, <2>5, ListedKept DEF ListedUpTo, Names, KnownOf, Understood
  <2>7. events' \in Seq(E) /\ allOk' \in BOOLEAN
    BY <1>1, <2>1
  <2> HIDE DEF E
  <2> QED BY <2>1, <2>6, <2>7 DEF ListInv, E
<1> QED BY <1>2, <1>3, <1>4, <1>5 DEF ParseStep

\* main opens its output between the parser and the list.
LEMMA ListInvSink ==
    ASSUME opts \in OptionsType, ListInv, pc = "sink",
           pc' = IF opts.csv = NoWord THEN "parsed" ELSE "list",
           UNCHANGED <<i, opts, events, allOk>>
    PROVE  ListInv'
<1> DEFINE E == {Known[x] : x \in DOMAIN Known}
<1>1. events' \in Seq(E) /\ events' = <<>> /\ allOk' = TRUE /\ i' = 1
  BY DEF ListInv
<1>2. CASE opts.csv = NoWord
  <2>1. ~ Listed'
    BY <1>2 DEF Listed
  <2> HIDE DEF E
  <2> QED BY <1>1, <1>2, <2>1 DEF ListInv, E
<1>3. CASE opts.csv # NoWord
  <2>1. ListedUpTo(0) /\ Len(Names) \in Nat
    BY <1>3, ListedNothing, NamesType DEF ListInv
  <2>2. i' - 1 = 0 /\ i' \in 1..(Len(Names') + 1) /\ opts'.csv # NoWord
    BY <1>1, <1>3, <2>1 DEF Names
  <2>3. KnownOf(i - 1)' = KnownOf(0) /\ Understood(i - 1)' = Understood(0)
    BY <2>2 DEF KnownOf, Understood, Names
  <2>4. ListedUpTo(i - 1)'
    BY <2>1, <2>3 DEF ListedUpTo
  <2> HIDE DEF E
  <2> QED BY <1>1, <1>3, <2>2, <2>4 DEF ListInv, Listed, E
<1> QED BY <1>2, <1>3

\* After it the list does not change.
LEMMA ListInvKept ==
    ASSUME ListInv, UNCHANGED <<opts, events, allOk>>,
           pc \notin {"argv", "usage", "sink", "list"},
           pc' \notin {"argv", "usage", "sink", "list"}
    PROVE  ListInv'
<1> DEFINE E == {Known[x] : x \in DOMAIN Known}
<1>1. events' \in Seq(E) /\ allOk' \in BOOLEAN
  BY DEF ListInv
<1>2. Listed' => ListedUpTo(Len(Names))'
  <2>1. Listed' => ListedUpTo(Len(Names))
    BY DEF Listed, Parsed, ListInv
  <2> QED BY <2>1 DEF ListedUpTo, Names, KnownOf, Understood
<1> HIDE DEF E
<1> QED BY <1>1, <1>2 DEF ListInv, E

LEMMA ListInvStutter ==
    ASSUME ListInv, UNCHANGED <<pc, i, opts, events, allOk>>
    PROVE  ListInv'
  BY DEF ListInv, Listed, Parsed, ListedUpTo, Names, KnownOf, Understood

\* The events are those of the known names (ListedEvents).
LEMMA ListedAsNamed ==
    ASSUME opts \in OptionsType, ListInv
    PROVE  ListedEvents
<1> SUFFICES ASSUME Listed PROVE ListedEvents
  BY DEF ListedEvents
<1>1. ListedUpTo(Len(Names)) /\ opts.csv # NoWord
  BY DEF ListInv, Listed
<1>2. Names \in Seq(ToSet(Names))
  BY <1>1, NamesType
<1>3. SubSeq(Names, 1, Len(Names)) = Names /\ DOMAIN Names = 1..Len(Names)
  BY <1>2
<1>4. KnownOf(Len(Names)) = Kept(Names, DOMAIN Known)
  BY <1>3 DEF KnownOf
<1> QED BY <1>1, <1>3, <1>4 DEF ListedUpTo, Understood, ListedEvents, Names

-----------------------------------------------------------------------------
(* The attributes of the counters *)

\* What an attribute owes to the options.
Obeys(attr) ==
    /\ attr \in Attribute /\ attr.disabled /\ attr.enableOnExec
    /\ attr.inherit = opts.inherit /\ attr.pinned = opts.pinned
    /\ opts.exclKernel => ~attr.excludeUser /\ attr.excludeKernel

AttrInv ==
    /\ pc \in {"argv", "usage", "sink", "list", "parsed"} => attrs = <<>>
    /\ \A k \in DOMAIN attrs : Obeys(attrs[k])

\* An attribute keeps its type when a bit is set.
LEMMA AttributeUpdated ==
    ASSUME NEW attr \in Attribute, NEW b \in BOOLEAN
    PROVE  /\ [attr EXCEPT !.disabled = b] \in Attribute
           /\ [attr EXCEPT !.pinned = b] \in Attribute
           /\ [attr EXCEPT !.inherit = b] \in Attribute
           /\ [attr EXCEPT !.enableOnExec = b] \in Attribute
           /\ [attr EXCEPT !.excludeUser = b] \in Attribute
           /\ [attr EXCEPT !.excludeKernel = b] \in Attribute
           /\ [attr EXCEPT !.excludeHv = b] \in Attribute
  BY DEF Attribute

LEMMA AdjustedMeans ==
    ASSUME NEW attr \in Attribute,
           opts.inherit \in BOOLEAN, opts.pinned \in BOOLEAN
    PROVE  LET new == Adjusted(attr, opts.inherit, opts.pinned)
           IN  /\ new \in Attribute
               /\ new.inherit = opts.inherit /\ new.pinned = opts.pinned
               /\ new.enableOnExec
               /\ new.disabled = attr.disabled
               /\ new.excludeUser = attr.excludeUser
               /\ new.excludeKernel = attr.excludeKernel
<1>1. Adjusted(attr, opts.inherit, opts.pinned) \in Attribute
  BY AttributeUpdated DEF Adjusted
<1> QED BY <1>1 DEF Adjusted, Attribute

LEMMA ConfiguredObeys ==
    ASSUME opts \in OptionsType
    PROVE  /\ \A type : Obeys(Adjusted(KernelClock("userland", type),
                                       opts.inherit, opts.pinned))
           /\ Obeys(Adjusted(Dynamic(opts.exclKernel), opts.inherit, opts.pinned))
<1>1. opts.inherit \in BOOLEAN /\ opts.pinned \in BOOLEAN /\ opts.exclKernel \in BOOLEAN
  BY DEF OptionsType
<1>2. Zeroed \in Attribute
  BY DEF Zeroed, Attribute
<1>3. ASSUME NEW attr \in Attribute, attr.disabled, ~attr.excludeUser,
             opts.exclKernel => attr.excludeKernel
      PROVE  Obeys(Adjusted(attr, opts.inherit, opts.pinned))
  <2> DEFINE new == Adjusted(attr, opts.inherit, opts.pinned)
  <2>1. /\ new \in Attribute
        /\ new.inherit = opts.inherit /\ new.pinned = opts.pinned
        /\ new.enableOnExec /\ new.disabled = attr.disabled
        /\ new.excludeUser = attr.excludeUser
        /\ new.excludeKernel = attr.excludeKernel
    BY <1>1, AdjustedMeans
  <2> HIDE DEF new
  <2>2. Obeys(new)
    BY <1>3, <2>1 DEF Obeys
  <2> QED BY <2>2 DEF new
<1>4. ASSUME NEW type
      PROVE  Obeys(Adjusted(KernelClock("userland", type), opts.inherit, opts.pinned))
  <2> DEFINE attr == KernelClock("userland", type)
  <2>1. attr \in Attribute
    <3>1. /\ ("userland" \in {"kernelland", "vmland"}) = FALSE
          /\ ("userland" \in {"userland", "vmland"}) = TRUE
          /\ ("userland" \in {"userland", "kernelland"}
                \/ ("userland" = "everyland" /\ type # "hardware")) = TRUE
      OBVIOUS
    <3>2. attr = [Zeroed EXCEPT !.disabled = TRUE, !.pinned = TRUE,
                                !.excludeUser = FALSE, !.excludeKernel = TRUE,
                                !.excludeHv = TRUE]
      BY <3>1, Zenon DEF KernelClock
    <3> HIDE DEF attr
    <3> QED BY <1>2, <3>2, AttributeUpdated
  <2>2. attr.disabled /\ ~attr.excludeUser /\ attr.excludeKernel
    BY DEF KernelClock, Zeroed
  <2> HIDE DEF attr
  <2> QED BY <1>3, <2>1, <2>2 DEF attr
<1>5. Obeys(Adjusted(Dynamic(opts.exclKernel), opts.inherit, opts.pinned))
  <2> DEFINE attr == Dynamic(opts.exclKernel)
  <2>1. attr \in Attribute
    BY <1>1, <1>2, AttributeUpdated DEF Dynamic
  <2>2. attr.disabled /\ ~attr.excludeUser /\ attr.excludeKernel = opts.exclKernel
    BY DEF Dynamic, Zeroed
  <2> HIDE DEF attr
  <2> QED BY <1>3, <2>1, <2>2 DEF attr
<1> QED BY <1>4, <1>5

LEMMA AttrInvConfigured ==
    ASSUME opts \in OptionsType, AttrInv, Configure
    PROVE  AttrInv'
<1>1. pc' \in {"measure", "dynamic"} /\ opts' = opts
  BY DEF Configure, RunLoop
<1>2. ASSUME NEW k \in DOMAIN attrs' PROVE Obeys(attrs'[k])
  <2>1. CASE opts.csv = NoWord
    <3>1. attrs' = [m \in DOMAIN Group(opts.detail) |->
                      Adjusted(KernelClock("userland", TypeOf(Group(opts.detail)[m])),
                               opts.inherit, opts.pinned)]
      BY <2>1 DEF Configure
    <3>2. attrs'[k] = Adjusted(KernelClock("userland", TypeOf(Group(opts.detail)[k])),
                               opts.inherit, opts.pinned)
      BY <1>2, <3>1
    <3> QED BY <3>2, ConfiguredObeys
  <2>2. CASE opts.csv # NoWord
    <3>1. attrs' = [m \in DOMAIN events |->
                      Adjusted(Dynamic(opts.exclKernel), opts.inherit, opts.pinned)]
      BY <2>2 DEF Configure
    <3>2. attrs'[k] = Adjusted(Dynamic(opts.exclKernel), opts.inherit, opts.pinned)
      BY <1>2, <3>1
    <3> QED BY <3>2, ConfiguredObeys
  <2> QED BY <2>1, <2>2
<1> QED BY <1>1, <1>2 DEF AttrInv, Obeys

\* The options are not touched once the attributes are set.
LEMMA AttrInvKept ==
    ASSUME AttrInv, attrs' = attrs,
           \/ UNCHANGED <<pc, opts>>
           \/ pc \in {"argv", "usage", "sink", "list"}
           \/ opts' = opts /\ pc' \notin {"argv", "usage", "sink", "list", "parsed"}
    PROVE  AttrInv'
<1>1. CASE UNCHANGED <<pc, opts>>
  BY <1>1 DEF AttrInv, Obeys
<1>2. CASE pc \in {"argv", "usage", "sink", "list"}
  <2>1. attrs' = <<>>
    BY <1>2 DEF AttrInv
  <2> QED BY <2>1 DEF AttrInv
<1>3. CASE opts' = opts /\ pc' \notin {"argv", "usage", "sink", "list", "parsed"}
  BY <1>3 DEF AttrInv, Obeys
<1> QED BY <1>1, <1>2, <1>3

\* Every counter is set as the flags ask (CountersAsAsked).
LEMMA CountersFollow ==
    ASSUME ParseInv, AttrInv
    PROVE  CountersAsAsked
<1> SUFFICES ASSUME NEW k \in DOMAIN attrs
             PROVE  /\ attrs[k].disabled /\ attrs[k].enableOnExec
                    /\ attrs[k].inherit = (Places({"--no-inherit"}) = {})
                    /\ attrs[k].pinned = (Places({"--pinned"}) # {})
                    /\ \/ Places(Rings) # {} /\ argv[LastPlace(Rings)] = "--all-kernel"
                       \/ ~attrs[k].excludeUser /\ attrs[k].excludeKernel
  BY DEF CountersAsAsked
<1>1. pc \notin {"argv", "usage"}
  BY DEF AttrInv
<1>2. MeantSwitches(opts, Len(argv)) /\ argv \in Seq(Words)
  BY <1>1, ArgvType DEF ParseInv, Done, Meant
<1>3. /\ Places({"--no-inherit"}) = Placed({"--no-inherit"}, Len(argv))
      /\ Places({"--pinned"}) = Placed({"--pinned"}, Len(argv))
      /\ Places(Rings) = Placed(Rings, Len(argv))
      /\ argv[LastPlace(Rings)] = LastAmong(Rings, Len(argv))
  BY <1>2, PlacesArePlaced DEF LastAmong
<1>4. Obeys(attrs[k])
  BY DEF AttrInv
<1>5. /\ opts.inherit = (Places({"--no-inherit"}) = {})
      /\ opts.pinned = (Places({"--pinned"}) # {})
      /\ opts.exclKernel =
            ~ (Places(Rings) # {} /\ argv[LastPlace(Rings)] = "--all-kernel")
  BY <1>2, <1>3 DEF MeantSwitches, ByKernel
<1> QED BY <1>4, <1>5 DEF Obeys

\* The setup has its types.
LEMMA SetupTyped ==
    ASSUME ParseInv, ListInv, AttrInv
    PROVE  SetupTypeOK
<1>1. \A k \in DOMAIN attrs : attrs[k] \in Attribute
  BY DEF AttrInv, Obeys
<1> QED BY <1>1 DEF SetupTypeOK, ParseInv, ListInv
=============================================================================
