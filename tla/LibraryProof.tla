---------------------------- MODULE LibraryProof ----------------------------
(***************************************************************************)
(* Proofs about the parts of the library that a program uses side by side, *)
(* and about Library, which composes them, for any counters, registers and *)
(* pace, any length of a second, settings of the realtime clock and number *)
(* of calls, and any words and bounds.                                     *)
(*                                                                         *)
(* Neither property of the counters is inductive: what a counter will read *)
(* depends on whether it is asked to count now, and on what it had when it *)
(* was opened.  The invariant of the clocks ties each timespec an object   *)
(* holds to the moment it was read.  In Library the parts do not disturb   *)
(* one another, so that what holds of each alone holds of a program that   *)
(* uses it, and btime's runs keep the clocks' invariant although each ends *)
(* with its clock's object.  What cargs leaves in its table and btime      *)
(* makes of its command line are functions of the argument vector, and of  *)
(* how much of it was read.                                                *)
(***************************************************************************)
EXTENDS Library, SequenceTheorems, FoldLemmas

-----------------------------------------------------------------------------
(* Counters (Pmu). *)

\* A closed counter has counted nothing and is asked nothing; one that was
\* never begun has no time.
FreshInv ==
    \A c \in Counters :
        /\ state[c] = "closed" =>
              /\ ~asked[c] /\ begun[c] = 0
              /\ value[c] = 0 /\ truth[c] = 0
        /\ begun[c] = 0 => te[c] = 0 /\ tr[c] = 0
        /\ begun[c] = 0 => state[c] \in {"closed", "off"}

\* A pinned counter that is not in the error state has been on its register
\* since it was begun.
PinnedInv ==
    pinned => \A c \in Counters :
        /\ tr[c] = te[c]
        /\ state[c] \in {"off", "on"} =>
              value[c] = truth[c] /\ (asked[c] <=> state[c] = "on")

\* Before any time was counted the first use has no pace; afterwards each slice
\* that ran added a rate between the two.
PaceInv ==
    \A c \in Counters :
        /\ tr[c] <= te[c]
        /\ begun[c] = 1 /\ state[c] \in {"off", "on"} =>
              /\ te[c] = 0 => value[c] = 0
              /\ slow[c] * tr[c] <= value[c] /\ value[c] <= fast[c] * tr[c]

PmuInv == PmuTypeOK /\ FreshInv /\ PinnedInv /\ PaceInv

-----------------------------------------------------------------------------
(* Arithmetic. *)

\* What the quotient of two numbers is.
LEMMA DivBounds ==
    ASSUME NEW n \in Nat, NEW d \in Nat, d > 0
    PROVE  /\ n \div d \in Nat
           /\ (n \div d) * d <= n
           /\ n < ((n \div d) + 1) * d
  BY Z3

\* Multiplication by a number keeps the order.
LEMMA MulMono ==
    ASSUME NEW a \in Nat, NEW b \in Nat, NEW d \in Nat, a <= b
    PROVE  /\ a * d \in Nat /\ b * d \in Nat
           /\ a * d <= b * d /\ d * a <= d * b
  BY Z3

\* A quotient lies above every number whose product does, and below likewise.
LEMMA DivBetween ==
    ASSUME NEW n \in Nat, NEW d \in Nat, d > 0, NEW m \in Nat
    PROVE  /\ m * d <= n => m <= n \div d
           /\ n <= m * d => n \div d <= m
<1> DEFINE q == n \div d
<1>1. q \in Nat /\ q * d <= n /\ n < (q + 1) * d
  BY DivBounds
<1>2. ASSUME m * d <= n, ~(m <= q) PROVE FALSE
  <2>1. (q + 1) * d <= m * d
    BY <1>1, <1>2, MulMono
  <2> QED BY <1>1, <1>2, <2>1
<1>3. ASSUME n <= m * d, ~(q <= m) PROVE FALSE
  <2>1. (m + 1) * d <= q * d
    BY <1>1, <1>3, MulMono
  <2>2. (m + 1) * d = m * d + d
    OBVIOUS
  <2>3. m * d \in Nat /\ q * d \in Nat
    BY <1>1
  <2> QED BY <1>1, <1>3, <2>1, <2>2, <2>3
<1> QED BY <1>2, <1>3

-----------------------------------------------------------------------------
(* The steps. *)

LEMMA PmuInitInv == ASSUME PmuInit PROVE PmuInv
<1>1. PmuTypeOK
  <2>1. te \in [Counters -> 0..slices] /\ tr \in [Counters -> 0..slices]
    BY DEF PmuInit
  <2>2. slices \in 0..MaxSlices /\ begun \in [Counters -> 0..MaxBegins]
    BY PmuAssumption DEF PmuInit
  <2>3. /\ value \in [Counters -> Nat] /\ truth \in [Counters -> Nat]
        /\ slow \in [Counters -> Nat] /\ fast \in [Counters -> Nat]
    BY DEF PmuInit
  <2> QED BY <2>1, <2>2, <2>3 DEF PmuInit, PmuTypeOK
<1>2. FreshInv /\ PinnedInv
  BY DEF PmuInit, FreshInv, PinnedInv
<1>3. PaceInv
  BY DEF PmuInit, PaceInv
<1> QED BY <1>1, <1>2, <1>3 DEF PmuInv

LEMMA OpenInv ==
    ASSUME PmuInv, NEW p \in BOOLEAN, NEW s \in BOOLEAN, PmuOpen(p, s)
    PROVE  PmuInv'
<1> USE DEF PmuInv, PmuOpen, attrVars, countVars, historyVars
<1>1. PmuTypeOK'
  BY DEF PmuTypeOK
<1>2. FreshInv'
  BY DEF PmuTypeOK, FreshInv
<1>3. PinnedInv'
  BY DEF PmuTypeOK, FreshInv, PinnedInv
<1>4. PaceInv'
  BY DEF PmuTypeOK, FreshInv, PaceInv
<1> QED BY <1>1, <1>2, <1>3, <1>4

LEMMA BeginInv ==
    ASSUME PmuInv, NEW c \in Counters, PmuBegin(c)
    PROVE  PmuInv'
<1> USE DEF PmuInv, PmuBegin, attrVars, countVars, historyVars
<1>1. PmuTypeOK'
  BY PmuAssumption DEF PmuTypeOK
<1>2. FreshInv'
  BY DEF PmuTypeOK, FreshInv
<1>3. PinnedInv'
  BY DEF PmuTypeOK, FreshInv, PinnedInv
<1>4. PaceInv'
  <2> SUFFICES ASSUME NEW b \in Counters
               PROVE  /\ tr[b] <= te[b]
                      /\ begun'[b] = 1 /\ state'[b] \in {"off", "on"} =>
                            /\ te[b] = 0 => value'[b] = 0
                            /\ slow'[b] * tr[b] <= value'[b]
                            /\ value'[b] <= fast'[b] * tr[b]
    BY DEF PaceInv
  <2>1. CASE b # c
    BY <2>1 DEF PmuTypeOK, PaceInv
  <2>2. CASE b = c
    BY <2>2 DEF PmuTypeOK, FreshInv, PaceInv
  <2> QED BY <2>1, <2>2
<1> QED BY <1>1, <1>2, <1>3, <1>4

LEMMA EndInv ==
    ASSUME PmuInv, NEW c \in Counters, PmuEnd(c)
    PROVE  PmuInv'
<1> USE DEF PmuInv, PmuEnd, attrVars, countVars, historyVars
<1>1. PmuTypeOK'
  BY DEF PmuTypeOK
<1>2. FreshInv'
  BY DEF PmuTypeOK, FreshInv
<1>3. PinnedInv'
  BY DEF PmuTypeOK, FreshInv, PinnedInv
<1>4. PaceInv'
  BY DEF PmuTypeOK, PaceInv
<1> QED BY <1>1, <1>2, <1>3, <1>4

LEMMA SliceInv ==
    ASSUME PmuInv, NEW rate \in Rates, NEW taken \in 0..Registers,
           NEW running \in Shared(taken), Slice(rate, running)
    PROVE  PmuInv'
<1> USE DEF PmuInv
<1> DEFINE counted == IF pinned THEN running ELSE Enabled
<1>0. /\ rate \in Nat /\ running \subseteq counted
      /\ counted \subseteq Enabled /\ counted \subseteq Counters
  BY PmuAssumption DEF Shared, Enabled
<1>1. PmuTypeOK'
  BY <1>0, PmuAssumption DEF PmuTypeOK, Slice, attrVars
<1>2. FreshInv'
  BY <1>0 DEF PmuTypeOK, FreshInv, Slice, attrVars, Enabled
<1>3. PinnedInv'
  BY <1>0 DEF PmuTypeOK, FreshInv, PinnedInv, Slice, attrVars, Enabled
<1>4. PaceInv'
  <2> SUFFICES ASSUME NEW c \in Counters
               PROVE  /\ tr'[c] <= te'[c]
                      /\ begun[c] = 1 /\ state'[c] \in {"off", "on"} =>
                            /\ te'[c] = 0 => value'[c] = 0
                            /\ slow'[c] * tr'[c] <= value'[c]
                            /\ value'[c] <= fast'[c] * tr'[c]
    BY DEF PaceInv, Slice, attrVars
  <2>1. /\ tr[c] \in Nat /\ te[c] \in Nat /\ value[c] \in Nat
        /\ slow[c] \in Nat /\ fast[c] \in Nat /\ tr[c] <= te[c]
    BY DEF PmuTypeOK, PaceInv
  <2>2. /\ tr'[c] = IF c \in running THEN tr[c] + 1 ELSE tr[c]
        /\ te'[c] = IF c \in counted THEN te[c] + 1 ELSE te[c]
        /\ value'[c] = IF c \in running THEN value[c] + rate ELSE value[c]
    BY DEF Slice
  <2>3. tr'[c] <= te'[c]
    BY <1>0, <2>1, <2>2
  <2>4. ASSUME begun[c] = 1, state'[c] \in {"off", "on"}, c \notin counted
        PROVE  /\ te'[c] = 0 => value'[c] = 0
               /\ slow'[c] * tr'[c] <= value'[c]
               /\ value'[c] <= fast'[c] * tr'[c]
    <3>1. slow'[c] = slow[c] /\ fast'[c] = fast[c]
      BY <2>4 DEF Slice
    <3>2. state[c] \in {"off", "on"}
      BY <2>4 DEF Slice, PmuTypeOK
    <3> QED BY <1>0, <2>2, <2>4, <3>1, <3>2 DEF PaceInv
  <2>5. ASSUME begun[c] = 1, c \in counted
        PROVE  /\ te'[c] = 0 => value'[c] = 0
               /\ slow'[c] * tr'[c] <= value'[c]
               /\ value'[c] <= fast'[c] * tr'[c]
    <3>1. /\ slow'[c] = IF te[c] = 0 \/ rate < slow[c] THEN rate ELSE slow[c]
          /\ fast'[c] = IF rate > fast[c] THEN rate ELSE fast[c]
      BY <2>5 DEF Slice
    <3>2. /\ te[c] = 0 => value[c] = 0
          /\ slow[c] * tr[c] <= value[c] /\ value[c] <= fast[c] * tr[c]
      BY <1>0, <2>5 DEF PaceInv, Enabled
    <3>3. /\ slow'[c] \in Nat /\ fast'[c] \in Nat
          /\ slow'[c] <= rate /\ rate <= fast'[c] /\ fast[c] <= fast'[c]
          /\ te[c] = 0 \/ slow'[c] <= slow[c]
      BY <1>0, <2>1, <3>1
    <3>4. slow'[c] * tr[c] <= value[c] /\ value[c] <= fast'[c] * tr[c]
      <4>1. fast[c] * tr[c] <= fast'[c] * tr[c]
        BY <2>1, <3>3, MulMono
      <4>2. slow[c] * tr[c] \in Nat /\ fast[c] * tr[c] \in Nat
            /\ slow'[c] * tr[c] \in Nat /\ fast'[c] * tr[c] \in Nat
        BY <2>1, <3>3, MulMono
      <4>3. CASE te[c] = 0
        <5>1. tr[c] = 0
          BY <2>1, <4>3
        <5> QED BY <2>1, <3>2, <3>3, <4>3, <5>1
      <4>4. CASE slow'[c] <= slow[c]
        <5>1. slow'[c] * tr[c] <= slow[c] * tr[c]
          BY <2>1, <3>3, <4>4, MulMono
        <5> QED BY <2>1, <3>2, <4>1, <4>2, <5>1
      <4> QED BY <3>3, <4>3, <4>4
    <3>5. /\ slow'[c] * (tr[c] + 1) = slow'[c] * tr[c] + slow'[c]
          /\ fast'[c] * (tr[c] + 1) = fast'[c] * tr[c] + fast'[c]
          /\ slow'[c] * tr[c] \in Nat /\ fast'[c] * tr[c] \in Nat
      BY <2>1, <3>3
    <3>6. te'[c] # 0
      BY <2>1, <2>2, <2>5
    <3>7. CASE c \in running
      <4>1. tr'[c] = tr[c] + 1 /\ value'[c] = value[c] + rate
        BY <2>2, <3>7
      <4>2. /\ slow'[c] * tr'[c] = slow'[c] * tr[c] + slow'[c]
            /\ fast'[c] * tr'[c] = fast'[c] * tr[c] + fast'[c]
        BY <3>5, <4>1
      <4>3. slow'[c] * tr'[c] <= value'[c]
        BY <1>0, <2>1, <3>3, <3>4, <3>5, <4>1, <4>2
      <4>4. value'[c] <= fast'[c] * tr'[c]
        BY <1>0, <2>1, <3>3, <3>4, <3>5, <4>1, <4>2
      <4> QED BY <3>6, <4>3, <4>4
    <3>8. CASE c \notin running
      BY <2>1, <2>2, <3>4, <3>6, <3>8
    <3> QED BY <3>7, <3>8
  <2> QED BY <2>3, <2>4, <2>5
<1> QED BY <1>1, <1>2, <1>3, <1>4

LEMMA PmuStep == ASSUME PmuInv, [PmuNext]_pmuVars PROVE PmuInv'
<1>1. CASE UNCHANGED pmuVars
  BY <1>1 DEF PmuInv, PmuTypeOK, FreshInv, PinnedInv, PaceInv, pmuVars
<1>2. CASE PmuNext
  BY <1>2, OpenInv, BeginInv, EndInv, SliceInv DEF PmuNext
<1> QED BY <1>1, <1>2

-----------------------------------------------------------------------------
(* What the readings are. *)

\* What may be left of a scaled count: not less than the count, one less than
\* the exact quotient at most, and no more than the product rounded up.
LEMMA ScaledBetween ==
    ASSUME NEW v \in Nat, NEW e \in Nat, NEW r \in Nat, 0 < r, r <= e,
           NEW n \in Scaled(v, e, r)
    PROVE  /\ n \in Int /\ n >= v
           /\ \A m \in Nat : m * r <= v * e => m - 1 <= n
           /\ \A m \in Nat : v * e <= m * r => n <= m
<1> DEFINE q == (v * e) \div r
<1>1. v * e \in Nat
  OBVIOUS
<1>2. q \in Nat
  BY <1>1, DivBounds
<1>3. n \in (q - 1)..(q + 1) /\ n >= v /\ n * r < v * e + r
  BY DEF Scaled
<1>4. n \in Nat
  BY <1>2, <1>3
<1>5. ASSUME NEW m \in Nat, m * r <= v * e PROVE m - 1 <= n
  <2>1. m <= q
    BY <1>1, <1>5, DivBetween
  <2> HIDE DEF q
  <2> QED BY <1>2, <1>3, <1>4, <2>1
<1>6. ASSUME NEW m \in Nat, v * e <= m * r, ~(n <= m) PROVE FALSE
  <2>1. (m + 1) * r <= n * r
    BY <1>4, <1>6, MulMono
  <2>2. (m + 1) * r = m * r + r /\ m * r \in Nat /\ n * r \in Nat
    BY <1>4
  <2> DEFINE p == v * e  low == m * r  high == n * r
  <2>3. p \in Nat /\ low \in Nat /\ high \in Nat
    BY <1>1, <2>2
  <2>4. low + r <= high /\ high < p + r /\ p <= low
    BY <1>3, <1>6, <2>1, <2>2
  <2> HIDE DEF p, low, high
  <2> QED BY <2>3, <2>4
<1> QED BY <1>3, <1>4, <1>5, <1>6

\* The invariant says what a pinned counter reads.
LEMMA PinnedReads == ASSUME PmuInv PROVE PinnedAllOrNothing
<1> SUFFICES ASSUME pinned, NEW c \in Counters
             PROVE  Retrieve(c) \subseteq {0, truth[c]}
  BY DEF PinnedAllOrNothing
<1>1. tr[c] = te[c] /\ (state[c] \in {"off", "on"} => value[c] = truth[c])
  BY DEF PmuInv, PinnedInv
<1>2. state[c] \in {"closed", "off", "on", "error"}
  BY DEF PmuInv, PmuTypeOK
<1> QED BY <1>1, <1>2 DEF Retrieve, ReadTriplet

\* ... and what one in rotation does.
LEMMA BracketReads == ASSUME PmuInv PROVE ReadingBracketed
<1> SUFFICES ASSUME NEW c \in Counters, state[c] \in {"off", "on"}
             PROVE  /\ tr[c] <= te[c]
                    /\ \A n \in Retrieve(c) :
                          /\ n >= (IF tr[c] = 0 THEN 0 ELSE value[c])
                          /\ (begun[c] = 1 /\ tr[c] > 0) =>
                                slow[c] * te[c] - 1 <= n /\ n <= fast[c] * te[c]
  BY DEF ReadingBracketed
<1>1. /\ tr[c] \in Nat /\ te[c] \in Nat /\ value[c] \in Nat
      /\ slow[c] \in Nat /\ fast[c] \in Nat /\ tr[c] <= te[c]
  BY DEF PmuInv, PmuTypeOK, PaceInv
<1>2. begun[c] = 1 => /\ slow[c] * tr[c] <= value[c]
                      /\ value[c] <= fast[c] * tr[c]
  BY DEF PmuInv, PaceInv
<1>3. Retrieve(c) = IF tr[c] = 0 THEN {0}
                    ELSE IF tr[c] = te[c] THEN {value[c]}
                    ELSE Scaled(value[c], te[c], tr[c])
  BY DEF Retrieve, ReadTriplet
<1>4. CASE tr[c] = 0
  BY <1>1, <1>3, <1>4
<1>5. CASE tr[c] > 0 /\ tr[c] = te[c]
  <2>1. Retrieve(c) = {value[c]}
    BY <1>3, <1>5
  <2>2. slow[c] * te[c] = slow[c] * tr[c] /\ fast[c] * te[c] = fast[c] * tr[c]
    BY <1>5
  <2>3. slow[c] * tr[c] \in Nat /\ fast[c] * tr[c] \in Nat
    BY <1>1
  <2> QED BY <1>1, <1>2, <1>5, <2>1, <2>2, <2>3
<1>6. CASE tr[c] > 0 /\ tr[c] # te[c]
  <2> DEFINE v == value[c]  e == te[c]  r == tr[c]  s == slow[c]  f == fast[c]
  <2>1. Retrieve(c) = Scaled(v, e, r)
    BY <1>3, <1>6
  <2>2. /\ v \in Nat /\ e \in Nat /\ r \in Nat /\ s \in Nat /\ f \in Nat
        /\ 0 < r /\ r <= e
    BY <1>1, <1>6
  <2>3. begun[c] = 1 => s * r <= v /\ v <= f * r
    BY <1>2
  <2>4. SUFFICES ASSUME NEW n \in Scaled(v, e, r)
                 PROVE  /\ n >= v
                        /\ begun[c] = 1 => s * e - 1 <= n /\ n <= f * e
    BY <1>1, <1>6, <2>1
  <2> HIDE DEF v, e, r, s, f
  <2>5. /\ n >= v
        /\ \A m \in Nat : m * r <= v * e => m - 1 <= n
        /\ \A m \in Nat : v * e <= m * r => n <= m
    BY <2>2, ScaledBetween
  <2>6. ASSUME begun[c] = 1 PROVE s * e - 1 <= n /\ n <= f * e
    <3>1. s * e \in Nat /\ f * e \in Nat /\ s * r \in Nat /\ f * r \in Nat
      BY <2>2
    <3> DEFINE low == s * r  high == f * r
    <3>2. low * e <= v * e /\ v * e <= high * e
      <4>1. low \in Nat /\ high \in Nat /\ low <= v /\ v <= high
        BY <2>3, <2>6, <3>1
      <4> HIDE DEF low, high
      <4> QED BY <2>2, <4>1, MulMono
    <3>3. (s * e) * r = (s * r) * e /\ (f * e) * r = (f * r) * e
      BY <2>2
    <3>4. (s * e) * r <= v * e /\ v * e <= (f * e) * r
      BY <3>2, <3>3
    <3> QED BY <2>5, <3>1, <3>4
  <2> QED BY <2>5, <2>6
<1> QED BY <1>1, <1>4, <1>5, <1>6

\* Every step of the counters and of the kernel's rotation keeps the
\* invariant (start, stop, set_pinned).
THEOREM PmuInvariance == PmuSpec => []PmuInv
<1>1. PmuInit => PmuInv
  BY PmuInitInv
<1>2. PmuInv /\ [PmuNext]_pmuVars => PmuInv'
  BY PmuStep
<1> QED BY <1>1, <1>2, PTL DEF PmuSpec

\* A pinned counter reads everything or nothing, for any group, processor and
\* program (kernel_clock::read of a pinned event).
THEOREM PinnedAllOrNothingHolds == PmuSpec => []PinnedAllOrNothing
  BY PmuInvariance, PinnedReads, PTL

\* A scaled reading lies between the slowest pace, less one, and the fastest,
\* and never below the count (kernel_clock::read, dynamic_event::retrieve).
THEOREM ReadingBracketedHolds == PmuSpec => []ReadingBracketed
  BY PmuInvariance, BracketReads, PTL

-----------------------------------------------------------------------------
(* Clocks (Clocks). *)

\* What a clock shows at a moment at which the realtime clock is off by o.
Shown(clock, t, o) == Stamp(IF clock = "realtime" THEN t + o ELSE t)

HistoryInv ==
    /\ now \in Nat /\ offset \in Int /\ set \in Nat
    /\ set = 0 => offset = 0
    /\ beganAt \in [time : Nat \cup {Never}, offset : Int]
    /\ lappedAt \in Nat \cup {Never}
    /\ set = 0 => beganAt.offset = 0

\* Each result has its span, and a call under way began when timeBegin says.
TimedInv ==
    /\ results \in Seq(Int)
    /\ spans \in Seq([took : Int, setBy : Int])
    /\ Len(spans) = Len(results)
    /\ tpc \in {"idle", "watch"} => Len(results) = 0
    /\ tpc = "idle" => beganAt.time = Never
    /\ tpc \in {"begin", "call"} => Len(results) < calls
    /\ tpc = "done" => Len(results) > 0
    /\ tpc = "call" =>
          /\ beganAt.time # Never
          /\ timeBegin = Shown(kind, beganAt.time, beganAt.offset)

\* The stopwatch's start and last are the moments of the latest begin and lap,
\* as long as its clock was not set.
WatchInv ==
    /\ tpc # "watch" => ~lapped
    /\ lapped <=> lappedAt # Never
    /\ (tpc = "watch" /\ (kind = "realtime" => set = 0)) =>
          /\ beganAt.time # Never => start = Stamp(beganAt.time)
          /\ lapped => last = Stamp(lappedAt)

ClocksInv ==
    ClocksTypeOK /\ HistoryInv /\ TimedInv /\ WatchInv /\ ErrorIsTheSetting

-----------------------------------------------------------------------------
(* Timespecs. *)

LEMMA StampType ==
    ASSUME NEW a \in Int
    PROVE  Stamp(a).sec \in Int /\ Stamp(a).nsec \in 0..(Billion - 1)
<1>1. Billion \in Nat \ {0}
  BY ClocksAssumption
<1>2. a \div Billion \in Int /\ a % Billion \in 0..(Billion - 1)
  BY <1>1, Z3
<1> QED BY <1>2 DEF Stamp

\* The difference of two timespecs, member by member, is the time between.
LEMMA StampDifference ==
    ASSUME NEW a \in Int, NEW b \in Int
    PROVE  Difference(Stamp(a), Stamp(b)) = a - b
<1>1. Billion \in Nat \ {0}
  BY ClocksAssumption
<1>2. \A t \in Int : /\ t \div Billion \in Int /\ t % Billion \in 0..(Billion - 1)
                     /\ t = (t \div Billion) * Billion + (t % Billion)
  BY <1>1, Z3
<1>3. /\ Stamp(a) = [sec |-> a \div Billion, nsec |-> a % Billion]
      /\ Stamp(b) = [sec |-> b \div Billion, nsec |-> b % Billion]
  BY DEF Stamp
<1>4. ((a \div Billion) - (b \div Billion)) * Billion
        = (a \div Billion) * Billion - (b \div Billion) * Billion
  BY <1>1, <1>2
<1>5. Difference(Stamp(a), Stamp(b))
        = ((a \div Billion) - (b \div Billion)) * Billion
              + ((a % Billion) - (b % Billion))
  BY <1>3 DEF Difference
<1> DEFINE qa == (a \div Billion) * Billion  ra == a % Billion
           qb == (b \div Billion) * Billion  rb == b % Billion
<1>6. /\ qa \in Int /\ ra \in Int /\ qb \in Int /\ rb \in Int
      /\ a = qa + ra /\ b = qb + rb
  BY <1>1, <1>2
<1>7. Difference(Stamp(a), Stamp(b)) = (qa - qb) + (ra - rb)
  BY <1>4, <1>5
<1>8. (qa - qb) + (ra - rb) = a - b
  <2> HIDE DEF qa, ra, qb, rb
  <2> QED BY <1>6
<1> QED BY <1>7, <1>8

LEMMA ShownType ==
    ASSUME NEW k, NEW t \in Int, NEW o \in Int
    PROVE  Shown(k, t, o).sec \in Int /\ Shown(k, t, o).nsec \in 0..(Billion - 1)
<1>1. t + o \in Int
  OBVIOUS
<1> QED BY <1>1, StampType DEF Shown

LEMMA ReadingIsShown == Reading(kind) = Shown(kind, now, offset)
  BY DEF Reading, Shown

-----------------------------------------------------------------------------
(* The steps. *)

LEMMA ClocksInitInv == ASSUME ClocksInit PROVE ClocksInv
<1> USE DEF ClocksInit
<1>1. Stamp(0).sec \in Int /\ Stamp(0).nsec \in 0..(Billion - 1)
  <2>1. 0 \in Int
    OBVIOUS
  <2> QED BY <2>1, StampType
<1>2. ClocksTypeOK
  <2>1. now \in 0..MaxNow /\ set \in 0..MaxSettings /\ calls \in 0..MaxCalls
    BY ClocksAssumption
  <2>2. Len(results) <= calls
    OBVIOUS
  <2>3. \A t \in {timeBegin, timeEnd} :
           t.sec \in Int /\ t.nsec \in 0..(Billion - 1)
    BY <1>1
  <2>4. /\ offset \in Int /\ kind \in {"none", "realtime", "monotonic"}
        /\ tpc \in {"idle", "begin", "call", "done", "threw", "watch"}
    OBVIOUS
  <2>5. lapped \in BOOLEAN
    BY Zenon
  <2> HIDE DEF ClocksInit
  <2> QED BY <2>1, <2>2, <2>3, <2>4, <2>5 DEF ClocksTypeOK
<1>3. HistoryInv
  BY DEF HistoryInv, Never
<1>4. TimedInv /\ WatchInv /\ ErrorIsTheSetting
  BY DEF TimedInv, WatchInv, ErrorIsTheSetting, Never
<1> QED BY <1>2, <1>3, <1>4 DEF ClocksInv

LEMMA TickInv == ASSUME ClocksInv, Tick PROVE ClocksInv'
<1> USE DEF ClocksInv, Tick, objectVars, timedVars, watchVars
<1>1. ClocksTypeOK'
  BY ClocksAssumption DEF ClocksTypeOK
<1>2. HistoryInv'
  BY DEF HistoryInv
<1>3. TimedInv' /\ WatchInv' /\ ErrorIsTheSetting'
  BY DEF TimedInv, WatchInv, ErrorIsTheSetting, Shown, Stamp
<1> QED BY <1>1, <1>2, <1>3

LEMMA SetRealtimeInv == ASSUME ClocksInv, SetRealtime PROVE ClocksInv'
<1> USE DEF ClocksInv, SetRealtime, objectVars, timedVars, watchVars
<1>1. ClocksTypeOK'
  BY ClocksAssumption DEF ClocksTypeOK
<1>2. HistoryInv'
  BY ClocksAssumption DEF HistoryInv
<1>3. TimedInv' /\ ErrorIsTheSetting'
  BY DEF TimedInv, ErrorIsTheSetting, Shown, Stamp
<1>4. WatchInv'
  BY DEF WatchInv, HistoryInv, Stamp
<1> QED BY <1>1, <1>2, <1>3, <1>4

LEMMA TimedStartInv ==
    ASSUME ClocksInv, NEW clock \in {"realtime", "monotonic"}, NEW n,
           TimedStart(clock, n)
    PROVE  ClocksInv'
<1> USE DEF ClocksInv, TimedStart, Construct, kernelClocks, watchVars
<1>1. \A k : Reading(k).sec \in Int /\ Reading(k).nsec \in 0..(Billion - 1)
  <2>1. now \in Int /\ now + offset \in Int
    BY DEF HistoryInv
  <2> QED BY <2>1, StampType DEF Reading
<1>2. Stamp(0).sec \in Int /\ Stamp(0).nsec \in 0..(Billion - 1)
  <2>1. 0 \in Int
    OBVIOUS
  <2> QED BY <2>1, StampType
<1>3. ClocksTypeOK'
  BY <1>1, <1>2, ClocksAssumption DEF ClocksTypeOK, TimedInv
<1>4. HistoryInv'
  BY DEF HistoryInv
<1>5. TimedInv'
  BY ClocksAssumption DEF TimedInv
<1>6. WatchInv'
  BY DEF WatchInv
<1>7. ErrorIsTheSetting'
  BY DEF ErrorIsTheSetting, TimedInv
<1> QED BY <1>3, <1>4, <1>5, <1>6, <1>7

LEMMA TimedBeginInv == ASSUME ClocksInv, TimedBegin PROVE ClocksInv'
<1> USE DEF ClocksInv, TimedBegin, kernelClocks, watchVars
<1>1. Reading(kind).sec \in Int /\ Reading(kind).nsec \in 0..(Billion - 1)
  BY ShownType, ReadingIsShown DEF HistoryInv
<1>2. ClocksTypeOK'
  BY <1>1 DEF ClocksTypeOK
<1>3. HistoryInv'
  BY DEF HistoryInv
<1>4. TimedInv'
  BY ReadingIsShown DEF TimedInv, HistoryInv, Shown, Never, Stamp
<1>5. WatchInv' /\ ErrorIsTheSetting'
  BY DEF WatchInv, ErrorIsTheSetting
<1> QED BY <1>2, <1>3, <1>4, <1>5

LEMMA TimedEndInv == ASSUME ClocksInv, TimedEnd PROVE ClocksInv'
<1> USE DEF ClocksInv, TimedEnd, kernelClocks, watchVars
<1> DEFINE span == [took |-> now - beganAt.time, setBy |-> offset - beganAt.offset]
           result == Difference(Reading(kind), timeBegin)
<1>1. Reading(kind).sec \in Int /\ Reading(kind).nsec \in 0..(Billion - 1)
  BY ShownType, ReadingIsShown DEF HistoryInv
<1>2. /\ now \in Int /\ offset \in Int /\ beganAt.time \in Int
      /\ beganAt.offset \in Int
  BY DEF HistoryInv, Never, TimedInv
<1>3. result - span.took = (IF kind = "realtime" THEN span.setBy ELSE 0)
      /\ result \in Int
  <2>1. CASE kind = "realtime"
    <3>1. now + offset \in Int /\ beganAt.time + beganAt.offset \in Int
      BY <1>2
    <3>2. /\ Reading(kind) = Stamp(now + offset)
          /\ timeBegin = Stamp(beganAt.time + beganAt.offset)
      BY <2>1, ReadingIsShown DEF TimedInv, Shown
    <3>3. result = (now + offset) - (beganAt.time + beganAt.offset)
      BY <3>1, <3>2, StampDifference
    <3> QED BY <1>2, <2>1, <3>3
  <2>2. CASE kind # "realtime"
    <3>1. result = now - beganAt.time
      BY <1>2, <2>2, StampDifference, ReadingIsShown DEF TimedInv, Shown
    <3> QED BY <1>2, <2>2, <3>1
  <2> QED BY <2>1, <2>2
<1>4. /\ results' = Append(results, result) /\ spans' = Append(spans, span)
      /\ results \in Seq(Int) /\ spans \in Seq([took : Int, setBy : Int])
      /\ span \in [took : Int, setBy : Int]
      /\ Len(spans) = Len(results)
  BY <1>2 DEF TimedInv
<1> HIDE DEF span, result
<1>5. /\ results' \in Seq(Int) /\ spans' \in Seq([took : Int, setBy : Int])
      /\ Len(results') = Len(results) + 1 /\ Len(spans') = Len(results')
      /\ Len(results) \in Nat
  BY <1>3, <1>4
<1>6. Len(results) < calls /\ calls \in Nat
  BY ClocksAssumption DEF TimedInv, ClocksTypeOK
<1>7. ClocksTypeOK'
  BY <1>1, <1>5, <1>6 DEF ClocksTypeOK
<1>8. HistoryInv' /\ WatchInv'
  BY DEF HistoryInv, WatchInv
<1>9. TimedInv'
  BY <1>5, <1>6 DEF TimedInv
<1>10. ErrorIsTheSetting'
  <2>1. ASSUME NEW k \in 1..Len(results')
        PROVE  results'[k] - spans'[k].took =
                   IF kind = "realtime" THEN spans'[k].setBy ELSE 0
    <3>1. CASE k = Len(results')
      <4>1. results'[k] = result /\ spans'[k] = span
        BY <1>3, <1>4, <1>5, <3>1
      <4> QED BY <1>3, <4>1
    <3>2. CASE k # Len(results')
      <4>1. k \in 1..Len(results)
        BY <1>5, <3>2
      <4>2. results'[k] = results[k] /\ spans'[k] = spans[k]
        BY <1>3, <1>4, <4>1
      <4> QED BY <4>1, <4>2 DEF ErrorIsTheSetting
    <3> QED BY <3>1, <3>2
  <2>2. tpc' = "done" => Len(results') = calls
    BY <1>5, <1>6
  <2> QED BY <2>1, <2>2 DEF ErrorIsTheSetting
<1> QED BY <1>7, <1>8, <1>9, <1>10

LEMMA TimedThrowsInv == ASSUME ClocksInv, TimedThrows PROVE ClocksInv'
  BY DEF ClocksInv, TimedThrows, kernelClocks, objectVars, watchVars,
         ClocksTypeOK, HistoryInv, TimedInv, WatchInv, ErrorIsTheSetting

LEMMA WatchStartInv ==
    ASSUME ClocksInv, NEW clock \in {"realtime", "monotonic"}, WatchStart(clock)
    PROVE  ClocksInv'
<1> USE DEF ClocksInv, WatchStart, Construct, kernelClocks
<1>1. Reading(clock).sec \in Int /\ Reading(clock).nsec \in 0..(Billion - 1)
  <2>1. now \in Int /\ now + offset \in Int
    BY DEF HistoryInv
  <2> QED BY <2>1, StampType DEF Reading
<1>2. Stamp(0).sec \in Int /\ Stamp(0).nsec \in 0..(Billion - 1)
  <2>1. 0 \in Int
    OBVIOUS
  <2> QED BY <2>1, StampType
<1>3. ClocksTypeOK'
  BY <1>1, <1>2 DEF ClocksTypeOK
<1>4. HistoryInv' /\ TimedInv'
  BY DEF HistoryInv, TimedInv
<1>5. WatchInv' /\ ErrorIsTheSetting'
  BY DEF WatchInv, TimedInv, ErrorIsTheSetting
<1> QED BY <1>3, <1>4, <1>5

LEMMA WatchBeginInv == ASSUME ClocksInv, WatchBegin PROVE ClocksInv'
<1> USE DEF ClocksInv, WatchBegin, kernelClocks, timedVars
<1>1. Reading(kind).sec \in Int /\ Reading(kind).nsec \in 0..(Billion - 1)
  BY ShownType, ReadingIsShown DEF HistoryInv
<1>2. ClocksTypeOK'
  BY <1>1 DEF ClocksTypeOK
<1>3. HistoryInv' /\ TimedInv'
  BY DEF HistoryInv, TimedInv
<1>4. ASSUME kind = "realtime" => set = 0 PROVE Reading(kind) = Stamp(now)
  BY <1>4 DEF Reading, HistoryInv
<1>5. WatchInv'
  BY <1>4 DEF WatchInv
<1>6. ErrorIsTheSetting'
  BY DEF ErrorIsTheSetting
<1> QED BY <1>2, <1>3, <1>5, <1>6

LEMMA WatchLapInv == ASSUME ClocksInv, WatchLap PROVE ClocksInv'
<1> USE DEF ClocksInv, WatchLap, kernelClocks, timedVars
<1>1. Reading(kind).sec \in Int /\ Reading(kind).nsec \in 0..(Billion - 1)
  BY ShownType, ReadingIsShown DEF HistoryInv
<1>2. ClocksTypeOK'
  BY <1>1 DEF ClocksTypeOK
<1>3. HistoryInv' /\ TimedInv'
  BY DEF HistoryInv, TimedInv
<1>4. ASSUME kind = "realtime" => set = 0 PROVE Reading(kind) = Stamp(now)
  BY <1>4 DEF Reading, HistoryInv
<1>5. WatchInv'
  BY <1>4 DEF WatchInv, HistoryInv, Never
<1>6. ErrorIsTheSetting'
  BY DEF ErrorIsTheSetting
<1> QED BY <1>2, <1>3, <1>5, <1>6

\* Every step of the kernel's clocks, of timed calls and of a stopwatch.
LEMMA ClocksStep == ASSUME ClocksInv, [ClocksNext]_clockVars PROVE ClocksInv'
<1>1. CASE UNCHANGED clockVars
  BY <1>1 DEF clockVars, kernelClocks, objectVars, timedVars, watchVars, ClocksInv,
         ClocksTypeOK, HistoryInv, TimedInv, WatchInv, ErrorIsTheSetting, Shown
<1>2. CASE ClocksNext
  BY <1>2, TickInv, SetRealtimeInv, TimedStartInv, TimedBeginInv, TimedEndInv,
     TimedThrowsInv, WatchStartInv, WatchBeginInv, WatchLapInv DEF ClocksNext
<1> QED BY <1>1, <1>2

\* What the invariant says of a stopwatch.
LEMMA WatchShows == ASSUME ClocksInv PROVE StaleLapNotPositive
<1> SUFFICES ASSUME tpc = "watch", beganAt.time # Never,
                    kind = "realtime" => set = 0
             PROVE  IF lappedAt # Never /\ lappedAt >= beganAt.time
                    THEN Elapsed = lappedAt - beganAt.time
                    ELSE Elapsed <= 0
  BY DEF StaleLapNotPositive
<1>1. beganAt.time \in Nat /\ lappedAt \in Nat \cup {Never}
  BY DEF ClocksInv, HistoryInv
<1>2. CASE lapped
  <2>1. lappedAt \in Nat /\ lappedAt # Never
    BY <1>1, <1>2 DEF ClocksInv, WatchInv
  <2>2. Elapsed = Difference(Stamp(lappedAt), Stamp(beganAt.time))
    BY <1>2 DEF ClocksInv, WatchInv, Elapsed
  <2>3. lappedAt \in Int /\ beganAt.time \in Int
    BY <1>1, <2>1
  <2>4. Elapsed = lappedAt - beganAt.time
    BY <2>2, <2>3, StampDifference
  <2> QED BY <1>1, <2>1, <2>4
<1>3. CASE ~lapped
  BY <1>3 DEF ClocksInv, WatchInv, Elapsed
<1> QED BY <1>2, <1>3

-----------------------------------------------------------------------------
(* The composition (Library). *)

\* The counters of a program are those of Pmu.
THEOREM CountersAlone == Spec => PmuSpec
<1>1. Init => PmuInit
  BY DEF Init
<1>2. [Next]_libraryVars => [PmuNext]_pmuVars
  BY DEF Next, libraryVars, Reads, Times, TimesRuns, Parses, Ended
<1> QED BY <1>1, <1>2, PTL DEF Spec, PmuSpec

\* A pinned counter reads everything or nothing (kernel_clock::read).
THEOREM PinnedHolds == Spec => []PinnedAllOrNothing
  BY CountersAlone, PinnedAllOrNothingHolds, PTL

\* A scaled reading lies between the slowest pace, less one, and the fastest,
\* and never below the count (kernel_clock::read, dynamic_event::retrieve).
THEOREM BracketHolds == Spec => []ReadingBracketed
  BY CountersAlone, ReadingBracketedHolds, PTL

-----------------------------------------------------------------------------
(* The clocks. *)

\* A run of btime ends: its clock's object and results are gone.
LEMMA BtRanInv == ASSUME ClocksInv, BtRan PROVE ClocksInv'
<1> USE DEF ClocksInv, BtRan, kernelClocks, watchVars
<1>1. ClocksTypeOK'
  BY ClocksAssumption DEF ClocksTypeOK
<1>2. HistoryInv'
  BY DEF HistoryInv
<1>3. TimedInv' /\ WatchInv' /\ ErrorIsTheSetting'
  BY DEF TimedInv, WatchInv, ErrorIsTheSetting
<1> QED BY <1>1, <1>2, <1>3

\* A step of btime is none of the clocks, a step of theirs, or that end.
LEMMA BtimeStep ==
    ASSUME BtNext \/ BtCall
    PROVE  [ClocksNext]_clockVars \/ BtRan
<1>1. CASE BtNext
  <2>1. CASE BtRun
    BY <2>1 DEF BtRun, TimedStart, ClocksNext
  <2> QED BY <1>1, <2>1 DEF BtNext, BtMain, BtTakeRuns, BtTakeSeparator,
             BtTakeQuiet, BtTakePath, BtRefuse, BtReport, BtElse
<1>2. CASE BtCall
  BY <1>2 DEF BtCall, ClocksNext
<1> QED BY <1>1, <1>2

LEMMA LibraryClocksStep ==
    ASSUME ClocksInv, [Next]_libraryVars
    PROVE  ClocksInv'
<1>1. [ClocksNext]_clockVars \/ BtRan
  BY BtimeStep DEF Next, libraryVars, Reads, Times, TimesRuns, Parses, Ended,
     btimeVars
<1> QED BY <1>1, ClocksStep, BtRanInv

\* In every use of a clock, btime's included, the object holds the moments it
\* was read at.
THEOREM ClocksInvariance == Spec => []ClocksInv
<1>1. Init => ClocksInv
  BY ClocksInitInv DEF Init, BtimeInit
<1>2. ClocksInv /\ [Next]_libraryVars => ClocksInv'
  BY LibraryClocksStep
<1> QED BY <1>1, <1>2, PTL DEF Spec

\* Every time the library reports is true but for what the realtime clock was
\* set by within the call (bench, bench_repeat, bench_bin).
THEOREM ErrorIsTheSettingHolds == Spec => []ErrorIsTheSetting
<1>1. ClocksInv => ErrorIsTheSetting
  BY DEF ClocksInv
<1> QED BY <1>1, ClocksInvariance, PTL

\* A stopwatch shows the time from its latest begin to its latest lap
\* (stopwatch::elapsed).
THEOREM StaleLapHolds == Spec => []StaleLapNotPositive
  BY ClocksInvariance, WatchShows, PTL

-----------------------------------------------------------------------------
(* btime and cargs: types. *)

\* A run is under way only when one is missing.
BtInv ==
    /\ BtimeTypeOK
    /\ bargv \in Seq(STRING)
    /\ bpc = "idle" => bi = 1
    /\ bpc = "argv" => bi <= Len(bargv) + 1
    /\ bpc \in {"idle", "argv"} => Len(times) = 0
    /\ times \in Seq(Int) /\ took \in Seq(Int)
    /\ (part = "btime" /\ tpc # "idle") => bpc = "run" /\ Len(times) < nRuns

\* The table has room for the argument vector.
CargsInv ==
    /\ CargsTypeOK
    /\ cpc \in {"np", "parse"} => /\ line \in Seq(DOMAIN Trimmed)
                                  /\ Len(line) <= MaxLength
                                  /\ ci \in 2..(Len(line) + 1)

LEMMA BtParseInv ==
    ASSUME BtInv, ClocksInv, UNCHANGED part,
           BtMain \/ BtTakeRuns \/ BtTakeSeparator \/ BtTakeQuiet \/ BtTakePath
             \/ BtRefuse
    PROVE  BtInv'
<1> USE BtimeAssumption DEF BtInv, BtimeTypeOK, BtElse, clockVars, objectVars,
        timedVars, BtArgument, BtHasValue
<1>1. CASE BtMain
  BY <1>1 DEF BtMain
<1>2. CASE BtTakeRuns
  <2>1. BtNumber[bargv[bi + 1]] \in Nat \ {0}
    BY <1>2 DEF BtTakeRuns, BtRuns
  <2>2. bi' = bi + 2 /\ bi' <= Len(bargv) + 1 /\ bpc = "argv"
    BY <1>2 DEF BtTakeRuns
  <2>3. tpc = "idle" \/ part # "btime"
    BY <2>2
  <2> QED BY <1>2, <2>1, <2>2, <2>3 DEF BtTakeRuns
<1>3. CASE BtTakeSeparator
  BY <1>3 DEF BtTakeSeparator
<1>4. CASE BtTakeQuiet
  BY <1>4 DEF BtTakeQuiet
<1>5. CASE BtTakePath
  BY <1>5 DEF BtTakePath
<1>6. CASE BtRefuse
  BY <1>6 DEF BtRefuse
<1> QED BY <1>1, <1>2, <1>3, <1>4, <1>5, <1>6

LEMMA BtRunsInv ==
    ASSUME BtInv, ClocksInv, UNCHANGED part, part = "btime",
           BtRun \/ BtRan \/ BtReport \/ BtCall
    PROVE  BtInv'
<1> USE DEF BtInv, BtimeTypeOK
<1>1. CASE BtRun
  BY <1>1 DEF BtRun, TimedStart, btVars, btParse
<1>2. CASE BtRan
  <2>1. bpc = "run" /\ Len(times) < nRuns
    BY <1>2 DEF BtRan
  <2>2. CASE tpc = "done"
    <3>1. 1 \in 1..Len(results) /\ 1 \in 1..Len(spans)
      BY <2>2 DEF ClocksInv, TimedInv
    <3>2. results[1] \in Int /\ spans[1].took \in Int
      <4>1. /\ results \in Seq(Int)
            /\ spans \in Seq([took : Int, setBy : Int])
        BY DEF ClocksInv, TimedInv
      <4>2. results[1] \in Int /\ spans[1] \in [took : Int, setBy : Int]
        BY <3>1, <4>1, ElementOfSeq
      <4> QED BY <4>2
    <3>3. /\ times' = Append(times, results[1])
          /\ took' = Append(took, spans[1].took)
      BY <1>2, <2>2 DEF BtRan
    <3>4. /\ times' \in Seq(Int) /\ Len(times') = Len(times) + 1
          /\ took' \in Seq(Int) /\ Len(took') = Len(took) + 1
          /\ Len(times) \in Nat
      BY <3>2, <3>3
    <3> QED BY <1>2, <2>1, <2>2, <3>4 DEF BtRan, btParse
  <2>3. CASE tpc # "done"
    BY <1>2, <2>1, <2>3 DEF BtRan, btParse
  <2> QED BY <2>2, <2>3
<1>3. CASE BtReport
  BY <1>3 DEF BtReport, btParse, clockVars, timedVars
<1>4. CASE BtCall
  BY <1>4 DEF BtCall, btVars, btParse, Tick, SetRealtime, TimedBegin, TimedEnd,
         TimedThrows, timedVars
<1> QED BY <1>1, <1>2, <1>3, <1>4

LEMMA ParserCalledInv ==
    ASSUME CargsInv, NEW np \in BOOLEAN, ParserCalled(np)
    PROVE  CargsInv'
<1> USE DEF CargsInv, CargsTypeOK
<1>1. /\ line' \in Seq(DOMAIN Trimmed) /\ line' # <<>>
      /\ DOMAIN Trimmed \subseteq STRING /\ MaxLength \in Nat \ {0}
  BY CargsAssumption DEF ParserCalled
<1>2. params' \in Seq(Parameter)
  <2>1. <<>> \in Seq(Parameter)
    OBVIOUS
  <2> QED BY <2>1, CargsAssumption DEF ParserCalled
<1>3. Len(line') \in Nat /\ Len(line') > 0 /\ line'[1] \in STRING
  BY <1>1
<1>4. args' \in [1..MaxLength -> Entry]
  <2>1. <<line'[1]>> \in Seq(STRING)
    BY <1>3
  <2>2. [args EXCEPT ![1].key = <<line'[1]>>, ![1].type = "cpath"]
          \in [1..MaxLength -> Entry]
    BY <1>1, <2>1 DEF Entry
  <2> QED BY <2>2 DEF ParserCalled
<1> QED BY <1>1, <1>2, <1>3, <1>4 DEF ParserCalled

\* One argument is read, and stays within the table.
LEMMA ArgumentInv ==
    ASSUME CargsInv, cpc \in {"np", "parse"}, ci <= Len(line), ci' = ci + 1,
           UNCHANGED <<cpc, line, params, called>>,
           args' \in [1..MaxLength -> Entry]
    PROVE  CargsInv'
<1>1. Len(line) \in Nat /\ ci \in 2..(Len(line) + 1) /\ MaxLength \in Nat
  BY CargsAssumption DEF CargsInv
<1> QED BY <1>1 DEF CargsInv, CargsTypeOK

LEMMA CargsStep == ASSUME CargsInv, [CargsNext]_cargsVars PROVE CargsInv'
<1>0. MaxLength \in Nat \ {0} /\ args \in [1..MaxLength -> Entry]
  BY CargsAssumption DEF CargsInv, CargsTypeOK
<1> DEFINE At == cpc \in {"np", "parse"} /\ ci <= Len(line)
           w == line[ci]
<1>1. ASSUME At
      PROVE  /\ ci \in 1..MaxLength /\ ci - 1 \in 1..MaxLength
             /\ w \in STRING /\ Trimmed[w] \in STRING
             /\ <<Trimmed[w]>> \in Seq(STRING)
  <2>1. /\ line \in Seq(DOMAIN Trimmed) /\ Len(line) <= MaxLength
        /\ Len(line) \in Nat /\ ci \in 2..(Len(line) + 1)
    BY <1>1 DEF CargsInv
  <2>2. ci \in 1..Len(line) /\ ci \in 1..MaxLength /\ ci - 1 \in 1..MaxLength
    BY <1>0, <1>1, <2>1
  <2>3. w \in DOMAIN Trimmed
    BY <2>1, <2>2, ElementOfSeq
  <2>4. w \in STRING /\ Trimmed[w] \in STRING
    BY <2>3, CargsAssumption
  <2> QED BY <2>2, <2>4
<1>2. ASSUME At, NEW k \in 1..MaxLength
      PROVE  /\ Append(args[k].key, Trimmed[w]) \in Seq(STRING)
             /\ Append(args[k].data, w) \in Seq(STRING)
  BY <1>0, <1>1, <1>2 DEF Entry
<1>3. CASE UNCHANGED cargsVars
  BY <1>3 DEF cargsVars, CargsInv, CargsTypeOK
<1>4. CASE \E np \in BOOLEAN : ParserCalled(np)
  BY <1>4, ParserCalledInv
<1>5. CASE Skip
  BY <1>0, <1>5, ArgumentInv DEF Skip
<1>6. CASE NpKey
  <2>1. At
    BY <1>6 DEF NpKey, Now
  <2>2. args' \in [1..MaxLength -> Entry]
    <3>1. (IF IsFlag(w) THEN "ckey" ELSE "cparam") \in {"ckey", "cparam"}
      OBVIOUS
    <3>2. args' = [args EXCEPT
                     ![ci].key = <<Trimmed[w]>>,
                     ![ci].type = IF IsFlag(w) THEN "ckey" ELSE "cparam"]
      BY <1>6 DEF NpKey
    <3> QED BY <1>0, <1>1, <2>1, <3>1, <3>2 DEF Entry
  <2> QED BY <1>6, <2>1, <2>2, ArgumentInv DEF NpKey
<1>7. CASE NpValue
  <2>1. At
    BY <1>7 DEF NpValue, NpPlain, Now
  <2>2. args' \in [1..MaxLength -> Entry]
    <3> DEFINE key == [args EXCEPT ![ci - 1].data = Append(@, w),
                                   ![ci - 1].type = "cstring"]
    <3>1. key \in [1..MaxLength -> Entry]
      BY <1>0, <1>1, <1>2, <2>1 DEF Entry
    <3>2. args' = [key EXCEPT ![ci].type = "czero"]
      BY <1>7 DEF NpValue
    <3> HIDE DEF key
    <3> QED BY <1>1, <2>1, <3>1, <3>2 DEF Entry
  <2> QED BY <1>7, <2>1, <2>2, ArgumentInv DEF NpValue
<1>8. CASE NpOperand
  <2>1. At
    BY <1>8 DEF NpOperand, NpPlain, Now
  <2>2. args' \in [1..MaxLength -> Entry]
    BY <1>0, <1>1, <1>2, <1>8, <2>1 DEF NpOperand, Entry
  <2> QED BY <1>8, <2>1, <2>2, ArgumentInv DEF NpOperand
<1>9. CASE GeneralArgument
  <2>1. At
    BY <1>9 DEF GeneralArgument, Now
  <2> DEFINE p == params[1]
             entry == IF Named(p)
                      THEN [args[ci] EXCEPT
                              !.key = Append(@, Trimmed[w]),
                              !.type = IF IsFlag(w) THEN "ckey" ELSE "cparam"]
                      ELSE [args[ci] EXCEPT !.data = Append(@, w),
                                            !.type = "coperand"]
  <2>2. p \in Parameter
    <3>1. params \in Seq(Parameter) /\ params # <<>>
      BY <1>9 DEF CargsInv, CargsTypeOK, GeneralArgument
    <3>2. 1 \in 1..Len(params)
      BY <3>1
    <3> QED BY <3>1, <3>2, ElementOfSeq
  <2>3. entry \in Entry
    BY <1>0, <1>1, <1>2, <2>1 DEF Entry
  <2>4. WithValue(entry, p) \in Entry
    <3>1. CASE p.acc # "czero" /\ ci < Len(line)
      <4>1. /\ line \in Seq(DOMAIN Trimmed) /\ ci + 1 \in 1..Len(line)
        BY <1>1, <2>1, <3>1 DEF CargsInv
      <4>2. line[ci + 1] \in STRING
        BY <4>1, ElementOfSeq, CargsAssumption
      <4>3. Append(entry.data, line[ci + 1]) \in Seq(STRING)
        <5>1. entry.data \in Seq(STRING)
          BY <2>3 DEF Entry
        <5> HIDE DEF entry
        <5> QED BY <4>2, <5>1
      <4>4. p.acc \in {"cint", "cstring"}
        BY <2>2, <3>1 DEF Parameter
      <4> HIDE DEF entry, p
      <4> QED BY <2>3, <3>1, <4>3, <4>4 DEF Entry, WithValue
    <3>2. CASE ~(p.acc # "czero" /\ ci < Len(line))
      BY <2>3, <3>2 DEF WithValue
    <3> QED BY <3>1, <3>2
  <2>5. args' \in [1..MaxLength -> Entry]
    <3>1. args' = [args EXCEPT ![ci] = WithValue(entry, p)]
      BY <1>9 DEF GeneralArgument
    <3> HIDE DEF entry, p
    <3> QED BY <1>0, <2>4, <3>1
  <2> QED BY <1>9, <2>1, <2>5, ArgumentInv DEF GeneralArgument
<1>10. CASE Arguments
  BY <1>0, <1>10 DEF Arguments, CargsInv, CargsTypeOK
<1>11. CASE Callback \/ CallbacksEnd \/ ReadBeyond
  BY <1>0, <1>11 DEF Callback, CallbacksEnd, ReadBeyond, CargsInv, CargsTypeOK
<1> QED BY <1>3, <1>4, <1>5, <1>6, <1>7, <1>8, <1>9, <1>10, <1>11 DEF CargsNext

-----------------------------------------------------------------------------

LEMMA LibraryTypesStep ==
    ASSUME ClocksInv, BtInv, CargsInv, part \in {"pmu", "clocks", "btime", "cargs"},
           [Next]_libraryVars
    PROVE  BtInv' /\ CargsInv' /\ part' \in {"pmu", "clocks", "btime", "cargs"}
<1>1. UNCHANGED part
  BY DEF Next, libraryVars, Reads, Times, TimesRuns, Parses, Ended
<1>2. [CargsNext]_cargsVars
  BY DEF Next, libraryVars, Reads, Times, TimesRuns, Parses, Ended
<1>3. BtInv'
  <2>1. CASE TimesRuns
    BY <1>1, <2>1, BtParseInv, BtRunsInv DEF TimesRuns, BtNext
  <2>2. CASE UNCHANGED btimeVars
    BY <1>1, <2>2 DEF BtInv, BtimeTypeOK, btimeVars, btVars, btParse, clockVars,
       timedVars
  <2>3. CASE Times
    BY <1>1, <2>3 DEF Times, BtInv, BtimeTypeOK, btVars, btParse
  <2> QED BY <2>1, <2>2, <2>3 DEF Next, libraryVars, Reads, Parses, Ended
<1> QED BY <1>1, <1>2, <1>3, CargsStep

LibraryTypes ==
    BtInv /\ CargsInv /\ part \in {"pmu", "clocks", "btime", "cargs"}

\* The types, with what btime and the parser keep within their bounds.
THEOREM LibraryTypesInvariance == Spec => []LibraryTypes
<1>1. Init => LibraryTypes
  <2> SUFFICES ASSUME Init PROVE LibraryTypes
    OBVIOUS
  <2>1. BtInv
    <3>1. /\ bpc = "idle" /\ bargv = <<>> /\ bi = 1 /\ nRuns = 1
          /\ csv = FALSE /\ quiet = FALSE
          /\ times = <<>> /\ took = <<>> /\ tpc = "idle"
      BY DEF Init, BtimeInit, ClocksInit
    <3>2. /\ <<>> \in Seq(Int) /\ <<>> \in Seq(STRING) /\ Len(<<>>) = 0
      OBVIOUS
    <3>3. csv \in BOOLEAN /\ quiet \in BOOLEAN
      BY <3>1
    <3> QED BY <3>1, <3>2, <3>3 DEF BtInv, BtimeTypeOK
  <2>2. CargsInv
    <3>1. Blank \in Entry
      BY DEF Blank, Entry
    <3> QED BY <3>1, CargsAssumption DEF Init, CargsInit, CargsInv, CargsTypeOK
  <2> QED BY <2>1, <2>2 DEF Init, LibraryTypes
<1>2. LibraryTypes /\ ClocksInv /\ [Next]_libraryVars => LibraryTypes'
  BY LibraryTypesStep DEF LibraryTypes
<1> QED BY <1>1, <1>2, ClocksInvariance, PTL DEF Spec

\* Every variable of every part has its type: the parser stays inside its
\* table, btime never makes a run too many, no time runs backwards.
THEOREM LibraryTypeCorrect == Spec => []LibraryTypeOK
<1>1. LibraryTypes /\ ClocksInv /\ PmuInv => LibraryTypeOK
  BY DEF LibraryTypes, LibraryTypeOK, BtInv, CargsInv, ClocksInv, PmuInv
<1> QED BY <1>1, LibraryTypesInvariance, ClocksInvariance, CountersAlone,
           PmuInvariance, PTL


-----------------------------------------------------------------------------
(* cargs: where the arguments are placed, and the callbacks. *)

\* Entry k after the first n arguments: a flag has taken the word behind it if
\* that is its value and has been read.
PlacedIn(k, n) ==
    IF k = 1 THEN [key |-> <<line[1]>>, data |-> <<>>, type |-> "cpath"]
    ELSE IF k > n \/ line[k] \in TooLong \/ IsValue(k) THEN Blank
    ELSE IF Short(line[k])
    THEN [key |-> <<Trimmed[line[k]]>>, data |-> <<>>, type |-> "cparam"]
    ELSE IF Long(line[k])
    THEN IF k < n /\ IsValue(k + 1)
         THEN [key |-> <<Trimmed[line[k]]>>, data |-> <<line[k + 1]>>, type |-> "cstring"]
         ELSE [key |-> <<Trimmed[line[k]]>>, data |-> <<>>, type |-> "ckey"]
    ELSE [key |-> <<>>, data |-> <<line[k]>>, type |-> "coperand"]

\* How many arguments have been read.
ReadSoFar == IF cpc = "np" THEN ci - 1 ELSE Len(line)

PlacedInv ==
    /\ cpc = "idle" => args = [k \in 1..MaxLength |-> Blank]
    /\ cpc # "idle" => line \in ArgLines
    /\ cpc = "parse" => params # <<>>
    /\ (cpc # "idle" /\ params = <<>> /\ Len(line) \in 2..MaxLength) =>
          args = [k \in 1..MaxLength |-> PlacedIn(k, ReadSoFar)]

\* The callbacks so far are of entries before the next one, all of them in use;
\* no entry behind the arguments is.
CallbacksInv ==
    /\ CallbacksInOrder
    /\ cpc \in {"idle", "np", "parse"} => called = <<>>
    /\ called \in Seq((1..MaxLength) \X (1..Len(params)))
    /\ cpc \in {"np", "parse", "callbacks"} =>
          /\ Len(line) \in 2..MaxLength
          /\ \A k \in 1..MaxLength : k > Len(line) => args[k].type = "czero"
    /\ cpc = "callbacks" =>
          /\ \A m \in 1..Len(called) : called[m][1] < ci
          /\ \A j \in 1..(ci - 1) : args[j].type # "czero"
    /\ cpc = "idle" => args = [k \in 1..MaxLength |-> Blank]

\* An argument vector holds the program's name at least.
LEMMA LineType ==
    ASSUME line \in ArgLines
    PROVE  line \in Seq(DOMAIN Trimmed) /\ Len(line) \in Nat /\ Len(line) >= 1
  BY CargsAssumption

LEMMA PlacedIdle == ASSUME CargsInit PROVE PlacedInv /\ CallbacksInv
<1>1. /\ cpc = "idle" /\ called = <<>> /\ params = <<>>
      /\ args = [k \in 1..MaxLength |-> Blank]
  BY DEF CargsInit
<1>2. called \in Seq((1..MaxLength) \X (1..Len(params))) /\ Len(called) = 0
  BY <1>1
<1> QED BY <1>1, <1>2 DEF PlacedInv, CallbacksInv, CallbacksInOrder

\* Nothing the placement depends on has changed.
LEMMA PlacedKept ==
    ASSUME PlacedInv, UNCHANGED <<line, params, args>>,
           cpc # "idle", cpc' # "idle", cpc' # "parse",
           params = <<>> => ReadSoFar' = ReadSoFar
    PROVE  PlacedInv'
<1>1. \A k, n : PlacedIn(k, n)' = PlacedIn(k, n)
  BY DEF PlacedIn, IsValue, IsPlain, IsLong
<1> QED BY <1>1 DEF PlacedInv

LEMMA PlacedCalled ==
    ASSUME CargsInv, PlacedInv, NEW np \in BOOLEAN, ParserCalled(np)
    PROVE  PlacedInv'
<1>1. /\ cpc = "idle" /\ line' \in ArgLines
      /\ IF np THEN params' = <<>> ELSE params' \in ParameterLists
      /\ IF Len(line') > MaxLength \/ Len(line') = 1
         THEN cpc' = "built" /\ args' = args
         ELSE /\ cpc' = IF np THEN "np" ELSE "parse"
              /\ args' = [args EXCEPT ![1].key = <<line'[1]>>, ![1].type = "cpath"]
      /\ ci' = 2
  BY DEF ParserCalled
<1>2. MaxLength \in Nat \ {0} /\ <<>> \notin ParameterLists
  BY CargsAssumption
<1>3. cpc' = "parse" => params' # <<>>
  BY <1>1, <1>2
<1>4. ASSUME params' = <<>>, Len(line') \in 2..MaxLength
      PROVE  args' = [k \in 1..MaxLength |-> PlacedIn(k, ReadSoFar)']
  <2>1. np /\ cpc' = "np" /\ ReadSoFar' = 1
    <3>1. np
      BY <1>1, <1>2, <1>4
    <3>2. ~(Len(line') > MaxLength \/ Len(line') = 1)
      <4> DEFINE len == Len(line')
      <4>1. len \in 2..MaxLength /\ MaxLength \in Nat
        BY <1>2, <1>4
      <4> HIDE DEF len
      <4>2. ~(len > MaxLength \/ len = 1)
        BY <4>1
      <4> QED BY <4>2 DEF len
    <3> QED BY <1>1, <3>1, <3>2 DEF ReadSoFar
  <2>2. args = [k \in 1..MaxLength |-> Blank]
    BY <1>1 DEF PlacedInv
  <2>3. args' = [args EXCEPT ![1].key = <<line'[1]>>, ![1].type = "cpath"]
    BY <1>1, <2>1
  <2>4. args' = [k \in 1..MaxLength |->
                   IF k = 1 THEN [key |-> <<line'[1]>>, data |-> <<>>, type |-> "cpath"]
                   ELSE Blank]
    BY <1>2, <2>2, <2>3 DEF Blank
  <2>5. ASSUME NEW k \in 1..MaxLength
        PROVE  PlacedIn(k, ReadSoFar)' =
                  IF k = 1 THEN [key |-> <<line'[1]>>, data |-> <<>>, type |-> "cpath"]
                  ELSE Blank
    BY <2>1 DEF PlacedIn
  <2> QED BY <2>4, <2>5
<1> QED BY <1>1, <1>3, <1>4 DEF PlacedInv

\* One more argument is read: only its entry and the one before it change.
LEMMA PlacedNext ==
    ASSUME CargsInv, PlacedInv, cpc = "np", ci <= Len(line), params = <<>>,
           ci' = ci + 1, UNCHANGED <<cpc, line, params>>,
           args' = [k \in 1..MaxLength |-> PlacedIn(k, ci)]
    PROVE  PlacedInv'
<1>1. \A k, n : PlacedIn(k, n)' = PlacedIn(k, n)
  BY DEF PlacedIn, IsValue, IsPlain, IsLong
<1>2. ReadSoFar' = ci
  BY DEF ReadSoFar, CargsInv, CargsTypeOK
<1>3. ASSUME NEW k \in 1..MaxLength PROVE PlacedIn(k, ReadSoFar)' = PlacedIn(k, ci)
  BY <1>1, <1>2
<1> QED BY <1>3 DEF PlacedInv

\* What becomes of the entries when argument n + 1 is read.
LEMMA PlacedOther ==
    ASSUME NEW n \in Nat, NEW k \in Nat, k # n + 1,
           k # n \/ n < 2 \/ ~IsLong(n) \/ ~IsPlain(n + 1)
    PROVE  PlacedIn(k, n + 1) = PlacedIn(k, n)
<1>1. CASE k > n
  <2>1. k > n + 1
    BY <1>1
  <2> QED BY <1>1, <2>1 DEF PlacedIn
<1>2. CASE k < n
  <2>1. k < n + 1 /\ ~(k > n) /\ ~(k > n + 1)
    BY <1>2
  <2> QED BY <1>2, <2>1 DEF PlacedIn
<1>3. CASE k = n
  <2>1. n >= 2 /\ line[n] \notin TooLong /\ Long(line[n]) => ~IsValue(n + 1)
    BY <1>3 DEF IsValue, IsLong
  <2>2. ~(k > n) /\ ~(k > n + 1) /\ ~(k < n) /\ k < n + 1 /\ (k = 1 \/ n >= 2 \/ k = 0)
    BY <1>3
  <2> HIDE DEF PlacedIn
  <2>3. CASE k = 1
    BY <2>3 DEF PlacedIn
  <2>4. CASE k = 0
    BY <1>3, <2>4 DEF PlacedIn, IsValue
  <2>5. CASE n >= 2
    BY <1>3, <2>1, <2>2, <2>5 DEF PlacedIn
  <2> QED BY <2>2, <2>3, <2>4, <2>5
<1> QED BY <1>1, <1>2, <1>3

\* The last entry is a key without a value exactly if it is a long flag.
LEMMA PlacedLast ==
    ASSUME NEW n \in Nat \ {0}
    PROVE  PlacedIn(n, n).type = "ckey" <=> n >= 2 /\ IsLong(n)
<1>1. ~(n > n) /\ ~(n < n) /\ (n = 1 \/ n >= 2) /\ ~(n = 1 /\ n >= 2)
  OBVIOUS
<1>2. CASE n = 1
  BY <1>1, <1>2 DEF PlacedIn
<1>3. CASE n >= 2 /\ (line[n] \in TooLong \/ IsValue(n))
  BY <1>1, <1>3 DEF PlacedIn, IsValue, IsPlain, IsLong, Blank
<1>4. CASE n >= 2 /\ line[n] \notin TooLong /\ ~IsValue(n) /\ Short(line[n])
  BY <1>1, <1>4 DEF PlacedIn, IsLong, Short, Long, IsParam, IsFlag
<1>5. CASE n >= 2 /\ line[n] \notin TooLong /\ ~IsValue(n) /\ ~Short(line[n])
  BY <1>1, <1>5 DEF PlacedIn, IsLong
<1> QED BY <1>1, <1>2, <1>3, <1>4, <1>5

\* A parser without parameters reads one argument.
LEMMA PlacedRead ==
    ASSUME CargsInv, PlacedInv, Len(line) \in 2..MaxLength, params = <<>>,
           cpc = "np", ci <= Len(line), ci' = ci + 1,
           UNCHANGED <<cpc, line, params>>,
           Skip \/ NpKey \/ NpValue \/ NpOperand
    PROVE  PlacedInv'
<1> DEFINE n == ci - 1
           w == line[ci]
<1>1. /\ n \in Nat /\ n >= 1 /\ n + 1 = ci /\ ci \in 1..MaxLength /\ ci \in Nat
      /\ n \in 1..MaxLength /\ ci # 1 /\ ci > n /\ ~(ci > ci) /\ ~(ci < ci)
      /\ MaxLength \in Nat /\ n # ci /\ ci >= 2
  BY CargsAssumption DEF CargsInv
<1>2. args = [k \in 1..MaxLength |-> PlacedIn(k, n)]
  BY DEF PlacedInv, ReadSoFar
<1>3. args[ci] = Blank
  BY <1>1, <1>2 DEF PlacedIn
<1>4. args[n] = PlacedIn(n, n)
  BY <1>1, <1>2
<1>5. ASSUME NEW k \in 1..MaxLength, k # ci, k # n \/ n < 2 \/ ~IsLong(n) \/ ~IsPlain(ci)
      PROVE  PlacedIn(k, ci) = args[k]
  <2>1. PlacedIn(k, n + 1) = PlacedIn(k, n)
    BY <1>1, <1>5, PlacedOther
  <2> QED BY <1>1, <1>2, <2>1
<1>6. args[n].type = "ckey" <=> n >= 2 /\ IsLong(n)
  BY <1>1, <1>4, PlacedLast
<1>7. IsValue(ci) <=> IsPlain(ci) /\ n >= 2 /\ IsLong(n)
  BY <1>1 DEF IsValue
<1> SUFFICES args' = [k \in 1..MaxLength |-> PlacedIn(k, ci)]
  BY PlacedNext
<1> HIDE DEF n
<1>8. CASE Skip
  <2>1. w \in TooLong /\ args' = args
    BY <1>8 DEF Skip
  <2>2. ~IsPlain(ci)
    BY <2>1 DEF IsPlain
  <2>3. PlacedIn(ci, ci) = Blank
    BY <1>1, <2>1 DEF PlacedIn
  <2>4. \A k \in 1..MaxLength : PlacedIn(k, ci) = args[k]
    BY <1>3, <1>5, <2>2, <2>3
  <2>5. args = [k \in 1..MaxLength |-> args[k]]
    BY <1>2
  <2> QED BY <2>1, <2>4, <2>5
<1>9. CASE NpKey
  <2>1. /\ w \notin TooLong /\ (Short(w) \/ Long(w))
        /\ args' = [args EXCEPT
                      ![ci].key = <<Trimmed[w]>>,
                      ![ci].type = IF IsFlag(w) THEN "ckey" ELSE "cparam"]
    BY <1>9 DEF NpKey, Now, Short, Long
  <2>2. ~IsPlain(ci) /\ ~IsValue(ci) /\ (IsFlag(w) <=> Long(w)) /\ (Long(w) <=> ~Short(w))
    BY <1>9, <2>1 DEF IsPlain, IsValue, NpKey, Short, Long, IsParam, IsFlag
  <2>3. PlacedIn(ci, ci) = [key |-> <<Trimmed[w]>>, data |-> <<>>,
                            type |-> IF IsFlag(w) THEN "ckey" ELSE "cparam"]
    <3>1. w \notin TooLong
      BY <1>9 DEF NpKey, Now
    <3> QED BY <1>1, <2>2, <3>1 DEF PlacedIn
  <2>4. /\ args'[ci] = PlacedIn(ci, ci)
        /\ \A k \in 1..MaxLength : k # ci => args'[k] = args[k]
        /\ args' = [k \in 1..MaxLength |-> args'[k]]
    <3>1. args \in [1..MaxLength -> Entry]
      BY DEF CargsInv, CargsTypeOK
    <3> HIDE DEF w
    <3>2. args'[ci] = [key |-> <<Trimmed[w]>>, data |-> <<>>,
                       type |-> IF IsFlag(w) THEN "ckey" ELSE "cparam"]
      BY <1>1, <1>3, <2>1, <3>1 DEF Blank
    <3> QED BY <1>1, <2>1, <2>3, <3>1, <3>2
  <2>5. \A k \in 1..MaxLength : PlacedIn(k, ci) = args'[k]
    BY <1>5, <2>2, <2>4
  <2> QED BY <2>4, <2>5
<1>10. CASE NpValue
  <2>1. /\ NpPlain /\ args[n].type = "ckey"
        /\ args' = [args EXCEPT ![n].data = Append(@, w), ![n].type = "cstring",
                                ![ci].type = "czero"]
    BY <1>10 DEF NpValue, n
  <2>2. IsPlain(ci) /\ IsValue(ci) /\ IsLong(n) /\ n >= 2
    BY <1>6, <1>7, <2>1 DEF NpPlain, Now, IsPlain, Short, Long
  <2>3. PlacedIn(ci, ci) = Blank
    BY <1>1, <2>2 DEF PlacedIn
  <2>4. /\ ~IsValue(n) /\ Long(line[n]) /\ ~Short(line[n]) /\ line[n] \notin TooLong
    BY <2>2 DEF IsValue, IsPlain, IsLong, Short, Long, IsParam, IsFlag
  <2>5. args[n] = [key |-> <<Trimmed[line[n]]>>, data |-> <<>>, type |-> "ckey"]
    BY <1>1, <1>4, <2>2, <2>4 DEF PlacedIn
  <2>6. PlacedIn(n, ci) = [key |-> <<Trimmed[line[n]]>>, data |-> <<w>>, type |-> "cstring"]
    <3>1. n # 1 /\ ~(n > ci) /\ n < ci /\ n + 1 = ci
      BY <1>1, <2>2
    <3> QED BY <2>2, <2>4, <3>1 DEF PlacedIn
  <2>7. args \in [1..MaxLength -> Entry]
    BY DEF CargsInv, CargsTypeOK
  <2> HIDE DEF w
  <2>8. args'[ci] = Blank
    BY <1>1, <1>3, <2>1, <2>7 DEF Blank
  <2>9. args'[n] = PlacedIn(n, ci)
    <3>1. Append(<<>>, w) = <<w>>
      OBVIOUS
    <3>2. args'[n] = [args[n] EXCEPT !.data = Append(args[n].data, w), !.type = "cstring"]
      BY <1>1, <2>1, <2>7
    <3> DEFINE key == <<Trimmed[line[n]]>>
               data == <<w>>
               e == args[n]
    <3>3. e = [key |-> key, data |-> <<>>, type |-> "ckey"] /\ Append(e.data, w) = data
      BY <2>5, <3>1
    <3>4. args'[n] = [e EXCEPT !.data = data, !.type = "cstring"]
      BY <3>2, <3>3
    <3>5. PlacedIn(n, ci) = [key |-> key, data |-> data, type |-> "cstring"]
      BY <2>6
    <3> HIDE DEF key, data, e
    <3> QED BY <3>3, <3>4, <3>5
  <2>10. /\ \A k \in 1..MaxLength : k # ci /\ k # n => args'[k] = args[k]
         /\ args' = [k \in 1..MaxLength |-> args'[k]]
    BY <1>1, <2>1, <2>7
  <2>11. \A k \in 1..MaxLength : PlacedIn(k, ci) = args'[k]
    BY <1>5, <2>3, <2>8, <2>9, <2>10
  <2> QED BY <2>10, <2>11
<1>11. CASE NpOperand
  <2>1. /\ NpPlain /\ args[n].type # "ckey"
        /\ args' = [args EXCEPT ![ci].data = Append(@, w), ![ci].type = "coperand"]
    BY <1>11 DEF NpOperand, n
  <2>2. IsPlain(ci) /\ ~IsValue(ci) /\ (n < 2 \/ ~IsLong(n))
    <3>1. IsPlain(ci)
      BY <2>1 DEF NpPlain, Now, IsPlain, Short, Long
    <3>2. n < 2 <=> ~(n >= 2)
      BY <1>1
    <3> QED BY <1>6, <1>7, <2>1, <3>1, <3>2
  <2>3. PlacedIn(ci, ci) = [key |-> <<>>, data |-> <<w>>, type |-> "coperand"]
    BY <1>1, <2>2 DEF PlacedIn, IsPlain
  <2>4. args \in [1..MaxLength -> Entry]
    BY DEF CargsInv, CargsTypeOK
  <2> HIDE DEF w
  <2>5. args'[ci] = PlacedIn(ci, ci)
    <3>1. Append(<<>>, w) = <<w>>
      OBVIOUS
    <3> QED BY <1>1, <1>3, <2>1, <2>3, <2>4, <3>1 DEF Blank
  <2>6. /\ \A k \in 1..MaxLength : k # ci => args'[k] = args[k]
        /\ args' = [k \in 1..MaxLength |-> args'[k]]
    BY <1>1, <2>1, <2>4
  <2>7. \A k \in 1..MaxLength : PlacedIn(k, ci) = args'[k]
    BY <1>5, <2>2, <2>5, <2>6
  <2> QED BY <2>6, <2>7
<1> QED BY <1>8, <1>9, <1>10, <1>11

LEMMA PlacedStep == ASSUME CargsInv, PlacedInv, [CargsNext]_cargsVars PROVE PlacedInv'
<1>1. CASE UNCHANGED cargsVars
  BY <1>1 DEF cargsVars, PlacedInv, ReadSoFar, PlacedIn, IsValue, IsPlain, IsLong
<1>2. CASE \E np \in BOOLEAN : ParserCalled(np)
  BY <1>2, PlacedCalled
<1>3. CASE Skip \/ NpKey \/ NpValue \/ NpOperand \/ GeneralArgument
  <2>1. /\ cpc \in {"np", "parse"} /\ ci <= Len(line) /\ ci' = ci + 1
        /\ UNCHANGED <<cpc, line, params>>
        /\ GeneralArgument => params # <<>> /\ cpc = "parse"
        /\ (NpKey \/ NpValue \/ NpOperand) => cpc = "np"
    BY <1>3 DEF Skip, NpKey, NpValue, NpOperand, NpPlain, GeneralArgument, Now
  <2>2. CASE params = <<>> /\ Len(line) \in 2..MaxLength
    <3>1. cpc = "np" /\ (Skip \/ NpKey \/ NpValue \/ NpOperand)
      BY <1>3, <2>1, <2>2 DEF PlacedInv
    <3> QED BY <2>1, <2>2, <3>1, PlacedRead
  <2>3. CASE ~(params = <<>> /\ Len(line) \in 2..MaxLength)
    BY <2>1, <2>3 DEF PlacedInv
  <2> QED BY <2>2, <2>3
<1>4. CASE Arguments
  <2>1. /\ cpc \in {"np", "parse"} /\ ci > Len(line) /\ cpc' = "callbacks"
        /\ UNCHANGED <<line, params, args>>
    BY <1>4 DEF Arguments
  <2>2. params = <<>> => ReadSoFar' = ReadSoFar
    <3>1. cpc = "np" => ci - 1 = Len(line)
      BY <2>1 DEF CargsInv
    <3> QED BY <2>1, <3>1 DEF PlacedInv, ReadSoFar
  <2> QED BY <2>1, <2>2, PlacedKept
<1>5. CASE Callback \/ CallbacksEnd \/ ReadBeyond
  <2>1. /\ cpc = "callbacks" /\ cpc' \in {"callbacks", "built", "beyond"}
        /\ UNCHANGED <<line, params, args>>
    BY <1>5 DEF Callback, CallbacksEnd, ReadBeyond
  <2> QED BY <2>1, PlacedKept DEF ReadSoFar
<1> QED BY <1>1, <1>2, <1>3, <1>4, <1>5 DEF CargsNext

\* What the entries hold when every argument has been read.
LEMMA PlacedWhat ==
    ASSUME NEW L \in Nat, NEW k \in Nat \ {0}
    PROVE  LET e == PlacedIn(k, L)
               read == k \in 2..L
           IN  /\ e.type = "coperand" <=> read /\ IsOperand(k)
               /\ e.type = "cparam" <=> read /\ IsShort(k)
               /\ e.type \notin {"czero", "cvoid", "cpath", "cparam", "coperand"}
                     <=> read /\ IsLong(k)
               /\ read /\ IsOperand(k) => e.data = <<line[k]>>
               /\ read /\ (IsShort(k) \/ IsLong(k)) => e.key = <<Trimmed[line[k]]>>
               /\ read /\ IsLong(k) =>
                     e.data = IF k < L /\ IsValue(k + 1) THEN <<line[k + 1]>> ELSE <<>>
<1> DEFINE e == PlacedIn(k, L)
           read == k \in 2..L
<1>1. read <=> k # 1 /\ ~(k > L)
  OBVIOUS
<1>2. IsOperand(k) => line[k] \notin TooLong /\ ~Long(line[k]) /\ ~Short(line[k])
                      /\ ~IsValue(k) /\ ~IsShort(k) /\ ~IsLong(k)
  BY DEF IsOperand, IsPlain, IsShort, IsLong
<1>3. IsShort(k) => line[k] \notin TooLong /\ ~Long(line[k]) /\ Short(line[k])
                    /\ ~IsValue(k) /\ ~IsLong(k)
  BY DEF IsShort, IsLong, IsValue, IsPlain, Short, Long, IsParam, IsFlag
<1>4. IsLong(k) => line[k] \notin TooLong /\ Long(line[k]) /\ ~Short(line[k]) /\ ~IsValue(k)
  BY DEF IsLong, IsValue, IsPlain, Short, Long, IsParam, IsFlag
<1>5. CASE ~read
  BY <1>1, <1>5 DEF PlacedIn, Blank
<1>6. CASE read /\ IsOperand(k)
  <2>1. e = [key |-> <<>>, data |-> <<line[k]>>, type |-> "coperand"]
    BY <1>1, <1>2, <1>6 DEF PlacedIn
  <2> QED BY <1>2, <1>6, <2>1
<1>7. CASE read /\ IsShort(k)
  <2>1. e = [key |-> <<Trimmed[line[k]]>>, data |-> <<>>, type |-> "cparam"]
    BY <1>1, <1>3, <1>7 DEF PlacedIn
  <2> QED BY <1>2, <1>3, <1>7, <2>1
<1>8. CASE read /\ IsLong(k)
  <2>1. e = IF k < L /\ IsValue(k + 1)
            THEN [key |-> <<Trimmed[line[k]]>>, data |-> <<line[k + 1]>>, type |-> "cstring"]
            ELSE [key |-> <<Trimmed[line[k]]>>, data |-> <<>>, type |-> "ckey"]
    BY <1>1, <1>4, <1>8 DEF PlacedIn
  <2> HIDE DEF e
  <2>2. /\ e.type \in {"cstring", "ckey"} /\ e.key = <<Trimmed[line[k]]>>
        /\ e.data = IF k < L /\ IsValue(k + 1) THEN <<line[k + 1]>> ELSE <<>>
    BY <2>1
  <2>3. ~IsOperand(k) /\ ~IsShort(k)
    BY <1>2, <1>3, <1>8
  <2> QED BY <1>8, <2>2, <2>3 DEF e
<1>9. CASE read /\ ~IsOperand(k) /\ ~IsShort(k) /\ ~IsLong(k)
  <2>1. line[k] \in TooLong \/ IsValue(k)
    BY <1>9 DEF IsOperand, IsPlain, IsShort, IsLong
  <2>2. e = Blank
    BY <1>1, <1>9, <2>1 DEF PlacedIn
  <2> QED BY <1>9, <2>2 DEF Blank
<1> QED BY <1>5, <1>6, <1>7, <1>8, <1>9

\* S are the places among the first L of the elements of s that are in B; they
\* are the only ones up to n.
Marked(S, s, L, n, B) ==
    L \in Nat /\ n \in Nat /\ L <= n /\ S \subseteq 1..L /\ Marks(S, s, n, B)

\* The elements of a kind stand at their places, in their order.
LEMMA KindPlaced ==
    ASSUME NEW L, NEW n, NEW T, NEW s, ArrayOf(s, n, T),
           NEW B, NEW S, Marked(S, s, L, n, B)
    PROVE  /\ Len(Kept(Positions(L), S)) \in Nat
           /\ Len(Kept(s, B)) = Len(Kept(Positions(L), S))
           /\ \A k \in 1..Len(Kept(Positions(L), S)) :
                 /\ Kept(Positions(L), S)[k] \in S
                 /\ Kept(s, B)[k] = s[Kept(Positions(L), S)[k]]
<1> DEFINE p == Kept(Positions(n), S)
<1>0. L \in Nat /\ n \in Nat /\ L <= n /\ S \subseteq 1..L /\ Marks(S, s, n, B)
  BY DEF Marked
<1>1. p = Kept(Positions(L), S)
  <2>1. \A k \in (L + 1)..n : k \notin S
    BY <1>0
  <2> QED BY <1>0, <2>1, PlacesWithin
<1>2. /\ p \in Seq((1..n) \cap S) /\ Len(Kept(s, B)) = Len(p)
      /\ \A k \in 1..Len(p) : Kept(s, B)[k] = s[p[k]]
  <2>1. n \in Nat /\ ArrayOf(s, n, T) /\ Marks(S, s, n, B)
    BY <1>0
  <2>2. p \in Seq((1..n) \cap S)
    BY <2>1, PlacesKept
  <2>3. /\ Len(Kept(s, B)) = Len(p)
        /\ \A k \in 1..Len(p) : Kept(s, B)[k] = s[p[k]]
    BY ONLY <2>1, PlacesOf
  <2> QED BY <2>2, <2>3
<1>3. (1..n) \cap S = S
  <2>1. \A k \in S : k \in 1..n
    BY <1>0
  <2> QED BY <2>1
<1> HIDE DEF p
<1>4. p \in Seq(S)
  BY <1>2, <1>3
<1>5. Len(p) \in Nat /\ \A k \in 1..Len(p) : p[k] \in S
  BY <1>4
<1> QED BY <1>1, <1>2, <1>4, <1>5

LEMMA WordsPlaced == ASSUME CargsInv, PlacedInv PROVE EveryWordPlaced
<1> SUFFICES ASSUME cpc \in {"callbacks", "built", "beyond"}, params = <<>>,
                    Len(line) \in 2..MaxLength
             PROVE  EveryWordPlaced
  BY DEF EveryWordPlaced
<1> DEFINE L == Len(line)
           places(S) == Kept(Positions(L), S)
           words(S) == [k \in 1..Len(places(S)) |-> <<line[places(S)[k]]>>]
           bodies(S) == [k \in 1..Len(places(S)) |-> <<Trimmed[line[places(S)[k]]]>>]
           operands == {k \in 2..L : IsOperand(k)}
           shorts == {k \in 2..L : IsShort(k)}
           longs == {k \in 2..L : IsLong(k)}
           others == {"czero", "cvoid", "cpath", "cparam", "coperand"}
<1>1. /\ MaxLength \in Nat /\ L \in Nat /\ L <= MaxLength
      /\ args \in [1..MaxLength -> Entry] /\ DOMAIN args = 1..MaxLength
  BY CargsAssumption DEF CargsInv, CargsTypeOK
<1>2. \A k \in 1..MaxLength : args[k] = PlacedIn(k, L)
  BY DEF PlacedInv, ReadSoFar
<1>3. ASSUME NEW k \in 1..MaxLength
      PROVE  /\ args[k] \in ToSet(args)
             /\ args[k].type = "coperand" <=> k \in operands
             /\ args[k].type = "cparam" <=> k \in shorts
             /\ args[k].type \notin others <=> k \in longs
             /\ k \in operands => args[k].data = <<line[k]>>
             /\ k \in shorts \cup longs => args[k].key = <<Trimmed[line[k]]>>
             /\ k \in longs =>
                   args[k].data = IF k < L /\ IsValue(k + 1) THEN <<line[k + 1]>> ELSE <<>>
  <2>1. args[k] \in ToSet(args)
    BY <1>1 DEF ToSet
  <2>2. k \in Nat \ {0} /\ args[k] = PlacedIn(k, L)
    BY <1>1, <1>2
  <2> HIDE DEF L
  <2> QED BY <1>1, <2>1, <2>2, PlacedWhat
<1> DEFINE inOperands == {e \in ToSet(args) : e.type = "coperand"}
           inParams == {e \in ToSet(args) : e.type = "cparam"}
           inList == {e \in ToSet(args) : e.type \notin others}
<1>4. /\ operands \subseteq 1..L /\ shorts \subseteq 1..L /\ longs \subseteq 1..L
      /\ \A k \in 1..L : k \in 1..MaxLength
  BY <1>1
<1>5. /\ Marks(operands, args, MaxLength, inOperands)
      /\ Marks(shorts, args, MaxLength, inParams)
      /\ Marks(longs, args, MaxLength, inList)
      /\ ArrayOf(args, MaxLength, Entry)
  <2>1. /\ \A k \in 1..MaxLength : k \in operands <=> args[k] \in inOperands
        /\ \A k \in 1..MaxLength : k \in shorts <=> args[k] \in inParams
        /\ \A k \in 1..MaxLength : k \in longs <=> args[k] \in inList
    BY <1>3
  <2> QED BY <1>1, <2>1 DEF Marks, ArrayOf
<1> HIDE DEF L, operands, shorts, longs, inOperands, inParams, inList
<1>6. Operands = words(operands)
  <2> DEFINE p == Kept(Positions(L), operands)
             e == Kept(args, inOperands)
  <2>1. /\ Len(p) \in Nat /\ Len(e) = Len(p)
        /\ \A k \in 1..Len(p) : p[k] \in operands /\ e[k] = args[p[k]]
    <3>1. ArrayOf(args, MaxLength, Entry) /\ Marked(operands, args, L, MaxLength, inOperands)
      BY <1>1, <1>4, <1>5 DEF Marked
    <3> QED BY <3>1, KindPlaced
  <2> HIDE DEF p, e
  <2>2. \A k \in 1..Len(p) : e[k].data = <<line[p[k]]>>
    BY <1>3, <1>4, <2>1
  <2>3. [k \in 1..Len(e) |-> e[k].data] = [k \in 1..Len(p) |-> <<line[p[k]]>>]
    BY <2>1, <2>2
  <2> QED BY <2>3 DEF Operands, Of, inOperands, e, p
<1>7. Params = bodies(shorts)
  <2> DEFINE p == Kept(Positions(L), shorts)
             e == Kept(args, inParams)
  <2>1. /\ Len(p) \in Nat /\ Len(e) = Len(p)
        /\ \A k \in 1..Len(p) : p[k] \in shorts /\ e[k] = args[p[k]]
    <3>1. ArrayOf(args, MaxLength, Entry) /\ Marked(shorts, args, L, MaxLength, inParams)
      BY <1>1, <1>4, <1>5 DEF Marked
    <3> QED BY <3>1, KindPlaced
  <2> HIDE DEF p, e
  <2>2. \A k \in 1..Len(p) : e[k].key = <<Trimmed[line[p[k]]]>>
    BY <1>3, <1>4, <2>1
  <2>3. [k \in 1..Len(e) |-> e[k].key] = [k \in 1..Len(p) |-> <<Trimmed[line[p[k]]]>>]
    BY <2>1, <2>2
  <2> QED BY <2>3 DEF Params, Of, inParams, e, p
<1>8. List = bodies(longs)
  <2> DEFINE p == Kept(Positions(L), longs)
             e == Kept(args, inList)
  <2>1. /\ Len(p) \in Nat /\ Len(e) = Len(p)
        /\ \A k \in 1..Len(p) : p[k] \in longs /\ e[k] = args[p[k]]
    <3>1. ArrayOf(args, MaxLength, Entry) /\ Marked(longs, args, L, MaxLength, inList)
      BY <1>1, <1>4, <1>5 DEF Marked
    <3> QED BY <3>1, KindPlaced
  <2> HIDE DEF p, e
  <2>2. \A k \in 1..Len(p) : e[k].key = <<Trimmed[line[p[k]]]>>
    BY <1>3, <1>4, <2>1
  <2>3. [k \in 1..Len(e) |-> e[k].key] = [k \in 1..Len(p) |-> <<Trimmed[line[p[k]]]>>]
    BY <2>1, <2>2
  <2> QED BY <2>3 DEF List, Of, inList, e, p
<1>9. \A k \in 2..L : IsLong(k) =>
         args[k].data = IF k < L /\ IsValue(k + 1) THEN <<line[k + 1]>> ELSE <<>>
  <2> SUFFICES ASSUME NEW k \in 2..L, IsLong(k)
               PROVE  args[k].data = IF k < L /\ IsValue(k + 1) THEN <<line[k + 1]>> ELSE <<>>
    OBVIOUS
  <2>1. k \in longs /\ k \in 1..MaxLength
    BY <1>1 DEF longs
  <2> QED BY <1>3, <2>1
<1> QED BY <1>6, <1>7, <1>8, <1>9 DEF EveryWordPlaced, L, operands, shorts, longs

-----------------------------------------------------------------------------

\* The parameters whose callback gets an entry come in their order.
LEMMA MatchingInOrder ==
    ASSUME params \in Seq(Parameter), NEW entry
    PROVE  /\ Matching(entry) \in Seq(1..Len(params)) /\ Rising(Matching(entry))
           /\ \A k \in 1..Len(Matching(entry)) :
                 entry.key \in {<<params[Matching(entry)[k]].param>>,
                                <<params[Matching(entry)[k]].abbr>>}
<1> DEFINE n == Len(params)
           S == {k \in 1..n : entry.key \in {<<params[k].param>>, <<params[k].abbr>>}}
           M == Kept(Positions(n), S)
<1>1. n \in Nat /\ S \subseteq 1..n /\ (1..n) \cap S = S
  OBVIOUS
<1> HIDE DEF S
<1>2. M \in Seq(S) /\ Rising(M)
  BY <1>1, PlacesKept
<1> HIDE DEF M
<1>3. \A k \in 1..Len(M) : M[k] \in S
  BY <1>2
<1>4. M \in Seq(1..n)
  <2> DEFINE U == 1..n
  <2>1. S \subseteq U
    BY <1>1
  <2> HIDE DEF U
  <2>2. M \in Seq(U)
    BY <1>2, <2>1
  <2> QED BY <2>2 DEF U
<1>5. Matching(entry) = M
  BY DEF Matching, M, S
<1> QED BY <1>2, <1>3, <1>4, <1>5 DEF S

\* The callbacks of one entry come behind those of the entries before it.
LEMMA CallbackInv ==
    ASSUME CargsInv, CallbacksInv, Callback
    PROVE  CallbacksInv'
<1> DEFINE M == Matching(args[ci])
           new == [k \in 1..Len(M) |-> <<ci, M[k]>>]
           n == Len(called)
           C == (1..MaxLength) \X (1..Len(params))
<1>1. /\ cpc = "callbacks" /\ cpc' = cpc /\ ci' = ci + 1 /\ ci \in 1..MaxLength
      /\ args[ci].type # "czero" /\ called' = called \o new
      /\ UNCHANGED <<line, params, args>> /\ MaxLength \in Nat
  BY CargsAssumption DEF CargsInv, CargsTypeOK, Callback
<1>2. /\ M \in Seq(1..Len(params)) /\ Rising(M) /\ Len(params) \in Nat
      /\ \A k \in 1..Len(M) :
            args[ci].key \in {<<params[M[k]].param>>, <<params[M[k]].abbr>>}
  <2>1. params \in Seq(Parameter)
    BY DEF CargsInv, CargsTypeOK
  <2> DEFINE entry == args[ci]
  <2>2. /\ Matching(entry) \in Seq(1..Len(params)) /\ Rising(Matching(entry))
        /\ \A k \in 1..Len(Matching(entry)) :
              entry.key \in {<<params[Matching(entry)[k]].param>>,
                             <<params[Matching(entry)[k]].abbr>>}
    <3> HIDE DEF entry
    <3> QED BY <2>1, MatchingInOrder
  <2> QED BY <2>1, <2>2
<1> HIDE DEF M
<1>3. called \in Seq(C) /\ n \in Nat
  BY DEF CallbacksInv
<1>4. Len(M) \in Nat /\ new \in Seq(C) /\ Len(new) = Len(M)
  <2>1. Len(M) \in Nat /\ \A k \in 1..Len(M) : M[k] \in 1..Len(params)
    BY <1>2
  <2>2. new \in [1..Len(M) -> C]
    BY <1>1, <2>1
  <2> HIDE DEF C, new
  <2> QED BY <2>1, <2>2, SequenceOf
<1>5. \A k \in 1..Len(M) : new[k] = <<ci, M[k]>>
  OBVIOUS
<1> HIDE DEF C, new
<1>6. /\ called' \in Seq(C) /\ Len(called') = n + Len(M)
      /\ \A m \in 1..n : called'[m] = called[m]
      /\ \A m \in 1..Len(M) : called'[n + m] = <<ci, M[m]>>
  <2>1. called \o new \in Seq(C) /\ Len(called \o new) = n + Len(new)
    BY <1>3, <1>4
  <2>2. \A m \in 1..n : (called \o new)[m] = called[m]
    BY <1>3, <1>4
  <2>3. \A m \in 1..Len(new) : (called \o new)[n + m] = new[m]
    BY <1>3, <1>4
  <2>4. called' = called \o new /\ Len(new) = Len(M)
    BY <1>1, <1>4
  <2> QED BY <1>5, <2>1, <2>2, <2>3, <2>4
<1>7. \A m \in 1..Len(called') : m \in 1..n \/ (m - n \in 1..Len(M) /\ m = n + (m - n))
  BY <1>3, <1>4, <1>6
<1>8. /\ \A j \in 1..(ci - 1) : args[j].type # "czero"
      /\ \A m \in 1..n : called[m][1] < ci
  BY <1>1 DEF CallbacksInv
<1>9. \A j \in 1..ci : args[j].type # "czero"
  BY <1>1, <1>8
<1>10. \A m \in 1..Len(called') : called'[m][1] < ci'
  <2> SUFFICES ASSUME NEW m \in 1..Len(called') PROVE called'[m][1] < ci'
    OBVIOUS
  <2>1. CASE m \in 1..n
    <3>1. called[m] \in C /\ called[m][1] < ci /\ called'[m] = called[m]
      BY <1>3, <1>6, <1>8, <2>1
    <3> DEFINE a == called[m][1]
    <3>2. a \in 1..MaxLength
      BY <3>1 DEF C
    <3>3. a < ci /\ ci' = ci + 1 /\ ci \in Nat /\ called'[m][1] = a
      BY <1>1, <3>1
    <3> HIDE DEF a
    <3>4. a < ci'
      BY <1>1, <3>2, <3>3
    <3> QED BY <3>3, <3>4
  <2>2. CASE m - n \in 1..Len(M) /\ m = n + (m - n)
    <3> DEFINE k == m - n
    <3>1. k \in 1..Len(M) /\ m = n + k
      BY <2>2
    <3> HIDE DEF k
    <3>2. called'[m] = <<ci, M[k]>>
      BY <1>6, <3>1
    <3>3. called'[m][1] = ci /\ ci < ci'
      BY <1>1, <3>2
    <3> QED BY <3>3
  <2> QED BY <1>7, <2>1, <2>2
<1>11. CallbacksInOrder'
  <2> DEFINE Fits(k, p) == args[k].key \in {<<p.param>>, <<p.abbr>>}
  <2> SUFFICES ASSUME NEW m \in 1..Len(called')
               PROVE  /\ Fits(called'[m][1], params[called'[m][2]])
                      /\ \A j \in 1..called'[m][1] : args[j].type # "czero"
                      /\ m > 1 =>
                            \/ called'[m - 1][1] < called'[m][1]
                            \/ /\ called'[m - 1][1] = called'[m][1]
                               /\ called'[m - 1][2] < called'[m][2]
    BY <1>1 DEF CallbacksInOrder
  <2>1. CASE m \in 1..n
    <3>1. called'[m] = called[m] /\ (m > 1 => m - 1 \in 1..n /\ called'[m - 1] = called[m - 1])
      BY <1>3, <1>6, <2>1
    <3>2. /\ Fits(called[m][1], params[called[m][2]])
          /\ \A j \in 1..called[m][1] : args[j].type # "czero"
          /\ m > 1 => \/ called[m - 1][1] < called[m][1]
                      \/ /\ called[m - 1][1] = called[m][1]
                         /\ called[m - 1][2] < called[m][2]
      BY <2>1 DEF CallbacksInv, CallbacksInOrder
    <3> HIDE DEF Fits
    <3> QED BY <3>1, <3>2
  <2>2. CASE m - n \in 1..Len(M) /\ m = n + (m - n)
    <3> DEFINE k == m - n
    <3>1. called'[m] = <<ci, M[k]>> /\ k \in 1..Len(M)
      BY <1>6, <2>2
    <3>2. Fits(ci, params[M[k]])
      BY <1>2, <3>1
    <3>3. ASSUME m > 1
          PROVE  \/ called'[m - 1][1] < ci
                 \/ called'[m - 1][1] = ci /\ called'[m - 1][2] < M[k]
      <4>1. CASE k = 1
        <5>1. m - 1 \in 1..n
          BY <1>3, <2>2, <3>3, <4>1
        <5> QED BY <1>6, <1>8, <5>1
      <4>2. CASE k # 1
        <5>1. k - 1 \in 1..Len(M) /\ k - 1 < k /\ m - 1 = n + (k - 1)
          BY <1>3, <1>4, <2>2, <3>1, <4>2
        <5>2. M[k - 1] < M[k]
          BY <1>2, <3>1, <5>1 DEF Rising
        <5>3. called'[m - 1] = <<ci, M[k - 1]>>
          BY <1>6, <5>1
        <5> QED BY <5>2, <5>3
      <4> QED BY <4>1, <4>2
    <3> HIDE DEF Fits, k
    <3> QED BY <1>9, <3>1, <3>2, <3>3
  <2> QED BY <1>7, <2>1, <2>2
<1>12. \A j \in 1..(ci' - 1) : args[j].type # "czero"
  BY <1>1, <1>9
<1> QED BY <1>1, <1>6, <1>10, <1>11, <1>12 DEF CallbacksInv, C

\* An argument uses its own entry, or the one before it.
LEMMA CallbacksArgument ==
    ASSUME CargsInv, CallbacksInv, cpc \in {"np", "parse"}, ci <= Len(line),
           UNCHANGED <<cpc, line, params, called>>,
           Skip \/ NpKey \/ NpValue \/ NpOperand \/ GeneralArgument
    PROVE  CallbacksInv'
<1>1. /\ called = <<>> /\ Len(line) \in 2..MaxLength /\ ci \in 2..Len(line)
      /\ args \in [1..MaxLength -> Entry]
      /\ \A k \in 1..MaxLength : k > Len(line) => args[k].type = "czero"
  BY CargsAssumption DEF CallbacksInv, CargsInv, CargsTypeOK
<1>2. \A k \in 1..MaxLength : k # ci /\ k # ci - 1 => args'[k] = args[k]
  BY <1>1 DEF Skip, NpKey, NpValue, NpOperand, GeneralArgument
<1>3. \A k \in 1..MaxLength : k > Len(line) => args'[k].type = "czero"
  BY <1>1, <1>2
<1>4. called' = <<>> /\ CallbacksInOrder'
  BY <1>1 DEF CallbacksInOrder
<1> QED BY <1>1, <1>3, <1>4 DEF CallbacksInv

LEMMA CallbacksStep ==
    ASSUME CargsInv, CallbacksInv, [CargsNext]_cargsVars
    PROVE  CallbacksInv'
<1>1. CASE UNCHANGED cargsVars
  BY <1>1 DEF cargsVars, CallbacksInv, CallbacksInOrder
<1>2. CASE \E np \in BOOLEAN : ParserCalled(np)
  <2>1. /\ cpc = "idle" /\ called = <<>> /\ called' = <<>> /\ cpc' # "idle"
        /\ args = [k \in 1..MaxLength |-> Blank]
        /\ cpc' \in {"np", "parse", "built"}
    BY <1>2 DEF ParserCalled, CallbacksInv
  <2>2. CallbacksInOrder' /\ called' \in Seq((1..MaxLength) \X (1..Len(params')))
    BY <2>1 DEF CallbacksInOrder
  <2>3. ASSUME cpc' # "built"
        PROVE  /\ Len(line') \in 2..MaxLength
               /\ \A k \in 1..MaxLength : k > Len(line') => args'[k].type = "czero"
    <3>1. /\ ~(Len(line') > MaxLength) /\ Len(line') # 1 /\ line' \in ArgLines
          /\ args' = [args EXCEPT ![1].key = <<line'[1]>>, ![1].type = "cpath"]
      BY <1>2, <2>3 DEF ParserCalled
    <3>2. Len(line') \in Nat /\ Len(line') >= 1 /\ MaxLength \in Nat
      BY <3>1, CargsAssumption
    <3>3. Len(line') \in 2..MaxLength
      <4> DEFINE len == Len(line')
      <4>1. ~(len > MaxLength) /\ len # 1 /\ len \in Nat /\ len >= 1 /\ MaxLength \in Nat
        BY <3>1, <3>2
      <4> HIDE DEF len
      <4>2. len \in 2..MaxLength
        BY <4>1
      <4> QED BY <4>2 DEF len
    <3>4. \A k \in 1..MaxLength : k # 1 => args'[k] = Blank
      BY <2>1, <3>1
    <3> QED BY <3>2, <3>3, <3>4 DEF Blank
  <2> QED BY <2>1, <2>2, <2>3 DEF CallbacksInv
<1>3. CASE Skip \/ NpKey \/ NpValue \/ NpOperand \/ GeneralArgument
  <2>1. /\ cpc \in {"np", "parse"} /\ ci <= Len(line)
        /\ UNCHANGED <<cpc, line, params, called>>
    BY <1>3 DEF Skip, NpKey, NpValue, NpOperand, NpPlain, GeneralArgument, Now
  <2> QED BY <1>3, <2>1, CallbacksArgument
<1>4. CASE Arguments
  BY <1>4 DEF Arguments, CallbacksInv, CallbacksInOrder
<1>5. CASE Callback
  BY <1>5, CallbackInv
<1>6. CASE CallbacksEnd
  BY <1>6 DEF CallbacksEnd, CallbacksInv, CallbacksInOrder
<1>7. CASE ReadBeyond
  <2>1. /\ cpc = "callbacks" /\ ci > MaxLength /\ cpc' \in {"built", "beyond"}
        /\ UNCHANGED <<line, params, ci, args, called>>
    BY <1>7 DEF ReadBeyond
  <2>2. MaxLength \in Nat \ {0} /\ ci \in Nat /\ MaxLength \in 1..(ci - 1)
    BY <2>1, CargsAssumption DEF CargsInv, CargsTypeOK
  <2>3. args[MaxLength].type # "czero" /\ Len(line) \in 2..MaxLength
    BY <2>1, <2>2 DEF CallbacksInv
  <2>4. Len(line) = MaxLength
    BY <2>1, <2>2, <2>3 DEF CallbacksInv
  <2> QED BY <2>1, <2>4 DEF CallbacksInv, CallbacksInOrder
<1> QED BY <1>1, <1>2, <1>3, <1>4, <1>5, <1>6, <1>7 DEF CargsNext

\* The parser's invariants hold in the program that uses it.
LEMMA LibraryCargsStep ==
    ASSUME CargsInv, PlacedInv, CallbacksInv, [Next]_libraryVars
    PROVE  PlacedInv' /\ CallbacksInv'
<1>1. [CargsNext]_cargsVars
  BY DEF Next, libraryVars, Reads, Times, TimesRuns, Parses, Ended
<1> QED BY <1>1, PlacedStep, CallbacksStep

THEOREM CargsInvariance == Spec => [](CargsInv /\ PlacedInv /\ CallbacksInv)
<1>1. Init => PlacedInv /\ CallbacksInv
  BY PlacedIdle DEF Init
<1>2. LibraryTypes => CargsInv
  BY DEF LibraryTypes
<1>3. /\ CargsInv /\ PlacedInv /\ CallbacksInv /\ [Next]_libraryVars
      => PlacedInv' /\ CallbacksInv'
  BY LibraryCargsStep
<1> QED BY <1>1, <1>2, <1>3, LibraryTypesInvariance, PTL DEF Spec

\* Without parameters every argument is placed once, as what it is, and found
\* there in its order (general_parse_np, operands, params, list, data).
THEOREM EveryWordPlacedHolds == Spec => []EveryWordPlaced
<1>1. CargsInv /\ PlacedInv => EveryWordPlaced
  BY WordsPlaced
<1> QED BY <1>1, CargsInvariance, PTL

\* Callbacks are made for named entries only, once each and in order, and the
\* handler leaves its table only when the arguments fill it.
THEOREM CallbacksInOrderHolds == Spec => []CallbacksInOrder
<1>1. CallbacksInv => CallbacksInOrder
  BY DEF CallbacksInv
<1> QED BY <1>1, CargsInvariance, PTL

-----------------------------------------------------------------------------
(* btime: what its options mean, and the times it takes. *)

BtRoles == {"flag", "value", "path"}
BtValued == {"-r", "-x"}

\* The role of an argument follows from the one before it.
LEMMA BtRoleMeans ==
    ASSUME bargv \in Seq(STRING)
    PROVE  /\ BtRole \in [1..Len(bargv) -> BtRoles]
           /\ \A k \in 1..Len(bargv) :
                 BtRole[k] = IF k > 1 /\ BtRole[k - 1] = "flag" /\ bargv[k - 1] \in BtValued
                             THEN "value"
                             ELSE IF bargv[k] \in BtDashed THEN "flag" ELSE "path"
<1> DEFINE n == Len(bargv)
           After(k, before) ==
               IF k > 1 /\ before = "flag" /\ bargv[k - 1] \in BtValued
               THEN "value"
               ELSE IF bargv[k] \in BtDashed THEN "flag" ELSE "path"
           step == [k \in 1..n |-> [v \in BtRoles |-> After(k, v)]]
           P(f) == f = [k \in 1..n |->
                          IF k > 1 /\ f[k - 1] = "flag" /\ bargv[k - 1] \in {"-r", "-x"}
                          THEN "value"
                          ELSE IF bargv[k] \in BtDashed THEN "flag" ELSE "path"]
<1>1. BtRole = CHOOSE f : P(f)
  BY DEF BtRole
<1>2. Recursion(n, BtRoles, "path", step)
  BY DEF Recursion, BtRoles
<1>3. ASSUME NEW k \in 1..n, NEW v \in BtRoles PROVE step[k][v] = After(k, v)
  OBVIOUS
<1>4. \E f : P(f)
  <2> HIDE DEF step
  <2>1. PICK f \in [0..n -> BtRoles] : Follows(f, n, "path", step)
    BY <1>2, RecursionExists
  <2> DEFINE g == [k \in 1..n |-> f[k]]
  <2>2. ASSUME NEW k \in 1..n PROVE g[k] = After(k, g[k - 1])
    <3>1. f[k - 1] \in BtRoles /\ f[k] = step[k][f[k - 1]]
      <4>1. k - 1 \in 0..n
        OBVIOUS
      <4> QED BY <2>1, <4>1 DEF Follows
    <3>2. f[k] = After(k, f[k - 1])
      BY <3>1, <1>3
    <3>3. k > 1 => g[k - 1] = f[k - 1]
      OBVIOUS
    <3>4. k \in Nat /\ g[k] = f[k]
      OBVIOUS
    <3> HIDE DEF g
    <3> QED BY <3>2, <3>3, <3>4
  <2>3. P(g)
    <3>1. g = [k \in 1..n |-> g[k]]
      OBVIOUS
    <3> HIDE DEF g
    <3> QED BY <2>2, <3>1 DEF BtValued
  <2> QED BY <2>3
<1>5. P(BtRole)
  <2> HIDE DEF P
  <2> QED BY <1>1, <1>4
<1> QED BY <1>5 DEF BtRoles, BtValued

\* An argument that is no value is a flag or the path, and a flag with a value
\* makes the next one that.
LEMMA BtRoleNext ==
    ASSUME bargv \in Seq(STRING), NEW k \in 1..Len(bargv), BtRole[k] # "value"
    PROVE  /\ BtRole[k] = IF bargv[k] \in BtDashed THEN "flag" ELSE "path"
           /\ bargv[k] \notin BtValued /\ k < Len(bargv) => BtRole[k + 1] # "value"
           /\ bargv[k] \in BtValued /\ k < Len(bargv) =>
                 /\ BtRole[k + 1] = "value"
                 /\ k + 1 < Len(bargv) => BtRole[k + 2] # "value"
<1>1. BtValued \subseteq BtDashed
  BY BtimeAssumption DEF BtValued
<1>2. \A j \in 1..Len(bargv) :
         BtRole[j] = IF j > 1 /\ BtRole[j - 1] = "flag" /\ bargv[j - 1] \in BtValued
                     THEN "value"
                     ELSE IF bargv[j] \in BtDashed THEN "flag" ELSE "path"
  BY BtRoleMeans
<1>3. BtRole[k] = IF bargv[k] \in BtDashed THEN "flag" ELSE "path"
  BY <1>2
<1>4. ASSUME k < Len(bargv)
      PROVE  BtRole[k + 1] = IF BtRole[k] = "flag" /\ bargv[k] \in BtValued
                             THEN "value"
                             ELSE IF bargv[k + 1] \in BtDashed THEN "flag" ELSE "path"
  <2>1. k + 1 \in 1..Len(bargv) /\ k + 1 > 1 /\ (k + 1) - 1 = k
    BY <1>4
  <2> QED BY <1>2, <2>1
<1>5. ASSUME k + 1 < Len(bargv), BtRole[k + 1] = "value" PROVE BtRole[k + 2] # "value"
  <2>1. k + 2 \in 1..Len(bargv) /\ (k + 2) - 1 = k + 1
    BY <1>5
  <2> QED BY <1>2, <1>5, <2>1
<1> QED BY <1>1, <1>3, <1>4, <1>5

\* A flag among the first m arguments.
BtFlags(flag, m) == {k \in 1..m : BtRole[k] = "flag" /\ bargv[k] = flag}

LEMMA BtFlagsMore ==
    ASSUME NEW m \in Nat, NEW flag
    PROVE  /\ BtFlags(flag, 0) = {}
           /\ BtFlags(flag, m) \subseteq 1..m
           /\ BtFlags(flag, m + 1) =
                 IF BtRole[m + 1] = "flag" /\ bargv[m + 1] = flag
                 THEN BtFlags(flag, m) \cup {m + 1} ELSE BtFlags(flag, m)
  BY DEF BtFlags

\* The options are those of the arguments already read.
BtMeant ==
    /\ \A k \in 1..(bi - 1) : BtRole[k] # "path"
    /\ nRuns = IF BtFlags("-r", bi - 1) = {} THEN 1
               ELSE BtNumber[bargv[Max(BtFlags("-r", bi - 1)) + 1]]
    /\ csv <=> BtFlags("-x", bi - 1) # {}
    /\ quiet <=> BtFlags("-q", bi - 1) # {}

BtMeantInv ==
    /\ bpc = "idle" => nRuns = 1 /\ ~csv /\ ~quiet
    /\ bpc \in {"argv", "run", "exit0"} => BtMeant
    /\ bpc = "argv" /\ bi <= Len(bargv) => BtRole[bi] # "value"
    /\ bpc \in {"run", "exit0"} =>
          bi \in 1..Len(bargv) /\ BtRole[bi] = "path" /\ path = bargv[bi]

\* The clock of a run is not the one that can be set, so that its time is the
\* true one.
BtTimesInv ==
    /\ part = "btime" => kind # "realtime"
    /\ times = took
    /\ bpc = "exit0" => printed = Lines /\ Len(times) = nRuns

LEMMA BtFlagsKept ==
    ASSUME bargv' = bargv
    PROVE  BtRole' = BtRole /\ \A flag, m : BtFlags(flag, m)' = BtFlags(flag, m)
<1>1. BtRole' = BtRole
  BY DEF BtRole
<1> QED BY <1>1 DEF BtFlags

\* Another argument read, with the value behind it.
LEMMA BtMeantTaken ==
    ASSUME BtInv, BtMeantInv, bpc = "argv", bi <= Len(bargv), bargv[bi] \in BtDashed,
           UNCHANGED <<bpc, bargv, path>>,
           bi' = IF bargv[bi] \in BtValued THEN bi + 2 ELSE bi + 1,
           bargv[bi] \in BtValued => bi < Len(bargv),
           nRuns' = IF bargv[bi] = "-r" THEN BtNumber[bargv[bi + 1]] ELSE nRuns,
           csv' <=> csv \/ bargv[bi] = "-x",
           quiet' <=> quiet \/ bargv[bi] = "-q"
    PROVE  BtMeantInv'
<1> DEFINE m == bi - 1
<1>1. /\ m \in Nat /\ bi = m + 1 /\ bi \in 1..Len(bargv) /\ bargv \in Seq(STRING)
      /\ Len(bargv) \in Nat
  BY DEF BtInv, BtimeTypeOK
<1>2. BtMeant /\ BtRole[bi] # "value"
  BY DEF BtMeantInv
<1>3. /\ BtRole[bi] = "flag"
      /\ bargv[bi] \notin BtValued /\ bi < Len(bargv) => BtRole[bi + 1] # "value"
      /\ bargv[bi] \in BtValued /\ bi < Len(bargv) =>
            BtRole[bi + 1] = "value" /\ (bi + 1 < Len(bargv) => BtRole[bi + 2] # "value")
  BY <1>1, <1>2, BtRoleNext
<1>4. BtRole' = BtRole /\ \A flag, k : BtFlags(flag, k)' = BtFlags(flag, k)
  BY BtFlagsKept
<1>5. \A flag : BtFlags(flag, bi) =
         IF bargv[bi] = flag THEN BtFlags(flag, m) \cup {bi} ELSE BtFlags(flag, m)
  <2> HIDE DEF m
  <2> QED BY <1>1, <1>3, BtFlagsMore
<1>6. bargv[bi] \in BtValued =>
         \A flag : BtFlags(flag, bi + 1) = BtFlags(flag, bi)
  <2> SUFFICES ASSUME bargv[bi] \in BtValued, NEW flag
               PROVE  BtFlags(flag, bi + 1) = BtFlags(flag, bi)
    OBVIOUS
  <2>1. bi \in Nat /\ BtRole[bi + 1] # "flag"
    BY <1>1, <1>3
  <2> QED BY <2>1, BtFlagsMore
<1>7. \A flag : BtFlags(flag, bi' - 1) = BtFlags(flag, bi)
  <2>1. CASE bargv[bi] \in BtValued
    <3>1. bi' - 1 = bi + 1
      BY <1>1, <2>1
    <3> QED BY <1>6, <2>1, <3>1
  <2>2. CASE bargv[bi] \notin BtValued
    <3>1. bi' - 1 = bi
      BY <1>1, <2>2
    <3> QED BY <3>1
  <2> QED BY <2>1, <2>2
<1>8. \A k \in 1..(bi' - 1) : BtRole[k] # "path"
  <2>1. \A k \in 1..m : BtRole[k] # "path"
    BY <1>2 DEF BtMeant
  <2>2. bi' - 1 = bi \/ (bi' - 1 = bi + 1 /\ BtRole[bi + 1] = "value")
    BY <1>1, <1>3
  <2> HIDE DEF m
  <2> QED BY <1>1, <1>3, <2>1, <2>2
<1>9. nRuns' = IF BtFlags("-r", bi) = {} THEN 1
               ELSE BtNumber[bargv[Max(BtFlags("-r", bi)) + 1]]
  <2>1. CASE bargv[bi] = "-r"
    <3>1. BtFlags("-r", bi) \in SUBSET (1..bi) /\ bi \in BtFlags("-r", bi) /\ bi \in Nat
      <4>1. bi \in Nat /\ bi \in BtFlags("-r", bi)
        BY <1>1, <1>5, <2>1
      <4>2. BtFlags("-r", bi) \subseteq 1..bi
        BY <4>1, BtFlagsMore
      <4> QED BY <4>1, <4>2
    <3>2. Max(BtFlags("-r", bi)) = bi
      BY <3>1, MaxUpTo
    <3> QED BY <2>1, <3>1, <3>2
  <2>2. CASE bargv[bi] # "-r"
    <3>1. BtFlags("-r", bi) = BtFlags("-r", m) /\ nRuns' = nRuns
      BY <1>5, <2>2
    <3> QED BY <1>2, <3>1 DEF BtMeant
  <2> QED BY <2>1, <2>2
<1>10. csv' <=> BtFlags("-x", bi) # {}
  BY <1>2, <1>5 DEF BtMeant
<1>11. quiet' <=> BtFlags("-q", bi) # {}
  BY <1>2, <1>5 DEF BtMeant
<1>12. BtMeant'
  <2>1. \A flag : BtFlags(flag, bi - 1)' = BtFlags(flag, bi' - 1)
    BY <1>4 DEF BtFlags
  <2>2. \A flag : BtFlags(flag, bi - 1)' = BtFlags(flag, bi)
    BY <1>7, <2>1
  <2>3. \A k \in 1..(bi' - 1) : BtRole'[k] # "path"
    BY <1>4, <1>8
  <2> QED BY <1>9, <1>10, <1>11, <2>2, <2>3 DEF BtMeant
<1>13. bi' <= Len(bargv) => BtRole[bi'] # "value"
  BY <1>1, <1>3
<1> QED BY <1>4, <1>12, <1>13 DEF BtMeantInv

\* The command line, and what leaves the options alone.
LEMMA BtMeantKept ==
    ASSUME BtMeantInv, UNCHANGED btParse,
           bpc' = bpc \/ (bpc = "run" /\ bpc' \in {"exit0", "threw"})
    PROVE  BtMeantInv'
<1>1. UNCHANGED <<bargv, bi, nRuns, csv, quiet, path>>
  BY DEF btParse
<1>2. BtRole' = BtRole /\ BtFlags("-r", bi - 1)' = BtFlags("-r", bi - 1)
      /\ BtFlags("-x", bi - 1)' = BtFlags("-x", bi - 1)
      /\ BtFlags("-q", bi - 1)' = BtFlags("-q", bi - 1)
  BY <1>1, BtFlagsKept DEF BtFlags
<1>3. BtMeant' <=> BtMeant
  BY <1>1, <1>2 DEF BtMeant
<1> QED BY <1>1, <1>2, <1>3 DEF BtMeantInv

LEMMA BtRoleFirst ==
    bargv \in Seq(STRING) => \A k \in 1..Len(bargv) : k = 1 => BtRole[k] # "value"
  BY BtRoleMeans

LEMMA BtMeantParses ==
    ASSUME BtInv, BtMeantInv,
           BtMain \/ BtTakeRuns \/ BtTakeSeparator \/ BtTakeQuiet \/ BtTakePath
             \/ BtRefuse
    PROVE  BtMeantInv'
<1> USE DEF BtElse, BtArgument, BtHasValue
<1>0. {"-r", "-x", "-q"} \subseteq BtDashed /\ BtLines \subseteq Seq(STRING)
  BY BtimeAssumption
<1>1. CASE BtMain
  <2>1. /\ bargv' \in Seq(STRING) /\ bi' = 1 /\ nRuns' = 1 /\ ~csv' /\ ~quiet'
        /\ bpc' \in {"usage", "argv"}
    BY <1>0, <1>1 DEF BtMain, BtInv, BtMeantInv
  <2>2. \A flag : BtFlags(flag, bi - 1)' = {}
    BY <2>1 DEF BtFlags
  <2>3. BtMeant'
    <3>1. \A k \in 1..(bi' - 1) : BtRole'[k] # "path"
      BY <2>1
    <3> QED BY <2>1, <2>2, <3>1 DEF BtMeant
  <2>4. bi' <= Len(bargv') => BtRole'[bi'] # "value"
    <3>1. (bargv \in Seq(STRING) => \A k \in 1..Len(bargv) : k = 1 => BtRole[k] # "value")'
      BY BtRoleFirst, PTL
    <3> QED BY <2>1, <3>1
  <2> QED BY <2>1, <2>3, <2>4 DEF BtMeantInv
<1>2. CASE BtTakeRuns
  <2>1. /\ bpc = "argv" /\ bi <= Len(bargv) /\ bargv[bi] = "-r" /\ bi < Len(bargv)
        /\ nRuns' = BtNumber[bargv[bi + 1]] /\ bi' = bi + 2
        /\ UNCHANGED <<bpc, bargv, csv, quiet, path>>
    BY <1>2 DEF BtTakeRuns
  <2> QED BY <1>0, <2>1, BtMeantTaken DEF BtValued
<1>3. CASE BtTakeSeparator
  <2>1. /\ bpc = "argv" /\ bi <= Len(bargv) /\ bargv[bi] = "-x" /\ bi < Len(bargv)
        /\ csv' = TRUE /\ bi' = bi + 2
        /\ UNCHANGED <<bpc, bargv, nRuns, quiet, path>>
    BY <1>3 DEF BtTakeSeparator
  <2> QED BY <1>0, <2>1, BtMeantTaken DEF BtValued
<1>4. CASE BtTakeQuiet
  <2>1. /\ bpc = "argv" /\ bi <= Len(bargv) /\ bargv[bi] = "-q"
        /\ quiet' = TRUE /\ bi' = bi + 1
        /\ UNCHANGED <<bpc, bargv, nRuns, csv, path>>
    BY <1>4 DEF BtTakeQuiet
  <2> QED BY <1>0, <2>1, BtMeantTaken DEF BtValued
<1>5. CASE BtTakePath
  <2>1. /\ bpc = "argv" /\ bi <= Len(bargv) /\ bargv[bi] \notin BtDashed
        /\ path' = bargv[bi] /\ bpc' = "run" /\ UNCHANGED <<bargv, bi, nRuns, csv, quiet>>
    BY <1>5 DEF BtTakePath
  <2>2. bi \in 1..Len(bargv) /\ bargv \in Seq(STRING) /\ BtRole[bi] # "value" /\ BtMeant
    BY <2>1 DEF BtInv, BtimeTypeOK, BtMeantInv
  <2>3. BtRole[bi] = "path"
    BY <2>1, <2>2, BtRoleNext
  <2>4. BtRole' = BtRole /\ \A flag : BtFlags(flag, bi - 1)' = BtFlags(flag, bi - 1)
    BY <2>1, BtFlagsKept DEF BtFlags
  <2>5. BtMeant'
    BY <2>1, <2>2, <2>4 DEF BtMeant
  <2> QED BY <2>1, <2>2, <2>3, <2>4, <2>5 DEF BtMeantInv
<1>6. CASE BtRefuse
  <2>1. bpc' \in {"usage", "help"}
    BY <1>6 DEF BtRefuse
  <2> QED BY <2>1 DEF BtMeantInv
<1> QED BY <1>1, <1>2, <1>3, <1>4, <1>5, <1>6

\* The runs.
LEMMA BtMeantRuns ==
    ASSUME BtMeantInv, BtRun \/ BtRan \/ BtReport \/ BtCall
    PROVE  BtMeantInv'
<1>1. UNCHANGED btParse /\ bpc = "run" /\ bpc' \in {"run", "exit0", "threw"}
  BY DEF BtRun, BtRan, BtReport, BtCall, btVars
<1> QED BY <1>1, BtMeantKept

LEMMA BtTimesParses ==
    ASSUME BtInv, BtTimesInv, UNCHANGED part,
           BtMain \/ BtTakeRuns \/ BtTakeSeparator \/ BtTakeQuiet \/ BtTakePath
             \/ BtRefuse
    PROVE  BtTimesInv'
<1>1. UNCHANGED <<times, took, kind>> /\ bpc' # "exit0"
  BY DEF BtMain, BtTakeRuns, BtTakeSeparator, BtTakeQuiet, BtTakePath, BtRefuse, BtElse,
     BtArgument, clockVars, objectVars
<1> QED BY <1>1 DEF BtTimesInv

LEMMA BtTimesRuns ==
    ASSUME BtInv, ClocksInv, BtTimesInv, part = "btime", UNCHANGED part,
           BtRun \/ BtRan \/ BtReport \/ BtCall
    PROVE  BtTimesInv'
<1>1. CASE BtRun
  BY <1>1 DEF BtRun, TimedStart, Construct, btVars, btParse, BtTimesInv
<1>2. CASE BtRan
  <2>1. bpc = "run" /\ bpc' # "exit0" /\ kind' = "none" /\ kind # "realtime"
    BY <1>2 DEF BtRan, BtTimesInv
  <2>2. CASE tpc = "done"
    <3>1. 1 \in 1..Len(results) /\ results \in Seq(Int)
          /\ spans \in Seq([took : Int, setBy : Int]) /\ 1 \in 1..Len(spans)
      BY <2>2 DEF ClocksInv, TimedInv
    <3>2. results[1] \in Int /\ spans[1] \in [took : Int, setBy : Int]
      BY <3>1, ElementOfSeq
    <3>3. results[1] - spans[1].took = 0
      BY <2>1, <3>1 DEF ClocksInv, ErrorIsTheSetting
    <3> DEFINE a == results[1]
               b == spans[1].took
    <3>4. a \in Int /\ b \in Int /\ a - b = 0
      BY <3>2, <3>3
    <3> HIDE DEF a, b
    <3>5. a = b
      BY <3>4
    <3>6. times' = Append(times, a) /\ took' = Append(took, b)
      BY <1>2, <2>2 DEF BtRan, a, b
    <3> QED BY <2>1, <3>5, <3>6 DEF BtTimesInv
  <2>3. CASE tpc # "done"
    BY <1>2, <2>1, <2>3 DEF BtRan, BtTimesInv
  <2> QED BY <2>2, <2>3
<1>3. CASE BtReport
  <2>1. /\ bpc = "run" /\ Len(times) = nRuns /\ printed' = Lines
        /\ UNCHANGED <<bargv, nRuns, csv, quiet, times, took, kind>>
    BY <1>3 DEF BtReport, btParse, clockVars, objectVars
  <2>2. Lines' = Lines
    BY <2>1 DEF Lines
  <2> QED BY <2>1, <2>2 DEF BtTimesInv
<1>4. CASE BtCall
  <2>1. bpc = "run" /\ bpc' = bpc /\ UNCHANGED <<times, took, kind>>
    BY <1>4 DEF BtCall, btVars, Tick, SetRealtime, TimedBegin, TimedEnd, TimedThrows,
       objectVars
  <2> QED BY <2>1 DEF BtTimesInv
<1> QED BY <1>1, <1>2, <1>3, <1>4

LEMMA BtimeInvStep ==
    ASSUME BtInv, ClocksInv, BtMeantInv, BtTimesInv, [Next]_libraryVars
    PROVE  BtMeantInv' /\ BtTimesInv'
<1>1. UNCHANGED part
  BY DEF Next, libraryVars, Reads, Times, TimesRuns, Parses, Ended
<1>2. CASE TimesRuns
  <2>1. part = "btime" /\ (BtNext \/ BtCall)
    BY <1>2 DEF TimesRuns
  <2>2. CASE BtRun \/ BtRan \/ BtReport \/ BtCall
    BY <1>1, <2>1, <2>2, BtMeantRuns, BtTimesRuns
  <2>3. CASE BtMain \/ BtTakeRuns \/ BtTakeSeparator \/ BtTakeQuiet \/ BtTakePath
               \/ BtRefuse
    BY <1>1, <2>1, <2>3, BtMeantParses, BtTimesParses
  <2> QED BY <2>1, <2>2, <2>3 DEF BtNext
<1>3. CASE UNCHANGED btVars /\ (part = "btime" => UNCHANGED kind)
  <2>1. UNCHANGED btParse /\ UNCHANGED <<bpc, times, took, printed>>
    BY <1>3 DEF btVars
  <2>2. BtMeantInv'
    BY <2>1, BtMeantKept
  <2>3. Lines' = Lines
    BY <2>1 DEF Lines, btParse
  <2> QED BY <1>1, <1>3, <2>1, <2>2, <2>3 DEF BtTimesInv, btParse
<1>4. \/ TimesRuns
      \/ UNCHANGED btVars /\ (part = "btime" => UNCHANGED kind)
  BY DEF Next, libraryVars, Reads, Times, Parses, Ended, btimeVars, clockVars, objectVars
<1> QED BY <1>2, <1>3, <1>4

-----------------------------------------------------------------------------

\* The first path is the one the options were read up to.
LEMMA BtOptions ==
    ASSUME BtInv, BtMeantInv, bpc = "exit0"
    PROVE  /\ Min(BtPaths) = bi /\ path = bargv[bi]
           /\ \A flag : BtGiven(flag) = BtFlags(flag, bi - 1)
<1>1. /\ bi \in 1..Len(bargv) /\ BtRole[bi] = "path" /\ path = bargv[bi] /\ BtMeant
      /\ bargv \in Seq(STRING) /\ DOMAIN bargv = 1..Len(bargv)
  BY DEF BtInv, BtMeantInv
<1>2. \A k \in 1..(bi - 1) : BtRole[k] # "path"
  BY <1>1 DEF BtMeant
<1>3. bi \in BtPaths /\ \A k \in BtPaths : k \in 1..Len(bargv) /\ bi <= k
  <2>1. ASSUME NEW k \in BtPaths PROVE k \in 1..Len(bargv) /\ bi <= k
    <3>1. k \in 1..Len(bargv) /\ BtRole[k] = "path"
      BY <1>1 DEF BtPaths
    <3> QED BY <1>1, <1>2, <3>1
  <2> QED BY <1>1, <2>1 DEF BtPaths
<1>4. Min(BtPaths) = bi
  <2> DEFINE m == Min(BtPaths)
  <2>1. m \in BtPaths /\ \A k \in BtPaths : m <= k
    BY <1>3 DEF Min
  <2> HIDE DEF m
  <2>2. m \in 1..Len(bargv) /\ m <= bi /\ bi <= m
    BY <1>3, <2>1
  <2>3. m = bi
    BY <1>1, <2>2
  <2> QED BY <2>3 DEF m
<1>5. ASSUME NEW flag PROVE BtGiven(flag) = BtFlags(flag, bi - 1)
  <2>1. \A k \in 1..Len(bargv) : (\A p \in BtPaths : k < p) <=> k \in 1..(bi - 1)
    BY <1>1, <1>3
  <2>2. \A k \in 1..(bi - 1) : k \in 1..Len(bargv)
    BY <1>1
  <2>3. \A k : k \in BtGiven(flag) <=> k \in BtFlags(flag, bi - 1)
    BY <1>1, <2>1, <2>2 DEF BtGiven, BtFlags
  <2> QED BY <2>3
<1> QED BY <1>1, <1>4, <1>5

\* Of three stretches of lines, each of one kind, those of a kind.
OfKind(T, K) == \A x \in T : x.kind = K
Stretch(s, T, K) == s \in Seq(T) /\ OfKind(T, K)

LEMMA KeptOfKinds ==
    ASSUME NEW A, NEW B, NEW C, NEW a, NEW b, NEW c,
           Stretch(a, A, "header"), Stretch(b, B, "run"), Stretch(c, C, "stats")
    PROVE  /\ Kept(a \o b \o c, {x \in ToSet(a \o b \o c) : x.kind = "run"}) = b
           /\ Kept(a \o b \o c, {x \in ToSet(a \o b \o c) : x.kind = "stats"}) = c
<1> DEFINE T == A \cup B \cup C
           s == a \o b \o c
<1>0. /\ a \in Seq(A) /\ b \in Seq(B) /\ c \in Seq(C)
      /\ OfKind(A, "header") /\ OfKind(B, "run") /\ OfKind(C, "stats")
  BY DEF Stretch
<1>1. a \in Seq(T) /\ b \in Seq(T) /\ c \in Seq(T)
  <2>1. A \subseteq T /\ B \subseteq T /\ C \subseteq T
    OBVIOUS
  <2> HIDE DEF T
  <2> QED BY <1>0, <2>1
<1>2. a \o b \in Seq(T) /\ s \in Seq(T)
  <2> HIDE DEF T
  <2> QED BY <1>1
<1>3. ASSUME NEW K
      PROVE  Kept(s, {x \in ToSet(s) : x.kind = K}) =
                Kept(a, {x \in T : x.kind = K}) \o Kept(b, {x \in T : x.kind = K})
                  \o Kept(c, {x \in T : x.kind = K})
  <2> DEFINE S == {x \in T : x.kind = K}
             V == ToSet(s)
             R == {x \in V : x.kind = K}
  <2>1. s \in Seq(V) /\ V \subseteq T
    <3> HIDE DEF s, T
    <3> QED BY <1>2, Members
  <2>2. \A x \in V : x \in R <=> x \in S
    <3> HIDE DEF V, T
    <3> QED BY <2>1
  <2>3. Kept(s, R) = Kept(s, S)
    <3> HIDE DEF s, V, S, R
    <3> QED BY <2>1, <2>2, KeptSame
  <2>4. Kept(a \o b, S) = Kept(a, S) \o Kept(b, S)
    <3> HIDE DEF T, S
    <3> QED BY <1>1, KeptJoined
  <2>5. Kept(s, S) = Kept(a \o b, S) \o Kept(c, S)
    <3> DEFINE d == a \o b
    <3>1. d \in Seq(T) /\ c \in Seq(T)
      BY <1>1, <1>2
    <3> HIDE DEF T, S, d
    <3>2. Kept(d \o c, S) = Kept(d, S) \o Kept(c, S)
      BY <3>1, KeptJoined
    <3> QED BY <3>2 DEF d
  <2> QED BY <2>3, <2>4, <2>5
<1>4. ASSUME NEW K \in {"run", "stats"}
      PROVE  /\ Kept(a, {x \in T : x.kind = K}) = <<>>
             /\ Kept(b, {x \in T : x.kind = K}) = IF K = "run" THEN b ELSE <<>>
             /\ Kept(c, {x \in T : x.kind = K}) = IF K = "stats" THEN c ELSE <<>>
  <2> DEFINE S == {x \in T : x.kind = K}
  <2>1. /\ \A x \in A : x \notin S
        /\ \A x \in B : x \in S <=> K = "run"
        /\ \A x \in C : x \in S <=> K = "stats"
    BY <1>0 DEF OfKind
  <2> HIDE DEF S
  <2>2. Kept(a, S) = <<>>
    BY <1>0, <2>1, KeptAll
  <2>3. Kept(b, S) = IF K = "run" THEN b ELSE <<>>
    BY <1>0, <2>1, KeptAll
  <2>4. Kept(c, S) = IF K = "stats" THEN c ELSE <<>>
    BY <1>0, <2>1, KeptAll
  <2> QED BY <2>2, <2>3, <2>4 DEF S
<1>5. <<>> \o b \o <<>> = b /\ <<>> \o <<>> \o c = c
  BY <1>0
<1> HIDE DEF T
<1>6. Kept(s, {x \in ToSet(s) : x.kind = "run"}) = <<>> \o b \o <<>>
  BY <1>3, <1>4
<1>7. Kept(s, {x \in ToSet(s) : x.kind = "stats"}) = <<>> \o <<>> \o c
  BY <1>3, <1>4
<1> QED BY <1>5, <1>6, <1>7

\* What btime printed, by the kind of line: the runs one by one, or their
\* statistics.
LEMMA BtPrinted ==
    ASSUME BtInv, BtTimesInv, bpc = "exit0"
    PROVE  LET ofRun == Kept(printed, {x \in ToSet(printed) : x.kind = "run"})
               ofStats == Kept(printed, {x \in ToSet(printed) : x.kind = "stats"})
           IN  /\ IF csv \/ nRuns = 1
                  THEN [k \in 1..Len(ofRun) |-> ofRun[k].time] = took
                  ELSE ofRun = <<>>
               /\ ofStats = IF nRuns > 1 /\ ~(csv /\ quiet)
                            THEN <<[kind |-> "stats", stats |-> ComputeStats(took)]>>
                            ELSE <<>>
<1> DEFINE n == Len(times)
           stats == [kind |-> "stats", stats |-> ComputeStats(times)]
           run(k) == [kind |-> "run", n |-> k, time |-> times[k]]
           a == IF csv /\ ~quiet THEN <<[kind |-> "header"]>> ELSE <<>>
           b == IF csv \/ nRuns = 1 THEN [k \in 1..n |-> run(k)] ELSE <<>>
           c == IF nRuns > 1 /\ ~(csv /\ quiet) THEN <<stats>> ELSE <<>>
           A == {[kind |-> "header"]}
           B == {run(k) : k \in 1..n}
           C == {stats}
<1>1. /\ printed = Lines /\ n = nRuns /\ times = took /\ times \in Seq(Int)
      /\ n \in Nat \ {0} /\ csv \in BOOLEAN /\ quiet \in BOOLEAN
  BY DEF BtTimesInv, BtInv, BtimeTypeOK
<1>2. OfKind(A, "header") /\ OfKind(B, "run") /\ OfKind(C, "stats")
  BY DEF OfKind
<1>3. a \in Seq(A) /\ c \in Seq(C) /\ b \in Seq(B) /\ (csv \/ nRuns = 1 => Len(b) = n)
  <2>1. a \in Seq(A)
    <3>1. <<[kind |-> "header"]>> \in Seq(A) /\ <<>> \in Seq(A)
      OBVIOUS
    <3> QED BY <3>1
  <2>2. c \in Seq(C)
    <3> HIDE DEF stats
    <3>1. <<stats>> \in Seq(C) /\ <<>> \in Seq(C)
      OBVIOUS
    <3> QED BY <3>1
  <2>3. b \in Seq(B) /\ (csv \/ nRuns = 1 => Len(b) = n)
    <3> DEFINE f == [k \in 1..n |-> run(k)]
    <3>1. f \in [1..n -> B]
      OBVIOUS
    <3> HIDE DEF f, B
    <3>2. f \in Seq(B) /\ Len(f) = n /\ <<>> \in Seq(B)
      <4>1. f \in Seq(B) /\ Len(f) = n
        BY <1>1, <3>1, SequenceOf
      <4> QED BY <4>1
    <3>3. b = IF csv \/ nRuns = 1 THEN f ELSE <<>>
      BY DEF f
    <3> HIDE DEF b
    <3> QED BY <3>2, <3>3
  <2> QED BY <2>1, <2>2, <2>3
<1>4. Lines = a \o b \o c
  <2> HIDE DEF A, B, C
  <2>1. CASE csv
    BY <1>1, <2>1 DEF Lines
  <2>2. CASE ~csv /\ nRuns = 1
    <3>1. Lines = <<run(1)>> /\ a = <<>> /\ c = <<>> /\ n = 1
      BY <1>1, <2>2 DEF Lines
    <3>2. b = <<run(1)>>
      <4>1. b = [k \in 1..1 |-> run(k)]
        BY <2>2, <3>1
      <4> QED BY <4>1
    <3> QED BY <3>1, <3>2
  <2>3. CASE ~csv /\ nRuns # 1
    <3>1. Lines = <<stats>> /\ a = <<>> /\ b = <<>> /\ c = <<stats>>
      BY <1>1, <2>3 DEF Lines
    <3> HIDE DEF stats, a, b, c
    <3> QED BY <3>1
  <2> QED BY <1>1, <2>1, <2>2, <2>3
<1>5. csv \/ nRuns = 1 => [k \in 1..Len(b) |-> b[k].time] = took
  <2> SUFFICES ASSUME csv \/ nRuns = 1 PROVE [k \in 1..Len(b) |-> b[k].time] = took
    OBVIOUS
  <2>1. \A k \in 1..n : b[k].time = times[k]
    OBVIOUS
  <2>2. Len(b) = n
    BY <1>3
  <2> HIDE DEF b, n
  <2>3. times = [k \in 1..n |-> times[k]]
    BY <1>1 DEF n
  <2> QED BY <1>1, <2>1, <2>2, <2>3
<1>6. ~(csv \/ nRuns = 1) => b = <<>>
  OBVIOUS
<1>7. c = IF nRuns > 1 /\ ~(csv /\ quiet)
          THEN <<[kind |-> "stats", stats |-> ComputeStats(took)]>> ELSE <<>>
  BY <1>1
<1> HIDE DEF a, b, c, A, B, C
<1>8. /\ Kept(a \o b \o c, {x \in ToSet(a \o b \o c) : x.kind = "run"}) = b
      /\ Kept(a \o b \o c, {x \in ToSet(a \o b \o c) : x.kind = "stats"}) = c
  <2>1. Stretch(a, A, "header") /\ Stretch(b, B, "run") /\ Stretch(c, C, "stats")
    BY <1>2, <1>3 DEF Stretch
  <2> QED BY ONLY <2>1, KeptOfKinds
<1>9. printed = a \o b \o c
  BY <1>1, <1>4
<1> QED BY <1>5, <1>6, <1>7, <1>8, <1>9

LEMMA BtimeIsFaithful ==
    ASSUME BtInv, BtMeantInv, BtTimesInv
    PROVE  BtimeFaithful
<1> SUFFICES ASSUME bpc = "exit0" PROVE BtimeFaithful
  BY DEF BtimeFaithful
<1> DEFINE given == BtGiven("-r")
           n == IF given = {} THEN 1 ELSE BtNumber[bargv[Max(given) + 1]]
           ofRun == Kept(printed, {x \in ToSet(printed) : x.kind = "run"})
           ofStats == Kept(printed, {x \in ToSet(printed) : x.kind = "stats"})
           line1 == <<[kind |-> "stats", stats |-> ComputeStats(took)]>>
<1>1. /\ BtMeant /\ Len(took) = nRuns /\ nRuns \in Nat
  BY DEF BtMeantInv, BtTimesInv, BtInv, BtimeTypeOK
<1>2. /\ path = bargv[Min(BtPaths)]
      /\ \A flag : BtGiven(flag) = BtFlags(flag, bi - 1)
  BY BtOptions
<1>3. n = nRuns /\ (csv <=> BtGiven("-x") # {}) /\ (quiet <=> BtGiven("-q") # {})
  BY <1>1, <1>2 DEF BtMeant
<1>4. /\ IF csv \/ nRuns = 1
         THEN [k \in 1..Len(ofRun) |-> ofRun[k].time] = took
         ELSE ofRun = <<>>
      /\ ofStats = IF nRuns > 1 /\ ~(csv /\ quiet) THEN line1 ELSE <<>>
  BY BtPrinted
<1>5. line1 # <<>>
  OBVIOUS
<1> HIDE DEF n, ofRun, ofStats, line1
<1>6. /\ IF BtGiven("-x") # {} \/ n = 1
         THEN [k \in 1..Len(ofRun) |-> ofRun[k].time] = took
         ELSE ofRun = <<>>
      /\ ofStats # <<>> => ofStats = line1
      /\ (ofStats # <<>>) <=> (n > 1 /\ ~(BtGiven("-x") # {} /\ BtGiven("-q") # {}))
  BY <1>3, <1>4, <1>5
<1> QED BY <1>1, <1>2, <1>3, <1>6 DEF BtimeFaithful, n, ofRun, ofStats, line1

\* btime's options are those before the first path, and its times the true ones.
THEOREM BtimeInvariance == Spec => [](BtInv /\ BtMeantInv /\ BtTimesInv)
<1>1. Init => BtMeantInv /\ BtTimesInv
  BY DEF Init, BtimeInit, ClocksInit, BtMeantInv, BtTimesInv
<1>2. LibraryTypes => BtInv
  BY DEF LibraryTypes
<1>3. /\ BtInv /\ ClocksInv /\ BtMeantInv /\ BtTimesInv /\ [Next]_libraryVars
      => BtMeantInv' /\ BtTimesInv'
  BY BtimeInvStep
<1> QED BY <1>1, <1>2, <1>3, LibraryTypesInvariance, ClocksInvariance, PTL DEF Spec

\* btime prints the true duration of every run it was asked for, in their
\* order, or their statistics, whatever happens to the realtime clock (main of
\* btime.cpp, bench_bin).
THEOREM BtimeFaithfulHolds == Spec => []BtimeFaithful
<1>1. BtInv /\ BtMeantInv /\ BtTimesInv => BtimeFaithful
  BY BtimeIsFaithful
<1> QED BY <1>1, BtimeInvariance, PTL
=============================================================================
