--------------------------------- MODULE Pmu ---------------------------------
(***************************************************************************)
(* What a counter reads when the processor has fewer registers than there  *)
(* are counters: kernel_clock::__read_triplet and read of src/src/perf.hpp *)
(* (dynamic_event::retrieve of src/src/events.hpp and retrieve_scaled of   *)
(* src/src/topdown.hpp compute the same), and the kernel that shares the   *)
(* registers out.                                                          *)
(*                                                                         *)
(* The kernel is external, and modelled as far as the code relies on it:   *)
(* in every time slice the hardware counters that are enabled share the    *)
(* registers nobody else has taken; one that finds none waits for a later  *)
(* slice, or, when it is pinned, goes into an error state in which a read  *)
(* returns no bytes; a software counter needs no register.  A reset clears *)
(* the value and leaves both times alone.  One task is counted.            *)
(***************************************************************************)
EXTENDS Naturals, FiniteSets

CONSTANTS
    Counters,       \* the counters of the group
    Software,       \* those of them that need no register
    Registers,      \* registers of the processor
    Rates,          \* units the program may do in a time slice
    MaxSlices,      \* bound: time slices
    MaxBegins       \* bound: how often a counter is begun

ASSUME PmuAssumption ==
    /\ IsFiniteSet(Counters) /\ Software \subseteq Counters
    /\ Registers \in Nat /\ Rates \subseteq Nat
    /\ MaxSlices \in Nat /\ MaxBegins \in Nat

VARIABLES
    pinned,     \* the pinned bit the group was opened with
    scale,      \* benchmark_opts::scale, which --no-scale clears
    state,      \* state[c]: "closed", "off", "on" or "error"
    value, te, tr,  \* the kernel's count, time enabled and time running
    slices,     \* time slices so far
    asked,      \* history: asked[c]: between begin and end
    begun,      \* history: how often c was begun
    truth,      \* history: units done since the latest begin, while asked
                \* (of pinned counters)
    slow, fast  \* history: the least and the greatest rate while enabled, in
                \* the first use

attrVars == <<pinned, scale>>
countVars == <<value, te, tr>>
historyVars == <<truth, slow, fast>>
pmuVars == <<pinned, scale, state, value, te, tr, slices, asked, begun, truth,
             slow, fast>>

PmuInit ==
    /\ pinned = FALSE /\ scale = TRUE
    /\ state = [c \in Counters |-> "closed"]
    /\ value = [c \in Counters |-> 0]
    /\ te = [c \in Counters |-> 0]
    /\ tr = [c \in Counters |-> 0]
    /\ slices = 0
    /\ asked = [c \in Counters |-> FALSE]
    /\ begun = [c \in Counters |-> 0]
    /\ truth = [c \in Counters |-> 0]
    /\ slow = [c \in Counters |-> 0]
    /\ fast = [c \in Counters |-> 0]

-----------------------------------------------------------------------------

\* The group is opened, after set_pinned, with the run's options at hand.
PmuOpen(isPinned, isScaled) ==
    /\ \A c \in Counters : state[c] = "closed"
    /\ pinned' = isPinned /\ scale' = isScaled
    /\ state' = [c \in Counters |-> "off"]
    /\ UNCHANGED <<countVars, slices, asked, begun, historyVars>>

\* start(): reset, then enable, which also takes a counter out of the error
\* state.
PmuBegin(c) ==
    /\ state[c] # "closed" /\ begun[c] < MaxBegins
    /\ value' = [value EXCEPT ![c] = 0]
    /\ state' = [state EXCEPT ![c] = "on"]
    /\ asked' = [asked EXCEPT ![c] = TRUE]
    /\ begun' = [begun EXCEPT ![c] = @ + 1]
    /\ truth' = [truth EXCEPT ![c] = 0]
    /\ slow' = [slow EXCEPT ![c] = 0] /\ fast' = [fast EXCEPT ![c] = 0]
    /\ UNCHANGED <<attrVars, te, tr, slices>>

\* stop(): disable, which has no effect in the error state.
PmuEnd(c) ==
    /\ asked[c]
    /\ state' = [state EXCEPT ![c] = IF @ = "on" THEN "off" ELSE @]
    /\ asked' = [asked EXCEPT ![c] = FALSE]
    /\ UNCHANGED <<attrVars, countVars, slices, begun, historyVars>>

\* The enabled counters that may run in a slice when others have taken some
\* of the registers: every software counter, and as many of the others as fit.
Enabled == {c \in Counters : state[c] = "on"}
Shared(taken) ==
    LET hard == Enabled \ Software
        room == IF Registers - taken < Cardinality(hard) THEN Registers - taken
                ELSE Cardinality(hard)
    IN  {running \in SUBSET Enabled :
            /\ Enabled \cap Software \subseteq running
            /\ Cardinality(running \ Software) = room}

\* One time slice, in which the program does `rate` units.
Slice(rate, running) ==
    LET counted == IF pinned THEN running ELSE Enabled
        first == {c \in counted : begun[c] = 1}
    IN
    /\ slices < MaxSlices
    /\ slices' = slices + 1
    /\ state' = [c \in Counters |->
                    IF c \in Enabled \ counted THEN "error" ELSE state[c]]
    /\ value' = [c \in Counters |->
                    IF c \in running THEN value[c] + rate ELSE value[c]]
    /\ te' = [c \in Counters |-> IF c \in counted THEN te[c] + 1 ELSE te[c]]
    /\ tr' = [c \in Counters |-> IF c \in running THEN tr[c] + 1 ELSE tr[c]]
    /\ truth' = [c \in Counters |-> IF pinned /\ asked[c] THEN truth[c] + rate
                               ELSE truth[c]]
    /\ slow' = [c \in Counters |->
                   IF c \in first /\ (te[c] = 0 \/ rate < slow[c])
                   THEN rate ELSE slow[c]]
    /\ fast' = [c \in Counters |->
                   IF c \in first /\ rate > fast[c] THEN rate ELSE fast[c]]
    /\ UNCHANGED <<attrVars, asked, begun>>

\* Mutation of ReadTriplet: what an earlier read left stays in the result when
\* the read returns no bytes.
ReadTripletStale(c) ==
    [value |-> value[c], te |-> te[c], tr |-> tr[c]]

\* __read_triplet: a result of zeros, over which the read may write nothing.
ReadTriplet(c) ==
    IF state[c] \in {"closed", "error"} THEN [value |-> 0, te |-> 0, tr |-> 0]
    ELSE [value |-> value[c], te |-> te[c], tr |-> tr[c]]

\* static_cast<long long>(double(v) * (double(e) / double(r))): what truncation
\* may leave of a product that was rounded twice.  With operands below 2^53 and
\* a product below 2^51 it is the exact quotient or one of its neighbours: never
\* more than the product rounded up, nor less than v while e >= r.
Scaled(v, e, r) ==
    LET q == (v * e) \div r
    IN  {n \in (q - 1)..(q + 1) : (e >= r => n >= v) /\ n * r < v * e + r}

\* Mutation of Retrieve: the times are swapped.
RetrieveSwapped(c) ==
    LET t == ReadTriplet(c) IN
    IF t.tr = 0 THEN {0}
    ELSE IF t.tr = t.te THEN {t.value}
    ELSE Scaled(t.value, t.tr, t.te)

\* read() and retrieve(): what they may return, scaled by the share of the time
\* the counter ran.
Retrieve(c) ==
    LET t == ReadTriplet(c) IN
    IF t.tr = 0 THEN {0}
    ELSE IF t.tr = t.te THEN {t.value}
    ELSE Scaled(t.value, t.te, t.tr)

PmuNext ==
    \/ \E p, s \in BOOLEAN : PmuOpen(p, s)
    \/ \E c \in Counters : PmuBegin(c) \/ PmuEnd(c)
    \/ \E rate \in Rates, taken \in 0..Registers :
          \E running \in Shared(taken) : Slice(rate, running)

PmuSpec == PmuInit /\ [][PmuNext]_pmuVars

-----------------------------------------------------------------------------
(* Properties. *)

\* Every variable has its type; no time runs ahead of the slices.
PmuTypeOK ==
    /\ pinned \in BOOLEAN /\ scale \in BOOLEAN
    /\ state \in [Counters -> {"closed", "off", "on", "error"}]
    /\ value \in [Counters -> Nat]
    /\ te \in [Counters -> 0..slices] /\ tr \in [Counters -> 0..slices]
    /\ slices \in 0..MaxSlices
    /\ asked \in [Counters -> BOOLEAN]
    /\ begun \in [Counters -> 0..MaxBegins]
    /\ truth \in [Counters -> Nat]
    /\ slow \in [Counters -> Nat] /\ fast \in [Counters -> Nat]

\* The help text's "force counters pinned (fail-open instead of multiplexing)":
\* a pinned counter reads everything the program did between its latest begin
\* and end, or 0 when it was pushed off its register at any moment; it is
\* never extrapolated and never read in part, however often it is begun.
PinnedAllOrNothing ==
    pinned => \A c \in Counters : Retrieve(c) \subseteq {0, truth[c]}

\* A counter in rotation is never read below what it counted; on its first
\* use its reading lies between the program's slowest and its fastest pace
\* over the whole time, but for one that the truncated double may lose, so that
\* for a program of even pace it is exact or one short (read, retrieve and
\* retrieve_scaled).
ReadingBracketed ==
    \A c \in Counters : state[c] \in {"off", "on"} =>
        /\ tr[c] <= te[c]
        /\ \A n \in Retrieve(c) :
              /\ n >= (IF tr[c] = 0 THEN 0 ELSE value[c])
              /\ (begun[c] = 1 /\ tr[c] > 0) =>
                    slow[c] * te[c] - 1 <= n /\ n <= fast[c] * te[c]

\* The help text's "--no-scale print raw counts, skip multiplex scaling".
RawWhenAsked ==
    ~scale => \A c \in Counters : Retrieve(c) = {ReadTriplet(c).value}
=============================================================================
