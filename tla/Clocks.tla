-------------------------------- MODULE Clocks --------------------------------
(***************************************************************************)
(* Wall-clock times: system_clock of src/src/perf.hpp, clock and stopwatch *)
(* of src/src/clock.hpp, and the functions of src/src/bench.hpp that       *)
(* measure time alone (bench, bench_bin, bench_repeat).                    *)
(*                                                                         *)
(* The kernel keeps a monotonic clock and a realtime clock, which may be   *)
(* set forward or back at any moment.  A clock reading is a timespec of    *)
(* whole seconds and nanoseconds; a time is a difference of two, member by *)
(* member, in nanoseconds here (the other resolutions multiply it).        *)
(***************************************************************************)
EXTENDS Integers, Sequences

CONSTANTS
    Billion,        \* nanoseconds in a second (10^9)
    Settings,       \* by how much the realtime clock may be set
    Rubbish,        \* what an uninitialised timespec may hold
    MaxNow,         \* bound: the monotonic clock
    MaxSettings,    \* bound: how often the realtime clock is set
    MaxCalls        \* bound: functions timed in a row

ASSUME ClocksAssumption ==
    /\ Billion \in Nat \ {0} /\ Settings \subseteq Int
    /\ Rubbish \subseteq [sec : Int, nsec : Int]
    /\ MaxNow \in Nat /\ MaxSettings \in Nat /\ MaxCalls \in Nat

VARIABLES
    now,        \* the monotonic clock
    offset,     \* the realtime clock less the monotonic one
    set,        \* how often the realtime clock was set
    kind,       \* the clock the object below reads
    timeBegin, timeEnd,     \* its time_begin and time_end
    \* The functions that time calls:
    tpc,        \* "idle", "begin", "call", "done" or "threw"
    calls,      \* functions to be timed
    results,    \* their times so far
    \* The stopwatch:
    start, last,    \* its start and last
    lapped,         \* laps is not empty
    \* History:
    beganAt,    \* when the latest begin was, and the offset then
    lappedAt,   \* when the latest end or lap was
    spans       \* the true duration of each result, and the setting within it

kernelClocks == <<now, offset, set>>
objectVars == <<kind, timeBegin, timeEnd>>
timedVars == <<tpc, calls, results, spans>>
watchVars == <<start, last, lapped, lappedAt>>
clockVars == <<kernelClocks, objectVars, timedVars, watchVars, beganAt>>

Stamp(t) == [sec |-> t \div Billion, nsec |-> t % Billion]
Never == -1

\* clock_gettime.
Reading(clock) ==
    Stamp(IF clock = "realtime" THEN now + offset ELSE now)

\* Mutation of Difference: the nanoseconds are taken without sign.
DifferenceUnsigned(t, ts) ==
    (t.sec - ts.sec) * Billion
        + (IF t.nsec >= ts.nsec THEN t.nsec - ts.nsec ELSE ts.nsec - t.nsec)

\* read, read_ms, read_us and read_ns: seconds and nanoseconds apart.
Difference(t, ts) == (t.sec - ts.sec) * Billion + (t.nsec - ts.nsec)

ClocksInit ==
    /\ now = 0 /\ offset = 0 /\ set = 0
    /\ kind = "none"
    /\ timeBegin = Stamp(0) /\ timeEnd = Stamp(0)
    /\ tpc = "idle" /\ calls = 0 /\ results = <<>> /\ spans = <<>>
    /\ start = Stamp(0) /\ last = Stamp(0) /\ lapped = FALSE
    /\ beganAt = [time |-> Never, offset |-> 0] /\ lappedAt = Never

-----------------------------------------------------------------------------
(* The kernel. *)

Tick ==
    /\ now < MaxNow
    /\ now' = now + 1
    /\ UNCHANGED <<offset, set, objectVars, timedVars, watchVars, beganAt>>

SetRealtime ==
    /\ set < MaxSettings
    /\ set' = set + 1
    /\ \E by \in Settings : now + offset + by >= 0 /\ offset' = offset + by
    /\ UNCHANGED <<now, objectVars, timedVars, watchVars, beganAt>>

-----------------------------------------------------------------------------
(* bench(func), bench(funcs...), bench_repeat: n calls with one time_clock;  *)
(* bench_bin and stopwatch(func): one, with the monotonic clock.             *)

\* The constructor reads the clock once.
Construct(clock) ==
    /\ kind = "none" /\ kind' = clock
    /\ timeBegin' = Reading(clock) /\ timeEnd' = Stamp(0)

TimedStart(clock, n) ==
    /\ tpc = "idle" /\ n \in 1..MaxCalls
    /\ Construct(clock)
    /\ tpc' = "begin" /\ calls' = n
    /\ UNCHANGED <<kernelClocks, results, spans, watchVars, beganAt>>

TimedBegin ==
    /\ tpc = "begin" /\ tpc' = "call"
    /\ timeBegin' = Reading(kind)
    /\ beganAt' = [time |-> now, offset |-> offset]
    /\ UNCHANGED <<kernelClocks, kind, timeEnd, calls, results, spans, watchVars>>

\* The function, which took as long as it liked, has returned: end() and
\* elapsed().
TimedEnd ==
    /\ tpc = "call"
    /\ timeEnd' = Reading(kind)
    /\ results' = Append(results, Difference(timeEnd', timeBegin))
    /\ spans' = Append(spans, [took |-> now - beganAt.time,
                               setBy |-> offset - beganAt.offset])
    /\ tpc' = IF Len(results') < calls THEN "begin" ELSE "done"
    /\ UNCHANGED <<kernelClocks, kind, timeBegin, calls, watchVars, beganAt>>

\* The function throws, or the program cannot be spawned: no results.
TimedThrows ==
    /\ tpc = "call" /\ tpc' = "threw"
    /\ UNCHANGED <<kernelClocks, objectVars, calls, results, spans, watchVars,
                   beganAt>>

-----------------------------------------------------------------------------
(* The stopwatch. *)

\* Its own two timespecs are left uninitialised.
WatchStart(clock) ==
    /\ tpc = "idle"
    /\ Construct(clock)
    /\ start' \in Rubbish /\ last' \in Rubbish
    /\ tpc' = "watch"
    /\ UNCHANGED <<kernelClocks, calls, results, spans, lapped, lappedAt, beganAt>>

\* Mutation of WatchBegin: only time_begin is set.
WatchBeginNoStart ==
    /\ tpc = "watch"
    /\ timeBegin' = Reading(kind)
    /\ beganAt' = [time |-> now, offset |-> offset]
    /\ UNCHANGED <<kernelClocks, kind, timeEnd, timedVars, start, last, lapped,
                   lappedAt>>

WatchBegin ==
    /\ tpc = "watch"
    /\ timeBegin' = Reading(kind) /\ start' = timeBegin'
    /\ beganAt' = [time |-> now, offset |-> offset]
    /\ UNCHANGED <<kernelClocks, kind, timeEnd, timedVars, last, lapped, lappedAt>>

\* end() and lap() do the same.
WatchLap ==
    /\ tpc = "watch"
    /\ timeEnd' = Reading(kind) /\ last' = timeEnd'
    /\ lapped' = TRUE
    /\ lappedAt' = now
    /\ UNCHANGED <<kernelClocks, kind, timeBegin, timedVars, start, beganAt>>

\* elapsed(): -1 without a lap, otherwise from start to the latest lap.
Elapsed == IF ~lapped THEN -1 ELSE Difference(last, start)

ClocksNext ==
    \/ Tick \/ SetRealtime
    \/ \E n \in 1..MaxCalls : TimedStart("realtime", n)
    \/ TimedStart("monotonic", 1)
    \/ TimedBegin \/ TimedEnd \/ TimedThrows
    \/ \E clock \in {"realtime", "monotonic"} : WatchStart(clock)
    \/ WatchBegin \/ WatchLap

-----------------------------------------------------------------------------
(* Properties. *)

\* Every variable has its type.
ClocksTypeOK ==
    /\ now \in 0..MaxNow /\ offset \in Int /\ set \in 0..MaxSettings
    /\ kind \in {"none", "realtime", "monotonic"}
    /\ tpc \in {"idle", "begin", "call", "done", "threw", "watch"}
    /\ \A t \in {timeBegin, timeEnd} :
          t.sec \in Int /\ t.nsec \in 0..(Billion - 1)
    /\ calls \in 0..MaxCalls /\ Len(results) <= calls
    /\ lapped \in BOOLEAN

\* Each reported time is the true duration of its own call, to the nanosecond
\* and across any second boundary, except for exactly what the realtime clock
\* was set by within that call; bench_bin's clock is never affected, and a
\* call that returned has reported every function (bench, bench_repeat).
ErrorIsTheSetting ==
    /\ \A k \in 1..Len(results) :
          results[k] - spans[k].took =
              IF kind = "realtime" THEN spans[k].setBy ELSE 0
    /\ tpc = "done" => Len(results) = calls

\* A stopwatch that was begun shows the time between its latest begin and its
\* latest lap; so as long as no lap follows a begin it never shows a positive
\* time left over from before (stopwatch::begin, end, lap and elapsed), unless
\* it runs on a realtime clock that was set.
StaleLapNotPositive ==
    (tpc = "watch" /\ beganAt.time # Never /\ (kind = "realtime" => set = 0)) =>
        IF lappedAt # Never /\ lappedAt >= beganAt.time
        THEN Elapsed = lappedAt - beganAt.time
        ELSE Elapsed <= 0
=============================================================================
