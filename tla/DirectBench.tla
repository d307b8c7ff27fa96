----------------------------- MODULE DirectBench -----------------------------
(***************************************************************************)
(* The library functions of src/src/bench.hpp that measure without the     *)
(* release pipe of process_attach:                                         *)
(*                                                                         *)
(*   kind "call"   benchmark(func): a function of this process             *)
(*   kind "bin"    benchmark_bin(path, argv...): a program that runs from  *)
(*                 the moment it is spawned, before a counter is attached  *)
(*                                                                         *)
(* and their single-event forms cpu_bench and cpu_bench_bin ("single"),    *)
(* which keep no time_clock and whose event's default constructor opens it *)
(* on this process.  Work is counted in units; a member's begin() and      *)
(* end(), the wait and the end of the time_clock cost this process one     *)
(* unit each.  The time_clock is a realtime clock, which may be set at any *)
(* moment; its timespecs are whole numbers here (their parts are in        *)
(* Clocks).                                                                *)
(***************************************************************************)
EXTENDS Integers

CONSTANTS
    NCounters,      \* number of members of an event group
    Settings,       \* by how much the realtime clock may be set
    MaxWork,        \* bound: units of work of the function or program
    MaxSettings     \* bound: how often the realtime clock is set

ASSUME CountersAssumption == NCounters \in Nat \ {0}
ASSUME WorkAssumption == MaxWork \in Nat
ASSUME SettingsAssumption == Settings \subseteq Int /\ MaxSettings \in Nat

Counters == 1..NCounters

VARIABLES
    kind,       \* "call" or "bin"
    single,     \* cpu_bench, cpu_bench_bin: one event, no time_clock
    pc,         \* program point of the measuring function
    idx,        \* next member of the group a group operation visits
    target,     \* target[c]: whom counter c counts: "none", "self", "child"
    on,         \* on[c]: counter c is enabled
    cnt,        \* cnt[c]: what counter c has counted
    child,      \* life of the spawned process
    work,       \* units of work done by the function or the program
    missed,     \* history: units of work done before counter c was enabled
    now,        \* units of time passed
    offset,     \* the realtime clock less now
    set,        \* how often the realtime clock was set
    timeBegin,  \* the time_clock's time_begin
    time,       \* its time_end less its time_begin, which is reported
    began,      \* history: now and offset when it was begun
    span,       \* history: the true time from begin to end, and the setting
    result      \* result[c]: the value read from counter c

perfVars == <<target, on, cnt>>
workVars == <<work, missed>>
clockVars == <<timeBegin, time, began, span>>
kernelClock == <<now, offset, set>>
timeVars == <<kernelClock, clockVars>>
vars == <<kind, single, pc, idx, perfVars, child, workVars, timeVars, result>>

\* The members of the group: cpu_bench and cpu_bench_bin have one event.
Members == IF single THEN {1} ELSE Counters

Final == {"returned", "threw"}

Init ==
    /\ kind \in {"call", "bin"}
    /\ single \in BOOLEAN
    /\ pc = IF kind = "call" \/ single THEN "open" ELSE "spawn"
    /\ idx = 1
    /\ target = [c \in Counters |-> "none"]
    /\ on = [c \in Counters |-> FALSE]
    /\ cnt = [c \in Counters |-> 0]
    /\ child = "none"
    /\ work = 0 /\ missed = [c \in Counters |-> 0]
    /\ now = 0 /\ offset = 0 /\ set = 0
    /\ timeBegin = now + offset    \* by the time_clock's constructor
    /\ time = 0
    /\ began = [time |-> 0, offset |-> 0]
    /\ span = [took |-> 0, setBy |-> 0]
    /\ result = [c \in Counters |-> 0]

-----------------------------------------------------------------------------
(* Steps of the measuring function. *)

Goto(from, to) == pc = from /\ pc' = to

\* The next member of the group is visited; after the last one the program
\* goes on, and the index is ready for the next group operation.
Visit(at) == pc = at /\ idx \in Members /\ idx' = idx + 1 /\ UNCHANGED pc
Visited(at, to) == Goto(at, to) /\ idx \notin Members /\ idx' = 1

\* One unit spent by `who`: every enabled counter on it counts.
Counted(who) ==
    [c \in Counters |->
        IF on[c] /\ target[c] = who THEN cnt[c] + 1 ELSE cnt[c]]

\* Time passes: a unit for a unit of work, at most one for a call of this
\* process, which may run beside the program.
Passes(least) ==
    /\ \E units \in least..1 : now' = now + units
    /\ UNCHANGED <<offset, set>>

\* perf_event_open for member idx; the kernel may refuse it.  Descriptors are
\* created disabled and count from 0.
OpenOn(who, refused) ==
    \E ok \in BOOLEAN :
        /\ (who = "child" => child = "running" \/ ~ok)
        /\ target' = [target EXCEPT ![idx] = IF ok THEN who ELSE refused]
        /\ on' = [on EXCEPT ![idx] = FALSE]
        /\ cnt' = [cnt EXCEPT ![idx] = 0]

\* gr.open(), and the default constructor of an event: on this process.
Open ==
    /\ Visit("open")
    /\ OpenOn("self", "none")
    /\ Passes(0)
    /\ UNCHANGED <<kind, single, child, workVars, clockVars, result>>

Opened ==
    /\ Visited("open", IF kind = "call" THEN "clockBegin" ELSE "spawn")
    /\ UNCHANGED <<kind, single, perfVars, child, workVars, timeVars, result>>

\* Mutation of Spawn: process<true>, which waits for the program itself.
SpawnWaits ==
    /\ Goto("spawn", "reopen")
    /\ child' = "reaped"
    /\ UNCHANGED <<kind, single, idx, perfVars, workVars, timeVars, result>>

\* process<false>: the program runs from here on.
Spawn ==
    /\ Goto("spawn", "reopen")
    /\ child' = "running"
    /\ UNCHANGED <<kind, single, idx, perfVars, workVars, timeVars, result>>

\* spawn failed and process throws, or the measured function throws: the
\* counters are destroyed and there is no result.
Throws ==
    /\ \/ Goto("spawn", "threw")
       \/ Goto("func", "threw")
    /\ target' = [c \in Counters |-> "none"]
    /\ on' = [c \in Counters |-> FALSE]
    /\ UNCHANGED <<kind, single, idx, cnt, child, workVars, timeVars, result>>

\* Mutation of Reopen: a counter the kernel refuses keeps its old target.
ReopenKeepsOld ==
    /\ Visit("reopen")
    /\ OpenOn("child", target[idx])
    /\ Passes(0)
    /\ UNCHANGED <<kind, single, child, workVars, clockVars, result>>

\* reopen(pid): the old descriptor is closed, a new one is opened on the
\* program, which the kernel refuses once it has ended.
Reopen ==
    /\ Visit("reopen")
    /\ OpenOn("child", "none")
    /\ Passes(0)
    /\ UNCHANGED <<kind, single, child, workVars, clockVars, result>>

Reopened ==
    /\ Visited("reopen", "clockBegin")
    /\ UNCHANGED <<kind, single, perfVars, child, workVars, timeVars, result>>

\* Mutation of ClockBegin: cl.begin() is forgotten, and the reading of the
\* constructor stays.
ClockNotBegun ==
    /\ Goto("clockBegin", "begin")
    /\ began' = [time |-> now, offset |-> offset]
    /\ UNCHANGED <<kind, single, idx, perfVars, child, workVars, kernelClock,
                   timeBegin, time, span, result>>

\* cl.begin(), where there is a time_clock.
ClockBegin ==
    /\ Goto("clockBegin", "begin")
    /\ IF single THEN UNCHANGED <<timeBegin, began>>
       ELSE /\ timeBegin' = now + offset
            /\ began' = [time |-> now, offset |-> offset]
    /\ UNCHANGED <<kind, single, idx, perfVars, child, workVars, kernelClock,
                   time, span, result>>

\* start() of member c: RESET and ENABLE, which a counter without descriptor
\* ignores.  A member on this process may count the way back from its own call.
Start(c) ==
    /\ on' = [on EXCEPT ![c] = target[c] # "none"]
    /\ \E own \in 0..1 :
          /\ target[c] # "self" => own = 0
          /\ cnt' = [Counted("self") EXCEPT ![c] = own]
    /\ missed' = [missed EXCEPT ![c] = work]
    /\ Passes(0)
    /\ UNCHANGED <<kind, single, target, child, work, clockVars, result>>

\* Mutation of Begin: the group is started from its last member on.
BeginBackwards ==
    Visit("begin") /\ Start(IF single THEN 1 ELSE NCounters + 1 - idx)

Begin == Visit("begin") /\ Start(idx)

Begun ==
    /\ Visited("begin", IF kind = "call" THEN "func" ELSE "wait")
    /\ UNCHANGED <<kind, single, perfVars, child, workVars, timeVars, result>>

\* One unit of the measured function.
Func ==
    /\ pc = "func" /\ work < MaxWork
    /\ work' = work + 1
    /\ cnt' = Counted("self")
    /\ Passes(1)
    /\ UNCHANGED <<kind, single, pc, idx, target, on, child, missed, clockVars,
                   result>>

FuncReturns ==
    /\ Goto("func", "clockEnd")
    /\ UNCHANGED <<kind, single, idx, perfVars, child, workVars, timeVars, result>>

\* waitpid(pid, nullptr, 0), which costs this process a unit.
Wait ==
    /\ Goto("wait", "clockEnd") /\ child = "zombie"
    /\ child' = "reaped"
    /\ cnt' = Counted("self")
    /\ Passes(0)
    /\ UNCHANGED <<kind, single, idx, target, on, workVars, clockVars, result>>

\* cl.end(), where there is a time_clock: every member is still enabled and
\* counts it.
ClockEnd ==
    /\ Goto("clockEnd", "end")
    /\ IF single THEN UNCHANGED <<cnt, kernelClock, time, span>>
       ELSE /\ time' = now + offset - timeBegin
            /\ span' = [took |-> now - began.time,
                        setBy |-> offset - began.offset]
            /\ cnt' = Counted("self")
            /\ Passes(0)
    /\ UNCHANGED <<kind, single, idx, target, on, child, workVars, timeBegin,
                   began, result>>

\* stop() of member c: DISABLE, the way to which a member on this process may
\* count itself.
Stop(c) ==
    /\ on' = [on EXCEPT ![c] = FALSE]
    /\ \E own \in 0..1 :
          /\ target[c] # "self" => own = 0
          /\ cnt' = [Counted("self") EXCEPT ![c] = cnt[c] + own]
    /\ Passes(0)
    /\ UNCHANGED <<kind, single, target, child, workVars, clockVars, result>>

\* Mutation of End: the group is stopped from its last member on.
EndBackwards ==
    Visit("end") /\ Stop(IF single THEN 1 ELSE NCounters + 1 - idx)

End == Visit("end") /\ Stop(idx)

Ended ==
    /\ Visited("end", "collect")
    /\ UNCHANGED <<kind, single, perfVars, child, workVars, timeVars, result>>

\* collect() and retrieve(): a counter without descriptor reads 0.
Collect ==
    /\ Goto("collect", "returned")
    /\ result' = [c \in Counters |-> IF target[c] = "none" THEN 0 ELSE cnt[c]]
    /\ UNCHANGED <<kind, single, idx, perfVars, child, workVars, timeVars>>

-----------------------------------------------------------------------------
(* The spawned program and the kernel's clock. *)

ChildWork ==
    /\ child = "running" /\ work < MaxWork
    /\ work' = work + 1
    /\ cnt' = Counted("child")
    /\ Passes(1)
    /\ UNCHANGED <<kind, single, pc, idx, target, on, child, missed, clockVars,
                   result>>

ChildExits ==
    /\ child = "running"
    /\ child' = "zombie"
    /\ UNCHANGED <<kind, single, pc, idx, perfVars, workVars, timeVars, result>>

\* The realtime clock is set.
SetRealtime ==
    /\ pc \notin Final /\ set < MaxSettings
    /\ set' = set + 1
    /\ \E by \in Settings : offset' = offset + by
    /\ UNCHANGED <<kind, single, pc, idx, perfVars, child, workVars, now,
                   clockVars, result>>

\* Nothing is left to happen.
Finished ==
    /\ pc \in Final
    /\ child # "running"
    /\ UNCHANGED vars

Next ==
    \/ Open \/ Opened \/ Spawn \/ Throws \/ Reopen \/ Reopened \/ ClockBegin
    \/ Begin \/ Begun \/ Func \/ FuncReturns \/ Wait \/ ClockEnd \/ End
    \/ Ended \/ Collect
    \/ ChildWork \/ ChildExits \/ SetRealtime
    \/ Finished

Spec == Init /\ [][Next]_vars

-----------------------------------------------------------------------------
(* Properties. *)

\* Every variable has its type (the locals of the measuring functions and the
\* kernel's events and child).
TypeOK ==
    /\ kind \in {"call", "bin"}
    /\ single \in BOOLEAN
    /\ pc \in {"open", "spawn", "reopen", "clockBegin", "begin", "func",
               "wait", "clockEnd", "end", "collect"} \cup Final
    /\ idx \in 1..(NCounters + 1)
    /\ target \in [Counters -> {"none", "self", "child"}]
    /\ on \in [Counters -> BOOLEAN]
    /\ cnt \in [Counters -> Nat]
    /\ child \in {"none", "running", "zombie", "reaped"}
    /\ work \in 0..MaxWork
    /\ missed \in [Counters -> 0..MaxWork]
    /\ now \in Nat /\ offset \in Int /\ set \in 0..MaxSettings
    /\ timeBegin \in Int /\ time \in Int
    /\ began \in [time : Nat, offset : Int]
    /\ span \in [took : Nat, setBy : Int]
    /\ result \in [Counters -> Nat]

\* A program that is spawned before it is measured is under-counted by exactly
\* what it did before each counter was enabled, and by nothing else: every
\* counter reads all of the rest, none of bbench's own work, and 0 when the
\* kernel refused it (benchmark_bin, cpu_bench_bin).
CountsTheRest ==
    (kind = "bin" /\ pc = "returned") =>
        \A c \in Members :
            result[c] = IF target[c] = "child" THEN work - missed[c] ELSE 0

\* The members are enabled one ioctl at a time while the program already
\* runs, so they see less of it the later they stand in the group: ratios of
\* two counters of benchmark_bin are biased in one direction only.
EarlierSeesMore ==
    (kind = "bin" /\ pc = "returned") =>
        \A c, d \in Members :
            (c < d /\ target[c] = "child" /\ target[d] = "child") =>
                result[c] >= result[d]

\* Around a function the windows of the members are nested crosswise: each
\* covers all of the function, the begin() or the end() of every other member
\* and the end of the time_clock, and at most the inner half of its own two
\* calls besides.  All members over-count by the same (benchmark, cpu_bench).
CallOverhead ==
    (kind = "call" /\ pc = "returned") =>
        LET bracket == IF single THEN 0 ELSE NCounters IN
        \A c \in Members :
            target[c] = "self" =>
                result[c] \in (work + bracket)..(work + bracket + 2)

\* The reported time is the time from cl.begin() to cl.end() plus what the
\* realtime clock was set by in between, and that span covers everything the
\* counters of benchmark_bin report of the program.
TimeCoversCounts ==
    (~single /\ pc = "returned") =>
        /\ time = span.took + span.setBy
        /\ kind = "bin" => \A c \in Members : result[c] <= span.took

\* A counter is attached to a pid only while it names the run's own, unreaped
\* child, never to a process that got the number afterwards.
AttachesOwnChild ==
    [][pc = "reopen" /\ idx' # idx /\ idx \in Members =>
          child \in {"running", "zombie"}]_vars
=============================================================================
