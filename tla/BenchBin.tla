------------------------------- MODULE BenchBin -------------------------------
(***************************************************************************)
(* One measured run of an external program: __bench_bin_with_opts and      *)
(* benchmark_bin_dynamic of src/src/bench.hpp, process_attach of           *)
(* src/src/process.hpp and the group operations of src/src/clock.hpp and   *)
(* src/src/events.hpp they call.                                           *)
(*                                                                         *)
(* Two processes interleave.  The parent (bbench) forks the child, opens   *)
(* its counters on it, releases it through a pipe, waits for it with an    *)
(* optional timeout, disables the counters one after the other and reads   *)
(* them.  The child waits for the byte, execs the program, works, may      *)
(* leave descendants behind, and ends.  Either process may be killed from  *)
(* outside at any point.  Time is counted in units of the monotonic clock, *)
(* Ms of which make a millisecond: __now_ms sees whole milliseconds only,  *)
(* while nanosleep sleeps to the unit.  What the time_clock of the report, *)
(* a realtime clock, makes of a span of time is in Clocks.                 *)
(***************************************************************************)
EXTENDS Naturals, FiniteSets

CONSTANTS
    NCounters,      \* number of counters in the group
    Options,        \* the benchmark_opts records a run may be given
    Ms,             \* units of the clock in a millisecond (10^6 in the code)
    Grace,          \* milliseconds between SIGTERM and SIGKILL (50)
    MaxWork,        \* bound: units of work the program does
    MaxKinWork,     \* bound: units of work its descendants do
    MaxElapsed      \* bound: the run's clock saturates here

OptionsType == [delay : Nat, timeout : Nat, inherit : BOOLEAN,
                pre : BOOLEAN, post : BOOLEAN]

ASSUME CountersAssumption == NCounters \in Nat
ASSUME OptionsAssumption == Options \subseteq OptionsType
ASSUME GraceAssumption == Grace \in Nat /\ Ms \in Nat \ {0}
ASSUME WorkAssumption == MaxWork \in Nat /\ MaxKinWork \in Nat

\* Milliseconds, in units of the clock.
Units(ms) == ms * Ms

ASSUME ElapsedAssumption ==
    /\ MaxElapsed \in Nat
    /\ \A o \in Options : Units(o.timeout + Grace) <= MaxElapsed

Counters == 1..NCounters

VARIABLES
    pc,         \* the parent's program point
    opts,       \* the options of this run
    attr,       \* the perf_event_attr bits of every counter of the group
    idx,        \* next member of the group a group operation visits
    child,      \* life of the forked process
    writers,    \* the processes holding the write end of sync_pipe
    readers,    \* the processes holding the read end of sync_pipe
    byte,       \* is the go byte in the pipe?
    open,       \* open[c]: counter c holds a perf descriptor on the child
    err,        \* err[c]: last_errno of counter c is set
    on,         \* on[c]: counter c is enabled
    cnt,        \* cnt[c]: what counter c has counted
    work,       \* units of work done by the program since its exec
    kin,        \* the program's descendants: "none", "alive" or "gone"
    kinWork,    \* units of work done by the descendants
    frac,       \* units of the monotonic clock beyond its last millisecond
    timer,      \* units left of a sleep, or what __now_ms lacks to a deadline
    clock,      \* is the run's time_clock between begin and end?
    elapsed,    \* history: units that passed between begin and end
    signal,     \* the last signal the parent sent: "none", "term", "kill"
    result      \* result[c]: the value read from counter c

procVars == <<child, writers, readers, byte>>
perfVars == <<open, err, on, cnt>>
workVars == <<work, kin, kinWork>>
timeVars == <<frac, timer, clock, elapsed>>
runVars  == <<opts, attr>>
vars == <<pc, opts, attr, idx, child, writers, readers, byte, open, err, on,
          cnt, work, kin, kinWork, frac, timer, clock, elapsed, signal, result>>

\* The parent has stopped: it returned, threw, died of SIGPIPE or was killed.
Final == {"returned", "threw", "sigpipe", "killed"}

\* Program points before the parent has written the go byte.
Before == {"configure", "pre", "preHook", "pipe", "fork", "closeRead",
           "attach", "go"}

\* Program points at which the child may still have to be waited for.
Waiting == {"wait", "poll", "check", "grace", "gracePoll", "reap"}

\* The remaining program points.
After == {"closeWrite", "delay", "clockBegin", "clockEnd", "disable", "post",
          "postHook", "collect"}

\* Program points whose code watches the timer.
Timed == {"delay", "poll", "check", "grace", "gracePoll"}

Alive == {"forked", "reading", "released", "running"}

Init ==
    /\ opts \in Options
    /\ pc = "configure"
    /\ attr = [disabled |-> TRUE, inherit |-> FALSE, enableOnExec |-> FALSE]
    /\ idx = 1
    /\ child = "none" /\ writers = {} /\ readers = {} /\ byte = FALSE
    /\ open = [c \in Counters |-> FALSE]
    /\ err = [c \in Counters |-> FALSE]
    /\ on = [c \in Counters |-> FALSE]
    /\ cnt = [c \in Counters |-> 0]
    /\ work = 0 /\ kin = "none" /\ kinWork = 0
    /\ frac \in 0..(Ms - 1)
    /\ timer = 0 /\ clock = FALSE /\ elapsed = 0
    /\ signal = "none"
    /\ result = [c \in Counters |-> 0]

-----------------------------------------------------------------------------
(* The parent. *)

Goto(from, to) == pc = from /\ pc' = to

\* However the parent stops, the kernel or the destructors drop what it
\* holds: its pipe ends and its descriptors.
Halt(how) ==
    /\ pc' = how
    /\ writers' = writers \ {"parent"}
    /\ readers' = readers \ {"parent"}
    /\ open' = [c \in Counters |-> FALSE]
    /\ on' = [c \in Counters |-> FALSE]
    /\ clock' = FALSE
    /\ UNCHANGED <<runVars, idx, child, byte, err, cnt, workVars, frac,
                   timer, elapsed, signal>>

\* Mutation of Configure: set_enable_on_exec is forgotten.
ConfigureNoEnable ==
    /\ Goto("configure", "pre")
    /\ attr' = [attr EXCEPT !.inherit = opts.inherit]
    /\ UNCHANGED <<opts, idx, procVars, perfVars, workVars, timeVars, signal,
                   result>>

\* The group is built quiet (no descriptor) and its attributes are set.
Configure ==
    /\ Goto("configure", "pre")
    /\ attr' = [attr EXCEPT !.inherit = opts.inherit, !.enableOnExec = TRUE]
    /\ UNCHANGED <<opts, idx, procVars, perfVars, workVars, timeVars, signal,
                   result>>

\* if ( opts.pre ) process<true>(opts.pre), and the same for opts.post:
\* spawn, then wait for as long as the hook takes.
Hook(wanted, at, hook, next) ==
    /\ pc = at
    /\ pc' = IF wanted THEN hook ELSE next
    /\ UNCHANGED <<runVars, idx, procVars, perfVars, workVars, timeVars,
                   signal, result>>

PreHook == Hook(opts.pre, "pre", "preHook", "pipe")
PostHook == Hook(opts.post, "post", "postHook", "collect")

\* spawn failed: process throws.
HookFails ==
    /\ \/ pc = "pre" /\ opts.pre
       \/ pc = "post" /\ opts.post
    /\ Halt("threw")
    /\ UNCHANGED result

HookExits ==
    /\ \/ Goto("preHook", "pipe")
       \/ Goto("postHook", "collect")
    /\ UNCHANGED <<runVars, idx, procVars, perfVars, workVars, timeVars,
                   signal, result>>

Pipe ==
    /\ Goto("pipe", "fork")
    /\ writers' = {"parent"}
    /\ readers' = {"parent"}
    /\ UNCHANGED <<runVars, idx, child, byte, perfVars, workVars, timeVars,
                   signal, result>>

Fork ==
    /\ Goto("fork", "closeRead")
    /\ child' = "forked"
    /\ writers' = writers \cup {"child"}
    /\ readers' = readers \cup {"child"}
    /\ UNCHANGED <<runVars, idx, byte, perfVars, workVars, timeVars, signal,
                   result>>

\* pipe2 or fork failed: process_attach closes what it opened and throws.
PipeOrForkFails ==
    /\ pc \in {"pipe", "fork"}
    /\ Halt("threw")
    /\ UNCHANGED result

\* Mutation of CloseRead: the parent closes the wrong end of the pipe.
CloseReadWrongEnd ==
    /\ Goto("closeRead", "attach")
    /\ writers' = writers \ {"parent"}
    /\ idx' = 1
    /\ UNCHANGED <<runVars, child, readers, byte, perfVars, workVars, timeVars,
                   signal, result>>

CloseRead ==
    /\ Goto("closeRead", "attach")
    /\ readers' = readers \ {"parent"}
    /\ idx' = 1
    /\ UNCHANGED <<runVars, child, writers, byte, perfVars, workVars, timeVars,
                   signal, result>>

\* Mutation of Attach: the loop runs one member too far.
AttachOneTooMany ==
    /\ pc = "attach" /\ idx <= NCounters + 1
    /\ idx' = idx + 1
    /\ UNCHANGED <<pc, runVars, procVars, perfVars, workVars, timeVars, signal,
                   result>>

\* gr.reopen(child_pid), one member at a time.  The kernel may refuse any
\* counter, and refuses all of them once the process is dead.
Attach ==
    /\ pc = "attach" /\ idx <= NCounters
    /\ \E ok \in BOOLEAN :
          /\ ok => child # "zombie"
          /\ open' = [open EXCEPT ![idx] = ok]
          /\ err' = [err EXCEPT ![idx] = ~ok]
          /\ on' = [on EXCEPT ![idx] = ok /\ ~attr.disabled]
          /\ cnt' = [cnt EXCEPT ![idx] = 0]
    /\ idx' = idx + 1
    /\ UNCHANGED <<pc, runVars, procVars, workVars, timeVars, signal, result>>

Attached ==
    /\ Goto("attach", "go") /\ idx > NCounters
    /\ UNCHANGED <<runVars, idx, procVars, perfVars, workVars, timeVars,
                   signal, result>>

Go ==
    /\ Goto("go", "closeWrite") /\ readers # {}
    /\ byte' = TRUE
    /\ UNCHANGED <<runVars, idx, child, writers, readers, perfVars, workVars,
                   timeVars, signal, result>>

\* Writing a pipe nobody can read any more raises SIGPIPE.
GoBrokenPipe ==
    /\ pc = "go" /\ readers = {}
    /\ Halt("sigpipe")
    /\ UNCHANGED result

\* Close the write end, then sleep opts.delay milliseconds, to the unit.
CloseWrite ==
    /\ Goto("closeWrite", "delay")
    /\ writers' = writers \ {"parent"}
    /\ timer' = Units(opts.delay)
    /\ UNCHANGED <<runVars, idx, child, readers, byte, perfVars, workVars,
                   frac, clock, elapsed, signal, result>>

Delayed ==
    /\ Goto("delay", "clockBegin") /\ timer = 0
    /\ UNCHANGED <<runVars, idx, procVars, perfVars, workVars, timeVars,
                   signal, result>>

ClockBegin ==
    /\ Goto("clockBegin", "wait")
    /\ clock' = TRUE
    /\ UNCHANGED <<runVars, idx, procVars, perfVars, workVars, frac, timer,
                   elapsed, signal, result>>

\* __wait_with_timeout: no timeout means a blocking waitpid; otherwise the
\* deadline lies opts.timeout milliseconds of __now_ms ahead, which rounds the
\* moment of its own call down.
Wait ==
    /\ pc = "wait"
    /\ pc' = IF opts.timeout = 0 THEN "reap" ELSE "poll"
    /\ timer' = opts.timeout
    /\ UNCHANGED <<runVars, idx, procVars, perfVars, workVars, frac, clock,
                   elapsed, signal, result>>

\* waitpid, blocking or not, on a child that has ended.
Collected(to) ==
    /\ child = "zombie"
    /\ child' = "reaped"
    /\ pc' = to
    /\ UNCHANGED <<runVars, idx, writers, readers, byte, perfVars, workVars,
                   timeVars, signal, result>>

\* waitpid(WNOHANG) on a child that has not.
NotYet(to) ==
    /\ child # "zombie"
    /\ pc' = to
    /\ UNCHANGED <<runVars, idx, procVars, perfVars, workVars, timeVars,
                   signal, result>>

\* Mutation of Poll: the 0 of a WNOHANG waitpid is taken for an exit.
PollTakesZero == pc = "poll" /\ (Collected("clockEnd") \/ NotYet("clockEnd"))

Poll == pc = "poll" /\ (Collected("clockEnd") \/ NotYet("check"))

\* Deadline not reached: sleep a little and poll again.
Check ==
    /\ Goto("check", "poll") /\ timer > 0
    /\ UNCHANGED <<runVars, idx, procVars, perfVars, workVars, timeVars,
                   signal, result>>

\* Mutation of Terminate: the deadline is not compared.
TerminateAtOnce ==
    /\ Goto("check", "grace")
    /\ signal' = "term"
    /\ timer' = Grace
    /\ UNCHANGED <<runVars, idx, procVars, perfVars, workVars, frac, clock,
                   elapsed, result>>

Terminate ==
    /\ Goto("check", "grace") /\ timer = 0
    /\ signal' = "term"
    /\ timer' = Grace
    /\ UNCHANGED <<runVars, idx, procVars, perfVars, workVars, frac, clock,
                   elapsed, result>>

GraceLoop ==
    /\ Goto("grace", "gracePoll") /\ timer > 0
    /\ UNCHANGED <<runVars, idx, procVars, perfVars, workVars, timeVars,
                   signal, result>>

\* Mutation of GracePoll: the loop goes on after it has reaped the child.
GracePollGoesOn == pc = "gracePoll" /\ (Collected("grace") \/ NotYet("grace"))

GracePoll == pc = "gracePoll" /\ (Collected("clockEnd") \/ NotYet("grace"))

\* Mutation of Kill: the last waitpid is forgotten.
KillNoReap ==
    /\ Goto("grace", "clockEnd") /\ timer = 0
    /\ signal' = "kill"
    /\ UNCHANGED <<runVars, idx, procVars, perfVars, workVars, timeVars,
                   result>>

\* Mutation of Kill: SIGTERM is repeated instead of SIGKILL.
KillPolitely ==
    /\ Goto("grace", "reap") /\ timer = 0
    /\ signal' = "term"
    /\ UNCHANGED <<runVars, idx, procVars, perfVars, workVars, timeVars,
                   result>>

Kill ==
    /\ Goto("grace", "reap") /\ timer = 0
    /\ signal' = "kill"
    /\ UNCHANGED <<runVars, idx, procVars, perfVars, workVars, timeVars,
                   result>>

Reap == pc = "reap" /\ Collected("clockEnd")

ClockEnd ==
    /\ Goto("clockEnd", "disable")
    /\ clock' = FALSE
    /\ idx' = 1
    /\ UNCHANGED <<runVars, procVars, perfVars, workVars, frac, timer, elapsed,
                   signal, result>>

\* Mutation of Disable: the group is disabled from its last member on.
DisableBackwards ==
    /\ pc = "disable" /\ idx <= NCounters
    /\ on' = [on EXCEPT ![NCounters + 1 - idx] = FALSE]
    /\ idx' = idx + 1
    /\ UNCHANGED <<pc, runVars, procVars, open, err, cnt, workVars, timeVars,
                   signal, result>>

\* gr.end(), one member at a time; the ioctl on a counter that did not open
\* fails and its result is ignored.
Disable ==
    /\ pc = "disable" /\ idx <= NCounters
    /\ on' = [on EXCEPT ![idx] = FALSE]
    /\ idx' = idx + 1
    /\ UNCHANGED <<pc, runVars, procVars, open, err, cnt, workVars, timeVars,
                   signal, result>>

Disabled ==
    /\ Goto("disable", "post") /\ idx > NCounters
    /\ UNCHANGED <<runVars, idx, procVars, perfVars, workVars, timeVars,
                   signal, result>>

\* read(): a counter without a descriptor reads 0.
Read(c) == IF open[c] THEN cnt[c] ELSE 0

\* Read every counter into the result and return; the group is destroyed.
Collect ==
    /\ pc = "collect"
    /\ result' = [c \in Counters |-> Read(c)]
    /\ Halt("returned")

\* A signal from outside kills the parent.
ParentKilled ==
    /\ pc \notin Final
    /\ Halt("killed")
    /\ UNCHANGED result

-----------------------------------------------------------------------------
(* The child. *)

\* What the counters see of one unit of work of the child, and of one of its
\* descendants, which only counters with attr.inherit follow.
CountChild == [c \in Counters |-> IF on[c] THEN cnt[c] + 1 ELSE cnt[c]]
CountKin == IF attr.inherit THEN CountChild ELSE cnt

parentVars == <<pc, opts, attr, idx, frac, timer, clock, elapsed, signal, result>>

\* Mutation of ChildCloseWrite: the child keeps its write end.
ChildKeepsWrite ==
    /\ child = "forked"
    /\ child' = "reading"
    /\ cnt' = CountChild
    /\ UNCHANGED <<parentVars, writers, readers, byte, open, err, on, workVars>>

\* Mutation of ChildCloseWrite: the child closes the wrong end.
ChildClosesRead ==
    /\ child = "forked"
    /\ child' = "reading"
    /\ readers' = readers \ {"child"}
    /\ cnt' = CountChild
    /\ UNCHANGED <<parentVars, writers, byte, open, err, on, workVars>>

ChildCloseWrite ==
    /\ child = "forked"
    /\ child' = "reading"
    /\ writers' = writers \ {"child"}
    /\ cnt' = CountChild
    /\ UNCHANGED <<parentVars, readers, byte, open, err, on, workVars>>

\* read returns for the byte and also at end of file; its result is ignored.
ChildRead ==
    /\ child = "reading"
    /\ byte \/ writers = {}
    /\ child' = "released"
    /\ byte' = FALSE
    /\ readers' = readers \ {"child"}
    /\ cnt' = CountChild
    /\ UNCHANGED <<parentVars, writers, open, err, on, workVars>>

\* execve: the kernel enables the counters that asked for it, and the
\* close-on-exec pipe ends go.
ChildExec ==
    /\ child = "released"
    /\ child' = "running"
    /\ on' = [c \in Counters |-> on[c] \/ (open[c] /\ attr.enableOnExec)]
    /\ writers' = writers \ {"child"}
    /\ UNCHANGED <<parentVars, readers, byte, open, err, cnt, workVars>>

ChildWork ==
    /\ child = "running" /\ work < MaxWork
    /\ work' = work + 1
    /\ cnt' = CountChild
    /\ UNCHANGED <<parentVars, procVars, open, err, on, kin, kinWork>>

ChildForks ==
    /\ child = "running" /\ kin = "none"
    /\ kin' = "alive"
    /\ UNCHANGED <<parentVars, procVars, perfVars, work, kinWork>>

KinWork ==
    /\ kin = "alive" /\ kinWork < MaxKinWork
    /\ kinWork' = kinWork + 1
    /\ cnt' = CountKin
    /\ UNCHANGED <<parentVars, procVars, open, err, on, work, kin>>

KinExits ==
    /\ kin = "alive"
    /\ kin' = "gone"
    /\ UNCHANGED <<parentVars, procVars, perfVars, work, kinWork>>

\* The child ends: the program exits, a failed execve leads to exit(127), or
\* a signal (the parent's or another) kills it at any point.
ChildExits ==
    /\ child \in Alive
    /\ child' = "zombie"
    /\ writers' = writers \ {"child"}
    /\ readers' = readers \ {"child"}
    /\ UNCHANGED <<parentVars, byte, perfVars, workVars>>

\* One unit of the monotonic clock.  A deadline comes nearer when __now_ms
\* changes, the end of a sleep with every unit.
Tick ==
    /\ pc \in Timed \/ clock
    /\ frac' = IF frac + 1 = Ms THEN 0 ELSE frac + 1
    /\ timer' = IF timer > 0 /\ (frac' = 0 \/ pc = "delay") THEN timer - 1
                ELSE timer
    /\ elapsed' = IF clock /\ elapsed < MaxElapsed THEN elapsed + 1 ELSE elapsed
    /\ UNCHANGED <<pc, runVars, idx, procVars, perfVars, workVars, clock,
                   signal, result>>

\* Nothing is left to happen: the parent has stopped, and no process of the
\* run is alive.
Finished ==
    /\ pc \in Final
    /\ child \notin Alive
    /\ kin # "alive"
    /\ UNCHANGED vars

ParentStep ==
    \/ Configure \/ PreHook \/ HookFails \/ PostHook \/ Pipe \/ Fork
    \/ PipeOrForkFails \/ CloseRead \/ Attach \/ Attached \/ Go
    \/ GoBrokenPipe \/ CloseWrite \/ Delayed \/ ClockBegin \/ Wait \/ Poll
    \/ Check \/ Terminate \/ GraceLoop \/ GracePoll \/ Kill \/ Reap
    \/ ClockEnd \/ Disable \/ Disabled \/ Collect

ChildStep == ChildCloseWrite \/ ChildRead \/ ChildExec

Next ==
    \/ ParentStep \/ HookExits \/ ParentKilled
    \/ ChildStep \/ ChildWork \/ ChildForks \/ KinWork \/ KinExits
    \/ ChildExits \/ Tick
    \/ Finished

Spec == Init /\ [][Next]_vars

\* The scheduler runs both processes and time passes.  Nothing obliges the
\* program, its descendants or a hook to end; only SIGKILL obliges the child.
Fairness ==
    /\ WF_vars(ParentStep)
    /\ WF_vars(ChildStep)
    /\ WF_vars(Tick)
    /\ WF_vars(signal = "kill" /\ ChildExits)

FairSpec == Spec /\ Fairness

-----------------------------------------------------------------------------
(* Properties. *)

\* Every variable has its type (the state of the parent in
\* __bench_bin_with_opts, of the forked child and of the kernel's events).
TypeOK ==
    /\ pc \in Before \cup Waiting \cup After \cup Final
    /\ opts \in Options
    /\ attr \in [disabled : BOOLEAN, inherit : BOOLEAN, enableOnExec : BOOLEAN]
    /\ idx \in 1..(NCounters + 1)
    /\ child \in Alive \cup {"none", "zombie", "reaped"}
    /\ writers \subseteq {"parent", "child"}
    /\ readers \subseteq {"parent", "child"}
    /\ byte \in BOOLEAN
    /\ open \in [Counters -> BOOLEAN]
    /\ err \in [Counters -> BOOLEAN]
    /\ on \in [Counters -> BOOLEAN]
    /\ cnt \in [Counters -> Nat]
    /\ work \in 0..MaxWork
    /\ kin \in {"none", "alive", "gone"}
    /\ kinWork \in 0..MaxKinWork
    /\ frac \in 0..(Ms - 1)
    /\ timer \in Nat
    /\ clock \in BOOLEAN
    /\ elapsed \in 0..MaxElapsed
    /\ signal \in {"none", "term", "kill"}
    /\ result \in [Counters -> Nat]

\* While the parent is still attaching counters (up to its write of the go
\* byte) the child has not got past its read of the pipe, so the program
\* cannot have started unobserved (process_attach).
NoEarlyExec == pc \in Before => child \notin {"released", "running"}

\* A counter that is open has counted every unit of the program's work, from
\* the exec on and in spite of the order in which fork, attach, exec and the
\* disable loop interleave; without inherit it has counted nothing else, and
\* with inherit nothing but the work of descendants.
CompleteCount ==
    \A c \in Counters : open[c] =>
        /\ cnt[c] >= work
        /\ cnt[c] <= work + (IF attr.inherit THEN kinWork ELSE 0)

\* The counters are disabled one ioctl at a time while descendants may still
\* run, so they cover windows of different lengths; the window of a counter
\* that comes later in the group is never the shorter one.
SkewOrdered ==
    pc = "returned" =>
        \A c, d \in Counters :
            (c < d /\ ~err[c] /\ ~err[d]) => result[c] <= result[d]

\* The go byte is written to a pipe without reader, which kills bbench, only
\* when the child has died before its release.
SigpipeOnlyIfChildDied == pc = "sigpipe" => child = "zombie"

\* A child is terminated when all of its timeout but a part of a millisecond
\* has passed since the run's clock began, and killed when all of the timeout
\* and the grace period but a part of a millisecond has: __now_ms rounds down
\* wherever it is read, and these errors do not add up.
KilledTakesTimeout ==
    /\ signal # "none" => opts.timeout > 0 /\ elapsed + Ms > Units(opts.timeout)
    /\ signal = "kill" => elapsed + Ms > Units(opts.timeout + Grace)

\* However the wait ended (exit, SIGTERM, SIGKILL), the counters are disabled
\* and read only after the child was reaped: no zombie is left behind and no
\* count is read from a program that still runs.
ReapedBeforeRead ==
    (clock = FALSE /\ pc \in {"disable", "post", "postHook", "collect",
                              "returned"}) => child = "reaped"

\* kill is called on the pid only while it still names the run's own,
\* unreaped child (__wait_with_timeout).
SignalsOwnChild ==
    [][signal' # signal => child \in Alive \cup {"zombie"}]_vars

\* A child that waits for the go byte is released, or dies: it never waits
\* for ever, whatever happens to the parent.
ChildReleased == child = "reading" ~> child # "reading"

\* With a timeout, a run that has started its child gets as far as the post
\* hook (or stops): a program that ignores SIGTERM cannot hold bbench up.
TimeoutReturns ==
    (pc = "pipe" /\ opts.timeout > 0) ~> (pc = "post" \/ pc \in Final)

\* The run as its caller sees it.
Phase ==
    IF pc = "returned" THEN "reported"
    ELSE IF pc \in Final THEN "aborted"
    ELSE IF pc \in Before \/ child \in {"none", "forked", "reading", "released"}
         THEN "waiting"
    ELSE IF child = "running" THEN "running"
    ELSE "ended"

Measured == INSTANCE Measurement WITH
    phase <- Phase,
    inherit <- opts.inherit,
    usable <- {c \in Counters : ~err[c]},
    work <- IF Phase = "aborted" THEN 0 ELSE work,
    report <- result

\* A run of BenchBin is a measured run: the program starts at most once, the
\* report is issued once and after the end, and it is honest.
IsMeasurement == Measured!Spec

\* The help text's reading of -D: measurement starts only after the delay, so
\* no counter counts while the parent still sleeps.
DelayHoldsCounters ==
    (pc = "delay" /\ timer > 0) => \A c \in Counters : ~on[c]
=============================================================================
