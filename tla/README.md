# A specification of bbench

bbench runs a program, attaches Linux perf counters to it, and reports what
they counted. This directory holds TLA+ models of the parts of bbench where
order, failure or hand-kept agreement decide whether a reported number is
true, the TLC configurations that check them, and proofs for TLAPS.

Contents: [the system](#the-system), [the modules](#the-modules),
[the runs](#the-runs), [bounds](#bounds-and-why-they-are-enough),
[fairness](#fairness), [proofs](#proofs), [disagreements](#where-the-code-and-its-documents-disagree),
[abstractions and gaps](#abstractions-and-what-is-not-modelled), [plan](#plan).

## The system

The code is a header-only library (`src/src/*.hpp`) with two tools
(`src/tools/bbench.cpp`, `src/tools/btime.cpp`). Nothing is persisted and there
are no threads; concurrency comes from the processes bbench forks, from their
descendants, and from the kernel's counters, which run on their own.

| Component | State | Operations | Talks to |
|---|---|---|---|
| command line (`parse_argv`, `parse_int`, `parse_event_list`) | index in argv, `cli_opts`, event list, `all_ok` | one branch per flag | hands options to main |
| main of bbench | `all_results`, `runs`, `res`, sink | run, collapse, sort, print | calls measured runs, top-down |
| measured run (`__bench_bin_with_opts`, `benchmark_bin_dynamic`, `process_attach`, `__wait_with_timeout`) | program point, pipe ends, child, deadline | hook, fork, attach, release, delay, wait, kill, disable, read | child through a pipe and signals; kernel through ioctl |
| direct library calls (`benchmark`, `benchmark_bin(path, argv...)`, `cpu_bench`, `cpu_bench_bin`) | program point, child | open, begin, end, reopen, collect | function or program already running |
| owners of perf descriptors (`dynamic_event`, `kernel_clock`, `__td_event`) | `e_fd`, `last_errno`, `valid` | open, reopen, begin, end, read, move, destroy | descriptor table of the whole process |
| counter attributes (`kernel_clock` constructors, `configure`, setters) | bits of `perf_event_attr` | construct, set_inherit, set_pinned, set_enable_on_exec | read by the kernel at open |
| top-down (`supported`, `measure_bin`) | cached probe, five events | probe, measure, divide | `process_attach` |
| report (`collect`, `collapse_runs`, `emit_*`, `compute_stats`) | five hand-kept tables | average, rank, lay out | sink |
| counter read-out (`kernel_clock::read`, `retrieve`, `retrieve_scaled`) | value, time enabled, time running | reset, enable, disable, read, scale | the kernel, which shares the registers out |
| clocks and stopwatch (`system_clock`, `clock`, `stopwatch`; `bench`, `bench_bin`, `bench_repeat`) | begin and end times, laps | begin, end, lap, elapsed; a loop of timed calls | kernel clocks |
| btime | options, times | parse, run N times, report | `bench_bin` |
| `cargs` (used by neither tool) | table of entries, registered parameters | two parse loops, callbacks, queries | its caller |
| metrics (`-M`), per-result helpers, number formatting | none | arithmetic, formatting | report |

What makes each component correct:

* **Measured run.** The program must not start before every counter is
  attached; a counter that could be opened holds all of the program's work and
  nothing foreign; a timeout acts less than a millisecond early at most and
  always ends the wait; signals go to the run's own child; nothing is read from a program that
  still runs.
* **Direct calls.** A counter misses exactly what happened before it was
  enabled, and all counters take in the same of bbench's own calls; the reported
  time is wrong by settings of its clock alone, and its span covers the counts.
* **Descriptor owners.** A number is owned by one object; none is used after
  its close, none is closed twice, none leaks.
* **Attributes and command line.** Every option given reaches every counter;
  a flag, value, number or event name is taken for what it is.
* **Top-down.** A fraction is the category's true share, whichever of the five
  events the kernel refuses.
* **main and report.** Rows, statistics, metrics and top-down blocks stand with
  the binary and the runs they come from, complete and ranked, and they are
  the ones the command line asks for (with `-e`, the rows and marks alone).
* **Counter read-out.** A pinned counter reads everything or nothing; a scaled
  one is never below its count and, for a program of even pace, exact or one
  short.
* **Clocks and btime.** A time is the call's true duration, unless the realtime
  clock was set within that very call; btime's is so in any case.
* **cargs.** No argument is lost or taken twice, and callbacks come in order.

What is hard here, and where it is listed: `PROJECT.json` has the hazards line
by line. The main ones are the race between attaching and exec; a parent or
child that dies at any point of the pipe protocol; the deadline racing the
child's exit; counters that are switched one ioctl at a time while the program
or its descendants run; descriptor numbers that are reused as soon as they are
closed; any counter refused while the others work; and tables in three files
that must agree.

## The modules

| Module | Models | Composed from |
|---|---|---|
| `Measurement` | abstract: what one measured run promises its caller | - |
| `BenchBin` | one measured run: parent, child, descendants, clock, outside kills | implements `Measurement` |
| `BenchBinProof` | its proofs | `BenchBin` |
| `Meters` | abstract: objects that are independent meters | - |
| `EventHandles` | the descriptor owners over a shared descriptor table | implements `Meters` |
| `EventHandlesProof` | its proofs | `EventHandles` |
| `DirectBench`, `DirectBenchProof` | the library calls without release pipe; proofs | - |
| `Topdown`, `TopdownProof` | `supported` and `measure_bin` for several binaries in turn; proofs | `BenchBin`'s process and group steps |
| `Filters` | loops that keep some elements of an array, or their places (operators) | - |
| `CommandLine` | `parse_argv`, `parse_int`, `parse_event_list` | `Filters` |
| `Attributes` | the bits constructors and setters leave (operators) | - |
| `Setup` | from the parsed options to the counters' attributes | `CommandLine`, `Attributes`, `Report` |
| `Report`, `Stats` | the tables, the metrics and `compute_stats` (operators) | - |
| `Session` | main, from argv to the report | `Setup`, `Stats` |
| `FoldLemmas` | lemmas: induction up to n, what recursive functions, folds and filters over sequences compute | `Filters` |
| `CommandLineProof` | what the parsers leave behind for any argument vector: lemmas and invariants | `Setup`, `FoldLemmas` |
| `SessionProof` | the theorems about main, from argv to the report | `Session`, `CommandLineProof` |
| `Pmu` | counters on a processor with too few registers | - |
| `Clocks` | clocks, stopwatch, functions that measure time alone | - |
| `Btime` | the btime tool | `Clocks`, `Stats`, `Filters` |
| `Cargs` | the argument parser library | `Filters` |
| `Library`, `LibraryProof` | a program that uses one of the last four; proofs | `Pmu`, `Btime`, `Cargs`; `FoldLemmas` |
| `MC*` | constants for TLC | the module of that name |

`PROJECT.json` maps every definition to source lines. An operator that ends in
a mutation name (its comment begins "Mutation of") is no part of the model: it
is a plausible bug, put in place of the definition after it to show that some
property notices.

### BenchBin

`pc` is the parent's place in `__bench_bin_with_opts`; every system call that
another process can tell apart is an action.

| Actions | Code |
|---|---|
| `Configure` | group built quiet, `set_inherit`, `set_enable_on_exec` (bench.hpp:226-229) |
| `PreHook`, `PostHook`, `HookExits`, `HookFails` | `process<true>(opts.pre / post)` |
| `Pipe`, `Fork`, `PipeOrForkFails`, `CloseRead` | process.hpp:69-91 |
| `Attach`, `Attached` | `gr.reopen(child_pid)`, one member per step |
| `Go`, `GoBrokenPipe`, `CloseWrite` | the go byte, SIGPIPE, closing the pipe |
| `Delayed` | the sleep of `-D` |
| `ClockBegin`, `ClockEnd` | `cl.begin()`, `cl.end()` |
| `Wait`, `Poll`, `Check`, `Terminate`, `GraceLoop`, `GracePoll`, `Kill`, `Reap` | `__wait_with_timeout` |
| `Disable`, `Disabled`, `Collect` | `gr.end()`, one member per step; `collect` and the destructors |
| `ChildCloseWrite`, `ChildRead`, `ChildExec` | the child's side of `process_attach` |
| `ChildWork`, `ChildForks`, `KinWork`, `KinExits`, `ChildExits` | the program and its descendants (external) |
| `ParentKilled`, `Tick` | a kill from outside; the monotonic clock |

A millisecond has `Ms` units of that clock, and `frac` is how far it is beyond
its last whole one. `__now_ms` cuts that part off, so in the loops of
`__wait_with_timeout` the timer, which is what the whole milliseconds lack to the
deadline, goes down when `frac` comes round and not before; the sleep of `-D` goes
down with every unit. `elapsed` counts true units, and the properties compare it
with the deadline. What the report makes of that span of time is in `Clocks`.

The environment: the program works, forks and ends when it likes; the kernel
may refuse any counter; either process may be killed at any step. A child that
was released may die before its exec, which is also how a failed execve looks.

### EventHandles

`fd`, `lastErr` and `valid` are the object's members, `table` the process's
descriptor table. A closed number may be handed out again at once, to another
object or to other code (`OtherOpens`). `Move(g, h)` constructs `h` from `g`.
`Open` is used on an object without descriptor only, as everywhere in the
repository; on an open one it would lose the old number.

### DirectBench

One model for the four library entry points: `kind` says whether a function or
a spawned program is measured, `single` whether one event (`cpu_bench*`) or a
group and a clock (`benchmark*`). `begin()` and `end()` of a member, the `waitpid`
and the end of the `time_clock` cost the calling process one unit, which every
member that is enabled then counts; of its own two calls a member may count the
way back from the one and the way to the other. The `time_clock` is a realtime
clock: `SetRealtime` sets it at any moment, its constructor takes a first reading
and `ClockBegin` a new one. `span` remembers the true time between begin and end,
and by how much the clock was set meanwhile.

### Topdown

`process_attach`, the hooks and the disable loop are BenchBin's actions.
`TdConfigure` is the probe with its cache and the five `configure` calls,
`TdCloseWrite`/`TdReap` the plain `waitpid`, `TdCollect` the division. Counter
1 counts slots, the others the slots of one category.

### Session: CommandLine, Setup, Attributes, Report, Stats

One specification of main, with one program counter and one set of options.

A word is known by what the parsers look at: a leading dash, its first
character, its leading digits, its comma-separated names. `TakeSwitch`,
`TakeNumber`, `TakeWord`, `TakePath`, `Refuse` and `Accept` are the branches of
`parse_argv`; `ListName` is one name of `parse_event_list`; `ParseInt` grows a
number digit by digit in a `long long` that wraps (the overflow is undefined in
C++; wrapping is what the multiply-and-add of this loop does on the machines
perf runs on), and `U32` is the cast of `-D` and `--timeout`. `Role`, `Places`
and `LastWord` give the meaning of an argument vector position by position,
independently of the loop; the properties that say what the user asked for
(`ParsedAsMeant`, `CountersAsAsked`, `ReportAsAsked`) are stated with them.

`Configure` is the head of both measured runs, and `attrs` what every counter
is opened with (`Attributes`). A measured run is one step with a time or an
exception (`Measure`, `MeasureEvents`, `RunThrows`). The sink may fail to open
and then swallows everything (`Write`). `Rank` sorts, `ReportOne` writes the
row, the statistics, the table and the metrics of one binary, `Topdown` its
top-down block, `ReportEvents` the rows of `-e`; `denied` remembers for each binary
which events its latest run was refused. `Report` holds the event
groups, `collect`'s and `collapse_runs`' members, the two layouts and what each
metric divides; `Stats` is `compute_stats` on whole numbers.

### Library: Pmu, Clocks, Btime, Cargs

`part` says which of the four the program uses; they share no state but the
clocks, which btime's runs use.

*Pmu.* `Slice` is one time slice of the kernel: the enabled counters share the
registers that others have not taken, and a pinned one that finds none goes
into an error state. `PmuBegin` and `PmuEnd` are `start` and `stop`; a reset
clears the count and leaves both times alone. `ReadTriplet` and `Retrieve` are
what a read gives at any moment, so the properties speak of every moment. The
code multiplies in doubles, which rounds twice and truncates; `Scaled` is the set of
numbers that may come of it (49 counted in 49 of 64 slices read 63, not 64).

*Clocks.* `Reading` is a timespec of seconds and nanoseconds, `SetRealtime` sets
the realtime clock at any moment, `Difference` subtracts member by member.
`TimedStart`, `TimedBegin`, `TimedEnd` and `TimedThrows` are the loop of `bench`,
`bench_repeat` and `bench_bin`; the `Watch` actions are the stopwatch, whose own
timespecs start as anything (`Rubbish`).

*Btime.* The `Bt` actions are the branches of its main; a run is a timed call on
the monotonic clock (`BtRun`, `BtCall`, `BtRan`), `Lines` the three forms of its
report.

*Cargs.* `ParserCalled`, then one action per branch of the two parse loops, then
the callbacks. Entry k of `args` is the code's `args[k - 1]`. A word is known by
how the parser sees it (two dashes anywhere, one in front, nothing else, too
long). A full table makes the callbacks read behind it, which is undefined:
`ReadBeyond` may stop or go astray.

## The runs

| Run | States | Asks | Answer |
|---|---|---|---|
| `benchbin` | 224,667 | is a run an honest measurement under every interleaving, does every released child go on, does every timeout end? | yes: the seven invariants, signals only to the own child, refinement of `Measurement`, and both liveness properties under the fairness below |
| `benchbin_delay` | | do counters wait for `-D`? | no (violation) |
| `handles` | 7,260 | do descriptors stay with one owner? | yes; refinement of `Meters` |
| `direct` | 1,978,643 | what does each reading include, and what time goes with it? | everything after its enable and, around a function, one bracket that is the same for all; a time wrong by the clock's settings alone |
| `topdown` | 22,438 | are fractions true shares when events are refused? | yes |
| `topdown_timeout` | | does `--timeout` end the wait of `--topdown`? | no (violation) |
| `session` | 62,137 | do arguments mean what they say, up to the counters and the report, and is the report what was measured? | yes, for numbers that fit their type |
| `session_events` | | is any of `-n`, `-x`, `--table`, `-M` and `--topdown` heeded with `-e`? | no (violation) |
| `session_stddev` | | is the printed deviation the root of the variance? | no (violation) |
| `session_kernel` | | does `--all-kernel` restrict to kernel mode? | no (violation) |
| `library` | 1,492,163 | are counts, times and parsed arguments true for programs that use the parts directly, and for btime? | yes, each within the limits its property states |
| `library_scale` | | does `--no-scale` print raw counts? | no (violation) |

Deadlock is checked in every run; a stopped system stutters explicitly
(`Finished`, `TdFinished`, `Stopped`, `Ended`) and only when nothing is alive
any more or a named bound is reached.

## Bounds and why they are enough

* **BenchBin**: two counters (`SkewOrdered` relates a pair, and one of two may
  be refused), two units of work (one before and one after any point), one
  unit of descendants' work, a millisecond of two units, so that a deadline is
  exact or half a millisecond early, a grace of one millisecond (50 in the code)
  and timeouts of 1 and 2, so that exit, deadline and grace period can fall in
  any order. `elapsed` saturates at `MaxElapsed`, which is at least the longest
  timeout and grace. `Topdown` has no timeout to be early for, and a
  millisecond of one unit.
* **EventHandles**: three objects and three numbers: a source, a target and a
  bystander; any reuse takes one number and two owners. Objects and numbers are
  symmetric, and no property of the run is about liveness, so symmetry is sound.
* **DirectBench**: three counters (first, middle, last), three units of work, and
  a realtime clock set once (`MaxSettings`), by one forward or two back.
* **Topdown**: slots and two categories, two binaries (cached probe).
* **Session**: all argument vectors of at most two words over the flags and one
  word of each other kind; all of a flag, a word and a path; three and four
  words over the flags whose order matters; and seven longer ones that reach
  every branch of the report. Only the command lines in `Explored` are followed
  into the runs: those of one word, most of three and the longer ones; with the
  others the behaviour ends with the counters' setup, which is what their
  properties are about. The greatest `long long` is `LongMax` = 63 and the
  greatest `u32` is `IntMax` = 15: 20 is over the narrow type and 80 over the
  wide one. The name buffer holds 3 characters and known names have at most 2,
  as 63 and 25 in the code (`NamesAssumption` is all that is used). Times 2, 3 and 9 give ties, every order and inexact means.
* **Library**: two hardware counters on one register and a software counter,
  three slices at a pace of 1 or 3 (one slice without its register between two
  with), two uses of a counter; a second of three nanoseconds, so that few ticks
  cross it, five ticks, and a realtime clock set twice, forward or back;
  btime's vectors of two words, and longer ones behind `-r 2`; parsers with four
  entries, all vectors of a program's name and up to four words over eight,
  one word more than the table holds. The hardware counters are symmetric, and
  the run has no liveness property.

The theorems below lift these bounds for every safety property of these runs.

## Fairness

`benchbin` is checked under fairness, which only its two liveness properties
use: the scheduler runs the parent's own steps and the child's steps up to the
exec, time passes, and a child that was sent SIGKILL ends. Nothing else: the
program, its descendants and the hooks may run for ever, and the parent may be
killed. `topdown_timeout` assumes the same without the clock, and not for the
steps that wait for a hook. No other run needs fairness.

## Proofs

TLAPS proves, for every value of the constants their assumptions allow:

* **`BenchBinProof`**: type correctness, every invariant of
  `benchbin`, `SignalsOwnChild`, and `Implements`: every step of
  BenchBin is a step or a stutter of `Measurement`.
* **`EventHandlesProof`**: the ownership invariants, `ClosesOnlyOwn`, and that
  the objects implement `Meters`.
* **`DirectBenchProof`**: the five properties of `direct`.
* **`TopdownProof`**: `FractionsExact`, for any number of categories and of
  binaries measured in turn.
* **`SessionProof`**, on `CommandLineProof` and `FoldLemmas`: every invariant of
  `session`, for argument vectors of any length over any words, integer types of
  any width, any table of known events and metrics, and runs of any times.
* **`LibraryProof`**: that the counters of a program are those of `Pmu` whatever
  else it does, `PinnedAllOrNothing` and `ReadingBracketed` for any counters,
  registers and pace, `ErrorIsTheSetting` and `StaleLapNotPositive` for any
  length of a second and any settings, `EveryWordPlaced` and `CallbacksInOrder`
  for argument vectors of any length over any words, `BtimeFaithful` for any
  command line and any settings during its runs, and type correctness, which
  includes that the parser stays inside its table.

Assumptions are those the modules name, and each says what the code fixes:

* the number of counters and the bounds are naturals, options have their types,
  a millisecond has at least one unit, the realtime clock is set by integers,
  `MaxElapsed` is no less than any timeout plus grace, `NoFd` is no descriptor,
  and slots are one of the counters (`SlotsAssumption`);
* `WordsAssumption`: a flag that is a word starts with a dash; digits are digits,
  a sign is a sign, a name is made of characters; a first character is never the
  null word, and is missing exactly when the word is empty;
* `WidthAssumption`: `u32` is not empty and narrower than `long long`;
* `NamesAssumption`: every known event name fits the buffer of
  `parse_event_list`; `MetricsAssumption`: every known metric name stands for a
  metric of metrics.hpp; times are naturals;
* a second has at least one nanosecond, words are strings, the flags of btime
  start with a dash, an argument vector holds the program's name, and a parser
  that takes parameters has at least one, of a known type (`parser()` is deleted,
  cargs.hpp:427).

*BenchBin.* None of the properties is inductive. `NoEarlyExec` needs that the
pipe is empty and that the parent still holds its write end until it writes
(`PipeInv`), and where parent and child can be at the same time (`LifeInv`).
`CompleteCount` needs that a counter is opened before the exec with
`enable_on_exec` set (`ConfigInv`, `AttachInv`), is off and at 0 until then and
on while the program runs (`OnInv`), and that there is no work without a program
(`WorkInv`). `KilledTakesTimeout` needs that elapsed time plus what the whole
milliseconds lack to the deadline covers the timeout, but for less than a
millisecond from which `frac` is to be taken off (`TimeInv`); the grace period
starts from a reading rounded down as well, and `frac` shows that the two
roundings do not add up. `SkewOrdered` needs that among open
counters the later one is never behind and never off while the earlier is on
(`SkewInv`). `IInv` is their conjunction; `TypeStep` and `SafeStep` go through
the actions one by one.

*EventHandles.* `IInv` joins the four invariants with `DeadHoldsNone` (storage
without an object holds no number). `OpenInv` is the lemma both open and
reopen rest on: from a table in which exactly the other objects' numbers are
perf events, any outcome of the kernel restores the invariant.

*DirectBench.* The invariant says what each started member has counted at each
point of the group loops (`BinInv`; `CallInv` gives the range that its own two
calls leave open, with `Within`) and whom it counts (`TargetInv`). `ClockInv` ties
the begin reading, and then the reported time, to `span` whatever the clock was
set to; `CoverInv` says that no counter of a program has more than the time the
clock has covered. So `TimeCoversCounts` compares the counts with the true time,
and the reported time with that and the settings.

*Topdown.* `FractionsExact` speaks of the state after `TdCollect`, when program,
counters and work are gone. `TdInv` carries it there: an open counter is off
until the exec and on from the exec to the end (`TdOnInv`), there is no work
outside that span, and so an open counter holds its whole share (`TdCountInv`);
a refused one is told apart by `err` from one not yet visited (`TdAttachInv`).
The cached probe needs nothing: its answer only decides whether there is a run.

*Session, the command line.* The properties give the meaning of an argument
vector position by position (`Role`, `Places`, `LastWord`), the loop has an
index and a record of options. `RoleMeans` shows that the recursive function
`Role` exists and what it is at each position; `Meant(o, m)` says that `o` is what
the first `m` arguments mean, and the invariant `ParseInv` that this holds of
`opts` and the arguments passed so far, and that the index never stands on a
value (`AtBoundary`). Each branch has a lemma that moves `Meant` from `m` to
`m + 1` or `m + 2` (`SwitchMeant`, `NumberMeant`, `WordMeant`, `PathMeant`).
`NumbersArrive` rests on `ParsesWhatIsStated`: a loop that wraps in every step
gives the stated number whenever that number fits, the least `long long`
included, whose digits alone do not. `ListInv` says what the first names of `-e` added; `BufferedName` that
a known name is never cut. `AttrInv` says what every attribute owes the options.

*Session, the runs.* `FlowInv` says at each place of main which runs are stored
where, as a function of `seen`: `Measuring` (the complete binaries in `all`, the
current one in `runs`), `Reporting`, `Dynamically`. `Rank` needs the sort:
`SortLoop` keeps that the result is a permutation whose first `k` totals are in
order and no greater than the rest (`ExchangeSorts` is its step), and `Ranked`
keeps it afterwards.

*Session, the report.* `OutInv` relates the lines written to the results already
reported: `Shows(out, m, d)` counts them kind by kind and gives the rows and the
metrics in their order, `AllUnder` puts every block under its own row, and
`Sound` says of each line alone that it is true of its run. `LinesSound` and
`OfLines` treat what one binary adds; `ShowsMore` appends it. `StatsEnclose` needs that
Newton's iteration from above stays above the root (`NewtonAbove`), which
holds for whole numbers as for doubles. `ReportComplete` compares tables kept in
three files: `Agree` says of a group, a row and a header that they list the same
members in the same order under the same labels; it is shown once for each
detail level's part and joined (`AgreeJoined`). TLC checked `ParseInv`,
`ListInv`, `AttrInv`, `FlowInv` and `OutInv` as invariants of the `session`
instance before they were proved.

With `-e` every line is one `EventsLine`, so that the lines of kind "events" are all
there are (`KeptAll`), and the marks need that the result at hand is of the
binary's latest run (`denied`, in `Dynamically`).

The proof of `ReportAsAsked` failed at first, for a good reason: a number of
runs that no `long long` holds may wrap to one that is accepted, and then the
report has as many runs as were parsed and not as were stated. The property now
says so (its second premise); the instance had not shown it, since its one
number beyond the wide type does not wrap to a positive one. `NumbersArrive`
carries such a limit too.

*Pmu.* What a pinned counter reads is right only because its two times are
equal as long as it is not in the error state, and its count is the truth since
the begin exactly while it is asked (`PinnedInv`, which needs `FreshInv` for the
state it was opened in). A reading lies between the paces because the count
lies between slowest and fastest pace times the time it ran (`PaceInv`), and
whatever of `Scaled` is read keeps such bounds, the lower one but for one
(`ScaledBetween`, by `DivBetween`).

*Clocks.* Each timespec is tied to the moment and the offset it was read at
(`TimedInv`, `WatchInv`); `StampDifference` shows that seconds and nanoseconds
may be subtracted apart. btime ends each run with its clock's object, which is
no step of `Clocks`: `BtRanInv` shows that it keeps the invariant all the same.

*Cargs.* An entry depends on the one before it, and a value is taken from its
own entry and put into that of its flag; so neither `EveryWordPlaced` nor
anything about one entry is inductive. `PlacedIn(k, n)` says what entry `k` holds
once `n` arguments were read, from the argument vector alone, and the invariant
`PlacedInv` that the whole table is that. One argument changes its own entry and
at most the one before it (`PlacedRead`). What `operands()`, `params()` and `list()`
find then follows from a lemma about filters: the elements of a kind stand at
the places of that kind, in their order (`PlacesOf`, `KindPlaced`).
`CallbacksInOrder` needs that callbacks were made for entries before the next one
only, that those are all in use, and that no entry behind the arguments is
(`CallbacksInv`); `PlacesKept` gives the order of several parameters of one entry.

*Btime.* `BtMeantInv` says that the options are those of the arguments passed so
far, by the position-wise `BtRole`, and that the path is the first word in the
role of one; `BtTimesInv` that the times are the true durations, which is
`ErrorIsTheSetting` for a clock that is not the realtime clock. `BtPrinted` takes
the three layouts apart by kind of line. TLC checked these four invariants on the
`library` instance's parsers and command lines first.

*Induction.* What recursive functions and folds compute is proved by
`UpToInduction`, which is stated for a set of numbers in place of a predicate and
proved from the well-foundedness of `<`. `RecursionExists` gives the function a
recursion defines when its step is given as a function, `FoldExists` and
`FoldPrefixes` do the same for `FoldLeft` of SequencesExt, whose definition
recurses over sets of positions. Each fold of the model (`ParseInt`, `Stated`,
`Sum`, `Kept`, `SortResults`) then has its own lemma. `SelectSeq` has none: its
predicate is an operator, so `Kept` takes a set. The library's induction
theorems that take an operator cannot be instantiated by the installed provers.

Model-checked only: the two liveness properties and everything that needs
fairness, which are out of reach of the provers.

## Where the code and its documents disagree

Each has a run that shows it and an entry under "findings":

* `-D` delays the wall clock only; counters start at the exec, before the sleep
  (bench.hpp:229-233 against the help text, bbench.cpp:54).
* `--timeout` has no effect on the program of `--topdown` (topdown.hpp:158
  against bbench.cpp:55).
* `-n` with `-e` runs N times and prints the last run, and `-x`, `--table`, `-M` and
  `--topdown` leave no line there (bbench.cpp:332 and 347 against bbench.cpp:51, 58,
  59, 62 and 63).
* the printed standard deviation is wrong for large variances: twelve Newton
  steps from the variance do not reach its root (format.hpp:352).
* `--all-kernel` restricts nothing: the groups stay in user mode, and with `-e`
  user mode is counted too (bench.hpp:226 and 277 against bbench.cpp:67).
* `--no-scale` is stored and read by nothing: every read is scaled (perf.hpp:436
  and events.hpp:218 against bbench.cpp:65).

Read in the code without a run of their own:

* SIGTERM may come up to a millisecond before `--timeout MS` has passed, with
  `--timeout 1` almost at once: `__now_ms` rounds down before the timeout is added
  (bench.hpp:201 against bbench.cpp:55). It is never earlier than that:
  `KilledTakesTimeout`.
* `-v` shows open errors with `-e` only, and those of the latest run; `-M`,
  `--table` and `--topdown` have no effect with `-x`.
* A file of `-o` that cannot be opened loses the report and main returns 0.
* `--timeout 4294967296` becomes 0, no timeout; a run ended by its timeout is
  averaged and ranked like a complete one.
* A metric whose members the detail level does not collect is printed as 0. The
  comment of metrics.hpp lists `inst_per_ns`, which does not exist.
* A `dynamic_event` used again is scaled by the times of all its uses, since a
  reset clears the count alone (events.hpp:196).
* `cargs` compares an argument with the first registered parameter only: every
  branch of the loop leaves it (cargs.hpp:348-370). The value of a parameter is
  parsed as an argument of its own as well.
* `stopwatch::elapsed` of an object that was never begun starts from an
  uninitialised timespec (clock.hpp:99).

## Abstractions and what is not modelled

* Lengths of single system calls are 0 in `BenchBin`, and 0 or 1 in `DirectBench`.
  `BenchBin` has the monotonic clock of `__now_ms`, which only the deadline depends
  on; the realtime clock of the reported time is in `DirectBench`, as one number,
  and in `Clocks`, as the timespec it is.
* In `BenchBin`, `DirectBench` and `Topdown` every open, enabled counter runs all
  the time; sharing, scaling and the error state are in `Pmu`, for one task.
* Work is counted in units; one number stands for all counters a member could
  be. In Session the time stands for every averaged member, since
  `collapse_runs` treats them alike; averages are kept as totals.
* Whole numbers replace doubles. `StatsEnclose` and `StddevIsRoot` allow for the
  fraction that is dropped; in doubles the mean of equal values may exceed them
  by a last place, which the two printed digits do not show. `Scaled` holds what
  two roundings and the truncation of read() may yield of a product below 2^51;
  greater ones are not modelled.
* A clock that cannot be read, and a run whose program cannot be started, end
  the call; what micron's exceptions do beyond that is not followed.

### Not modelled

* The formatting of numbers and colours, usage text, the type and config numbers
  of events, the helpers of funcs.hpp (no other file calls them) and the quotient
  of a metric: free of control, and no property is about them.
* Short writes of the sink, and `--pre` or `--post` commands under a limit: the
  code has neither a check nor a limit that could be stated. Five hazards
  therefore have no property: output that is lost silently (format.hpp:65), hooks
  that run for ever (bench.hpp:231), a `--post` command that cannot be spawned and
  throws the finished result away (bench.hpp:238), a run ended by its timeout that
  is ranked like a complete one (bench.hpp:204), and the cached probe of the
  top-down, which asks with other attributes than the events it speaks for
  (topdown.hpp:119).
* `to_number` and the global callback of `cargs`, a parser that is called twice,
  and what a read behind a full table finds.
* Build files and licence.

## Plan

Done: the measured run with its abstract promise; descriptor owners with theirs;
direct calls; top-down; main from argv to the report; counter read-out, clocks,
btime and cargs. Every safety property of the passing runs has a theorem.

Next, in this order:

1. `Pmu` and `EventHandles` together: a counter that is reopened starts with
   fresh times.
2. `BenchBin` and `DirectBench` against one abstract promise, as far as they
   share one.
