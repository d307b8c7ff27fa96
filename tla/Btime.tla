-------------------------------- MODULE Btime --------------------------------
(***************************************************************************)
(* src/tools/btime.cpp: its command line, N runs of bench_bin, which are   *)
(* timed calls of Clocks, and its report.  A printed line is a record.     *)
(*                                                                         *)
(* An argument is known by what main looks at: whether it starts with a    *)
(* dash and is longer, the number parse_int finds in it, and whether it is *)
(* empty.                                                                  *)
(***************************************************************************)
EXTENDS Clocks, Stats, Filters

CONSTANTS
    BtLines,        \* the argument vectors considered
    BtDashed,       \* the words that start with a dash and are longer
    BtNumber        \* the number parse_int finds, for words that have one

ASSUME BtimeAssumption ==
    /\ BtLines \subseteq Seq(STRING)
    /\ {"-r", "-x", "-q", "-h", "--help"} \subseteq BtDashed
    /\ \A w \in DOMAIN BtNumber : BtNumber[w] \in Int

VARIABLES
    bpc,        \* "idle", "argv", "run", "usage" (-1), "help", "exit0", "threw"
    bargv,      \* the arguments after the program's name
    bi,         \* next argument
    nRuns, csv, quiet, path,    \* the options; csv: -x was given
    times,      \* the times so far
    printed,    \* the lines written
    took        \* history: the true duration of every run of the program

btParse == <<bargv, bi, nRuns, csv, quiet, path>>
btVars == <<bpc, btParse, times, printed, took>>
btimeVars == <<btVars, clockVars>>

NoPath == "(null)"

BtimeInit ==
    /\ ClocksInit
    /\ bpc = "idle" /\ bargv = <<>> /\ bi = 1
    /\ nRuns = 1 /\ csv = FALSE /\ quiet = FALSE /\ path = NoPath
    /\ times = <<>> /\ printed = <<>> /\ took = <<>>

-----------------------------------------------------------------------------
(* The command line; the first path ends it. *)

BtMain ==
    /\ bpc = "idle" /\ tpc = "idle"
    /\ bargv' \in BtLines
    /\ bpc' = IF bargv' = <<>> THEN "usage" ELSE "argv"
    /\ UNCHANGED <<bi, nRuns, csv, quiet, path, times, printed, took, clockVars>>

BtArgument(w) == bpc = "argv" /\ bi <= Len(bargv) /\ bargv[bi] = w
BtHasValue == bi < Len(bargv)
BtElse == UNCHANGED <<bargv, times, printed, took, clockVars>>

\* The runs -r may ask for.
BtRuns(w) == w \in DOMAIN BtNumber /\ BtNumber[w] >= 1

BtTakeRuns ==
    /\ BtArgument("-r") /\ BtHasValue /\ BtRuns(bargv[bi + 1])
    /\ nRuns' = BtNumber[bargv[bi + 1]]
    /\ bi' = bi + 2
    /\ UNCHANGED <<bpc, csv, quiet, path>> /\ BtElse

BtTakeSeparator ==
    /\ BtArgument("-x") /\ BtHasValue
    /\ csv' = TRUE /\ bi' = bi + 2
    /\ UNCHANGED <<bpc, nRuns, quiet, path>> /\ BtElse

BtTakeQuiet ==
    /\ BtArgument("-q")
    /\ quiet' = TRUE /\ bi' = bi + 1
    /\ UNCHANGED <<bpc, nRuns, csv, path>> /\ BtElse

BtTakePath ==
    /\ bpc = "argv" /\ bi <= Len(bargv) /\ bargv[bi] \notin BtDashed
    /\ path' = bargv[bi] /\ bpc' = "run"
    /\ UNCHANGED <<bi, nRuns, csv, quiet>> /\ BtElse

\* Usage: help (main returns 0), an unknown flag, a missing or a wrong value,
\* no path (main returns -1).
BtRefuse ==
    /\ \/ (BtArgument("-h") \/ BtArgument("--help")) /\ bpc' = "help"
       \/ /\ \/ BtArgument("-r") /\ ~(BtHasValue /\ BtRuns(bargv[bi + 1]))
             \/ BtArgument("-x") /\ ~BtHasValue
             \/ /\ bpc = "argv" /\ bi <= Len(bargv)
                /\ bargv[bi] \in BtDashed \ {"-r", "-x", "-q", "-h", "--help"}
             \/ bpc = "argv" /\ bi > Len(bargv)
          /\ bpc' = "usage"
    /\ UNCHANGED <<bi, nRuns, csv, quiet, path>> /\ BtElse

-----------------------------------------------------------------------------
(* The runs and the report. *)

\* Mutation of BtRun: bench_bin uses the clock of the other functions.
BtRunRealtime ==
    /\ bpc = "run" /\ Len(times) < nRuns
    /\ TimedStart("realtime", 1)
    /\ UNCHANGED btVars

\* bench_bin<us>(path): a timed call with time_clock_mono.
BtRun ==
    /\ bpc = "run" /\ Len(times) < nRuns
    /\ TimedStart("monotonic", 1)
    /\ UNCHANGED btVars

\* It returns, or throws, and its clock is gone.
BtRan ==
    /\ bpc = "run" /\ tpc \in {"done", "threw"}
    /\ IF tpc = "done"
       THEN /\ times' = Append(times, results[1])
            /\ took' = Append(took, spans[1].took)
            /\ bpc' = bpc
       ELSE bpc' = "threw" /\ UNCHANGED <<times, took>>
    /\ tpc' = "idle" /\ kind' = "none" /\ calls' = 0
    /\ results' = <<>> /\ spans' = <<>>
    /\ beganAt' = [time |-> Never, offset |-> 0]
    /\ UNCHANGED <<btParse, printed, kernelClocks, timeBegin, timeEnd, watchVars>>

Lines ==
    LET stats == [kind |-> "stats", stats |-> ComputeStats(times)] IN
    IF csv
    THEN (IF quiet THEN <<>> ELSE <<[kind |-> "header"]>>)
         \o [k \in 1..Len(times) |-> [kind |-> "run", n |-> k, time |-> times[k]]]
         \o (IF ~quiet /\ Len(times) > 1 THEN <<stats>> ELSE <<>>)
    ELSE IF nRuns = 1 THEN <<[kind |-> "run", n |-> 1, time |-> times[1]]>>
    ELSE <<stats>>

BtReport ==
    /\ bpc = "run" /\ Len(times) = nRuns /\ bpc' = "exit0"
    /\ printed' = Lines
    /\ UNCHANGED <<btParse, times, took, clockVars>>

BtNext ==
    \/ BtMain \/ BtTakeRuns \/ BtTakeSeparator \/ BtTakeQuiet \/ BtTakePath
    \/ BtRefuse \/ BtRun \/ BtRan \/ BtReport

\* While main runs the kernel's clocks go on, and so does the call under way.
BtCall ==
    /\ bpc = "run"
    /\ Tick \/ SetRealtime \/ TimedBegin \/ TimedEnd \/ TimedThrows
    /\ UNCHANGED btVars

-----------------------------------------------------------------------------
(* Properties. *)

\* Every variable has its type.
BtimeTypeOK ==
    /\ bpc \in {"idle", "argv", "run", "usage", "help", "exit0", "threw"}
    /\ bi \in 1..(Len(bargv) + 2) /\ nRuns \in Nat \ {0}
    /\ csv \in BOOLEAN /\ quiet \in BOOLEAN
    /\ Len(times) <= nRuns /\ Len(took) = Len(times)

\* The arguments before the first path, as flags and their values.
BtRole ==
    LET role[k \in 1..Len(bargv)] ==
            IF k > 1 /\ role[k - 1] = "flag" /\ bargv[k - 1] \in {"-r", "-x"}
            THEN "value"
            ELSE IF bargv[k] \in BtDashed THEN "flag" ELSE "path"
    IN  role
BtPaths == {k \in DOMAIN bargv : BtRole[k] = "path"}
BtGiven(flag) ==
    {k \in DOMAIN bargv : /\ BtRole[k] = "flag" /\ bargv[k] = flag
                          /\ \A p \in BtPaths : k < p}

\* btime prints the true duration of every run it was asked for, in order and
\* whatever happens to the realtime clock meanwhile, one by one with -x or for
\* a single run, and as mean, deviation, minimum and maximum otherwise; what
\* follows the first path is ignored (main of btime.cpp, bench_bin).
BtimeFaithful ==
    bpc = "exit0" =>
        LET asked == BtGiven("-r")
            n == IF asked = {} THEN 1 ELSE BtNumber[bargv[Max(asked) + 1]]
            runs == Kept(printed, {x \in ToSet(printed) : x.kind = "run"})
            sums == Kept(printed, {x \in ToSet(printed) : x.kind = "stats"})
        IN  /\ Len(took) = n
            /\ path = bargv[Min(BtPaths)]
            /\ IF BtGiven("-x") # {} \/ n = 1
               THEN [k \in 1..Len(runs) |-> runs[k].time] = took
               ELSE runs = <<>>
            /\ sums # <<>> => sums = <<[kind |-> "stats", stats |-> ComputeStats(took)]>>
            /\ (sums # <<>>) = (n > 1 /\ ~(BtGiven("-x") # {} /\ BtGiven("-q") # {}))
=============================================================================
