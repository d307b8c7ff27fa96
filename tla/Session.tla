------------------------------- MODULE Session -------------------------------
(***************************************************************************)
(* main of src/tools/bbench.cpp, from the argument vector to the report:   *)
(* the command line (CommandLine), the output, the events of -e, the       *)
(* counters (Setup), the runs of every binary, their ranking by mean time  *)
(* and the report, or, with -e, the runs and the report of every binary in *)
(* turn.                                                                   *)
(*                                                                         *)
(* A measured run is one step that yields a time or throws (its inside is  *)
(* BenchBin and Topdown).  Every number of a run is averaged the same way, *)
(* so the time stands for all of them; an average is kept as the total     *)
(* over the runs.  A printed line is a record of what it says.             *)
(***************************************************************************)
EXTENDS Setup, Stats, FiniteSets

CONSTANTS
    Times,          \* times a run may report, in microseconds
    MetricOf,       \* MetricOf[name]: the metric behind a known metric name
    Explored        \* bound: the command lines whose runs are explored; with
                    \* the others a behaviour ends with the setup

ASSUME TimesAssumption == Times \subseteq Nat
ASSUME MetricsAssumption ==
    \A name \in DOMAIN MetricOf : MetricOf[name] \in DOMAIN Divides

VARIABLES
    r,          \* number of the next run of binary i
    runs,       \* runs of the current binary
    all,        \* all_results: the runs of every binary so far
    last,       \* res of the -e path: the latest run of the current binary
    usable,     \* the output sink has an open descriptor
    out,        \* lines written so far
    seen,       \* history: seen[k] are the times measured for binary k
    denied      \* history: denied[k] are the events refused in the latest run
                \* of binary k

setupVars == <<argv, opts, events, allOk, attrs>>
runVars == <<r, runs, all, last, seen, denied>>
vars == <<pc, i, setupVars, runVars, usable, out>>

Final == {"usage", "exit0", "threw"}
NoRun == [name |-> "", time |-> 0, refused |-> {}]

Init ==
    /\ ParseInit /\ attrs = <<>>
    /\ r = 1
    /\ runs = <<>> /\ all = <<>> /\ last = NoRun
    /\ usable = FALSE
    /\ out = <<>>
    /\ seen = <<>> /\ denied = <<>>

\* The options as main asks for them.
Repeated == opts.n > 1
Separated == opts.sep # NoWord

-----------------------------------------------------------------------------

TimesOf(v) == [k \in 1..Len(v) |-> v[k].time]

\* collapse_runs: the name of the first run and the averages over all.
Collapse(v) ==
    [name |-> v[1].name, total |-> Sum(TimesOf(v)), n |-> Len(v),
     members |-> Collected(opts.detail) \cap Averaged]

\* The first of v[k], v[k+1], ... with the least mean time.
Fastest(v, k) ==
    CHOOSE m \in k..Len(v) :
        /\ \A j \in k..Len(v) : Collapse(v[m]).total <= Collapse(v[j]).total
        /\ \A j \in k..(m - 1) : Collapse(v[m]).total < Collapse(v[j]).total

\* Mutation of SortResults: the loop stops one element early.
SortResultsShort(v) ==
    FoldLeft(LAMBDA s, k : [s EXCEPT ![k] = s[Fastest(s, k)],
                                     ![Fastest(s, k)] = s[k]],
             v, [k \in 1..(Len(v) - 2) |-> k])

\* sort_results: selection sort by exchange.
SortResults(v) ==
    FoldLeft(LAMBDA s, k : [s EXCEPT ![k] = s[Fastest(s, k)],
                                     ![Fastest(s, k)] = s[k]],
             v, [k \in 1..(Len(v) - 1) |-> k])

\* sink::emit writes nothing when the descriptor is -1.
Write(lines) == out' = IF usable THEN out \o lines ELSE out

Goto(from, to) == pc = from /\ pc' = to

\* parse_argv and parse_event_list.
Parse == ParseStep /\ UNCHANGED <<attrs, runVars, usable, out>>

\* stdout, or the file of -o, whose open may fail.
OpenSink ==
    /\ Goto("sink", IF opts.csv = NoWord THEN "parsed" ELSE "list")
    /\ \E ok \in BOOLEAN : (ok \/ opts.file # NoWord) /\ usable' = ok
    /\ seen' = [k \in DOMAIN opts.paths |-> <<>>]
    /\ denied' = [k \in DOMAIN opts.paths |-> {}]
    /\ UNCHANGED <<i, setupVars, r, runs, all, last, out>>

Attributed == Configure /\ UNCHANGED <<runVars, usable, out>>

\* There is a binary to run, and this is not beyond its last run.
RunDue == i <= Len(opts.paths) /\ r <= opts.n /\ argv \in Explored

\* benchmark_bin(path, bench_opts).
Measure ==
    /\ pc = "measure" /\ RunDue
    /\ \E t \in Times :
          /\ runs' = Append(runs, [name |-> opts.paths[i], time |-> t])
          /\ seen' = [seen EXCEPT ![i] = Append(@, t)]
    /\ r' = r + 1
    /\ UNCHANGED <<pc, i, setupVars, all, last, usable, out, denied>>

\* The runs of one binary are complete.
NextBinary ==
    /\ pc = "measure" /\ i <= Len(opts.paths) /\ r > opts.n
    /\ all' = Append(all, runs)
    /\ runs' = <<>>
    /\ i' = i + 1 /\ r' = 1
    /\ UNCHANGED <<pc, setupVars, last, usable, out, seen, denied>>

HeaderLine ==
    IF Separated THEN <<[kind |-> "header", columns |-> Header(opts.detail)]>>
    ELSE <<>>

\* Mutation of Rank: the report starts when the last binary is due.
RankEarly ==
    /\ Goto("measure", "report") /\ i >= Len(opts.paths)
    /\ all' = SortResults(all)
    /\ Write(HeaderLine)
    /\ i' = 1
    /\ UNCHANGED <<setupVars, r, runs, last, usable, seen, denied>>

\* All runs are complete: rank them, and write the CSV header.
Rank ==
    /\ Goto("measure", "report") /\ i > Len(opts.paths)
    /\ all' = SortResults(all)
    /\ Write(HeaderLine)
    /\ i' = 1
    /\ UNCHANGED <<setupVars, r, runs, last, usable, seen, denied>>

\* emit_csv_one or emit_human_one.
RowOf(v) == [kind |-> "row", result |-> Collapse(v), columns |-> Row(opts.detail)]

\* emit_stats and emit_table.
StatsOf(kind, v) == [kind |-> kind, values |-> TimesOf(v),
                     stats |-> ComputeStats(TimesOf(v))]

\* emit_metrics: a line for every name that is not empty, cut to the buffer.
\* A metric of members that collect left 0 is 0.
MetricLines(v) ==
    LET cut == [k \in DOMAIN Items[opts.metrics] |->
                   Buffered(Items[opts.metrics][k])]
        names == Kept(cut, ToSet(cut) \ {<<>>})
    IN  [k \in DOMAIN names |->
            [kind |-> "metric", name |-> v[1].name, metric |-> names[k],
             members |-> IF names[k] \in DOMAIN MetricOf
                         THEN Divides[MetricOf[names[k]]] ELSE <<>>]]

\* Mutation of Lines: the table is written instead of the statistics.
LinesElse(v) ==
    <<RowOf(v)>>
    \o (IF Separated THEN <<>>
        ELSE (IF opts.table THEN <<StatsOf("table", v)>>
              ELSE IF Repeated THEN <<StatsOf("stats", v)>> ELSE <<>>)
             \o (IF opts.metrics # NoWord THEN MetricLines(v) ELSE <<>>))

\* The lines about one binary: with CSV the row alone; otherwise statistics
\* when it was repeated, and the table and the metrics when asked for.
Lines(v) ==
    <<RowOf(v)>>
    \o (IF Separated THEN <<>>
        ELSE (IF Repeated THEN <<StatsOf("stats", v)>> ELSE <<>>)
             \o (IF opts.table THEN <<StatsOf("table", v)>> ELSE <<>>)
             \o (IF opts.metrics # NoWord THEN MetricLines(v) ELSE <<>>))

ReportOne ==
    /\ pc = "report" /\ i <= Len(all)
    /\ Write(Lines(all[i]))
    /\ IF opts.topdown /\ ~Separated
       THEN pc' = "topdown" /\ i' = i
       ELSE pc' = pc /\ i' = i + 1
    /\ UNCHANGED <<setupVars, runVars, usable>>

\* Mutation of Topdown: the binary is looked up on the command line.
TopdownByIndex ==
    /\ Goto("topdown", "report")
    /\ Write(<<[kind |-> "topdown", name |-> opts.paths[i]]>>)
    /\ i' = i + 1
    /\ UNCHANGED <<setupVars, runVars, usable>>

\* topdown::measure_bin runs the binary once more, by the name of its result.
Topdown ==
    /\ Goto("topdown", "report")
    /\ Write(<<[kind |-> "topdown", name |-> all[i][1].name]>>)
    /\ i' = i + 1
    /\ UNCHANGED <<setupVars, runVars, usable>>

\* benchmark_bin_dynamic: res is overwritten by every run; the kernel may
\* refuse any of the events.
MeasureEvents ==
    /\ pc = "dynamic" /\ RunDue
    /\ \E t \in Times, refused \in SUBSET DOMAIN events :
          /\ last' = [name |-> opts.paths[i], time |-> t, refused |-> refused]
          /\ seen' = [seen EXCEPT ![i] = Append(@, t)]
          /\ denied' = [denied EXCEPT ![i] = refused]
    /\ r' = r + 1
    /\ UNCHANGED <<pc, i, setupVars, runs, all, usable, out>>

\* The rows of res; an errno is shown with -v.
ReportEvents ==
    /\ pc = "dynamic" /\ i <= Len(opts.paths) /\ r > opts.n
    /\ Write(<<[kind |-> "events", name |-> opts.paths[i], time |-> last.time,
                rows |-> events,
                marked |-> IF opts.verbose THEN last.refused ELSE {}]>>)
    /\ last' = NoRun
    /\ i' = i + 1 /\ r' = 1
    /\ UNCHANGED <<pc, setupVars, runs, all, usable, seen, denied>>

\* A run, or the top-down run, throws: nothing catches it.
RunThrows ==
    /\ \/ pc \in {"measure", "dynamic"} /\ RunDue
       \/ pc = "topdown"
    /\ pc' = "threw"
    /\ UNCHANGED <<i, setupVars, runVars, usable, out>>

Return ==
    /\ \/ pc = "report" /\ i > Len(all)
       \/ pc = "dynamic" /\ i > Len(opts.paths)
    /\ pc' = "exit0"
    /\ UNCHANGED <<i, setupVars, runVars, usable, out>>

Stopped ==
    /\ pc \in Final \/ (pc \in {"measure", "dynamic"} /\ argv \notin Explored)
    /\ UNCHANGED vars

Next ==
    \/ Parse \/ OpenSink \/ Attributed \/ Measure \/ NextBinary \/ Rank
    \/ ReportOne \/ Topdown \/ MeasureEvents \/ ReportEvents \/ RunThrows
    \/ Return \/ Stopped

Spec == Init /\ [][Next]_vars

-----------------------------------------------------------------------------
(* Properties. *)

Kind(k) == Kept(out, {line \in ToSet(out) : line.kind = k})

\* Every variable has its type (the locals of main and what it passes on).
TypeOK ==
    /\ SetupTypeOK
    /\ pc \in {"argv", "sink", "list", "parsed", "measure", "report", "topdown",
              "dynamic"} \cup Final
    /\ i \in Nat \ {0}
    /\ r \in 1..(opts.n + 1)
    /\ runs \in Seq([name : Words, time : Times])
    /\ all \in Seq(Seq([name : Words, time : Times]))
    /\ last = NoRun \/ (last.name \in Words /\ last.time \in Times
                        /\ last.refused \subseteq DOMAIN events)
    /\ usable \in BOOLEAN
    /\ seen \in Seq(Seq(Times)) /\ denied \in Seq(SUBSET Nat)

\* The rows of a finished report are what was measured, binary by binary and
\* none twice or lost, with the mean of its own runs, fastest first
\* (collapse_runs, sort_results and the moves between the vectors).
RankedReport ==
    (pc = "exit0" /\ opts.csv = NoWord /\ usable) =>
        LET rows == Kind("row")
            Same(k, m) == /\ rows[m].result.name = opts.paths[k]
                          /\ rows[m].result.total = Sum(seen[k])
                          /\ rows[m].result.n = opts.n
        IN  /\ Len(rows) = Len(opts.paths)
            /\ \A k \in 1..(Len(rows) - 1) :
                  rows[k].result.total <= rows[k + 1].result.total
            /\ \E place \in [1..Len(opts.paths) -> 1..Len(rows)] :
                  /\ \A k \in DOMAIN place : Same(k, place[k])
                  /\ \A k, m \in DOMAIN place :
                        place[k] = place[m] => k = m

\* Without -e the report a user gets is the one the argument vector asks for,
\* flag by flag: per path a row over all its runs, CSV lines and nothing else
\* with -x, otherwise statistics for repeated runs, and the table, the metrics
\* in their order and the top-down block where asked for.  (The number of runs
\* is the stated one as long as long long can hold it.)  With -e there are the
\* known events of every path, path by path and in order, and with -v those of
\* them are marked, and only those, that its latest run could not open; what
\* other flags promise beside -e is FlagsHeededWithEvents.
ReportAsAsked ==
    (/\ pc = "exit0" /\ usable
     /\ Places({"-n", "-r"}) # {} =>
           Stated(LastWord({"-n", "-r"})) \in (-(LongMax + 1))..LongMax) =>
        LET paths == Cardinality({k \in DOMAIN argv : Role[k] = "path"})
            n == IF Places({"-n", "-r"}) = {} THEN 1
                 ELSE Stated(LastWord({"-n", "-r"}))
            csv == Places({"-x"}) # {}
            PerPath(asked, k) == IF asked /\ ~csv THEN paths * k ELSE 0
            metrics == IF Places({"-M"}) = {} THEN <<>>
                       ELSE LET asked == Items[LastWord({"-M"})]
                            IN  Kept(asked, ToSet(asked) \ {<<>>})
            shown == Kind("metric")
            listed == Kind("events")
        IN  IF Places({"-e"}) = {}
            THEN /\ Len(Kind("row")) = paths
                 /\ \A k \in 1..paths : Kind("row")[k].result.n = n
                 /\ Len(Kind("header")) = IF csv THEN 1 ELSE 0
                 /\ Len(Kind("stats")) = PerPath(n > 1, 1)
                 /\ Len(Kind("table")) = PerPath(Places({"--table"}) # {}, 1)
                 /\ Len(Kind("topdown")) = PerPath(Places({"--topdown"}) # {}, 1)
                 /\ Len(shown) = PerPath(TRUE, Len(metrics))
                 /\ \A k \in DOMAIN shown :
                       shown[k].metric =
                          Buffered(metrics[((k - 1) % Len(metrics)) + 1])
            ELSE /\ Len(listed) = paths
                 /\ \A k \in 1..paths :
                       /\ listed[k].name = opts.paths[k]
                       /\ listed[k].rows = events
                       /\ listed[k].marked =
                             IF Places({"-v", "--verbose"}) = {} THEN {}
                             ELSE denied[k]

\* No row is written before every run of every binary is complete: when a run
\* fails, nothing of the others is reported.
AllOrNothing ==
    (opts.csv = NoWord /\ out # <<>>) =>
        \A k \in DOMAIN seen : Len(seen[k]) = opts.n

\* A metric and a top-down block stand under the row of the binary they were
\* measured on, also after the ranking has moved the results.
BlockUnderItsRow ==
    \A k \in 1..Len(out) :
        out[k].kind \in {"topdown", "metric"} =>
            \E j \in 1..(k - 1) :
                /\ out[j].kind = "row"
                /\ out[j].result.name = out[k].name
                /\ \A m \in (j + 1)..(k - 1) :
                      out[m].kind \in {"stats", "table", "metric"}

\* At every detail level a row shows exactly what its run measured: each
\* column is a member that collect filled and collapse_runs averaged, no
\* measured member goes unshown, and each CSV label names its column; and a
\* metric the help text names divides measured members at every level, any
\* known metric at -ddd.
ReportComplete ==
    \A k \in 1..Len(out) :
        /\ out[k].kind = "row" =>
              /\ ToSet(out[k].columns) = out[k].result.members
              /\ Len(out[k].columns) = Cardinality(out[k].result.members)
        /\ out[k].kind = "header" =>
              /\ Len(out[k].columns) = Len(Row(opts.detail))
              /\ \A c \in 1..Len(Row(opts.detail)) :
                    \/ out[k].columns[c] = Row(opts.detail)[c]
                    \/ <<out[k].columns[c], Row(opts.detail)[c]>> \in
                          {<<"time_us", "time">>, <<"branches", "total_branches">>,
                           <<"cache_node", "access">>}
        /\ (out[k].kind = "metric" /\ out[k].members # <<>>
              /\ \/ opts.detail = 3
                 \/ MetricOf[out[k].metric] \in
                       {"ipc", "branch_miss_rate", "cache_miss_rate"}) =>
              ToSet(out[k].members) \subseteq Kind("row")[1].result.members

\* The printed minimum and maximum were measured and enclose the mean and
\* every run, and the printed deviation is never less than the true one.
StatsEnclose ==
    \A k \in 1..Len(out) :
        out[k].kind \in {"stats", "table"} =>
            LET s == out[k].stats  v == out[k].values
            IN  /\ {s.mn, s.mx} \subseteq ToSet(v)
                /\ s.mn <= s.mean /\ s.mean <= s.mx
                /\ \A j \in 1..Len(v) : s.mn <= v[j] /\ v[j] <= s.mx
                /\ Len(v) > 1 =>
                      (s.stddev + 1) * (s.stddev + 1) > Variance(v)

\* The help text's "repeat N times; print mean +- stddev (min/max)", and its
\* lines on -x, --table, -M and --topdown, make no exception for -e: whoever
\* gives some of them with -e finds at least one of them heeded, the mean of the
\* N runs in the place of a run's time or a line that it asks for.
FlagsHeededWithEvents ==
    (/\ pc = "exit0" /\ usable /\ opts.paths # <<>> /\ Places({"-e"}) # {}
     /\ Places({"-n", "-r"}) # {}
     /\ Places({"-x", "--table", "-M", "--topdown"}) # {}) =>
        \/ \A k \in 1..Len(out) :
              out[k].kind = "events" => out[k].time = Mean(seen[k])
        \/ \E k \in 1..Len(out) :
              out[k].kind \in {"stats", "header", "table", "metric", "topdown"}

\* The help text's "print mean +- stddev": the printed deviation is the square root of the
\* variance of the runs, to a tenth.
StddevIsRoot ==
    \A k \in 1..Len(out) :
        (out[k].kind = "stats" /\ Len(out[k].values) > 1) =>
            LET x == Variance(out[k].values)  s == out[k].stats.stddev
                root == CHOOSE q \in 0..s : q * q <= x /\ x < (q + 1) * (q + 1)
            IN  s <= root + 1 + root \div 10
=============================================================================
