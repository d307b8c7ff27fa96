------------------------------- MODULE Report -------------------------------
(***************************************************************************)
(* What a report shows at each detail level: the event groups and collect  *)
(* of src/src/bench.hpp, collapse_runs of src/tools/bbench.cpp, and the    *)
(* human and CSV layouts of src/src/format.hpp, and the metrics of         *)
(* src/src/metrics.hpp.  The tables are kept by hand in four files; only   *)
(* their agreement makes a printed number the count its label names.       *)
(***************************************************************************)
EXTENDS Naturals, Sequences, SequencesExt

\* The part of a table that belongs to the levels up to `detail`.
UpTo(detail, d1, d2, d3) ==
    d1 \o (IF detail >= 2 THEN d2 ELSE <<>>) \o (IF detail >= 3 THEN d3 ELSE <<>>)

\* event_group_d1, and what event_group_d2 and _d3 add to the one before.
GroupD1 ==
    <<"hardware_cycles", "hardware_instructions", "cache_misses", "branches",
      "branch_misses", "total_cycles", "cpu_time", "context_switches",
      "proc_migrations", "level1d", "level1t", "llcache", "cache_node", "bpu">>
GroupD2 ==
    <<"page_faults", "bus_cycles_e", "stalled_front", "stalled_back",
      "dtlb_access", "dtlb_miss", "itlb_access", "itlb_miss", "level1d_miss",
      "llcache_miss">>
GroupD3 ==
    <<"level1t_miss", "l1d_prefetch", "l1d_prefetch_miss", "minor_faults",
      "major_faults", "alignment_faults", "emulation_faults">>

\* The group of a run at a detail level.
Group(detail) == UpTo(detail, GroupD1, GroupD2, GroupD3)

\* Where collect puts an event, for events whose benchmark_t member has
\* another name.
Renamed ==
    [hardware_cycles |-> "cycles", hardware_instructions |-> "instructions",
     branches |-> "total_branches", proc_migrations |-> "migrations",
     level1d |-> "l1_cache", level1t |-> "l1t_cache", llcache |-> "ll_cache",
     cache_node |-> "access", bus_cycles_e |-> "bus_cycles",
     level1d_miss |-> "l1d_miss", level1t_miss |-> "l1t_miss"]

\* collect: the members of benchmark_t that a run at this detail fills; the
\* others stay 0.
Collected(detail) ==
    {"name", "time"} \cup
    {IF e \in DOMAIN Renamed THEN Renamed[e] ELSE e : e \in ToSet(Group(detail))}

\* Mutation of Averaged: one member is forgotten.
AveragedButOne ==
    {"name", "time", "cycles", "instructions", "cache_misses",
     "total_branches", "branch_misses", "total_cycles", "cpu_time",
     "context_switches", "migrations", "l1_cache", "l1t_cache", "ll_cache",
     "access", "bpu", "page_faults", "bus_cycles", "stalled_front",
     "stalled_back", "dtlb_access", "dtlb_miss", "itlb_access", "itlb_miss",
     "l1d_miss", "l1t_miss", "l1d_prefetch", "l1d_prefetch_miss",
     "minor_faults", "major_faults", "alignment_faults", "emulation_faults"}

\* collapse_runs: the members it copies or averages into the aggregate; the
\* others of the aggregate stay 0.
Averaged ==
    {"name", "time", "cycles", "instructions", "cache_misses",
     "total_branches", "branch_misses", "total_cycles", "cpu_time",
     "context_switches", "migrations", "l1_cache", "l1t_cache", "ll_cache",
     "access", "bpu", "page_faults", "bus_cycles", "stalled_front",
     "stalled_back", "dtlb_access", "dtlb_miss", "itlb_access", "itlb_miss",
     "l1d_miss", "l1t_miss", "llcache_miss", "l1d_prefetch",
     "l1d_prefetch_miss", "minor_faults", "major_faults", "alignment_faults",
     "emulation_faults"}

\* The members that emit_human_one and emit_csv_one print, in the same order,
\* and what they add at the second and the third level.
RowD1 ==
    <<"name", "time", "cycles", "instructions", "total_branches",
      "branch_misses", "total_cycles", "cpu_time", "context_switches",
      "migrations", "cache_misses", "l1_cache", "l1t_cache", "ll_cache",
      "access", "bpu">>
RowD2 ==
    <<"page_faults", "bus_cycles", "stalled_front", "stalled_back",
      "dtlb_access", "dtlb_miss", "itlb_access", "itlb_miss", "l1d_miss",
      "llcache_miss">>
RowD3 ==
    <<"l1t_miss", "l1d_prefetch", "l1d_prefetch_miss", "minor_faults",
      "major_faults", "alignment_faults", "emulation_faults">>

\* A row of the report.
Row(detail) == UpTo(detail, RowD1, RowD2, RowD3)

\* The labels of emit_csv_header, and what it adds at the deeper levels.
HeaderD1 ==
    <<"name", "time_us", "cycles", "instructions", "branches",
      "branch_misses", "total_cycles", "cpu_time", "context_switches",
      "migrations", "cache_misses", "l1_cache", "l1t_cache", "ll_cache",
      "cache_node", "bpu">>
HeaderD2 ==
    <<"page_faults", "bus_cycles", "stalled_front", "stalled_back",
      "dtlb_access", "dtlb_miss", "itlb_access", "itlb_miss", "l1d_miss",
      "llcache_miss">>
HeaderD3 ==
    <<"l1t_miss", "l1d_prefetch", "l1d_prefetch_miss", "minor_faults",
      "major_faults", "alignment_faults", "emulation_faults">>

\* The header of the CSV report.
Header(detail) == UpTo(detail, HeaderD1, HeaderD2, HeaderD3)

\* The members a metric of metrics.hpp divides: the first by the second.
Divides ==
    [ipc                 |-> <<"instructions", "cycles">>,
     cpi                 |-> <<"cycles", "instructions">>,
     branch_miss_rate    |-> <<"branch_misses", "total_branches">>,
     cache_miss_rate     |-> <<"cache_misses", "l1_cache">>,
     frontend_stall_rate |-> <<"stalled_front", "cycles">>,
     backend_stall_rate  |-> <<"stalled_back", "cycles">>,
     l1d_miss_rate       |-> <<"l1d_miss", "l1_cache">>,
     l1i_miss_rate       |-> <<"l1t_miss", "l1t_cache">>,
     llc_miss_rate       |-> <<"llcache_miss", "ll_cache">>,
     dtlb_miss_rate      |-> <<"dtlb_miss", "dtlb_access">>,
     itlb_miss_rate      |-> <<"itlb_miss", "itlb_access">>,
     ghz                 |-> <<"cycles", "time">>]
=============================================================================
