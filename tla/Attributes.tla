------------------------------ MODULE Attributes ------------------------------
(***************************************************************************)
(* The perf_event_attr an event is opened with: the constructors of        *)
(* kernel_clock (src/src/perf.hpp) and of the events named in              *)
(* src/src/clock.hpp, dynamic_event::configure (src/src/events.hpp), and   *)
(* the three setters.  Of the attribute, its bits are kept: what starts,   *)
(* follows and pins the event, and whom it leaves out.                     *)
(***************************************************************************)
EXTENDS Naturals

Attribute ==
    [disabled : BOOLEAN, pinned : BOOLEAN, inherit : BOOLEAN,
     enableOnExec : BOOLEAN, excludeUser : BOOLEAN, excludeKernel : BOOLEAN,
     excludeHv : BOOLEAN]

\* memset to 0.
Zeroed == [disabled |-> FALSE, pinned |-> FALSE, inherit |-> FALSE,
           enableOnExec |-> FALSE, excludeUser |-> FALSE,
           excludeKernel |-> FALSE, excludeHv |-> FALSE]

Lands == {"userland", "kernelland", "vmland", "everyland"}
Types == {"hardware", "software", "tracepoint", "cache"}

\* kernel_clock<T, R>: every event starts disabled and pinned, and its land
\* says whom it leaves out; a hardware event of everyland leaves out nobody,
\* the other events of everyland the hypervisor.
KernelClock(land, type) ==
    [Zeroed EXCEPT
        !.disabled = TRUE,
        !.pinned = TRUE,
        !.excludeUser = land \in {"kernelland", "vmland"},
        !.excludeKernel = land \in {"userland", "vmland"},
        !.excludeHv = \/ land \in {"userland", "kernelland"}
                      \/ land = "everyland" /\ type # "hardware"]

\* The type of the members of the event groups, all of userland.
TypeOf(member) ==
    CASE member \in {"hardware_cycles", "hardware_instructions",
                     "cache_misses", "branches", "branch_misses",
                     "total_cycles", "bus_cycles_e", "stalled_front",
                     "stalled_back"} -> "hardware"
      [] member \in {"cpu_time", "context_switches", "proc_migrations",
                     "page_faults", "minor_faults", "major_faults",
                     "alignment_faults", "emulation_faults"} -> "software"
      [] member \in {"level1d", "level1t", "llcache", "cache_node", "bpu",
                     "level1d_miss", "level1t_miss", "llcache_miss",
                     "dtlb_access", "dtlb_miss", "itlb_access", "itlb_miss",
                     "l1d_prefetch", "l1d_prefetch_miss"} -> "cache"

\* dynamic_event::configure and, with the same bits, __td_event::configure.
Dynamic(exclKernel) ==
    [Zeroed EXCEPT !.disabled = TRUE, !.excludeKernel = exclKernel,
                   !.excludeHv = TRUE]

\* Mutation of Adjusted: a flag is only ever switched on.
AdjustedOnly(attr, inherit, pinned) ==
    [attr EXCEPT !.inherit = @ \/ inherit, !.pinned = @ \/ pinned,
                 !.enableOnExec = TRUE]

\* set_inherit, set_pinned and set_enable_on_exec(true), which every measured
\* run of a program calls on its whole group.
Adjusted(attr, inherit, pinned) ==
    [attr EXCEPT !.inherit = inherit, !.pinned = pinned, !.enableOnExec = TRUE]
=============================================================================
