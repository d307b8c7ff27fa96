------------------------------- MODULE Topdown -------------------------------
(***************************************************************************)
(* The top-down analysis of src/src/topdown.hpp: supported() and           *)
(* measure_bin, called once per binary by main when --topdown is given.    *)
(*                                                                         *)
(* measure_bin forks, attaches and releases the program exactly as         *)
(* BenchBin does (process_attach), so those steps are BenchBin's.  It      *)
(* differs in the rest: a cached probe of the machine, no inherit, no      *)
(* delay, no clock, a plain waitpid, and a read-out that divides.          *)
(*                                                                         *)
(* Counter 1 counts slots; every other counter counts the slots of one     *)
(* category (retiring, bad speculation, front end, back end).              *)
(***************************************************************************)
EXTENDS BenchBin

CONSTANT MaxRuns    \* bound: binaries analysed in one process

Slots == 1
Categories == Counters \ {Slots}

ASSUME RunsAssumption == MaxRuns \in Nat
ASSUME SlotsAssumption == Slots \in Counters

VARIABLES
    cached,     \* supported()'s static: "unknown", "no" or "yes"
    supported,  \* out.supported of the last result
    share,      \* share[k]: units of the program's work of category k
    runs        \* calls of measure_bin so far

tdVars == <<cached, supported, share, runs>>
allVars == <<vars, tdVars>>

TdInit ==
    /\ Init
    /\ cached = "unknown"
    /\ supported = FALSE
    /\ share = [k \in Categories |-> 0]
    /\ runs = 1

-----------------------------------------------------------------------------

\* Mutation of TdConfigure: inherit is set, as the other paths set it.
TdConfigureInherit ==
    /\ pc = "configure"
    /\ attr' = [attr EXCEPT !.enableOnExec = TRUE, !.inherit = opts.inherit]
    /\ \E ok \in BOOLEAN :
          /\ cached # "unknown" => ok = (cached = "yes")
          /\ cached' = IF ok THEN "yes" ELSE "no"
          /\ pc' = IF ok THEN "pre" ELSE "returned"
    /\ UNCHANGED <<opts, idx, procVars, perfVars, workVars, timeVars, signal,
                   result, supported, share, runs>>

\* supported(): the first call probes the machine, later ones trust the
\* answer.  If it is yes the five events are configured.
TdConfigure ==
    /\ pc = "configure"
    /\ attr' = [attr EXCEPT !.enableOnExec = TRUE]
    /\ \E ok \in BOOLEAN :
          /\ cached # "unknown" => ok = (cached = "yes")
          /\ cached' = IF ok THEN "yes" ELSE "no"
          /\ pc' = IF ok THEN "pre" ELSE "returned"
    /\ UNCHANGED <<opts, idx, procVars, perfVars, workVars, timeVars, signal,
                   result, supported, share, runs>>

\* process_attach and the hooks.
AttachStep ==
    /\ \/ PreHook \/ HookFails \/ HookExits \/ Pipe \/ Fork \/ PipeOrForkFails
       \/ CloseRead \/ Attach \/ Attached \/ Go \/ GoBrokenPipe
       \/ Disable \/ Disabled \/ PostHook
    /\ UNCHANGED tdVars

\* process_attach returns, and waitpid(pid, nullptr, 0) begins.
TdCloseWrite ==
    /\ Goto("closeWrite", "reap")
    /\ writers' = writers \ {"parent"}
    /\ UNCHANGED <<runVars, idx, child, readers, byte, perfVars, workVars,
                   timeVars, signal, result, tdVars>>

TdReap ==
    /\ Goto("reap", "disable") /\ child = "zombie"
    /\ child' = "reaped"
    /\ idx' = 1
    /\ UNCHANGED <<runVars, writers, readers, byte, perfVars, workVars,
                   timeVars, signal, result, tdVars>>

\* The counts are read and each category is divided by the slots; without
\* slots the result stays the unsupported one.  The fraction of category k is
\* result[k] / result[Slots].
TdCollect ==
    /\ pc = "collect"
    /\ supported' = (Read(Slots) # 0)
    /\ result' = [c \in Counters |-> IF Read(Slots) = 0 THEN 0 ELSE Read(c)]
    /\ Halt("returned")
    /\ UNCHANGED <<cached, share, runs>>

\* main goes on to the next binary: a new call with fresh locals, while the
\* cached probe stays.  Descendants of the last program, which no counter of
\* the new call can follow, are forgotten.
NextBinary ==
    /\ pc = "returned" /\ runs < MaxRuns
    /\ runs' = runs + 1
    /\ pc' = "configure"
    /\ attr' = [disabled |-> TRUE, inherit |-> FALSE, enableOnExec |-> FALSE]
    /\ idx' = 1
    /\ child' = "none" /\ byte' = FALSE
    /\ err' = [c \in Counters |-> FALSE]
    /\ cnt' = [c \in Counters |-> 0]
    /\ work' = 0 /\ kin' = "none" /\ kinWork' = 0
    /\ supported' = FALSE
    /\ share' = [k \in Categories |-> 0]
    /\ result' = [c \in Counters |-> 0]
    /\ UNCHANGED <<opts, writers, readers, open, on, timeVars, signal, cached>>

\* One unit of the program's work uses a slot of some category.
TdWork ==
    /\ child = "running" /\ work < MaxWork
    /\ work' = work + 1
    /\ \E k \in Categories :
          /\ share' = [share EXCEPT ![k] = @ + 1]
          /\ cnt' = [c \in Counters |->
                        IF c \in {Slots, k} THEN CountChild[c] ELSE cnt[c]]
    /\ UNCHANGED <<parentVars, procVars, open, err, on, kin, kinWork, cached,
                   supported, runs>>

OtherStep ==
    /\ \/ ParentKilled \/ ChildForks \/ KinWork \/ KinExits \/ ChildExits
    /\ UNCHANGED tdVars

TdChildStep == ChildStep /\ UNCHANGED tdVars

TdFinished ==
    /\ pc \in Final /\ (pc = "returned" => runs = MaxRuns)
    /\ child \notin Alive
    /\ kin # "alive"
    /\ UNCHANGED allVars

TdParentStep ==
    \/ TdConfigure \/ AttachStep \/ TdCloseWrite \/ TdReap \/ TdCollect
    \/ NextBinary

TdNext ==
    \/ TdParentStep \/ TdChildStep \/ TdWork \/ OtherStep \/ TdFinished

TdSpec == TdInit /\ [][TdNext]_allVars

\* The scheduler runs both processes; nothing obliges a program, a descendant
\* or a hook to end, except a SIGKILL.
TdFairness ==
    /\ WF_allVars(TdParentStep /\ pc \notin {"preHook", "postHook"})
    /\ WF_allVars(TdChildStep)
    /\ WF_allVars(signal = "kill" /\ ChildExits /\ UNCHANGED tdVars)

TdFairSpec == TdSpec /\ TdFairness

-----------------------------------------------------------------------------
(* Properties. *)

\* A supported result is about the whole program and nothing but it: its
\* denominator is every slot the program used, and each fraction is its
\* category's share, or 0 for a category the kernel refused to count.
FractionsExact ==
    (pc = "returned" /\ supported) =>
        /\ result[Slots] = work /\ work > 0
        /\ \A k \in Categories :
              result[k] = IF err[k] THEN 0 ELSE share[k]

\* The help text's reading of --timeout ("kill child after MS ms"): with a
\* timeout the wait for the program ends.
TimeoutEndsWait ==
    (pc = "reap" /\ opts.timeout > 0) ~> pc # "reap"
=============================================================================
