-------------------------------- MODULE Setup --------------------------------
(***************************************************************************)
(* From the parsed command line to the attributes every counter is opened  *)
(* with: the first lines of __bench_bin_with_opts and of                   *)
(* benchmark_bin_dynamic (src/src/bench.hpp), which build the group and    *)
(* set its flags before anything is opened.  Every run of a program does   *)
(* the same, so that the model does it once, before the first run.         *)
(***************************************************************************)
EXTENDS CommandLine, Attributes, Report

VARIABLE attrs      \* attrs[k]: the attribute of member k of a run's group

\* Where the runs begin.
RunLoop == IF opts.csv = NoWord THEN "measure" ELSE "dynamic"

\* The group of the detail level, or the events of -e.
Configure ==
    /\ At("parsed") /\ pc' = RunLoop /\ i' = 1
    /\ attrs' =
          IF opts.csv = NoWord
          THEN [k \in DOMAIN Group(opts.detail) |->
                   Adjusted(KernelClock("userland", TypeOf(Group(opts.detail)[k])),
                            opts.inherit, opts.pinned)]
          ELSE [k \in DOMAIN events |->
                   Adjusted(Dynamic(opts.exclKernel), opts.inherit, opts.pinned)]
    /\ UNCHANGED <<opts, events, allOk>>

-----------------------------------------------------------------------------
(* Properties. *)

OptionsType ==
    [n : Int, detail : 1..3, delay : Nat, timeout : Nat, inherit : BOOLEAN,
     scale : BOOLEAN, pinned : BOOLEAN, exclKernel : BOOLEAN,
     exclUser : BOOLEAN, csv : Words \cup {NoWord}, pre : Words \cup {NoWord},
     post : Words \cup {NoWord}, sep : {First[w] : w \in Words} \cup {NoWord, ","},
     file : Words \cup {NoWord}, metrics : Words \cup {NoWord},
     table : BOOLEAN, verbose : BOOLEAN, topdown : BOOLEAN, paths : Seq(Words)]

\* Every variable has its type (cli_opts, the list of -e and the group); in
\* particular a run is repeated at least once and the times fit in 32 bits.
SetupTypeOK ==
    /\ argv \in CommandLines
    /\ opts \in OptionsType
    /\ opts.n >= 1 /\ opts.delay <= IntMax /\ opts.timeout <= IntMax
    /\ events \in Seq({Known[name] : name \in DOMAIN Known})
    /\ allOk \in BOOLEAN
    /\ \A k \in DOMAIN attrs : attrs[k] \in Attribute

Rings == {"--all-user", "--all-kernel"}

\* Every counter of a run of a program starts disabled, is enabled by the exec,
\* follows descendants unless --no-inherit was given, and is pinned only when
\* --pinned was, although kernel_clock's constructors pin every event.  Unless
\* the last of --all-user and --all-kernel is the latter, it counts user mode
\* and nothing else, whichever path builds the group.
CountersAsAsked ==
    \A k \in DOMAIN attrs :
        /\ attrs[k].disabled /\ attrs[k].enableOnExec
        /\ attrs[k].inherit = (Places({"--no-inherit"}) = {})
        /\ attrs[k].pinned = (Places({"--pinned"}) # {})
        /\ \/ Places(Rings) # {} /\ argv[LastPlace(Rings)] = "--all-kernel"
           \/ ~attrs[k].excludeUser /\ attrs[k].excludeKernel

\* The help text's "--all-kernel restrict counters to kernel mode": when it is
\* the last of the two flags, no counter counts user mode.
KernelModeOnly ==
    (Places(Rings) # {} /\ argv[LastPlace(Rings)] = "--all-kernel")
        => \A k \in DOMAIN attrs :
              attrs[k].excludeUser /\ ~attrs[k].excludeKernel
=============================================================================
