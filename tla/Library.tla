------------------------------- MODULE Library -------------------------------
(***************************************************************************)
(* The parts of bbench that programs use on their own: the counter         *)
(* read-out, the clocks and the functions that measure time alone, btime,  *)
(* and the argument parser.  They share no state but the clocks, which     *)
(* btime's runs use; a behaviour is one program that uses one of them.     *)
(***************************************************************************)
EXTENDS Pmu, Btime, Cargs

VARIABLE part   \* the part in use: "pmu", "clocks", "btime" or "cargs"

libraryVars == <<part, pmuVars, btimeVars, cargsVars>>

Init ==
    /\ part \in {"pmu", "clocks", "btime", "cargs"}
    /\ PmuInit /\ BtimeInit /\ CargsInit

Reads ==
    /\ part = "pmu" /\ PmuNext
    /\ UNCHANGED <<part, btimeVars, cargsVars>>

Times ==
    /\ part = "clocks" /\ ClocksNext
    /\ UNCHANGED <<part, pmuVars, btVars, cargsVars>>

TimesRuns ==
    /\ part = "btime" /\ (BtNext \/ BtCall)
    /\ UNCHANGED <<part, pmuVars, cargsVars>>

Parses ==
    /\ part = "cargs" /\ CargsNext
    /\ UNCHANGED <<part, pmuVars, btimeVars>>

\* The program may end where a bound or its own end is reached.
Ended ==
    /\ \/ part = "pmu" /\ slices = MaxSlices
       \/ part = "clocks" /\ now = MaxNow
       \/ part = "btime" /\ bpc \in {"usage", "help", "exit0", "threw"}
       \/ part = "cargs" /\ cpc \in {"built", "beyond"}
    /\ UNCHANGED libraryVars

Next == Reads \/ Times \/ TimesRuns \/ Parses \/ Ended

Spec == Init /\ [][Next]_libraryVars

-----------------------------------------------------------------------------
(* Properties. *)

\* Every variable of every part has its type.
LibraryTypeOK ==
    /\ PmuTypeOK /\ ClocksTypeOK /\ BtimeTypeOK /\ CargsTypeOK
    /\ part \in {"pmu", "clocks", "btime", "cargs"}
=============================================================================
