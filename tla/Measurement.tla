---------------------------- MODULE Measurement ----------------------------
(***************************************************************************)
(* What one measured run of a program promises its caller, with nothing    *)
(* of pipes, signals or system calls in it: the program starts once, does  *)
(* its work, ends, and only then is one report per counter issued; a       *)
(* counter reports either nothing at all (it could not be opened) or a     *)
(* count that holds every unit of the program's own work.  BenchBin        *)
(* implements this specification.                                          *)
(***************************************************************************)
EXTENDS Naturals

CONSTANTS Counters

VARIABLES
    phase,      \* "waiting", "running", "ended", "reported" or "aborted"
    inherit,    \* do counters follow the program's descendants?
    usable,     \* the counters that could be opened on the program
    work,       \* units of work done by the program itself
    report      \* report[c]: what the caller is told counter c read

vars == <<phase, inherit, usable, work, report>>

NoReport == [c \in Counters |-> 0]

Init ==
    /\ phase = "waiting"
    /\ inherit \in BOOLEAN
    /\ usable = Counters
    /\ work = 0
    /\ report = NoReport

\* A counter the kernel refuses is given up before the program starts.
LoseCounter(c) ==
    /\ phase = "waiting"
    /\ usable' = usable \ {c}
    /\ UNCHANGED <<phase, inherit, work, report>>

Start ==
    /\ phase = "waiting"
    /\ phase' = "running"
    /\ UNCHANGED <<inherit, usable, work, report>>

Work ==
    /\ phase = "running"
    /\ work' = work + 1
    /\ UNCHANGED <<phase, inherit, usable, report>>

\* A program that could not be started ends without ever running.
End ==
    /\ phase \in {"waiting", "running"}
    /\ phase' = "ended"
    /\ UNCHANGED <<inherit, usable, work, report>>

\* An unusable counter reads nothing, a usable one misses no unit of the
\* program's work; only the program's descendants can add to it.
Honest(c, n) ==
    IF c \notin usable THEN n = 0
    ELSE n = work \/ (inherit /\ n > work)

Report ==
    /\ phase = "ended"
    /\ phase' = "reported"
    /\ DOMAIN report' = Counters
    /\ \A c \in Counters : Honest(c, report'[c])
    /\ UNCHANGED <<inherit, usable, work>>

\* An error or a signal stops the measuring process: nothing is reported.
Abort ==
    /\ phase \notin {"reported", "aborted"}
    /\ phase' = "aborted"
    /\ work' = 0
    /\ UNCHANGED <<inherit, usable, report>>

Next ==
    \/ \E c \in Counters : LoseCounter(c)
    \/ Start \/ Work \/ End \/ Report \/ Abort

Spec == Init /\ [][Next]_vars
=============================================================================
