----------------------------- MODULE EventHandles -----------------------------
(***************************************************************************)
(* The life of the objects that own a perf descriptor: dynamic_event of    *)
(* src/src/events.hpp.  kernel_clock (src/src/perf.hpp) and __td_event     *)
(* (src/src/topdown.hpp) have the same constructors, moves, open, reopen   *)
(* and destructor; they have no valid flag and rely on e_fd = -1, for      *)
(* which the ioctl fails without effect.                                   *)
(*                                                                         *)
(* Descriptors are numbers of the process's table, which the kernel hands  *)
(* out again as soon as they are closed, to these objects or to any other  *)
(* code of the process (pipes, the output file).                           *)
(***************************************************************************)
EXTENDS Naturals

CONSTANTS
    Handles,        \* places an object can live in
    Fds,            \* descriptor numbers
    NoFd,           \* e_fd = -1
    MaxCount        \* bound: what an event counts up to

ASSUME NoFdAssumption == NoFd \notin Fds
ASSUME MaxCountAssumption == MaxCount \in Nat

VARIABLES
    live,       \* live[h]: an object has been constructed in h
    fd,         \* fd[h]: its e_fd
    lastErr,    \* lastErr[h]: its last_errno is set
    valid,      \* valid[h]: its valid flag
    table,      \* table[f]: "free", "perf" or "other"
    on,         \* on[f]: the perf event behind f is enabled
    count       \* count[f]: its count

objVars == <<live, fd, lastErr, valid>>
kernelVars == <<table, on, count>>
vars == <<live, fd, lastErr, valid, table, on, count>>

Init ==
    /\ live = [h \in Handles |-> FALSE]
    /\ fd = [h \in Handles |-> NoFd]
    /\ lastErr = [h \in Handles |-> FALSE]
    /\ valid = [h \in Handles |-> FALSE]
    /\ table = [f \in Fds |-> "free"]
    /\ on = [f \in Fds |-> FALSE]
    /\ count = [f \in Fds |-> 0]

Construct(h) ==
    /\ ~live[h]
    /\ live' = [live EXCEPT ![h] = TRUE]
    /\ fd' = [fd EXCEPT ![h] = NoFd]
    /\ lastErr' = [lastErr EXCEPT ![h] = FALSE]
    /\ valid' = [valid EXCEPT ![h] = FALSE]
    /\ UNCHANGED kernelVars

\* micron::close: afterwards the number is free for whoever opens next.
Closed(f) == IF f \in Fds THEN [table EXCEPT ![f] = "free"] ELSE table

\* open: the kernel answers with a free number of the table t, or refuses.
OpenFrom(h, t) ==
    \/ \E f \in Fds :
          /\ t[f] = "free"
          /\ table' = [t EXCEPT ![f] = "perf"]
          /\ on' = [on EXCEPT ![f] = FALSE]
          /\ count' = [count EXCEPT ![f] = 0]
          /\ fd' = [fd EXCEPT ![h] = f]
          /\ lastErr' = [lastErr EXCEPT ![h] = FALSE]
          /\ valid' = [valid EXCEPT ![h] = TRUE]
    \/ /\ table' = t
       /\ fd' = [fd EXCEPT ![h] = NoFd]
       /\ lastErr' = [lastErr EXCEPT ![h] = TRUE]
       /\ valid' = [valid EXCEPT ![h] = FALSE]
       /\ UNCHANGED <<on, count>>

\* open() has no guard of its own; its callers (the event constructor, the
\* in-process benchmark) open only objects that hold no descriptor.
Open(h) ==
    /\ live[h] /\ fd[h] = NoFd
    /\ OpenFrom(h, table)
    /\ UNCHANGED live

\* Mutation of Reopen: the old descriptor is not closed.
ReopenNoClose(h) ==
    /\ live[h]
    /\ OpenFrom(h, table)
    /\ UNCHANGED live

Reopen(h) ==
    /\ live[h]
    /\ OpenFrom(h, Closed(fd[h]))
    /\ UNCHANGED live

\* Mutation of Begin: the count is not reset.
BeginNoReset(h) ==
    /\ live[h] /\ valid[h]
    /\ on' = [on EXCEPT ![fd[h]] = TRUE]
    /\ UNCHANGED <<objVars, table, count>>

Begin(h) ==
    /\ live[h] /\ valid[h]
    /\ on' = [on EXCEPT ![fd[h]] = TRUE]
    /\ count' = [count EXCEPT ![fd[h]] = 0]
    /\ UNCHANGED <<objVars, table>>

End(h) ==
    /\ live[h] /\ valid[h]
    /\ on' = [on EXCEPT ![fd[h]] = FALSE]
    /\ UNCHANGED <<objVars, table, count>>

\* retrieve: an event without time running reads 0; without multiplexing the
\* value is returned as it is.
Retrieve(h) == IF valid[h] THEN count[fd[h]] ELSE 0

\* Mutation of Move: o.e_fd = -1 is forgotten.
MoveKeepsSource(g, h) ==
    /\ live[g] /\ ~live[h]
    /\ live' = [live EXCEPT ![h] = TRUE]
    /\ fd' = [fd EXCEPT ![h] = fd[g]]
    /\ lastErr' = [lastErr EXCEPT ![h] = lastErr[g]]
    /\ valid' = [valid EXCEPT ![h] = valid[g], ![g] = FALSE]
    /\ UNCHANGED kernelVars

\* Mutation of Move: o.valid = false is forgotten.
MoveKeepsValid(g, h) ==
    /\ live[g] /\ ~live[h]
    /\ live' = [live EXCEPT ![h] = TRUE]
    /\ fd' = [fd EXCEPT ![h] = fd[g], ![g] = NoFd]
    /\ lastErr' = [lastErr EXCEPT ![h] = lastErr[g]]
    /\ valid' = [valid EXCEPT ![h] = valid[g]]
    /\ UNCHANGED kernelVars

\* The move constructor: h is constructed from g.
Move(g, h) ==
    /\ live[g] /\ ~live[h]
    /\ live' = [live EXCEPT ![h] = TRUE]
    /\ fd' = [fd EXCEPT ![h] = fd[g], ![g] = NoFd]
    /\ lastErr' = [lastErr EXCEPT ![h] = lastErr[g]]
    /\ valid' = [valid EXCEPT ![h] = valid[g], ![g] = FALSE]
    /\ UNCHANGED kernelVars

\* After the destructor the storage holds no object; what its members last
\* held is not read again, and is forgotten here.
Destroy(h) ==
    /\ live[h]
    /\ table' = Closed(fd[h])
    /\ live' = [live EXCEPT ![h] = FALSE]
    /\ fd' = [fd EXCEPT ![h] = NoFd]
    /\ lastErr' = [lastErr EXCEPT ![h] = FALSE]
    /\ valid' = [valid EXCEPT ![h] = FALSE]
    /\ UNCHANGED <<on, count>>

\* The rest of the process opens and closes descriptors of its own.
OtherOpens(f) ==
    /\ table[f] = "free"
    /\ table' = [table EXCEPT ![f] = "other"]
    /\ UNCHANGED <<objVars, on, count>>

OtherCloses(f) ==
    /\ table[f] = "other"
    /\ table' = [table EXCEPT ![f] = "free"]
    /\ UNCHANGED <<objVars, on, count>>

\* The measured code does one unit of work.
Counting(f) == table[f] = "perf" /\ on[f]

Work ==
    /\ \A f \in Fds : Counting(f) => count[f] < MaxCount
    /\ count' = [f \in Fds |-> IF Counting(f) THEN count[f] + 1 ELSE count[f]]
    /\ UNCHANGED <<objVars, table, on>>

Next ==
    \/ \E h \in Handles :
          \/ Construct(h) \/ Open(h) \/ Reopen(h) \/ Begin(h) \/ End(h)
          \/ Destroy(h)
    \/ \E g, h \in Handles : Move(g, h)
    \/ \E f \in Fds : OtherOpens(f) \/ OtherCloses(f)
    \/ Work

Spec == Init /\ [][Next]_vars

-----------------------------------------------------------------------------
(* Properties. *)

\* Every variable has its type (the members of dynamic_event, the kernel's
\* descriptor table).
TypeOK ==
    /\ live \in [Handles -> BOOLEAN]
    /\ fd \in [Handles -> Fds \cup {NoFd}]
    /\ lastErr \in [Handles -> BOOLEAN]
    /\ valid \in [Handles -> BOOLEAN]
    /\ table \in [Fds -> {"free", "perf", "other"}]
    /\ on \in [Fds -> BOOLEAN]
    /\ count \in [Fds -> Nat]

\* No two objects ever hold the same descriptor, through any sequence of
\* moves, failed reopens and reuse of numbers: nothing is closed twice.
NoAlias ==
    \A g, h \in Handles : g # h /\ fd[g] # NoFd => fd[g] # fd[h]

\* A descriptor an object holds is an open perf event: no object keeps a
\* number that was closed, and possibly given to someone else.
HeldIsOpen == \A h \in Handles : fd[h] # NoFd => table[fd[h]] = "perf"

\* Every open perf event belongs to an object that will close it.
NoLeak ==
    \A f \in Fds : table[f] = "perf" => \E h \in Handles : live[h] /\ fd[h] = f

\* Together: objects and open perf events correspond one to one, through moves,
\* failed reopens and numbers handed out again (dynamic_event).
ExclusiveOwnership == NoAlias /\ HeldIsOpen /\ NoLeak

\* The two flags that say "open" agree, whatever sequence of moves and failed
\* opens led here, and an error is remembered only by a closed object.
FlagsAgree ==
    \A h \in Handles : /\ valid[h] = (fd[h] # NoFd)
                       /\ lastErr[h] => ~valid[h]

\* No operation of an event object closes a descriptor of other code.
ClosesOnlyOwn ==
    [][\A f \in Fds : (table[f] = "other" /\ table'[f] # "other")
                         => UNCHANGED objVars]_vars

\* What the caller sees: independent meters.
MeterOf(h) ==
    [open |-> valid[h], on |-> valid[h] /\ on[fd[h]], n |-> Retrieve(h)]

Abstract == INSTANCE Meters WITH meter <- [h \in Handles |-> MeterOf(h)]

\* The objects implement independent meters (refinement).
IsMeters == Abstract!Spec
=============================================================================
