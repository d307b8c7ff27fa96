------------------------------- MODULE Meters -------------------------------
(***************************************************************************)
(* What a set of event objects promises: each is a meter of its own.       *)
(* Nothing done to one meter shows in another, a meter that could not be   *)
(* opened reads 0, and a moved meter keeps its reading.  There are no      *)
(* descriptors here; EventHandles implements this with descriptors of a    *)
(* table the whole process shares.                                         *)
(***************************************************************************)
EXTENDS Naturals

CONSTANTS Handles

VARIABLES meter     \* meter[h]: what object h measures and has measured

Closed == [open |-> FALSE, on |-> FALSE, n |-> 0]
Fresh == [open |-> TRUE, on |-> FALSE, n |-> 0]

Init == meter = [h \in Handles |-> Closed]

Set(h, m) == meter' = [meter EXCEPT ![h] = m]

\* Opening (again) yields a fresh meter, or none.
Open(h) == Set(h, Fresh) \/ Set(h, Closed)

Begin(h) ==
    /\ meter[h].open
    /\ Set(h, [open |-> TRUE, on |-> TRUE, n |-> 0])

End(h) ==
    /\ meter[h].open
    /\ Set(h, [open |-> TRUE, on |-> FALSE, n |-> meter[h].n])

Move(g, h) ==
    /\ g # h
    /\ meter' = [meter EXCEPT ![h] = meter[g], ![g] = Closed]

\* One unit of the measured work: every running meter sees it.
Tally == meter' = [h \in Handles |->
                      IF meter[h].on THEN [meter[h] EXCEPT !.n = @ + 1]
                      ELSE meter[h]]

Next ==
    \/ \E h \in Handles : Open(h) \/ Begin(h) \/ End(h)
    \/ \E g, h \in Handles : Move(g, h)
    \/ Tally

Spec == Init /\ [][Next]_meter
=============================================================================
