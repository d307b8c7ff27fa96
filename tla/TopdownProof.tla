---------------------------- MODULE TopdownProof ----------------------------
(***************************************************************************)
(* Proofs about Topdown, for every number of categories, binaries and      *)
(* units of work.                                                          *)
(***************************************************************************)
EXTENDS Topdown, TLAPS

\* The types the argument needs.
TdTypeOK ==
    /\ idx \in 1..(NCounters + 1)
    /\ open \in [Counters -> BOOLEAN]
    /\ err \in [Counters -> BOOLEAN]
    /\ on \in [Counters -> BOOLEAN]
    /\ cnt \in [Counters -> Nat]
    /\ work \in Nat
    /\ share \in [Categories -> Nat]
    /\ supported \in BOOLEAN

\* Counters are opened disabled, follow nobody but the program, and wait for
\* its exec.
TdConfigInv ==
    /\ attr.disabled /\ ~attr.inherit
    /\ pc \in {"pre", "preHook", "pipe", "fork"} => attr.enableOnExec
    /\ child # "none" => attr.enableOnExec

\* Where the child can be, given where measure_bin is.
TdLifeInv ==
    /\ pc \in {"configure", "pre", "preHook", "pipe", "fork"} =>
          child = "none"
    /\ pc \in {"closeRead", "attach", "go"} =>
          child \in {"forked", "reading", "zombie"}
    /\ pc \in {"closeWrite", "reap"} => child # "none"
    /\ pc \in {"disable", "post", "postHook", "collect"} => child = "reaped"
    /\ pc = "returned" => child \in {"none", "reaped"}

\* Until the go byte is written the pipe is empty and its write end is held.
TdPipeInv ==
    /\ pc \in {"configure", "pre", "preHook", "pipe", "fork", "closeRead",
               "attach", "go"} => ~byte
    /\ pc \in {"fork", "closeRead", "attach", "go"} => "parent" \in writers

\* Which counters are open while the attach loop visits them, and afterwards.
TdAttachInv ==
    /\ pc \in {"configure", "pre", "preHook", "pipe", "fork", "closeRead"} =>
          \A c \in Counters : ~open[c] /\ ~err[c]
    /\ pc \in Final => \A c \in Counters : ~open[c]
    /\ pc = "attach" => \A c \in Counters : c >= idx => ~open[c] /\ ~err[c]
    /\ pc = "attach" => \A c \in Counters : c < idx => open[c] = ~err[c]
    /\ pc \in {"go", "closeWrite", "reap", "disable", "post", "postHook",
               "collect"} => \A c \in Counters : open[c] = ~err[c]

\* An open counter is off until the exec and on while the program runs.
TdOnInv ==
    /\ \A c \in Counters : on[c] => open[c]
    /\ child \in {"none", "forked", "reading", "released"} =>
          \A c \in Counters : ~on[c]
    /\ child = "running" => \A c \in Counters : open[c] => on[c]

\* No program, no work; and an open counter has counted its part of the work.
TdCountInv ==
    /\ child \in {"none", "forked", "reading", "released"} =>
          work = 0 /\ \A k \in Categories : share[k] = 0
    /\ pc \in {"pipe", "fork", "closeRead", "attach", "go"} =>
          work = 0 /\ \A k \in Categories : share[k] = 0
    /\ open[Slots] => cnt[Slots] = work
    /\ \A k \in Categories : open[k] => cnt[k] = share[k]

\* A result is there only between two calls of measure_bin.
TdResultInv ==
    /\ pc # "returned" => ~supported
    /\ FractionsExact

TdSafe == /\ TdConfigInv /\ TdLifeInv /\ TdPipeInv /\ TdAttachInv /\ TdOnInv
          /\ TdCountInv /\ TdResultInv

TdInv == TdTypeOK /\ TdSafe

-----------------------------------------------------------------------------

\* A behaviour starts in the invariant.
LEMMA TdInvInit == TdInit => TdInv
<1> SUFFICES ASSUME TdInit PROVE TdInv
  OBVIOUS
<1> USE CountersAssumption, SlotsAssumption
<1> USE DEF TdInit, Init, Counters, Categories, Final
<1>1. TdTypeOK
  <2>1. idx \in 1..(NCounters + 1)
    OBVIOUS
  <2>2. /\ open \in [Counters -> BOOLEAN] /\ err \in [Counters -> BOOLEAN]
        /\ on \in [Counters -> BOOLEAN] /\ cnt \in [Counters -> Nat]
        /\ share \in [Categories -> Nat]
    OBVIOUS
  <2>3. work \in Nat /\ supported \in BOOLEAN
    OBVIOUS
  <2> QED BY <2>1, <2>2, <2>3 DEF TdTypeOK
<1>2. TdConfigInv /\ TdLifeInv /\ TdPipeInv
  BY DEF TdConfigInv, TdLifeInv, TdPipeInv
<1>3. TdAttachInv /\ TdOnInv /\ TdCountInv
  BY DEF TdAttachInv, TdOnInv, TdCountInv
<1>4. TdResultInv
  BY DEF TdResultInv, FractionsExact
<1> QED BY <1>1, <1>2, <1>3, <1>4 DEF TdInv, TdSafe

\* Every step keeps the types.
LEMMA TdTypeStep == ASSUME TdTypeOK, [TdNext]_allVars PROVE TdTypeOK'
<1> USE CountersAssumption, SlotsAssumption, WorkAssumption
<1> USE DEF TdTypeOK, Counters, Categories
<1>a. CountChild \in [Counters -> Nat]
  BY DEF CountChild
<1>b. 1 \in 1..(NCounters + 1)
  OBVIOUS
<1>1. CASE TdConfigure
  BY <1>1 DEF TdConfigure, procVars, perfVars, workVars, timeVars
<1>2. CASE PreHook /\ UNCHANGED tdVars
  BY <1>2 DEF PreHook, Hook, runVars, procVars, perfVars, workVars, tdVars
<1>3. CASE HookFails /\ UNCHANGED tdVars
  BY <1>3 DEF HookFails, Halt, runVars, workVars, tdVars
<1>4. CASE HookExits /\ UNCHANGED tdVars
  BY <1>4 DEF HookExits, Goto, runVars, procVars, perfVars, workVars,
     tdVars
<1>5. CASE Pipe /\ UNCHANGED tdVars
  BY <1>5 DEF Pipe, Goto, runVars, perfVars, workVars, tdVars
<1>6. CASE Fork /\ UNCHANGED tdVars
  BY <1>6 DEF Fork, Goto, runVars, perfVars, workVars, tdVars
<1>7. CASE PipeOrForkFails /\ UNCHANGED tdVars
  BY <1>7 DEF PipeOrForkFails, Halt, runVars, workVars, tdVars
<1>8. CASE CloseRead /\ UNCHANGED tdVars
  BY <1>8 DEF CloseRead, Goto, runVars, perfVars, workVars, tdVars
<1>9. CASE Attach /\ UNCHANGED tdVars
  BY <1>9 DEF Attach, runVars, procVars, workVars, tdVars
<1>10. CASE Attached /\ UNCHANGED tdVars
  BY <1>10 DEF Attached, Goto, runVars, procVars, perfVars, workVars,
     tdVars
<1>11. CASE Go /\ UNCHANGED tdVars
  BY <1>11 DEF Go, Goto, runVars, perfVars, workVars, tdVars
<1>12. CASE GoBrokenPipe /\ UNCHANGED tdVars
  BY <1>12 DEF GoBrokenPipe, Halt, runVars, workVars, tdVars
<1>13. CASE Disable /\ UNCHANGED tdVars
  BY <1>13 DEF Disable, runVars, procVars, workVars, tdVars
<1>14. CASE Disabled /\ UNCHANGED tdVars
  BY <1>14 DEF Disabled, Goto, runVars, procVars, perfVars, workVars,
     tdVars
<1>15. CASE PostHook /\ UNCHANGED tdVars
  BY <1>15 DEF PostHook, Hook, runVars, procVars, perfVars, workVars,
     tdVars
<1>16. CASE TdCloseWrite
  BY <1>16 DEF TdCloseWrite, Goto, runVars, perfVars, workVars, tdVars
<1>17. CASE TdReap
  BY <1>b, <1>17 DEF TdReap, Goto, runVars, perfVars, workVars, tdVars
<1>18. CASE TdCollect
  BY <1>18 DEF TdCollect, Read, Halt, runVars, workVars
<1>19. CASE NextBinary
  BY <1>b, <1>19 DEF NextBinary
<1>20. CASE ChildCloseWrite /\ UNCHANGED tdVars
  BY <1>a, <1>20 DEF ChildCloseWrite, parentVars, workVars, tdVars
<1>21. CASE ChildRead /\ UNCHANGED tdVars
  BY <1>a, <1>21 DEF ChildRead, parentVars, workVars, tdVars
<1>22. CASE ChildExec /\ UNCHANGED tdVars
  BY <1>22 DEF ChildExec, parentVars, workVars, tdVars
<1>23. CASE TdWork
  <2>1. PICK k \in Categories :
          /\ share' = [share EXCEPT ![k] = @ + 1]
          /\ cnt' = [c \in Counters |->
                        IF c \in {Slots, k} THEN CountChild[c] ELSE cnt[c]]
    BY <1>23 DEF TdWork
  <2>2. share' \in [Categories -> Nat] /\ cnt' \in [Counters -> Nat]
    BY <2>1, <1>a
  <2> QED BY <1>23, <2>2 DEF TdWork, parentVars, procVars
<1>24. CASE ParentKilled /\ UNCHANGED tdVars
  BY <1>24 DEF ParentKilled, Halt, runVars, workVars, tdVars
<1>25. CASE ChildForks /\ UNCHANGED tdVars
  BY <1>25 DEF ChildForks, parentVars, procVars, perfVars, tdVars
<1>26. CASE KinWork /\ UNCHANGED tdVars
  BY <1>a, <1>26 DEF KinWork, CountKin, parentVars, procVars, tdVars
<1>27. CASE KinExits /\ UNCHANGED tdVars
  BY <1>27 DEF KinExits, parentVars, procVars, perfVars, tdVars
<1>28. CASE ChildExits /\ UNCHANGED tdVars
  BY <1>28 DEF ChildExits, parentVars, perfVars, workVars, tdVars
<1>29. CASE UNCHANGED allVars
  BY <1>29 DEF allVars, vars, tdVars
<1> QED
  BY <1>1, <1>2, <1>3, <1>4, <1>5, <1>6, <1>7, <1>8, <1>9, <1>10, <1>11,
     <1>12, <1>13, <1>14, <1>15, <1>16, <1>17, <1>18, <1>19, <1>20, <1>21,
     <1>22, <1>23, <1>24, <1>25, <1>26, <1>27, <1>28, <1>29
  DEF TdNext, TdParentStep, AttachStep, TdChildStep, ChildStep, OtherStep,
      TdFinished

\* Every step keeps the rest of the invariant.
LEMMA TdSafeStep == ASSUME TdInv, [TdNext]_allVars PROVE TdSafe'
<1> USE CountersAssumption, SlotsAssumption, WorkAssumption
<1> USE DEF TdInv, TdSafe, TdTypeOK, TdConfigInv, TdLifeInv, TdPipeInv,
        TdAttachInv, TdOnInv, TdCountInv, TdResultInv, FractionsExact,
        Counters, Categories, Final, Alive
<1>1. CASE TdConfigure
  BY <1>1 DEF TdConfigure, procVars, perfVars, workVars, timeVars
<1>2. CASE PreHook /\ UNCHANGED tdVars
  BY <1>2 DEF PreHook, Hook, runVars, procVars, perfVars, workVars, tdVars
<1>3. CASE HookFails /\ UNCHANGED tdVars
  BY <1>3 DEF HookFails, Halt, runVars, workVars, tdVars
<1>4. CASE HookExits /\ UNCHANGED tdVars
  BY <1>4 DEF HookExits, Goto, runVars, procVars, perfVars, workVars,
     tdVars
<1>5. CASE Pipe /\ UNCHANGED tdVars
  BY <1>5 DEF Pipe, Goto, runVars, perfVars, workVars, tdVars
<1>6. CASE Fork /\ UNCHANGED tdVars
  BY <1>6 DEF Fork, Goto, runVars, perfVars, workVars, tdVars
<1>7. CASE PipeOrForkFails /\ UNCHANGED tdVars
  BY <1>7 DEF PipeOrForkFails, Halt, runVars, workVars, tdVars
<1>8. CASE CloseRead /\ UNCHANGED tdVars
  BY <1>8 DEF CloseRead, Goto, runVars, perfVars, workVars, tdVars
<1>9. CASE Attach /\ UNCHANGED tdVars
  <2>1. (TdConfigInv /\ TdLifeInv /\ TdPipeInv /\ TdResultInv)'
    BY <1>9 DEF Attach, runVars, procVars, workVars, tdVars
  <2>2. TdAttachInv'
    <3>1. PICK ok \in BOOLEAN :
            /\ open' = [open EXCEPT ![idx] = ok]
            /\ err' = [err EXCEPT ![idx] = ~ok]
      BY <1>9 DEF Attach
    <3>2. pc = "attach" /\ pc' = "attach" /\ idx' = idx + 1 /\ idx \in Nat
      BY <1>9 DEF Attach
    <3>3. ASSUME NEW c \in Counters, c >= idx' PROVE ~open'[c] /\ ~err'[c]
      BY <3>1, <3>2, <3>3
    <3>4. ASSUME NEW c \in Counters, c < idx' PROVE open'[c] = ~err'[c]
      <4>1. CASE c = idx
        BY <3>1, <4>1
      <4>2. CASE c < idx
        BY <3>1, <3>2, <4>2
      <4> QED BY <3>2, <3>4, <4>1, <4>2
    <3> QED BY <3>2, <3>3, <3>4
  <2>3. TdOnInv'
    <3>1. PICK ok \in BOOLEAN :
            /\ open' = [open EXCEPT ![idx] = ok]
            /\ on' = [on EXCEPT ![idx] = FALSE]
      BY <1>9 DEF Attach
    <3>2. child' = child /\ child # "running"
      BY <1>9 DEF Attach, procVars
    <3> QED BY <3>1, <3>2
  <2>4. TdCountInv'
    <3>1. PICK ok \in BOOLEAN :
            open' = [open EXCEPT ![idx] = ok] /\ cnt' = [cnt EXCEPT ![idx] = 0]
      BY <1>9 DEF Attach
    <3>2. work = 0 /\ \A k \in Categories : share[k] = 0
      BY <1>9 DEF Attach
    <3>3. pc' = pc /\ child' = child /\ work' = work /\ share' = share
      BY <1>9 DEF Attach, procVars, workVars, tdVars
    <3>4. ASSUME NEW c \in Counters, open'[c], open[c] => cnt[c] = 0
          PROVE  cnt'[c] = 0
      BY <3>1, <3>4
    <3>5. (open[Slots] => cnt[Slots] = work)'
      BY <3>2, <3>3, <3>4
    <3>6. (\A k \in Categories : open[k] => cnt[k] = share[k])'
      BY <3>2, <3>3, <3>4
    <3> QED BY <3>2, <3>3, <3>5, <3>6
  <2> QED BY <2>1, <2>2, <2>3, <2>4
<1>10. CASE Attached /\ UNCHANGED tdVars
  BY <1>10 DEF Attached, Goto, runVars, procVars, perfVars, workVars,
     tdVars
<1>11. CASE Go /\ UNCHANGED tdVars
  BY <1>11 DEF Go, Goto, runVars, perfVars, workVars, tdVars
<1>12. CASE GoBrokenPipe /\ UNCHANGED tdVars
  BY <1>12 DEF GoBrokenPipe, Halt, runVars, workVars, tdVars
<1>13. CASE Disable /\ UNCHANGED tdVars
  BY <1>13 DEF Disable, runVars, procVars, workVars, tdVars
<1>14. CASE Disabled /\ UNCHANGED tdVars
  BY <1>14 DEF Disabled, Goto, runVars, procVars, perfVars, workVars,
     tdVars
<1>15. CASE PostHook /\ UNCHANGED tdVars
  BY <1>15 DEF PostHook, Hook, runVars, procVars, perfVars, workVars,
     tdVars
<1>16. CASE TdCloseWrite
  BY <1>16 DEF TdCloseWrite, Goto, runVars, perfVars, workVars, tdVars
<1>17. CASE TdReap
  BY <1>17 DEF TdReap, Goto, runVars, perfVars, workVars, tdVars
<1>18. CASE TdCollect
  BY <1>18 DEF TdCollect, Read, Halt, runVars, workVars
<1>19. CASE NextBinary
  BY <1>19 DEF NextBinary
<1>20. CASE ChildCloseWrite /\ UNCHANGED tdVars
  BY <1>20 DEF ChildCloseWrite, CountChild, parentVars, workVars, tdVars
<1>21. CASE ChildRead /\ UNCHANGED tdVars
  BY <1>21 DEF ChildRead, CountChild, parentVars, workVars, tdVars
<1>22. CASE ChildExec /\ UNCHANGED tdVars
  BY <1>22 DEF ChildExec, parentVars, workVars, tdVars
<1>23. CASE TdWork
  BY <1>23 DEF TdWork, CountChild, parentVars, procVars
<1>24. CASE ParentKilled /\ UNCHANGED tdVars
  BY <1>24 DEF ParentKilled, Halt, runVars, workVars, tdVars
<1>25. CASE ChildForks /\ UNCHANGED tdVars
  BY <1>25 DEF ChildForks, parentVars, procVars, perfVars, tdVars
<1>26. CASE KinWork /\ UNCHANGED tdVars
  BY <1>26 DEF KinWork, CountKin, parentVars, procVars, tdVars
<1>27. CASE KinExits /\ UNCHANGED tdVars
  BY <1>27 DEF KinExits, parentVars, procVars, perfVars, tdVars
<1>28. CASE ChildExits /\ UNCHANGED tdVars
  BY <1>28 DEF ChildExits, parentVars, perfVars, workVars, tdVars
<1>29. CASE UNCHANGED allVars
  BY <1>29 DEF allVars, vars, tdVars
<1> QED
  BY <1>1, <1>2, <1>3, <1>4, <1>5, <1>6, <1>7, <1>8, <1>9, <1>10, <1>11,
     <1>12, <1>13, <1>14, <1>15, <1>16, <1>17, <1>18, <1>19, <1>20, <1>21,
     <1>22, <1>23, <1>24, <1>25, <1>26, <1>27, <1>28, <1>29
  DEF TdNext, TdParentStep, AttachStep, TdChildStep, ChildStep, OtherStep,
      TdFinished

\* The invariant holds throughout.
THEOREM TdInvariance == TdSpec => []TdInv
<1>1. TdInv /\ [TdNext]_allVars => TdInv'
  BY TdTypeStep, TdSafeStep DEF TdInv
<1> QED BY TdInvInit, <1>1, PTL DEF TdSpec

\* Whichever counters the kernel refuses, and however often measure_bin is
\* called: the slots of a supported result are all the work of its program,
\* and the share of a counted category is its part of that work.
THEOREM FractionsExactHolds == TdSpec => []FractionsExact
<1>1. TdInv => FractionsExact
  BY DEF TdInv, TdSafe, TdResultInv
<1> QED BY <1>1, TdInvariance, PTL
=============================================================================
