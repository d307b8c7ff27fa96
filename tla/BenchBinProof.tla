--------------------------- MODULE BenchBinProof ---------------------------
(***************************************************************************)
(* Proofs about BenchBin, for every number of counters, every set of       *)
(* options and every bound.                                                *)
(***************************************************************************)
EXTENDS BenchBin, TLAPS

\* The parts of the inductive invariant, each about one mechanism.

\* The group is configured before anything is opened or forked.
ConfigInv ==
    /\ attr.disabled
    /\ pc \notin {"configure", "killed"} =>
          attr.enableOnExec /\ attr.inherit = opts.inherit
    /\ pc = "configure" => child = "none"
    /\ child # "none" => attr.enableOnExec /\ attr.inherit = opts.inherit

\* Where the child can be, given where the parent is.
LifeInv ==
    /\ pc \in {"configure", "pre", "preHook", "pipe", "fork"} =>
          child = "none"
    /\ pc \in {"closeRead", "attach", "go"} =>
          child \in {"forked", "reading", "zombie"}
    /\ pc = "sigpipe" => child = "zombie"
    /\ pc \in Waiting \cup {"closeWrite", "delay", "clockBegin"} =>
          child \in Alive \cup {"zombie"}
    /\ pc \in {"clockEnd", "disable", "post", "postHook", "collect",
               "returned"} => child = "reaped"

\* Until the go byte is written the pipe is empty and its write end is held.
PipeInv ==
    /\ pc \in {"fork", "closeRead", "attach", "go"} =>
          "parent" \in writers /\ ~byte
    /\ pc \in {"configure", "pre", "preHook", "pipe"} =>
          writers = {} /\ readers = {} /\ ~byte
    /\ child \in {"forked", "reading"} => "child" \in readers

\* No program, no work.
WorkInv ==
    child \in {"none", "forked", "reading", "released"} \/ pc \in Before =>
        work = 0 /\ kin = "none" /\ kinWork = 0

\* Which members of the group are open while the attach loop visits them,
\* and afterwards.
AttachInv ==
    /\ pc \in {"configure", "pre", "preHook", "pipe", "fork", "closeRead"} =>
          \A c \in Counters : ~open[c] /\ ~err[c]
    /\ pc \in Final => \A c \in Counters : ~open[c]
    /\ pc = "attach" => \A c \in Counters : c >= idx => ~open[c] /\ ~err[c]
    /\ pc = "attach" => \A c \in Counters : c < idx => open[c] = ~err[c]
    /\ pc \in {"go"} \cup Waiting \cup After =>
          \A c \in Counters : open[c] = ~err[c]

\* An open counter is off until the exec, on while the program runs, and has
\* counted nothing before it.
OnInv ==
    /\ \A c \in Counters : on[c] => open[c]
    /\ child \in {"none", "forked", "reading", "released"} =>
          \A c \in Counters : ~on[c] /\ (open[c] => cnt[c] = 0)
    /\ child = "running" => \A c \in Counters : open[c] => on[c]

\* Clock, deadline and signal: what has passed and what __now_ms still lacks
\* make up the timeout, less the part of a millisecond rounded away.
TimeInv ==
    /\ pc \in Waiting => clock
    /\ pc \in Before \cup {"closeWrite", "delay", "clockBegin", "wait", "poll",
                           "check"} => signal = "none"
    /\ pc \in {"poll", "check"} =>
          /\ opts.timeout > 0
          /\ elapsed + Units(timer) + Ms > Units(opts.timeout) + frac
    /\ pc \in {"grace", "gracePoll"} =>
          /\ signal = "term"
          /\ elapsed + Units(timer) + Ms > Units(opts.timeout + Grace) + frac
    /\ KilledTakesTimeout

\* Counters later in the group stop later, so they never hold less.
SkewInv ==
    /\ \A c, d \in Counters : c < d /\ open[c] /\ open[d] =>
          cnt[c] <= cnt[d] /\ (on[c] => on[d])
    /\ pc = "disable" => \A c \in Counters : c < idx => ~on[c]
    /\ SkewOrdered

\* The inductive invariant without its type part.
Safe == /\ ConfigInv /\ LifeInv /\ PipeInv /\ WorkInv /\ AttachInv /\ OnInv
        /\ CompleteCount /\ TimeInv /\ SkewInv

IInv == TypeOK /\ Safe

-----------------------------------------------------------------------------

\* Whole milliseconds, in units.
LEMMA Milliseconds ==
    /\ Units(0) = 0
    /\ \A a \in Nat : Units(a) \in Nat
    /\ \A a \in Nat : a > 0 => Units(a) = Units(a - 1) + Ms
    /\ \A a, b \in Nat : Units(a + b) = Units(a) + Units(b)
<1>1. Ms \in Nat
  BY GraceAssumption
<1>2. ASSUME NEW a \in Nat, NEW b \in Nat
      PROVE  /\ a * Ms \in Nat
             /\ (a + b) * Ms = a * Ms + b * Ms
  BY <1>1
<1>3. ASSUME NEW a \in Nat, a > 0
      PROVE  a * Ms = (a - 1) * Ms + Ms
  BY <1>1, <1>3
<1>4. 0 * Ms = 0
  BY <1>1
<1> QED  BY <1>2, <1>3, <1>4 DEF Units

\* Every step keeps the types.
LEMMA TypeStep == TypeOK /\ [Next]_vars => TypeOK'
<1> USE CountersAssumption, OptionsAssumption, GraceAssumption,
        WorkAssumption, ElapsedAssumption
<1> USE DEF TypeOK, Counters, Before, Waiting, After, Final, Alive, OptionsType
<1> SUFFICES ASSUME TypeOK, [Next]_vars PROVE TypeOK'
  OBVIOUS
<1>a. 1 \in 1..(NCounters + 1)
  OBVIOUS
<1>b. CountChild \in [Counters -> Nat]
  BY DEF CountChild
<1>c. CountKin \in [Counters -> Nat]
  BY <1>b DEF CountKin
<1>1. CASE Configure
  BY <1>1 DEF Configure, Goto, procVars, perfVars, workVars, timeVars
<1>2. CASE PreHook
  BY <1>2 DEF PreHook, Hook, runVars, procVars, perfVars, workVars, timeVars
<1>3. CASE HookFails
  BY <1>3 DEF HookFails, Halt, runVars, workVars
<1>4. CASE PostHook
  BY <1>4 DEF PostHook, Hook, runVars, procVars, perfVars, workVars,
       timeVars
<1>5. CASE Pipe
  BY <1>5 DEF Pipe, Goto, runVars, perfVars, workVars, timeVars
<1>6. CASE Fork
  BY <1>6 DEF Fork, Goto, runVars, perfVars, workVars, timeVars
<1>7. CASE PipeOrForkFails
  BY <1>7 DEF PipeOrForkFails, Halt, runVars, workVars
<1>8. CASE CloseRead
  BY <1>8, <1>a DEF CloseRead, Goto, runVars, perfVars, workVars, timeVars
<1>9. CASE Attach
  BY <1>9 DEF Attach, runVars, procVars, workVars, timeVars
<1>10. CASE Attached
  BY <1>10 DEF Attached, Goto, runVars, procVars, perfVars, workVars,
       timeVars
<1>11. CASE Go
  BY <1>11 DEF Go, Goto, runVars, perfVars, workVars, timeVars
<1>12. CASE GoBrokenPipe
  BY <1>12 DEF GoBrokenPipe, Halt, runVars, workVars
<1>13. CASE CloseWrite
  <2>1. timer' \in Nat
    BY <1>13, Milliseconds DEF CloseWrite
  <2> QED  BY <1>13, <2>1 DEF CloseWrite, Goto, runVars, perfVars, workVars
<1>14. CASE Delayed
  BY <1>14 DEF Delayed, Goto, runVars, procVars, perfVars, workVars,
       timeVars
<1>15. CASE ClockBegin
  BY <1>15 DEF ClockBegin, Goto, runVars, procVars, perfVars, workVars
<1>16. CASE Wait
  BY <1>16 DEF Wait, runVars, procVars, perfVars, workVars
<1>17. CASE Poll
  BY <1>17 DEF Poll, Collected, NotYet, runVars, perfVars, workVars,
       timeVars, procVars
<1>18. CASE Check
  BY <1>18 DEF Check, Goto, runVars, procVars, perfVars, workVars, timeVars
<1>19. CASE Terminate
  BY <1>19 DEF Terminate, Goto, runVars, procVars, perfVars, workVars
<1>20. CASE GraceLoop
  BY <1>20 DEF GraceLoop, Goto, runVars, procVars, perfVars, workVars,
       timeVars
<1>21. CASE GracePoll
  BY <1>21 DEF GracePoll, Collected, NotYet, runVars, perfVars, workVars,
       timeVars, procVars
<1>22. CASE Kill
  BY <1>22 DEF Kill, Goto, runVars, procVars, perfVars, workVars, timeVars
<1>23. CASE Reap
  BY <1>23 DEF Reap, Collected, runVars, perfVars, workVars, timeVars
<1>24. CASE ClockEnd
  BY <1>24, <1>a DEF ClockEnd, Goto, runVars, procVars, perfVars, workVars
<1>25. CASE Disable
  BY <1>25 DEF Disable, runVars, procVars, workVars, timeVars
<1>26. CASE Disabled
  BY <1>26 DEF Disabled, Goto, runVars, procVars, perfVars, workVars,
       timeVars
<1>27. CASE Collect
  BY <1>27 DEF Collect, Read, Halt, runVars, workVars
<1>28. CASE HookExits
  BY <1>28 DEF HookExits, Goto, runVars, procVars, perfVars, workVars,
       timeVars
<1>29. CASE ParentKilled
  BY <1>29 DEF ParentKilled, Halt, runVars, workVars
<1>30. CASE ChildCloseWrite
  BY <1>30, <1>b DEF ChildCloseWrite, parentVars, workVars
<1>31. CASE ChildRead
  <2>1. child' \in Alive /\ byte' \in BOOLEAN
    BY <1>31 DEF ChildRead
  <2>2. readers' \subseteq {"parent", "child"}
    BY <1>31 DEF ChildRead
  <2>3. cnt' \in [Counters -> Nat]
    BY <1>31, <1>b DEF ChildRead
  <2> QED
    BY <1>31, <2>1, <2>2, <2>3 DEF ChildRead, parentVars, workVars
<1>32. CASE ChildExec
  BY <1>32 DEF ChildExec, parentVars, workVars
<1>33. CASE ChildWork
  BY <1>33, <1>b DEF ChildWork, parentVars, procVars
<1>34. CASE ChildForks
  BY <1>34 DEF ChildForks, parentVars, procVars, perfVars
<1>35. CASE KinWork
  BY <1>35, <1>c DEF KinWork, parentVars, procVars
<1>36. CASE KinExits
  BY <1>36 DEF KinExits, parentVars, procVars, perfVars
<1>37. CASE ChildExits
  BY <1>37 DEF ChildExits, parentVars, perfVars, workVars
<1>38. CASE Tick
  <2>1. timer' \in Nat
    BY <1>38 DEF Tick
  <2>2. elapsed' \in 0..MaxElapsed
    BY <1>38 DEF Tick
  <2> QED
    BY <1>38, <2>1, <2>2 DEF Tick, runVars, procVars, perfVars, workVars
<1>39. CASE Finished
  BY <1>39 DEF Finished, vars
<1>40. CASE UNCHANGED vars
  BY <1>40 DEF vars
<1> QED
  BY <1>1, <1>2, <1>3, <1>4, <1>5, <1>6, <1>7, <1>8, <1>9, <1>10, <1>11,
       <1>12, <1>13, <1>14, <1>15, <1>16, <1>17, <1>18, <1>19, <1>20, <1>21,
       <1>22, <1>23, <1>24, <1>25, <1>26, <1>27, <1>28, <1>29, <1>30, <1>31,
       <1>32, <1>33, <1>34, <1>35, <1>36, <1>37, <1>38, <1>39, <1>40
  DEF Next, ParentStep, ChildStep

\* The program starts well typed.
LEMMA TypeInit == Init => TypeOK
<1> USE CountersAssumption, OptionsAssumption, GraceAssumption,
        WorkAssumption, ElapsedAssumption
<1> USE DEF TypeOK, Counters, Before, Waiting, After, Final, Alive, OptionsType
<1> SUFFICES ASSUME Init PROVE TypeOK
  OBVIOUS
<1>1. /\ open \in [Counters -> BOOLEAN]
      /\ err \in [Counters -> BOOLEAN]
      /\ on \in [Counters -> BOOLEAN]
  BY DEF Init
<1>2. cnt \in [Counters -> Nat] /\ result \in [Counters -> Nat]
  BY DEF Init
<1>3. attr \in [disabled : BOOLEAN, inherit : BOOLEAN, enableOnExec : BOOLEAN]
  BY DEF Init
<1>4. idx \in 1..(NCounters + 1) /\ elapsed \in 0..MaxElapsed
  BY DEF Init
<1>5. work \in 0..MaxWork /\ kinWork \in 0..MaxKinWork /\ timer \in Nat
  BY DEF Init
<1> QED  BY <1>1, <1>2, <1>3, <1>4, <1>5 DEF Init

\* Every variable always has its type.
THEOREM TypeCorrect == Spec => []TypeOK
<1> QED  BY TypeInit, TypeStep, PTL DEF Spec

\* Every step keeps the rest of the invariant.
LEMMA SafeStep == IInv /\ [Next]_vars => Safe'
<1> USE CountersAssumption, OptionsAssumption, GraceAssumption,
        WorkAssumption, ElapsedAssumption
<1> USE DEF IInv, Safe, TypeOK, ConfigInv, LifeInv, PipeInv, WorkInv,
        AttachInv, OnInv, CompleteCount, TimeInv, KilledTakesTimeout,
        SkewInv, SkewOrdered, Counters, Before, Waiting, After, Final, Alive,
        OptionsType
<1> SUFFICES ASSUME IInv, [Next]_vars PROVE Safe'
  OBVIOUS
<1>1. CASE Configure
  BY <1>1 DEF Configure, Goto, procVars, perfVars, workVars, timeVars
<1>2. CASE PreHook
  BY <1>2 DEF PreHook, Hook, runVars, procVars, perfVars, workVars, timeVars
<1>3. CASE HookFails
  BY <1>3 DEF HookFails, Halt, runVars, workVars
<1>4. CASE PostHook
  BY <1>4 DEF PostHook, Hook, runVars, procVars, perfVars, workVars,
       timeVars
<1>5. CASE Pipe
  BY <1>5 DEF Pipe, Goto, runVars, perfVars, workVars, timeVars
<1>6. CASE Fork
  BY <1>6 DEF Fork, Goto, runVars, perfVars, workVars, timeVars
<1>7. CASE PipeOrForkFails
  BY <1>7 DEF PipeOrForkFails, Halt, runVars, workVars
<1>8. CASE CloseRead
  BY <1>8 DEF CloseRead, Goto, runVars, perfVars, workVars, timeVars
<1>9. CASE Attach
  <2>1. (ConfigInv /\ LifeInv /\ PipeInv /\ WorkInv)'
    BY <1>9 DEF Attach, runVars, procVars, workVars, timeVars
  <2>2. (AttachInv /\ OnInv)'
    BY <1>9 DEF Attach, runVars, procVars, workVars, timeVars
  <2>3. CompleteCount'
    BY <1>9 DEF Attach, runVars, procVars, workVars, timeVars
  <2>4. TimeInv'
    BY <1>9 DEF Attach, runVars, procVars, workVars, timeVars
  <2>5. SkewInv'
    <3>1. PICK ok \in BOOLEAN :
            /\ ok => child # "zombie"
            /\ open' = [open EXCEPT ![idx] = ok]
            /\ on' = [on EXCEPT ![idx] = ok /\ ~attr.disabled]
            /\ cnt' = [cnt EXCEPT ![idx] = 0]
      BY <1>9 DEF Attach
    <3>2. pc = "attach" /\ pc' = pc /\ idx \in Counters
      BY <1>9 DEF Attach
    <3>3. /\ on \in [Counters -> BOOLEAN] /\ open \in [Counters -> BOOLEAN]
          /\ cnt \in [Counters -> Nat] /\ attr.disabled
      OBVIOUS
    <3>4. CASE ok
      <4>1. \A c \in Counters : ~on[c] /\ (open[c] => cnt[c] = 0)
        BY <3>1, <3>2, <3>4
      <4>2. \A c \in Counters : ~on'[c] /\ (open'[c] => cnt'[c] = 0)
        BY ONLY <3>1, <3>3, <4>1
      <4> QED  BY <3>2, <4>2
    <3>5. CASE ~ok
      <4>1. \A c, d \in Counters : c < d /\ open[c] /\ open[d] =>
               cnt[c] <= cnt[d] /\ (on[c] => on[d])
        OBVIOUS
      <4>2. \A c \in Counters : open'[c] =>
               open[c] /\ cnt'[c] = cnt[c] /\ on'[c] = on[c]
        BY ONLY <3>1, <3>3, <3>5
      <4>3. \A c, d \in Counters : c < d /\ open'[c] /\ open'[d] =>
               cnt'[c] <= cnt'[d] /\ (on'[c] => on'[d])
        BY ONLY <4>1, <4>2
      <4> QED  BY <3>2, <4>3
    <3> QED  BY <3>4, <3>5
  <2> QED  BY <2>1, <2>2, <2>3, <2>4, <2>5
<1>10. CASE Attached
  BY <1>10 DEF Attached, Goto, runVars, procVars, perfVars, workVars,
       timeVars
<1>11. CASE Go
  BY <1>11 DEF Go, Goto, runVars, perfVars, workVars, timeVars
<1>12. CASE GoBrokenPipe
  BY <1>12 DEF GoBrokenPipe, Halt, runVars, workVars
<1>13. CASE CloseWrite
  BY <1>13 DEF CloseWrite, Goto, runVars, perfVars, workVars
<1>14. CASE Delayed
  BY <1>14 DEF Delayed, Goto, runVars, procVars, perfVars, workVars,
       timeVars
<1>15. CASE ClockBegin
  BY <1>15 DEF ClockBegin, Goto, runVars, procVars, perfVars, workVars
<1>16. CASE Wait
  <2>1. opts.timeout \in Nat
    OBVIOUS
  <2>2. (ConfigInv /\ LifeInv /\ PipeInv /\ WorkInv /\ AttachInv /\ OnInv)'
    BY <1>16 DEF Wait, runVars, procVars, perfVars, workVars
  <2>3. (CompleteCount /\ SkewInv)'
    BY <1>16 DEF Wait, runVars, procVars, perfVars, workVars
  <2>4. TimeInv'
    <3>1. /\ pc' = IF opts.timeout = 0 THEN "reap" ELSE "poll"
          /\ timer' = opts.timeout
          /\ opts' = opts /\ clock' = clock /\ elapsed' = elapsed
          /\ signal' = signal
      BY <1>16 DEF Wait, runVars
    <3>2. /\ clock /\ signal = "none" /\ elapsed \in Nat
          /\ frac' = frac /\ frac \in 0..(Ms - 1)
      BY <1>16 DEF Wait
    <3>3. Ms \in Nat /\ Units(opts.timeout) \in Nat
      BY <2>1, Milliseconds
    <3>4. elapsed + Units(opts.timeout) + Ms > Units(opts.timeout) + frac
      BY <3>2, <3>3
    <3> QED  BY <2>1, <3>1, <3>2, <3>4
  <2> QED  BY <2>2, <2>3, <2>4
<1>17. CASE Poll
  <2>1. CASE Collected("clockEnd")
    BY <1>17, <2>1 DEF Poll, Collected, runVars, perfVars, workVars, timeVars
  <2>2. CASE NotYet("check")
    BY <1>17, <2>2 DEF Poll, NotYet, runVars, procVars, perfVars, workVars,
                      timeVars
  <2> QED  BY <1>17, <2>1, <2>2 DEF Poll
<1>18. CASE Check
  BY <1>18 DEF Check, Goto, runVars, procVars, perfVars, workVars, timeVars
<1>19. CASE Terminate
  <2>1. (ConfigInv /\ LifeInv /\ PipeInv /\ WorkInv /\ AttachInv /\ OnInv)'
    BY <1>19 DEF Terminate, Goto, runVars, procVars, perfVars, workVars
  <2>2. (CompleteCount /\ SkewInv)'
    BY <1>19 DEF Terminate, Goto, runVars, procVars, perfVars, workVars
  <2>3. TimeInv'
    <3>1. /\ pc = "check" /\ pc' = "grace" /\ signal' = "term"
          /\ timer = 0 /\ timer' = Grace
          /\ opts' = opts /\ clock' = clock /\ elapsed' = elapsed
          /\ frac' = frac
      BY <1>19 DEF Terminate, Goto, runVars
    <3>2. /\ clock /\ opts.timeout > 0
          /\ elapsed + Units(0) + Ms > Units(opts.timeout) + frac
      BY <3>1
    <3>3. /\ Units(0) = 0
          /\ Units(opts.timeout) \in Nat /\ Units(Grace) \in Nat
          /\ Units(opts.timeout + Grace) = Units(opts.timeout) + Units(Grace)
      BY Milliseconds
    <3>4. elapsed \in Nat /\ frac \in Nat /\ Ms \in Nat
      OBVIOUS
    <3>5. /\ elapsed + Ms > Units(opts.timeout)
          /\ elapsed + Units(Grace) + Ms > Units(opts.timeout + Grace) + frac
      BY ONLY <3>2, <3>3, <3>4
    <3> QED  BY <3>1, <3>2, <3>5
  <2> QED  BY <2>1, <2>2, <2>3
<1>20. CASE GraceLoop
  BY <1>20 DEF GraceLoop, Goto, runVars, procVars, perfVars, workVars,
       timeVars
<1>21. CASE GracePoll
  <2>1. CASE Collected("clockEnd")
    BY <1>21, <2>1 DEF GracePoll, Collected, runVars, perfVars, workVars, timeVars
  <2>2. CASE NotYet("grace")
    BY <1>21, <2>2 DEF GracePoll, NotYet, runVars, procVars, perfVars, workVars,
                      timeVars
  <2> QED  BY <1>21, <2>1, <2>2 DEF GracePoll
<1>22. CASE Kill
  <2>1. (ConfigInv /\ LifeInv /\ PipeInv /\ WorkInv /\ AttachInv /\ OnInv)'
    BY <1>22 DEF Kill, Goto, runVars, procVars, perfVars, workVars, timeVars
  <2>2. (CompleteCount /\ SkewInv)'
    BY <1>22 DEF Kill, Goto, runVars, procVars, perfVars, workVars, timeVars
  <2>3. TimeInv'
    <3>1. /\ pc = "grace" /\ pc' = "reap" /\ signal' = "kill" /\ timer = 0
          /\ opts' = opts /\ clock' = clock /\ elapsed' = elapsed
      BY <1>22 DEF Kill, Goto, runVars, timeVars
    <3>2. /\ clock /\ opts.timeout > 0
          /\ elapsed + Ms > Units(opts.timeout)
          /\ elapsed + Units(0) + Ms > Units(opts.timeout + Grace) + frac
      BY <3>1
    <3>3. Units(0) = 0 /\ Units(opts.timeout + Grace) \in Nat
      <4>1. opts.timeout + Grace \in Nat
        OBVIOUS
      <4> QED  BY ONLY <4>1, Milliseconds
    <3>4. elapsed \in Nat /\ frac \in Nat /\ Ms \in Nat
      OBVIOUS
    <3>5. elapsed + Ms > Units(opts.timeout + Grace)
      BY ONLY <3>2, <3>3, <3>4
    <3> QED  BY <3>1, <3>2, <3>5
  <2> QED  BY <2>1, <2>2, <2>3
<1>23. CASE Reap
  BY <1>23 DEF Reap, Collected, runVars, perfVars, workVars, timeVars
<1>24. CASE ClockEnd
  BY <1>24 DEF ClockEnd, Goto, runVars, procVars, perfVars, workVars
<1>25. CASE Disable
  BY <1>25 DEF Disable, runVars, procVars, workVars, timeVars
<1>26. CASE Disabled
  BY <1>26 DEF Disabled, Goto, runVars, procVars, perfVars, workVars,
       timeVars
<1>27. CASE Collect
  BY <1>27 DEF Collect, Read, Halt, runVars, workVars
<1>28. CASE HookExits
  BY <1>28 DEF HookExits, Goto, runVars, procVars, perfVars, workVars,
       timeVars
<1>29. CASE ParentKilled
  BY <1>29 DEF ParentKilled, Halt, runVars, workVars
<1>30. CASE ChildCloseWrite
  BY <1>30 DEF ChildCloseWrite, CountChild, parentVars, workVars
<1>31. CASE ChildRead
  BY <1>31 DEF ChildRead, CountChild, parentVars, workVars
<1>32. CASE ChildExec
  BY <1>32 DEF ChildExec, parentVars, workVars
<1>33. CASE ChildWork
  <2>1. (ConfigInv /\ LifeInv /\ PipeInv /\ WorkInv /\ AttachInv)'
    BY <1>33 DEF ChildWork, CountChild, parentVars, procVars
  <2>2. (OnInv /\ TimeInv)'
    BY <1>33 DEF ChildWork, CountChild, parentVars, procVars
  <2>3. CompleteCount'
    BY <1>33 DEF ChildWork, CountChild, parentVars, procVars
  <2>4. SkewInv'
    BY <1>33 DEF ChildWork, CountChild, parentVars, procVars
  <2> QED  BY <2>1, <2>2, <2>3, <2>4
<1>34. CASE ChildForks
  BY <1>34 DEF ChildForks, parentVars, procVars, perfVars
<1>35. CASE KinWork
  <2>1. (ConfigInv /\ LifeInv /\ PipeInv /\ WorkInv /\ AttachInv)'
    BY <1>35 DEF KinWork, CountKin, CountChild, parentVars, procVars
  <2>2. (OnInv /\ TimeInv)'
    BY <1>35 DEF KinWork, CountKin, CountChild, parentVars, procVars
  <2>3. CASE attr.inherit
    <3>1. cnt' = CountChild /\ kinWork' = kinWork + 1
      BY <1>35, <2>3 DEF KinWork, CountKin
    <3>2. attr'.inherit /\ work' = work /\ open' = open /\ on' = on
          /\ pc' = pc /\ idx' = idx /\ result' = result /\ err' = err
      BY <1>35, <2>3 DEF KinWork, parentVars, procVars
    <3>3. CompleteCount'
      BY <3>1, <3>2, <2>3 DEF CountChild
    <3>4. SkewInv'
      BY <3>1, <3>2 DEF CountChild
    <3> QED  BY <2>1, <2>2, <3>3, <3>4
  <2>4. CASE ~attr.inherit
    <3>1. cnt' = cnt /\ attr' = attr
      BY <1>35, <2>4 DEF KinWork, CountKin, parentVars
    <3>2. work' = work /\ open' = open /\ on' = on
          /\ pc' = pc /\ idx' = idx /\ result' = result /\ err' = err
      BY <1>35 DEF KinWork, parentVars, procVars
    <3>3. (CompleteCount /\ SkewInv)'
      BY <3>1, <3>2, <2>4
    <3> QED  BY <2>1, <2>2, <3>3
  <2> QED  BY <2>3, <2>4
<1>36. CASE KinExits
  BY <1>36 DEF KinExits, parentVars, procVars, perfVars
<1>37. CASE ChildExits
  BY <1>37 DEF ChildExits, parentVars, perfVars, workVars
<1>38. CASE Tick
  <2>1. (ConfigInv /\ LifeInv /\ PipeInv /\ WorkInv /\ AttachInv /\ OnInv)'
    BY <1>38 DEF Tick, runVars, procVars, perfVars, workVars
  <2>2. (CompleteCount /\ SkewInv)'
    BY <1>38 DEF Tick, runVars, procVars, perfVars, workVars
  <2>3. TimeInv'
    <3>1. /\ pc' = pc /\ signal' = signal /\ opts' = opts /\ clock' = clock
          /\ frac' = IF frac + 1 = Ms THEN 0 ELSE frac + 1
          /\ elapsed' = IF clock /\ elapsed < MaxElapsed THEN elapsed + 1
                        ELSE elapsed
      BY <1>38 DEF Tick, runVars
    <3>2. /\ elapsed \in Nat /\ elapsed <= MaxElapsed /\ frac \in 0..(Ms - 1)
          /\ Grace \in Nat /\ Ms \in Nat /\ Ms > 0 /\ MaxElapsed \in Nat /\ timer \in Nat
          /\ opts \in Options /\ opts.timeout \in Nat
      OBVIOUS
    <3>3. elapsed' >= elapsed /\ elapsed' \in Nat
      BY ONLY <3>1, <3>2
    <3>4. KilledTakesTimeout'
      <4>1. opts.timeout + Grace \in Nat
        BY ONLY <3>2
      <4>3. Units(opts.timeout) \in Nat /\ Units(opts.timeout + Grace) \in Nat
        BY ONLY <3>2, <4>1, Milliseconds
      <4>2. KilledTakesTimeout
        OBVIOUS
      <4> QED  BY ONLY <3>1, <3>2, <3>3, <4>2, <4>3 DEF KilledTakesTimeout
    <3>5. ASSUME NEW goal \in Nat, goal <= MaxElapsed,
                 pc \in {"poll", "check", "grace", "gracePoll"},
                 elapsed + Units(timer) + Ms > goal + frac
          PROVE  elapsed' + Units(timer') + Ms > goal + frac'
      <4>1. clock /\ timer' = IF timer > 0 /\ frac' = 0 THEN timer - 1
                              ELSE timer
        BY <1>38, <3>5 DEF Tick
      <4>2. Units(timer) \in Nat /\ frac < Ms
        BY ONLY <3>2, Milliseconds
      <4>3. CASE elapsed = MaxElapsed
        <5>1. timer' \in Nat
          BY ONLY <3>2, <4>1
        <5>2. Units(timer') \in Nat
          BY ONLY <5>1, Milliseconds
        <5>3. frac' < Ms /\ frac' \in Nat
          BY ONLY <3>1, <3>2, <4>2
        <5> QED  BY ONLY <3>1, <3>2, <3>5, <4>3, <5>2, <5>3
      <4>4. CASE elapsed < MaxElapsed
        <5>1. elapsed' = elapsed + 1
          BY ONLY <3>1, <4>1, <4>4
        <5>2. CASE frac + 1 # Ms
          <6>1. frac' = frac + 1 /\ timer' = timer
            BY ONLY <3>1, <3>2, <4>1, <5>2
          <6> QED  BY ONLY <3>2, <3>5, <4>2, <5>1, <6>1
        <5>3. CASE frac + 1 = Ms /\ timer > 0
          <6>1. frac' = 0 /\ timer' = timer - 1
            BY ONLY <3>1, <4>1, <5>3
          <6>2. Units(timer) = Units(timer - 1) + Ms /\ Units(timer - 1) \in Nat
            <7>1. timer - 1 \in Nat
              BY ONLY <3>2, <5>3
            <7> QED  BY ONLY <3>2, <5>3, <7>1, Milliseconds
          <6> QED  BY ONLY <3>2, <3>5, <5>1, <5>3, <6>1, <6>2
        <5>4. CASE frac + 1 = Ms /\ ~(timer > 0)
          <6>1. frac' = 0 /\ timer' = timer
            BY ONLY <3>1, <4>1, <5>4
          <6> QED  BY ONLY <3>2, <3>5, <4>2, <5>1, <5>4, <6>1
        <5> QED  BY <5>2, <5>3, <5>4
      <4> QED  BY ONLY <3>2, <4>3, <4>4
    <3>6. /\ Units(opts.timeout) \in Nat /\ Units(Grace) \in Nat
          /\ Units(opts.timeout + Grace) = Units(opts.timeout) + Units(Grace)
      BY ONLY <3>2, Milliseconds
    <3>7. Units(opts.timeout + Grace) <= MaxElapsed
      BY <3>2
    <3>8. /\ Units(opts.timeout) <= MaxElapsed
          /\ Units(opts.timeout + Grace) \in Nat
      BY ONLY <3>2, <3>6, <3>7
    <3>9. pc \in {"poll", "check"} =>
             elapsed' + Units(timer') + Ms > Units(opts.timeout) + frac'
      BY <3>5, <3>6, <3>8
    <3>10. pc \in {"grace", "gracePoll"} =>
              elapsed' + Units(timer') + Ms > Units(opts.timeout + Grace) + frac'
      BY <3>5, <3>7, <3>8
    <3> QED  BY <3>1, <3>4, <3>9, <3>10
  <2> QED  BY <2>1, <2>2, <2>3
<1>39. CASE Finished
  BY <1>39 DEF Finished, vars
<1>40. CASE UNCHANGED vars
  BY <1>40 DEF vars
<1> QED
  BY <1>1, <1>2, <1>3, <1>4, <1>5, <1>6, <1>7, <1>8, <1>9, <1>10, <1>11,
       <1>12, <1>13, <1>14, <1>15, <1>16, <1>17, <1>18, <1>19, <1>20, <1>21,
       <1>22, <1>23, <1>24, <1>25, <1>26, <1>27, <1>28, <1>29, <1>30, <1>31,
       <1>32, <1>33, <1>34, <1>35, <1>36, <1>37, <1>38, <1>39, <1>40
  DEF Next, ParentStep, ChildStep

\* The invariant holds initially.
LEMMA SafeInit == Init => IInv
<1> SUFFICES ASSUME Init PROVE IInv
  OBVIOUS
<1>1. TypeOK
  BY TypeInit
<1>2. Safe
  BY CountersAssumption, OptionsAssumption, GraceAssumption
  DEF Init, Safe, ConfigInv, LifeInv, PipeInv, WorkInv, AttachInv, OnInv,
      CompleteCount, TimeInv, KilledTakesTimeout, SkewInv, SkewOrdered,
      Counters, Before, Waiting, After, Final, Alive
<1> QED  BY <1>1, <1>2 DEF IInv

\* The inductive invariant holds throughout.
THEOREM Invariance == Spec => []IInv
<1>1. Init => IInv
  BY SafeInit
<1>2. IInv /\ [Next]_vars => IInv'
  BY TypeStep, SafeStep DEF IInv
<1> QED  BY <1>1, <1>2, PTL DEF Spec

\* No program starts while process_attach is still attaching counters.
THEOREM NoEarlyExecHolds == Spec => []NoEarlyExec
<1>1. IInv => NoEarlyExec
  BY DEF IInv, Safe, LifeInv, NoEarlyExec, Before
<1> QED  BY <1>1, Invariance, PTL

\* Open counters have counted all of the program's work, and nothing but it
\* and, with inherit, its descendants'.
THEOREM CompleteCountHolds == Spec => []CompleteCount
<1>1. IInv => CompleteCount
  BY DEF IInv, Safe
<1> QED  BY <1>1, Invariance, PTL

\* A counter later in the group reads no less than an earlier one.
THEOREM SkewOrderedHolds == Spec => []SkewOrdered
<1>1. IInv => SkewOrdered
  BY DEF IInv, Safe, SkewInv
<1> QED  BY <1>1, Invariance, PTL

\* bbench dies of SIGPIPE only when its child died before its release.
THEOREM SigpipeHolds == Spec => []SigpipeOnlyIfChildDied
<1>1. IInv => SigpipeOnlyIfChildDied
  BY DEF IInv, Safe, LifeInv, SigpipeOnlyIfChildDied
<1> QED  BY <1>1, Invariance, PTL

\* SIGTERM and SIGKILL are sent only after the time they wait for.
THEOREM KilledTakesTimeoutHolds == Spec => []KilledTakesTimeout
<1>1. IInv => KilledTakesTimeout
  BY DEF IInv, Safe, TimeInv
<1> QED  BY <1>1, Invariance, PTL

\* Counters are disabled and read only after the child was reaped.
THEOREM ReapedBeforeReadHolds == Spec => []ReapedBeforeRead
<1>1. IInv => ReapedBeforeRead
  BY DEF IInv, Safe, LifeInv, ReapedBeforeRead
<1> QED  BY <1>1, Invariance, PTL

\* Signals go to the run's own, unreaped child only.
THEOREM SignalsOwnChildHolds == Spec => SignalsOwnChild
<1> DEFINE Own == signal' # signal => child \in Alive \cup {"zombie"}
<1>1. IInv /\ [Next]_vars => [Own]_vars
  <2> SUFFICES ASSUME IInv, Next, signal' # signal
               PROVE  child \in Alive \cup {"zombie"}
    OBVIOUS
  <2>1. Terminate \/ Kill
    BY DEF Next, ParentStep, ChildStep, Attach, Attached, Check,
         ChildCloseWrite, ChildExec, ChildExits, ChildForks, ChildRead,
         ChildWork, ClockBegin, ClockEnd, CloseRead, CloseWrite, Collect,
         Collected, Configure, CountChild, CountKin, Delayed, Disable,
         Disabled, Finished, Fork, Go, GoBrokenPipe, Goto, GraceLoop,
         GracePoll, Halt, Hook, HookExits, HookFails, KinExits, KinWork,
         NotYet, ParentKilled, Pipe, PipeOrForkFails, Poll, PostHook,
         PreHook, Read, Reap, Tick, Wait, parentVars, perfVars, procVars,
         runVars, timeVars, vars, workVars
  <2> QED
    BY <2>1 DEF Terminate, Kill, Goto, IInv, Safe, LifeInv, Waiting
<1>2. Spec => [][Own]_vars
  BY <1>1, Invariance, PTL DEF Spec
<1> QED  BY <1>2 DEF SignalsOwnChild

-----------------------------------------------------------------------------

\* A run starts as an unstarted measurement.
LEMMA MeasuredInit == Init => Measured!Init
<1> SUFFICES ASSUME Init PROVE Measured!Init
  OBVIOUS
<1>1. opts.inherit \in BOOLEAN
  BY OptionsAssumption DEF Init, OptionsType
<1>2. Phase = "waiting"
  BY DEF Init, Phase, Final, Before
<1>3. {c \in Counters : ~err[c]} = Counters
  BY DEF Init
<1> QED
  BY <1>1, <1>2, <1>3 DEF Init, Measured!Init, Measured!NoReport

\* Every step of a run is a step of the measurement, or leaves it alone.
LEMMA MeasuredStep ==
    IInv /\ IInv' /\ [Next]_vars => [Measured!Next]_(Measured!vars)
<1> USE CountersAssumption
<1> USE DEF Measured!Next, Measured!vars, Measured!LoseCounter,
        Measured!Start, Measured!Work, Measured!End, Measured!Report,
        Measured!Honest, Measured!Abort, Phase, Final, Before, Alive,
        Waiting, After
<1> SUFFICES ASSUME IInv, IInv', [Next]_vars
             PROVE  [Measured!Next]_(Measured!vars)
  OBVIOUS
<1>t. TypeOK /\ LifeInv /\ ConfigInv /\ AttachInv /\ CompleteCount /\ WorkInv
  BY DEF IInv, Safe
<1>1. CASE Configure
  BY <1>1, <1>t DEF Configure, Goto, procVars, perfVars, workVars, timeVars,
       LifeInv
<1>2. CASE PreHook
  BY <1>2, <1>t DEF PreHook, Hook, runVars, procVars, perfVars, workVars,
       timeVars, LifeInv
<1>3. CASE HookFails
  BY <1>3, <1>t DEF HookFails, Halt, runVars, workVars, LifeInv
<1>4. CASE PostHook
  BY <1>4, <1>t DEF PostHook, Hook, runVars, procVars, perfVars, workVars,
       timeVars, LifeInv
<1>5. CASE Pipe
  BY <1>5, <1>t DEF Pipe, Goto, runVars, perfVars, workVars, timeVars,
       LifeInv
<1>6. CASE Fork
  BY <1>6, <1>t DEF Fork, Goto, runVars, perfVars, workVars, timeVars,
       LifeInv
<1>7. CASE PipeOrForkFails
  BY <1>7, <1>t DEF PipeOrForkFails, Halt, runVars, workVars, LifeInv
<1>8. CASE CloseRead
  BY <1>8, <1>t DEF CloseRead, Goto, runVars, perfVars, workVars, timeVars,
       LifeInv
<1>9. CASE Attach
  <2>1. /\ pc = "attach" /\ pc' = pc /\ idx \in Counters
        /\ opts' = opts /\ work' = work /\ result' = result
    BY <1>9, <1>t DEF Attach, runVars, workVars, TypeOK, Counters
  <2>2. Phase = "waiting" /\ Phase' = "waiting"
    BY <2>1
  <2>3. PICK ok \in BOOLEAN : err' = [err EXCEPT ![idx] = ~ok]
    BY <1>9 DEF Attach
  <2>4. err \in [Counters -> BOOLEAN] /\ ~err[idx]
    BY <1>9, <2>1, <1>t DEF TypeOK, AttachInv
  <2>5. CASE ok
    <3>1. {c \in Counters : ~err'[c]} = {c \in Counters : ~err[c]}
      BY <2>3, <2>4, <2>5
    <3> QED  BY <2>1, <2>2, <3>1
  <2>6. CASE ~ok
    <3>1. {c \in Counters : ~err'[c]} = {c \in Counters : ~err[c]} \ {idx}
      BY <2>3, <2>4, <2>6
    <3> QED  BY <2>1, <2>2, <3>1
  <2> QED  BY <2>5, <2>6
<1>10. CASE Attached
  BY <1>10, <1>t DEF Attached, Goto, runVars, procVars, perfVars, workVars,
       timeVars, LifeInv
<1>11. CASE Go
  BY <1>11, <1>t DEF Go, Goto, runVars, perfVars, workVars, timeVars,
       LifeInv
<1>12. CASE GoBrokenPipe
  BY <1>12, <1>t DEF GoBrokenPipe, Halt, runVars, workVars, LifeInv
<1>13. CASE CloseWrite
  BY <1>13, <1>t DEF CloseWrite, Goto, runVars, perfVars, workVars, LifeInv
<1>14. CASE Delayed
  BY <1>14, <1>t DEF Delayed, Goto, runVars, procVars, perfVars, workVars,
       timeVars, LifeInv
<1>15. CASE ClockBegin
  BY <1>15, <1>t DEF ClockBegin, Goto, runVars, procVars, perfVars,
       workVars, LifeInv
<1>16. CASE Wait
  BY <1>16, <1>t DEF Wait, runVars, procVars, perfVars, workVars, LifeInv
<1>17. CASE Poll
  BY <1>17, <1>t DEF Poll, Collected, NotYet, runVars, perfVars, workVars,
       timeVars, procVars, LifeInv
<1>18. CASE Check
  BY <1>18, <1>t DEF Check, Goto, runVars, procVars, perfVars, workVars,
       timeVars, LifeInv
<1>19. CASE Terminate
  BY <1>19, <1>t DEF Terminate, Goto, runVars, procVars, perfVars, workVars,
       LifeInv
<1>20. CASE GraceLoop
  BY <1>20, <1>t DEF GraceLoop, Goto, runVars, procVars, perfVars, workVars,
       timeVars, LifeInv
<1>21. CASE GracePoll
  BY <1>21, <1>t DEF GracePoll, Collected, NotYet, runVars, perfVars,
       workVars, timeVars, procVars, LifeInv
<1>22. CASE Kill
  BY <1>22, <1>t DEF Kill, Goto, runVars, procVars, perfVars, workVars,
       timeVars, LifeInv
<1>23. CASE Reap
  BY <1>23, <1>t DEF Reap, Collected, runVars, perfVars, workVars, timeVars,
       LifeInv
<1>24. CASE ClockEnd
  BY <1>24, <1>t DEF ClockEnd, Goto, runVars, procVars, perfVars, workVars,
       LifeInv
<1>25. CASE Disable
  BY <1>25, <1>t DEF Disable, runVars, procVars, workVars, timeVars, LifeInv
<1>26. CASE Disabled
  BY <1>26, <1>t DEF Disabled, Goto, runVars, procVars, perfVars, workVars,
       timeVars, LifeInv
<1>27. CASE Collect
  <2>1. /\ pc = "collect" /\ pc' = "returned" /\ opts' = opts
        /\ work' = work /\ err' = err
        /\ result' = [c \in Counters |-> Read(c)]
    BY <1>27 DEF Collect, Halt, runVars, workVars
  <2>2. child = "reaped" /\ attr.inherit = opts.inherit
    BY <2>1, <1>t DEF LifeInv, ConfigInv
  <2>3. Phase = "ended" /\ Phase' = "reported"
    BY <2>1, <2>2
  <2>4. ASSUME NEW c \in Counters
        PROVE  IF err[c] THEN Read(c) = 0
               ELSE Read(c) = work \/ (opts.inherit /\ Read(c) > work)
    <3>1. open[c] = ~err[c]
      BY <2>1, <1>t DEF AttachInv
    <3>2. cnt[c] \in Nat /\ work \in Nat
      BY <1>t, WorkAssumption DEF TypeOK
    <3>3. CASE err[c]
      BY <3>1, <3>3 DEF Read
    <3>4. CASE ~err[c]
      <4>1. open[c] /\ Read(c) = cnt[c]
        BY <3>1, <3>4 DEF Read
      <4>2. cnt[c] >= work
        BY <4>1, <1>t DEF CompleteCount
      <4>3. ~opts.inherit => cnt[c] <= work + 0
        BY <4>1, <2>2, <1>t DEF CompleteCount
      <4> HIDE DEF Phase, Read
      <4>4. cnt[c] = work \/ (opts.inherit /\ cnt[c] > work)
        BY <3>2, <4>2, <4>3
      <4> QED  BY <4>1, <4>4, <3>4
    <3> QED  BY <3>3, <3>4
  <2>5. Measured!Report
    BY <2>1, <2>3, <2>4
  <2> QED  BY <2>5
<1>28. CASE HookExits
  BY <1>28, <1>t DEF HookExits, Goto, runVars, procVars, perfVars, workVars,
       timeVars, LifeInv
<1>29. CASE ParentKilled
  BY <1>29, <1>t DEF ParentKilled, Halt, runVars, workVars, LifeInv
<1>30. CASE ChildCloseWrite
  BY <1>30, <1>t DEF ChildCloseWrite, CountChild, parentVars, workVars,
       LifeInv
<1>31. CASE ChildRead
  BY <1>31, <1>t DEF ChildRead, CountChild, parentVars, workVars, LifeInv
<1>32. CASE ChildExec
  BY <1>32, <1>t DEF ChildExec, parentVars, workVars, LifeInv
<1>33. CASE ChildWork
  BY <1>33, <1>t DEF ChildWork, CountChild, parentVars, procVars, LifeInv
<1>34. CASE ChildForks
  BY <1>34, <1>t DEF ChildForks, parentVars, procVars, perfVars, LifeInv
<1>35. CASE KinWork
  BY <1>35, <1>t DEF KinWork, CountKin, parentVars, procVars, CountChild,
       LifeInv
<1>36. CASE KinExits
  BY <1>36, <1>t DEF KinExits, parentVars, procVars, perfVars, LifeInv
<1>37. CASE ChildExits
  BY <1>37, <1>t DEF ChildExits, parentVars, perfVars, workVars, LifeInv
<1>38. CASE Tick
  BY <1>38, <1>t DEF Tick, runVars, procVars, perfVars, workVars, LifeInv
<1>39. CASE Finished
  BY <1>39, <1>t DEF Finished, vars, LifeInv
<1>40. CASE UNCHANGED vars
  BY <1>40 DEF vars
<1> QED
  BY <1>1, <1>2, <1>3, <1>4, <1>5, <1>6, <1>7, <1>8, <1>9, <1>10, <1>11,
       <1>12, <1>13, <1>14, <1>15, <1>16, <1>17, <1>18, <1>19, <1>20, <1>21,
       <1>22, <1>23, <1>24, <1>25, <1>26, <1>27, <1>28, <1>29, <1>30, <1>31,
       <1>32, <1>33, <1>34, <1>35, <1>36, <1>37, <1>38, <1>39, <1>40
  DEF Next, ParentStep, ChildStep

\* A run of BenchBin implements Measurement: one start, one honest report,
\* issued after the end.
THEOREM Implements == Spec => IsMeasurement
<1>1. Spec => Measured!Spec
  BY MeasuredInit, MeasuredStep, Invariance, PTL DEF Spec, Measured!Spec
<1> QED  BY <1>1 DEF IsMeasurement
=============================================================================
