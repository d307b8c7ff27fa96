-------------------------- MODULE DirectBenchProof --------------------------
(***************************************************************************)
(* Proofs about DirectBench, for any number of counters and amount of      *)
(* work.  IInv says, for every point of a group loop, which members have   *)
(* been visited and what an enabled member has counted so far.             *)
(***************************************************************************)
EXTENDS DirectBench, TLAPS

\* The number of members of the group.
M == IF single THEN 1 ELSE NCounters

\* Member c has been enabled.
Started(c) ==
    \/ pc \in {"func", "wait", "clockEnd", "end", "collect", "returned"}
    \/ pc = "begin" /\ c < idx

\* Which points belong to which kind of run, and the child's life there.
LifeInv ==
    /\ kind = "call" => /\ pc \notin {"spawn", "reopen", "wait"}
                        /\ child = "none"
    /\ kind = "bin" =>
          /\ pc # "func"
          /\ pc \in {"open", "spawn"} => child = "none"
          /\ pc \in {"reopen", "clockBegin", "begin", "wait"} =>
                child \in {"running", "zombie"}
          /\ pc \in {"clockEnd", "end", "collect", "returned"} =>
                child = "reaped"

IdxInv ==
    /\ idx <= M + 1
    /\ pc \notin {"open", "reopen", "begin", "end"} => idx = 1

\* The time_clock between its begin and its end, and after it.
ClockInv ==
    /\ began.time <= now
    /\ (~single /\ pc \in {"begin", "func", "wait", "clockEnd"}) =>
          timeBegin = began.time + began.offset
    /\ (~single /\ pc \in {"end", "collect", "returned"}) =>
          time = span.took + span.setBy

\* The time the time_clock has covered so far.
Covered == IF pc \in {"end", "collect", "returned"} THEN span.took
           ELSE now - began.time

\* Whom a counter counts.
TargetInv ==
    \A c \in Counters :
        /\ c > M => target[c] = "none"
        /\ kind = "call" => target[c] # "child"
        /\ (kind = "bin" /\ (Started(c) \/ pc \in {"begin", "clockBegin"}
                             \/ (pc = "reopen" /\ c < idx))) =>
              target[c] # "self"

\* A counter is on from its start to its stop.
OnInv ==
    \A c \in Counters :
        on[c] <=> /\ target[c] # "none"
                  /\ Started(c)
                  /\ pc \notin {"collect", "returned"}
                  /\ pc = "end" => c >= idx

\* What a counter on the program has counted.
BinInv ==
    kind = "bin" =>
        /\ \A c \in Counters :
              (Started(c) /\ c <= M) =>
                  /\ missed[c] <= work
                  /\ target[c] = "child" => cnt[c] = work - missed[c]
        /\ \A c, d \in Counters :
              (c < d /\ d <= M /\ Started(d)) => missed[c] <= missed[d]

\* What a counter on the program has counted, the time_clock has covered.
CoverInv ==
    (kind = "bin" /\ ~single) =>
        \A c \in Counters :
            (Started(c) /\ target[c] = "child") => cnt[c] <= Covered

\* The number of calls a member on this process counts whole, once the
\* time_clock has ended: the others' and the time_clock's own.
B == IF single THEN 0 ELSE NCounters

\* A count of n, of which at most `own` for the member's own calls.
Within(count, n, own) == n <= count /\ count <= n + own

\* What a counter on this process has counted.
CallInv ==
    kind = "call" =>
        /\ pc \in {"open", "clockBegin", "begin"} => work = 0
        /\ \A c \in Counters :
              (target[c] = "self" /\ Started(c)) =>
                  /\ pc = "begin" => Within(cnt[c], idx - 1 - c, 1)
                  /\ pc \in {"func", "clockEnd"} =>
                        Within(cnt[c], work + M - c, 1)
                  /\ (pc = "end" /\ c >= idx) =>
                        Within(cnt[c], work + B - c + idx, 1)
                  /\ (pc = "end" /\ c < idx) => Within(cnt[c], work + B, 2)
                  /\ pc \in {"collect", "returned"} =>
                        Within(cnt[c], work + B, 2)

ResultInv ==
    pc = "returned" =>
        \A c \in Counters :
            result[c] = IF target[c] = "none" THEN 0 ELSE cnt[c]

IInv ==
    /\ TypeOK /\ LifeInv /\ IdxInv /\ ClockInv /\ TargetInv /\ OnInv
    /\ BinInv /\ CoverInv /\ CallInv /\ ResultInv

-----------------------------------------------------------------------------

\* The invariant holds before the first step.
LEMMA InitInv == Init => IInv
<1> SUFFICES ASSUME Init PROVE IInv
  OBVIOUS
<1> USE CountersAssumption, WorkAssumption, SettingsAssumption
    DEF Init, Counters, M
<1>1. TypeOK
  <2>1. /\ kind \in {"call", "bin"}
        /\ pc \in {"open", "spawn"}
        /\ idx \in 1..(NCounters + 1)
    OBVIOUS
  <2>2. /\ target \in [Counters -> {"none", "self", "child"}]
        /\ on \in [Counters -> BOOLEAN]
        /\ cnt \in [Counters -> Nat]
        /\ missed \in [Counters -> 0..MaxWork]
        /\ result \in [Counters -> Nat]
    OBVIOUS
  <2>3. /\ child \in {"none", "running", "zombie", "reaped"}
        /\ work \in 0..MaxWork
    OBVIOUS
  <2>4. /\ now \in Nat /\ offset \in Int /\ set \in 0..MaxSettings
        /\ timeBegin \in Int /\ time \in Int
    OBVIOUS
  <2>5. /\ began \in [time : Nat, offset : Int]
        /\ span \in [took : Nat, setBy : Int]
    OBVIOUS
  <2>6. single \in BOOLEAN
    BY Zenon
  <2> HIDE DEF Init
  <2> QED
    BY <2>1, <2>2, <2>3, <2>4, <2>5, <2>6 DEF TypeOK
<1>2. LifeInv /\ IdxInv /\ ClockInv /\ ResultInv
  BY DEF LifeInv, IdxInv, ClockInv, ResultInv
<1>3. TargetInv /\ OnInv
  BY DEF TargetInv, OnInv, Started
<1>4. BinInv /\ CoverInv
  BY DEF BinInv, CoverInv, Started
<1>5. CallInv
  BY DEF CallInv, Started
<1> QED
  BY <1>1, <1>2, <1>3, <1>4, <1>5 DEF IInv

\* The program points, and the lives of the spawned process.
Points == {"open", "spawn", "reopen", "clockBegin", "begin", "func", "wait",
           "clockEnd", "end", "collect"} \cup Final
Lives == {"none", "running", "zombie", "reaped"}

\* The types without those of the clocks, and those of the clocks.
WorkType ==
    /\ kind \in {"call", "bin"}
    /\ single \in BOOLEAN
    /\ pc \in Points
    /\ idx \in 1..(NCounters + 1)
    /\ target \in [Counters -> {"none", "self", "child"}]
    /\ on \in [Counters -> BOOLEAN]
    /\ cnt \in [Counters -> Nat]
    /\ child \in Lives
    /\ work \in 0..MaxWork
    /\ missed \in [Counters -> 0..MaxWork]
    /\ result \in [Counters -> Nat]

TimeType ==
    /\ now \in Nat /\ offset \in Int /\ set \in 0..MaxSettings
    /\ timeBegin \in Int /\ time \in Int
    /\ began \in [time : Nat, offset : Int]
    /\ span \in [took : Nat, setBy : Int]

\* Together they are all.
LEMMA TypeParts == TypeOK <=> WorkType /\ TimeType
BY DEF TypeOK, WorkType, TimeType, Points, Lives

\* A unit spent leaves natural counts.
LEMMA CountedType ==
    ASSUME WorkType, NEW who
    PROVE  /\ Counted(who) \in [Counters -> Nat]
           /\ \A c \in Counters :
                 Counted(who)[c] = IF on[c] /\ target[c] = who THEN cnt[c] + 1
                                   ELSE cnt[c]
BY DEF WorkType, Counted

\* The types of the measurement.
LEMMA WorkTypeStep == WorkType /\ [Next]_vars => WorkType'
<1> SUFFICES ASSUME WorkType, [Next]_vars PROVE WorkType'
  OBVIOUS
<1>a. \A who : Counted(who) \in [Counters -> Nat]
  BY CountedType
<1> USE CountersAssumption, WorkAssumption, SettingsAssumption
    DEF WorkType, Points, Lives, Goto, Visit, Visited, Members, M, Counters,
        Final, OpenOn, perfVars, workVars
<1>1. CASE Open
  <2>1. cnt' \in [Counters -> Nat]
    BY <1>1 DEF Open
  <2>2. /\ on' \in [Counters -> BOOLEAN] /\ missed' \in [Counters -> 0..MaxWork]
        /\ target' \in [Counters -> {"none", "self", "child"}]
    BY <1>1 DEF Open
  <2>3. /\ kind' = kind /\ single' = single /\ child' \in Lives
        /\ result' = result /\ work' \in 0..MaxWork
    BY <1>1 DEF Open
  <2>4. idx' \in 1..(NCounters + 1) /\ pc' \in Points
    BY <1>1 DEF Open
  <2> QED
    BY <2>1, <2>2, <2>3, <2>4
<1>2. CASE Opened
  <2>1. cnt' \in [Counters -> Nat]
    BY <1>2, <1>a DEF Opened
  <2>2. /\ on' \in [Counters -> BOOLEAN] /\ missed' \in [Counters -> 0..MaxWork]
        /\ target' \in [Counters -> {"none", "self", "child"}]
    BY <1>2 DEF Opened
  <2>3. /\ kind' = kind /\ single' = single /\ child' \in Lives
        /\ result' = result /\ work' \in 0..MaxWork
    BY <1>2 DEF Opened
  <2>4. idx' \in 1..(NCounters + 1) /\ pc' \in Points
    BY <1>2 DEF Opened
  <2> QED
    BY <2>1, <2>2, <2>3, <2>4
<1>3. CASE Spawn
  BY <1>3 DEF Spawn
<1>4. CASE Throws
  BY <1>4 DEF Throws
<1>5. CASE Reopen
  <2>1. cnt' \in [Counters -> Nat]
    BY <1>5 DEF Reopen
  <2>2. /\ on' \in [Counters -> BOOLEAN] /\ missed' \in [Counters -> 0..MaxWork]
        /\ target' \in [Counters -> {"none", "self", "child"}]
    BY <1>5 DEF Reopen
  <2>3. /\ kind' = kind /\ single' = single /\ child' \in Lives
        /\ result' = result /\ work' \in 0..MaxWork
    BY <1>5 DEF Reopen
  <2>4. idx' \in 1..(NCounters + 1) /\ pc' \in Points
    BY <1>5 DEF Reopen
  <2> QED
    BY <2>1, <2>2, <2>3, <2>4
<1>6. CASE Reopened
  <2>1. cnt' \in [Counters -> Nat]
    BY <1>6, <1>a DEF Reopened
  <2>2. /\ on' \in [Counters -> BOOLEAN] /\ missed' \in [Counters -> 0..MaxWork]
        /\ target' \in [Counters -> {"none", "self", "child"}]
    BY <1>6 DEF Reopened
  <2>3. /\ kind' = kind /\ single' = single /\ child' \in Lives
        /\ result' = result /\ work' \in 0..MaxWork
    BY <1>6 DEF Reopened
  <2>4. idx' \in 1..(NCounters + 1) /\ pc' \in Points
    BY <1>6 DEF Reopened
  <2> QED
    BY <2>1, <2>2, <2>3, <2>4
<1>7. CASE ClockBegin
  <2>1. cnt' \in [Counters -> Nat]
    BY <1>7, <1>a DEF ClockBegin
  <2>2. /\ on' \in [Counters -> BOOLEAN] /\ missed' \in [Counters -> 0..MaxWork]
        /\ target' \in [Counters -> {"none", "self", "child"}]
    BY <1>7 DEF ClockBegin
  <2>3. /\ kind' = kind /\ single' = single /\ child' \in Lives
        /\ result' = result /\ work' \in 0..MaxWork
    BY <1>7 DEF ClockBegin
  <2>4. idx' \in 1..(NCounters + 1) /\ pc' \in Points
    BY <1>7 DEF ClockBegin
  <2> QED
    BY <2>1, <2>2, <2>3, <2>4
<1>8. CASE Begin
  <2>1. cnt' \in [Counters -> Nat]
    <3>1. PICK own \in 0..1 : cnt' = [Counted("self") EXCEPT ![idx] = own]
      BY <1>8 DEF Begin, Start
    <3>2. own \in Nat
      BY <1>8 DEF Begin, Start
    <3> QED
      BY ONLY <1>a, <3>1, <3>2
  <2>2. /\ on' \in [Counters -> BOOLEAN] /\ missed' \in [Counters -> 0..MaxWork]
        /\ target' \in [Counters -> {"none", "self", "child"}]
    BY <1>8 DEF Begin, Start
  <2>3. /\ kind' = kind /\ single' = single /\ child' \in Lives
        /\ result' = result /\ work' \in 0..MaxWork
    BY <1>8 DEF Begin, Start
  <2>4. idx' \in 1..(NCounters + 1) /\ pc' \in Points
    BY <1>8 DEF Begin, Start
  <2> QED
    BY <2>1, <2>2, <2>3, <2>4
<1>9. CASE Begun
  <2>1. cnt' \in [Counters -> Nat]
    BY <1>9, <1>a DEF Begun
  <2>2. /\ on' \in [Counters -> BOOLEAN] /\ missed' \in [Counters -> 0..MaxWork]
        /\ target' \in [Counters -> {"none", "self", "child"}]
    BY <1>9 DEF Begun
  <2>3. /\ kind' = kind /\ single' = single /\ child' \in Lives
        /\ result' = result /\ work' \in 0..MaxWork
    BY <1>9 DEF Begun
  <2>4. idx' \in 1..(NCounters + 1) /\ pc' \in Points
    BY <1>9 DEF Begun
  <2> QED
    BY <2>1, <2>2, <2>3, <2>4
<1>10. CASE Func
  <2>1. cnt' \in [Counters -> Nat]
    BY <1>10, <1>a DEF Func
  <2>2. /\ on' \in [Counters -> BOOLEAN] /\ missed' \in [Counters -> 0..MaxWork]
        /\ target' \in [Counters -> {"none", "self", "child"}]
    BY <1>10 DEF Func
  <2>3. /\ kind' = kind /\ single' = single /\ child' \in Lives
        /\ result' = result /\ work' \in 0..MaxWork
    BY <1>10 DEF Func
  <2>4. idx' \in 1..(NCounters + 1) /\ pc' \in Points
    BY <1>10 DEF Func
  <2> QED
    BY <2>1, <2>2, <2>3, <2>4
<1>11. CASE FuncReturns
  BY <1>11 DEF FuncReturns
<1>12. CASE Wait
  <2>1. cnt' \in [Counters -> Nat]
    BY <1>12, <1>a DEF Wait
  <2>2. /\ on' \in [Counters -> BOOLEAN] /\ missed' \in [Counters -> 0..MaxWork]
        /\ target' \in [Counters -> {"none", "self", "child"}]
    BY <1>12 DEF Wait
  <2>3. /\ kind' = kind /\ single' = single /\ child' \in Lives
        /\ result' = result /\ work' \in 0..MaxWork
    BY <1>12 DEF Wait
  <2>4. idx' \in 1..(NCounters + 1) /\ pc' \in Points
    BY <1>12 DEF Wait
  <2> QED
    BY <2>1, <2>2, <2>3, <2>4
<1>13. CASE ClockEnd
  <2>1. cnt' \in [Counters -> Nat]
    BY <1>13, <1>a DEF ClockEnd
  <2>2. /\ on' \in [Counters -> BOOLEAN] /\ missed' \in [Counters -> 0..MaxWork]
        /\ target' \in [Counters -> {"none", "self", "child"}]
    BY <1>13 DEF ClockEnd
  <2>3. /\ kind' = kind /\ single' = single /\ child' \in Lives
        /\ result' = result /\ work' \in 0..MaxWork
    BY <1>13 DEF ClockEnd
  <2>4. idx' \in 1..(NCounters + 1) /\ pc' \in Points
    BY <1>13 DEF ClockEnd
  <2> QED
    BY <2>1, <2>2, <2>3, <2>4
<1>14. CASE End
  <2>1. cnt' \in [Counters -> Nat]
    <3>1. PICK own \in 0..1 :
             cnt' = [Counted("self") EXCEPT ![idx] = cnt[idx] + own]
      BY <1>14 DEF End, Stop
    <3>2. cnt[idx] + own \in Nat
      BY <1>14 DEF End, Stop
    <3> QED
      BY ONLY <1>a, <3>1, <3>2
  <2>2. /\ on' \in [Counters -> BOOLEAN] /\ missed' \in [Counters -> 0..MaxWork]
        /\ target' \in [Counters -> {"none", "self", "child"}]
    BY <1>14 DEF End, Stop
  <2>3. /\ kind' = kind /\ single' = single /\ child' \in Lives
        /\ result' = result /\ work' \in 0..MaxWork
    BY <1>14 DEF End, Stop
  <2>4. idx' \in 1..(NCounters + 1) /\ pc' \in Points
    BY <1>14 DEF End, Stop
  <2> QED
    BY <2>1, <2>2, <2>3, <2>4
<1>15. CASE Ended
  <2>1. cnt' \in [Counters -> Nat]
    BY <1>15, <1>a DEF Ended
  <2>2. /\ on' \in [Counters -> BOOLEAN] /\ missed' \in [Counters -> 0..MaxWork]
        /\ target' \in [Counters -> {"none", "self", "child"}]
    BY <1>15 DEF Ended
  <2>3. /\ kind' = kind /\ single' = single /\ child' \in Lives
        /\ result' = result /\ work' \in 0..MaxWork
    BY <1>15 DEF Ended
  <2>4. idx' \in 1..(NCounters + 1) /\ pc' \in Points
    BY <1>15 DEF Ended
  <2> QED
    BY <2>1, <2>2, <2>3, <2>4
<1>16. CASE Collect
  <2>1. result' \in [Counters -> Nat]
    BY <1>16 DEF Collect
  <2>2. pc' = "returned"
    BY <1>16 DEF Collect
  <2>3. UNCHANGED <<kind, single, idx, target, on, cnt, child, work, missed>>
    BY <1>16 DEF Collect
  <2>4. WorkType
    OBVIOUS
  <2> QED
    BY ONLY <2>1, <2>2, <2>3, <2>4 DEF WorkType, Points, Final
<1>17. CASE ChildWork
  <2>1. cnt' \in [Counters -> Nat]
    BY <1>17, <1>a DEF ChildWork
  <2>2. /\ on' \in [Counters -> BOOLEAN] /\ missed' \in [Counters -> 0..MaxWork]
        /\ target' \in [Counters -> {"none", "self", "child"}]
    BY <1>17 DEF ChildWork
  <2>3. /\ kind' = kind /\ single' = single /\ child' \in Lives
        /\ result' = result /\ work' \in 0..MaxWork
    BY <1>17 DEF ChildWork
  <2>4. idx' \in 1..(NCounters + 1) /\ pc' \in Points
    BY <1>17 DEF ChildWork
  <2> QED
    BY <2>1, <2>2, <2>3, <2>4
<1>18. CASE ChildExits
  BY <1>18 DEF ChildExits
<1>19. CASE SetRealtime
  BY <1>19 DEF SetRealtime
<1>20. CASE Finished \/ UNCHANGED vars
  <2>1. UNCHANGED vars
    BY <1>20 DEF Finished
  <2> QED
    BY <2>1 DEF vars
<1> QED
  BY <1>1, <1>2, <1>3, <1>4, <1>5, <1>6, <1>7, <1>8, <1>9, <1>10, <1>11,
     <1>12, <1>13, <1>14, <1>15, <1>16, <1>17, <1>18, <1>19, <1>20
  DEF Next

\* The types of the clocks.
LEMMA TimeTypeStep == TypeOK /\ ClockInv /\ [Next]_vars => TimeType'
<1> SUFFICES ASSUME TypeOK, ClockInv, [Next]_vars PROVE TimeType'
  OBVIOUS
<1> USE CountersAssumption, WorkAssumption, SettingsAssumption
    DEF TimeType, Passes, clockVars, kernelClock, timeVars
<1>a. TimeType
  BY TypeParts
<1>1. CASE Open
  BY <1>a, <1>1 DEF Open
<1>2. CASE Opened
  BY <1>a, <1>2 DEF Opened
<1>3. CASE Spawn
  BY <1>a, <1>3 DEF Spawn
<1>4. CASE Throws
  BY <1>a, <1>4 DEF Throws
<1>5. CASE Reopen
  BY <1>a, <1>5 DEF Reopen
<1>6. CASE Reopened
  BY <1>a, <1>6 DEF Reopened
<1>7. CASE ClockBegin
  BY <1>a, <1>7 DEF ClockBegin
<1>8. CASE Begin
  BY <1>a, <1>8 DEF Begin, Start
<1>9. CASE Begun
  BY <1>a, <1>9 DEF Begun
<1>10. CASE Func
  BY <1>a, <1>10 DEF Func
<1>11. CASE FuncReturns
  BY <1>a, <1>11 DEF FuncReturns
<1>12. CASE Wait
  BY <1>a, <1>12 DEF Wait
<1>13. CASE ClockEnd
  <2>1. CASE single
    BY <1>a, <1>13, <2>1 DEF ClockEnd
  <2>2. CASE ~single
    <3>1. /\ time' = now + offset - timeBegin
          /\ span' = [took |-> now - began.time,
                      setBy |-> offset - began.offset]
          /\ UNCHANGED <<timeBegin, began, offset, set>>
          /\ now' \in {now, now + 1}
      BY <1>a, <1>13, <2>2 DEF ClockEnd
    <3>2. /\ now \in Nat /\ offset \in Int /\ timeBegin \in Int
          /\ began.time \in Nat /\ began.offset \in Int
          /\ began.time <= now
      BY <1>a DEF ClockInv
    <3>3. /\ now - began.time \in Nat /\ offset - began.offset \in Int
          /\ now + offset - timeBegin \in Int
      BY ONLY <3>2
    <3> QED
      BY ONLY <1>a, <3>1, <3>2, <3>3 DEF TimeType
  <2> QED
    BY <2>1, <2>2
<1>14. CASE End
  BY <1>a, <1>14 DEF End, Stop
<1>15. CASE Ended
  BY <1>a, <1>15 DEF Ended
<1>16. CASE Collect
  BY <1>a, <1>16 DEF Collect
<1>17. CASE ChildWork
  BY <1>a, <1>17 DEF ChildWork
<1>18. CASE ChildExits
  BY <1>a, <1>18 DEF ChildExits
<1>19. CASE SetRealtime
  BY <1>a, <1>19 DEF SetRealtime
<1>20. CASE Finished \/ UNCHANGED vars
  <2>1. UNCHANGED vars
    BY <1>20 DEF Finished
  <2> QED
    BY <1>a, <2>1 DEF vars
<1> QED
  BY <1>a, <1>1, <1>2, <1>3, <1>4, <1>5, <1>6, <1>7, <1>8, <1>9, <1>10, <1>11,
     <1>12, <1>13, <1>14, <1>15, <1>16, <1>17, <1>18, <1>19, <1>20
  DEF Next

\* The types.
LEMMA TypeStep == IInv /\ [Next]_vars => TypeOK'
<1> SUFFICES ASSUME IInv, [Next]_vars PROVE TypeOK'
  OBVIOUS
<1>1. WorkType'
  BY TypeParts, WorkTypeStep DEF IInv
<1>2. TimeType'
  BY TypeParts, TimeTypeStep DEF IInv
<1> QED
  BY <1>1, <1>2 DEF TypeOK, WorkType, TimeType, Points, Lives

\* What the start of a member does.
BeginEffect ==
    /\ pc = "begin" /\ pc' = "begin"
    /\ idx \in Counters /\ idx <= M /\ idx' = idx + 1
    /\ kind' = kind /\ single' = single /\ target' = target
    /\ child' = child /\ work' = work /\ result' = result
    /\ timeBegin' = timeBegin /\ time' = time
    /\ began' = began /\ span' = span
    /\ now' \in {now, now + 1}
    /\ on'[idx] = (target[idx] # "none") /\ missed'[idx] = work
    /\ cnt'[idx] \in {0, 1} /\ (target[idx] # "self" => cnt'[idx] = 0)
    /\ \A c \in Counters \ {idx} :
          /\ on'[c] = on[c] /\ missed'[c] = missed[c]
          /\ cnt'[c] = IF on[c] /\ target[c] = "self" THEN cnt[c] + 1
                       ELSE cnt[c]

\* Begin does it.
LEMMA BeginFacts == TypeOK /\ IdxInv /\ Begin => BeginEffect
<1> SUFFICES ASSUME TypeOK, IdxInv, Begin PROVE BeginEffect
  OBVIOUS
<1> USE CountersAssumption
<1>1. /\ pc = "begin" /\ pc' = pc /\ idx \in Members /\ idx' = idx + 1
      /\ kind' = kind /\ single' = single /\ target' = target
      /\ child' = child /\ work' = work /\ result' = result
      /\ timeBegin' = timeBegin /\ time' = time
      /\ began' = began /\ span' = span
  BY DEF Begin, Visit, Start, clockVars
<1>2. now' \in {now, now + 1}
  <2>1. Passes(0)
    BY DEF Begin, Start
  <2> QED
    BY <2>1 DEF Passes, TypeOK
<1>3. idx \in Counters /\ idx <= M
  BY <1>1 DEF Members, Counters, M
<1>4. PICK own \in 0..1 :
        /\ target[idx] # "self" => own = 0
        /\ cnt' = [Counted("self") EXCEPT ![idx] = own]
  BY DEF Begin, Start
<1>5. /\ on' = [on EXCEPT ![idx] = target[idx] # "none"]
      /\ missed' = [missed EXCEPT ![idx] = work]
  BY DEF Begin, Start
<1>6. /\ Counted("self") \in [Counters -> Nat]
      /\ \A c \in Counters :
            Counted("self")[c] = IF on[c] /\ target[c] = "self" THEN cnt[c] + 1
                                 ELSE cnt[c]
  BY TypeParts, CountedType
<1>7. on \in [Counters -> BOOLEAN] /\ missed \in [Counters -> 0..MaxWork]
  BY DEF TypeOK
<1>8. /\ cnt'[idx] = own
      /\ \A c \in Counters \ {idx} : cnt'[c] = Counted("self")[c]
  BY ONLY <1>3, <1>4, <1>6
<1>9. /\ on'[idx] = (target[idx] # "none") /\ missed'[idx] = work
      /\ \A c \in Counters \ {idx} :
            on'[c] = on[c] /\ missed'[c] = missed[c]
  <2>1. on'[idx] = (target[idx] # "none")
    BY ONLY <1>3, <1>5, <1>7, Zenon
  <2>2. missed'[idx] = work
    BY ONLY <1>3, <1>5, <1>7
  <2>3. \A c \in Counters \ {idx} :
           on'[c] = on[c] /\ missed'[c] = missed[c]
    BY ONLY <1>3, <1>5, <1>7
  <2> QED
    BY <2>1, <2>2, <2>3
<1> QED
  BY <1>1, <1>2, <1>3, <1>4, <1>6, <1>8, <1>9
  DEF BeginEffect

\* What the stop of a member does.
EndEffect ==
    /\ pc = "end" /\ pc' = "end"
    /\ idx \in Counters /\ idx <= M /\ idx' = idx + 1
    /\ kind' = kind /\ single' = single /\ target' = target
    /\ child' = child /\ work' = work /\ result' = result
    /\ missed' = missed
    /\ timeBegin' = timeBegin /\ time' = time
    /\ began' = began /\ span' = span
    /\ now' \in {now, now + 1}
    /\ ~on'[idx]
    /\ cnt'[idx] \in {cnt[idx], cnt[idx] + 1}
    /\ target[idx] # "self" => cnt'[idx] = cnt[idx]
    /\ \A c \in Counters \ {idx} :
          /\ on'[c] = on[c]
          /\ cnt'[c] = IF on[c] /\ target[c] = "self" THEN cnt[c] + 1
                       ELSE cnt[c]

\* End does it.
LEMMA EndFacts == TypeOK /\ IdxInv /\ End => EndEffect
<1> SUFFICES ASSUME TypeOK, IdxInv, End PROVE EndEffect
  OBVIOUS
<1> USE CountersAssumption
<1>1. /\ pc = "end" /\ pc' = pc /\ idx \in Members /\ idx' = idx + 1
      /\ kind' = kind /\ single' = single /\ target' = target
      /\ child' = child /\ work' = work /\ result' = result
      /\ missed' = missed
      /\ timeBegin' = timeBegin /\ time' = time
      /\ began' = began /\ span' = span
  BY DEF End, Visit, Stop, workVars, clockVars
<1>2. now' \in {now, now + 1}
  <2>1. Passes(0)
    BY DEF End, Stop
  <2> QED
    BY <2>1 DEF Passes, TypeOK
<1>3. idx \in Counters /\ idx <= M
  BY <1>1 DEF Members, Counters, M
<1>4. PICK own \in 0..1 :
        /\ target[idx] # "self" => own = 0
        /\ cnt' = [Counted("self") EXCEPT ![idx] = cnt[idx] + own]
  BY DEF End, Stop
<1>5. on' = [on EXCEPT ![idx] = FALSE]
  BY DEF End, Stop
<1>6. /\ Counted("self") \in [Counters -> Nat]
      /\ \A c \in Counters :
            Counted("self")[c] = IF on[c] /\ target[c] = "self" THEN cnt[c] + 1
                                 ELSE cnt[c]
  BY TypeParts, CountedType
<1>7. on \in [Counters -> BOOLEAN] /\ cnt[idx] \in Nat
  BY <1>3 DEF TypeOK
<1>8. /\ cnt'[idx] = cnt[idx] + own
      /\ \A c \in Counters \ {idx} : cnt'[c] = Counted("self")[c]
  BY ONLY <1>3, <1>4, <1>6
<1>9. /\ ~on'[idx]
      /\ \A c \in Counters \ {idx} : on'[c] = on[c]
  BY ONLY <1>3, <1>5, <1>7
<1> QED
  BY <1>1, <1>2, <1>3, <1>4, <1>6, <1>7, <1>8, <1>9
  DEF EndEffect

\* The control, the index of the group loops, the targets and the enabling.
LEMMA FlowStep ==
    IInv /\ [Next]_vars => (LifeInv /\ IdxInv /\ TargetInv /\ OnInv)'
<1> SUFFICES ASSUME IInv, [Next]_vars
             PROVE  (LifeInv /\ IdxInv /\ TargetInv /\ OnInv)'
  OBVIOUS
<1>i. IInv
  OBVIOUS
<1>b. Begin => BeginEffect
  BY BeginFacts DEF IInv
<1>e. End => EndEffect
  BY EndFacts DEF IInv
<1> USE CountersAssumption, WorkAssumption, SettingsAssumption
    DEF TypeOK, LifeInv, IdxInv, TargetInv, OnInv, Started, Goto, Visit,
        Visited, Members, M, Counters, Final, Passes, OpenOn, perfVars,
        workVars, clockVars, kernelClock, timeVars, IInv
<1>1. CASE Open
  BY <1>1 DEF Open
<1>2. CASE Opened
  BY <1>2 DEF Opened
<1>3. CASE Spawn
  BY <1>3 DEF Spawn
<1>4. CASE Throws
  BY <1>4 DEF Throws
<1>5. CASE Reopen
  BY <1>5 DEF Reopen
<1>6. CASE Reopened
  BY <1>6 DEF Reopened
<1>7. CASE ClockBegin
  BY <1>7 DEF ClockBegin
<1>8. CASE Begin
  <2>1. BeginEffect
    BY <1>8, <1>b
  <2>2. (LifeInv /\ IdxInv)'
    BY ONLY <1>i, <2>1, CountersAssumption
    DEF IInv, TypeOK, LifeInv, IdxInv, M, Counters, BeginEffect
  <2>3. ASSUME NEW c \in Counters
        PROVE  /\ c > M' => target'[c] = "none"
               /\ kind' = "call" => target'[c] # "child"
               /\ kind' = "bin" => target'[c] # "self"
    BY ONLY <1>i, <2>1, <2>3 DEF IInv, TargetInv, M, BeginEffect
  <2>4. ASSUME NEW c \in Counters
        PROVE  on'[c] <=> target'[c] # "none" /\ c < idx'
    <3>1. on[c] <=> target[c] # "none" /\ c < idx
      BY ONLY <1>i, <2>1, <2>4 DEF IInv, OnInv, Started, BeginEffect
    <3>2. c \in Nat /\ idx \in Nat
      BY ONLY <2>1, CountersAssumption DEF Counters, BeginEffect
    <3>3. CASE c = idx
      <4>1. on'[c] = (target[c] # "none") /\ target' = target
        BY ONLY <2>1, <3>3 DEF BeginEffect
      <4>2. c < idx'
        BY ONLY <2>1, <3>2, <3>3 DEF BeginEffect
      <4> QED
        BY ONLY <4>1, <4>2, Zenon
    <3>4. CASE c # idx
      <4>1. on'[c] = on[c] /\ target' = target
        BY ONLY <2>1, <3>4 DEF BeginEffect
      <4>2. c < idx' <=> c < idx
        BY ONLY <2>1, <3>2, <3>4 DEF BeginEffect
      <4> QED
        BY ONLY <3>1, <4>1, <4>2, Zenon
    <3> QED
      BY <3>3, <3>4
  <2>5. pc' = "begin"
    BY ONLY <2>1 DEF BeginEffect
  <2>6. TargetInv'
    BY ONLY <2>3 DEF TargetInv
  <2>7. OnInv'
    BY ONLY <2>4, <2>5 DEF OnInv, Started
  <2> QED
    BY <2>2, <2>6, <2>7
<1>9. CASE Begun
  BY <1>9 DEF Begun
<1>10. CASE Func
  BY <1>10 DEF Func
<1>11. CASE FuncReturns
  BY <1>11 DEF FuncReturns
<1>12. CASE Wait
  BY <1>12 DEF Wait
<1>13. CASE ClockEnd
  <2>1. /\ pc = "clockEnd" /\ pc' = "end" /\ idx' = idx
        /\ UNCHANGED <<kind, single, target, on, child>>
    BY <1>13 DEF ClockEnd
  <2>2. (LifeInv /\ IdxInv)'
    BY <2>1
  <2>3. TargetInv'
    BY <2>1
  <2>4. OnInv'
    BY <2>1
  <2> QED
    BY <2>2, <2>3, <2>4
<1>14. CASE End
  <2>1. EndEffect
    BY <1>14, <1>e
  <2>2. (LifeInv /\ IdxInv)'
    BY ONLY <1>i, <2>1, CountersAssumption
    DEF IInv, TypeOK, LifeInv, IdxInv, M, Counters, EndEffect
  <2>3. ASSUME NEW c \in Counters
        PROVE  /\ c > M' => target'[c] = "none"
               /\ kind' = "call" => target'[c] # "child"
               /\ kind' = "bin" => target'[c] # "self"
    BY ONLY <1>i, <2>1, <2>3 DEF IInv, TargetInv, Started, M, EndEffect
  <2>4. ASSUME NEW c \in Counters
        PROVE  on'[c] <=> target'[c] # "none" /\ c >= idx'
    <3>1. on[c] <=> target[c] # "none" /\ c >= idx
      BY ONLY <1>i, <2>1, <2>4 DEF IInv, OnInv, Started, EndEffect
    <3>2. c \in Nat /\ idx \in Nat
      BY ONLY <2>1, CountersAssumption DEF Counters, EndEffect
    <3>3. CASE c = idx
      <4>1. ~on'[c]
        BY ONLY <2>1, <3>3 DEF EndEffect
      <4>2. ~(c >= idx')
        BY ONLY <2>1, <3>2, <3>3 DEF EndEffect
      <4> QED
        BY ONLY <4>1, <4>2, Zenon
    <3>4. CASE c # idx
      <4>1. on'[c] = on[c] /\ target' = target
        BY ONLY <2>1, <3>4 DEF EndEffect
      <4>2. c >= idx' <=> c >= idx
        BY ONLY <2>1, <3>2, <3>4 DEF EndEffect
      <4> QED
        BY ONLY <3>1, <4>1, <4>2, Zenon
    <3> QED
      BY <3>3, <3>4
  <2>5. pc' = "end"
    BY ONLY <2>1 DEF EndEffect
  <2>6. TargetInv'
    BY ONLY <2>3 DEF TargetInv
  <2>7. OnInv'
    BY ONLY <2>4, <2>5 DEF OnInv, Started
  <2> QED
    BY <2>2, <2>6, <2>7
<1>15. CASE Ended
  BY <1>15 DEF Ended
<1>16. CASE Collect
  BY <1>16 DEF Collect
<1>17. CASE ChildWork
  BY <1>17 DEF ChildWork
<1>18. CASE ChildExits
  BY <1>18 DEF ChildExits
<1>19. CASE SetRealtime
  BY <1>19 DEF SetRealtime
<1>20. CASE Finished \/ UNCHANGED vars
  <2>1. UNCHANGED vars
    BY <1>20 DEF Finished
  <2> QED
    BY <2>1 DEF vars
<1> QED
  BY <1>1, <1>2, <1>3, <1>4, <1>5, <1>6, <1>7, <1>8, <1>9, <1>10, <1>11,
     <1>12, <1>13, <1>14, <1>15, <1>16, <1>17, <1>18, <1>19, <1>20
  DEF Next

\* The time_clock.
LEMMA ClockStep == IInv /\ [Next]_vars => ClockInv'
<1> SUFFICES ASSUME IInv, [Next]_vars PROVE ClockInv'
  OBVIOUS
<1> USE CountersAssumption, WorkAssumption, SettingsAssumption
    DEF TypeOK, ClockInv, Goto, Visit, Visited, Members, M, Counters, Final,
        Passes, perfVars, workVars, clockVars, kernelClock, timeVars, IInv
<1>1. CASE Open
  BY <1>1 DEF Open
<1>2. CASE Opened
  BY <1>2 DEF Opened
<1>3. CASE Spawn
  BY <1>3 DEF Spawn
<1>4. CASE Throws
  BY <1>4 DEF Throws
<1>5. CASE Reopen
  BY <1>5 DEF Reopen
<1>6. CASE Reopened
  BY <1>6 DEF Reopened
<1>7. CASE ClockBegin
  BY <1>7 DEF ClockBegin
<1>8. CASE Begin
  BY <1>8 DEF Begin, Start
<1>9. CASE Begun
  BY <1>9 DEF Begun
<1>10. CASE Func
  BY <1>10 DEF Func
<1>11. CASE FuncReturns
  BY <1>11 DEF FuncReturns
<1>12. CASE Wait
  BY <1>12 DEF Wait
<1>13. CASE ClockEnd
  <2>1. CASE single
    BY <1>13, <2>1 DEF ClockEnd
  <2>2. CASE ~single
    <3>1. /\ pc = "clockEnd" /\ pc' = "end" /\ single' = single
          /\ time' = now + offset - timeBegin
          /\ span' = [took |-> now - began.time,
                      setBy |-> offset - began.offset]
          /\ began' = began
      BY <1>13, <2>2 DEF ClockEnd
    <3>2. now' \in {now, now + 1}
      <4>1. Passes(0)
        BY <1>13, <2>2 DEF ClockEnd
      <4> QED
        BY <4>1 DEF Passes
    <3>3. timeBegin = began.time + began.offset
      BY <2>2, <3>1
    <3>4. /\ now \in Nat /\ offset \in Int
          /\ began.time \in Nat /\ began.offset \in Int
      OBVIOUS
    <3>5. time' = span'.took + span'.setBy
      BY ONLY <3>1, <3>3, <3>4
    <3>6. began'.time <= now'
      BY <3>1, <3>2, <3>4
    <3> QED
      BY ONLY <3>1, <3>5, <3>6 DEF ClockInv
  <2> QED
    BY <2>1, <2>2
<1>14. CASE End
  BY <1>14 DEF End, Stop
<1>15. CASE Ended
  BY <1>15 DEF Ended
<1>16. CASE Collect
  BY <1>16 DEF Collect
<1>17. CASE ChildWork
  BY <1>17 DEF ChildWork
<1>18. CASE ChildExits
  BY <1>18 DEF ChildExits
<1>19. CASE SetRealtime
  BY <1>19 DEF SetRealtime
<1>20. CASE Finished \/ UNCHANGED vars
  <2>1. UNCHANGED vars
    BY <1>20 DEF Finished
  <2> QED
    BY <2>1 DEF vars
<1> QED
  BY <1>1, <1>2, <1>3, <1>4, <1>5, <1>6, <1>7, <1>8, <1>9, <1>10, <1>11,
     <1>12, <1>13, <1>14, <1>15, <1>16, <1>17, <1>18, <1>19, <1>20
  DEF Next

\* What the counters on the program have counted.
LEMMA BinStep == IInv /\ [Next]_vars => BinInv'
<1> SUFFICES ASSUME IInv, [Next]_vars PROVE BinInv'
  OBVIOUS
<1>i. IInv
  OBVIOUS
<1>b. Begin => BeginEffect
  BY BeginFacts DEF IInv
<1>e. End => EndEffect
  BY EndFacts DEF IInv
<1> USE CountersAssumption, WorkAssumption, SettingsAssumption
    DEF TypeOK, LifeInv, IdxInv, TargetInv, OnInv, BinInv, Started, Goto,
        Visit, Visited, Members, M, Counters, Final, Passes, OpenOn, perfVars,
        workVars, clockVars, kernelClock, timeVars, IInv
<1>1. CASE Open
  BY <1>1 DEF Open
<1>2. CASE Opened
  BY <1>2 DEF Opened
<1>3. CASE Spawn
  BY <1>3 DEF Spawn
<1>4. CASE Throws
  BY <1>4 DEF Throws
<1>5. CASE Reopen
  BY <1>5 DEF Reopen
<1>6. CASE Reopened
  BY <1>6 DEF Reopened
<1>7. CASE ClockBegin
  BY <1>7 DEF ClockBegin
<1>8. CASE Begin
  <2>1. BeginEffect
    BY <1>8, <1>b
  <2>2. ASSUME kind = "bin"
        PROVE  /\ \A c \in Counters : c < idx + 1 =>
                     /\ missed'[c] <= work
                     /\ target[c] = "child" => cnt'[c] = work - missed'[c]
               /\ \A c, d \in Counters :
                     c < d /\ d < idx + 1 => missed'[c] <= missed'[d]
    <3>1. \A c \in Counters : c < idx =>
             /\ missed[c] <= work
             /\ target[c] = "child" => cnt[c] = work - missed[c]
      BY ONLY <1>i, <2>1, <2>2, CountersAssumption
      DEF IInv, BinInv, Started, Counters, M, BeginEffect
    <3>2. \A c, d \in Counters : c < d /\ d < idx => missed[c] <= missed[d]
      BY ONLY <1>i, <2>1, <2>2, CountersAssumption
      DEF IInv, BinInv, Started, Counters, M, BeginEffect
    <3>3. work \in Nat /\ \A c \in Counters : c \in Nat
      BY ONLY <1>i, WorkAssumption, CountersAssumption
      DEF IInv, TypeOK, Counters
    <3>4. /\ idx \in Counters /\ missed'[idx] = work
          /\ target[idx] = "child" => cnt'[idx] = 0
          /\ \A c \in Counters : c # idx =>
                /\ missed'[c] = missed[c]
                /\ target[c] = "child" => cnt'[c] = cnt[c]
      BY ONLY <2>1 DEF BeginEffect
    <3> QED
      BY ONLY <3>1, <3>2, <3>3, <3>4
  <2>3. /\ kind' = kind /\ target' = target /\ work' = work /\ pc' = "begin"
        /\ idx' = idx + 1
    BY ONLY <2>1 DEF BeginEffect
  <2> QED
    BY ONLY <2>2, <2>3 DEF BinInv, Started
<1>9. CASE Begun
  BY <1>9 DEF Begun
<1>10. CASE Func
  BY <1>10 DEF Func, Counted
<1>11. CASE FuncReturns
  BY <1>11 DEF FuncReturns
<1>12. CASE Wait
  <2>1. /\ UNCHANGED <<kind, single, target, work, missed>>
        /\ pc = "wait" /\ pc' = "clockEnd"
    BY <1>12 DEF Wait
  <2>2. ASSUME kind = "bin", NEW c \in Counters, target[c] = "child"
        PROVE  cnt'[c] = cnt[c]
    BY <2>2, <1>12 DEF Wait, Counted
  <2> QED
    BY ONLY <2>1, <2>2, BinInv DEF BinInv, Started, M
<1>13. CASE ClockEnd
  <2>1. /\ UNCHANGED <<kind, single, target, work, missed>>
        /\ pc = "clockEnd" /\ pc' = "end"
    BY <1>13 DEF ClockEnd
  <2>2. ASSUME kind = "bin", NEW c \in Counters, target[c] = "child"
        PROVE  cnt'[c] = cnt[c]
    BY <2>2, <1>13 DEF ClockEnd, Counted
  <2> QED
    BY ONLY <2>1, <2>2, BinInv DEF BinInv, Started, M
<1>14. CASE End
  <2>1. /\ UNCHANGED <<kind, single, target, work, missed>>
        /\ pc = "end" /\ pc' = "end"
    BY <1>14, <1>e DEF EndEffect
  <2>2. ASSUME kind = "bin", NEW c \in Counters, target[c] = "child"
        PROVE  cnt'[c] = cnt[c]
    BY <2>2, <1>14, <1>e DEF EndEffect
  <2> QED
    BY ONLY <2>1, <2>2, BinInv DEF BinInv, Started, M
<1>15. CASE Ended
  BY <1>15 DEF Ended
<1>16. CASE Collect
  BY <1>16 DEF Collect
<1>17. CASE ChildWork
  <2>1. /\ child = "running" /\ work' = work + 1 /\ work \in Nat
        /\ UNCHANGED <<kind, single, pc, idx, target, on, missed>>
    BY <1>17 DEF ChildWork
  <2>2. \A c \in Counters :
           cnt'[c] = IF on[c] /\ target[c] = "child" THEN cnt[c] + 1 ELSE cnt[c]
    BY <1>17 DEF ChildWork, Counted
  <2>3. ASSUME kind = "bin", NEW c \in Counters, Started(c), c <= M
        PROVE  /\ missed[c] <= work + 1
               /\ target[c] = "child" => cnt'[c] = work + 1 - missed[c]
    <3>1. /\ missed[c] <= work
          /\ target[c] = "child" => cnt[c] = work - missed[c]
      BY <2>3
    <3>2. target[c] = "child" => on[c]
      BY <2>1, <2>3
    <3>3. missed[c] \in Nat /\ cnt[c] \in Nat
      OBVIOUS
    <3> QED
      BY ONLY <2>1, <2>2, <3>1, <3>2, <3>3
  <2>4. \A c, d \in Counters :
           (kind = "bin" /\ c < d /\ d <= M /\ Started(d)) =>
               missed[c] <= missed[d]
    OBVIOUS
  <2>5. M' = M /\ \A c \in Counters : Started(c)' <=> Started(c)
    BY <2>1
  <2> HIDE DEF Started, M
  <2>6. ASSUME kind' = "bin", NEW c \in Counters, Started(c)', c <= M'
        PROVE  /\ missed'[c] <= work'
               /\ target'[c] = "child" => cnt'[c] = work' - missed'[c]
    <3>1. Started(c) /\ c <= M /\ kind = "bin"
      BY ONLY <2>1, <2>5, <2>6
    <3> QED
      BY <2>1, <2>3, <3>1
  <2>7. ASSUME kind' = "bin", NEW c \in Counters, NEW d \in Counters,
               c < d, d <= M', Started(d)'
        PROVE  missed'[c] <= missed'[d]
    BY ONLY <2>1, <2>4, <2>5, <2>7
  <2> QED
    BY ONLY <2>6, <2>7 DEF BinInv
<1>18. CASE ChildExits
  BY <1>18 DEF ChildExits
<1>19. CASE SetRealtime
  BY <1>19 DEF SetRealtime
<1>20. CASE Finished \/ UNCHANGED vars
  <2>1. UNCHANGED vars
    BY <1>20 DEF Finished
  <2> QED
    BY <2>1 DEF vars
<1> QED
  BY <1>1, <1>2, <1>3, <1>4, <1>5, <1>6, <1>7, <1>8, <1>9, <1>10, <1>11,
     <1>12, <1>13, <1>14, <1>15, <1>16, <1>17, <1>18, <1>19, <1>20
  DEF Next

\* What the time_clock has covered of it.
LEMMA CoverStep == IInv /\ [Next]_vars => CoverInv'
<1> SUFFICES ASSUME IInv, [Next]_vars PROVE CoverInv'
  OBVIOUS
<1>i. IInv
  OBVIOUS
<1>b. Begin => BeginEffect
  BY BeginFacts DEF IInv
<1>e. End => EndEffect
  BY EndFacts DEF IInv
<1> USE CountersAssumption, WorkAssumption, SettingsAssumption
    DEF TypeOK, LifeInv, IdxInv, TargetInv, OnInv, ClockInv, CoverInv,
        Covered, Started, Goto, Visit, Visited, Members, M, Counters, Final,
        Passes, OpenOn, perfVars, workVars, clockVars, kernelClock, timeVars,
        IInv
<1>1. CASE Open
  BY <1>1 DEF Open
<1>2. CASE Opened
  BY <1>2 DEF Opened
<1>3. CASE Spawn
  BY <1>3 DEF Spawn
<1>4. CASE Throws
  BY <1>4 DEF Throws
<1>5. CASE Reopen
  BY <1>5 DEF Reopen
<1>6. CASE Reopened
  BY <1>6 DEF Reopened
<1>7. CASE ClockBegin
  BY <1>7 DEF ClockBegin
<1>8. CASE Begin
  <2>1. BeginEffect
    BY <1>8, <1>b
  <2>2. /\ kind' = kind /\ single' = single /\ target' = target
        /\ began' = began /\ pc' = "begin" /\ idx' = idx + 1
    BY ONLY <2>1 DEF BeginEffect
  <2>3. /\ now \in Nat /\ now' \in {now, now + 1} /\ began.time \in Nat
        /\ began.time <= now
    BY ONLY <1>i, <2>1 DEF IInv, TypeOK, ClockInv, BeginEffect
  <2>4. ASSUME kind = "bin", ~single, NEW c \in Counters, c < idx + 1,
               target[c] = "child"
        PROVE  cnt'[c] <= now' - began.time
    <3>1. c \in Nat /\ idx \in Nat
      BY ONLY <2>1, CountersAssumption DEF Counters, BeginEffect
    <3>2. CASE c = idx
      <4>1. cnt'[c] = 0
        BY ONLY <2>1, <2>4, <3>2 DEF BeginEffect
      <4> QED
        BY ONLY <4>1, <2>3
    <3>3. CASE c # idx
      <4>1. cnt'[c] = cnt[c]
        BY ONLY <2>1, <2>4, <3>3 DEF BeginEffect
      <4>2. c < idx /\ cnt[c] \in Nat
        BY ONLY <1>i, <2>4, <3>1, <3>3 DEF IInv, TypeOK
      <4>3. cnt[c] <= now - began.time
        BY ONLY <1>i, <2>1, <2>4, <4>2
        DEF IInv, CoverInv, Covered, Started, BeginEffect
      <4> QED
        BY ONLY <4>1, <4>2, <4>3, <2>3
    <3> QED
      BY <3>2, <3>3
  <2> QED
    BY ONLY <2>2, <2>4 DEF CoverInv, Covered, Started
<1>9. CASE Begun
  BY <1>9 DEF Begun
<1>10. CASE Func
  BY <1>10 DEF Func
<1>11. CASE FuncReturns
  BY <1>11 DEF FuncReturns
<1>12. CASE Wait
  <2>1. /\ UNCHANGED <<kind, single, target, began>>
        /\ pc = "wait" /\ pc' = "clockEnd"
    BY <1>12 DEF Wait
  <2>2. now' >= now /\ now \in Nat /\ now' \in Nat
    BY <1>12 DEF Wait
  <2>3. ASSUME kind = "bin", NEW c \in Counters, target[c] = "child"
        PROVE  cnt'[c] = cnt[c] /\ cnt[c] \in Nat
    BY <2>3, <1>12 DEF Wait, Counted
  <2>4. began.time \in Nat
    OBVIOUS
  <2> QED
    BY ONLY <2>1, <2>2, <2>3, <2>4, CoverInv DEF CoverInv, Covered, Started
<1>13. CASE ClockEnd
  <2>1. /\ UNCHANGED <<kind, single, target>>
        /\ pc = "clockEnd" /\ pc' = "end"
        /\ ~single => span'.took = now - began.time
    BY <1>13 DEF ClockEnd
  <2>2. ASSUME kind = "bin", NEW c \in Counters, target[c] = "child"
        PROVE  cnt'[c] = cnt[c]
    BY <2>2, <1>13 DEF ClockEnd, Counted
  <2> QED
    BY ONLY <2>1, <2>2, CoverInv DEF CoverInv, Covered, Started
<1>14. CASE End
  <2>1. /\ UNCHANGED <<kind, single, target, span>>
        /\ pc = "end" /\ pc' = "end"
    BY <1>14, <1>e DEF EndEffect
  <2>2. ASSUME kind = "bin", NEW c \in Counters, target[c] = "child"
        PROVE  cnt'[c] = cnt[c]
    BY <2>2, <1>14, <1>e DEF EndEffect
  <2> QED
    BY ONLY <2>1, <2>2, CoverInv DEF CoverInv, Covered, Started
<1>15. CASE Ended
  BY <1>15 DEF Ended
<1>16. CASE Collect
  BY <1>16 DEF Collect
<1>17. CASE ChildWork
  <2>1. /\ child = "running"
        /\ UNCHANGED <<kind, single, pc, idx, target, on, began, span>>
    BY <1>17 DEF ChildWork
  <2>2. now' = now + 1
    BY <1>17 DEF ChildWork
  <2>3. \A c \in Counters :
           cnt'[c] = IF on[c] /\ target[c] = "child" THEN cnt[c] + 1 ELSE cnt[c]
    BY <1>17 DEF ChildWork, Counted
  <2>4. \A c \in Counters : cnt[c] \in Nat
    OBVIOUS
  <2>5. now \in Nat /\ began.time \in Nat
    OBVIOUS
  <2>6. ASSUME kind = "bin", ~single, NEW c \in Counters, Started(c),
               target[c] = "child"
        PROVE  cnt'[c] <= now' - began.time
               /\ pc \notin {"end", "collect", "returned"}
    <3>1. pc \in {"begin", "wait"}
      BY <2>1, <2>6
    <3>2. cnt[c] <= now - began.time
      BY <2>6, <3>1
    <3> QED
      BY ONLY <2>2, <2>3, <2>4, <2>5, <3>1, <3>2
  <2> QED
    BY ONLY <2>1, <2>6 DEF CoverInv, Covered, Started
<1>18. CASE ChildExits
  BY <1>18 DEF ChildExits
<1>19. CASE SetRealtime
  BY <1>19 DEF SetRealtime
<1>20. CASE Finished \/ UNCHANGED vars
  <2>1. UNCHANGED vars
    BY <1>20 DEF Finished
  <2> QED
    BY <2>1 DEF vars
<1> QED
  BY <1>1, <1>2, <1>3, <1>4, <1>5, <1>6, <1>7, <1>8, <1>9, <1>10, <1>11,
     <1>12, <1>13, <1>14, <1>15, <1>16, <1>17, <1>18, <1>19, <1>20
  DEF Next

\* What the counters on this process have counted.
LEMMA CallStep == IInv /\ [Next]_vars => CallInv'
<1> SUFFICES ASSUME IInv, [Next]_vars PROVE CallInv'
  OBVIOUS
<1>b. Begin => BeginEffect
  BY BeginFacts DEF IInv
<1>e. End => EndEffect
  BY EndFacts DEF IInv
<1> USE CountersAssumption, WorkAssumption, SettingsAssumption
    DEF TypeOK, LifeInv, IdxInv, TargetInv, OnInv, CallInv, Started, Within,
        B, Goto, Visit, Visited, Members, M, Counters, Final, Passes, OpenOn,
        perfVars, workVars, clockVars, kernelClock, timeVars, IInv
<1>1. CASE Open
  BY <1>1 DEF Open
<1>2. CASE Opened
  BY <1>2 DEF Opened
<1>3. CASE Spawn
  BY <1>3 DEF Spawn
<1>4. CASE Throws
  BY <1>4 DEF Throws
<1>5. CASE Reopen
  BY <1>5 DEF Reopen
<1>6. CASE Reopened
  BY <1>6 DEF Reopened
<1>7. CASE ClockBegin
  BY <1>7 DEF ClockBegin
<1>8. CASE Begin
  <2>1. ASSUME kind = "call", NEW c \in Counters, target[c] = "self",
               c < idx + 1
        PROVE  Within(cnt'[c], idx - c, 1)
    <3>1. CASE c = idx
      <4>1. cnt'[c] \in {0, 1} /\ idx \in Counters
        BY <3>1, <1>8, <1>b DEF BeginEffect
      <4> QED
        BY ONLY <3>1, <4>1, CountersAssumption DEF Within, Counters
    <3>2. CASE c # idx
      <4>1. c < idx /\ on[c] /\ Within(cnt[c], idx - 1 - c, 1)
        BY <2>1, <3>2, <1>8, <1>b DEF BeginEffect
      <4>2. cnt'[c] = cnt[c] + 1 /\ cnt[c] \in Nat
        BY <2>1, <3>2, <4>1, <1>8, <1>b DEF BeginEffect
      <4>3. c \in Nat /\ idx \in Nat
        OBVIOUS
      <4> QED
        BY ONLY <4>1, <4>2, <4>3 DEF Within
    <3> QED
      BY <3>1, <3>2
  <2>2. /\ kind' = kind /\ target' = target /\ pc' = "begin"
        /\ idx' = idx + 1 /\ idx \in Nat
        /\ kind = "call" => work' = 0
    BY <1>8, <1>b DEF BeginEffect
  <2>3. \A c \in Counters : c \in Nat /\ idx' - 1 - c = idx - c
    BY <2>2
  <2> HIDE DEF Within
  <2> QED
    BY ONLY <2>1, <2>2, <2>3 DEF CallInv, Started
<1>9. CASE Begun
  <2>1. /\ pc = "begin" /\ idx = M + 1 /\ M \in Nat
        /\ UNCHANGED <<kind, single, target, cnt, work>>
        /\ pc' = IF kind = "call" THEN "func" ELSE "wait"
    BY <1>9 DEF Begun
  <2>2. ASSUME kind = "call", NEW c \in Counters, target[c] = "self"
        PROVE  work = 0 /\ Within(cnt[c], 0 + M - c, 1)
    <3>1. c <= M /\ c \in Nat
      BY <2>2
    <3>2. work = 0 /\ Within(cnt[c], idx - 1 - c, 1)
      BY <2>1, <2>2, <3>1
    <3>3. idx - 1 - c = 0 + M - c
      BY <2>1, <3>1
    <3> QED
      BY <3>2, <3>3
  <2>3. M' = M
    BY <2>1
  <2> HIDE DEF Within, M
  <2> QED
    BY ONLY <2>1, <2>2, <2>3 DEF CallInv, Started
<1>10. CASE Func
  <2>1. /\ pc = "func" /\ pc' = "func" /\ work' = work + 1 /\ work \in Nat
        /\ UNCHANGED <<kind, single, target>>
    BY <1>10 DEF Func
  <2>2. \A c \in Counters :
           cnt'[c] = IF on[c] /\ target[c] = "self" THEN cnt[c] + 1 ELSE cnt[c]
    BY <1>10 DEF Func, Counted
  <2>3. ASSUME kind = "call", NEW c \in Counters, target[c] = "self"
        PROVE  Within(cnt'[c], work + 1 + M - c, 1)
    <3>1. on[c] /\ Within(cnt[c], work + M - c, 1)
      BY <2>1, <2>3
    <3>2. cnt[c] \in Nat /\ M \in Nat /\ c \in Nat
      OBVIOUS
    <3> QED
      BY ONLY <2>1, <2>2, <2>3, <3>1, <3>2 DEF Within
  <2>4. M' = M
    BY <2>1
  <2> HIDE DEF Within, M
  <2> QED
    BY ONLY <2>1, <2>3, <2>4 DEF CallInv, Started
<1>11. CASE FuncReturns
  BY <1>11 DEF FuncReturns
<1>12. CASE Wait
  <2>1. kind # "call" /\ kind' = kind
    BY <1>12 DEF Wait
  <2> QED
    BY <2>1
<1>13. CASE ClockEnd
  <2>1. /\ pc = "clockEnd" /\ pc' = "end" /\ idx' = 1 /\ work \in Nat
        /\ UNCHANGED <<kind, single, target, work>>
    BY <1>13 DEF ClockEnd
  <2>2. ASSUME kind = "call", NEW c \in Counters, target[c] = "self"
        PROVE  Within(cnt'[c], work + B - c + 1, 1)
    <3>1. on[c] /\ Within(cnt[c], work + M - c, 1)
      BY <2>1, <2>2
    <3>2. cnt[c] \in Nat /\ NCounters \in Nat /\ c \in Nat
      OBVIOUS
    <3>3. CASE single
      <4>1. cnt'[c] = cnt[c] /\ M = 1 /\ B = 0
        BY <1>13, <3>3 DEF ClockEnd
      <4> QED
        BY ONLY <2>1, <3>1, <3>2, <4>1 DEF Within
    <3>4. CASE ~single
      <4>1. cnt'[c] = cnt[c] + 1 /\ M = NCounters /\ B = NCounters
        BY <1>13, <2>2, <3>1, <3>4 DEF ClockEnd, Counted
      <4> QED
        BY ONLY <2>1, <3>1, <3>2, <4>1 DEF Within
    <3> QED
      BY <3>3, <3>4
  <2>3. B' = B /\ \A c \in Counters : ~(c < 1)
    BY <2>1
  <2> HIDE DEF Within, B
  <2> QED
    BY ONLY <2>1, <2>2, <2>3 DEF CallInv, Started
<1>14. CASE End
  <2>1. /\ pc = "end" /\ pc' = "end" /\ idx' = idx + 1 /\ idx \in Nat
        /\ work \in Nat /\ B \in Nat
        /\ UNCHANGED <<kind, single, target, work>>
    BY <1>14, <1>e DEF EndEffect
  <2>2. ASSUME kind = "call", NEW c \in Counters, target[c] = "self"
        PROVE  /\ c >= idx + 1 => Within(cnt'[c], work + B - c + (idx + 1), 1)
               /\ c < idx + 1 => Within(cnt'[c], work + B, 2)
    <3>1. /\ c >= idx => Within(cnt[c], work + B - c + idx, 1)
          /\ c < idx => Within(cnt[c], work + B, 2)
      BY <2>1, <2>2
    <3>2. cnt[c] \in Nat /\ c \in Nat
      OBVIOUS
    <3>3. CASE c = idx
      <4>1. cnt'[c] \in {cnt[c], cnt[c] + 1}
        BY <3>3, <1>14, <1>e DEF EndEffect
      <4> QED
        BY ONLY <2>1, <3>1, <3>2, <3>3, <4>1 DEF Within
    <3>4. CASE c > idx
      <4>1. cnt'[c] = cnt[c] + 1
        <5>1. on[c]
          BY <2>1, <2>2, <3>2, <3>4
        <5> QED
          BY <2>1, <2>2, <3>2, <3>4, <5>1, <1>14, <1>e DEF EndEffect
      <4> QED
        BY ONLY <2>1, <3>1, <3>2, <3>4, <4>1 DEF Within
    <3>5. CASE c < idx
      <4>1. cnt'[c] = cnt[c]
        <5>1. ~on[c]
          BY <2>1, <2>2, <3>2, <3>5
        <5>2. EndEffect /\ c # idx
          BY <3>2, <3>5, <1>14, <1>e
        <5> QED
          BY ONLY <5>1, <5>2, <2>2 DEF EndEffect
      <4> QED
        BY ONLY <2>1, <3>1, <3>2, <3>5, <4>1 DEF Within
    <3> QED
      BY <2>1, <3>2, <3>3, <3>4, <3>5
  <2>3. B' = B
    BY <2>1
  <2> HIDE DEF Within, B
  <2> QED
    BY ONLY <2>1, <2>2, <2>3 DEF CallInv, Started
<1>15. CASE Ended
  <2>1. /\ pc = "end" /\ pc' = "collect" /\ idx = M + 1
        /\ UNCHANGED <<kind, single, target, cnt, work>>
    BY <1>15 DEF Ended
  <2>2. ASSUME kind = "call", NEW c \in Counters, target[c] = "self"
        PROVE  Within(cnt[c], work + B, 2)
    <3>1. c <= M /\ M \in Nat /\ c \in Nat
      BY <2>1, <2>2
    <3>2. c < idx
      BY ONLY <2>1, <3>1
    <3> QED
      BY <2>1, <2>2, <3>2
  <2>3. B' = B
    BY <2>1
  <2> HIDE DEF Within, B
  <2> QED
    BY ONLY <2>1, <2>2, <2>3 DEF CallInv, Started
<1>16. CASE Collect
  BY <1>16 DEF Collect
<1>17. CASE ChildWork
  <2>1. kind # "call" /\ kind' = kind
    BY <1>17 DEF ChildWork
  <2> QED
    BY <2>1
<1>18. CASE ChildExits
  BY <1>18 DEF ChildExits
<1>19. CASE SetRealtime
  BY <1>19 DEF SetRealtime
<1>20. CASE Finished \/ UNCHANGED vars
  <2>1. UNCHANGED vars
    BY <1>20 DEF Finished
  <2> QED
    BY <2>1 DEF vars
<1> QED
  BY <1>1, <1>2, <1>3, <1>4, <1>5, <1>6, <1>7, <1>8, <1>9, <1>10, <1>11,
     <1>12, <1>13, <1>14, <1>15, <1>16, <1>17, <1>18, <1>19, <1>20
  DEF Next

\* The results.
LEMMA ResultStep == IInv /\ [Next]_vars => ResultInv'
<1> SUFFICES ASSUME IInv, [Next]_vars PROVE ResultInv'
  OBVIOUS
<1> USE CountersAssumption, WorkAssumption, SettingsAssumption
    DEF TypeOK, LifeInv, ResultInv, Goto, Visit, Visited, Members, M,
        Counters, Final, Passes, OpenOn, perfVars, workVars, clockVars,
        kernelClock, timeVars, IInv
<1>1. CASE Open
  BY <1>1 DEF Open
<1>2. CASE Opened
  BY <1>2 DEF Opened
<1>3. CASE Spawn
  BY <1>3 DEF Spawn
<1>4. CASE Throws
  BY <1>4 DEF Throws
<1>5. CASE Reopen
  BY <1>5 DEF Reopen
<1>6. CASE Reopened
  BY <1>6 DEF Reopened
<1>7. CASE ClockBegin
  BY <1>7 DEF ClockBegin
<1>8. CASE Begin
  BY <1>8 DEF Begin, Start
<1>9. CASE Begun
  BY <1>9 DEF Begun
<1>10. CASE Func
  BY <1>10 DEF Func
<1>11. CASE FuncReturns
  BY <1>11 DEF FuncReturns
<1>12. CASE Wait
  BY <1>12 DEF Wait
<1>13. CASE ClockEnd
  BY <1>13 DEF ClockEnd
<1>14. CASE End
  BY <1>14 DEF End, Stop
<1>15. CASE Ended
  BY <1>15 DEF Ended
<1>16. CASE Collect
  BY <1>16 DEF Collect
<1>17. CASE ChildWork
  <2>1. UNCHANGED <<pc, result>> /\ pc # "returned"
    BY <1>17 DEF ChildWork
  <2> QED
    BY <2>1
<1>18. CASE ChildExits
  BY <1>18 DEF ChildExits
<1>19. CASE SetRealtime
  BY <1>19 DEF SetRealtime
<1>20. CASE Finished \/ UNCHANGED vars
  <2>1. UNCHANGED vars
    BY <1>20 DEF Finished
  <2> QED
    BY <2>1 DEF vars
<1> QED
  BY <1>1, <1>2, <1>3, <1>4, <1>5, <1>6, <1>7, <1>8, <1>9, <1>10, <1>11,
     <1>12, <1>13, <1>14, <1>15, <1>16, <1>17, <1>18, <1>19, <1>20
  DEF Next

\* Every step of the measuring function and of the program preserves it.
LEMMA StepInv == IInv /\ [Next]_vars => IInv'
BY TypeStep, FlowStep, ClockStep, BinStep, CoverStep, CallStep, ResultStep
DEF IInv

\* The inductive invariant of every direct measurement.
THEOREM DirectInvariance == Spec => []IInv
<1>1. Init => IInv
  BY InitInv
<1>2. IInv /\ [Next]_vars => IInv'
  BY StepInv
<1>3. QED
  BY <1>1, <1>2, PTL DEF Spec

\* Counters of a running program read exactly what is left of it
\* (benchmark_bin, cpu_bench_bin).
THEOREM CountsTheRestHolds == Spec => []CountsTheRest
<1>1. IInv => CountsTheRest
  BY CountersAssumption
  DEF IInv, TypeOK, BinInv, ResultInv, TargetInv, Started, CountsTheRest,
      Members, M, Counters
<1>2. QED
  BY <1>1, DirectInvariance, PTL

\* Members that are enabled earlier see more of the program.
THEOREM EarlierSeesMoreHolds == Spec => []EarlierSeesMore
<1>1. IInv => EarlierSeesMore
  <2> SUFFICES ASSUME IInv, kind = "bin", pc = "returned",
                      NEW c \in Members, NEW d \in Members,
                      c < d, target[c] = "child", target[d] = "child"
               PROVE  result[c] >= result[d]
    BY DEF EarlierSeesMore
  <2>1. c \in Counters /\ d \in Counters /\ c <= M /\ d <= M
    BY CountersAssumption DEF Members, M, Counters
  <2>2. result[c] = cnt[c] /\ result[d] = cnt[d]
    BY <2>1 DEF IInv, ResultInv
  <2>3. /\ cnt[c] = work - missed[c] /\ cnt[d] = work - missed[d]
        /\ missed[c] <= missed[d]
    BY <2>1 DEF IInv, BinInv, Started
  <2>4. work \in Nat /\ missed[c] \in Nat /\ missed[d] \in Nat
    BY <2>1, WorkAssumption DEF IInv, TypeOK
  <2> QED
    BY <2>2, <2>3, <2>4
<1>2. QED
  BY <1>1, DirectInvariance, PTL

\* Around a function every counter covers it, one call of every other member
\* and of the time_clock, and at most parts of its own two (benchmark,
\* cpu_bench).
THEOREM CallOverheadHolds == Spec => []CallOverhead
<1>1. IInv => CallOverhead
  <2> SUFFICES ASSUME IInv, kind = "call", pc = "returned",
                      NEW c \in Members, target[c] = "self"
               PROVE  result[c] \in (work + B)..(work + B + 2)
    BY DEF CallOverhead, B
  <2>1. c \in Counters
    BY CountersAssumption DEF Members, Counters
  <2>2. result[c] = cnt[c]
    BY <2>1 DEF IInv, ResultInv
  <2>3. Within(cnt[c], work + B, 2)
    BY <2>1 DEF IInv, CallInv, Started
  <2>4. cnt[c] \in Nat /\ work \in Nat /\ B \in Nat
    BY <2>1, CountersAssumption, WorkAssumption DEF IInv, TypeOK, B
  <2> QED
    BY <2>2, <2>3, <2>4 DEF Within
<1>2. QED
  BY <1>1, DirectInvariance, PTL

\* The reported time is off by the clock's setting only, and its span covers
\* every reported count of the program.
THEOREM TimeCoversCountsHolds == Spec => []TimeCoversCounts
<1>1. IInv => TimeCoversCounts
  <2> SUFFICES ASSUME IInv, ~single, pc = "returned"
               PROVE  /\ time = span.took + span.setBy
                      /\ kind = "bin" =>
                            \A c \in Members : result[c] <= span.took
    BY DEF TimeCoversCounts
  <2>1. time = span.took + span.setBy
    BY DEF IInv, ClockInv
  <2>2. ASSUME kind = "bin", NEW c \in Members
        PROVE  result[c] <= span.took
    <3>1. c \in Counters
      BY CountersAssumption DEF Members, Counters
    <3>2. result[c] = IF target[c] = "none" THEN 0 ELSE cnt[c]
      BY <3>1 DEF IInv, ResultInv
    <3>3. target[c] = "none" \/ target[c] = "child"
      BY <2>2, <3>1 DEF IInv, TypeOK, TargetInv, Started
    <3>4. target[c] = "child" => cnt[c] <= span.took
      BY <2>2, <3>1 DEF IInv, CoverInv, Covered, Started
    <3>5. span.took \in Nat
      BY DEF IInv, TypeOK
    <3> QED
      BY <3>2, <3>3, <3>4, <3>5
  <2> QED
    BY <2>1, <2>2
<1>2. QED
  BY <1>1, DirectInvariance, PTL

\* A counter is attached to the run's own unreaped child only.
THEOREM AttachesOwnChildHolds == Spec => AttachesOwnChild
<1>1. IInv /\ [Next]_vars =>
        [pc = "reopen" /\ idx' # idx /\ idx \in Members =>
            child \in {"running", "zombie"}]_vars
  BY DEF IInv, LifeInv, TypeOK
<1>2. QED
  BY <1>1, DirectInvariance, PTL DEF Spec, AttachesOwnChild
=============================================================================
