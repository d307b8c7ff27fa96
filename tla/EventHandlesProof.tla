-------------------------- MODULE EventHandlesProof --------------------------
(***************************************************************************)
(* Proofs about EventHandles, for any number of objects and descriptors.   *)
(***************************************************************************)
EXTENDS EventHandles, TLAPS

\* Storage without an object holds no descriptor.
DeadHoldsNone == \A h \in Handles : ~live[h] => fd[h] = NoFd

Own == /\ NoAlias /\ HeldIsOpen /\ NoLeak /\ FlagsAgree /\ DeadHoldsNone

IInv == TypeOK /\ Own

\* The program starts well typed, owning nothing.
LEMMA InitInv == Init => IInv
<1> SUFFICES ASSUME Init PROVE IInv
  OBVIOUS
<1>1. TypeOK
  BY DEF Init, TypeOK
<1>2. NoAlias /\ HeldIsOpen /\ DeadHoldsNone
  BY DEF Init, NoAlias, HeldIsOpen, DeadHoldsNone
<1>3. NoLeak
  BY DEF Init, NoLeak
<1>4. FlagsAgree
  BY DEF Init, FlagsAgree
<1> QED  BY <1>1, <1>2, <1>3, <1>4 DEF IInv, Own

\* Opening from a table in which everything held by the other objects, and
\* nothing else, is a perf event re-establishes the invariant.
LEMMA OpenInv ==
    ASSUME IInv, NEW h \in Handles, live[h],
           NEW t \in [Fds -> {"free", "perf", "other"}],
           \A g \in Handles : g # h /\ fd[g] # NoFd => t[fd[g]] = "perf",
           \A f \in Fds : t[f] = "perf" =>
              \E g \in Handles : g # h /\ live[g] /\ fd[g] = f,
           OpenFrom(h, t), live' = live
    PROVE  IInv'
<1> USE NoFdAssumption
<1> USE DEF IInv, Own, TypeOK, DeadHoldsNone
<1>1. CASE \E f \in Fds :
          /\ t[f] = "free"
          /\ table' = [t EXCEPT ![f] = "perf"]
          /\ on' = [on EXCEPT ![f] = FALSE]
          /\ count' = [count EXCEPT ![f] = 0]
          /\ fd' = [fd EXCEPT ![h] = f]
          /\ lastErr' = [lastErr EXCEPT ![h] = FALSE]
          /\ valid' = [valid EXCEPT ![h] = TRUE]
  <2> PICK f \in Fds :
          /\ t[f] = "free"
          /\ table' = [t EXCEPT ![f] = "perf"]
          /\ on' = [on EXCEPT ![f] = FALSE]
          /\ count' = [count EXCEPT ![f] = 0]
          /\ fd' = [fd EXCEPT ![h] = f]
          /\ lastErr' = [lastErr EXCEPT ![h] = FALSE]
          /\ valid' = [valid EXCEPT ![h] = TRUE]
    BY <1>1
  <2>1. TypeOK'
    OBVIOUS
  <2>2. NoAlias'
    BY DEF NoAlias
  <2>3. HeldIsOpen'
    BY DEF HeldIsOpen
  <2>4. NoLeak'
    BY DEF NoLeak
  <2>5. FlagsAgree'
    BY DEF FlagsAgree
  <2>6. DeadHoldsNone'
    OBVIOUS
  <2> QED  BY <2>1, <2>2, <2>3, <2>4, <2>5, <2>6
<1>2. CASE /\ table' = t
           /\ fd' = [fd EXCEPT ![h] = NoFd]
           /\ lastErr' = [lastErr EXCEPT ![h] = TRUE]
           /\ valid' = [valid EXCEPT ![h] = FALSE]
           /\ UNCHANGED <<on, count>>
  BY <1>2 DEF NoAlias, HeldIsOpen, NoLeak, FlagsAgree
<1> QED  BY <1>1, <1>2 DEF OpenFrom

\* Every step keeps the invariant.
LEMMA StepInv == IInv /\ [Next]_vars => IInv'
<1> USE NoFdAssumption
<1> USE DEF IInv, Own, TypeOK, DeadHoldsNone, NoAlias, HeldIsOpen, NoLeak,
        FlagsAgree
<1> SUFFICES ASSUME IInv, [Next]_vars PROVE IInv'
  OBVIOUS
<1>1. ASSUME NEW h \in Handles, Construct(h) PROVE IInv'
  <2>1. TypeOK'
    BY <1>1 DEF Construct, kernelVars
  <2>2. NoAlias'
    BY <1>1 DEF Construct, kernelVars
  <2>3. HeldIsOpen'
    BY <1>1 DEF Construct, kernelVars
  <2>4. NoLeak'
    BY <1>1 DEF Construct, kernelVars
  <2>5. FlagsAgree'
    BY <1>1 DEF Construct, kernelVars
  <2>6. DeadHoldsNone'
    BY <1>1 DEF Construct, kernelVars
  <2> QED  BY <2>1, <2>2, <2>3, <2>4, <2>5, <2>6
<1>2. ASSUME NEW h \in Handles, Open(h) PROVE IInv'
  BY <1>2, OpenInv DEF Open
<1>3. ASSUME NEW h \in Handles, Reopen(h) PROVE IInv'
  <2>1. Closed(fd[h]) \in [Fds -> {"free", "perf", "other"}]
    BY DEF Closed
  <2>2. \A g \in Handles : g # h /\ fd[g] # NoFd =>
           Closed(fd[h])[fd[g]] = "perf"
    BY DEF Closed
  <2>3. \A f \in Fds : Closed(fd[h])[f] = "perf" =>
           \E g \in Handles : g # h /\ live[g] /\ fd[g] = f
    BY DEF Closed
  <2> QED  BY <1>3, <2>1, <2>2, <2>3, OpenInv DEF Reopen
<1>4. ASSUME NEW h \in Handles, Begin(h) PROVE IInv'
  BY <1>4 DEF Begin, objVars
<1>5. ASSUME NEW h \in Handles, End(h) PROVE IInv'
  BY <1>5 DEF End, objVars
<1>6. ASSUME NEW h \in Handles, Destroy(h) PROVE IInv'
  <2>1. TypeOK'
    BY <1>6 DEF Destroy, Closed
  <2>2. NoAlias'
    BY <1>6 DEF Destroy, Closed
  <2>3. HeldIsOpen'
    BY <1>6 DEF Destroy, Closed
  <2>4. NoLeak'
    BY <1>6 DEF Destroy, Closed
  <2>5. FlagsAgree'
    BY <1>6 DEF Destroy, Closed
  <2>6. DeadHoldsNone'
    BY <1>6 DEF Destroy, Closed
  <2> QED  BY <2>1, <2>2, <2>3, <2>4, <2>5, <2>6
<1>7. ASSUME NEW g \in Handles, NEW h \in Handles, Move(g, h) PROVE IInv'
  <2>1. TypeOK'
    BY <1>7 DEF Move, kernelVars
  <2>2. NoAlias'
    BY <1>7 DEF Move, kernelVars
  <2>3. HeldIsOpen'
    BY <1>7 DEF Move, kernelVars
  <2>4. NoLeak'
    BY <1>7 DEF Move, kernelVars
  <2>5. FlagsAgree'
    BY <1>7 DEF Move, kernelVars
  <2>6. DeadHoldsNone'
    BY <1>7 DEF Move, kernelVars
  <2> QED  BY <2>1, <2>2, <2>3, <2>4, <2>5, <2>6
<1>8. ASSUME NEW f \in Fds, OtherOpens(f) PROVE IInv'
  BY <1>8 DEF OtherOpens, objVars
<1>9. ASSUME NEW f \in Fds, OtherCloses(f) PROVE IInv'
  BY <1>9 DEF OtherCloses, objVars
<1>10. CASE Work
  BY <1>10 DEF Work, Counting, objVars
<1>11. CASE UNCHANGED vars
  BY <1>11 DEF vars
<1> QED
  BY <1>1, <1>2, <1>3, <1>4, <1>5, <1>6, <1>7, <1>8, <1>9, <1>10, <1>11
  DEF Next

\* The members of every object and the descriptor table keep their types.
THEOREM Ownership == Spec => []IInv
<1> QED  BY InitInv, StepInv, PTL DEF Spec

\* Objects and open perf events always correspond one to one: nothing is closed
\* twice, used after its close, or leaked.
THEOREM ExclusiveOwnershipHolds == Spec => []ExclusiveOwnership
<1>1. IInv => ExclusiveOwnership
  BY DEF IInv, Own, ExclusiveOwnership
<1> QED  BY <1>1, Ownership, PTL

\* The flags of an object agree.
THEOREM FlagsAgreeHolds == Spec => []FlagsAgree
<1>1. IInv => FlagsAgree
  BY DEF IInv, Own
<1> QED  BY <1>1, Ownership, PTL

\* The objects never close what other code opened.
THEOREM ClosesOnlyOwnHolds == Spec => ClosesOnlyOwn
<1> DEFINE Keeps == \A f \in Fds : (table[f] = "other" /\ table'[f] # "other")
                                      => UNCHANGED objVars
<1>1. IInv /\ [Next]_vars => [Keeps]_vars
  <2> SUFFICES ASSUME IInv, Next, NEW f \in Fds,
                      table[f] = "other", table'[f] # "other"
               PROVE  UNCHANGED objVars
    OBVIOUS
  <2> USE NoFdAssumption DEF IInv, Own, TypeOK, HeldIsOpen
  <2>1. ASSUME NEW h \in Handles, Open(h) \/ Reopen(h) PROVE FALSE
    BY <2>1 DEF Open, Reopen, OpenFrom, Closed
  <2>2. ASSUME NEW h \in Handles, Destroy(h) PROVE FALSE
    BY <2>2 DEF Destroy, Closed
  <2> QED
    BY <2>1, <2>2 DEF Next, Construct, Begin, End, Move, OtherOpens,
                      OtherCloses, Work, kernelVars
<1>2. Spec => [][Keeps]_vars
  BY <1>1, Ownership, PTL DEF Spec
<1> QED  BY <1>2 DEF ClosesOnlyOwn

-----------------------------------------------------------------------------

\* The objects start as closed meters.
LEMMA MetersInit == Init => Abstract!Init
<1> SUFFICES ASSUME Init PROVE Abstract!Init
  OBVIOUS
<1>1. \A h \in Handles : MeterOf(h) = Abstract!Closed
  BY DEF Init, MeterOf, Retrieve, Abstract!Closed
<1> QED  BY <1>1 DEF Abstract!Init

\* An operation on one object shows in that object's meter only.
LEMMA OthersKeep ==
    ASSUME IInv, NEW h \in Handles, NEW g \in Handles, g # h,
           fd'[g] = fd[g], valid'[g] = valid[g],
           \A f \in Fds : fd[g] = f => on'[f] = on[f] /\ count'[f] = count[f]
    PROVE  MeterOf(g)' = MeterOf(g)
BY DEF IInv, Own, TypeOK, FlagsAgree, MeterOf, Retrieve

\* Every step of the objects is a step of the meters, or leaves them alone.
LEMMA MetersStep ==
    IInv /\ IInv' /\ [Next]_vars =>
        [Abstract!Next]_([h \in Handles |-> MeterOf(h)])
<1> SUFFICES ASSUME IInv, IInv', [Next]_vars
             PROVE  [Abstract!Next]_([h \in Handles |-> MeterOf(h)])
  OBVIOUS
<1> DEFINE M == [h \in Handles |-> MeterOf(h)]
<1> USE NoFdAssumption
<1>s. ASSUME \A h \in Handles : MeterOf(h)' = MeterOf(h)
      PROVE  M' = M
  BY <1>s
<1>o. ASSUME NEW h \in Handles, NEW m, MeterOf(h)' = m,
             \A g \in Handles : g # h => MeterOf(g)' = MeterOf(g)
      PROVE  M' = [M EXCEPT ![h] = m]
  BY <1>o
<1>1. ASSUME NEW h \in Handles, Construct(h) PROVE M' = M
  BY <1>1 DEF Construct, kernelVars, MeterOf, Retrieve, IInv, Own, TypeOK,
              FlagsAgree, DeadHoldsNone
<1>2. ASSUME NEW h \in Handles, Open(h) \/ Reopen(h)
      PROVE  \E k \in Handles : Abstract!Open(k)
  <2>1. PICK t : OpenFrom(h, t)
    BY <1>2 DEF Open, Reopen
  <2>2. ASSUME NEW g \in Handles, g # h PROVE MeterOf(g)' = MeterOf(g)
    <3>1. fd'[g] = fd[g] /\ valid'[g] = valid[g]
      BY <2>1, <2>2 DEF OpenFrom, IInv, TypeOK
    <3>2. \A f \in Fds : fd[g] = f => on'[f] = on[f] /\ count'[f] = count[f]
      <4> SUFFICES ASSUME NEW f \in Fds, fd[g] = f
                   PROVE  on'[f] = on[f] /\ count'[f] = count[f]
        OBVIOUS
      <4>1. fd'[h] # f
        BY <3>1, <2>2 DEF IInv, Own, NoAlias
      <4> QED  BY <2>1, <4>1 DEF OpenFrom, IInv, TypeOK
    <3> QED  BY <2>2, <3>1, <3>2, OthersKeep
  <2>3. MeterOf(h)' = Abstract!Fresh \/ MeterOf(h)' = Abstract!Closed
    <3>1. CASE valid'[h] /\ fd'[h] \in Fds /\ on'[fd'[h]] = FALSE
               /\ count'[fd'[h]] = 0
      BY <3>1 DEF MeterOf, Retrieve, Abstract!Fresh
    <3>2. CASE valid'[h] = FALSE
      BY <3>2 DEF MeterOf, Retrieve, Abstract!Closed
    <3>3. ASSUME NEW f \in Fds, on' = [on EXCEPT ![f] = FALSE],
                 count' = [count EXCEPT ![f] = 0],
                 fd' = [fd EXCEPT ![h] = f], valid' = [valid EXCEPT ![h] = TRUE]
          PROVE  valid'[h] /\ fd'[h] \in Fds /\ on'[fd'[h]] = FALSE
                 /\ count'[fd'[h]] = 0
      BY <3>3 DEF IInv, TypeOK
    <3>4. valid' = [valid EXCEPT ![h] = FALSE] => valid'[h] = FALSE
      BY DEF IInv, TypeOK
    <3> QED  BY <2>1, <3>1, <3>2, <3>3, <3>4 DEF OpenFrom
  <2>4. CASE MeterOf(h)' = Abstract!Fresh
    BY <1>o, <2>2, <2>4 DEF Abstract!Open, Abstract!Set
  <2>5. CASE MeterOf(h)' = Abstract!Closed
    BY <1>o, <2>2, <2>5 DEF Abstract!Open, Abstract!Set
  <2> QED  BY <2>3, <2>4, <2>5
<1>3. ASSUME NEW h \in Handles, Begin(h) PROVE Abstract!Begin(h)
  <2>1. ASSUME NEW g \in Handles, g # h PROVE MeterOf(g)' = MeterOf(g)
    <3>1. fd[g] # fd[h] \/ fd[g] = NoFd
      BY <2>1 DEF IInv, Own, NoAlias
    <3>2. fd'[g] = fd[g] /\ valid'[g] = valid[g]
      BY <1>3 DEF Begin, objVars
    <3>3. \A f \in Fds : fd[g] = f => on'[f] = on[f] /\ count'[f] = count[f]
      BY <1>3, <3>1 DEF Begin, IInv, TypeOK
    <3> QED  BY <2>1, <3>2, <3>3, OthersKeep
  <2>2. fd[h] \in Fds /\ valid[h]
    BY <1>3 DEF Begin, IInv, Own, TypeOK, FlagsAgree
  <2>3. MeterOf(h)' = [open |-> TRUE, on |-> TRUE, n |-> 0]
    BY <1>3, <2>2 DEF Begin, objVars, MeterOf, Retrieve, IInv, TypeOK
  <2>4. M[h].open
    BY <2>2 DEF MeterOf
  <2> QED  BY <1>o, <2>1, <2>3, <2>4 DEF Abstract!Begin, Abstract!Set
<1>4. ASSUME NEW h \in Handles, End(h) PROVE Abstract!End(h)
  <2>1. ASSUME NEW g \in Handles, g # h PROVE MeterOf(g)' = MeterOf(g)
    <3>1. fd[g] # fd[h] \/ fd[g] = NoFd
      BY <2>1 DEF IInv, Own, NoAlias
    <3>2. fd'[g] = fd[g] /\ valid'[g] = valid[g]
      BY <1>4 DEF End, objVars
    <3>3. \A f \in Fds : fd[g] = f => on'[f] = on[f] /\ count'[f] = count[f]
      BY <1>4, <3>1 DEF End, IInv, TypeOK
    <3> QED  BY <2>1, <3>2, <3>3, OthersKeep
  <2>2. fd[h] \in Fds /\ valid[h]
    BY <1>4 DEF End, IInv, Own, TypeOK, FlagsAgree
  <2>3. MeterOf(h)' = [open |-> TRUE, on |-> FALSE, n |-> MeterOf(h).n]
    BY <1>4, <2>2 DEF End, objVars, MeterOf, Retrieve, IInv, TypeOK
  <2>4. M[h] = MeterOf(h) /\ M[h].open
    BY <2>2 DEF MeterOf
  <2>5. M' = [M EXCEPT ![h] = [open |-> TRUE, on |-> FALSE, n |-> M[h].n]]
    BY <1>o, <2>1, <2>3, <2>4
  <2> QED  BY <2>4, <2>5 DEF Abstract!End, Abstract!Set
<1>5. ASSUME NEW h \in Handles, Destroy(h)
      PROVE  M' = [M EXCEPT ![h] = Abstract!Closed]
  <2>1. ASSUME NEW g \in Handles, g # h PROVE MeterOf(g)' = MeterOf(g)
    BY <1>5, <2>1, OthersKeep DEF Destroy, IInv, TypeOK
  <2>2. MeterOf(h)' = Abstract!Closed
    BY <1>5 DEF Destroy, MeterOf, Retrieve, Abstract!Closed, IInv, TypeOK
  <2> QED  BY <1>o, <2>1, <2>2
<1>6. ASSUME NEW g \in Handles, NEW h \in Handles, Move(g, h)
      PROVE  Abstract!Move(g, h)
  <2>1. g # h
    BY <1>6 DEF Move
  <2>2. ASSUME NEW k \in Handles, k # g, k # h PROVE MeterOf(k)' = MeterOf(k)
    BY <1>6, <2>2, OthersKeep DEF Move, kernelVars, IInv, TypeOK
  <2>3. MeterOf(h)' = MeterOf(g)
    BY <1>6, <2>1 DEF Move, kernelVars, MeterOf, Retrieve, IInv, TypeOK
  <2>4. MeterOf(g)' = Abstract!Closed
    BY <1>6, <2>1 DEF Move, kernelVars, MeterOf, Retrieve, Abstract!Closed,
                      IInv, TypeOK
  <2>5. M' = [M EXCEPT ![h] = M[g], ![g] = Abstract!Closed]
    BY <2>1, <2>2, <2>3, <2>4
  <2> QED  BY <2>1, <2>5 DEF Abstract!Move
<1>7. ASSUME NEW f \in Fds, OtherOpens(f) \/ OtherCloses(f) PROVE M' = M
  BY <1>7 DEF OtherOpens, OtherCloses, objVars, MeterOf, Retrieve
<1>8. ASSUME Work PROVE Abstract!Tally
  <2>1. ASSUME NEW h \in Handles
        PROVE  MeterOf(h)' = IF M[h].on THEN [M[h] EXCEPT !.n = @ + 1]
                             ELSE M[h]
    <3>1. M[h] = MeterOf(h)
      OBVIOUS
    <3>2. CASE valid[h]
      <4>1. fd[h] \in Fds /\ table[fd[h]] = "perf"
        BY <3>2 DEF IInv, Own, TypeOK, FlagsAgree, HeldIsOpen
      <4> QED
        BY <1>8, <3>1, <3>2, <4>1 DEF Work, Counting, objVars, MeterOf,
           Retrieve, IInv, TypeOK
    <3>3. CASE ~valid[h]
      BY <1>8, <3>1, <3>3 DEF Work, objVars, MeterOf, Retrieve, IInv, TypeOK
    <3> QED  BY <3>2, <3>3
  <2> QED  BY <2>1 DEF Abstract!Tally
<1>9. ASSUME UNCHANGED vars PROVE M' = M
  BY <1>9 DEF vars, MeterOf, Retrieve
<1> QED
  <2>1. ASSUME NEW h \in Handles, Destroy(h) PROVE Abstract!Open(h)
    BY <1>5, <2>1 DEF Abstract!Open, Abstract!Set
  <2> HIDE DEF M
  <2>2. Abstract!Next \/ M' = M
    BY <1>1, <1>2, <1>3, <1>4, <1>6, <1>7, <1>8, <1>9, <2>1
    DEF Next, Abstract!Next
  <2> QED  BY <2>2 DEF M

\* The objects are independent meters.
THEOREM MetersHold == Spec => IsMeters
<1>1. Spec => Abstract!Spec
  BY MetersInit, MetersStep, Ownership, PTL DEF Spec, Abstract!Spec
<1> QED  BY <1>1 DEF IsMeters
=============================================================================
