------------------------------ MODULE SessionProof ------------------------------
(***************************************************************************)
(* What main reports, for every command line: the invariant of the runs    *)
(* and of the lines written, and from it, with the invariants of the       *)
(* command line, the properties of Session.                                *)
(***************************************************************************)
EXTENDS Session, CommandLineProof, FiniteSetTheorems

Run == [name : Words, time : Times]
Before == {"argv", "usage", "sink", "list", "parsed"}
Stages == {"argv", "sink", "list", "parsed", "measure", "report", "topdown",
           "dynamic"} \cup Final

Paths == Len(opts.paths)

\* The runs of binary k as they were measured.
RunsOf(k) ==
    [j \in 1..Len(seen[k]) |-> [name |-> opts.paths[k], time |-> seen[k][j]]]

\* The binaries before m were run as often as asked, the m-th c times.
Counted(m, c) ==
    /\ seen \in [1..Paths -> Seq(Times)]
    /\ \A k \in 1..Paths :
          Len(seen[k]) = IF k < m THEN opts.n ELSE IF k = m THEN c ELSE 0

RunTypes ==
    /\ pc \in Stages /\ i \in Nat \ {0}
    /\ r \in 1..(opts.n + 1)
    /\ runs \in Seq(Run) /\ all \in Seq(Seq(Run))
    /\ last = NoRun \/ (last.name \in Words /\ last.time \in Times
                        /\ last.refused \subseteq DOMAIN events)
    /\ usable \in BOOLEAN
    /\ seen \in Seq(Seq(Times)) /\ denied \in Seq(SUBSET Nat)

\* Nothing has been run.
Untouched ==
    /\ runs = <<>> /\ all = <<>> /\ last = NoRun /\ r = 1 /\ out = <<>>
    /\ seen = IF pc \in {"list", "parsed"} THEN [k \in 1..Paths |-> <<>>] ELSE <<>>
    /\ denied = IF pc \in {"list", "parsed"} THEN [k \in 1..Paths |-> {}] ELSE <<>>

\* The binaries are run one after the other.
Measuring ==
    /\ opts.csv = NoWord /\ out = <<>> /\ last = NoRun
    /\ i \in 1..(Paths + 1) /\ (i = Paths + 1 => r = 1)
    /\ Counted(i, r - 1)
    /\ runs = IF i <= Paths THEN RunsOf(i) ELSE <<>>
    /\ all = [k \in 1..(i - 1) |-> RunsOf(k)]

\* A permutation of what was measured, fastest first.
Total(v) == Sum(TimesOf(v))
Permutes(place, n) ==
    /\ place \in [1..n -> 1..n]
    /\ \A k, m \in 1..n : place[k] = place[m] => k = m
    /\ \A m \in 1..n : \E k \in 1..n : place[k] = m
Ranked ==
    /\ all \in [1..Paths -> Seq(Run)]
    /\ \E place : /\ Permutes(place, Paths)
                  /\ \A k \in 1..Paths : all[place[k]] = RunsOf(k)
    /\ \A k, m \in 1..Paths : k < m => Total(all[k]) <= Total(all[m])

Reporting ==
    /\ opts.csv = NoWord /\ last = NoRun /\ r = 1 /\ runs = <<>>
    /\ Counted(Paths + 1, 0) /\ Ranked
    /\ i \in 1..(Paths + 1)
    /\ pc = "topdown" => i \in 1..Paths /\ opts.topdown /\ ~Separated
    /\ pc = "exit0" => i = Paths + 1

\* With -e they are run and reported one after the other.
Dynamically ==
    /\ opts.csv # NoWord /\ runs = <<>> /\ all = <<>>
    /\ i \in 1..(Paths + 1) /\ (i = Paths + 1 => r = 1)
    /\ pc = "exit0" => i = Paths + 1
    /\ Counted(i, r - 1)
    /\ denied \in [1..Paths -> SUBSET Nat]
    /\ IF r = 1 THEN last = NoRun
       ELSE /\ last.name = opts.paths[i] /\ last.time = seen[i][r - 1]
            /\ last.refused = denied[i]

FlowInv ==
    /\ RunTypes
    /\ pc \in Before => Untouched
    /\ pc = "measure" => Measuring
    /\ pc \in {"report", "topdown"} => Reporting
    /\ pc = "dynamic" => Dynamically
    /\ pc = "exit0" => IF opts.csv = NoWord THEN Reporting ELSE Dynamically
    /\ AllOrNothing


-----------------------------------------------------------------------------
(* The runs *)

LEMMA OptionsAre ==
    ASSUME ParseInv
    PROVE  /\ opts \in OptionsType /\ opts.n \in Nat /\ opts.n >= 1
           /\ opts.paths \in Seq(Words) /\ Paths \in Nat
           /\ DOMAIN opts.paths = 1..Paths
           /\ \A k \in 1..Paths : opts.paths[k] \in Words
<1>1. opts \in OptionsType /\ opts.n >= 1
  BY DEF ParseInv
<1>2. opts.n \in Int /\ opts.paths \in Seq(Words)
  BY <1>1 DEF OptionsType
<1> QED BY <1>1, <1>2 DEF Paths

\* The runs of a binary keep their times.
LEMMA RunsAre ==
    ASSUME ParseInv, seen \in [1..Paths -> Seq(Times)], NEW k \in 1..Paths
    PROVE  /\ RunsOf(k) \in Seq(Run) /\ Len(RunsOf(k)) = Len(seen[k])
           /\ \A j \in 1..Len(seen[k]) : /\ RunsOf(k)[j].name = opts.paths[k]
                                         /\ RunsOf(k)[j].time = seen[k][j]
<1>1. opts.paths[k] \in Words
  BY OptionsAre
<1>2. seen[k] \in Seq(Times) /\ Len(seen[k]) \in Nat
  OBVIOUS
<1>3. \A j \in 1..Len(seen[k]) : seen[k][j] \in Times
  BY <1>2
<1>4. RunsOf(k) \in [1..Len(seen[k]) -> Run]
  BY <1>1, <1>3 DEF RunsOf, Run
<1>5. RunsOf(k) \in Seq(Run) /\ Len(RunsOf(k)) = Len(seen[k])
  BY <1>2, <1>4, SequenceOf
<1> QED BY <1>5 DEF RunsOf

LEMMA FlowInit == Init => FlowInv
<1> SUFFICES ASSUME Init PROVE FlowInv
  OBVIOUS
<1>1. /\ pc = "argv" /\ i = 1 /\ r = 1 /\ runs = <<>> /\ all = <<>>
      /\ last = NoRun /\ usable = FALSE /\ out = <<>> /\ seen = <<>>
      /\ denied = <<>> /\ opts = Defaults
  BY DEF Init, ParseInit
<1>2. opts.n = 1
  BY <1>1 DEF Defaults
<1>3. RunTypes
  <2>1. pc \in Stages /\ i \in Nat \ {0} /\ r \in 1..(opts.n + 1)
    BY <1>1, <1>2 DEF Stages
  <2>2. runs \in Seq(Run) /\ all \in Seq(Seq(Run)) /\ seen \in Seq(Seq(Times))
        /\ denied \in Seq(SUBSET Nat)
    BY <1>1
  <2> QED BY <1>1, <2>1, <2>2 DEF RunTypes
<1>4. Untouched
  BY <1>1 DEF Untouched
<1>5. AllOrNothing
  BY <1>1 DEF AllOrNothing
<1> QED BY <1>1, <1>3, <1>4, <1>5 DEF FlowInv

\* The parser does not run anything.
LEMMA FlowParse ==
    ASSUME ParseInv, ParseInv', FlowInv, Parse
    PROVE  FlowInv'
<1>1. UNCHANGED <<r, runs, all, last, seen, denied, usable, out>>
  BY DEF Parse, runVars
<1>2. /\ pc \in {"argv", "list"}
      /\ pc' \in {"argv", "usage", "sink", "list", "parsed"}
      /\ pc = "list" <=> pc' \in {"list", "parsed"}
  BY DEF Parse, ParseStep, TakeSwitch, TakeNumber, TakeWord, TakePath, Refuse,
         Accept, ListName, ListDone, At
<1>3. Untouched
  BY <1>2 DEF FlowInv, Before
<1>4. pc = "list" => opts' = opts
  BY DEF Parse, ParseStep, TakeSwitch, TakeNumber, TakeWord, TakePath, Refuse,
         Accept, ListName, ListDone, At
<1>5. Untouched'
  BY <1>1, <1>2, <1>3, <1>4 DEF Untouched, Paths
<1>6. i' \in Nat \ {0}
  <2>1. i \in Nat \ {0}
    BY DEF FlowInv, RunTypes
  <2> QED BY <2>1 DEF Parse, ParseStep, TakeSwitch, TakeNumber, TakeWord, TakePath,
                      Refuse, Accept, ListName, ListDone, At
<1>7. r' \in 1..(opts'.n + 1) /\ last' = NoRun
  <2>1. opts'.n \in Int /\ opts'.n >= 1
    BY DEF ParseInv, OptionsType
  <2>2. r' = 1 /\ last' = NoRun
    BY <1>1, <1>3 DEF Untouched
  <2> QED BY <2>1, <2>2
<1>8. RunTypes'
  <2>1. pc' \in Stages
    BY <1>2 DEF Stages, Final
  <2>2. runs' \in Seq(Run) /\ all' \in Seq(Seq(Run)) /\ usable' \in BOOLEAN
        /\ seen' \in Seq(Seq(Times)) /\ denied' \in Seq(SUBSET Nat)
    BY <1>1 DEF FlowInv, RunTypes
  <2> QED BY <1>6, <1>7, <2>1, <2>2 DEF RunTypes
<1>9. AllOrNothing'
  BY <1>5 DEF AllOrNothing, Untouched
<1> QED BY <1>2, <1>5, <1>8, <1>9 DEF FlowInv

LEMMA FlowSink ==
    ASSUME ParseInv, FlowInv, OpenSink
    PROVE  FlowInv'
<1>1. /\ UNCHANGED <<i, opts, r, runs, all, last, out, events>>
      /\ pc = "sink" /\ pc' \in {"list", "parsed"} /\ usable' \in BOOLEAN
      /\ seen' = [k \in DOMAIN opts.paths |-> <<>>]
      /\ denied' = [k \in DOMAIN opts.paths |-> {}]
  BY DEF OpenSink, Goto, setupVars
<1>2. Untouched
  BY <1>1 DEF FlowInv, Before
<1>3. Paths \in Nat /\ DOMAIN opts.paths = 1..Paths
  BY OptionsAre
<1>4. Untouched'
  BY <1>1, <1>2, <1>3 DEF Untouched, Paths
<1>5. seen' \in [1..Paths -> Seq(Times)]
  BY <1>1, <1>3
<1>6. seen' \in Seq(Seq(Times)) /\ denied' \in Seq(SUBSET Nat)
  <2>1. denied' \in [1..Paths -> SUBSET Nat]
    BY <1>1, <1>3
  <2> QED BY <1>3, <1>5, <2>1, SequenceOf
<1>7. RunTypes'
  <2>1. pc' \in Stages
    BY <1>1 DEF Stages
  <2> QED BY <1>1, <1>6, <2>1 DEF FlowInv, RunTypes
<1>8. AllOrNothing'
  BY <1>4 DEF AllOrNothing, Untouched
<1> QED BY <1>1, <1>4, <1>7, <1>8 DEF FlowInv

LEMMA FlowAttributed ==
    ASSUME ParseInv, FlowInv, Attributed
    PROVE  FlowInv'
<1>1. /\ UNCHANGED <<opts, events, r, runs, all, last, seen, denied, usable, out>>
      /\ pc = "parsed" /\ pc' = RunLoop /\ i' = 1
  BY DEF Attributed, Configure, At, runVars
<1>2. Untouched
  BY <1>1 DEF FlowInv, Before
<1>3. Paths \in Nat /\ opts.n >= 1 /\ opts.n \in Nat
  BY OptionsAre
<1>4. seen = [k \in 1..Paths |-> <<>>] /\ r = 1 /\ runs = <<>> /\ all = <<>>
      /\ last = NoRun /\ out = <<>> /\ denied = [k \in 1..Paths |-> {}]
  BY <1>1, <1>2 DEF Untouched
<1>5. Counted(1, 0)
  BY <1>3, <1>4 DEF Counted
<1>6. Counted(i, r - 1)'
  BY <1>1, <1>4, <1>5 DEF Counted, Paths
<1>7. RunTypes'
  <2>1. pc' \in Stages
    BY <1>1 DEF Stages, RunLoop
  <2> QED BY <1>1, <2>1 DEF FlowInv, RunTypes
<1>8. AllOrNothing'
  BY <1>1, <1>4 DEF AllOrNothing
<1>9. i' \in 1..(Paths' + 1) /\ Paths' = Paths
  BY <1>1, <1>3 DEF Paths
<1>10. CASE opts.csv = NoWord
  <2>1. pc' = "measure"
    BY <1>1, <1>10 DEF RunLoop
  <2>2. runs' = IF i' <= Paths' THEN RunsOf(i)' ELSE <<>>
    <3>1. CASE Paths = 0
      BY <3>1, <1>1, <1>4, <1>9
    <3>2. CASE Paths # 0
      <4>1. 1 \in 1..Paths /\ i' = 1
        BY <3>2, <1>1, <1>3
      <4>2. seen'[1] = <<>>
        BY <4>1, <1>1, <1>4
      <4>3. RunsOf(i)' = <<>>
        BY <4>1, <4>2 DEF RunsOf
      <4> QED BY <4>3, <1>1, <1>4
    <3> QED BY <3>1, <3>2
  <2>3. all' = [k \in 1..(i' - 1) |-> RunsOf(k)']
    BY <1>1, <1>4
  <2>4. Measuring'
    BY <1>1, <1>4, <1>6, <1>9, <1>10, <2>2, <2>3 DEF Measuring
  <2> QED BY <2>1, <2>4, <1>7, <1>8 DEF FlowInv, Before
<1>11. CASE opts.csv # NoWord
  <2>1. pc' = "dynamic"
    BY <1>1, <1>11 DEF RunLoop
  <2>2. Dynamically'
    BY <1>1, <1>4, <1>6, <1>9, <1>11, <2>1 DEF Dynamically
  <2> QED BY <2>1, <2>2, <1>7, <1>8 DEF FlowInv, Before
<1> QED BY <1>10, <1>11

\* Another run of binary i adds its time.
LEMMA SeenGrows ==
    ASSUME ParseInv, i \in 1..Paths, Counted(i, r - 1), r \in 1..opts.n,
           NEW t \in Times, seen' = [seen EXCEPT ![i] = Append(@, t)],
           r' = r + 1, UNCHANGED <<i, opts>>
    PROVE  /\ Counted(i, r - 1)' /\ seen' \in Seq(Seq(Times))
           /\ seen'[i] = Append(seen[i], t) /\ Len(seen[i]) = r - 1
           /\ \A k \in 1..Paths : k # i => seen'[k] = seen[k]
<1>1. Paths \in Nat /\ Paths' = Paths /\ opts.n \in Nat
  BY OptionsAre DEF Paths
<1>2. seen \in [1..Paths -> Seq(Times)] /\ Len(seen[i]) = r - 1
  BY DEF Counted
<1>3. /\ seen'[i] = Append(seen[i], t)
      /\ \A k \in 1..Paths : k # i => seen'[k] = seen[k]
  BY <1>2
<1>4. Append(seen[i], t) \in Seq(Times) /\ Len(Append(seen[i], t)) = r
  <2>1. seen[i] \in Seq(Times)
    BY <1>2
  <2> QED BY <1>2, <2>1
<1>5. seen' \in [1..Paths -> Seq(Times)]
  BY <1>2, <1>4
<1>6. \A k \in 1..Paths :
         Len(seen'[k]) = IF k < i THEN opts.n ELSE IF k = i THEN r ELSE 0
  BY <1>1, <1>3, <1>4 DEF Counted
<1>7. r' - 1 = r
  OBVIOUS
<1>8. Counted(i, r - 1)'
  BY <1>1, <1>5, <1>6, <1>7 DEF Counted
<1>9. seen' \in Seq(Seq(Times))
  BY <1>1, <1>5, SequenceOf
<1> QED BY <1>2, <1>3, <1>8, <1>9

LEMMA FlowMeasure ==
    ASSUME ParseInv, FlowInv, Measure
    PROVE  FlowInv'
<1>1. /\ pc = "measure"
      /\ UNCHANGED <<pc, i, opts, events, all, last, usable, out, denied>>
      /\ i <= Paths /\ r <= opts.n /\ r' = r + 1
  BY DEF Measure, RunDue, setupVars, Paths
<1>2. PICK t \in Times : /\ runs' = Append(runs, [name |-> opts.paths[i], time |-> t])
                         /\ seen' = [seen EXCEPT ![i] = Append(@, t)]
  BY DEF Measure
<1>3. Measuring /\ RunTypes
  BY <1>1 DEF FlowInv
<1>4. i \in 1..Paths /\ r \in 1..opts.n /\ Counted(i, r - 1) /\ runs = RunsOf(i)
      /\ Paths \in Nat /\ opts.n \in Nat /\ Paths' = Paths
  BY <1>1, <1>3, OptionsAre DEF Measuring, RunTypes, Paths
<1>5. /\ Counted(i, r - 1)' /\ seen' \in Seq(Seq(Times))
      /\ seen'[i] = Append(seen[i], t) /\ Len(seen[i]) = r - 1
      /\ \A k \in 1..Paths : k # i => seen'[k] = seen[k]
  BY <1>1, <1>2, <1>4, SeenGrows
<1>6. seen[i] \in Seq(Times) /\ opts.paths[i] \in Words
  BY <1>4, OptionsAre DEF Counted
<1>7. runs' = RunsOf(i)'
  <2> DEFINE s == seen[i]
             f == [j \in 1..Len(s) |-> [name |-> opts.paths[i], time |-> s[j]]]
  <2>1. runs = f
    BY <1>4 DEF RunsOf
  <2>2. s \in Seq(Times) /\ Len(s) \in Nat
    BY <1>6
  <2> HIDE DEF s
  <2>3. Append(f, [name |-> opts.paths[i], time |-> t])
           = [j \in 1..Len(Append(s, t)) |->
                 [name |-> opts.paths[i], time |-> Append(s, t)[j]]]
    BY <2>2
  <2>4. RunsOf(i)' = [j \in 1..Len(Append(s, t)) |->
                 [name |-> opts.paths[i], time |-> Append(s, t)[j]]]
    BY <1>1, <1>5 DEF RunsOf, s
  <2> QED BY <1>2, <2>1, <2>3, <2>4
<1>8. runs' \in Seq(Run)
  <2>1. [name |-> opts.paths[i], time |-> t] \in Run
    BY <1>6 DEF Run
  <2> QED BY <2>1, <1>2, <1>3 DEF RunTypes
<1>9. all' = [k \in 1..(i' - 1) |-> RunsOf(k)']
  <2>1. \A k \in 1..(i - 1) : RunsOf(k)' = RunsOf(k)
    BY <1>1, <1>4, <1>5 DEF RunsOf
  <2> QED BY <1>1, <1>3, <2>1 DEF Measuring
<1>10. RunTypes'
  <2>1. r' \in 1..(opts'.n + 1)
    BY <1>1, <1>4
  <2> QED BY <1>1, <1>3, <1>5, <1>8, <2>1 DEF RunTypes
<1>11. Measuring'
  BY <1>1, <1>3, <1>4, <1>5, <1>7, <1>9 DEF Measuring
<1>12. AllOrNothing'
  BY <1>11 DEF AllOrNothing, Measuring
<1> QED BY <1>1, <1>10, <1>11, <1>12 DEF FlowInv, Before

\* A binary with all its runs makes room for the next.
LEMMA CountedOn ==
    ASSUME ParseInv, i \in 1..Paths, Counted(i, opts.n)
    PROVE  Counted(i + 1, 0)
<1>1. Paths \in Nat /\ opts.n \in Nat
  BY OptionsAre
<1> QED BY <1>1 DEF Counted

LEMMA FlowNextBinary ==
    ASSUME ParseInv, FlowInv, NextBinary
    PROVE  FlowInv'
<1>1. /\ pc = "measure"
      /\ UNCHANGED <<pc, opts, events, last, usable, out, seen, denied>>
      /\ i <= Paths /\ r > opts.n /\ all' = Append(all, runs) /\ runs' = <<>>
      /\ i' = i + 1 /\ r' = 1
  BY DEF NextBinary, setupVars, Paths
<1>2. Measuring /\ RunTypes
  BY <1>1 DEF FlowInv
<1>3. i \in 1..Paths /\ r - 1 = opts.n /\ Counted(i, opts.n) /\ runs = RunsOf(i)
      /\ Paths \in Nat /\ opts.n \in Nat /\ Paths' = Paths
  <2>1. Paths \in Nat /\ opts.n \in Nat /\ Paths' = Paths
    BY <1>1, OptionsAre DEF Paths
  <2>2. i \in 1..Paths /\ r - 1 = opts.n
    BY <1>1, <1>2, <2>1 DEF Measuring, RunTypes
  <2> QED BY <1>2, <2>1, <2>2 DEF Measuring
<1>4. Counted(i + 1, 0)
  BY <1>3, CountedOn
<1>5. Counted(i, r - 1)'
  BY <1>1, <1>3, <1>4 DEF Counted
<1>6. \A k : RunsOf(k)' = RunsOf(k)
  BY <1>1 DEF RunsOf
<1>7. all' = [k \in 1..(i' - 1) |-> RunsOf(k)']
  <2>1. all = [k \in 1..(i - 1) |-> RunsOf(k)]
    BY <1>2 DEF Measuring
  <2>2. all \in Seq(Seq(Run)) /\ Len(all) = i - 1
    BY <1>2, <1>3, <2>1 DEF RunTypes
  <2>3. Append(all, RunsOf(i)) = [k \in 1..i |-> RunsOf(k)]
    BY <1>3, <2>1, <2>2
  <2> QED BY <1>1, <1>3, <1>6, <2>3
<1>8. all' \in Seq(Seq(Run))
  BY <1>1, <1>2 DEF RunTypes
<1>9. runs' = IF i' <= Paths' THEN RunsOf(i)' ELSE <<>>
  <2>1. CASE i + 1 <= Paths
    <3>1. i + 1 \in 1..Paths
      BY <1>3, <2>1
    <3>2. seen[i + 1] \in Seq(Times) /\ Len(seen[i + 1]) = 0
      BY <1>3, <1>4, <3>1 DEF Counted
    <3>3. RunsOf(i + 1) = <<>>
      BY <3>2 DEF RunsOf
    <3>4. RunsOf(i)' = RunsOf(i + 1)
      BY <1>1 DEF RunsOf
    <3> QED BY <1>1, <3>3, <3>4
  <2>2. CASE ~(i + 1 <= Paths)
    BY <1>1, <1>3, <2>2
  <2> QED BY <2>1, <2>2
<1>10. RunTypes'
  <2>1. r' \in 1..(opts'.n + 1) /\ i' \in Nat \ {0} /\ runs' \in Seq(Run)
    BY <1>1, <1>3
  <2> QED BY <1>1, <1>2, <1>8, <2>1 DEF RunTypes
<1>11. Measuring'
  <2>1. i' \in 1..(Paths' + 1)
    BY <1>1, <1>3
  <2> QED BY <1>1, <1>2, <1>5, <1>7, <1>9, <2>1 DEF Measuring
<1>12. AllOrNothing'
  BY <1>11 DEF AllOrNothing, Measuring
<1> QED BY <1>1, <1>10, <1>11, <1>12 DEF FlowInv, Before

LEMMA FlowMeasureEvents ==
    ASSUME ParseInv, ListInv, FlowInv, MeasureEvents
    PROVE  FlowInv'
<1>1. /\ pc = "dynamic" /\ UNCHANGED <<pc, i, opts, events, runs, all, usable, out>>
      /\ i <= Paths /\ r <= opts.n /\ r' = r + 1
  BY DEF MeasureEvents, RunDue, setupVars, Paths
<1>2. PICK t \in Times, refused \in SUBSET DOMAIN events :
         /\ last' = [name |-> opts.paths[i], time |-> t, refused |-> refused]
         /\ seen' = [seen EXCEPT ![i] = Append(@, t)]
         /\ denied' = [denied EXCEPT ![i] = refused]
  BY DEF MeasureEvents
<1>3. Dynamically /\ RunTypes
  BY <1>1 DEF FlowInv
<1>4. i \in 1..Paths /\ r \in 1..opts.n /\ Counted(i, r - 1)
      /\ Paths \in Nat /\ opts.n \in Nat /\ Paths' = Paths
  BY <1>1, <1>3, OptionsAre DEF Dynamically, RunTypes, Paths
<1>5. /\ Counted(i, r - 1)' /\ seen' \in Seq(Seq(Times))
      /\ seen'[i] = Append(seen[i], t) /\ Len(seen[i]) = r - 1
  BY <1>1, <1>2, <1>4, SeenGrows
<1>6. seen[i] \in Seq(Times) /\ opts.paths[i] \in Words
  BY <1>4, OptionsAre DEF Counted
<1>7. /\ last'.name = opts'.paths[i'] /\ last'.name \in Words
      /\ last'.time = t /\ last'.refused \subseteq DOMAIN events'
  BY <1>1, <1>2, <1>6
<1>8. last'.time = seen'[i'][r' - 1]
  <2>1. Append(seen[i], t)[r] = t
    BY <1>4, <1>5, <1>6
  <2>2. r' - 1 = r
    BY <1>1, <1>4
  <2> QED BY <1>1, <1>5, <1>7, <2>1, <2>2
<1>9. /\ denied' \in [1..Paths -> SUBSET Nat] /\ denied' \in Seq(SUBSET Nat)
      /\ last'.refused = denied'[i]
  <2>1. refused \in SUBSET Nat
    BY DEF ListInv
  <2>2. denied \in [1..Paths -> SUBSET Nat]
    BY <1>3 DEF Dynamically
  <2>3. denied' \in [1..Paths -> SUBSET Nat] /\ denied'[i] = refused
    BY <1>2, <1>4, <2>1, <2>2
  <2>4. denied' \in Seq(SUBSET Nat)
    BY <1>4, <2>3, SequenceOf
  <2> QED BY <1>2, <2>3, <2>4
<1>10. RunTypes'
  <2>1. r' \in 1..(opts'.n + 1)
    BY <1>1, <1>4
  <2> QED BY <1>1, <1>3, <1>5, <1>7, <1>9, <2>1 DEF RunTypes
<1>11. Dynamically'
  <2>1. r' # 1 /\ (i' = Paths' + 1 => r' = 1)
    BY <1>1, <1>4
  <2> QED BY <1>1, <1>3, <1>4, <1>5, <1>7, <1>8, <1>9, <2>1 DEF Dynamically
<1>12. AllOrNothing'
  BY <1>11 DEF AllOrNothing, Dynamically
<1> QED BY <1>1, <1>10, <1>11, <1>12 DEF FlowInv, Before

LEMMA FlowReportEvents ==
    ASSUME ParseInv, FlowInv, ReportEvents
    PROVE  FlowInv'
<1>1. /\ pc = "dynamic" /\ UNCHANGED <<pc, opts, events, runs, all, usable, seen,
                                     denied>>
      /\ i <= Paths /\ r > opts.n /\ last' = NoRun /\ i' = i + 1 /\ r' = 1
  BY DEF ReportEvents, setupVars, Paths
<1>2. Dynamically /\ RunTypes
  BY <1>1 DEF FlowInv
<1>3. i \in 1..Paths /\ r - 1 = opts.n /\ Counted(i, opts.n)
      /\ Paths \in Nat /\ opts.n \in Nat /\ Paths' = Paths
  <2>1. Paths \in Nat /\ opts.n \in Nat /\ Paths' = Paths
    BY <1>1, OptionsAre DEF Paths
  <2>2. i \in 1..(Paths + 1) /\ Counted(i, r - 1) /\ r \in 1..(opts.n + 1)
    BY <1>2 DEF Dynamically, RunTypes
  <2>3. r - 1 = opts.n
    BY <1>1, <2>1, <2>2
  <2> QED BY <1>1, <2>1, <2>2, <2>3
<1>4. Counted(i + 1, 0)
  BY <1>3, CountedOn
<1>5. Counted(i, r - 1)'
  BY <1>1, <1>3, <1>4 DEF Counted
<1>6. i' \in 1..(Paths' + 1) /\ r' \in 1..(opts'.n + 1) /\ i' \in Nat \ {0}
  BY <1>1, <1>3
<1>7. RunTypes'
  BY <1>1, <1>2, <1>6 DEF RunTypes
<1>8. Dynamically'
  <2>1. pc' = "dynamic" /\ denied' \in [1..Paths' -> SUBSET Nat]
    BY <1>1, <1>2, <1>3 DEF Dynamically
  <2> QED BY <1>1, <1>2, <1>5, <1>6, <2>1 DEF Dynamically
<1>9. AllOrNothing'
  BY <1>8 DEF AllOrNothing, Dynamically
<1> QED BY <1>1, <1>7, <1>8, <1>9 DEF FlowInv, Before

LEMMA RankedKept ==
    ASSUME Ranked, UNCHANGED <<opts, all, seen>>
    PROVE  Ranked'
<1>1. Paths' = Paths
  BY DEF Paths
<1>2. \A k : RunsOf(k)' = RunsOf(k)
  BY DEF RunsOf
<1>3. PICK place : /\ Permutes(place, Paths)
                   /\ \A k \in 1..Paths : all[place[k]] = RunsOf(k)
  BY DEF Ranked
<1>4. \A k \in 1..Paths' : all'[place[k]] = RunsOf(k)'
  BY <1>1, <1>2, <1>3
<1>5. \A k, m \in 1..Paths' : k < m => Total(all'[k]) <= Total(all'[m])
  BY <1>1 DEF Ranked
<1>6. all' \in [1..Paths' -> Seq(Run)]
  BY <1>1 DEF Ranked
<1>7. Permutes(place, Paths')
  BY <1>1, <1>3
<1> QED BY <1>4, <1>5, <1>6, <1>7 DEF Ranked

\* A report goes on, or ends, without touching what was measured.
LEMMA FlowReports ==
    ASSUME ParseInv, FlowInv, Reporting,
           UNCHANGED <<opts, events, r, runs, all, last, seen, denied, usable>>,
           pc' \in {"report", "topdown", "exit0"}, i' \in 1..(Paths + 1),
           pc' = "topdown" => i' \in 1..Paths /\ opts.topdown /\ ~Separated,
           pc' = "exit0" => i' = Paths + 1
    PROVE  FlowInv'
<1>1. Paths' = Paths /\ (Separated' <=> Separated) /\ Paths \in Nat
  BY OptionsAre DEF Paths, Separated
<1>2. \A k : RunsOf(k)' = RunsOf(k)
  BY DEF RunsOf
<1>3. Counted(Paths + 1, 0)'
  BY <1>1 DEF Reporting, Counted
<1>4. Ranked'
  BY RankedKept DEF Reporting
<1>5. Reporting'
  BY <1>1, <1>3, <1>4 DEF Reporting
<1>6. RunTypes'
  <2>1. pc' \in Stages /\ i' \in Nat \ {0}
    BY <1>1 DEF Stages, Final
  <2> QED BY <2>1 DEF FlowInv, RunTypes
<1>7. AllOrNothing'
  <2>1. seen' \in [1..Paths -> Seq(Times)]
    BY DEF Reporting, Counted
  <2>2. DOMAIN seen' = 1..Paths
    BY <2>1
  <2>3. \A k \in DOMAIN seen' : Len(seen'[k]) = opts'.n
    BY <1>1, <2>2 DEF Reporting, Counted
  <2> QED BY <2>3 DEF AllOrNothing
<1>8. opts'.csv = NoWord
  BY DEF Reporting
<1> QED BY <1>5, <1>6, <1>7, <1>8 DEF FlowInv, Before

LEMMA AllLength ==
    ASSUME ParseInv, Ranked
    PROVE  all \in Seq(Seq(Run)) /\ Len(all) = Paths
<1>1. Paths \in Nat
  BY OptionsAre
<1> QED BY <1>1 DEF Ranked

LEMMA FlowReportOne ==
    ASSUME ParseInv, FlowInv, ReportOne
    PROVE  FlowInv'
<1>1. /\ pc = "report" /\ i <= Len(all)
      /\ UNCHANGED <<opts, events, r, runs, all, last, seen, denied, usable>>
      /\ \/ opts.topdown /\ ~Separated /\ pc' = "topdown" /\ i' = i
         \/ pc' = pc /\ i' = i + 1
  BY DEF ReportOne, setupVars, runVars
<1>2. Reporting
  BY <1>1 DEF FlowInv
<1>3. Paths \in Nat /\ i \in 1..Paths
  BY <1>1, <1>2, OptionsAre, AllLength DEF Reporting
<1>4. i' \in 1..(Paths + 1) /\ (pc' = "topdown" => i' \in 1..Paths)
  BY <1>1, <1>3
<1> QED BY <1>1, <1>2, <1>4, FlowReports

LEMMA FlowTopdown ==
    ASSUME ParseInv, FlowInv, Topdown
    PROVE  FlowInv'
<1>1. /\ pc = "topdown" /\ pc' = "report" /\ i' = i + 1
      /\ UNCHANGED <<opts, events, r, runs, all, last, seen, denied, usable>>
  BY DEF Topdown, Goto, setupVars, runVars
<1>2. Reporting /\ i \in 1..Paths /\ Paths \in Nat
  BY <1>1, OptionsAre DEF FlowInv, Reporting
<1>3. i' \in 1..(Paths + 1)
  BY <1>1, <1>2
<1> QED BY <1>1, <1>2, <1>3, FlowReports

LEMMA FlowReturn ==
    ASSUME ParseInv, FlowInv, Return
    PROVE  FlowInv'
<1>1. /\ pc' = "exit0"
      /\ UNCHANGED <<i, opts, events, r, runs, all, last, seen, denied, usable, out>>
      /\ \/ pc = "report" /\ i > Len(all)
         \/ pc = "dynamic" /\ i > Len(opts.paths)
  BY DEF Return, setupVars, runVars
<1>2. CASE pc = "report" /\ i > Len(all)
  <2>1. Reporting
    BY <1>2 DEF FlowInv
  <2>2. i \in 1..(Paths + 1) /\ i > Paths /\ Paths \in Nat
    BY <1>2, <2>1, OptionsAre, AllLength DEF Reporting
  <2>3. i' = Paths + 1 /\ i' \in 1..(Paths + 1)
    BY <1>1, <2>2
  <2> QED BY <1>1, <2>1, <2>3, FlowReports
<1>3. CASE pc = "dynamic" /\ i > Len(opts.paths)
  <2>1. Dynamically /\ RunTypes
    BY <1>3 DEF FlowInv
  <2>2. i = Paths + 1 /\ Paths' = Paths
    <3>1. Paths \in Nat /\ i > Paths /\ i \in 1..(Paths + 1)
      BY <1>3, <2>1, OptionsAre DEF Dynamically, Paths
    <3> QED BY <1>1, <3>1 DEF Paths
  <2>3. Counted(i, r - 1)'
    BY <1>1, <2>1, <2>2 DEF Dynamically, Counted
  <2>4. Dynamically'
    BY <1>1, <2>1, <2>2, <2>3 DEF Dynamically
  <2>5. RunTypes'
    <3>1. pc' \in Stages
      BY <1>1 DEF Stages, Final
    <3> QED BY <1>1, <2>1, <3>1 DEF RunTypes
  <2>6. AllOrNothing'
    BY <1>1, <2>1 DEF AllOrNothing, Dynamically
  <2> QED BY <1>1, <2>1, <2>4, <2>5, <2>6 DEF FlowInv, Before, Dynamically
<1> QED BY <1>1, <1>2, <1>3

LEMMA FlowThrows ==
    ASSUME ParseInv, FlowInv, RunThrows
    PROVE  FlowInv'
<1>1. /\ pc' = "threw"
      /\ UNCHANGED <<i, opts, events, r, runs, all, last, seen, denied, usable, out>>
  BY DEF RunThrows, setupVars, runVars
<1>2. RunTypes'
  <2>1. pc' \in Stages
    BY <1>1 DEF Stages, Final
  <2> QED BY <1>1, <2>1 DEF FlowInv, RunTypes
<1>3. AllOrNothing'
  BY <1>1 DEF FlowInv, AllOrNothing
<1> QED BY <1>1, <1>2, <1>3 DEF FlowInv, Before

LEMMA FlowStutter ==
    ASSUME FlowInv, UNCHANGED vars
    PROVE  FlowInv'
<1>1. UNCHANGED <<pc, i, opts, events, r, runs, all, last, seen, denied, usable, out>>
  BY DEF vars, setupVars, runVars
<1>2. Paths' = Paths /\ (Separated' <=> Separated)
  BY <1>1 DEF Paths, Separated
<1>3. \A k : RunsOf(k)' = RunsOf(k)
  BY <1>1 DEF RunsOf
<1>4. RunTypes' /\ AllOrNothing'
  BY <1>1 DEF FlowInv, RunTypes, AllOrNothing
<1>5. Untouched => Untouched'
  BY <1>1, <1>2 DEF Untouched
<1>6. \A m, c : Counted(m, c) => Counted(m, c)'
  BY <1>1, <1>2 DEF Counted
<1>7. ASSUME Measuring PROVE Measuring'
  <2>1. Counted(i, r - 1)'
    BY <1>1, <1>2, <1>7 DEF Measuring, Counted
  <2> QED BY <1>1, <1>2, <1>3, <1>7, <2>1 DEF Measuring, RunsOf
<1>8. ASSUME Dynamically PROVE Dynamically'
  <2>1. Counted(i, r - 1)'
    BY <1>1, <1>2, <1>8 DEF Dynamically, Counted
  <2> QED BY <1>1, <1>2, <1>8, <2>1 DEF Dynamically
<1>9. ASSUME Reporting PROVE Reporting'
  <2>1. Counted(Paths + 1, 0)'
    BY <1>1, <1>2, <1>9 DEF Reporting, Counted
  <2>2. Ranked'
    BY <1>1, <1>9, RankedKept DEF Reporting
  <2> QED BY <1>1, <1>2, <1>9, <2>1, <2>2 DEF Reporting
<1> QED BY <1>1, <1>4, <1>5, <1>7, <1>8, <1>9 DEF FlowInv

-----------------------------------------------------------------------------
(* The ranking *)

\* Numbers to be added up.
Summed(s, T) == s \in Seq(T) /\ (T = Nat \/ T = Int)

\* Sum adds the values one after the other.
LEMMA SumLoop ==
    ASSUME NEW T, NEW s, Summed(s, T)
    PROVE  \E t \in [0..Len(s) -> T] :
               /\ t[0] = 0 /\ t[Len(s)] = Sum(s)
               /\ \A k \in 1..Len(s) : t[k] = t[k - 1] + s[k]
<1> DEFINE n == Len(s)
           step == [k \in 1..n |-> [v \in T |-> v + s[k]]]
           P(f) == f = [D \in SUBSET DOMAIN s |->
                          IF D = {} THEN 0 ELSE f[D \ {Max(D)}] + s[Max(D)]]
           iter == CHOOSE f : P(f)
<1>1. DOMAIN s = 1..n /\ n \in Nat /\ s \in Seq(T) /\ 0 \in T
  BY DEF Summed
<1>2. ASSUME NEW k \in 1..n, NEW v \in T PROVE v + s[k] \in T
  <2>1. s[k] \in T
    BY <1>1
  <2> QED BY <2>1 DEF Summed
<1>3. Recursion(n, T, 0, step)
  BY <1>1, <1>2 DEF Recursion
<1>4. Sum(s) = iter[1..n]
  BY <1>1 DEF Sum, FoldLeft, MapThenFoldSet
<1>5. ASSUME NEW k \in 1..n, NEW v \in T PROVE step[k][v] = v + s[k]
  OBVIOUS
<1> HIDE DEF step
<1>6. P(iter)
  <2>1. PICK f \in [SUBSET (1..n) -> T] : FollowsOnSets(f, n, 0, step)
    BY <1>3, FoldExists
  <2>2. ASSUME NEW D \in SUBSET (1..n), D # {}
        PROVE  f[D] = f[D \ {Max(D)}] + s[Max(D)]
    <3>1. Max(D) \in 1..n
      BY <1>1, <2>2, MaxInside
    <3>2. f[D \ {Max(D)}] \in T
      OBVIOUS
    <3> QED BY <2>1, <2>2, <3>1, <3>2, <1>5 DEF FollowsOnSets
  <2>3. f[{}] = 0
    BY <2>1 DEF FollowsOnSets
  <2>4. P(f)
    BY <1>1, <2>2, <2>3
  <2> HIDE DEF P
  <2> QED BY <2>4
<1>7. iter[{}] = 0
  BY <1>1, <1>6
<1>8. ASSUME NEW D \in SUBSET (1..n), D # {}, iter[D \ {Max(D)}] \in T
      PROVE  iter[D] = step[Max(D)][iter[D \ {Max(D)}]]
  <2>1. iter[D] = iter[D \ {Max(D)}] + s[Max(D)]
    BY <1>1, <1>6, <1>8
  <2>2. Max(D) \in 1..n
    BY <1>1, <1>8, MaxInside
  <2> QED BY <1>8, <2>1, <2>2, <1>5
<1> HIDE DEF iter
<1>9. FollowsWithin(iter, n, T, 0, step)
  BY <1>7, <1>8 DEF FollowsWithin
<1>10. PICK t \in [0..n -> T] : Follows(t, n, 0, step) /\ t[n] = iter[1..n]
  BY <1>3, <1>9, FoldPrefixes
<1>11. ASSUME NEW k \in 1..n PROVE t[k] = t[k - 1] + s[k]
  <2>1. k - 1 \in 0..n
    BY <1>1
  <2> QED BY <1>10, <1>5, <2>1 DEF Follows
<1> QED BY <1>4, <1>10, <1>11 DEF Follows

LEMMA SumType ==
    ASSUME NEW T, NEW s, Summed(s, T)
    PROVE  Sum(s) \in T
<1>1. s \in Seq(T)
  BY DEF Summed
<1>2. PICK t \in [0..Len(s) -> T] :
               /\ t[0] = 0 /\ t[Len(s)] = Sum(s)
               /\ \A k \in 1..Len(s) : t[k] = t[k - 1] + s[k]
  BY <1>1, SumLoop
<1>3. Len(s) \in 0..Len(s)
  BY <1>1
<1> QED BY <1>2, <1>3

LEMMA TotalType ==
    ASSUME NEW v \in Seq(Run)
    PROVE  Total(v) \in Nat /\ Collapse(v).total = Total(v)
<1>1. ASSUME NEW k \in 1..Len(v) PROVE v[k].time \in Nat
  <2>1. v[k] \in Run
    OBVIOUS
  <2> QED BY <2>1, TimesAssumption DEF Run
<1>2. TimesOf(v) \in [1..Len(v) -> Nat] /\ Len(v) \in Nat
  BY <1>1 DEF TimesOf
<1>3. TimesOf(v) \in Seq(Nat)
  BY <1>2, SequenceOf
<1>4. Total(v) \in Nat
  BY <1>3, SumType DEF Total, Summed
<1>5. Collapse(v).total = Total(v)
  BY DEF Collapse, Total
<1> QED BY <1>4, <1>5

\* Fastest finds a least total among the results from k on.
LEMMA FastestIs ==
    ASSUME NEW n \in Nat, NEW v \in [1..n -> Seq(Run)], NEW k \in 1..n
    PROVE  /\ Fastest(v, k) \in k..n
           /\ \A j \in k..n : Total(v[Fastest(v, k)]) <= Total(v[j])
<1>1. \A j \in 1..n : /\ Total(v[j]) \in Nat
                      /\ Collapse(v[j]).total = Total(v[j])
  BY TotalType
<1>2. Len(v) = n
  BY SequenceOf
<1> DEFINE D == {Total(v[j]) : j \in k..n}
<1>3. D \in SUBSET Nat /\ D # {}
  <2>1. k \in k..n /\ \A j \in k..n : j \in 1..n
    OBVIOUS
  <2>2. Total(v[k]) \in D
    BY <2>1
  <2> QED BY <1>1, <2>1, <2>2
<1>4. PICK least \in D : \A x \in D : least <= x
  <2> HIDE DEF D
  <2> QED BY <1>3, LeastNumber
<1>5. \A j \in k..n : least <= Total(v[j])
  BY <1>4
<1> DEFINE E == {j \in k..n : Total(v[j]) = least}
<1>6. E \in SUBSET Nat /\ E # {}
  BY <1>4
<1>7. PICK m \in E : \A j \in E : m <= j
  <2> HIDE DEF E, D
  <2> QED BY <1>6, LeastNumber
<1>8. m \in k..n /\ Total(v[m]) = least /\ least \in Nat
  BY <1>3, <1>4, <1>7
<1>9. \A j \in k..n : Collapse(v[m]).total <= Collapse(v[j]).total
  <2>1. ASSUME NEW j \in k..n PROVE Collapse(v[m]).total <= Collapse(v[j]).total
    <3>1. j \in 1..n /\ m \in 1..n
      BY <1>8
    <3> QED BY <1>1, <1>5, <1>8, <3>1
  <2> QED BY <2>1
<1>10. \A j \in k..(m - 1) : Collapse(v[m]).total < Collapse(v[j]).total
  <2>1. ASSUME NEW j \in k..(m - 1) PROVE Collapse(v[m]).total < Collapse(v[j]).total
    <3>1. j \in k..n /\ j \in 1..n /\ m \in 1..n /\ ~(m <= j)
      BY <1>8
    <3>2. j \notin E
      BY <1>7, <3>1
    <3>3. Total(v[j]) # least
      BY <3>1, <3>2
    <3> HIDE DEF E, D
    <3> QED BY <1>1, <1>5, <1>8, <3>1, <3>3
  <2> QED BY <2>1
<1> DEFINE f == Fastest(v, k)
<1>11. f \in k..n /\ \A j \in k..n : Collapse(v[f]).total <= Collapse(v[j]).total
  <2> HIDE DEF E, D
  <2> QED BY <1>2, <1>8, <1>9, <1>10 DEF Fastest
<1> HIDE DEF f
<1>12. ASSUME NEW j \in k..n PROVE Total(v[f]) <= Total(v[j])
  <2>1. j \in 1..n /\ f \in 1..n
    BY <1>11
  <2> QED BY <1>1, <1>11, <2>1
<1> QED BY <1>11, <1>12 DEF f

\* One exchange of the sort, what it sorts, and what it keeps.
Exchange(s, k) ==
    [s EXCEPT ![k] = s[Fastest(s, k)], ![Fastest(s, k)] = s[k]]
SortedTo(s, n, k) ==
    \A a, b \in 1..n : a <= k /\ a < b => Total(s[a]) <= Total(s[b])
Arranges(s, v, n) ==
    \E place : Permutes(place, n) /\ \A k \in 1..n : s[place[k]] = v[k]

LEMMA ExchangeSorts ==
    ASSUME NEW n \in Nat, NEW s \in [1..n -> Seq(Run)], NEW k \in 1..n
    PROVE  /\ Exchange(s, k) \in [1..n -> Seq(Run)]
           /\ SortedTo(s, n, k - 1) => SortedTo(Exchange(s, k), n, k)
           /\ \A v : Arranges(s, v, n) => Arranges(Exchange(s, k), v, n)
<1> DEFINE f == Fastest(s, k)
           e == Exchange(s, k)
<1>1. f \in k..n /\ \A j \in k..n : Total(s[f]) <= Total(s[j])
  BY FastestIs
<1>2. e \in [1..n -> Seq(Run)]
  BY <1>1 DEF Exchange
<1>3. /\ e[k] = s[f] /\ e[f] = s[k]
      /\ \A j \in 1..n : j # k /\ j # f => e[j] = s[j]
  BY <1>1 DEF Exchange
<1>4. \A j \in 1..n : Total(s[j]) \in Nat
  BY TotalType
<1> HIDE DEF f, e
<1>5. ASSUME SortedTo(s, n, k - 1) PROVE SortedTo(e, n, k)
  <2> SUFFICES ASSUME NEW a \in 1..n, NEW b \in 1..n, a <= k, a < b
               PROVE  Total(e[a]) <= Total(e[b])
    BY DEF SortedTo
  <2>1. PICK c \in 1..n : e[b] = s[c] /\ (c = b \/ c = k \/ c = f)
    <3>1. CASE b = k
      BY <3>1, <1>1, <1>3
    <3>2. CASE b = f
      BY <3>2, <1>3
    <3>3. CASE b # k /\ b # f
      BY <3>3, <1>3
    <3> QED BY <3>1, <3>2, <3>3
  <2>2. CASE a = k
    <3>1. c \in k..n
      BY <2>1, <2>2, <1>1
    <3> QED BY <1>1, <1>3, <2>1, <2>2, <3>1
  <2>3. CASE a < k
    <3>1. e[a] = s[a] /\ a <= k - 1 /\ a < c
      BY <1>1, <1>3, <2>1, <2>3
    <3> QED BY <1>5, <2>1, <3>1 DEF SortedTo
  <2> QED BY <2>2, <2>3
<1>6. ASSUME NEW v, Arranges(s, v, n) PROVE Arranges(e, v, n)
  <2>1. PICK place : Permutes(place, n) /\ \A j \in 1..n : s[place[j]] = v[j]
    BY <1>6 DEF Arranges
  <2> DEFINE new == [j \in 1..n |-> IF place[j] = k THEN f
                                    ELSE IF place[j] = f THEN k ELSE place[j]]
  <2>2. place \in [1..n -> 1..n] /\ f \in 1..n
    <3>1. f \in 1..n
      BY <1>1
    <3> QED BY <2>1, <3>1 DEF Permutes
  <2>3. new \in [1..n -> 1..n]
    BY <2>2
  <2>4. \A j, m \in 1..n : new[j] = new[m] => j = m
    BY <2>1, <2>2 DEF Permutes
  <2>5. ASSUME NEW m \in 1..n PROVE \E j \in 1..n : new[j] = m
    <3> DEFINE before == IF m = k THEN f ELSE IF m = f THEN k ELSE m
    <3>1. before \in 1..n
      BY <2>2
    <3>2. PICK j \in 1..n : place[j] = before
      BY <2>1, <3>1 DEF Permutes
    <3>3. new[j] = m
      BY <3>2
    <3> QED BY <3>3
  <2>6. ASSUME NEW j \in 1..n PROVE e[new[j]] = v[j]
    <3>1. s[place[j]] = v[j] /\ place[j] \in 1..n
      BY <2>1, <2>2
    <3>2. CASE place[j] = k
      BY <3>1, <3>2, <1>3
    <3>3. CASE place[j] # k /\ place[j] = f
      BY <3>1, <3>3, <1>3
    <3>4. CASE place[j] # k /\ place[j] # f
      BY <3>1, <3>4, <1>3
    <3> QED BY <3>2, <3>3, <3>4
  <2> HIDE DEF new
  <2>7. Permutes(new, n)
    BY <2>3, <2>4, <2>5 DEF Permutes
  <2> QED BY <2>6, <2>7 DEF Arranges
<1> QED BY <1>2, <1>5, <1>6 DEF e

\* The loop of sort_results, over all results but the last one.
ButLast(n) == IF n = 0 THEN 0 ELSE n - 1

LEMMA SortLoop ==
    ASSUME NEW n \in Nat, NEW v \in [1..n -> Seq(Run)]
    PROVE  \E t \in [0..ButLast(n) -> [1..n -> Seq(Run)]] :
               /\ t[0] = v /\ t[ButLast(n)] = SortResults(v)
               /\ \A k \in 1..ButLast(n) : t[k] = Exchange(t[k - 1], k)
<1> DEFINE l == ButLast(n)
           q == [k \in 1..l |-> k]
           V == [1..n -> Seq(Run)]
           step == [k \in 1..l |-> [s \in V |-> Exchange(s, k)]]
           P(f) == f = [D \in SUBSET DOMAIN q |->
                          IF D = {} THEN v
                          ELSE Exchange(f[D \ {Max(D)}], q[Max(D)])]
           iter == CHOOSE f : P(f)
<1>1. DOMAIN q = 1..l /\ Len(v) = n /\ l \in Nat
  BY SequenceOf DEF ButLast
<1>2. ASSUME NEW k \in 1..l, NEW s \in V PROVE Exchange(s, k) \in V
  <2>1. k \in 1..n
    BY DEF ButLast
  <2> QED BY <2>1, ExchangeSorts
<1>3. Recursion(l, V, v, step)
  <2> HIDE DEF V
  <2> QED BY <1>1, <1>2 DEF Recursion, V
<1>4. SortResults(v) = iter[1..l]
  <2>1. Len(q) = l
    BY <1>1
  <2>2. FoldLeft(LAMBDA s, k : [s EXCEPT ![k] = s[Fastest(s, k)],
                                         ![Fastest(s, k)] = s[k]], v, q) = iter[1..l]
    BY <1>1, <2>1 DEF FoldLeft, MapThenFoldSet, Exchange
  <2>3. 1..(Len(v) - 1) = 1..l
    BY <1>1 DEF ButLast
  <2> QED BY <2>2, <2>3 DEF SortResults
<1>5. ASSUME NEW k \in 1..l, NEW s \in V PROVE step[k][s] = Exchange(s, k) /\ q[k] = k
  <2> HIDE DEF V
  <2> QED OBVIOUS
<1> HIDE DEF step, V, l
<1>6. P(iter)
  <2>1. PICK f \in [SUBSET (1..l) -> V] : FollowsOnSets(f, l, v, step)
    BY <1>3, FoldExists
  <2>2. ASSUME NEW D \in SUBSET (1..l), D # {}
        PROVE  f[D] = Exchange(f[D \ {Max(D)}], q[Max(D)])
    <3>1. Max(D) \in 1..l
      BY <1>1, <2>2, MaxInside
    <3>2. f[D \ {Max(D)}] \in V
      OBVIOUS
    <3> QED BY <2>1, <2>2, <3>1, <3>2, <1>5 DEF FollowsOnSets
  <2>3. f[{}] = v
    BY <2>1 DEF FollowsOnSets
  <2>4. P(f)
    BY <1>1, <2>2, <2>3
  <2> HIDE DEF P
  <2> QED BY <2>4
<1>7. iter[{}] = v
  BY <1>1, <1>6
<1>8. ASSUME NEW D \in SUBSET (1..l), D # {}, iter[D \ {Max(D)}] \in V
      PROVE  iter[D] = step[Max(D)][iter[D \ {Max(D)}]]
  <2>1. iter[D] = Exchange(iter[D \ {Max(D)}], q[Max(D)])
    BY <1>1, <1>6, <1>8
  <2>2. Max(D) \in 1..l
    BY <1>1, <1>8, MaxInside
  <2> QED BY <1>8, <2>1, <2>2, <1>5
<1> HIDE DEF iter
<1>9. FollowsWithin(iter, l, V, v, step)
  BY <1>7, <1>8 DEF FollowsWithin
<1>10. PICK t \in [0..l -> V] : Follows(t, l, v, step) /\ t[l] = iter[1..l]
  BY <1>3, <1>9, FoldPrefixes
<1>11. ASSUME NEW k \in 1..l PROVE t[k] = Exchange(t[k - 1], k)
  <2>1. k - 1 \in 0..l
    BY <1>1
  <2> QED BY <1>10, <1>5, <2>1 DEF Follows
<1>12. t[0] = v
  BY <1>10 DEF Follows
<1> QED BY <1>4, <1>10, <1>11, <1>12 DEF V, l

\* It sorts, and loses nothing.
LEMMA SortResultsSorts ==
    ASSUME NEW n \in Nat, NEW v \in [1..n -> Seq(Run)]
    PROVE  /\ SortResults(v) \in [1..n -> Seq(Run)]
           /\ SortedTo(SortResults(v), n, n) /\ Arranges(SortResults(v), v, n)
<1>1. Arranges(v, v, n)
  <2> DEFINE place == [k \in 1..n |-> k]
  <2>1. Permutes(place, n) /\ \A k \in 1..n : v[place[k]] = v[k]
    BY DEF Permutes
  <2> HIDE DEF place
  <2> QED BY <2>1 DEF Arranges
<1> DEFINE l == ButLast(n)
<1>2. l \in Nat /\ (l = n - 1 \/ (n = 0 /\ l = 0))
  BY DEF ButLast
<1>3. PICK t \in [0..l -> [1..n -> Seq(Run)]] :
             /\ t[0] = v /\ t[l] = SortResults(v)
             /\ \A k \in 1..l : t[k] = Exchange(t[k - 1], k)
  BY SortLoop
<1> HIDE DEF l
<1> DEFINE Good(k) == SortedTo(t[k], n, k) /\ Arranges(t[k], v, n)
           T == {k \in 0..l : Good(k)}
<1>4. 0 \in T
  <2>1. SortedTo(v, n, 0)
    BY DEF SortedTo
  <2> QED BY <1>1, <1>2, <1>3, <2>1
<1>5. ASSUME NEW k \in 0..(l - 1), k \in T PROVE k + 1 \in T
  <2>1. k + 1 \in 1..l /\ k + 1 \in 0..l /\ k + 1 \in 1..n /\ (k + 1) - 1 = k
        /\ k \in 0..l
    BY <1>2
  <2>2. t[k] \in [1..n -> Seq(Run)] /\ t[k + 1] = Exchange(t[k], k + 1)
    BY <1>3, <2>1
  <2>3. SortedTo(t[k], n, k) /\ Arranges(t[k], v, n)
    BY <1>5
  <2>4. SortedTo(t[k + 1], n, k + 1) /\ Arranges(t[k + 1], v, n)
    BY <2>1, <2>2, <2>3, ExchangeSorts
  <2> QED BY <2>1, <2>4
<1>6. l \in T
  <2> HIDE DEF T
  <2>1. 0..l \subseteq T
    BY <1>2, <1>4, <1>5, UpToInduction
  <2> QED BY <1>2, <2>1
<1>7. /\ SortedTo(SortResults(v), n, l) /\ Arranges(SortResults(v), v, n)
      /\ SortResults(v) \in [1..n -> Seq(Run)]
  BY <1>2, <1>3, <1>6
<1>8. SortedTo(SortResults(v), n, n)
  BY <1>2, <1>7 DEF SortedTo
<1> QED BY <1>7, <1>8

LEMMA FlowRank ==
    ASSUME ParseInv, FlowInv, Rank
    PROVE  FlowInv'
<1>1. /\ pc = "measure" /\ pc' = "report" /\ i > Paths /\ i' = 1
      /\ all' = SortResults(all)
      /\ UNCHANGED <<opts, events, r, runs, last, seen, denied, usable>>
  BY DEF Rank, Goto, setupVars, Paths
<1>2. Measuring /\ RunTypes
  BY <1>1 DEF FlowInv
<1>3. Paths \in Nat /\ Paths' = Paths
  BY <1>1, OptionsAre DEF Paths
<1>4. i = Paths + 1 /\ r = 1 /\ runs = <<>> /\ last = NoRun /\ opts.csv = NoWord
  BY <1>1, <1>2, <1>3 DEF Measuring
<1>5. Counted(Paths + 1, 0)
  BY <1>2, <1>4 DEF Measuring
<1>6. all = [k \in 1..Paths |-> RunsOf(k)]
  BY <1>2, <1>3, <1>4 DEF Measuring
<1>7. \A k \in 1..Paths : RunsOf(k) \in Seq(Run)
  BY <1>5, RunsAre DEF Counted
<1>8. all \in [1..Paths -> Seq(Run)]
  BY <1>6, <1>7
<1>9. /\ all' \in [1..Paths -> Seq(Run)]
      /\ SortedTo(all', Paths, Paths) /\ Arranges(all', all, Paths)
  BY <1>1, <1>3, <1>8, SortResultsSorts
<1>10. \A k : RunsOf(k)' = RunsOf(k)
  BY <1>1 DEF RunsOf
<1>11. Ranked'
  <2>1. PICK place : /\ Permutes(place, Paths)
                     /\ \A k \in 1..Paths : all'[place[k]] = all[k]
    BY <1>9 DEF Arranges
  <2>2. Permutes(place, Paths') /\ \A k \in 1..Paths' : all'[place[k]] = RunsOf(k)'
    BY <1>3, <1>6, <1>10, <2>1
  <2>3. \A k, m \in 1..Paths' : k < m => Total(all'[k]) <= Total(all'[m])
    BY <1>3, <1>9 DEF SortedTo
  <2>4. all' \in [1..Paths' -> Seq(Run)]
    BY <1>3, <1>9
  <2> QED BY <2>2, <2>3, <2>4 DEF Ranked
<1>12. Counted(Paths + 1, 0)'
  BY <1>1, <1>3, <1>5 DEF Counted
<1>13. Reporting'
  BY <1>1, <1>3, <1>4, <1>11, <1>12 DEF Reporting
<1>14. RunTypes'
  <2>1. pc' \in Stages
    BY <1>1 DEF Stages
  <2>2. all' \in Seq(Seq(Run))
    BY <1>3, <1>9, SequenceOf
  <2> QED BY <1>1, <1>2, <2>1, <2>2 DEF RunTypes
<1>15. AllOrNothing'
  <2>1. DOMAIN seen' = 1..Paths
    BY <1>1, <1>5 DEF Counted
  <2>2. \A k \in DOMAIN seen' : Len(seen'[k]) = opts'.n
    BY <1>1, <1>3, <1>5, <2>1 DEF Counted
  <2> QED BY <2>2 DEF AllOrNothing
<1> QED BY <1>1, <1>13, <1>14, <1>15 DEF FlowInv, Before

-----------------------------------------------------------------------------
(* The invariant of the command line, on main's steps *)

SetupInv == ParseInv /\ ListInv /\ AttrInv

LEMMA SetupInvInit == Init => SetupInv
<1> SUFFICES ASSUME Init PROVE SetupInv
  OBVIOUS
<1>1. ParseInit /\ attrs = <<>>
  BY DEF Init
<1>2. AttrInv
  BY <1>1 DEF AttrInv
<1> QED BY <1>1, <1>2, ParseInvInit, ListInvInit DEF SetupInv

\* Every step after the parser leaves what it found alone.
LEMMA SetupInvLater ==
    ASSUME SetupInv, UNCHANGED setupVars,
           pc \notin {"argv", "usage", "sink", "list", "parsed"},
           pc' \notin {"argv", "usage", "sink", "list", "parsed"}
    PROVE  SetupInv'
<1>1. UNCHANGED <<argv, opts, events, allOk, attrs>>
  BY DEF setupVars
<1>2. ParseInv'
  BY <1>1, ParseInvKept DEF SetupInv
<1>3. ListInv'
  BY <1>1, ListInvKept DEF SetupInv
<1>4. AttrInv'
  BY <1>1, AttrInvKept DEF SetupInv
<1> QED BY <1>2, <1>3, <1>4 DEF SetupInv

LEMMA SetupInvNext ==
    ASSUME SetupInv, [Next]_vars
    PROVE  SetupInv'
<1>1. ParseInv /\ ListInv /\ AttrInv /\ opts \in OptionsType
  BY DEF SetupInv, ParseInv
<1>2. CASE Parse
  <2>1. ParseStep /\ attrs' = attrs /\ pc \in {"argv", "list"}
        /\ (pc = "list" => opts' = opts /\ pc' \in {"list", "parsed"})
    BY <1>2 DEF Parse, ParseStep, TakeSwitch, TakeNumber, TakeWord, TakePath, Refuse,
         Accept, ListName, ListDone, At
  <2>2. ParseInv' /\ ListInv'
    BY <1>1, <2>1, ParseInvStep, ListInvStep
  <2>3. AttrInv'
    BY <1>1, <2>1, AttrInvKept
  <2> QED BY <2>2, <2>3 DEF SetupInv
<1>3. CASE OpenSink
  <2>1. /\ pc = "sink" /\ pc' = IF opts.csv = NoWord THEN "parsed" ELSE "list"
        /\ UNCHANGED <<argv, i, opts, events, allOk, attrs>>
    BY <1>3 DEF OpenSink, Goto, setupVars
  <2>2. ParseInv'
    BY <1>1, <2>1, ParseInvKept
  <2>3. ListInv'
    BY <1>1, <2>1, ListInvSink
  <2>4. AttrInv'
    BY <1>1, <2>1, AttrInvKept
  <2> QED BY <2>2, <2>3, <2>4 DEF SetupInv
<1>4. CASE Attributed
  <2>1. /\ pc = "parsed" /\ pc' \in {"measure", "dynamic"} /\ Configure
        /\ UNCHANGED <<argv, opts, events, allOk>>
    BY <1>4 DEF Attributed, Configure, At, RunLoop
  <2>2. ParseInv'
    BY <1>1, <2>1, ParseInvKept
  <2>3. ListInv'
    BY <1>1, <2>1, ListInvKept
  <2>4. AttrInv'
    BY <1>1, <2>1, AttrInvConfigured
  <2> QED BY <2>2, <2>3, <2>4 DEF SetupInv
<1>5. CASE Measure \/ NextBinary \/ Rank
  <2>1. /\ UNCHANGED setupVars /\ pc = "measure" /\ pc' \in {"measure", "report"}
    BY <1>5 DEF Measure, NextBinary, Rank, Goto
  <2> QED BY <2>1, SetupInvLater
<1>6. CASE ReportOne \/ Topdown
  <2>1. /\ UNCHANGED setupVars /\ pc \in {"report", "topdown"}
        /\ pc' \in {"report", "topdown"}
    BY <1>6 DEF ReportOne, Topdown, Goto
  <2> QED BY <2>1, SetupInvLater
<1>7. CASE MeasureEvents \/ ReportEvents
  <2>1. UNCHANGED setupVars /\ pc = "dynamic" /\ pc' = "dynamic"
    BY <1>7 DEF MeasureEvents, ReportEvents
  <2> QED BY <2>1, SetupInvLater
<1>8. CASE RunThrows \/ Return
  <2>1. /\ UNCHANGED setupVars /\ pc \in {"measure", "dynamic", "topdown", "report"}
        /\ pc' \in {"threw", "exit0"}
    BY <1>8 DEF RunThrows, Return
  <2> QED BY <2>1, SetupInvLater
<1>9. CASE UNCHANGED vars
  <2>1. UNCHANGED <<argv, pc, i, opts, events, allOk, attrs>>
    BY <1>9 DEF vars, setupVars
  <2>2. ParseInv' /\ ListInv'
    BY <1>1, <2>1, ParseInvStutter, ListInvStutter
  <2>3. AttrInv'
    BY <1>1, <2>1, AttrInvKept
  <2> QED BY <2>2, <2>3 DEF SetupInv
<1>10. CASE Stopped
  BY <1>9, <1>10 DEF Stopped
<1> QED BY <1>2, <1>3, <1>4, <1>5, <1>6, <1>7, <1>8, <1>9, <1>10 DEF Next

\* What parse_argv has read so far is kept by every later step: the options, the
\* list of -e and the attributes of the counters.
THEOREM SetupInvariance == Spec => []SetupInv
<1>1. SetupInv /\ [Next]_vars => SetupInv'
  BY SetupInvNext
<1> QED BY <1>1, SetupInvInit, PTL DEF Spec

LEMMA FlowNext ==
    ASSUME SetupInv, SetupInv', FlowInv, [Next]_vars
    PROVE  FlowInv'
<1>1. ParseInv /\ ParseInv'
  BY DEF SetupInv
<1>2. CASE Parse
  BY <1>1, <1>2, FlowParse
<1>3. CASE OpenSink
  BY <1>1, <1>3, FlowSink
<1>4. CASE Attributed
  BY <1>1, <1>4, FlowAttributed
<1>5. CASE Measure
  BY <1>1, <1>5, FlowMeasure
<1>6. CASE NextBinary
  BY <1>1, <1>6, FlowNextBinary
<1>7. CASE Rank
  BY <1>1, <1>7, FlowRank
<1>8. CASE ReportOne
  BY <1>1, <1>8, FlowReportOne
<1>9. CASE Topdown
  BY <1>1, <1>9, FlowTopdown
<1>10. CASE MeasureEvents
  BY <1>1, <1>10, FlowMeasureEvents DEF SetupInv
<1>11. CASE ReportEvents
  BY <1>1, <1>11, FlowReportEvents
<1>12. CASE RunThrows
  BY <1>1, <1>12, FlowThrows
<1>13. CASE Return
  BY <1>1, <1>13, FlowReturn
<1>14. CASE UNCHANGED vars
  BY <1>14, FlowStutter
<1>15. CASE Stopped
  BY <1>14, <1>15 DEF Stopped
<1> QED BY <1>2, <1>3, <1>4, <1>5, <1>6, <1>7, <1>8, <1>9, <1>10, <1>11, <1>12,
           <1>13, <1>14, <1>15 DEF Next

THEOREM FlowInvariance == Spec => []FlowInv
<1>1. SetupInv /\ SetupInv' /\ FlowInv /\ [Next]_vars => FlowInv'
  BY FlowNext
<1> QED BY <1>1, FlowInit, SetupInvariance, PTL DEF Spec

\* Every variable has its type (TypeOK).
THEOREM SessionTypes == Spec => []TypeOK
<1>1. SetupInv /\ FlowInv => TypeOK
  <2> SUFFICES ASSUME SetupInv, FlowInv PROVE TypeOK
    OBVIOUS
  <2>1. SetupTypeOK
    BY SetupTyped DEF SetupInv
  <2>2. RunTypes
    BY DEF FlowInv
  <2> QED BY <2>1, <2>2 DEF TypeOK, RunTypes, Stages, Run
<1> QED BY <1>1, SetupInvariance, FlowInvariance, PTL

\* An accepted command line means what its flags say (parse_argv): the run's
\* property ParsedAsMeant, for every set of words and every argument vector.
THEOREM ParsedAsMeantHolds == Spec => []ParsedAsMeant
<1>1. SetupInv => ParsedAsMeant
  BY MeantAsParsed DEF SetupInv
<1> QED BY <1>1, SetupInvariance, PTL

\* A number that fits its option arrives unchanged (parse_int and the casts in
\* parse_argv), for every width of the two types.
THEOREM NumbersArriveHolds == Spec => []NumbersArrive
<1>1. SetupInv => NumbersArrive
  BY NumbersMeant DEF SetupInv
<1> QED BY <1>1, SetupInvariance, PTL

\* The events of -e are those of its known names (parse_event_list), for every
\* size of the name buffer.
THEOREM ListedEventsHolds == Spec => []ListedEvents
<1>1. SetupInv => ListedEvents
  BY ListedAsNamed DEF SetupInv, ParseInv
<1> QED BY <1>1, SetupInvariance, PTL

\* Every counter is set as the flags ask (__bench_bin_with_opts and
\* benchmark_bin_dynamic).
THEOREM CountersAsAskedHolds == Spec => []CountersAsAsked
<1>1. SetupInv => CountersAsAsked
  BY CountersFollow DEF SetupInv
<1> QED BY <1>1, SetupInvariance, PTL

\* Nothing is written before every run of every binary is complete (main).
THEOREM AllOrNothingHolds == Spec => []AllOrNothing
<1>1. FlowInv => AllOrNothing
  BY DEF FlowInv
<1> QED BY <1>1, FlowInvariance, PTL

-----------------------------------------------------------------------------
(* The lines of a report *)

\* A sequence of lines of one kind.
Uniform(lines, kind) ==
    lines \in Seq(ToSet(lines)) /\ \A k \in 1..Len(lines) : lines[k].kind = kind

\* The parts of Lines.
Part(asked, lines) == IF ~Separated /\ asked THEN lines ELSE <<>>
StatsPart(v) == Part(Repeated, <<StatsOf("stats", v)>>)
TablePart(v) == Part(opts.table, <<StatsOf("table", v)>>)
MetricPart(v) == Part(opts.metrics # NoWord, MetricLines(v))

\* The names of -M and the lines about them.
Cut == [k \in DOMAIN Items[opts.metrics] |-> Buffered(Items[opts.metrics][k])]
Shown == Kept(Cut, ToSet(Cut) \ {<<>>})

LEMMA ShownType ==
    ASSUME opts \in OptionsType, opts.metrics # NoWord
    PROVE  /\ Cut \in Seq(ToSet(Cut))
           /\ Shown \in Seq(ToSet(Shown)) /\ Len(Shown) \in Nat
           /\ DOMAIN Shown = 1..Len(Shown)
<1> DEFINE s == Items[opts.metrics]
<1>1. opts.metrics \in Words
  BY DEF OptionsType
<1>2. s \in Seq(ToSet(s))
  BY <1>1, WordsAssumption
<1>3. DOMAIN s = 1..Len(s) /\ Len(s) \in Nat
  BY <1>2
<1>4. Cut = [k \in 1..Len(s) |-> Cut[k]]
  BY <1>3 DEF Cut
<1>5. Cut \in Seq(ToSet(Cut))
  <2> HIDE DEF s
  <2> QED BY <1>3, <1>4, ListOf
<1>6. Shown \in Seq(ToSet(Cut) \cap (ToSet(Cut) \ {<<>>}))
  <2> DEFINE T == ToSet(Cut)
             S == ToSet(Cut) \ {<<>>}
  <2>1. Cut \in Seq(T)
    BY <1>5
  <2> HIDE DEF T, S
  <2>2. Kept(Cut, S) \in Seq(T \cap S)
    BY <2>1, KeptType
  <2> QED BY <2>2 DEF Shown, T, S
<1>7. Shown \in Seq(ToSet(Shown)) /\ Len(Shown) \in Nat /\ DOMAIN Shown = 1..Len(Shown)
  BY <1>6, Members
<1> QED BY <1>5, <1>7

LEMMA MetricLinesAre ==
    ASSUME opts \in OptionsType, opts.metrics # NoWord, NEW v
    PROVE  /\ Uniform(MetricLines(v), "metric") /\ Len(MetricLines(v)) = Len(Shown)
           /\ \A k \in 1..Len(Shown) : /\ MetricLines(v)[k].name = v[1].name
                                       /\ MetricLines(v)[k].metric = Shown[k]
<1> DEFINE m == MetricLines(v)
<1>1. m = [k \in DOMAIN Shown |->
            [kind |-> "metric", name |-> v[1].name, metric |-> Shown[k],
             members |-> IF Shown[k] \in DOMAIN MetricOf
                         THEN Divides[MetricOf[Shown[k]]] ELSE <<>>]]
  BY DEF MetricLines, Shown, Cut
<1>2. Len(Shown) \in Nat /\ DOMAIN Shown = 1..Len(Shown)
  BY ShownType
<1> HIDE DEF m
<1>3. m = [k \in 1..Len(Shown) |-> m[k]]
  BY <1>1, <1>2
<1>4. m \in Seq(ToSet(m)) /\ Len(m) = Len(Shown)
  BY <1>2, <1>3, ListOf
<1>5. \A k \in 1..Len(Shown) : /\ m[k].kind = "metric" /\ m[k].name = v[1].name
                               /\ m[k].metric = Shown[k]
  BY <1>1, <1>2
<1> QED BY <1>4, <1>5 DEF Uniform, m

\* Each part has one kind of lines, about v.
LEMMA PartsAre ==
    ASSUME opts \in OptionsType, NEW v
    PROVE  /\ Uniform(<<RowOf(v)>>, "row") /\ Uniform(StatsPart(v), "stats")
           /\ Uniform(TablePart(v), "table") /\ Uniform(MetricPart(v), "metric")
           /\ Lines(v) = <<RowOf(v)>> \o (StatsPart(v) \o (TablePart(v) \o MetricPart(v)))
<1>1. \A kind : Uniform(<<>>, kind)
  BY DEF Uniform
<1>2. ASSUME NEW x PROVE Uniform(<<x>>, x.kind)
  <2> DEFINE s == <<x>>
  <2>1. s \in Seq({x}) /\ Len(s) = 1 /\ s[1] = x
    OBVIOUS
  <2> HIDE DEF s
  <2>2. Uniform(s, x.kind)
    BY <2>1, Members DEF Uniform
  <2> QED BY <2>2 DEF s
<1>3. /\ RowOf(v).kind = "row" /\ StatsOf("stats", v).kind = "stats"
      /\ StatsOf("table", v).kind = "table"
  BY DEF RowOf, StatsOf
<1>4. Uniform(<<RowOf(v)>>, "row")
  BY <1>2, <1>3
<1>5. Uniform(StatsPart(v), "stats")
  BY <1>1, <1>2, <1>3 DEF StatsPart, Part
<1>6. Uniform(TablePart(v), "table")
  BY <1>1, <1>2, <1>3 DEF TablePart, Part
<1>7. Uniform(MetricPart(v), "metric")
  BY <1>1, MetricLinesAre DEF MetricPart, Part
<1>8. Lines(v) = <<RowOf(v)>> \o (StatsPart(v) \o (TablePart(v) \o MetricPart(v)))
  <2>1. CASE Separated
    <3>1. StatsPart(v) = <<>> /\ TablePart(v) = <<>> /\ MetricPart(v) = <<>>
      BY <2>1 DEF StatsPart, TablePart, MetricPart, Part
    <3>2. <<>> \o <<>> = <<>>
      OBVIOUS
    <3> QED BY <2>1, <3>1, <3>2 DEF Lines
  <2>2. CASE ~Separated
    <3> DEFINE a == IF Repeated THEN <<StatsOf("stats", v)>> ELSE <<>>
               b == IF opts.table THEN <<StatsOf("table", v)>> ELSE <<>>
               c == IF opts.metrics # NoWord THEN MetricLines(v) ELSE <<>>
    <3>1. StatsPart(v) = a /\ TablePart(v) = b /\ MetricPart(v) = c
      BY <2>2 DEF StatsPart, TablePart, MetricPart, Part
    <3>2. a \in Seq(ToSet(a)) /\ b \in Seq(ToSet(b)) /\ c \in Seq(ToSet(c))
      BY <3>1, <1>5, <1>6, <1>7 DEF Uniform
    <3>3. Lines(v) = <<RowOf(v)>> \o ((a \o b) \o c)
      BY <2>2 DEF Lines
    <3> HIDE DEF a, b, c
    <3>4. (a \o b) \o c = a \o (b \o c)
      BY <3>2
    <3> QED BY <3>1, <3>3, <3>4
  <2> QED BY <2>1, <2>2
<1> QED BY <1>4, <1>5, <1>6, <1>7, <1>8

-----------------------------------------------------------------------------
(* Blocks and their rows *)

\* Every metric and every top-down block of s stands under its row.
Under(s, k, j) ==
    /\ s[j].kind = "row" /\ s[j].result.name = s[k].name
    /\ \A m \in (j + 1)..(k - 1) : s[m].kind \in {"stats", "table", "metric"}
AllUnder(s) ==
    \A k \in 1..Len(s) :
        s[k].kind \in {"topdown", "metric"} => \E j \in 1..(k - 1) : Under(s, k, j)

\* s ends with the lines of one binary, from its row on.
EndsWith(s, name) ==
    \E j \in 1..Len(s) :
        /\ s[j].kind = "row" /\ s[j].result.name = name
        /\ \A m \in (j + 1)..Len(s) : s[m].kind \in {"stats", "table", "metric"}

\* Lines that may stand under the row of a binary.
Trailing(s, name) ==
    /\ s \in Seq(ToSet(s))
    /\ \A k \in 1..Len(s) : /\ s[k].kind \in {"stats", "table", "metric"}
                            /\ s[k].kind = "metric" => s[k].name = name

LEMMA UnderJoined ==
    ASSUME NEW a, NEW b, a \in Seq(ToSet(a)), b \in Seq(ToSet(b)),
           AllUnder(a), AllUnder(b)
    PROVE  AllUnder(a \o b)
<1> DEFINE c == a \o b
<1>1. /\ Len(a) \in Nat /\ Len(b) \in Nat /\ Len(c) = Len(a) + Len(b)
      /\ \A k \in 1..Len(a) : c[k] = a[k]
      /\ \A k \in 1..Len(b) : c[Len(a) + k] = b[k]
      /\ \A k \in 1..Len(c) : k > Len(a) =>
            k - Len(a) \in 1..Len(b) /\ c[k] = b[k - Len(a)]
  BY Joined
<1> HIDE DEF c
<1>2. SUFFICES ASSUME NEW k \in 1..Len(c), c[k].kind \in {"topdown", "metric"}
               PROVE  \E j \in 1..(k - 1) : Under(c, k, j)
  BY DEF AllUnder, c
<1>3. CASE k <= Len(a)
  <2>1. k \in 1..Len(a) /\ c[k] = a[k]
    BY <1>1, <1>3
  <2>2. PICK j \in 1..(k - 1) : Under(a, k, j)
    BY <2>1, <1>2 DEF AllUnder
  <2>3. j \in 1..Len(a) /\ \A m \in (j + 1)..(k - 1) : m \in 1..Len(a)
    BY <1>1, <2>1, <2>2
  <2>4. Under(c, k, j)
    BY <1>1, <2>1, <2>2, <2>3 DEF Under
  <2> QED BY <2>4
<1>4. CASE k > Len(a)
  <2>1. k - Len(a) \in 1..Len(b) /\ c[k] = b[k - Len(a)]
    BY <1>1, <1>4
  <2>2. PICK j \in 1..(k - Len(a) - 1) : Under(b, k - Len(a), j)
    BY <2>1, <1>2 DEF AllUnder
  <2>3. j \in 1..Len(b) /\ Len(a) + j \in 1..(k - 1) /\ c[Len(a) + j] = b[j]
    BY <1>1, <2>1, <2>2
  <2>4. ASSUME NEW m \in (Len(a) + j + 1)..(k - 1)
        PROVE  c[m].kind \in {"stats", "table", "metric"}
    <3>1. m \in 1..Len(c) /\ m > Len(a) /\ m - Len(a) \in (j + 1)..(k - Len(a) - 1)
      BY <1>1, <2>1, <2>2
    <3>2. c[m] = b[m - Len(a)]
      BY <1>1, <3>1
    <3> QED BY <2>2, <3>1, <3>2 DEF Under
  <2>5. Under(c, k, Len(a) + j)
    BY <2>1, <2>2, <2>3, <2>4 DEF Under
  <2> QED BY <2>3, <2>5
<1> QED BY <1>1, <1>3, <1>4

LEMMA EndJoined ==
    ASSUME NEW a, NEW b, a \in Seq(ToSet(a)), b \in Seq(ToSet(b)),
           NEW name, EndsWith(b, name)
    PROVE  EndsWith(a \o b, name)
<1> DEFINE c == a \o b
<1>1. /\ Len(a) \in Nat /\ Len(b) \in Nat /\ Len(c) = Len(a) + Len(b)
      /\ \A k \in 1..Len(b) : c[Len(a) + k] = b[k]
      /\ \A k \in 1..Len(c) : k > Len(a) =>
            k - Len(a) \in 1..Len(b) /\ c[k] = b[k - Len(a)]
  BY Joined
<1> HIDE DEF c
<1>2. PICK j \in 1..Len(b) :
        /\ b[j].kind = "row" /\ b[j].result.name = name
        /\ \A m \in (j + 1)..Len(b) : b[m].kind \in {"stats", "table", "metric"}
  BY DEF EndsWith
<1>3. Len(a) + j \in 1..Len(c) /\ c[Len(a) + j] = b[j]
  BY <1>1
<1>4. ASSUME NEW m \in (Len(a) + j + 1)..Len(c)
      PROVE  c[m].kind \in {"stats", "table", "metric"}
  <2>1. m \in 1..Len(c) /\ m > Len(a) /\ m - Len(a) \in (j + 1)..Len(b)
    BY <1>1
  <2>2. c[m] = b[m - Len(a)]
    BY <1>1, <2>1
  <2> QED BY <1>2, <2>1, <2>2
<1>5. EndsWith(c, name)
  BY <1>2, <1>3, <1>4 DEF EndsWith
<1> QED BY <1>5 DEF c

\* A top-down block that follows the lines of its binary.
LEMMA UnderClosed ==
    ASSUME NEW s, s \in Seq(ToSet(s)), AllUnder(s), NEW x, EndsWith(s, x.name),
           x.kind = "topdown"
    PROVE  AllUnder(s \o <<x>>)
<1> DEFINE b == <<x>>
           c == s \o b
<1>1. b \in Seq({x}) /\ Len(b) = 1 /\ b[1] = x
  OBVIOUS
<1> HIDE DEF b
<1>2. b \in Seq(ToSet(b))
  BY <1>1, Members
<1>3. /\ Len(s) \in Nat /\ Len(c) = Len(s) + 1
      /\ \A k \in 1..Len(s) : c[k] = s[k]
      /\ c[Len(s) + 1] = x
  <2>1. /\ Len(s) \in Nat /\ Len(c) = Len(s) + Len(b)
        /\ \A k \in 1..Len(s) : c[k] = s[k]
        /\ \A k \in 1..Len(b) : c[Len(s) + k] = b[k]
    BY <1>2, Joined
  <2>2. 1 \in 1..Len(b)
    BY <1>1
  <2> QED BY <1>1, <2>1, <2>2
<1> HIDE DEF c
<1>4. PICK j \in 1..Len(s) :
        /\ s[j].kind = "row" /\ s[j].result.name = x.name
        /\ \A m \in (j + 1)..Len(s) : s[m].kind \in {"stats", "table", "metric"}
  BY DEF EndsWith
<1>5. Under(c, Len(s) + 1, j)
  <2>1. c[j] = s[j] /\ \A m \in (j + 1)..(Len(s) + 1 - 1) : m \in (j + 1)..Len(s)
                                                         /\ c[m] = s[m]
    BY <1>3
  <2> QED BY <1>3, <1>4, <2>1 DEF Under
<1>6. SUFFICES ASSUME NEW k \in 1..Len(c), c[k].kind \in {"topdown", "metric"}
               PROVE  \E q \in 1..(k - 1) : Under(c, k, q)
  BY DEF AllUnder, c, b
<1>7. CASE k = Len(s) + 1
  <2>1. j \in 1..(k - 1)
    BY <1>3, <1>7
  <2> QED BY <1>5, <1>7, <2>1
<1>8. CASE k # Len(s) + 1
  <2>1. k \in 1..Len(s) /\ c[k] = s[k]
    BY <1>3, <1>8
  <2>2. PICK q \in 1..(k - 1) : Under(s, k, q)
    BY <2>1, <1>6 DEF AllUnder
  <2>3. q \in 1..Len(s) /\ \A m \in (q + 1)..(k - 1) : m \in 1..Len(s)
    BY <1>3, <2>1, <2>2
  <2>4. Under(c, k, q)
    BY <1>3, <2>1, <2>2, <2>3 DEF Under
  <2> QED BY <2>4
<1> QED BY <1>7, <1>8

LEMMA TrailingJoined ==
    ASSUME NEW name, NEW a, NEW b, Trailing(a, name), Trailing(b, name)
    PROVE  Trailing(a \o b, name)
<1> DEFINE c == a \o b
<1>1. a \in Seq(ToSet(a)) /\ b \in Seq(ToSet(b))
  BY DEF Trailing
<1>2. /\ Len(a) \in Nat /\ Len(b) \in Nat /\ Len(c) = Len(a) + Len(b)
      /\ c \in Seq(ToSet(c))
      /\ \A k \in 1..Len(a) : c[k] = a[k]
      /\ \A k \in 1..Len(c) : k > Len(a) =>
            k - Len(a) \in 1..Len(b) /\ c[k] = b[k - Len(a)]
  BY <1>1, Joined
<1> HIDE DEF c
<1>3. ASSUME NEW k \in 1..Len(c)
      PROVE  /\ c[k].kind \in {"stats", "table", "metric"}
             /\ c[k].kind = "metric" => c[k].name = name
  <2>1. CASE k <= Len(a)
    BY <1>2, <2>1 DEF Trailing
  <2>2. CASE k > Len(a)
    BY <1>2, <2>2 DEF Trailing
  <2> QED BY <1>2, <2>1, <2>2
<1>4. Trailing(c, name)
  BY <1>2, <1>3 DEF Trailing
<1> QED BY <1>4 DEF c

LEMMA LinesUnder ==
    ASSUME opts \in OptionsType, NEW v
    PROVE  /\ Lines(v) \in Seq(ToSet(Lines(v)))
           /\ AllUnder(Lines(v)) /\ EndsWith(Lines(v), v[1].name)
<1> DEFINE name == v[1].name
           head == <<RowOf(v)>>
           rest == StatsPart(v) \o (TablePart(v) \o MetricPart(v))
<1>1. /\ Uniform(head, "row") /\ Uniform(StatsPart(v), "stats")
      /\ Uniform(TablePart(v), "table") /\ Uniform(MetricPart(v), "metric")
      /\ Lines(v) = head \o rest
  BY PartsAre
<1>2. Trailing(StatsPart(v), name) /\ Trailing(TablePart(v), name)
  <2>1. \A k \in 1..Len(StatsPart(v)) : StatsPart(v)[k].kind = "stats"
    BY <1>1 DEF Uniform
  <2>2. \A k \in 1..Len(TablePart(v)) : TablePart(v)[k].kind = "table"
    BY <1>1 DEF Uniform
  <2> QED BY <1>1, <2>1, <2>2 DEF Trailing, Uniform
<1>3. Trailing(MetricPart(v), name)
  <2>1. \A k \in 1..Len(MetricPart(v)) : MetricPart(v)[k].kind = "metric"
    BY <1>1 DEF Uniform
  <2>2. \A k \in 1..Len(MetricPart(v)) : MetricPart(v)[k].name = name
    <3>1. CASE MetricPart(v) = <<>>
      BY <3>1
    <3>2. CASE opts.metrics # NoWord /\ MetricPart(v) = MetricLines(v)
      BY <3>2, MetricLinesAre
    <3> QED BY <3>1, <3>2 DEF MetricPart, Part
  <2> QED BY <1>1, <2>1, <2>2 DEF Trailing, Uniform
<1>4. Trailing(rest, name)
  <2>1. Trailing(TablePart(v) \o MetricPart(v), name)
    <3> HIDE DEF name
    <3> QED BY <1>2, <1>3, TrailingJoined
  <2> HIDE DEF name
  <2> QED BY <1>2, <2>1, TrailingJoined
<1>5. /\ head \in Seq(ToSet(head)) /\ rest \in Seq(ToSet(rest))
      /\ Len(head) = 1 /\ head[1].kind = "row" /\ head[1].result.name = name
  BY <1>1, <1>4 DEF Trailing, Uniform, RowOf, Collapse
<1> HIDE DEF head, rest, name
<1> DEFINE c == head \o rest
<1>6. /\ Len(rest) \in Nat /\ Len(c) = 1 + Len(rest) /\ c \in Seq(ToSet(c))
      /\ c[1] = head[1]
      /\ \A k \in 1..Len(c) : k > 1 => k - 1 \in 1..Len(rest) /\ c[k] = rest[k - 1]
  <2>1. /\ Len(rest) \in Nat /\ Len(c) = Len(head) + Len(rest) /\ c \in Seq(ToSet(c))
        /\ \A k \in 1..Len(head) : c[k] = head[k]
        /\ \A k \in 1..Len(c) : k > Len(head) =>
              k - Len(head) \in 1..Len(rest) /\ c[k] = rest[k - Len(head)]
    BY <1>5, Joined
  <2> HIDE DEF c
  <2> QED BY <1>5, <2>1
<1> HIDE DEF c
<1>7. \A m \in 2..Len(c) : /\ c[m].kind \in {"stats", "table", "metric"}
                           /\ c[m].kind = "metric" => c[m].name = name
  BY <1>4, <1>6 DEF Trailing
<1>8. EndsWith(c, name)
  <2>1. 1 \in 1..Len(c) /\ \A m \in (1 + 1)..Len(c) : m \in 2..Len(c)
    BY <1>6
  <2> QED BY <1>5, <1>6, <1>7, <2>1 DEF EndsWith
<1>9. AllUnder(c)
  <2> SUFFICES ASSUME NEW k \in 1..Len(c), c[k].kind \in {"topdown", "metric"}
               PROVE  \E j \in 1..(k - 1) : Under(c, k, j)
    BY DEF AllUnder
  <2>1. k # 1
    BY <1>5, <1>6
  <2>2. k \in 2..Len(c) /\ 1 \in 1..(k - 1)
    BY <1>6, <2>1
  <2>5. c[k].kind = "metric" /\ c[k].name = name
    BY <1>7, <2>2
  <2>3. \A m \in (1 + 1)..(k - 1) : m \in 2..Len(c)
    BY <1>6
  <2>4. Under(c, k, 1)
    BY <1>5, <1>6, <1>7, <2>2, <2>3, <2>5 DEF Under
  <2> QED BY <2>2, <2>4
<1> QED BY <1>1, <1>6, <1>8, <1>9 DEF c, name

-----------------------------------------------------------------------------
(* The lines of one kind *)

\* The lines of a kind.
Of(s, kind) == Kept(s, {line \in ToSet(s) : line.kind = kind})

LEMMA OfJoined ==
    ASSUME NEW a, NEW b, a \in Seq(ToSet(a)), b \in Seq(ToSet(b)), NEW kind
    PROVE  /\ Of(a \o b, kind) = Of(a, kind) \o Of(b, kind)
           /\ Of(a, kind) \in Seq(ToSet(a))
<1> DEFINE T == ToSet(a) \cup ToSet(b)
           S == {line \in T : line.kind = kind}
           A == {line \in ToSet(a) : line.kind = kind}
           B == {line \in ToSet(b) : line.kind = kind}
<1>1. ToSet(a \o b) = T
  BY Joined
<1>2. a \in Seq(T) /\ b \in Seq(T)
  BY Members
<1>3. /\ \A x \in ToSet(a) : x \in S <=> x \in A
      /\ \A x \in ToSet(b) : x \in S <=> x \in B
  OBVIOUS
<1>4. Of(a \o b, kind) = Kept(a \o b, S) /\ Of(a, kind) = Kept(a, A)
      /\ Of(b, kind) = Kept(b, B)
  BY <1>1 DEF Of
<1>7. Kept(a, A) \in Seq(ToSet(a) \cap A)
  BY KeptType
<1>8. Kept(a, A) \in Seq(ToSet(a))
  <2>1. ToSet(a) \cap A \subseteq ToSet(a)
    OBVIOUS
  <2> HIDE DEF A
  <2> QED BY <1>7, <2>1
<1> HIDE DEF T, S, A, B
<1>5. Kept(a \o b, S) = Kept(a, S) \o Kept(b, S)
  BY <1>2, KeptJoined
<1>6. Kept(a, S) = Kept(a, A) /\ Kept(b, S) = Kept(b, B)
  BY <1>3, KeptSame
<1> QED BY <1>4, <1>5, <1>6, <1>8

LEMMA OfUniform ==
    ASSUME NEW s, NEW own, Uniform(s, own), NEW kind
    PROVE  Of(s, kind) = IF kind = own THEN s ELSE <<>>
<1> DEFINE S == {line \in ToSet(s) : line.kind = kind}
<1>1. s \in Seq(ToSet(s)) /\ \A x \in ToSet(s) : x.kind = own
  BY DEF Uniform, ToSet
<1>2. kind = own => \A x \in ToSet(s) : x \in S
  BY <1>1
<1>3. kind # own => \A x \in ToSet(s) : x \notin S
  BY <1>1
<1>4. Of(s, kind) = Kept(s, S)
  BY DEF Of
<1> HIDE DEF S
<1> QED BY <1>1, <1>2, <1>3, <1>4, KeptAll

-----------------------------------------------------------------------------
(* The statistics *)

\* The quotient encloses what is divided.
LEMMA Quotient ==
    ASSUME NEW a \in Int, NEW d \in Nat, d # 0
    PROVE  a \div d \in Int /\ d * (a \div d) <= a /\ a < d * (a \div d + 1)
  OBVIOUS

\* A nonempty set of bounded naturals has a least and a greatest member.
LEMMA Extremes ==
    ASSUME NEW n \in Nat, NEW S \in SUBSET (0..n), S # {}
    PROVE  /\ Min(S) \in S /\ \A y \in S : Min(S) <= y
           /\ Max(S) \in S /\ \A y \in S : Max(S) >= y
<1>1. PICK m \in S : \A y \in S : m <= y
  <2>1. S \in SUBSET Nat
    OBVIOUS
  <2> QED BY <2>1, LeastNumber
<1> DEFINE T == {n - y : y \in S}
<1>2. T \in SUBSET Nat /\ T # {}
  <2>1. \A y \in S : n - y \in Nat
    OBVIOUS
  <2> QED BY <2>1
<1> HIDE DEF T
<1>3. PICK d \in T : \A y \in T : d <= y
  BY <1>2, LeastNumber
<1>4. PICK g \in S : d = n - g
  BY <1>3 DEF T
<1>5. \A y \in S : g >= y
  <2> SUFFICES ASSUME NEW y \in S PROVE g >= y
    OBVIOUS
  <2>1. n - y \in T
    BY DEF T
  <2>2. n - g <= n - y
    BY <1>3, <1>4, <2>1
  <2> QED BY <2>2
<1> QED BY <1>1, <1>5 DEF Min, Max

\* A sum of numbers is within the number of them times their bounds.
LEMMA SumBounds ==
    ASSUME NEW v \in Seq(Nat), NEW lo \in Nat, NEW hi \in Nat,
           \A k \in 1..Len(v) : lo <= v[k] /\ v[k] <= hi
    PROVE  Sum(v) \in Nat /\ Len(v) * lo <= Sum(v) /\ Sum(v) <= Len(v) * hi
<1> DEFINE n == Len(v)
<1>1. PICK t \in [0..n -> Nat] :
               /\ t[0] = 0 /\ t[n] = Sum(v)
               /\ \A k \in 1..n : t[k] = t[k - 1] + v[k]
  <2>1. Summed(v, Nat)
    BY DEF Summed
  <2> QED BY <2>1, SumLoop
<1> DEFINE T == {k \in 0..n : k * lo <= t[k] /\ t[k] <= k * hi}
<1>2. n \in Nat
  OBVIOUS
<1>3. 0 \in T
  BY <1>1, <1>2
<1>4. ASSUME NEW k \in 0..(n - 1), k \in T PROVE k + 1 \in T
  <2>1. k + 1 \in 1..n /\ k + 1 \in 0..n /\ (k + 1) - 1 = k
    BY <1>2
  <2>2. t[k + 1] = t[k] + v[k + 1] /\ lo <= v[k + 1] /\ v[k + 1] <= hi
    BY <1>1, <2>1
  <2>3. t[k] \in Nat /\ v[k + 1] \in Nat /\ k \in Nat
    BY <2>1
  <2>4. (k + 1) * lo = k * lo + lo /\ (k + 1) * hi = k * hi + hi
    BY <2>3
  <2>5. k * lo \in Nat /\ k * hi \in Nat
    BY <2>3
  <2>6. (k + 1) * lo <= t[k + 1] /\ t[k + 1] <= (k + 1) * hi
    <3>1. k * lo <= t[k] /\ t[k] <= k * hi
      BY <1>4
    <3> QED BY <2>2, <2>3, <2>4, <2>5, <3>1
  <2> QED BY <2>1, <2>6
<1>5. 0..n \subseteq T
  <2> HIDE DEF T
  <2> QED BY <1>2, <1>3, <1>4, UpToInduction
<1>6. n \in T
  BY <1>2, <1>5
<1>7. t[n] \in Nat
  BY <1>1, <1>2
<1> QED BY <1>1, <1>6, <1>7

LEMMA MeanEnclosed ==
    ASSUME NEW v \in Seq(Nat), NEW lo \in Nat, NEW hi \in Nat, v # <<>>,
           \A k \in 1..Len(v) : lo <= v[k] /\ v[k] <= hi
    PROVE  Mean(v) \in Int /\ lo <= Mean(v) /\ Mean(v) <= hi
<1> DEFINE n == Len(v)
           s == Sum(v)
           q == s \div n
<1>1. n \in Nat /\ n # 0
  OBVIOUS
<1>2. s \in Nat /\ n * lo <= s /\ s <= n * hi
  BY SumBounds
<1> HIDE DEF n, s
<1>3. q \in Int /\ n * q <= s /\ s < n * (q + 1)
  BY <1>1, <1>2, Quotient
<1> HIDE DEF q
<1>4. lo <= q
  <2>1. n * lo < n * (q + 1)
    BY <1>1, <1>2, <1>3
  <2>2. lo < q + 1
    <3> SUFFICES ASSUME lo >= q + 1 PROVE FALSE
      BY <1>3
    <3>1. n * lo >= n * (q + 1)
      <4>1. n * (lo - (q + 1)) >= 0
        BY <1>1, <1>3
      <4>2. n * (lo - (q + 1)) = n * lo - n * (q + 1)
        BY <1>1, <1>3
      <4> QED BY <4>1, <4>2, <1>1, <1>3
    <3> QED BY <1>1, <1>3, <2>1, <3>1
  <2> QED BY <1>3, <2>2
<1>5. q <= hi
  <2> SUFFICES ASSUME q > hi PROVE FALSE
    BY <1>3
  <2>1. n * q <= n * hi
    BY <1>1, <1>2, <1>3
  <2>2. n * (q - hi) >= 1
    BY <1>1, <1>3
  <2>3. n * (q - hi) = n * q - n * hi
    BY <1>1, <1>3
  <2> QED BY <1>1, <1>3, <2>1, <2>2, <2>3
<1>6. Mean(v) = q
  BY DEF Mean, n, s, q
<1> QED BY <1>3, <1>4, <1>5, <1>6

LEMMA VarianceType ==
    ASSUME NEW v \in Seq(Nat), Len(v) > 1
    PROVE  Variance(v) \in Int
<1> DEFINE n == Len(v)
           s == Sum(v)
           Squares == [j \in 1..n |-> (n * v[j] - s) * (n * v[j] - s)]
<1>1. n \in Nat /\ n > 1
  OBVIOUS
<1>2. s \in Nat
  BY SumType DEF Summed
<1>3. Squares \in [1..n -> Int]
  BY <1>1, <1>2
<1>4. Squares \in Seq(Int)
  <2> HIDE DEF Squares
  <2> QED BY <1>1, <1>3, SequenceOf
<1>5. Sum(Squares) \in Int
  <2> HIDE DEF Squares
  <2> QED BY <1>4, SumType DEF Summed
<1>6. n * n * (n - 1) \in Nat /\ n * n * (n - 1) # 0
  BY <1>1
<1>7. Variance(v) = Sum(Squares) \div (n * n * (n - 1))
  BY DEF Variance
<1> HIDE DEF Squares, n
<1> QED BY <1>5, <1>6, <1>7

\* One step of Newton's method from below or above ends less than 1 below the
\* root.
LEMMA NewtonStep ==
    ASSUME NEW x \in Nat, x # 0, NEW g \in Nat, g # 0
    PROVE  LET f == (g + x \div g) \div 2
           IN  f \in Nat /\ f # 0 /\ (f + 1) * (f + 1) > x
<1> DEFINE q == x \div g
           h == g + q
           f == h \div 2
<1>1. q \in Int /\ g * q <= x /\ x < g * (q + 1)
  BY Quotient
<1> HIDE DEF q
<1>2. q >= 0
  <2> SUFFICES ASSUME q < 0 PROVE FALSE
    BY <1>1
  <2>1. q + 1 <= 0
    BY <1>1
  <2>2. g * (q + 1) <= 0
    BY <1>1, <2>1
  <2>3. g * (q + 1) \in Int
    BY <1>1
  <2> QED BY <1>1, <2>2, <2>3
<1>3. h \in Nat /\ h >= 2
  <2>1. CASE g = 1
    <3>1. x < q + 1
      BY <1>1, <2>1
    <3> QED BY <1>1, <1>2, <2>1, <3>1
  <2>2. CASE g # 1
    BY <1>1, <1>2, <2>2
  <2> QED BY <2>1, <2>2
<1> HIDE DEF h
<1>4. f \in Int /\ 2 * f <= h /\ h < 2 * (f + 1)
  BY <1>3, Quotient
<1> HIDE DEF f
<1>5. f \in Nat /\ f # 0
  BY <1>3, <1>4
<1>6. (f + 1) * (f + 1) > x
  <2> DEFINE b == q + 1
             m == f + 1
  <2>1. b \in Nat /\ m \in Nat /\ g * b > x /\ 2 * m >= g + b
    BY <1>1, <1>2, <1>4, <1>5 DEF h
  <2> HIDE DEF b, m
  <2>2. (g - b) * (g - b) >= 0
    BY <2>1
  <2>3. (g + b) * (g + b) = (g - b) * (g - b) + 4 * (g * b)
    BY <2>1
  <2>4. (2 * m) * (2 * m) >= (g + b) * (g + b)
    BY <2>1
  <2>5. (2 * m) * (2 * m) = 4 * (m * m)
    BY <2>1
  <2>6. g * b \in Int /\ m * m \in Int /\ (g - b) * (g - b) \in Int
    BY <2>1
  <2>7. m * m > x
    BY <2>1, <2>2, <2>3, <2>4, <2>5, <2>6
  <2> QED BY <2>7 DEF m
<1> QED BY <1>5, <1>6 DEF f, h, q

\* Newton never ends 1 or more below the root.
LEMMA NewtonAbove ==
    ASSUME NEW x \in Nat, x # 0
    PROVE  Newton(x) \in Nat /\ (Newton(x) + 1) * (Newton(x) + 1) > x
<1> DEFINE V == Nat \ {0}
           step == [k \in 1..12 |-> [g \in V |-> (g + x \div g) \div 2]]
           P(f) == f = [j \in 0..12 |->
                          IF j = 0 THEN x ELSE (f[j - 1] + x \div f[j - 1]) \div 2]
           root == CHOOSE f : P(f)
<1>1. Newton(x) = root[12]
  BY DEF Newton
<1>2. ASSUME NEW g \in V PROVE (g + x \div g) \div 2 \in V
  BY NewtonStep
<1>3. Recursion(12, V, x, step)
  BY <1>2 DEF Recursion
<1>4. ASSUME NEW k \in 1..12, NEW g \in V PROVE step[k][g] = (g + x \div g) \div 2
  OBVIOUS
<1> HIDE DEF step
<1>5. PICK f \in [0..12 -> V] : Follows(f, 12, x, step)
  BY <1>3, RecursionExists
<1>6. P(f)
  <2>1. f[0] = x
    BY <1>5 DEF Follows
  <2>2. ASSUME NEW j \in 0..12, j # 0
        PROVE  f[j] = (f[j - 1] + x \div f[j - 1]) \div 2
    <3>1. j \in 1..12 /\ j - 1 \in 0..12
      BY <2>2
    <3>2. f[j] = step[j][f[j - 1]] /\ f[j - 1] \in V
      BY <1>5, <3>1 DEF Follows
    <3> QED BY <1>4, <3>1, <3>2
  <2> QED BY <2>1, <2>2
<1>7. P(root)
  <2> HIDE DEF P
  <2> QED BY <1>6
<1> HIDE DEF root
<1>8. root[0] = x /\ \A j \in 1..12 : root[j] = (root[j - 1] + x \div root[j - 1]) \div 2
  <2>1. \A j \in 0..12 : root[j] =
           IF j = 0 THEN x ELSE (root[j - 1] + x \div root[j - 1]) \div 2
    BY <1>7
  <2> QED BY <2>1
<1> DEFINE T == {j \in 0..12 : root[j] \in V}
<1>9. 0..12 \subseteq T
  <2>1. 0 \in T
    BY <1>8
  <2>2. ASSUME NEW j \in 0..(12 - 1), j \in T PROVE j + 1 \in T
    <3>1. j + 1 \in 1..12 /\ j + 1 \in 0..12 /\ (j + 1) - 1 = j /\ root[j] \in V
      BY <2>2
    <3>2. root[j + 1] = (root[j] + x \div root[j]) \div 2
      BY <1>8, <3>1
    <3>3. root[j + 1] \in V
      BY <1>2, <3>1, <3>2
    <3> QED BY <3>1, <3>3
  <2> HIDE DEF T
  <2> QED BY <2>1, <2>2, UpToInduction
<1>10. root[11] \in V /\ root[12] = (root[11] + x \div root[11]) \div 2
  <2>1. 11 \in 0..12 /\ 12 \in 1..12 /\ 12 - 1 = 11
    OBVIOUS
  <2>2. root[12] = (root[12 - 1] + x \div root[12 - 1]) \div 2
    BY <1>8, <2>1
  <2> QED BY <1>9, <2>1, <2>2
<1> DEFINE g == root[11]
           f12 == (g + x \div g) \div 2
<1>11. f12 \in Nat /\ (f12 + 1) * (f12 + 1) > x
  <2>1. g \in Nat /\ g # 0
    BY <1>10
  <2> HIDE DEF g
  <2> QED BY <2>1, NewtonStep
<1> QED BY <1>1, <1>10, <1>11

\* What compute_stats says of runs encloses them.
Encloses(s, v) ==
    /\ {s.mn, s.mx} \subseteq ToSet(v)
    /\ s.mn <= s.mean /\ s.mean <= s.mx
    /\ \A j \in 1..Len(v) : s.mn <= v[j] /\ v[j] <= s.mx
    /\ Len(v) > 1 => (s.stddev + 1) * (s.stddev + 1) > Variance(v)

LEMMA StatsEncloseRuns ==
    ASSUME NEW v \in Seq(Nat), v # <<>>
    PROVE  Encloses(ComputeStats(v), v)
<1> DEFINE s == ComputeStats(v)
           S == ToSet(v)
           t == Sum(v)
<1>1. Len(v) \in Nat /\ Len(v) >= 1 /\ \A j \in 1..Len(v) : v[j] \in S /\ v[j] \in Nat
  BY Members
<1>2. t \in Nat
  BY SumType DEF Summed
<1>3. \A j \in 1..Len(v) : v[j] <= t
  <2>1. PICK u \in [0..Len(v) -> Nat] :
               /\ u[0] = 0 /\ u[Len(v)] = t
               /\ \A k \in 1..Len(v) : u[k] = u[k - 1] + v[k]
    <3>1. Summed(v, Nat)
      BY DEF Summed
    <3> QED BY <3>1, SumLoop
  <2> DEFINE T == {k \in 0..Len(v) : \A j \in 1..k : v[j] <= u[k]}
  <2>2. 0 \in T
    BY <1>1
  <2>3. ASSUME NEW k \in 0..(Len(v) - 1), k \in T PROVE k + 1 \in T
    <3>1. k + 1 \in 1..Len(v) /\ k + 1 \in 0..Len(v) /\ (k + 1) - 1 = k
      BY <1>1
    <3>2. u[k + 1] = u[k] + v[k + 1] /\ u[k] \in Nat /\ v[k + 1] \in Nat
      <4>1. k \in 0..Len(v) /\ u[k + 1] = u[(k + 1) - 1] + v[k + 1]
        BY <1>1, <2>1, <3>1
      <4>2. u[k] \in Nat /\ v[k + 1] \in Nat
        BY <1>1, <3>1, <4>1
      <4> QED BY <3>1, <4>1, <4>2
    <3>3. ASSUME NEW j \in 1..(k + 1) PROVE v[j] <= u[k + 1]
      <4>1. CASE j = k + 1
        BY <4>1, <3>2
      <4>2. CASE j # k + 1
        <5>1. j \in 1..k /\ j \in 1..Len(v)
          BY <1>1, <4>2
        <5>2. v[j] <= u[k] /\ v[j] \in Nat
          BY <1>1, <2>3, <5>1
        <5> QED BY <3>2, <5>2
      <4> QED BY <4>1, <4>2
    <3> QED BY <3>1, <3>3
  <2>4. 0..Len(v) \subseteq T
    <3> HIDE DEF T
    <3> QED BY <1>1, <2>2, <2>3, UpToInduction
  <2>5. Len(v) \in T
    BY <1>1, <2>4
  <2> QED BY <2>1, <2>5
<1>4. S \in SUBSET (0..t) /\ S # {}
  <2>1. S = {v[j] : j \in 1..Len(v)}
    BY DEF ToSet
  <2>2. \A j \in 1..Len(v) : v[j] \in 0..t
    BY <1>1, <1>2, <1>3
  <2>3. v[1] \in S
    BY <1>1
  <2> QED BY <2>1, <2>2, <2>3
<1> HIDE DEF S, t
<1>5. /\ Min(S) \in S /\ \A y \in S : Min(S) <= y
      /\ Max(S) \in S /\ \A y \in S : Max(S) >= y
  BY <1>2, <1>4, Extremes
<1>6. Min(S) \in Nat /\ Max(S) \in Nat
  <2>1. \A y \in S : y \in Nat
    BY <1>2, <1>4
  <2> QED BY <1>5, <2>1
<1>7. \A j \in 1..Len(v) : Min(S) <= v[j] /\ v[j] <= Max(S)
  BY <1>1, <1>5, <1>6
<1>8. Min(S) <= Mean(v) /\ Mean(v) <= Max(S)
  BY <1>6, <1>7, MeanEnclosed
<1>9. /\ s.mn = Min(S) /\ s.mx = Max(S) /\ s.mean = Mean(v) /\ s.stddev = Stddev(v)
  BY DEF ComputeStats, S
<1>10. ASSUME Len(v) > 1 PROVE (Stddev(v) + 1) * (Stddev(v) + 1) > Variance(v)
  <2>1. Variance(v) \in Int
    BY <1>10, VarianceType
  <2>2. CASE Variance(v) > 0
    <3>1. Variance(v) \in Nat /\ Variance(v) # 0 /\ Stddev(v) = Newton(Variance(v))
      BY <1>10, <2>1, <2>2 DEF Stddev
    <3> QED BY <3>1, NewtonAbove
  <2>3. CASE ~(Variance(v) > 0)
    <3>1. Stddev(v) = 0
      BY <1>10, <2>3 DEF Stddev
    <3> QED BY <2>1, <2>3, <3>1
  <2> QED BY <2>2, <2>3
<1> HIDE DEF s
<1>11. Encloses(s, v)
  BY <1>5, <1>7, <1>8, <1>9, <1>10 DEF Encloses, S
<1> QED BY <1>11 DEF s

-----------------------------------------------------------------------------
(* What a report shows *)

\* The lines of each kind among those about one binary.
LEMMA OfLines ==
    ASSUME opts \in OptionsType, NEW v
    PROVE  /\ Of(Lines(v), "row") = <<RowOf(v)>>
           /\ Of(Lines(v), "stats") = StatsPart(v)
           /\ Of(Lines(v), "table") = TablePart(v)
           /\ Of(Lines(v), "metric") = MetricPart(v)
           /\ Of(Lines(v), "header") = <<>> /\ Of(Lines(v), "topdown") = <<>>
<1> DEFINE a == <<RowOf(v)>>
           b == StatsPart(v)
           c == TablePart(v)
           d == MetricPart(v)
<1>1. /\ Uniform(a, "row") /\ Uniform(b, "stats") /\ Uniform(c, "table")
      /\ Uniform(d, "metric") /\ Lines(v) = a \o (b \o (c \o d))
  BY PartsAre
<1> HIDE DEF a, b, c, d
<1>2. /\ a \in Seq(ToSet(a)) /\ b \in Seq(ToSet(b)) /\ c \in Seq(ToSet(c))
      /\ d \in Seq(ToSet(d))
  BY <1>1 DEF Uniform
<1>3. c \o d \in Seq(ToSet(c \o d)) /\ b \o (c \o d) \in Seq(ToSet(b \o (c \o d)))
  <2>1. c \o d \in Seq(ToSet(c \o d))
    BY <1>2, Joined
  <2> DEFINE e == c \o d
  <2>2. e \in Seq(ToSet(e))
    BY <2>1
  <2> HIDE DEF e
  <2>3. b \o e \in Seq(ToSet(b \o e))
    BY <1>2, <2>2, Joined
  <2> QED BY <2>1, <2>3 DEF e
<1>4. \A kind : Of(Lines(v), kind) = Of(a, kind) \o (Of(b, kind) \o (Of(c, kind) \o Of(d, kind)))
  <2> SUFFICES ASSUME NEW kind
               PROVE  Of(Lines(v), kind)
                        = Of(a, kind) \o (Of(b, kind) \o (Of(c, kind) \o Of(d, kind)))
    OBVIOUS
  <2>1. Of(c \o d, kind) = Of(c, kind) \o Of(d, kind)
    BY <1>2, OfJoined
  <2> DEFINE e == c \o d
             f == b \o e
  <2>2. e \in Seq(ToSet(e)) /\ f \in Seq(ToSet(f)) /\ Lines(v) = a \o f
    BY <1>1, <1>3
  <2> HIDE DEF e
  <2>3. Of(f, kind) = Of(b, kind) \o Of(e, kind)
    BY <1>2, <2>2, OfJoined
  <2> HIDE DEF f
  <2>4. Of(a \o f, kind) = Of(a, kind) \o Of(f, kind)
    BY <1>2, <2>2, OfJoined
  <2> QED BY <2>1, <2>2, <2>3, <2>4 DEF e
<1>5. \A kind : /\ Of(a, kind) = IF kind = "row" THEN a ELSE <<>>
                /\ Of(b, kind) = IF kind = "stats" THEN b ELSE <<>>
                /\ Of(c, kind) = IF kind = "table" THEN c ELSE <<>>
                /\ Of(d, kind) = IF kind = "metric" THEN d ELSE <<>>
  BY <1>1, OfUniform
<1>6. ASSUME NEW s, s \in Seq(ToSet(s)) PROVE s \o <<>> = s /\ <<>> \o s = s
  <2> DEFINE T == ToSet(s)
  <2>1. s \in Seq(T)
    BY <1>6
  <2> HIDE DEF T
  <2> QED BY <2>1
<1>7. <<>> \o <<>> = <<>>
  OBVIOUS
<1>8. Of(Lines(v), "row") = a \o <<>> /\ Of(Lines(v), "stats") = <<>> \o (b \o <<>>)
  <2>1. /\ Of(Lines(v), "row") = a \o (<<>> \o (<<>> \o <<>>))
        /\ Of(Lines(v), "stats") = <<>> \o (b \o (<<>> \o <<>>))
    BY <1>4, <1>5
  <2> QED BY <2>1, <1>7
<1>9. /\ Of(Lines(v), "table") = <<>> \o (<<>> \o (c \o <<>>))
      /\ Of(Lines(v), "metric") = <<>> \o (<<>> \o (<<>> \o d))
  BY <1>4, <1>5
<1>10. Of(Lines(v), "header") = <<>> /\ Of(Lines(v), "topdown") = <<>>
  BY <1>4, <1>5, <1>7
<1>11. /\ a \o <<>> = a /\ b \o <<>> = b /\ <<>> \o b = b /\ c \o <<>> = c
       /\ <<>> \o c = c /\ <<>> \o d = d
  BY <1>2, <1>6
<1>12. /\ Of(Lines(v), "row") = a /\ Of(Lines(v), "stats") = b
       /\ Of(Lines(v), "table") = c /\ Of(Lines(v), "metric") = d
  BY <1>8, <1>9, <1>11
<1> QED BY <1>10, <1>12 DEF a, b, c, d

\* The metrics of -M n times over.
Repeats(s, n) ==
    IF ~Separated /\ opts.metrics # NoWord
    THEN /\ Len(s) = n * Len(Shown)
         /\ \A k \in 1..Len(s) : s[k].metric = Shown[((k - 1) % Len(Shown)) + 1]
    ELSE s = <<>>

\* o shows the first m results and d top-down blocks, and each as asked.
Per(asked, m) == IF ~Separated /\ asked THEN m ELSE 0
Shows(o, m, d) ==
    /\ Of(o, "header") = HeaderLine
    /\ Of(o, "row") = [k \in 1..m |-> RowOf(all[k])]
    /\ Len(Of(o, "stats")) = Per(Repeated, m)
    /\ Len(Of(o, "table")) = Per(opts.table, m)
    /\ Len(Of(o, "topdown")) = Per(opts.topdown, d)
    /\ Repeats(Of(o, "metric"), m)

LEMMA Remainder ==
    ASSUME NEW m \in Nat, NEW d \in Nat, d # 0, NEW e \in 0..(d - 1)
    PROVE  (m * d + e) % d = e
<1> DEFINE x == m * d + e
           q == x \div d
<1>1. x \in Nat
  OBVIOUS
<1>2. q \in Int /\ d * q <= x /\ x < d * (q + 1) /\ x % d = x - d * q
  <2>1. x = m * d + e
    OBVIOUS
  <2> HIDE DEF x
  <2>2. q \in Int /\ d * q <= x /\ x < d * (q + 1)
    BY <1>1, Quotient
  <2>3. x % d = x - d * q
    BY <1>1
  <2> QED BY <2>2, <2>3
<1> HIDE DEF q
<1>3. q <= m
  <2> SUFFICES ASSUME q >= m + 1 PROVE FALSE
    BY <1>2
  <2>1. d * q >= d * (m + 1)
    BY <1>2
  <2>2. d * (m + 1) = m * d + d
    OBVIOUS
  <2> QED BY <1>2, <2>1, <2>2
<1>4. q >= m
  <2> SUFFICES ASSUME q + 1 <= m PROVE FALSE
    BY <1>2
  <2>1. d * (q + 1) <= d * m
    BY <1>2
  <2> QED BY <1>2, <2>1
<1>5. q = m
  BY <1>2, <1>3, <1>4
<1> QED BY <1>2, <1>5

LEMMA RepeatsMore ==
    ASSUME opts \in OptionsType, NEW s, s \in Seq(ToSet(s)), NEW m \in Nat, NEW v,
           Repeats(s, m)
    PROVE  Repeats(s \o MetricPart(v), m + 1)
<1>1. CASE ~(~Separated /\ opts.metrics # NoWord)
  <2>1. s = <<>> /\ MetricPart(v) = <<>> /\ <<>> \o <<>> = <<>>
    BY <1>1 DEF Repeats, MetricPart, Part
  <2>2. s \o MetricPart(v) = <<>>
    BY <2>1
  <2> QED BY <1>1, <2>2 DEF Repeats
<1>2. CASE ~Separated /\ opts.metrics # NoWord
  <2> DEFINE b == MetricPart(v)
             c == s \o b
             L == Len(Shown)
  <2>1. b = MetricLines(v)
    BY <1>2 DEF MetricPart, Part
  <2>2. /\ Uniform(b, "metric") /\ Len(b) = L
        /\ \A k \in 1..L : b[k].metric = Shown[k]
    BY <1>2, <2>1, MetricLinesAre
  <2>3. b \in Seq(ToSet(b)) /\ L \in Nat
    BY <1>2, <2>2, ShownType DEF Uniform
  <2>4. /\ Len(s) = m * L
        /\ \A k \in 1..Len(s) : s[k].metric = Shown[((k - 1) % L) + 1]
    BY <1>2 DEF Repeats
  <2> HIDE DEF b
  <2>5. /\ Len(s) \in Nat /\ Len(c) = Len(s) + Len(b)
        /\ \A k \in 1..Len(s) : c[k] = s[k]
        /\ \A k \in 1..Len(c) : k > Len(s) =>
              k - Len(s) \in 1..Len(b) /\ c[k] = b[k - Len(s)]
    BY <2>3, Joined
  <2> HIDE DEF c, L
  <2>6. Len(c) = (m + 1) * L
    <3>1. (m + 1) * L = m * L + L
      BY <2>3
    <3> QED BY <2>2, <2>4, <2>5, <3>1
  <2>7. ASSUME NEW k \in 1..Len(c) PROVE c[k].metric = Shown[((k - 1) % L) + 1]
    <3>1. CASE k <= Len(s)
      BY <2>4, <2>5, <3>1
    <3>2. CASE k > Len(s)
      <4> DEFINE j == k - Len(s)
      <4>1. j \in 1..L /\ c[k] = b[j]
        BY <2>2, <2>5, <3>2
      <4>2. k - 1 = m * L + (j - 1) /\ L # 0 /\ j - 1 \in 0..(L - 1)
        BY <2>3, <2>4, <2>5, <4>1
      <4> HIDE DEF j
      <4>3. (m * L + (j - 1)) % L = j - 1
        BY <2>3, <4>2, Remainder
      <4>4. ((k - 1) % L) + 1 = j
        BY <2>3, <4>1, <4>2, <4>3
      <4> QED BY <2>2, <4>1, <4>4
    <3> QED BY <2>5, <3>1, <3>2
  <2>8. Repeats(c, m + 1)
    BY <1>2, <2>6, <2>7 DEF Repeats, L
  <2> QED BY <2>8 DEF c, b
<1> QED BY <1>1, <1>2

\* The lines of another result.
LEMMA ShowsMore ==
    ASSUME opts \in OptionsType, NEW o, o \in Seq(ToSet(o)), NEW m \in Nat, NEW d,
           Shows(o, m, d)
    PROVE  Shows(o \o Lines(all[m + 1]), m + 1, d)
<1> DEFINE v == all[m + 1]
           b == Lines(v)
           c == o \o b
<1>1. b \in Seq(ToSet(b))
  BY LinesUnder
<1>2. /\ Of(b, "row") = <<RowOf(v)>> /\ Of(b, "stats") = StatsPart(v)
      /\ Of(b, "table") = TablePart(v) /\ Of(b, "metric") = MetricPart(v)
      /\ Of(b, "header") = <<>> /\ Of(b, "topdown") = <<>>
  BY OfLines
<1>3. \A kind : /\ Of(c, kind) = Of(o, kind) \o Of(b, kind)
                /\ Of(o, kind) \in Seq(ToSet(o))
  <2> HIDE DEF b
  <2> QED BY <1>1, OfJoined
<1>4. Of(c, "header") = HeaderLine
  <2>1. Of(o, "header") \o <<>> = Of(o, "header")
    BY <1>3
  <2> QED BY <1>2, <1>3, <2>1 DEF Shows
<1>5. Of(c, "row") = [k \in 1..(m + 1) |-> RowOf(all[k])]
  <2> DEFINE s == Of(o, "row")
             T == ToSet(o) \cup {RowOf(v)}
             f == [k \in 1..(m + 1) |-> RowOf(all[k])]
  <2>1. s = [k \in 1..m |-> RowOf(all[k])] /\ Of(c, "row") = s \o <<RowOf(v)>>
    BY <1>2, <1>3 DEF Shows
  <2>2. s \in Seq(ToSet(o)) /\ ToSet(o) \subseteq T /\ RowOf(v) \in T
    BY <1>3
  <2>3. Len(s) = m /\ \A k \in 1..m : s[k] = RowOf(all[k])
    BY <2>1
  <2> DEFINE x == RowOf(v)
  <2>4. x \in T /\ x = RowOf(all[m + 1])
    BY <2>2
  <2> HIDE DEF T, s, x
  <2>5. s \in Seq(T)
    BY <2>2
  <2>6. /\ s \o <<x>> \in Seq(T) /\ Len(s \o <<x>>) = m + 1
        /\ \A k \in 1..m : (s \o <<x>>)[k] = s[k]
        /\ (s \o <<x>>)[m + 1] = x
    BY <2>3, <2>4, <2>5
  <2> DEFINE q == s \o <<x>>
  <2>7. /\ q \in Seq(T) /\ Len(q) = m + 1 /\ \A k \in 1..(m + 1) : q[k] = RowOf(all[k])
    <3>1. \A k \in 1..(m + 1) : k \in 1..m \/ k = m + 1
      OBVIOUS
    <3> QED BY <2>3, <2>4, <2>6, <3>1
  <2> HIDE DEF q
  <2>8. q = [k \in 1..Len(q) |-> q[k]]
    BY <2>7
  <2>9. q = f
    BY <2>7, <2>8
  <2> QED BY <2>1, <2>9 DEF q, x
<1>6. Len(Of(c, "stats")) = Per(Repeated, m + 1)
  <2> DEFINE x == StatsOf("stats", v)
             s == Of(o, "stats")
  <2>1. Of(c, "stats") = s \o (IF ~Separated /\ Repeated THEN <<x>> ELSE <<>>)
    BY <1>2, <1>3 DEF StatsPart, Part
  <2>2. s \in Seq(ToSet(o)) /\ Len(s) = IF ~Separated /\ Repeated THEN m ELSE 0
    BY <1>3 DEF Shows, Per
  <2> HIDE DEF x, s
  <2>3. Len(s \o <<x>>) = Len(s) + 1 /\ Len(s \o <<>>) = Len(s)
    BY <2>2
  <2> QED BY <2>1, <2>2, <2>3 DEF Per
<1>7. Len(Of(c, "table")) = Per(opts.table, m + 1)
  <2> DEFINE x == StatsOf("table", v)
             s == Of(o, "table")
  <2>1. Of(c, "table") = s \o (IF ~Separated /\ opts.table THEN <<x>> ELSE <<>>)
    BY <1>2, <1>3 DEF TablePart, Part
  <2>2. s \in Seq(ToSet(o)) /\ Len(s) = IF ~Separated /\ opts.table THEN m ELSE 0
    BY <1>3 DEF Shows, Per
  <2> HIDE DEF x, s
  <2>3. Len(s \o <<x>>) = Len(s) + 1 /\ Len(s \o <<>>) = Len(s)
    BY <2>2
  <2> QED BY <2>1, <2>2, <2>3 DEF Per
<1>8. Len(Of(c, "topdown")) = Per(opts.topdown, d)
  <2>1. Of(o, "topdown") \o <<>> = Of(o, "topdown")
    BY <1>3
  <2> QED BY <1>2, <1>3, <2>1 DEF Shows
<1>9. Repeats(Of(c, "metric"), m + 1)
  <2> DEFINE s == Of(o, "metric")
  <2>1. s \in Seq(ToSet(o)) /\ Repeats(s, m)
    BY <1>3 DEF Shows
  <2> HIDE DEF s
  <2>2. s \in Seq(ToSet(s))
    BY <2>1, Members
  <2>3. Repeats(s \o MetricPart(v), m + 1)
    <3> HIDE DEF v
    <3> QED BY <2>1, <2>2, RepeatsMore
  <2>4. Of(c, "metric") = s \o MetricPart(v)
    BY <1>2, <1>3 DEF s
  <2> QED BY <2>3, <2>4
<1>10. Shows(c, m + 1, d)
  <2> HIDE DEF c
  <2> QED BY <1>4, <1>5, <1>6, <1>7, <1>8, <1>9 DEF Shows
<1> QED BY <1>10

\* Another top-down block.
LEMMA ShowsTopdown ==
    ASSUME NEW o, o \in Seq(ToSet(o)), NEW m, NEW d \in Nat, Shows(o, m, d),
           opts.topdown, ~Separated, NEW x, x.kind = "topdown"
    PROVE  Shows(o \o <<x>>, m, d + 1)
<1> DEFINE b == <<x>>
           c == o \o b
<1>1. b \in Seq({x}) /\ Len(b) = 1 /\ b[1] = x
  OBVIOUS
<1>2. b \in Seq(ToSet(b)) /\ Uniform(b, "topdown")
  <2> HIDE DEF b
  <2>1. b \in Seq(ToSet(b))
    BY <1>1, Members
  <2> QED BY <1>1, <2>1 DEF Uniform
<1> HIDE DEF b
<1>3. \A kind : /\ Of(c, kind) = Of(o, kind) \o Of(b, kind)
                /\ Of(o, kind) \in Seq(ToSet(o))
  BY <1>2, OfJoined
<1>4. \A kind : Of(b, kind) = IF kind = "topdown" THEN b ELSE <<>>
  BY <1>2, OfUniform
<1>5. \A kind : kind # "topdown" => Of(c, kind) = Of(o, kind)
  <2> SUFFICES ASSUME NEW kind, kind # "topdown" PROVE Of(c, kind) = Of(o, kind)
    OBVIOUS
  <2> DEFINE s == Of(o, kind)
  <2>1. s \in Seq(ToSet(o)) /\ Of(c, kind) = s \o <<>>
    BY <1>3, <1>4
  <2> HIDE DEF s
  <2>2. s \o <<>> = s
    BY <2>1
  <2> QED BY <2>1, <2>2 DEF s
<1>6. Len(Of(c, "topdown")) = d + 1
  <2> DEFINE s == Of(o, "topdown")
  <2>1. s \in Seq(ToSet(o)) /\ Len(s) = d /\ Of(c, "topdown") = s \o <<x>>
    BY <1>3, <1>4 DEF Shows, Per, b
  <2> HIDE DEF s
  <2> QED BY <2>1
<1>7. /\ Of(c, "header") = Of(o, "header") /\ Of(c, "row") = Of(o, "row")
      /\ Of(c, "stats") = Of(o, "stats") /\ Of(c, "table") = Of(o, "table")
      /\ Of(c, "metric") = Of(o, "metric")
  BY <1>5
<1>8. Shows(c, m, d + 1)
  <2> HIDE DEF c
  <2> QED BY <1>6, <1>7 DEF Shows, Per
<1> QED BY <1>8 DEF b

-----------------------------------------------------------------------------
(* The output *)

\* What one line says is true of the run it is about.
Sound(x) ==
    /\ x.kind = "row" => /\ x.columns = Row(opts.detail)
                         /\ x.result.members = Collected(opts.detail) \cap Averaged
    /\ x.kind = "header" => x.columns = Header(opts.detail)
    /\ x.kind = "metric" => x.members = IF x.metric \in DOMAIN MetricOf
                                        THEN Divides[MetricOf[x.metric]] ELSE <<>>
    /\ x.kind \in {"stats", "table"} => Encloses(x.stats, x.values)

\* The line about binary k with -e.
EventsLine(x, k) ==
    /\ x.kind = "events" /\ x.name = opts.paths[k] /\ x.rows = events
    /\ x.marked = IF opts.verbose THEN denied[k] ELSE {}

\* How many results have their lines.
Reported == IF pc = "topdown" THEN i ELSE i - 1

OutInv ==
    /\ out \in Seq(ToSet(out)) /\ (~usable => out = <<>>)
    /\ AllUnder(out) /\ \A x \in ToSet(out) : Sound(x)
    /\ usable /\ pc = "topdown" => EndsWith(out, all[i][1].name)
    /\ usable /\ (pc \in {"report", "topdown"} \/ (pc = "exit0" /\ opts.csv = NoWord))
          => Shows(out, Reported, i - 1)
    /\ usable /\ (pc = "dynamic" \/ (pc = "exit0" /\ opts.csv # NoWord))
          => Len(out) = i - 1 /\ \A k \in 1..Len(out) : EventsLine(out[k], k)

\* A report that is as asked stays so when the next one has the same lines.
LEMMA ShowsKept ==
    ASSUME UNCHANGED opts, NEW o, NEW m, NEW d, Shows(o, m, d),
           \A k \in 1..m : all'[k] = all[k], out' = o, Reported' = m, i' - 1 = d
    PROVE  Shows(out, Reported, i - 1)'
<1> SUFFICES Shows(o, m, d)'
  OBVIOUS
<1>1. /\ Separated' <=> Separated
      /\ HeaderLine' = HeaderLine /\ (Repeated' <=> Repeated) /\ Shown' = Shown
  BY DEF Separated, HeaderLine, Repeated, Shown, Cut
<1>2. \A v : RowOf(v)' = RowOf(v)
  BY DEF RowOf, Collapse
<1>3. \A asked, k : Per(asked, k)' = Per(asked, k)
  BY <1>1 DEF Per
<1>4. \A s, k : Repeats(s, k)' <=> Repeats(s, k)
  BY <1>1 DEF Repeats
<1>5. /\ (Of(o, "header") = HeaderLine)'
      /\ (Repeats(Of(o, "metric"), m))'
  BY <1>1, <1>4 DEF Shows
<1>6. (Of(o, "row") = [k \in 1..m |-> RowOf(all[k])])'
  <2>1. \A k \in 1..m : RowOf(all[k])' = RowOf(all[k])
    BY <1>2
  <2> QED BY <2>1 DEF Shows
<1>7. /\ (Len(Of(o, "stats")) = Per(Repeated, m))'
      /\ (Len(Of(o, "table")) = Per(opts.table, m))'
      /\ (Len(Of(o, "topdown")) = Per(opts.topdown, d))'
  BY <1>1 DEF Shows, Per
<1> QED BY <1>5, <1>6, <1>7 DEF Shows

LEMMA ShowsIdle ==
    ASSUME NEW o, NEW m, NEW d, Shows(o, m, d), ~(opts.topdown /\ ~Separated)
    PROVE  \A e : Shows(o, m, e)
  BY DEF Shows, Per

LEMMA SoundKept ==
    ASSUME UNCHANGED opts
    PROVE  \A x : Sound(x)' <=> Sound(x)
  BY DEF Sound

\* Nothing has been written.
LEMMA NothingOut ==
    ASSUME NEW o, o = <<>>
    PROVE  o \in Seq(ToSet(o)) /\ AllUnder(o) /\ ToSet(o) = {} /\ Len(o) = 0
<1>1. DOMAIN o = {} /\ Len(o) = 0
  OBVIOUS
<1> QED BY <1>1 DEF AllUnder, ToSet

LEMMA OutNothing ==
    ASSUME out' = <<>>, pc' \notin {"report", "topdown", "exit0"},
           pc' = "dynamic" => i' = 1
    PROVE  OutInv'
<1>1. out' \in Seq(ToSet(out')) /\ AllUnder(out') /\ ToSet(out') = {} /\ Len(out') = 0
  BY NothingOut
<1> QED BY <1>1 DEF OutInv

\* What has been written stays true of it.
LEMMA OutStays ==
    ASSUME OutInv, UNCHANGED <<out, opts, usable>>,
           pc' \in {"threw"} \/ ~usable
    PROVE  OutInv'
<1>1. \A x : Sound(x)' <=> Sound(x)
  BY SoundKept
<1>2. \A x \in ToSet(out) : Sound(x)'
  BY <1>1 DEF OutInv
<1>3. out' \in Seq(ToSet(out')) /\ AllUnder(out') /\ (~usable' => out' = <<>>)
  BY DEF OutInv
<1>4. (\A x \in ToSet(out) : Sound(x))'
  BY <1>2
<1> QED BY <1>3, <1>4 DEF OutInv

LEMMA HeaderLineIs ==
    /\ HeaderLine \in Seq(ToSet(HeaderLine)) /\ AllUnder(HeaderLine)
    /\ Uniform(HeaderLine, "header")
    /\ \A x \in ToSet(HeaderLine) : Sound(x)
<1>1. CASE ~Separated
  <2>1. HeaderLine = <<>>
    BY <1>1 DEF HeaderLine
  <2>2. <<>> \in Seq(ToSet(<<>>)) /\ AllUnder(<<>>) /\ ToSet(<<>>) = {}
        /\ Uniform(<<>>, "header")
    BY DEF AllUnder, ToSet, Uniform
  <2> QED BY <2>1, <2>2
<1>2. CASE Separated
  <2> DEFINE x == [kind |-> "header", columns |-> Header(opts.detail)]
             s == <<x>>
  <2>1. HeaderLine = s
    BY <1>2 DEF HeaderLine
  <2>2. s \in Seq({x}) /\ Len(s) = 1 /\ s[1] = x
    OBVIOUS
  <2>3. x.kind = "header" /\ x.columns = Header(opts.detail)
    OBVIOUS
  <2> HIDE DEF s, x
  <2>4. s \in Seq(ToSet(s)) /\ ToSet(s) \subseteq {x}
    BY <2>2, Members
  <2>5. AllUnder(s) /\ Uniform(s, "header")
    BY <2>2, <2>3, <2>4 DEF AllUnder, Uniform
  <2>6. Sound(x)
    BY <2>3 DEF Sound
  <2> QED BY <2>1, <2>4, <2>5, <2>6
<1> QED BY <1>1, <1>2

\* The report starts with nothing but the header.
LEMMA ShowsHeader ==
    ASSUME opts \in OptionsType
    PROVE  Shows(HeaderLine, 0, 0)
<1>1. Uniform(HeaderLine, "header")
  BY HeaderLineIs
<1> DEFINE o == HeaderLine
<1> HIDE DEF o
<1>2. /\ Of(o, "header") = o /\ Of(o, "row") = <<>> /\ Of(o, "stats") = <<>>
      /\ Of(o, "table") = <<>> /\ Of(o, "topdown") = <<>> /\ Of(o, "metric") = <<>>
  BY <1>1, OfUniform DEF o
<1>3. <<>> = [k \in 1..0 |-> RowOf(all[k])] /\ Len(<<>>) = 0
  OBVIOUS
<1>4. Repeats(<<>>, 0)
  <2>1. CASE ~Separated /\ opts.metrics # NoWord
    <3>1. 0 * Len(Shown) = 0
      BY <2>1, ShownType
    <3> QED BY <1>3, <3>1 DEF Repeats
  <2>2. CASE ~(~Separated /\ opts.metrics # NoWord)
    BY <2>2 DEF Repeats
  <2> QED BY <2>1, <2>2
<1> QED BY <1>2, <1>3, <1>4 DEF Shows, Per, o

LEMMA TimesAre ==
    ASSUME NEW v \in Seq(Run)
    PROVE  /\ TimesOf(v) \in Seq(Nat) /\ Len(TimesOf(v)) = Len(v)
           /\ \A k \in 1..Len(v) : TimesOf(v)[k] = v[k].time
<1>1. ASSUME NEW k \in 1..Len(v) PROVE v[k].time \in Nat
  <2>1. v[k] \in Run
    OBVIOUS
  <2> QED BY <2>1, TimesAssumption DEF Run
<1>2. TimesOf(v) \in [1..Len(v) -> Nat] /\ Len(v) \in Nat
  BY <1>1 DEF TimesOf
<1> QED BY <1>2, SequenceOf DEF TimesOf

\* Every result is the runs of one binary, as many as asked.
LEMMA ResultsAre ==
    ASSUME ParseInv, Reporting, NEW m \in 1..Paths
    PROVE  /\ all[m] \in Seq(Run) /\ Len(all[m]) = opts.n /\ all[m] # <<>>
           /\ \E k \in 1..Paths : all[m] = RunsOf(k)
<1>1. PICK place : /\ Permutes(place, Paths)
                   /\ \A k \in 1..Paths : all[place[k]] = RunsOf(k)
  BY DEF Reporting, Ranked
<1>2. PICK k \in 1..Paths : place[k] = m
  BY <1>1 DEF Permutes
<1>3. all[m] = RunsOf(k)
  BY <1>1, <1>2
<1>4. Paths \in Nat /\ opts.n \in Nat /\ opts.n >= 1
  BY OptionsAre
<1>5. seen \in [1..Paths -> Seq(Times)] /\ Len(seen[k]) = opts.n
  BY <1>4 DEF Reporting, Counted
<1>6. RunsOf(k) \in Seq(Run) /\ Len(RunsOf(k)) = Len(seen[k])
  BY <1>5, RunsAre
<1>7. RunsOf(k) # <<>>
  BY <1>4, <1>5, <1>6
<1> QED BY <1>3, <1>5, <1>6, <1>7

LEMMA LinesSound ==
    ASSUME opts \in OptionsType, NEW v \in Seq(Run), v # <<>>
    PROVE  \A x \in ToSet(Lines(v)) : Sound(x)
<1> DEFINE a == <<RowOf(v)>>
           b == StatsPart(v)
           c == TablePart(v)
           d == MetricPart(v)
<1>1. /\ Uniform(a, "row") /\ Uniform(b, "stats") /\ Uniform(c, "table")
      /\ Uniform(d, "metric") /\ Lines(v) = a \o (b \o (c \o d))
  BY PartsAre
<1>2. \A x \in ToSet(a) : Sound(x)
  <2> DEFINE x == RowOf(v)
  <2>1. x.kind = "row" /\ x.columns = Row(opts.detail)
        /\ x.result.members = Collected(opts.detail) \cap Averaged
    BY DEF RowOf, Collapse
  <2>2. a \in Seq({x})
    OBVIOUS
  <2> HIDE DEF x, a
  <2>3. ToSet(a) \subseteq {x}
    BY <2>2, Members
  <2>4. Sound(x)
    BY <2>1 DEF Sound
  <2> QED BY <2>3, <2>4
<1>3. ASSUME NEW kind \in {"stats", "table"} PROVE Sound(StatsOf(kind, v))
  <2> DEFINE x == StatsOf(kind, v)
  <2>1. /\ x.kind = kind /\ x.values = TimesOf(v)
        /\ x.stats = ComputeStats(TimesOf(v))
    BY DEF StatsOf
  <2>2. TimesOf(v) \in Seq(Nat) /\ TimesOf(v) # <<>>
    <3>1. TimesOf(v) \in Seq(Nat) /\ Len(TimesOf(v)) = Len(v)
      BY TimesAre
    <3> QED BY <3>1
  <2>3. Encloses(ComputeStats(TimesOf(v)), TimesOf(v))
    BY <2>2, StatsEncloseRuns
  <2> HIDE DEF x
  <2>4. Sound(x)
    BY <2>1, <2>3 DEF Sound
  <2> QED BY <2>4 DEF x
<1>4. ASSUME NEW x PROVE ToSet(<<x>>) \subseteq {x} /\ ToSet(<<>>) = {}
  <2>1. <<x>> \in Seq({x})
    OBVIOUS
  <2>2. ToSet(<<x>>) \subseteq {x}
    BY <2>1, Members
  <2> QED BY <2>2 DEF ToSet
<1>5. \A x \in ToSet(b) : Sound(x)
  <2>1. ToSet(b) \subseteq {StatsOf("stats", v)}
    BY <1>4 DEF StatsPart, Part
  <2> QED BY <1>3, <2>1
<1>6. \A x \in ToSet(c) : Sound(x)
  <2>1. ToSet(c) \subseteq {StatsOf("table", v)}
    BY <1>4 DEF TablePart, Part
  <2> QED BY <1>3, <2>1
<1>7. \A x \in ToSet(d) : Sound(x)
  <2>1. CASE d = <<>>
    BY <1>4, <2>1
  <2>2. CASE opts.metrics # NoWord /\ d = MetricLines(v)
    <3> DEFINE s == MetricLines(v)
    <3>1. s = [k \in DOMAIN Shown |->
            [kind |-> "metric", name |-> v[1].name, metric |-> Shown[k],
             members |-> IF Shown[k] \in DOMAIN MetricOf
                         THEN Divides[MetricOf[Shown[k]]] ELSE <<>>]]
      BY DEF MetricLines, Shown, Cut
    <3> HIDE DEF s
    <3>2. ASSUME NEW k \in DOMAIN Shown PROVE Sound(s[k])
      <4> DEFINE x == s[k]
      <4>1. /\ x.kind = "metric"
            /\ x.members = IF x.metric \in DOMAIN MetricOf
                           THEN Divides[MetricOf[x.metric]] ELSE <<>>
        BY <3>1
      <4> HIDE DEF x
      <4>2. Sound(x)
        BY <4>1 DEF Sound
      <4> QED BY <4>2 DEF x
    <3>3. ToSet(s) = {s[k] : k \in DOMAIN Shown}
      BY <3>1 DEF ToSet
    <3> QED BY <2>2, <3>2, <3>3 DEF s
  <2> QED BY <2>1, <2>2 DEF MetricPart, Part
<1> HIDE DEF a, b, c, d
<1> DEFINE e == c \o d
           f == b \o e
<1>8. /\ a \in Seq(ToSet(a)) /\ b \in Seq(ToSet(b)) /\ c \in Seq(ToSet(c))
      /\ d \in Seq(ToSet(d))
  BY <1>1 DEF Uniform
<1>9. e \in Seq(ToSet(e)) /\ ToSet(e) = ToSet(c) \cup ToSet(d)
  BY <1>8, Joined
<1> HIDE DEF e
<1>10. f \in Seq(ToSet(f)) /\ ToSet(f) = ToSet(b) \cup ToSet(e)
  BY <1>8, <1>9, Joined
<1> HIDE DEF f
<1>11. ToSet(a \o f) = ToSet(a) \cup ToSet(f)
  BY <1>8, <1>10, Joined
<1>12. Lines(v) = a \o f
  BY <1>1 DEF e, f
<1> QED BY <1>2, <1>5, <1>6, <1>7, <1>9, <1>10, <1>11, <1>12

LEMMA OutRank ==
    ASSUME ParseInv, FlowInv, OutInv, Rank
    PROVE  OutInv'
<1>1. /\ pc = "measure" /\ pc' = "report" /\ i' = 1 /\ UNCHANGED <<opts, usable>>
      /\ Write(HeaderLine)
  BY DEF Rank, Goto, setupVars
<1>2. out = <<>> /\ opts \in OptionsType
  BY <1>1, OptionsAre DEF FlowInv, Measuring
<1>3. CASE ~usable
  BY <1>1, <1>3, OutStays DEF Write
<1>4. CASE usable
  <2>1. /\ HeaderLine \in Seq(ToSet(HeaderLine)) /\ AllUnder(HeaderLine)
        /\ \A x \in ToSet(HeaderLine) : Sound(x)
    BY HeaderLineIs
  <2> DEFINE o == HeaderLine
             T == ToSet(o)
  <2>2. out' = o
    <3>1. o \in Seq(T)
      BY <2>1
    <3> HIDE DEF o, T
    <3>2. <<>> \o o = o
      BY <3>1
    <3> QED BY <1>1, <1>2, <1>4, <3>2 DEF Write, o
  <2>3. Shows(o, 0, 0)
    BY <1>2, ShowsHeader
  <2> HIDE DEF o, T
  <2>5. Reported' = 0 /\ i' - 1 = 0
    BY <1>1 DEF Reported
  <2>6. Shows(out, Reported, i - 1)'
    BY <1>1, <2>2, <2>3, <2>5, ShowsKept
  <2>7. \A x : Sound(x)' <=> Sound(x)
    BY <1>1, SoundKept
  <2>8. (\A x \in ToSet(out) : Sound(x))'
    BY <2>1, <2>2, <2>7 DEF o
  <2>9. out' \in Seq(ToSet(out')) /\ AllUnder(out')
    BY <2>1, <2>2 DEF o
  <2> QED BY <1>1, <1>4, <2>6, <2>8, <2>9 DEF OutInv
<1> QED BY <1>3, <1>4

LEMMA OutReportOne ==
    ASSUME ParseInv, FlowInv, OutInv, ReportOne
    PROVE  OutInv'
<1>1. /\ pc = "report" /\ i <= Len(all) /\ UNCHANGED <<opts, all, usable>>
      /\ Write(Lines(all[i]))
      /\ \/ pc' = "topdown" /\ i' = i
         \/ pc' = "report" /\ i' = i + 1
      /\ i' = i => pc' = "topdown"
  <2>1. i \in Nat
    BY DEF FlowInv, RunTypes
  <2> QED BY <2>1 DEF ReportOne, setupVars, runVars
<1>2. Reporting
  BY <1>1 DEF FlowInv
<1>3. Paths \in Nat /\ i \in 1..Paths /\ opts \in OptionsType
  BY <1>1, <1>2, OptionsAre, AllLength DEF Reporting
<1>4. CASE ~usable
  BY <1>1, <1>4, OutStays DEF Write
<1>5. CASE usable
  <2> DEFINE b == Lines(all[i])
             o == out \o b
  <2>1. all[i] \in Seq(Run) /\ all[i] # <<>>
    BY <1>2, <1>3, ResultsAre
  <2>2. b \in Seq(ToSet(b)) /\ AllUnder(b) /\ EndsWith(b, all[i][1].name)
    BY <1>3, LinesUnder
  <2>3. \A x \in ToSet(b) : Sound(x)
    BY <1>3, <2>1, LinesSound
  <2>4. out \in Seq(ToSet(out)) /\ AllUnder(out) /\ \A x \in ToSet(out) : Sound(x)
    BY DEF OutInv
  <2>5. Shows(out, i - 1, i - 1)
    BY <1>1, <1>5 DEF OutInv, Reported
  <2>6. Shows(o, i, i - 1)
    <3>1. i - 1 \in Nat /\ (i - 1) + 1 = i
      BY <1>3
    <3>2. Shows(out \o Lines(all[(i - 1) + 1]), (i - 1) + 1, i - 1)
      BY <1>3, <2>4, <2>5, <3>1, ShowsMore
    <3> QED BY <3>1, <3>2
  <2> HIDE DEF b
  <2>7. /\ o \in Seq(ToSet(o)) /\ ToSet(o) = ToSet(out) \cup ToSet(b)
        /\ AllUnder(o) /\ EndsWith(o, all[i][1].name)
    BY <2>2, <2>4, Joined, UnderJoined, EndJoined
  <2>8. out' = o
    BY <1>1, <1>5 DEF Write, b
  <2> HIDE DEF o
  <2>10. CASE pc' = "topdown" /\ i' = i
    <3>1. Reported' = i /\ i' - 1 = i - 1
      BY <2>10 DEF Reported
    <3>2. EndsWith(out, all[i][1].name)'
      BY <1>1, <2>7, <2>8, <2>10
    <3>3. Shows(out, Reported, i - 1)'
      BY <1>1, <2>6, <2>8, <3>1, ShowsKept
    <3>4. \A x : Sound(x)' <=> Sound(x)
      BY <1>1, SoundKept
    <3>5. (\A x \in ToSet(out) : Sound(x))'
      BY <2>3, <2>4, <2>7, <2>8, <3>4
    <3> QED BY <1>1, <1>5, <2>7, <2>8, <2>10, <3>2, <3>3, <3>5 DEF OutInv
  <2>11. CASE pc' = "report" /\ i' = i + 1
    <3>1. Reported' = i /\ i' - 1 = i
      BY <1>3, <2>11 DEF Reported
    <3>2. ~(opts.topdown /\ ~Separated)
      BY <1>1, <2>11 DEF ReportOne
    <3>6. Shows(o, i, i)
      BY <2>6, <3>2, ShowsIdle
    <3>3. Shows(out, Reported, i - 1)'
      BY <1>1, <2>8, <3>1, <3>6, ShowsKept
    <3>4. \A x : Sound(x)' <=> Sound(x)
      BY <1>1, SoundKept
    <3>5. (\A x \in ToSet(out) : Sound(x))'
      BY <2>3, <2>4, <2>7, <2>8, <3>4
    <3> QED BY <1>1, <1>5, <2>7, <2>8, <2>11, <3>3, <3>5 DEF OutInv
  <2> QED BY <1>1, <2>10, <2>11
<1> QED BY <1>4, <1>5

LEMMA OutTopdown ==
    ASSUME ParseInv, FlowInv, OutInv, Topdown
    PROVE  OutInv'
<1> DEFINE x == [kind |-> "topdown", name |-> all[i][1].name]
<1>1. /\ pc = "topdown" /\ pc' = "report" /\ i' = i + 1
      /\ UNCHANGED <<opts, all, usable>> /\ Write(<<x>>)
  BY DEF Topdown, Goto, setupVars, runVars
<1>2. Reporting /\ i \in 1..Paths /\ opts.topdown /\ ~Separated /\ Paths \in Nat
  BY <1>1, OptionsAre DEF FlowInv, Reporting
<1>3. x.kind = "topdown" /\ x.name = all[i][1].name
  OBVIOUS
<1> HIDE DEF x
<1>4. CASE ~usable
  BY <1>1, <1>4, OutStays DEF Write
<1>5. CASE usable
  <2> DEFINE b == <<x>>
             o == out \o b
  <2>1. out \in Seq(ToSet(out)) /\ AllUnder(out) /\ \A y \in ToSet(out) : Sound(y)
    BY DEF OutInv
  <2>2. Shows(out, i, i - 1) /\ EndsWith(out, x.name)
    BY <1>1, <1>3, <1>5 DEF OutInv, Reported
  <2>3. AllUnder(o)
    BY <1>3, <2>1, <2>2, UnderClosed
  <2>4. Shows(o, i, i)
    <3>1. i - 1 \in Nat /\ (i - 1) + 1 = i
      BY <1>2
    <3>2. Shows(o, i, (i - 1) + 1)
      BY <1>2, <1>3, <2>1, <2>2, <3>1, ShowsTopdown
    <3> QED BY <3>1, <3>2
  <2>5. b \in Seq(ToSet(b)) /\ ToSet(b) \subseteq {x}
    <3>1. b \in Seq({x})
      OBVIOUS
    <3> HIDE DEF b
    <3> QED BY <3>1, Members
  <2>6. Sound(x)
    BY <1>3 DEF Sound
  <2> HIDE DEF b
  <2>7. o \in Seq(ToSet(o)) /\ ToSet(o) = ToSet(out) \cup ToSet(b)
    BY <2>1, <2>5, Joined
  <2>8. out' = o
    BY <1>1, <1>5 DEF Write, b
  <2> HIDE DEF o
  <2>9. Reported' = i /\ i' - 1 = i
    BY <1>1, <1>2 DEF Reported
  <2>10. Shows(out, Reported, i - 1)'
    BY <1>1, <2>4, <2>8, <2>9, ShowsKept
  <2>11. \A y : Sound(y)' <=> Sound(y)
    BY <1>1, SoundKept
  <2>12. (\A y \in ToSet(out) : Sound(y))'
    BY <2>1, <2>5, <2>6, <2>7, <2>8, <2>11
  <2> QED BY <1>1, <1>5, <2>3, <2>7, <2>8, <2>10, <2>12 DEF OutInv
<1> QED BY <1>4, <1>5

LEMMA OutReportEvents ==
    ASSUME ParseInv, FlowInv, OutInv, ReportEvents
    PROVE  OutInv'
<1> DEFINE x == [kind |-> "events", name |-> opts.paths[i], time |-> last.time,
                 rows |-> events,
                 marked |-> IF opts.verbose THEN last.refused ELSE {}]
<1>1. /\ pc = "dynamic" /\ pc' = "dynamic" /\ i' = i + 1
      /\ UNCHANGED <<opts, events, usable, denied>> /\ Write(<<x>>)
  BY DEF ReportEvents, setupVars
<1>2. i \in Nat /\ i >= 1 /\ last.refused = denied[i]
  <2>1. Dynamically /\ RunTypes /\ r > opts.n
    BY <1>1 DEF FlowInv, ReportEvents
  <2>2. r # 1
    BY <2>1, OptionsAre
  <2> QED BY <2>1, <2>2 DEF RunTypes, Dynamically
<1>3. x.kind = "events" /\ EventsLine(x, i)
  BY <1>2 DEF EventsLine
<1> HIDE DEF x
<1>4. CASE ~usable
  BY <1>1, <1>4, OutStays DEF Write
<1>5. CASE usable
  <2> DEFINE b == <<x>>
             o == out \o b
  <2>1. /\ out \in Seq(ToSet(out)) /\ AllUnder(out) /\ \A y \in ToSet(out) : Sound(y)
        /\ Len(out) = i - 1 /\ \A k \in 1..Len(out) : EventsLine(out[k], k)
    BY <1>1, <1>5 DEF OutInv
  <2>2. b \in Seq({x}) /\ Len(b) = 1 /\ b[1] = x
    OBVIOUS
  <2> HIDE DEF b
  <2>3. b \in Seq(ToSet(b)) /\ ToSet(b) \subseteq {x} /\ AllUnder(b)
    <3>1. b \in Seq(ToSet(b)) /\ ToSet(b) \subseteq {x}
      BY <2>2, Members
    <3> QED BY <1>3, <2>2, <3>1 DEF AllUnder
  <2>4. Sound(x)
    BY <1>3 DEF Sound
  <2>5. /\ o \in Seq(ToSet(o)) /\ ToSet(o) = ToSet(out) \cup ToSet(b)
        /\ AllUnder(o)
    BY <2>1, <2>3, Joined, UnderJoined
  <2>6. /\ Len(o) = Len(out) + Len(b) /\ \A k \in 1..Len(out) : o[k] = out[k]
        /\ \A k \in 1..Len(b) : o[Len(out) + k] = b[k]
    BY <2>1, <2>3, Joined
  <2>7. out' = o
    BY <1>1, <1>5 DEF Write, b
  <2> HIDE DEF o
  <2>8. 1 \in 1..Len(b) /\ (i - 1) + 1 = i
    BY <1>2, <2>2
  <2>9. Len(o) = i /\ o[i] = x
    BY <1>2, <2>1, <2>2, <2>6, <2>8
  <2>10. \A k \in 1..Len(o) : EventsLine(o[k], k)
    <3>1. \A k \in 1..Len(o) : k = i \/ k \in 1..Len(out)
      BY <1>2, <2>1, <2>9
    <3> QED BY <1>3, <2>1, <2>6, <2>9, <3>1
  <2>11. \A y, k : EventsLine(y, k)' <=> EventsLine(y, k)
    BY <1>1 DEF EventsLine
  <2>12. (Len(out) = i - 1 /\ \A k \in 1..Len(out) : EventsLine(out[k], k))'
    <3>1. i' - 1 = i
      BY <1>1, <1>2
    <3> QED BY <2>7, <2>9, <2>10, <2>11, <3>1
  <2>13. \A y : Sound(y)' <=> Sound(y)
    BY <1>1, SoundKept
  <2>14. (\A y \in ToSet(out) : Sound(y))'
    BY <2>1, <2>3, <2>4, <2>5, <2>7, <2>13
  <2> QED BY <1>1, <1>5, <2>5, <2>7, <2>12, <2>14 DEF OutInv
<1> QED BY <1>4, <1>5

LEMMA OutReturn ==
    ASSUME ParseInv, FlowInv, OutInv, Return
    PROVE  OutInv'
<1>1. /\ pc' = "exit0" /\ UNCHANGED <<i, opts, events, all, usable, out, denied>>
      /\ pc \in {"report", "dynamic"}
  BY DEF Return, setupVars, runVars
<1>2. CASE ~usable
  BY <1>1, <1>2, OutStays
<1>3. CASE usable
  <2>1. (pc = "report" => opts.csv = NoWord) /\ (pc = "dynamic" => opts.csv # NoWord)
    BY DEF FlowInv, Reporting, Dynamically
  <2>2. \A y : Sound(y)' <=> Sound(y)
    BY <1>1, SoundKept
  <2>3. (\A y \in ToSet(out) : Sound(y))'
    BY <1>1, <2>2 DEF OutInv
  <2>4. pc = "report" => Shows(out, Reported, i - 1)'
    <3>1. SUFFICES ASSUME pc = "report" PROVE Shows(out, Reported, i - 1)'
      OBVIOUS
    <3>2. Shows(out, i - 1, i - 1)
      BY <1>3, <3>1 DEF OutInv, Reported
    <3>3. Reported' = i - 1 /\ i' - 1 = i - 1
      BY <1>1 DEF Reported
    <3> QED BY <1>1, <3>2, <3>3, ShowsKept
  <2>5. \A y, k : EventsLine(y, k)' <=> EventsLine(y, k)
    BY <1>1 DEF EventsLine
  <2>6. pc = "dynamic" =>
           (Len(out) = i - 1 /\ \A k \in 1..Len(out) : EventsLine(out[k], k))'
    BY <1>1, <1>3, <2>5 DEF OutInv
  <2>7. out' \in Seq(ToSet(out')) /\ AllUnder(out')
    BY <1>1 DEF OutInv
  <2> QED BY <1>1, <1>3, <2>1, <2>3, <2>4, <2>6, <2>7 DEF OutInv
<1> QED BY <1>2, <1>3

\* A step that writes nothing and leaves the report where it is: at most the
\* binary that is measured is refused other events.
LEMMA OutStutter ==
    ASSUME OutInv, UNCHANGED <<pc, i, opts, events, all, usable, out>>,
           \A k \in 1..(i - 1) : denied'[k] = denied[k]
    PROVE  OutInv'
<1>1. \A y : Sound(y)' <=> Sound(y)
  BY SoundKept
<1>2. (\A y \in ToSet(out) : Sound(y))'
  BY <1>1 DEF OutInv
<1>3. \A k \in 1..(i - 1) : EventsLine(out[k], k)' <=> EventsLine(out[k], k)
  BY DEF EventsLine
<1>4. Reported' = Reported /\ i' - 1 = i - 1
  BY DEF Reported
<1>5. Shows(out, Reported, i - 1) => Shows(out, Reported, i - 1)'
  BY <1>4, ShowsKept
<1>6. out' \in Seq(ToSet(out')) /\ AllUnder(out') /\ (~usable' => out' = <<>>)
  BY DEF OutInv
<1>7. usable' /\ pc' = "topdown" => EndsWith(out, all[i][1].name)'
  BY DEF OutInv
<1>8. usable' /\ (pc' \in {"report", "topdown"} \/ (pc' = "exit0" /\ opts'.csv = NoWord))
          => Shows(out, Reported, i - 1)'
  BY <1>5 DEF OutInv
<1>9. usable' /\ (pc' = "dynamic" \/ (pc' = "exit0" /\ opts'.csv # NoWord))
          => (Len(out) = i - 1 /\ \A k \in 1..Len(out) : EventsLine(out[k], k))'
  BY <1>3 DEF OutInv
<1> QED BY <1>2, <1>6, <1>7, <1>8, <1>9 DEF OutInv

LEMMA OutInit == Init => OutInv
<1> SUFFICES ASSUME Init PROVE OutInv
  OBVIOUS
<1>1. out = <<>> /\ pc = "argv"
  BY DEF Init, ParseInit
<1>2. out \in Seq(ToSet(out)) /\ AllUnder(out) /\ ToSet(out) = {}
  BY <1>1, NothingOut
<1> QED BY <1>1, <1>2 DEF OutInv

LEMMA OutNext ==
    ASSUME SetupInv, FlowInv, FlowInv', OutInv, [Next]_vars
    PROVE  OutInv'
<1>1. ParseInv
  BY DEF SetupInv
<1>2. CASE Parse
  <2>1. /\ pc' \in {"argv", "usage", "sink", "list", "parsed"}
    BY <1>2 DEF Parse, ParseStep, TakeSwitch, TakeNumber, TakeWord, TakePath, Refuse,
                Accept, ListName, ListDone, At
  <2>2. Untouched'
    BY <2>1 DEF FlowInv, Before
  <2> QED BY <2>1, <2>2, OutNothing DEF Untouched
<1>3. CASE OpenSink
  <2>1. pc' \in {"list", "parsed"}
    BY <1>3 DEF OpenSink, Goto
  <2>2. Untouched'
    BY <2>1 DEF FlowInv, Before
  <2>3. out' = <<>>
    BY <2>2 DEF Untouched
  <2> QED BY <2>1, <2>3, OutNothing
<1>4. CASE Attributed
  <2>1. pc = "parsed" /\ pc' \in {"measure", "dynamic"} /\ i' = 1 /\ out' = out
    BY <1>4 DEF Attributed, Configure, At, RunLoop
  <2>2. Untouched
    BY <2>1 DEF FlowInv, Before
  <2>3. out' = <<>>
    BY <2>1, <2>2 DEF Untouched
  <2> QED BY <2>1, <2>3, OutNothing
<1>5. CASE Measure \/ NextBinary
  <2>1. pc' = "measure"
    BY <1>5 DEF Measure, NextBinary
  <2>2. out' = <<>>
    BY <2>1 DEF FlowInv, Measuring
  <2> QED BY <2>1, <2>2, OutNothing
<1>6. CASE MeasureEvents
  <2>1. pc = "dynamic" /\ UNCHANGED <<pc, i, opts, events, all, usable, out>>
    BY <1>6 DEF MeasureEvents, setupVars
  <2>2. /\ denied \in [1..Paths -> SUBSET Nat] /\ i \in 1..(Paths + 1)
        /\ Paths \in Nat
    BY <1>1, <2>1, OptionsAre DEF FlowInv, Dynamically
  <2>3. \A k \in 1..(i - 1) : denied'[k] = denied[k]
    <3>1. PICK refused : denied' = [denied EXCEPT ![i] = refused]
      BY <1>6 DEF MeasureEvents
    <3>2. \A k \in 1..(i - 1) : k \in 1..Paths /\ k # i
      BY <2>2
    <3> QED BY <2>2, <3>1, <3>2
  <2> QED BY <2>1, <2>3, OutStutter
<1>7. CASE RunThrows
  <2>1. pc' = "threw" /\ UNCHANGED <<out, opts, usable>>
    BY <1>7 DEF RunThrows, setupVars
  <2> QED BY <2>1, OutStays
<1>8. CASE Rank
  BY <1>1, <1>8, OutRank
<1>9. CASE ReportOne
  BY <1>1, <1>9, OutReportOne
<1>10. CASE Topdown
  BY <1>1, <1>10, OutTopdown
<1>11. CASE ReportEvents
  BY <1>1, <1>11, OutReportEvents
<1>12. CASE Return
  BY <1>1, <1>12, OutReturn
<1>13. CASE Stopped \/ UNCHANGED vars
  <2>1. UNCHANGED <<pc, i, opts, events, all, usable, out, denied>>
    BY <1>13 DEF Stopped, vars, setupVars, runVars
  <2> QED BY <2>1, OutStutter
<1> QED BY <1>2, <1>3, <1>4, <1>5, <1>6, <1>7, <1>8, <1>9, <1>10, <1>11, <1>12,
           <1>13 DEF Next

\* The invariant of the output.
THEOREM OutInvariance == Spec => []OutInv
<1>1. SetupInv /\ FlowInv /\ FlowInv' /\ OutInv /\ [Next]_vars => OutInv'
  BY OutNext
<1> QED BY <1>1, OutInit, SetupInvariance, FlowInvariance, PTL DEF Spec

\* A metric and a top-down block stand under the row of their binary
\* (emit_metrics, the top-down block of main, sort_results).
THEOREM BlockUnderItsRowHolds == Spec => []BlockUnderItsRow
<1>1. OutInv => BlockUnderItsRow
  BY DEF OutInv, AllUnder, Under, BlockUnderItsRow
<1> QED BY <1>1, OutInvariance, PTL

\* The printed minimum and maximum were measured and enclose the mean and
\* every run, and the deviation is never less than the true one (compute_stats
\* and the square root it takes).
THEOREM StatsEncloseHolds == Spec => []StatsEnclose
<1>1. OutInv => StatsEnclose
  <2> SUFFICES ASSUME OutInv, NEW k \in 1..Len(out), out[k].kind \in {"stats", "table"}
               PROVE  Encloses(out[k].stats, out[k].values)
    BY DEF StatsEnclose, Encloses
  <2>1. out[k] \in ToSet(out)
    <3>1. out \in Seq(ToSet(out))
      BY DEF OutInv
    <3> QED BY <3>1
  <2> QED BY <2>1 DEF OutInv, Sound
<1> QED BY <1>1, OutInvariance, PTL

\* The rows of a finished report are what was measured, binary by binary, with
\* the mean of its own runs, fastest first (collapse_runs and sort_results).
THEOREM RankedReportHolds == Spec => []RankedReport
<1>1. SetupInv /\ FlowInv /\ OutInv => RankedReport
  <2> SUFFICES ASSUME SetupInv, FlowInv, OutInv, pc = "exit0", opts.csv = NoWord, usable
               PROVE  RankedReport
    BY DEF RankedReport
  <2> DEFINE rows == Kind("row")
             Same(k, m) == /\ rows[m].result.name = opts.paths[k]
                           /\ rows[m].result.total = Sum(seen[k])
                           /\ rows[m].result.n = opts.n
  <2>1. Reporting /\ ParseInv /\ i = Paths + 1 /\ Paths \in Nat
    BY OptionsAre DEF SetupInv, FlowInv, Reporting
  <2>2. rows = [m \in 1..Paths |-> RowOf(all[m])]
    <3>1. Reported = Paths
      BY <2>1 DEF Reported
    <3>2. Of(out, "row") = [m \in 1..Reported |-> RowOf(all[m])]
      BY DEF OutInv, Shows
    <3> QED BY <3>1, <3>2 DEF Of, Kind
  <2> HIDE DEF rows
  <2>3. Len(rows) = Paths /\ DOMAIN rows = 1..Paths
    BY <2>1, <2>2
  <2>4. \A m \in 1..Paths : /\ rows[m].result.name = all[m][1].name
                            /\ rows[m].result.total = Total(all[m])
                            /\ rows[m].result.n = Len(all[m])
    BY <2>2 DEF RowOf, Collapse, Total
  <2>5. \A k \in 1..(Len(rows) - 1) : rows[k].result.total <= rows[k + 1].result.total
    <3> SUFFICES ASSUME NEW k \in 1..(Paths - 1)
                 PROVE  rows[k].result.total <= rows[k + 1].result.total
      BY <2>3
    <3>1. k \in 1..Paths /\ k + 1 \in 1..Paths /\ k < k + 1
      BY <2>1
    <3> QED BY <2>1, <2>4, <3>1 DEF Reporting, Ranked
  <2>6. PICK place : /\ Permutes(place, Paths)
                     /\ \A k \in 1..Paths : all[place[k]] = RunsOf(k)
    BY <2>1 DEF Reporting, Ranked
  <2>7. \A k \in 1..Paths : place[k] \in 1..Paths
    BY <2>6 DEF Permutes
  <2>8. ASSUME NEW k \in 1..Paths PROVE Same(k, place[k])
    <3> DEFINE v == RunsOf(k)
    <3>1. opts.n \in Nat /\ opts.n >= 1 /\ seen \in [1..Paths -> Seq(Times)]
          /\ Len(seen[k]) = opts.n
      BY <2>1, OptionsAre DEF Reporting, Counted
    <3>2. /\ v \in Seq(Run) /\ Len(v) = opts.n
          /\ \A j \in 1..opts.n : v[j].name = opts.paths[k] /\ v[j].time = seen[k][j]
      BY <2>1, <3>1, RunsAre
    <3>3. TimesOf(v) = seen[k]
      <4>1. seen[k] \in Seq(Times)
        BY <3>1
      <4>2. /\ TimesOf(v) \in Seq(Nat) /\ Len(TimesOf(v)) = opts.n
            /\ \A j \in 1..opts.n : TimesOf(v)[j] = seen[k][j]
        <5> HIDE DEF v
        <5>1. /\ TimesOf(v) \in Seq(Nat) /\ Len(TimesOf(v)) = Len(v)
              /\ \A j \in 1..Len(v) : TimesOf(v)[j] = v[j].time
          BY <3>2, TimesAre
        <5> QED BY <3>2, <5>1
      <4> DEFINE s == TimesOf(v)
                 u == seen[k]
      <4>3. s \in Seq(Nat) /\ u \in Seq(Times) /\ Len(s) = Len(u)
            /\ \A j \in 1..Len(u) : s[j] = u[j]
        BY <3>1, <4>1, <4>2
      <4> HIDE DEF s, u
      <4>4. s = u
        BY <4>3
      <4> QED BY <4>4 DEF s, u
    <3>4. v[1].name = opts.paths[k]
      BY <3>1, <3>2
    <3>5. all[place[k]] = v /\ place[k] \in 1..Paths
      BY <2>6, <2>7
    <3>6. Total(v) = Sum(seen[k])
      BY <3>3 DEF Total
    <3> HIDE DEF v
    <3> QED BY <2>4, <3>2, <3>4, <3>5, <3>6
  <2>9. /\ place \in [1..Paths -> 1..Paths] /\ DOMAIN place = 1..Paths
        /\ \A k, m \in 1..Paths : place[k] = place[m] => k = m
    BY <2>6 DEF Permutes
  <2>10. \E q \in [1..Paths -> 1..Len(rows)] :
            /\ \A k \in DOMAIN q : Same(k, q[k])
            /\ \A k, m \in DOMAIN q : q[k] = q[m] => k = m
    <3> HIDE DEF Same
    <3>1. place \in [1..Paths -> 1..Len(rows)]
      BY <2>3, <2>9
    <3> QED BY <2>8, <2>9, <3>1
  <2>11. Len(rows) = Len(opts.paths)
    BY <2>3 DEF Paths
  <2> QED BY <2>5, <2>10, <2>11 DEF RankedReport, rows, Paths
<1> QED BY <1>1, SetupInvariance, FlowInvariance, OutInvariance, PTL

-----------------------------------------------------------------------------
(* The report that is asked for *)

\* The metrics shown are the names of -M that are not empty, as they fit.
Asked == Kept(Items[opts.metrics], ToSet(Items[opts.metrics]) \ {<<>>})

LEMMA ShownAre ==
    ASSUME opts \in OptionsType, opts.metrics # NoWord
    PROVE  /\ Len(Asked) = Len(Shown) /\ Len(Asked) \in Nat
           /\ \A k \in 1..Len(Asked) : Shown[k] = Buffered(Asked[k])
<1> DEFINE s == Items[opts.metrics]
           T == ToSet(s)
           f == [x \in T |-> Buffered(x)]
           U == {Buffered(x) : x \in T}
           A == T \ {<<>>}
           B == ToSet(Cut) \ {<<>>}
<1>1. opts.metrics \in Words
  BY DEF OptionsType
<1>2. s \in Seq(T) /\ DOMAIN s = 1..Len(s) /\ \A k \in 1..Len(s) : s[k] \in Seq(ToSet(s[k]))
  <2>1. s \in Seq(T)
    BY <1>1, WordsAssumption
  <2>2. \A k \in DOMAIN s : s[k] \in Seq(ToSet(s[k]))
    BY <1>1, WordsAssumption
  <2> HIDE DEF s, T
  <2>3. DOMAIN s = 1..Len(s)
    BY <2>1
  <2> QED BY <2>1, <2>2, <2>3
<1>3. T = {s[k] : k \in 1..Len(s)}
  BY <1>2 DEF ToSet
<1>4. \A x \in T : Buffered(x) = <<>> <=> x = <<>>
  <2> SUFFICES ASSUME NEW k \in 1..Len(s) PROVE Buffered(s[k]) = <<>> <=> s[k] = <<>>
    BY <1>3
  <2> DEFINE x == s[k]
             V == ToSet(x)
  <2>1. x \in Seq(V)
    BY <1>2
  <2> HIDE DEF x, V
  <2>2. Buffered(x) = <<>> <=> x = <<>>
    BY <2>1, BufferedName
  <2> QED BY <2>2 DEF x
<1>5. f \in [T -> U] /\ \A x \in T : f[x] = Buffered(x)
  OBVIOUS
<1>6. Cut = Mapped(f, s)
  <2>1. \A k \in DOMAIN s : f[s[k]] = Buffered(s[k])
    BY <1>2, <1>3
  <2> QED BY <2>1 DEF Cut, Mapped
<1>7. \A x \in T : f[x] \in ToSet(Cut)
  <2>1. DOMAIN Cut = 1..Len(s) /\ \A k \in 1..Len(s) : Cut[k] = Buffered(s[k])
    BY <1>2 DEF Cut
  <2>2. \A k \in 1..Len(s) : Buffered(s[k]) \in ToSet(Cut)
    BY <2>1 DEF ToSet
  <2> QED BY <1>3, <1>5, <2>2
<1>8. \A x \in T : x \in A <=> f[x] \in B
  BY <1>4, <1>5, <1>7
<1>9. Asked = Kept(s, A) /\ Shown = Kept(Cut, B)
  BY DEF Asked, Shown
<1> HIDE DEF s, T, f, U, A, B
<1>16. Mapping(f, T, U)
  BY <1>5 DEF Mapping
<1>10. Kept(Mapped(f, s), B) = Mapped(f, Kept(s, A))
  BY <1>2, <1>16, <1>8, KeptMapped
<1>11. Kept(s, A) \in Seq(T \cap A)
  BY <1>2, KeptType
<1> DEFINE V == T \cap A
           h == Kept(s, A)
<1>12. h \in Seq(V) /\ V \subseteq T
  BY <1>11
<1> HIDE DEF V, h
<1>13. h \in Seq(T)
  BY <1>12
<1>14. /\ Len(Mapped(f, h)) = Len(h) /\ Len(h) \in Nat
       /\ \A k \in 1..Len(h) : Mapped(f, h)[k] = f[h[k]] /\ h[k] \in T
  <2>1. Len(h) \in Nat /\ \A k \in 1..Len(h) : h[k] \in T
    BY <1>13
  <2>2. /\ Len(Mapped(f, h)) = Len(h)
        /\ \A k \in 1..Len(h) : Mapped(f, h)[k] = f[h[k]]
    BY <1>13, <1>16, MappedType
  <2> QED BY <2>1, <2>2
<1>15. Asked = h /\ Shown = Mapped(f, h)
  BY <1>6, <1>9, <1>10 DEF h
<1> QED BY <1>5, <1>14, <1>15

\* There are as many paths as arguments that are one.
LEMMA PathsCounted ==
    ASSUME ParseInv, Parsed
    PROVE  Cardinality({k \in DOMAIN argv : Role[k] = "path"}) = Paths
<1> DEFINE D == {k \in 1..Len(argv) : Role[k] = "path"}
<1>1. PICK places \in [1..Len(opts.paths) -> D] :
          /\ \A k \in 1..Len(argv) : Role[k] = "path" =>
                \E j \in 1..Len(opts.paths) : places[j] = k
          /\ \A j \in 1..Len(opts.paths) :
                \A m \in 1..(j - 1) : places[m] < places[j]
  BY MeantAsParsed DEF ParsedAsMeant
<1>2. Paths \in Nat /\ Len(argv) \in Nat /\ DOMAIN argv = 1..Len(argv)
  BY OptionsAre, ArgvType DEF ParseInv
<1>3. places \in [1..Paths -> D] /\ D \subseteq Nat
  BY <1>1, <1>2 DEF Paths
<1>4. \A k \in D : \E j \in 1..Paths : places[j] = k
  BY <1>1 DEF Paths
<1>5. ASSUME NEW j \in 1..Paths, NEW m \in 1..Paths, j # m
      PROVE  places[j] # places[m]
  <2>1. places[j] \in Nat /\ places[m] \in Nat
    BY <1>3
  <2>2. CASE j < m
    <3>1. j \in 1..(m - 1)
      BY <1>2, <2>2
    <3>2. places[j] < places[m]
      BY <1>1, <3>1 DEF Paths
    <3> QED BY <2>1, <3>2
  <2>3. CASE m < j
    <3>1. m \in 1..(j - 1)
      BY <1>2, <2>3
    <3>2. places[m] < places[j]
      BY <1>1, <3>1 DEF Paths
    <3> QED BY <2>1, <3>2
  <2> QED BY <1>2, <1>5, <2>2, <2>3
<1> HIDE DEF D
<1>6. places \in Bijection(1..Paths, D)
  <2>1. places \in Injection(1..Paths, D)
    BY <1>3, <1>5 DEF Injection, IsInjective
  <2>2. places \in Surjection(1..Paths, D)
    BY <1>3, <1>4 DEF Surjection
  <2> QED BY <2>1, <2>2 DEF Bijection
<1>7. ExistsBijection(1..Paths, D)
  BY <1>6 DEF ExistsBijection
<1>8. Cardinality(D) = Paths
  BY <1>2, <1>7, FS_CountingElements
<1>9. {k \in DOMAIN argv : Role[k] = "path"} = D
  BY <1>2 DEF D
<1> QED BY <1>8, <1>9

\* A word is given exactly when its flag is.
LEMMA WordsGiven ==
    ASSUME ParseInv, Parsed, NEW w \in WordFlags
    PROVE  /\ LastWord({w}) \in Words \cup {NoWord}
           /\ LastWord({w}) = NoWord <=> Places({w}) = {}
<1> DEFINE m == Len(argv)
           flags == {w}
<1>1. argv \in Seq(Words) /\ Meant(opts, m)
  BY ArgvType DEF ParseInv, Done, Parsed
<1>2. Places(flags) = Placed(flags, m) /\ LastWord(flags) = WordAmong(flags, m)
  BY <1>1, PlacesArePlaced
<1>3. flags \subseteq Valued
  BY DEF Valued
<1>4. CASE Placed(flags, m) = {}
  BY <1>2, <1>4 DEF WordAmong
<1>5. CASE Placed(flags, m) # {}
  <2>1. WordAmong(flags, m) \in Words
    <3> HIDE DEF flags
    <3> QED BY <1>1, <1>3, <1>5, ValueOfLast DEF Meant
  <2> QED BY <1>2, <1>5, <2>1, WordsAssumption
<1> QED BY <1>4, <1>5

\* The number of runs is the one stated, when long long can hold it.
LEMMA RunsAsked ==
    ASSUME ParseInv, Parsed,
           Places({"-n", "-r"}) # {} =>
              Stated(LastWord({"-n", "-r"})) \in (-(LongMax + 1))..LongMax
    PROVE  opts.n = IF Places({"-n", "-r"}) = {} THEN 1
                    ELSE Stated(LastWord({"-n", "-r"}))
<1> DEFINE m == Len(argv)
           flags == {"-n", "-r"}
           v == Stated(LastWord(flags))
<1>1. argv \in Seq(Words) /\ Meant(opts, m)
  BY ArgvType DEF ParseInv, Done, Parsed
<1>2. CASE Places(flags) = {}
  BY <1>1, <1>2, PlacesArePlaced DEF Meant, MeantNumbers
<1>3. CASE Places(flags) # {}
  <2>1. /\ v < Least(argv[LastPlace(flags)]) => v < -(LongMax + 1)
        /\ v \in 1..LongMax => opts.n = v
    BY <1>3, NumbersMeant DEF NumbersArrive
  <2>2. argv[LastPlace(flags)] \in flags
    <3>1. flags \subseteq Valued
      BY DEF Valued, NumberFlags
    <3>2. Placed(flags, m) # {} /\ argv[LastPlace(flags)] = LastAmong(flags, m)
      BY <1>1, <1>3, PlacesArePlaced DEF LastAmong
    <3> HIDE DEF flags
    <3> QED BY <1>1, <3>1, <3>2, ValueOfLast DEF Meant
  <2>3. Least(argv[LastPlace(flags)]) = 1
    BY <2>2 DEF Least
  <2> HIDE DEF flags, v
  <2>4. v \in (-(LongMax + 1))..LongMax
    BY <1>3 DEF v, flags
  <2>5. v \in 1..LongMax
    BY <2>1, <2>3, <2>4, WidthAssumption
  <2> QED BY <1>3, <2>1, <2>5 DEF v, flags
<1> QED BY <1>2, <1>3

\* A report that shows every result shows what the options ask for.
LEMMA ReportOfRuns ==
    ASSUME ParseInv, Reporting, Shows(out, Paths, Paths), out \in Seq(ToSet(out)),
           NEW csv, NEW n, NEW metrics,
           csv <=> Separated, n = opts.n,
           metrics = IF opts.metrics = NoWord THEN <<>> ELSE Asked
    PROVE  LET PerPath(asked, k) == IF asked /\ ~csv THEN Paths * k ELSE 0
               shown == Kind("metric")
           IN  /\ Len(Kind("row")) = Paths
               /\ \A k \in 1..Paths : Kind("row")[k].result.n = n
               /\ Len(Kind("header")) = IF csv THEN 1 ELSE 0
               /\ Len(Kind("stats")) = PerPath(n > 1, 1)
               /\ Len(Kind("table")) = PerPath(opts.table, 1)
               /\ Len(Kind("topdown")) = PerPath(opts.topdown, 1)
               /\ Len(shown) = PerPath(TRUE, Len(metrics))
               /\ \A k \in DOMAIN shown :
                     shown[k].metric = Buffered(metrics[((k - 1) % Len(metrics)) + 1])
<1> DEFINE PerPath(asked, k) == IF asked /\ ~csv THEN Paths * k ELSE 0
           shown == Kind("metric")
<1>1. Paths \in Nat /\ opts \in OptionsType
  BY OptionsAre
<1>2. \A k : Kind(k) = Of(out, k)
  BY DEF Kind, Of
<1>3. Kind("row") = [k \in 1..Paths |-> RowOf(all[k])]
  BY <1>2 DEF Shows
<1>4. Len(Kind("row")) = Paths
  BY <1>1, <1>3
<1>5. \A k \in 1..Paths : Kind("row")[k].result.n = n
  <2>1. \A k \in 1..Paths : Len(all[k]) = opts.n
    BY ResultsAre
  <2>2. \A v : RowOf(v).result.n = Len(v)
    BY DEF RowOf, Collapse
  <2>3. \A k \in 1..Paths : Kind("row")[k] = RowOf(all[k])
    BY <1>3
  <2> QED BY <2>1, <2>2, <2>3
<1>6. Len(Kind("header")) = IF csv THEN 1 ELSE 0
  BY <1>2 DEF Shows, HeaderLine
<1>7. \A asked : Per(asked, Paths) = PerPath(asked, 1)
  BY <1>1 DEF Per
<1>8. /\ Len(Kind("stats")) = PerPath(n > 1, 1)
      /\ Len(Kind("table")) = PerPath(opts.table, 1)
      /\ Len(Kind("topdown")) = PerPath(opts.topdown, 1)
  <2> HIDE DEF PerPath
  <2> QED BY <1>2, <1>7 DEF Shows, Repeated
<1>9. Repeats(shown, Paths)
  BY <1>2 DEF Shows
<1>10. /\ Len(shown) = PerPath(TRUE, Len(metrics))
       /\ \A k \in DOMAIN shown :
             shown[k].metric = Buffered(metrics[((k - 1) % Len(metrics)) + 1])
  <2>1. CASE Separated
    BY <1>9, <2>1 DEF Repeats
  <2>2. CASE ~Separated /\ opts.metrics = NoWord
    <3>1. shown = <<>> /\ metrics = <<>>
      BY <1>9, <2>2 DEF Repeats
    <3> QED BY <1>1, <2>2, <3>1
  <2>3. CASE ~Separated /\ opts.metrics # NoWord
    <3> DEFINE L == Len(Shown)
    <3>1. /\ Len(shown) = Paths * L
          /\ \A k \in 1..Len(shown) : shown[k].metric = Shown[((k - 1) % L) + 1]
      BY <1>9, <2>3 DEF Repeats
    <3>2. /\ Len(metrics) = L /\ L \in Nat
          /\ \A k \in 1..L : Shown[k] = Buffered(metrics[k])
      BY <1>1, <2>3, ShownAre
    <3>3. DOMAIN shown = 1..Len(shown)
      <4> DEFINE S == {line \in ToSet(out) : line.kind = "metric"}
                 V == ToSet(out) \cap S
      <4>1. shown = Kept(out, S)
        BY DEF Kind
      <4> HIDE DEF S, shown
      <4>2. shown \in Seq(V)
        BY <4>1, KeptType
      <4> QED BY <4>2
    <3> HIDE DEF L, shown
    <3>4. Len(shown) = PerPath(TRUE, Len(metrics))
      BY <2>3, <3>1, <3>2
    <3>5. ASSUME NEW k \in DOMAIN shown
          PROVE  shown[k].metric = Buffered(metrics[((k - 1) % Len(metrics)) + 1])
      <4>1. L # 0
        <5>1. Len(shown) # 0
          BY <3>1, <3>2, <3>3, <3>5, <1>1
        <5> QED BY <1>1, <3>1, <5>1
      <4>2. k \in Nat \ {0}
        BY <1>1, <3>1, <3>2, <3>3
      <4>3. ((k - 1) % L) + 1 \in 1..L
        BY <3>2, <4>1, <4>2
      <4> QED BY <3>1, <3>2, <3>3, <4>3
    <3> QED BY <3>4, <3>5 DEF shown
  <2> QED BY <2>1, <2>2, <2>3
<1> QED BY <1>4, <1>5, <1>6, <1>8, <1>10

\* Without -e the report is the one the argument vector asks for, flag by flag;
\* with -e each path has its events, marked with -v where its latest run was
\* refused them (parse_argv, the loops of main and the emitters it calls).
THEOREM ReportAsAskedHolds == Spec => []ReportAsAsked
<1>1. SetupInv /\ FlowInv /\ OutInv => ReportAsAsked
  <2> DEFINE fits == Places({"-n", "-r"}) # {} =>
                        Stated(LastWord({"-n", "-r"})) \in (-(LongMax + 1))..LongMax
             paths == Cardinality({k \in DOMAIN argv : Role[k] = "path"})
             n == IF Places({"-n", "-r"}) = {} THEN 1
                  ELSE Stated(LastWord({"-n", "-r"}))
             csv == Places({"-x"}) # {}
             PerPath(asked, k) == IF asked /\ ~csv THEN paths * k ELSE 0
             metrics == IF Places({"-M"}) = {} THEN <<>>
                        ELSE LET asked == Items[LastWord({"-M"})]
                             IN  Kept(asked, ToSet(asked) \ {<<>>})
             shown == Kind("metric")
             Runs == /\ Len(Kind("row")) = paths
                     /\ \A k \in 1..paths : Kind("row")[k].result.n = n
                     /\ Len(Kind("header")) = IF csv THEN 1 ELSE 0
                     /\ Len(Kind("stats")) = PerPath(n > 1, 1)
                     /\ Len(Kind("table")) = PerPath(Places({"--table"}) # {}, 1)
                     /\ Len(Kind("topdown")) = PerPath(Places({"--topdown"}) # {}, 1)
                     /\ Len(shown) = PerPath(TRUE, Len(metrics))
                     /\ \A k \in DOMAIN shown :
                           shown[k].metric =
                              Buffered(metrics[((k - 1) % Len(metrics)) + 1])
             listed == Kind("events")
             Listing == /\ Len(listed) = paths
                        /\ \A k \in 1..paths :
                              /\ listed[k].name = opts.paths[k]
                              /\ listed[k].rows = events
                              /\ listed[k].marked =
                                    IF Places({"-v", "--verbose"}) = {} THEN {}
                                    ELSE denied[k]
  <2>1. SUFFICES ASSUME SetupInv, FlowInv, OutInv, pc = "exit0", usable, fits
                 PROVE  IF Places({"-e"}) = {} THEN Runs ELSE Listing
    BY DEF ReportAsAsked
  <2>2. ParseInv /\ Parsed /\ ParsedAsMeant /\ Paths \in Nat
    BY <2>1, MeantAsParsed, OptionsAre DEF SetupInv, Parsed
  <2>3. paths = Paths
    BY <2>2, PathsCounted
  <2>4. opts.n = n
    BY <2>1, <2>2, RunsAsked
  <2>5. /\ opts.csv = LastWord({"-e"}) /\ opts.metrics = LastWord({"-M"})
        /\ opts.sep = IF Places({"-x"}) = {} THEN NoWord
                      ELSE IF LastWord({"-x"}) = "" THEN ","
                      ELSE First[LastWord({"-x"})]
        /\ opts.table = (Places({"--table"}) # {})
        /\ opts.verbose = (Places({"-v", "--verbose"}) # {})
        /\ opts.topdown = (Places({"--topdown"}) # {})
    BY <2>2 DEF ParsedAsMeant
  <2>6. \A w \in {"-e", "-M", "-x"} :
           /\ LastWord({w}) \in Words \cup {NoWord}
           /\ LastWord({w}) = NoWord <=> Places({w}) = {}
    BY <2>2, WordsGiven DEF WordFlags
  <2>7. csv <=> Separated
    <3>1. Places({"-x"}) # {} => LastWord({"-x"}) \in Words
      BY <2>6
    <3>2. \A w \in Words : First[w] # NoWord
      BY WordsAssumption
    <3> QED BY <2>5, <3>1, <3>2 DEF Separated, NoWord
  <2>8. Places({"-e"}) = {} <=> opts.csv = NoWord
    BY <2>5, <2>6
  <2>9. metrics = IF opts.metrics = NoWord THEN <<>> ELSE Asked
    BY <2>5, <2>6 DEF Asked
  <2>10. CASE Places({"-e"}) = {}
    <3>1. Reporting /\ i = Paths + 1
      BY <2>1, <2>8, <2>10 DEF FlowInv, Reporting
    <3>2. Shows(out, Paths, Paths) /\ out \in Seq(ToSet(out))
      BY <2>1, <2>2, <2>8, <2>10, <3>1 DEF OutInv, Reported
    <3> HIDE DEF csv, n, metrics
    <3> QED BY <2>2, <2>3, <2>4, <2>5, <2>7, <2>9, <2>10, <3>1, <3>2, ReportOfRuns
  <2>11. CASE Places({"-e"}) # {}
    <3>1. Dynamically /\ i = Paths + 1
      BY <2>1, <2>8, <2>11 DEF FlowInv, Dynamically
    <3>2. /\ Len(out) = Paths /\ \A k \in 1..Len(out) : EventsLine(out[k], k)
          /\ out \in Seq(ToSet(out))
      BY <2>1, <2>2, <2>8, <2>11, <3>1 DEF OutInv
    <3>3. listed = out
      <4> DEFINE S == {line \in ToSet(out) : line.kind = "events"}
      <4>1. \A x \in ToSet(out) : x.kind = "events"
        <5>1. DOMAIN out = 1..Len(out)
          BY <3>2
        <5> QED BY <3>2, <5>1 DEF EventsLine, ToSet
      <4>2. \A x \in ToSet(out) : x \in S
        BY <4>1
      <4>3. listed = Kept(out, S)
        BY DEF Kind
      <4> HIDE DEF S, listed
      <4> QED BY <3>2, <4>2, <4>3, KeptAll
    <3>4. \A k \in 1..Paths :
             /\ out[k].name = opts.paths[k] /\ out[k].rows = events
             /\ out[k].marked = IF opts.verbose THEN denied[k] ELSE {}
      BY <3>2 DEF EventsLine
    <3>5. \A k : (IF opts.verbose THEN denied[k] ELSE {}) =
                   IF Places({"-v", "--verbose"}) = {} THEN {} ELSE denied[k]
      BY <2>5
    <3> HIDE DEF paths, listed
    <3>6. Listing
      BY <2>3, <3>2, <3>3, <3>4, <3>5
    <3> QED BY <2>11, <3>6
  <2> QED BY <2>10, <2>11
<1> QED BY <1>1, SetupInvariance, FlowInvariance, OutInvariance, PTL

-----------------------------------------------------------------------------
(* The tables of the detail levels *)

\* The member of benchmark_t an event is put in.
Measured(e) == IF e \in DOMAIN Renamed THEN Renamed[e] ELSE e

\* What a column may be called.
Labelled(label, column) ==
    \/ label = column
    \/ <<label, column>> \in {<<"time_us", "time">>, <<"branches", "total_branches">>,
                              <<"cache_node", "access">>}

\* The columns are, one each, the members of a group's events and the others
\* given, collapse_runs averages them all, and the labels name them.
Agree(group, columns, labels, others) ==
    /\ columns \in Seq(ToSet(columns)) /\ labels \in Seq(ToSet(labels))
    /\ group \in Seq(ToSet(group))
    /\ \A x : x \in ToSet(columns) <=>
                 x \in others \/ \E e \in ToSet(group) : x = Measured(e)
    /\ ToSet(columns) \subseteq Averaged
    /\ \A c, e \in 1..Len(columns) : columns[c] = columns[e] => c = e
    /\ Len(labels) = Len(columns)
    /\ \A c \in 1..Len(columns) : Labelled(labels[c], columns[c])

LEMMA FirstAgrees == Agree(GroupD1, RowD1, HeaderD1, {"name", "time"})
<1> DEFINE g == GroupD1
           t == RowD1
           h == HeaderD1
<1>1. t \in Seq(ToSet(t))
  <2>1. t \in Seq({t[c] : c \in 1..16}) /\ DOMAIN t = 1..16
    BY DEF RowD1
  <2> QED BY <2>1 DEF ToSet
<1>2. h \in Seq(ToSet(h)) /\ Len(h) = Len(t)
  <2>1. h \in Seq({h[c] : c \in 1..16}) /\ DOMAIN h = 1..16
    BY DEF HeaderD1
  <2>2. Len(h) = Len(t)
    BY DEF HeaderD1, RowD1
  <2> QED BY <2>1, <2>2 DEF ToSet
<1>3. g \in Seq(ToSet(g))
  <2>1. g \in Seq({g[c] : c \in 1..14}) /\ DOMAIN g = 1..14
    BY DEF GroupD1
  <2> QED BY <2>1 DEF ToSet
<1>4. /\ ToSet(t) \subseteq Averaged
      /\ \A x \in ToSet(t) : x \in {"name", "time"} \/ \E e \in ToSet(g) : x = Measured(e)
  BY DEF RowD1, GroupD1, Averaged, ToSet, Measured, Renamed
<1>5. \A e \in ToSet(g) : Measured(e) \in ToSet(t)
  BY DEF RowD1, GroupD1, ToSet, Measured, Renamed
<1>6. "name" \in ToSet(t) /\ "time" \in ToSet(t)
  BY DEF RowD1, ToSet
<1>7. \A c, e \in 1..Len(t) : t[c] = t[e] => c = e
  BY DEF RowD1
<1>8. \A c \in 1..Len(t) : Labelled(h[c], t[c])
  BY DEF RowD1, HeaderD1, Labelled
<1> QED BY <1>1, <1>2, <1>3, <1>4, <1>5, <1>6, <1>7, <1>8 DEF Agree

LEMMA SecondAgrees == Agree(GroupD2, RowD2, HeaderD2, {})
<1> DEFINE g == GroupD2
           t == RowD2
           h == HeaderD2
<1>1. t \in Seq(ToSet(t))
  <2>1. t \in Seq({t[c] : c \in 1..10}) /\ DOMAIN t = 1..10
    BY DEF RowD2
  <2> QED BY <2>1 DEF ToSet
<1>2. h \in Seq(ToSet(h)) /\ Len(h) = Len(t)
  <2>1. h \in Seq({h[c] : c \in 1..10}) /\ DOMAIN h = 1..10
    BY DEF HeaderD2
  <2>2. Len(h) = Len(t)
    BY DEF HeaderD2, RowD2
  <2> QED BY <2>1, <2>2 DEF ToSet
<1>3. g \in Seq(ToSet(g))
  <2>1. g \in Seq({g[c] : c \in 1..10}) /\ DOMAIN g = 1..10
    BY DEF GroupD2
  <2> QED BY <2>1 DEF ToSet
<1>4. /\ ToSet(t) \subseteq Averaged
      /\ \A x \in ToSet(t) : x \in {} \/ \E e \in ToSet(g) : x = Measured(e)
  BY DEF RowD2, GroupD2, Averaged, ToSet, Measured, Renamed
<1>5. \A e \in ToSet(g) : Measured(e) \in ToSet(t)
  BY DEF RowD2, GroupD2, ToSet, Measured, Renamed
<1>7. \A c, e \in 1..Len(t) : t[c] = t[e] => c = e
  BY DEF RowD2
<1>8. \A c \in 1..Len(t) : Labelled(h[c], t[c])
  BY DEF RowD2, HeaderD2, Labelled
<1> QED BY <1>1, <1>2, <1>3, <1>4, <1>5, <1>7, <1>8 DEF Agree

LEMMA ThirdAgrees == Agree(GroupD3, RowD3, HeaderD3, {})
<1> DEFINE g == GroupD3
           t == RowD3
           h == HeaderD3
<1>1. t \in Seq(ToSet(t))
  <2>1. t \in Seq({t[c] : c \in 1..7}) /\ DOMAIN t = 1..7
    BY DEF RowD3
  <2> QED BY <2>1 DEF ToSet
<1>2. h \in Seq(ToSet(h)) /\ Len(h) = Len(t)
  <2>1. h \in Seq({h[c] : c \in 1..7}) /\ DOMAIN h = 1..7
    BY DEF HeaderD3
  <2>2. Len(h) = Len(t)
    BY DEF HeaderD3, RowD3
  <2> QED BY <2>1, <2>2 DEF ToSet
<1>3. g \in Seq(ToSet(g))
  <2>1. g \in Seq({g[c] : c \in 1..7}) /\ DOMAIN g = 1..7
    BY DEF GroupD3
  <2> QED BY <2>1 DEF ToSet
<1>4. /\ ToSet(t) \subseteq Averaged
      /\ \A x \in ToSet(t) : x \in {} \/ \E e \in ToSet(g) : x = Measured(e)
  BY DEF RowD3, GroupD3, Averaged, ToSet, Measured, Renamed
<1>5. \A e \in ToSet(g) : Measured(e) \in ToSet(t)
  BY DEF RowD3, GroupD3, ToSet, Measured, Renamed
<1>7. \A c, e \in 1..Len(t) : t[c] = t[e] => c = e
  BY DEF RowD3
<1>8. \A c \in 1..Len(t) : Labelled(h[c], t[c])
  BY DEF RowD3, HeaderD3, Labelled
<1> QED BY <1>1, <1>2, <1>3, <1>4, <1>5, <1>7, <1>8 DEF Agree

\* The levels share no column.
LEMMA ColumnsDiffer ==
    /\ \A x \in ToSet(RowD1) : x \notin ToSet(RowD2) /\ x \notin ToSet(RowD3)
    /\ \A x \in ToSet(RowD2) : x \notin ToSet(RowD3)
  BY DEF RowD1, RowD2, RowD3, ToSet

LEMMA AgreeJoined ==
    ASSUME NEW g, NEW t, NEW h, NEW x, NEW u, NEW v, NEW w, NEW y,
           Agree(g, t, h, x), Agree(u, v, w, y),
           \A e \in ToSet(t) : e \notin ToSet(v)
    PROVE  Agree(g \o u, t \o v, h \o w, x \cup y)
<1> DEFINE columns == t \o v
           labels == h \o w
           group == g \o u
<1>1. /\ t \in Seq(ToSet(t)) /\ v \in Seq(ToSet(v))
      /\ h \in Seq(ToSet(h)) /\ w \in Seq(ToSet(w))
      /\ g \in Seq(ToSet(g)) /\ u \in Seq(ToSet(u))
      /\ Len(h) = Len(t) /\ Len(w) = Len(v)
  BY DEF Agree
<1>2. /\ columns \in Seq(ToSet(columns)) /\ ToSet(columns) = ToSet(t) \cup ToSet(v)
      /\ Len(t) \in Nat /\ Len(v) \in Nat /\ Len(columns) = Len(t) + Len(v)
      /\ \A k \in 1..Len(t) : columns[k] = t[k]
      /\ \A k \in 1..Len(columns) : k > Len(t) =>
            k - Len(t) \in 1..Len(v) /\ columns[k] = v[k - Len(t)]
  BY <1>1, Joined
<1>3. /\ labels \in Seq(ToSet(labels)) /\ Len(labels) = Len(h) + Len(w)
      /\ \A k \in 1..Len(h) : labels[k] = h[k]
      /\ \A k \in 1..Len(labels) : k > Len(h) =>
            k - Len(h) \in 1..Len(w) /\ labels[k] = w[k - Len(h)]
  <2>1. h \in Seq(ToSet(h)) /\ w \in Seq(ToSet(w))
    BY <1>1
  <2> QED BY ONLY <2>1, Joined
<1>4. group \in Seq(ToSet(group)) /\ ToSet(group) = ToSet(g) \cup ToSet(u)
  BY <1>1, Joined
<1> HIDE DEF columns, labels, group
<1>5. \A e : e \in ToSet(columns) <=>
             e \in x \cup y \/ \E f \in ToSet(group) : e = Measured(f)
  BY <1>2, <1>4 DEF Agree
<1>6. ToSet(columns) \subseteq Averaged
  BY <1>2 DEF Agree
<1>7. \A k \in 1..Len(columns) :
         \/ k \in 1..Len(t) /\ columns[k] = t[k]
         \/ k > Len(t) /\ k - Len(t) \in 1..Len(v) /\ columns[k] = v[k - Len(t)]
  BY <1>2
<1>8. /\ \A k \in 1..Len(t) : t[k] \in ToSet(t)
      /\ \A k \in 1..Len(v) : v[k] \in ToSet(v)
  BY <1>1, Members
<1>9. ASSUME NEW c \in 1..Len(columns), NEW e \in 1..Len(columns),
             columns[c] = columns[e]
      PROVE  c = e
  <2>1. CASE c \in 1..Len(t) /\ e \in 1..Len(t)
    BY <1>2, <1>9, <2>1 DEF Agree
  <2>2. CASE c > Len(t) /\ e > Len(t)
    <3> DEFINE a == c - Len(t)
               b == e - Len(t)
    <3>1. /\ a \in 1..Len(v) /\ b \in 1..Len(v) /\ v[a] = v[b]
          /\ c = Len(t) + a /\ e = Len(t) + b
      BY <1>2, <1>9, <2>2
    <3> HIDE DEF a, b
    <3>2. a = b
      BY <3>1 DEF Agree
    <3> QED BY <3>1, <3>2
  <2>3. CASE c \in 1..Len(t) /\ e > Len(t)
    BY <1>2, <1>8, <1>9, <2>3
  <2>4. CASE c > Len(t) /\ e \in 1..Len(t)
    BY <1>2, <1>8, <1>9, <2>4
  <2> QED BY <1>7, <2>1, <2>2, <2>3, <2>4
<1>10. ASSUME NEW c \in 1..Len(columns) PROVE Labelled(labels[c], columns[c])
  <2>1. CASE c \in 1..Len(t)
    BY <1>1, <1>2, <1>3, <2>1 DEF Agree
  <2>2. CASE c > Len(t)
    <3> DEFINE d == c - Len(t)
    <3>1. d \in 1..Len(v) /\ columns[c] = v[d] /\ labels[c] = w[d]
      BY <1>1, <1>2, <1>3, <2>2
    <3> HIDE DEF d
    <3> QED BY <3>1 DEF Agree
  <2> QED BY <1>7, <2>1, <2>2
<1>11. Len(labels) = Len(columns)
  BY <1>1, <1>2, <1>3
<1> QED BY <1>2, <1>3, <1>4, <1>5, <1>6, <1>9, <1>10, <1>11 DEF Agree, columns, labels, group

LEMMA NothingAgrees == Agree(<<>>, <<>>, <<>>, {})
  BY DEF Agree, ToSet

\* So do the tables of every level.
LEMMA TablesAgree ==
    ASSUME NEW detail \in 1..3
    PROVE  /\ Agree(Group(detail), Row(detail), Header(detail), {"name", "time"})
           /\ \A x \in ToSet(RowD1) : x \in ToSet(Row(detail))
           /\ detail = 3 =>
                 \A x : x \in ToSet(RowD2) \/ x \in ToSet(RowD3) => x \in ToSet(Row(detail))
<1> DEFINE Deeper(n, s) == IF detail >= n THEN s ELSE <<>>
           own == {"name", "time"}
           t == RowD1 \o Deeper(2, RowD2)
           g == GroupD1 \o Deeper(2, GroupD2)
           h == HeaderD1 \o Deeper(2, HeaderD2)
<1>1. \A e : e \notin ToSet(<<>>)
  BY DEF ToSet
<1>2. /\ Agree(Deeper(2, GroupD2), Deeper(2, RowD2), Deeper(2, HeaderD2), {})
      /\ Agree(Deeper(3, GroupD3), Deeper(3, RowD3), Deeper(3, HeaderD3), {})
  BY SecondAgrees, ThirdAgrees, NothingAgrees
<1>3. \A x \in ToSet(RowD1) : x \notin ToSet(Deeper(2, RowD2)) /\ x \notin ToSet(Deeper(3, RowD3))
  BY <1>1, ColumnsDiffer
<1>4. \A x \in ToSet(Deeper(2, RowD2)) : x \notin ToSet(Deeper(3, RowD3))
  BY <1>1, ColumnsDiffer
<1>5. /\ RowD1 \in Seq(ToSet(RowD1)) /\ Deeper(2, RowD2) \in Seq(ToSet(Deeper(2, RowD2)))
      /\ Deeper(3, RowD3) \in Seq(ToSet(Deeper(3, RowD3)))
  BY <1>2, FirstAgrees DEF Agree
<1>6. Row(detail) = t \o Deeper(3, RowD3) /\ Group(detail) = g \o Deeper(3, GroupD3)
      /\ Header(detail) = h \o Deeper(3, HeaderD3)
  BY DEF Row, Group, Header, UpTo
<1>7. detail = 3 => Deeper(2, RowD2) = RowD2 /\ Deeper(3, RowD3) = RowD3
  OBVIOUS
<1> HIDE DEF Deeper, own
<1>8. Agree(g, t, h, own \cup {})
  <2>1. Agree(GroupD1, RowD1, HeaderD1, own)
    BY FirstAgrees DEF own
  <2> QED BY <1>2, <1>3, <2>1, AgreeJoined
<1>9. ToSet(t) = ToSet(RowD1) \cup ToSet(Deeper(2, RowD2)) /\ t \in Seq(ToSet(t))
  BY <1>5, Joined
<1> HIDE DEF t, g, h
<1>10. Agree(Group(detail), Row(detail), Header(detail), (own \cup {}) \cup {})
  <2>1. \A e \in ToSet(t) : e \notin ToSet(Deeper(3, RowD3))
    BY <1>3, <1>4, <1>9
  <2>2. Agree(g \o Deeper(3, GroupD3), t \o Deeper(3, RowD3),
              h \o Deeper(3, HeaderD3), (own \cup {}) \cup {})
    BY <1>2, <1>8, <2>1, AgreeJoined
  <2> QED BY <1>6, <2>2
<1>11. (own \cup {}) \cup {} = own
  OBVIOUS
<1>12. ToSet(Row(detail)) = ToSet(t) \cup ToSet(Deeper(3, RowD3))
  BY <1>5, <1>6, <1>9, Joined
<1>13. Agree(Group(detail), Row(detail), Header(detail), own)
  BY <1>10, <1>11
<1> QED BY <1>7, <1>9, <1>12, <1>13 DEF own

\* What a metric divides is measured: at any level or at the third.
LEMMA MetricsMeasured ==
    /\ \A m \in DOMAIN Divides :
          \A x \in ToSet(Divides[m]) :
              x \in ToSet(RowD1) \/ x \in ToSet(RowD2) \/ x \in ToSet(RowD3)
    /\ \A m \in {"ipc", "branch_miss_rate", "cache_miss_rate"} :
          \A x \in ToSet(Divides[m]) : x \in ToSet(RowD1)
  BY DEF RowD1, RowD2, RowD3, ToSet, Divides

\* A row has every measured member once.
LEMMA RowIsComplete ==
    ASSUME NEW detail \in 1..3
    PROVE  /\ ToSet(Row(detail)) = Collected(detail) \cap Averaged
           /\ Len(Row(detail)) = Cardinality(Collected(detail) \cap Averaged)
           /\ Len(Header(detail)) = Len(Row(detail))
           /\ \A c \in 1..Len(Row(detail)) : Labelled(Header(detail)[c], Row(detail)[c])
<1> DEFINE t == Row(detail)
           T == ToSet(t)
<1>1. Agree(Group(detail), t, Header(detail), {"name", "time"})
  BY TablesAgree
<1>2. Collected(detail) = {"name", "time"} \cup {Measured(e) : e \in ToSet(Group(detail))}
  BY DEF Collected, Measured
<1>3. T = Collected(detail) \cap Averaged
  <2> HIDE DEF t
  <2>1. \A x : x \in T <=> x \in Collected(detail)
    BY <1>1, <1>2 DEF Agree
  <2> QED BY <1>1, <2>1 DEF Agree
<1>4. t \in Seq(T) /\ \A c, e \in 1..Len(t) : t[c] = t[e] => c = e
  BY <1>1 DEF Agree
<1> HIDE DEF t
<1>5. Len(t) \in Nat /\ t \in [1..Len(t) -> T] /\ T = {t[c] : c \in 1..Len(t)}
  BY <1>4 DEF ToSet
<1>6. t \in Bijection(1..Len(t), T)
  <2> HIDE DEF T
  <2>1. t \in Injection(1..Len(t), T)
    BY <1>4, <1>5 DEF Injection, IsInjective
  <2>2. t \in Surjection(1..Len(t), T)
    BY <1>5 DEF Surjection
  <2> QED BY <2>1, <2>2 DEF Bijection
<1>7. Cardinality(T) = Len(t)
  <2>1. ExistsBijection(1..Len(t), T)
    BY <1>6 DEF ExistsBijection
  <2> QED BY <1>5, <2>1, FS_CountingElements
<1>8. /\ Len(Header(detail)) = Len(t)
      /\ \A c \in 1..Len(t) : Labelled(Header(detail)[c], t[c])
  BY <1>1 DEF Agree
<1> QED BY <1>3, <1>7, <1>8 DEF t

\* A row shows what its run measured, a header names the columns, and the
\* metrics of the help text divide what was measured (collect, collapse_runs,
\* the emitters of format.hpp and the table of metrics.hpp).
THEOREM ReportCompleteHolds == Spec => []ReportComplete
<1>1. SetupInv /\ OutInv => ReportComplete
  <2> DEFINE InFull(line) ==
                 /\ line.kind = "row" =>
                       /\ ToSet(line.columns) = line.result.members
                       /\ Len(line.columns) = Cardinality(line.result.members)
                 /\ line.kind = "header" =>
                       /\ Len(line.columns) = Len(Row(opts.detail))
                       /\ \A c \in 1..Len(Row(opts.detail)) :
                             Labelled(line.columns[c], Row(opts.detail)[c])
                 /\ (line.kind = "metric" /\ line.members # <<>>
                       /\ \/ opts.detail = 3
                          \/ MetricOf[line.metric] \in
                                {"ipc", "branch_miss_rate", "cache_miss_rate"}) =>
                       ToSet(line.members) \subseteq Kind("row")[1].result.members
  <2> SUFFICES ASSUME SetupInv, OutInv, NEW k \in 1..Len(out) PROVE InFull(out[k])
    BY DEF ReportComplete, Labelled
  <2> DEFINE measured == Collected(opts.detail) \cap Averaged
  <2>1. opts.detail \in 1..3
    BY DEF SetupInv, ParseInv, OptionsType
  <2>2. out \in Seq(ToSet(out)) /\ out[k] \in ToSet(out) /\ Sound(out[k])
    BY Members DEF OutInv
  <2>3. /\ ToSet(Row(opts.detail)) = measured
        /\ Len(Row(opts.detail)) = Cardinality(measured)
        /\ Len(Header(opts.detail)) = Len(Row(opts.detail))
        /\ \A c \in 1..Len(Row(opts.detail)) :
               Labelled(Header(opts.detail)[c], Row(opts.detail)[c])
    BY <2>1, RowIsComplete
  <2> HIDE DEF measured
  <2>4. CASE out[k].kind = "row"
    <3>1. out[k].columns = Row(opts.detail) /\ out[k].result.members = measured
      BY <2>2, <2>4 DEF Sound, measured
    <3> QED BY <2>3, <2>4, <3>1
  <2>5. CASE out[k].kind = "header"
    <3>1. out[k].columns = Header(opts.detail)
      BY <2>2, <2>5 DEF Sound
    <3> QED BY <2>3, <2>5, <3>1
  <2>6. ASSUME out[k].kind = "metric", out[k].members # <<>>,
               \/ opts.detail = 3
               \/ MetricOf[out[k].metric] \in {"ipc", "branch_miss_rate", "cache_miss_rate"}
        PROVE  ToSet(out[k].members) \subseteq Kind("row")[1].result.members
    <3> DEFINE m == MetricOf[out[k].metric]
    <3>1. out[k].metric \in DOMAIN MetricOf /\ out[k].members = Divides[m]
      BY <2>2, <2>6 DEF Sound
    <3>2. m \in DOMAIN Divides
      BY <3>1, MetricsAssumption
    <3>3. \A x \in ToSet(Divides[m]) : x \in ToSet(Row(opts.detail))
      <4>1. /\ \A x \in ToSet(RowD1) : x \in ToSet(Row(opts.detail))
            /\ opts.detail = 3 =>
                  \A x : x \in ToSet(RowD2) \/ x \in ToSet(RowD3)
                         => x \in ToSet(Row(opts.detail))
        BY <2>1, TablesAgree
      <4> HIDE DEF m
      <4>2. CASE opts.detail = 3
        BY <3>2, <4>1, <4>2, MetricsMeasured
      <4>3. CASE m \in {"ipc", "branch_miss_rate", "cache_miss_rate"}
        BY <4>1, <4>3, MetricsMeasured
      <4> QED BY <2>6, <4>2, <4>3 DEF m
    <3>4. PICK j \in 1..(k - 1) : out[j].kind = "row"
      BY <2>6 DEF OutInv, AllUnder, Under
    <3>5. j \in 1..Len(out) /\ out[j] \in ToSet(out)
      <4>1. j \in 1..Len(out)
        BY <2>2
      <4> QED BY <2>2, <4>1, Members
    <3> DEFINE S == {line \in ToSet(out) : line.kind = "row"}
    <3>6. out[j] \in S
      BY <3>4, <3>5
    <3> DEFINE T == ToSet(out)
    <3>7. Kept(out, S)[1] \in T \cap S
      <4>1. out \in Seq(T) /\ j \in 1..Len(out) /\ out[j] \in S
        BY <2>2, <3>5, <3>6
      <4> HIDE DEF S, T
      <4> QED BY <4>1, KeptSome
    <3>8. Kind("row")[1].result.members = measured
      <4>1. Kind("row")[1] \in ToSet(out) /\ Kind("row")[1].kind = "row"
        BY <3>7 DEF Kind
      <4> QED BY <4>1 DEF OutInv, Sound, measured
    <3> QED BY <2>3, <3>1, <3>3, <3>8
  <2> QED BY <2>4, <2>5, <2>6
<1> QED BY <1>1, SetupInvariance, OutInvariance, PTL
=============================================================================
