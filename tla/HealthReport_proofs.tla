------------------------ MODULE HealthReport_proofs ------------------------
(***************************************************************************)
(* Theorems about HealthReport, for every set of conditions, collectors,   *)
(* readings and rules, every retention and any number of concurrent runs   *)
(* (except where a single run is assumed).                                 *)
(***************************************************************************)
EXTENDS HealthReportMemory, TLAPS

USE DEF SeverityNames, FirstAge, CollectorHealth, RotateFiles, Saves

\* Classify answers with a severity, whatever the observation.
LEMMA ClassifyType ==
  ASSUME NEW i \in Ids, NEW obs, NEW isNew
  PROVE  Classify(Rule[i], obs, isNew) \in SeverityNames
<1>1. Rule[i].level \in SeverityNames
  BY RuleAssumption DEF RuleRecord
<1>2. Threshold(Rule[i], obs) \in SeverityNames
  BY DEF Threshold, BreachedLevel
<1>3. ThresholdOrSpike(Rule[i], obs) \in SeverityNames
  BY <1>1 DEF ThresholdOrSpike, BreachedLevel
<1>4. Equals(Rule[i], obs) \in SeverityNames
  BY DEF Equals
<1>. QED
  BY <1>1, <1>2, <1>3, <1>4 DEF Classify

\* A run classifies every identity, or does not see it.
LEMMA ClassifiedType ==
  ASSUME NEW reading, NEW memory
  PROVE  Classified(reading, memory) \in Severities
BY ClassifyType DEF Classified, Severities

LEMMA DiffType ==
  ASSUME NEW severity \in Severities, NEW before, NEW memory
  PROVE  Diff(severity, before, memory) \in Facts
BY DEF Diff, Facts, ActionableIn

LEMMA RememberedRecord ==
  ASSUME NEW diff, NEW reading \in Reading, NEW memory \in SeenFile,
         NEW i \in Ids, reading[i] # None
  PROVE  Remembered(diff, reading, memory)[i] \in SeenRecord
<1>1. memory[i] # None => memory[i].firstAge \in 0..AgeCap
  BY DEF SeenFile, SeenRecord
<1>2. 0 \in 0..AgeCap /\ 0 \in 0..(Retention + 1)
  BY ConstantsAssumption
<1>3. reading[i] \in Readings
  BY DEF Reading
<1>. QED
  BY <1>1, <1>2, <1>3 DEF Remembered, SeenRecord, Actionable, WasAlerted

LEMMA RememberedType ==
  ASSUME NEW diff, NEW reading \in Reading, NEW memory \in SeenFile
  PROVE  Remembered(diff, reading, memory) \in SeenFile
<1>1. ASSUME NEW i \in Ids, reading[i] = None
      PROVE  Remembered(diff, reading, memory)[i] \in SeenRecord \cup {None}
  BY <1>1 DEF Remembered, SeenFile
<1>. QED
  BY <1>1, RememberedRecord DEF Remembered, SeenFile

LEMMA ObservedType ==
  ASSUME NEW truth \in Truths, NEW names, NEW failed, NEW kept
  PROVE  Observed(truth, names, failed, kept) \in Reading
BY ConstantsAssumption DEF Observed, Reading, Truths, Ids

LEMMA PruneType ==
  ASSUME NEW memory \in SeenFile, NEW facts
  PROVE  PruneSeen(memory, facts) \in SeenFile
BY DEF PruneSeen, SeenFile

LEMMA OlderType ==
  ASSUME NEW cap \in Nat, NEW age \in 0..cap
  PROVE  Older(age, cap) \in 0..cap
BY DEF Older

\* Every file and every invocation keeps its type.
LEMMA InitType == Init => TypeOK
BY DEF Init, TypeOK, Idle, RunRecord, Steps, SeenFile

LEMMA CollectType ==
  ASSUME TypeOK, NEW r \in Runs, NEW truth \in Truths,
         NEW failed \in SUBSET Collectors, Collect(r, truth, failed)
  PROVE  TypeOK'
<1>1. PICK names \in Selections, mode \in Modes :
        \E kept \in SUBSET {i \in Conditions : Source[i] \in failed} :
          run' = [run EXCEPT ![r] =
                    [Idle EXCEPT !.pc = "collected", !.mode = mode,
                       !.reading = Observed(truth, names, failed, kept)]]
  BY DEF Collect
<1>2. PICK kept :
        run' = [run EXCEPT ![r] =
                  [Idle EXCEPT !.pc = "collected", !.mode = mode,
                     !.reading = Observed(truth, names, failed, kept)]]
  BY <1>1
<1>3. Observed(truth, names, failed, kept) \in Reading
  BY ObservedType
<1>4. mode \in Flags
  BY ModesAssumption
<1>. QED
  BY <1>2, <1>3, <1>4, NoneAssumption
  DEF TypeOK, Collect, Idle, RunRecord, Steps

LEMMA AssembleType ==
  ASSUME TypeOK, NEW r \in Runs, Assemble(r)
  PROVE  TypeOK'
<1>. DEFINE severity == Classified(run[r].reading, seen)
            diff     == Diff(severity, run[r].before, seen)
            memory   == Remembered(diff, run[r].reading, seen)
<1>1. run[r].reading \in Reading
  BY DEF TypeOK, Assemble, RunRecord
<1>2. severity \in Severities
  BY ClassifiedType
<1>3. diff \in Facts
  BY <1>2, DiffType
<1>4. memory \in SeenFile
  BY <1>1, RememberedType DEF TypeOK
<1>5. run' = [run EXCEPT ![r].pc = "assembled", ![r].facts = diff,
                         ![r].seen = memory,
                         ![r].reading = None, ![r].before = None]
  BY DEF Assemble
<1>. HIDE DEF severity, diff, memory
<1>. QED
  BY <1>3, <1>4, <1>5, NoneAssumption
  DEF TypeOK, Assemble, RunRecord, Steps

LEMMA RotateType ==
  ASSUME TypeOK, NEW r \in Runs, Rotate(r)
  PROVE  TypeOK'
<1>. DEFINE memory == PruneSeen(run[r].seen, run[r].facts)
<1>1. memory \in SeenFile
  BY PruneType DEF TypeOK, Rotate, RunRecord
<1>2. run' = [run EXCEPT ![r].pc = "rotated", ![r].seen = memory]
  BY DEF Rotate
<1>3. /\ latest' \in Severities \cup {None}
      /\ previous' \in Severities \cup {None}
      /\ seen' \in SeenFile
  BY DEF TypeOK, Rotate
<1>4. run[r].facts # None /\ run[r].mode # None
  BY DEF TypeOK, Rotate
<1>. HIDE DEF memory
<1>5. run' \in [Runs -> RunRecord]
  <2>1. [run[r] EXCEPT !.pc = "rotated", !.seen = memory] \in RunRecord
    BY <1>1 DEF TypeOK, RunRecord, Steps
  <2>2. run' = [run EXCEPT ![r] =
                  [run[r] EXCEPT !.pc = "rotated", !.seen = memory]]
    BY <1>2 DEF TypeOK, RunRecord
  <2>. QED
    BY <2>1, <2>2 DEF TypeOK
<1>6. memory # None
  BY <1>1, NoneAssumption
<1>. QED
  BY <1>2, <1>3, <1>4, <1>5, <1>6 DEF TypeOK

LEMMA TickType ==
  ASSUME TypeOK, Tick
  PROVE  TypeOK'
<1>1. ASSUME NEW i \in Ids, seen[i] # None
      PROVE  /\ Older(seen[i].firstAge, AgeCap) \in 0..AgeCap
             /\ Older(seen[i].lastAge, Retention + 1) \in 0..(Retention + 1)
  BY <1>1, OlderType, ConstantsAssumption DEF TypeOK, SeenFile, SeenRecord
<1>2. seen' \in SeenFile
  BY <1>1 DEF TypeOK, Tick, SeenFile, SeenRecord
<1>. QED
  BY <1>2 DEF TypeOK, Tick

LEMMA StepType ==
  ASSUME TypeOK, NEW r \in Runs, Step(r) \/ Abort(r)
  PROVE  TypeOK'
<1>1. CASE LoadPrevious(r)
  BY <1>1 DEF TypeOK, LoadPrevious, RunRecord, Steps
<1>2. CASE Assemble(r)
  BY <1>2, AssembleType
<1>3. CASE Deliver(r)
  <2>1. PICK arrived \in {TRUE, FALSE} :
          run' = [run EXCEPT ![r].pc = "delivered", ![r].arrived = arrived]
    BY <1>3 DEF Deliver
  <2>2. [run[r] EXCEPT !.pc = "delivered", !.arrived = arrived] \in RunRecord
    BY DEF TypeOK, RunRecord, Steps
  <2>3. run' = [run EXCEPT ![r] =
                  [run[r] EXCEPT !.pc = "delivered", !.arrived = arrived]]
    BY <2>1 DEF TypeOK, RunRecord
  <2>4. run[r].facts # None /\ run[r].seen # None /\ run[r].mode # None
    BY <1>3 DEF TypeOK, Deliver
  <2>5. run' \in [Runs -> RunRecord]
    BY <2>2, <2>3 DEF TypeOK
  <2>6. /\ run'[r].pc = "delivered"
        /\ run'[r].mode = run[r].mode
        /\ run'[r].facts = run[r].facts
        /\ run'[r].seen = run[r].seen
        /\ \A s \in Runs \ {r} : run'[s] = run[s]
    BY <2>3 DEF TypeOK, RunRecord
  <2>7. UNCHANGED <<latest, previous, seen>>
    BY <1>3 DEF Deliver
  <2>. QED
    BY <2>4, <2>5, <2>6, <2>7 DEF TypeOK
<1>4. CASE EndDryRun(r)
  BY <1>4 DEF TypeOK, EndDryRun, RunRecord, Steps, Idle
<1>5. CASE Rotate(r)
  BY <1>5, RotateType
<1>6. CASE WriteLatest(r)
  BY <1>6 DEF TypeOK, WriteLatest, RunRecord, Steps, Facts
<1>7. CASE WriteSeen(r)
  BY <1>7 DEF TypeOK, WriteSeen, RunRecord, Steps, Idle
<1>8. CASE Abort(r)
  BY <1>8 DEF TypeOK, Abort, RunRecord, Steps, Idle
<1>. QED
  BY <1>1, <1>2, <1>3, <1>4, <1>5, <1>6, <1>7, <1>8 DEF Step

LEMMA NextType == TypeOK /\ [Next]_vars => TypeOK'
<1>. SUFFICES ASSUME TypeOK, [Next]_vars PROVE TypeOK'
  OBVIOUS
<1>1. CASE Tick
  BY <1>1, TickType
<1>2. ASSUME NEW r \in Runs, NEW truth \in Truths,
             NEW failed \in SUBSET Collectors, Collect(r, truth, failed)
      PROVE  TypeOK'
  BY <1>2, CollectType
<1>3. ASSUME NEW r \in Runs, Step(r) \/ Abort(r)
      PROVE  TypeOK'
  BY <1>3, StepType
<1>4. CASE UNCHANGED vars
  BY <1>4 DEF TypeOK, vars
<1>. QED
  BY <1>1, <1>2, <1>3, <1>4 DEF Next

\* Whatever the rules and readings, and however many invocations overlap or
\* are aborted, the three files and every invocation have their types.
THEOREM TypeCorrect == Spec => []TypeOK
BY InitType, NextType, PTL DEF Spec

-----------------------------------------------------------------------------
(* The history variables observe: every behaviour of HSpec is one of Spec.   *)

LEMMA HistoryObserves == [HNext]_allVars => [Next]_vars
<1>. SUFFICES ASSUME [HNext]_allVars PROVE [Next]_vars
  OBVIOUS
<1>1. CASE HTick
  BY <1>1 DEF HTick, Next
<1>2. ASSUME NEW r \in Runs, HStart(r) PROVE Next
  BY <1>2 DEF HStart, HCollect, Next
<1>3. ASSUME NEW r \in Runs, HStep(r) PROVE Next
  BY <1>3 DEF HStep, HDeliver, HEndDryRun, HRotate, HWriteLatest, HWriteSeen,
              Step, Next
<1>4. ASSUME NEW r \in Runs, HAbort(r) PROVE Next
  BY <1>4 DEF HAbort, Next
<1>5. CASE UNCHANGED allVars
  BY <1>5 DEF allVars, vars
<1>. QED
  BY <1>1, <1>2, <1>3, <1>4, <1>5 DEF HNext

LEMMA HistoryTypeCorrect == HSpec => []TypeOK
<1>1. HInit => TypeOK
  BY InitType DEF HInit
<1>2. TypeOK /\ [HNext]_allVars => TypeOK'
  BY HistoryObserves, NextType
<1>. QED
  BY <1>1, <1>2, PTL DEF HSpec

\* However many invocations save at once, and wherever each of them dies, the
\* last completed report is in facts-latest.json or in facts-previous.json.
THEOREM LastReportAlwaysSurvives == HSpec => []LastReportSurvives
<1>1. HInit => LastReportSurvives
  BY DEF HInit, Init, LastReportSurvives
<1>2. LastReportSurvives /\ [HNext]_allVars => LastReportSurvives'
  <2>. SUFFICES ASSUME LastReportSurvives, [HNext]_allVars
                PROVE  LastReportSurvives'
    OBVIOUS
  <2>1. CASE HTick
    BY <2>1 DEF HTick, Tick, LastReportSurvives
  <2>2. ASSUME NEW r \in Runs, HStart(r) PROVE LastReportSurvives'
    BY <2>2 DEF HStart, HCollect, Collect, LastReportSurvives
  <2>3. ASSUME NEW r \in Runs, HAbort(r) PROVE LastReportSurvives'
    BY <2>3 DEF HAbort, Abort, LastReportSurvives
  <2>4. ASSUME NEW r \in Runs, HStep(r) PROVE LastReportSurvives'
    <3>1. CASE (LoadPrevious(r) \/ Assemble(r)) /\ UNCHANGED history
      BY <3>1 DEF LoadPrevious, Assemble, history, LastReportSurvives
    <3>2. CASE HDeliver(r) \/ HEndDryRun(r) \/ HWriteSeen(r)
      BY <3>2 DEF HDeliver, Deliver, HEndDryRun, EndDryRun, HWriteSeen,
                  WriteSeen, LastReportSurvives
    <3>3. CASE HRotate(r)
      BY <3>3 DEF HRotate, Rotate, LastReportSurvives
    <3>4. CASE HWriteLatest(r)
      BY <3>4 DEF HWriteLatest, LastReportSurvives
    <3>. QED
      BY <2>4, <3>1, <3>2, <3>3, <3>4 DEF HStep
  <2>5. CASE UNCHANGED allVars
    BY <2>5 DEF allVars, vars, history, LastReportSurvives
  <2>. QED
    BY <2>1, <2>2, <2>3, <2>4, <2>5 DEF HNext
<1>. QED
  BY <1>1, <1>2, PTL DEF HSpec

-----------------------------------------------------------------------------
(* A vanished problem is announced: the inductive invariant ties what a run  *)
(* observed, and then what it reports, to what held when it looked.          *)

\* rules.yml as deployed, and the timer's invocation, which names every
\* collector: collector_failed is a `present` rule without a grace period.
Deployed ==
  /\ Selections = {Collectors}
  /\ \A c \in Collectors : /\ Rule[c].type = "present"
                            /\ Actionable(Rule[c].level)
                            /\ Rule[c].minAge = None
                            /\ Rule[c].subjects = {}
  /\ \A i \in Ids : Plain(i) => Rule[i].subjects = {}

\* Before it assembles, a run has seen each condition, or that its collector
\* failed.
SeesAll(r) ==
  \A i \in Conditions :
    run[r].reading[i] = truthOf[r][i] \/ run[r].reading[Source[i]] # None

\* After, it alerts for each breach of an ungated rule, or for its collector.
AlertsAll(r) ==
  /\ run[r].facts.resolved \cap Alerts(r) = {}
  /\ \A i \in Conditions :
       Plain(i) /\ Breached(i, truthOf[r][i]) =>
         i \in Alerts(r) \/ Source[i] \in Alerts(r)

Insight ==
  \A r \in Runs :
    /\ run[r].pc \in {"collected", "loaded"} => SeesAll(r)
    /\ run[r].pc \in {"assembled", "delivered"} => AlertsAll(r)

\* What is kept about one run is all that a step of another run disturbs.
RunInsight(r) ==
  /\ run[r].pc \in {"collected", "loaded"} => SeesAll(r)
  /\ run[r].pc \in {"assembled", "delivered"} => AlertsAll(r)

HistoryType == truthOf \in [Runs -> Truths \cup {None}]

LEMMA CollectInsight ==
  ASSUME Deployed, TypeOK, HistoryType, NEW r \in Runs, HStart(r)
  PROVE  RunInsight(r)'
<1>1. PICK truth \in Truths, failed \in SUBSET Collectors :
        HCollect(r, truth, failed)
  BY DEF HStart
<1>2. PICK names \in Selections, mode \in Modes :
        \E kept \in SUBSET {i \in Conditions : Source[i] \in failed} :
          run' = [run EXCEPT ![r] =
                    [Idle EXCEPT !.pc = "collected", !.mode = mode,
                       !.reading = Observed(truth, names, failed, kept)]]
  BY <1>1 DEF HCollect, Collect
<1>3. PICK kept \in SUBSET {i \in Conditions : Source[i] \in failed} :
        run' = [run EXCEPT ![r] =
                  [Idle EXCEPT !.pc = "collected", !.mode = mode,
                     !.reading = Observed(truth, names, failed, kept)]]
  BY <1>2
<1>4. /\ run'[r].pc = "collected"
      /\ run'[r].reading = Observed(truth, names, failed, kept)
      /\ truthOf'[r] = truth
  BY <1>1, <1>3 DEF HCollect, TypeOK, HistoryType, Idle
<1>5. ASSUME NEW i \in Conditions
      PROVE  \/ run'[r].reading[i] = truthOf'[r][i]
             \/ run'[r].reading[Source[i]] # None
  <2>1. /\ i \in Ids /\ i \notin Collectors
        /\ Source[i] \in Collectors /\ Source[i] \in Ids
        /\ Source[i] \in names
    BY ConstantsAssumption DEF Ids, Deployed
  <2>2. CASE Source[i] \in failed
    BY <1>4, <2>1, <2>2, NoneAssumption DEF Observed
  <2>3. CASE Source[i] \notin failed
    BY <1>4, <2>1, <2>3 DEF Observed
  <2>. QED
    BY <2>2, <2>3
<1>. QED
  BY <1>4, <1>5 DEF RunInsight, SeesAll

\* A breach of an ungated rule that a run observes is classified as actionable.
LEMMA BreachAlerts ==
  ASSUME Deployed, NEW reading, NEW memory, NEW i \in Ids, Plain(i),
         Breached(i, reading[i])
  PROVE  Actionable(Classified(reading, memory)[i])
<1>1. reading[i] # None /\ BreachedLevel(Rule[i], reading[i]) # "info"
  BY DEF Breached, Plain
<1>2. /\ Rule[i].type = "threshold"
      /\ Rule[i].minAge = None
      /\ Rule[i].subjects = {}
  BY DEF Plain, Gated, Deployed
<1>. DEFINE obs == Observation(reading[i], memory[i])
<1>3. obs.number = reading[i]
  BY DEF Observation
<1>4. Threshold(Rule[i], obs) = BreachedLevel(Rule[i], reading[i])
  BY <1>1, <1>2, <1>3 DEF Threshold, OldEnough
<1>5. Classified(reading, memory)[i] = BreachedLevel(Rule[i], reading[i])
  BY <1>1, <1>2, <1>4 DEF Classified, Classify, InScope
<1>. QED
  BY <1>1, <1>5 DEF Actionable, BreachedLevel

\* The observation of a failed collector is actionable.
LEMMA FailureAlerts ==
  ASSUME Deployed, NEW reading, NEW memory, NEW c \in Collectors,
         reading[c] # None
  PROVE  Actionable(Classified(reading, memory)[c])
<1>1. /\ c \in Ids
      /\ Rule[c].type = "present"
      /\ Rule[c].minAge = None
      /\ Rule[c].subjects = {}
      /\ Actionable(Rule[c].level)
  BY DEF Ids, Deployed
<1>2. Classified(reading, memory)[c] = Rule[c].level
  BY <1>1 DEF Classified, Classify, InScope, Matches, OldEnough
<1>. QED
  BY <1>1, <1>2

LEMMA AssembleInsight ==
  ASSUME Deployed, TypeOK, NEW r \in Runs, RunInsight(r), Assemble(r),
         UNCHANGED history
  PROVE  RunInsight(r)'
<1>. DEFINE severity == Classified(run[r].reading, seen)
            diff     == Diff(severity, run[r].before, seen)
<1>1. SeesAll(r)
  BY DEF RunInsight, Assemble
<1>2. run'[r].pc = "assembled" /\ run'[r].facts = diff
  BY DEF Assemble, TypeOK, RunRecord
<1>3. diff.severity = severity /\ severity \in Severities
  BY ClassifiedType DEF Diff
<1>4. diff.resolved \cap ActionableIn(severity) = {}
  BY DEF Diff
<1>5. ActionableIn(severity) = {i \in Ids : Actionable(severity[i])}
  BY <1>3, NoneAssumption DEF ActionableIn
<1>6. truthOf' = truthOf
  BY DEF history
<1>7. ASSUME NEW i \in Conditions, Plain(i), Breached(i, truthOf[r][i])
      PROVE  i \in ActionableIn(severity) \/ Source[i] \in ActionableIn(severity)
  <2>1. i \in Ids /\ Source[i] \in Collectors /\ Source[i] \in Ids
    BY ConstantsAssumption DEF Ids
  <2>2. CASE run[r].reading[i] = truthOf[r][i]
    BY <1>5, <1>7, <2>1, <2>2, BreachAlerts
  <2>3. CASE run[r].reading[Source[i]] # None
    BY <1>5, <2>1, <2>3, FailureAlerts
  <2>. QED
    BY <1>1, <2>2, <2>3 DEF SeesAll
<1>. HIDE DEF severity, diff
<1>. QED
  BY <1>2, <1>3, <1>4, <1>6, <1>7 DEF RunInsight, AlertsAll, Alerts, Breached

\* A step that leaves what RunInsight(r) reads alone, or takes r past it.
LEMMA UndisturbedInsight ==
  ASSUME NEW r \in Runs, RunInsight(r), truthOf'[r] = truthOf[r],
         \/ run'[r] = run[r]
         \/ /\ run'[r].pc \in {"loaded", "delivered"}
            /\ run[r].pc = "collected" => run'[r].pc = "loaded"
            /\ run[r].pc = "assembled" => run'[r].pc = "delivered"
            /\ run[r].pc \in {"collected", "assembled"}
            /\ run'[r].reading = run[r].reading
            /\ run'[r].facts = run[r].facts
  PROVE  RunInsight(r)'
BY DEF RunInsight, SeesAll, AlertsAll, Alerts

LEMMA StepInsight ==
  ASSUME Deployed, TypeOK, HistoryType, NEW r \in Runs, RunInsight(r),
         HStep(r) \/ HAbort(r)
  PROVE  RunInsight(r)'
<1>1. CASE LoadPrevious(r) /\ UNCHANGED history
  <2>1. /\ run[r].pc = "collected" /\ run'[r].pc = "loaded"
        /\ run'[r].reading = run[r].reading
        /\ run'[r].facts = run[r].facts
    BY <1>1 DEF LoadPrevious, TypeOK, RunRecord
  <2>. QED
    BY <1>1, <2>1, UndisturbedInsight DEF history
<1>2. CASE Assemble(r) /\ UNCHANGED history
  BY <1>2, AssembleInsight
<1>3. CASE HDeliver(r)
  <2>1. PICK arrived \in {TRUE, FALSE} :
          run' = [run EXCEPT ![r].pc = "delivered", ![r].arrived = arrived]
    BY <1>3 DEF HDeliver, Deliver
  <2>2. /\ run[r].pc = "assembled" /\ run'[r].pc = "delivered"
        /\ run'[r].reading = run[r].reading
        /\ run'[r].facts = run[r].facts
        /\ truthOf' = truthOf
    BY <1>3, <2>1 DEF HDeliver, Deliver, TypeOK, RunRecord
  <2>. QED
    BY <2>2, UndisturbedInsight
<1>4. CASE HEndDryRun(r) \/ HWriteSeen(r) \/ HAbort(r)
  <2>1. run'[r].pc = "idle"
    BY <1>4 DEF HEndDryRun, EndDryRun, HWriteSeen, WriteSeen, HAbort, Abort,
                TypeOK, Idle
  <2>. QED
    BY <2>1 DEF RunInsight
<1>5. CASE HRotate(r) \/ HWriteLatest(r)
  <2>1. run'[r].pc \in {"rotated", "written"}
    BY <1>5 DEF HRotate, Rotate, HWriteLatest, WriteLatest, TypeOK, RunRecord
  <2>. QED
    BY <2>1 DEF RunInsight
<1>. QED
  BY <1>1, <1>2, <1>3, <1>4, <1>5 DEF HStep

\* One run's steps leave the record and the truth of the others alone.
LEMMA OthersUntouched ==
  ASSUME TypeOK, HistoryType, NEW r \in Runs,
         HStart(r) \/ HStep(r) \/ HAbort(r), NEW s \in Runs \ {r}
  PROVE  run'[s] = run[s] /\ truthOf'[s] = truthOf[s]
<1>1. CASE HStart(r)
  BY <1>1 DEF HStart, HCollect, Collect, TypeOK, HistoryType
<1>2. CASE HAbort(r)
  BY <1>2 DEF HAbort, Abort, TypeOK, HistoryType
<1>3. CASE (LoadPrevious(r) \/ Assemble(r)) /\ UNCHANGED history
  BY <1>3 DEF LoadPrevious, Assemble, history, TypeOK
<1>4. CASE HRotate(r)
  BY <1>4 DEF HRotate, Rotate, TypeOK, HistoryType
<1>5. CASE HDeliver(r)
  BY <1>5 DEF HDeliver, Deliver, TypeOK
<1>6. CASE HEndDryRun(r)
  BY <1>6 DEF HEndDryRun, EndDryRun, TypeOK, HistoryType
<1>7. CASE HWriteLatest(r) \/ HWriteSeen(r)
  BY <1>7 DEF HWriteLatest, WriteLatest, HWriteSeen, WriteSeen, TypeOK
<1>. QED
  BY <1>1, <1>2, <1>3, <1>4, <1>5, <1>6, <1>7 DEF HStep

LEMMA HistoryTypeInductive ==
  HistoryType /\ [HNext]_allVars => HistoryType'
<1>. SUFFICES ASSUME HistoryType, [HNext]_allVars PROVE HistoryType'
  OBVIOUS
<1>1. CASE HTick
  BY <1>1 DEF HTick, HistoryType
<1>2. ASSUME NEW r \in Runs, HStart(r) PROVE HistoryType'
  BY <1>2 DEF HStart, HCollect, HistoryType
<1>3. ASSUME NEW r \in Runs, HStep(r) PROVE HistoryType'
  BY <1>3 DEF HStep, HRotate, HDeliver, HEndDryRun, HWriteLatest, HWriteSeen,
              history, HistoryType
<1>4. ASSUME NEW r \in Runs, HAbort(r) PROVE HistoryType'
  BY <1>4 DEF HAbort, HistoryType
<1>5. CASE UNCHANGED allVars
  BY <1>5 DEF allVars, history, HistoryType
<1>. QED
  BY <1>1, <1>2, <1>3, <1>4, <1>5 DEF HNext

LEMMA InsightInductive ==
  ASSUME Deployed, TypeOK, HistoryType, Insight, [HNext]_allVars
  PROVE  Insight'
<1>. SUFFICES ASSUME NEW s \in Runs PROVE RunInsight(s)'
  BY DEF Insight, RunInsight
<1>1. RunInsight(s)
  BY DEF Insight, RunInsight
<1>2. CASE HTick
  BY <1>1, <1>2, UndisturbedInsight DEF HTick, Tick
<1>3. ASSUME NEW r \in Runs, HStart(r) \/ HStep(r) \/ HAbort(r)
      PROVE  RunInsight(s)'
  <2>1. CASE s = r
    BY <1>1, <1>3, <2>1, CollectInsight, StepInsight
  <2>2. CASE s # r
    BY <1>1, <1>3, <2>2, OthersUntouched, UndisturbedInsight
  <2>. QED
    BY <2>1, <2>2
<1>4. CASE UNCHANGED allVars
  BY <1>1, <1>4, UndisturbedInsight DEF allVars, vars, history
<1>. QED
  BY <1>2, <1>3, <1>4 DEF HNext

\* With the deployed rules, no report of any of the concurrent runs calls a
\* problem resolved that is still there, unless it names the collector that
\* failed: whatever the readings, the failures and the state the files are in.
THEOREM NoSilentRecoveryEver ==
  ASSUME Deployed
  PROVE  HSpec => []NoSilentRecovery
<1>1. HInit => HistoryType /\ Insight
  BY DEF HInit, Init, Idle, HistoryType, Insight
<1>2. TypeOK /\ HistoryType /\ Insight /\ [HNext]_allVars
        => (HistoryType /\ Insight)'
  BY HistoryTypeInductive, InsightInductive
<1>3. Insight => NoSilentRecovery
  BY ConstantsAssumption
  DEF Insight, AlertsAll, NoSilentRecovery, Reported, Plain, Ids
<1>. QED
  BY <1>1, <1>2, <1>3, HistoryTypeCorrect, PTL DEF HSpec

-----------------------------------------------------------------------------
(* Refinement of ProblemMemory.  The seen-state a run carries from Assemble  *)
(* to WriteSeen relates, identity by identity, to the file it will replace.  *)

\* The run observed i: its record is fresh, and no less alerted.
Renewed(r, i) ==
  /\ run[r].seen[i] # None
  /\ run[r].seen[i].lastAge = 0
  /\ WasAlerted(seen, i) => run[r].seen[i].actionable

\* The run did not observe i, and carries the record of the file.
Kept(r, i) == run[r].seen[i] = seen[i] /\ i \notin Alerts(r)

\* The same after PruneSeen, which drops records beyond the retention.
KeptOrPruned(r, i) ==
  run[r].seen[i] = IF seen[i] # None /\ seen[i].lastAge > Retention
                   THEN None ELSE seen[i]

Carries(r) ==
  /\ run[r].pc \in {"assembled", "delivered"} =>
       \A i \in Ids : Renewed(r, i) \/ Kept(r, i)
  /\ run[r].pc \in {"rotated", "written"} =>
       \A i \in Ids : Renewed(r, i) \/ KeptOrPruned(r, i)

AllCarry == \A r \in Runs : Carries(r)

OneRun == \A r, s \in Runs : r = s

LEMMA AssembleCarries ==
  ASSUME TypeOK, NEW r \in Runs, Assemble(r)
  PROVE  Carries(r)'
<1>. DEFINE severity == Classified(run[r].reading, seen)
            diff     == Diff(severity, run[r].before, seen)
            memory   == Remembered(diff, run[r].reading, seen)
<1>1. /\ run'[r].pc = "assembled"
      /\ run'[r].facts = diff
      /\ run'[r].seen = memory
      /\ seen' = seen
  BY DEF Assemble, TypeOK, RunRecord
<1>2. diff.severity = severity /\ severity \in Severities
  BY ClassifiedType DEF Diff
<1>3. ActionableIn(severity) = {i \in Ids : Actionable(severity[i])}
  BY <1>2, NoneAssumption DEF ActionableIn
<1>4. memory \in SeenFile
  BY RememberedType DEF TypeOK, Assemble, RunRecord
<1>5. ASSUME NEW i \in Ids, run[r].reading[i] = None
      PROVE  memory[i] = seen[i] /\ i \notin ActionableIn(severity)
  BY <1>3, <1>5 DEF Remembered, Classified, Actionable
<1>6. ASSUME NEW i \in Ids, run[r].reading[i] # None
      PROVE  /\ memory[i] # None
             /\ memory[i].lastAge = 0
             /\ WasAlerted(seen, i) => memory[i].actionable
  <2>1. memory[i] \in SeenRecord
    BY <1>6, RememberedRecord DEF TypeOK, Assemble, RunRecord
  <2>2. memory[i] # None
    BY <2>1, NoneAssumption
  <2>3. /\ memory[i].lastAge = 0
        /\ WasAlerted(seen, i) => memory[i].actionable
    BY <1>6 DEF Remembered
  <2>. QED
    BY <2>2, <2>3
<1>7. Alerts(r)' = ActionableIn(severity)
  BY <1>1, <1>2 DEF Alerts
<1>. HIDE DEF severity, diff, memory
<1>. QED
  BY <1>1, <1>5, <1>6, <1>7 DEF Carries, Renewed, Kept, WasAlerted

LEMMA RotateCarries ==
  ASSUME TypeOK, NEW r \in Runs, Carries(r), Rotate(r)
  PROVE  Carries(r)'
<1>. DEFINE memory == PruneSeen(run[r].seen, run[r].facts)
<1>1. /\ run'[r].pc = "rotated"
      /\ run'[r].seen = memory
      /\ seen' = seen
  BY DEF Rotate, TypeOK, RunRecord
<1>2. ASSUME NEW i \in Ids, Renewed(r, i)
      PROVE  memory[i] = run[r].seen[i]
  BY <1>2, ConstantsAssumption DEF PruneSeen, Renewed
<1>3. ASSUME NEW i \in Ids, Kept(r, i)
      PROVE  memory[i] = IF seen[i] # None /\ seen[i].lastAge > Retention
                         THEN None ELSE seen[i]
  BY <1>3 DEF PruneSeen, Kept, Alerts
<1>4. \A i \in Ids : Renewed(r, i) \/ Kept(r, i)
  BY DEF Carries, Rotate
<1>. HIDE DEF memory
<1>. QED
  BY <1>1, <1>2, <1>3, <1>4 DEF Carries, Renewed, KeptOrPruned, WasAlerted

LEMMA AllCarryInductive ==
  ASSUME OneRun, TypeOK, AllCarry, [HNext]_allVars
  PROVE  AllCarry'
<1>. SUFFICES ASSUME NEW s \in Runs PROVE Carries(s)'
  BY DEF AllCarry
<1>1. Carries(s)
  BY DEF AllCarry
<1>2. ASSUME run'[s] = run[s], seen' = seen PROVE Carries(s)'
  BY <1>1, <1>2 DEF Carries, Renewed, Kept, KeptOrPruned, Alerts, WasAlerted
<1>3. ASSUME run'[s].pc \in {"idle", "collected", "loaded"} PROVE Carries(s)'
  BY <1>3 DEF Carries
<1>4. CASE HTick
  BY <1>3, <1>4 DEF HTick, Tick
<1>5. CASE UNCHANGED allVars
  BY <1>2, <1>5 DEF allVars, vars
<1>6. CASE HStart(s)
  <2>1. run'[s].pc = "collected"
    BY <1>6 DEF HStart, HCollect, Collect, Idle, TypeOK
  <2>. QED
    BY <1>3, <2>1
<1>7. CASE HAbort(s) \/ HEndDryRun(s) \/ HWriteSeen(s)
  <2>1. run'[s].pc = "idle"
    BY <1>7 DEF HAbort, Abort, HEndDryRun, EndDryRun, HWriteSeen, WriteSeen,
                Idle, TypeOK
  <2>. QED
    BY <1>3, <2>1
<1>8. CASE LoadPrevious(s)
  <2>1. run'[s].pc = "loaded"
    BY <1>8 DEF LoadPrevious, TypeOK, RunRecord
  <2>. QED
    BY <1>3, <2>1
<1>9. CASE Assemble(s)
  BY <1>9, AssembleCarries
<1>10. CASE HRotate(s)
  BY <1>1, <1>10, RotateCarries DEF HRotate
<1>11. CASE HDeliver(s)
  <2>1. /\ run[s].pc = "assembled" /\ run'[s].pc = "delivered"
        /\ run'[s].seen = run[s].seen /\ run'[s].facts = run[s].facts
        /\ seen' = seen
    BY <1>11 DEF HDeliver, Deliver, TypeOK, RunRecord
  <2>. QED
    BY <1>1, <2>1 DEF Carries, Renewed, Kept, Alerts, WasAlerted
<1>12. CASE HWriteLatest(s)
  <2>1. /\ run[s].pc = "rotated" /\ run'[s].pc = "written"
        /\ run'[s].seen = run[s].seen /\ seen' = seen
    BY <1>12 DEF HWriteLatest, WriteLatest, TypeOK, RunRecord
  <2>. QED
    BY <1>1, <2>1 DEF Carries, Renewed, KeptOrPruned, WasAlerted
<1>. QED
  BY <1>4, <1>5, <1>6, <1>7, <1>8, <1>9, <1>10, <1>11, <1>12
  DEF HNext, HStep, OneRun

\* The day of the abstract memory.
LEMMA TickIsDay ==
  ASSUME TypeOK, Tick
  PROVE  Memory!Day
<1>1. ASSUME NEW i \in Ids
      PROVE  /\ Status(seen'[i]) = Status(seen[i])
             /\ Unobserved(seen'[i]) =
                  IF Status(seen[i]) = "unknown" THEN 0
                  ELSE IF Unobserved(seen[i]) <= Retention
                  THEN Unobserved(seen[i]) + 1 ELSE Unobserved(seen[i])
  <2>1. CASE seen[i] = None
    BY <2>1 DEF Tick, Status, Unobserved
  <2>2. CASE seen[i] # None
    <3>1. seen[i] \in SeenRecord
      BY <2>2 DEF TypeOK, SeenFile
    <3>2. seen'[i] = [seen[i] EXCEPT !.firstAge = Older(@, AgeCap),
                                     !.lastAge  = Older(@, Retention + 1)]
      BY <2>2 DEF Tick
    <3>3. /\ seen'[i] \in SeenRecord
          /\ seen'[i].actionable = seen[i].actionable
          /\ seen'[i].lastAge = Older(seen[i].lastAge, Retention + 1)
      <4>1. /\ seen[i].firstAge \in 0..AgeCap
            /\ seen[i].lastAge \in 0..(Retention + 1)
        BY <3>1 DEF SeenRecord
      <4>2. /\ Older(seen[i].firstAge, AgeCap) \in 0..AgeCap
            /\ Older(seen[i].lastAge, Retention + 1) \in 0..(Retention + 1)
        BY <4>1, OlderType, ConstantsAssumption
      <4>. QED
        BY <3>1, <3>2, <4>2 DEF SeenRecord
    <3>4. seen[i].lastAge \in 0..(Retention + 1)
      BY <3>1 DEF SeenRecord
    <3>5. seen'[i] # None
      BY <3>3, NoneAssumption
    <3>6. Status(seen[i]) # "unknown"
      BY <2>2 DEF Status
    <3>. QED
      BY <2>2, <3>3, <3>4, <3>5, <3>6, ConstantsAssumption
      DEF Status, Unobserved, Older
  <2>. QED
    BY <2>1, <2>2
<1>. QED
  BY <1>1 DEF Memory!Day

\* A completed run records what it observed.
LEMMA WriteSeenRecords ==
  ASSUME TypeOK, NEW r \in Runs, Carries(r), WriteSeen(r)
  PROVE  \E S \in SUBSET Ids : \E A \in SUBSET S : Memory!Record(S, A)
<1>. DEFINE S == {i \in Ids : Renewed(r, i)}
            A == {i \in S : run[r].seen[i].actionable}
            Forgotten(i) == i \notin S /\ Unobserved(seen[i]) > Retention
<1>1. /\ seen' = run[r].seen
      /\ seen \in SeenFile
      /\ \A i \in Ids : Renewed(r, i) \/ KeptOrPruned(r, i)
  BY DEF WriteSeen, Carries, TypeOK
<1>2. ASSUME NEW i \in Ids
      PROVE  /\ Status(seen'[i]) =
                  IF i \in A THEN "alerted"
                  ELSE IF i \in S /\ Status(seen[i]) = "unknown" THEN "observed"
                  ELSE IF Forgotten(i) THEN "unknown"
                  ELSE Status(seen[i])
             /\ Unobserved(seen'[i]) =
                  IF i \in S \/ Forgotten(i) THEN 0 ELSE Unobserved(seen[i])
  <2>1. CASE i \in S
    BY <1>1, <2>1 DEF Renewed, Status, Unobserved, WasAlerted
  <2>2. CASE i \notin S
    <3>1. seen'[i] = IF seen[i] # None /\ seen[i].lastAge > Retention
                     THEN None ELSE seen[i]
      BY <1>1, <2>2 DEF KeptOrPruned
    <3>2. Forgotten(i) <=> seen[i] # None /\ seen[i].lastAge > Retention
      BY <2>2, ConstantsAssumption DEF Unobserved
    <3>. QED
      BY <2>2, <3>1, <3>2 DEF Status, Unobserved
  <2>. QED
    BY <2>1, <2>2
<1>3. Memory!Record(S, A)
  BY <1>2 DEF Memory!Record
<1>. QED
  BY <1>3

LEMMA HistoryStepMapsToMemory ==
  ASSUME TypeOK, AllCarry, [HNext]_allVars
  PROVE  [Memory!MemoryNext]_(Memory!memory)
<1>1. CASE HTick
  BY <1>1, TickIsDay DEF HTick, Memory!MemoryNext
<1>2. ASSUME seen' = seen PROVE UNCHANGED Memory!memory
  BY <1>2 DEF Memory!memory
<1>3. CASE UNCHANGED allVars
  BY <1>2, <1>3 DEF allVars, vars
<1>4. ASSUME NEW r \in Runs, HWriteSeen(r) PROVE Memory!MemoryNext
  BY <1>4, WriteSeenRecords DEF HWriteSeen, AllCarry, Memory!MemoryNext
<1>5. ASSUME NEW r \in Runs, HStart(r) \/ HAbort(r) \/ HStep(r), ~HWriteSeen(r)
      PROVE  seen' = seen
  BY <1>5 DEF HStart, HCollect, Collect, HAbort, Abort, HStep, LoadPrevious,
              Assemble, HRotate, Rotate, HDeliver, Deliver, HEndDryRun,
              EndDryRun, HWriteLatest, WriteLatest
<1>. QED
  BY <1>1, <1>2, <1>3, <1>4, <1>5 DEF HNext

\* As long as invocations do not overlap, the seen file is a ProblemMemory:
\* whatever a run decides and wherever it dies, no identity is forgotten
\* early and no former alert is demoted.
THEOREM SeenRefinesMemory ==
  ASSUME OneRun
  PROVE  HSpec => SeenIsMemory
<1>1. HInit => Memory!MemoryInit /\ AllCarry
  BY DEF HInit, Init, Idle, Memory!MemoryInit, Status, Unobserved,
         AllCarry, Carries
<1>2. TypeOK /\ AllCarry /\ [HNext]_allVars => AllCarry'
  BY AllCarryInductive
<1>3. TypeOK /\ AllCarry /\ [HNext]_allVars
        => [Memory!MemoryNext]_(Memory!memory)
  BY HistoryStepMapsToMemory
<1>. QED
  BY <1>1, <1>2, <1>3, HistoryTypeCorrect, PTL
  DEF HSpec, SeenIsMemory, Memory!MemorySpec
-----------------------------------------------------------------------------
(* After a reopening the gate holds again.  The record that a run will save  *)
(* is never older than the reopening, and what it alerts for has a record    *)
(* that is old enough.                                                       *)

\* rules.yml: only rules of these types read min_age_days.
GatesApply == \A i \in GatedIds : Rule[i].type \in {"threshold", "present"}

\* The record of i dates from the last reopening at the earliest.
SinceReopened(record, i) ==
  record # None /\ reopenedAge[i] # None => record.firstAge <= reopenedAge[i]

Carrying == {"assembled", "delivered", "rotated", "written"}

Graced(r) ==
  /\ run[r].pc \in Carrying =>
       \A i \in GatedIds :
         /\ SinceReopened(run[r].seen[i], i)
         /\ i \in run[r].facts.reopened /\ run[r].seen[i] # None =>
              run[r].seen[i].firstAge = 0
  /\ run[r].pc \in {"assembled", "delivered"} =>
       \A i \in Alerts(r) \cap GatedIds :
         reopenedAge[i] # None => reopenedAge[i] >= Rule[i].minAge

GraceInv ==
  /\ reopenedAge \in [GatedIds -> (0..AgeCap) \cup {None}]
  /\ \A i \in GatedIds : SinceReopened(seen[i], i)
  /\ \A r \in Runs : Graced(r)

LEMMA GateWaits ==
  ASSUME GatesApply, NEW reading, NEW memory, NEW i \in GatedIds,
         Actionable(Classified(reading, memory)[i])
  PROVE  /\ memory[i] # None
         /\ memory[i].firstAge # None
         /\ memory[i].firstAge >= Rule[i].minAge
<1>1. i \in Ids /\ Rule[i].minAge # None
      /\ Rule[i].type \in {"threshold", "present"}
  BY DEF GatedIds, Gated, GatesApply
<1>. DEFINE obs   == Observation(reading[i], memory[i])
            isNew == i \in CandidateNew(memory)
<1>2. Classify(Rule[i], obs, isNew) \in {"warn", "crit"}
  BY <1>1 DEF Classified, Actionable
<1>3. OldEnough(Rule[i], obs)
  <2>1. CASE Rule[i].type = "threshold"
    BY <1>2, <2>1 DEF Classify, Threshold
  <2>2. CASE Rule[i].type = "present"
    BY <1>2, <2>2 DEF Classify, Matches
  <2>. QED
    BY <1>1, <2>1, <2>2
<1>4. obs.age # None /\ obs.age >= Rule[i].minAge
  BY <1>1, <1>3 DEF OldEnough
<1>5. obs.age = IF memory[i] = None THEN None ELSE memory[i].firstAge
  BY DEF Observation
<1>. QED
  BY <1>4, <1>5

LEMMA AgesAreNumbers ==
  ASSUME TypeOK, GraceInv, NEW i \in GatedIds
  PROVE  /\ i \in Ids
         /\ seen[i] # None => seen[i].firstAge \in Nat
         /\ reopenedAge[i] # None => reopenedAge[i] \in Nat
         /\ Rule[i].minAge \in Nat
<1>1. i \in Ids
  BY DEF GatedIds
<1>2. seen[i] # None => seen[i].firstAge \in Nat
  BY <1>1 DEF TypeOK, SeenFile, SeenRecord
<1>3. Rule[i].minAge \in Nat
  BY <1>1, RuleAssumption, ConstantsAssumption DEF GatedIds, Gated
<1>. QED
  BY <1>1, <1>2, <1>3, ConstantsAssumption DEF GraceInv

LEMMA AssembleGrace ==
  ASSUME GatesApply, TypeOK, GraceInv, NEW r \in Runs, Assemble(r),
         UNCHANGED history
  PROVE  Graced(r)'
<1>. DEFINE severity == Classified(run[r].reading, seen)
            diff     == Diff(severity, run[r].before, seen)
            memory   == Remembered(diff, run[r].reading, seen)
<1>1. /\ run'[r].pc = "assembled"
      /\ run'[r].facts = diff
      /\ run'[r].seen = memory
      /\ seen' = seen /\ reopenedAge' = reopenedAge
  BY DEF Assemble, TypeOK, RunRecord, history
<1>2. diff.severity = severity /\ severity \in Severities
  BY ClassifiedType DEF Diff
<1>3. ActionableIn(severity) = {i \in Ids : Actionable(severity[i])}
  BY <1>2, NoneAssumption DEF ActionableIn
<1>4. ASSUME NEW i \in GatedIds
      PROVE  /\ SinceReopened(memory[i], i)
             /\ i \in diff.reopened /\ memory[i] # None => memory[i].firstAge = 0
             /\ i \in ActionableIn(severity) /\ reopenedAge[i] # None =>
                  reopenedAge[i] >= Rule[i].minAge
  <2>1. /\ i \in Ids
        /\ seen[i] # None => seen[i].firstAge \in Nat
        /\ reopenedAge[i] # None => reopenedAge[i] \in Nat
        /\ Rule[i].minAge \in Nat
    BY AgesAreNumbers
  <2>2. SinceReopened(seen[i], i)
    BY DEF GraceInv
  <2>3. i \in diff.reopened => i \in ActionableIn(severity)
    BY <1>2 DEF Diff
  <2>4. i \in ActionableIn(severity) => run[r].reading[i] # None
    BY <1>3 DEF Classified, Actionable
  <2>5. CASE run[r].reading[i] = None
    <3>1. memory[i] = seen[i]
      BY <2>1, <2>5 DEF Remembered
    <3>. QED
      BY <2>2, <2>3, <2>4, <2>5, <3>1
  <2>6. CASE run[r].reading[i] # None
    <3>1. memory[i].firstAge = FirstAge(diff, seen, i)
      BY <2>1, <2>6 DEF Remembered
    <3>2. SinceReopened(memory[i], i)
      BY <2>1, <2>2, <3>1 DEF SinceReopened
    <3>3. i \in diff.reopened => memory[i].firstAge = 0
      BY <3>1
    <3>4. i \in ActionableIn(severity) =>
            seen[i] # None /\ seen[i].firstAge >= Rule[i].minAge
      BY <1>3, GateWaits
    <3>. QED
      BY <2>1, <2>2, <3>2, <3>3, <3>4 DEF SinceReopened
  <2>. QED
    BY <2>5, <2>6
<1>5. Alerts(r)' = ActionableIn(severity)
  BY <1>1, <1>2 DEF Alerts
<1>. HIDE DEF severity, diff, memory
<1>. QED
  BY <1>1, <1>4, <1>5 DEF Graced, SinceReopened

\* What Graced(r) reads, but for the step the run is at, is left alone.
LEMMA UndisturbedGrace ==
  ASSUME NEW r \in Runs, Graced(r), reopenedAge' = reopenedAge,
         \/ run'[r] = run[r]
         \/ run'[r].pc \in {"idle", "collected", "loaded"}
         \/ /\ run'[r].seen = run[r].seen /\ run'[r].facts = run[r].facts
            /\ <<run[r].pc, run'[r].pc>> \in
                 {<<"assembled", "delivered">>, <<"rotated", "written">>}
  PROVE  Graced(r)'
BY DEF Graced, SinceReopened, Alerts, Carrying

LEMMA RotateGrace ==
  ASSUME TypeOK, NEW r \in Runs, Graced(r), HRotate(r)
  PROVE  Graced(r)'
<1>. DEFINE memory == PruneSeen(run[r].seen, run[r].facts)
<1>1. /\ run[r].pc = "delivered" /\ run'[r].pc = "rotated"
      /\ run'[r].seen = memory /\ run'[r].facts = run[r].facts
      /\ reopenedAge' = reopenedAge
  BY DEF HRotate, Rotate, TypeOK, RunRecord
<1>2. ASSUME NEW i \in GatedIds
      PROVE  memory[i] = None \/ memory[i] = run[r].seen[i]
  BY DEF PruneSeen, GatedIds
<1>. HIDE DEF memory
<1>. QED
  BY <1>1, <1>2 DEF Graced, SinceReopened, Carrying

LEMMA WriteSeenGrace ==
  ASSUME OneRun, TypeOK, GraceInv, NEW r \in Runs, HWriteSeen(r)
  PROVE  GraceInv'
<1>1. /\ run[r].pc = "written" /\ seen' = run[r].seen
      /\ reopenedAge' = [i \in GatedIds |-> IF i \in run[r].facts.reopened THEN 0
                                            ELSE reopenedAge[i]]
      /\ run'[r].pc = "idle"
  BY DEF HWriteSeen, WriteSeen, TypeOK, Idle
<1>2. reopenedAge' \in [GatedIds -> (0..AgeCap) \cup {None}]
  BY <1>1, ConstantsAssumption DEF GraceInv
<1>3. ASSUME NEW i \in GatedIds
      PROVE  /\ SinceReopened(run[r].seen[i], i)
             /\ i \in run[r].facts.reopened /\ run[r].seen[i] # None =>
                  run[r].seen[i].firstAge = 0
  BY <1>1 DEF GraceInv, Graced, Carrying
<1>4. ASSUME NEW i \in GatedIds PROVE SinceReopened(seen[i], i)'
  BY <1>1, <1>3 DEF SinceReopened
<1>5. ASSUME NEW s \in Runs PROVE Graced(s)'
  BY <1>1 DEF OneRun, Graced, Carrying
<1>. QED
  BY <1>2, <1>4, <1>5 DEF GraceInv

LEMMA TickGrace ==
  ASSUME TypeOK, GraceInv, HTick
  PROVE  GraceInv'
<1>1. reopenedAge' = [i \in GatedIds |->
        IF reopenedAge[i] = None THEN None ELSE Older(reopenedAge[i], AgeCap)]
  BY DEF HTick
<1>2. ASSUME NEW i \in GatedIds
      PROVE  /\ reopenedAge'[i] \in (0..AgeCap) \cup {None}
             /\ SinceReopened(seen[i], i)'
  <2>1. reopenedAge[i] # None => reopenedAge[i] \in 0..AgeCap
    BY DEF GraceInv
  <2>2. i \in Ids /\ seen[i] \in SeenRecord \cup {None}
    BY DEF GatedIds, TypeOK, SeenFile
  <2>3. CASE seen[i] = None
    <3>1. seen'[i] = None
      BY <2>2, <2>3 DEF HTick, Tick
    <3>2. reopenedAge[i] # None => Older(reopenedAge[i], AgeCap) \in 0..AgeCap
      BY <2>1, ConstantsAssumption DEF Older
    <3>3. reopenedAge'[i] = IF reopenedAge[i] = None THEN None
                            ELSE Older(reopenedAge[i], AgeCap)
      BY <1>1
    <3>. QED
      BY <3>1, <3>2, <3>3 DEF SinceReopened
  <2>4. CASE seen[i] # None
    <3>1. seen[i].firstAge \in 0..AgeCap
      BY <2>2, <2>4 DEF SeenRecord
    <3>2. seen'[i].firstAge = Older(seen[i].firstAge, AgeCap)
      BY <2>2, <2>4 DEF HTick, Tick, SeenRecord
    <3>3. reopenedAge[i] # None => seen[i].firstAge <= reopenedAge[i]
      BY <2>4 DEF GraceInv, SinceReopened
    <3>4. reopenedAge'[i] = IF reopenedAge[i] = None THEN None
                            ELSE Older(reopenedAge[i], AgeCap)
      BY <1>1
    <3>5. reopenedAge[i] # None =>
            /\ Older(reopenedAge[i], AgeCap) \in 0..AgeCap
            /\ Older(seen[i].firstAge, AgeCap) <= Older(reopenedAge[i], AgeCap)
      BY <2>1, <3>1, <3>3, ConstantsAssumption DEF Older
    <3>. QED
      BY <3>2, <3>4, <3>5 DEF SinceReopened
  <2>. QED
    BY <2>3, <2>4
<1>3. reopenedAge' \in [GatedIds -> (0..AgeCap) \cup {None}]
  BY <1>1, <1>2
<1>4. ASSUME NEW r \in Runs PROVE Graced(r)'
  BY DEF HTick, Tick, Graced, Carrying
<1>. QED
  BY <1>2, <1>3, <1>4 DEF GraceInv

LEMMA GraceInductive ==
  ASSUME OneRun, GatesApply, TypeOK, GraceInv, [HNext]_allVars
  PROVE  GraceInv'
<1>1. ASSUME seen' = seen, reopenedAge' = reopenedAge,
             \A s \in Runs : Graced(s)'
      PROVE  GraceInv'
  BY <1>1 DEF GraceInv, SinceReopened
<1>2. \A s \in Runs : Graced(s)
  BY DEF GraceInv
<1>3. CASE HTick
  BY <1>3, TickGrace
<1>4. CASE UNCHANGED allVars
  BY <1>1, <1>2, <1>4, UndisturbedGrace DEF allVars, vars, history
<1>5. ASSUME NEW r \in Runs, HWriteSeen(r) PROVE GraceInv'
  BY <1>5, WriteSeenGrace
<1>6. ASSUME NEW r \in Runs, HStart(r) \/ HStep(r) \/ HAbort(r), ~HWriteSeen(r)
      PROVE  GraceInv'
  <2>1. seen' = seen /\ reopenedAge' = reopenedAge
    BY <1>6 DEF HStart, HCollect, Collect, HAbort, Abort, HStep, LoadPrevious,
                Assemble, HRotate, Rotate, HDeliver, Deliver, HEndDryRun,
                EndDryRun, HWriteLatest, WriteLatest, history
  <2>2. CASE HStart(r) \/ HAbort(r) \/ HEndDryRun(r) \/ LoadPrevious(r)
    <3>1. HStart(r) => run'[r].pc = "collected"
      BY DEF HStart, HCollect, Collect, Idle, TypeOK
    <3>2. HAbort(r) => run'[r].pc = "idle"
      BY DEF HAbort, Abort, Idle, TypeOK
    <3>3. HEndDryRun(r) => run'[r].pc = "idle"
      BY DEF HEndDryRun, EndDryRun, Idle, TypeOK
    <3>4. LoadPrevious(r) => run'[r].pc = "loaded"
      BY DEF LoadPrevious, TypeOK, RunRecord
    <3>. QED
      BY <1>1, <1>2, <2>1, <2>2, <3>1, <3>2, <3>3, <3>4, UndisturbedGrace DEF OneRun
  <2>3. CASE Assemble(r) /\ UNCHANGED history
    BY <1>1, <2>1, <2>3, AssembleGrace DEF OneRun
  <2>4. CASE HRotate(r)
    BY <1>1, <1>2, <2>1, <2>4, RotateGrace DEF OneRun
  <2>5. CASE HDeliver(r) \/ HWriteLatest(r)
    <3>1. /\ run'[r].seen = run[r].seen /\ run'[r].facts = run[r].facts
          /\ <<run[r].pc, run'[r].pc>> \in
               {<<"assembled", "delivered">>, <<"rotated", "written">>}
      BY <2>5 DEF HDeliver, Deliver, HWriteLatest, WriteLatest, TypeOK, RunRecord
    <3>. QED
      BY <1>1, <1>2, <2>1, <3>1, UndisturbedGrace DEF OneRun
  <2>. QED
    BY <1>6, <2>2, <2>3, <2>4, <2>5 DEF HStep
<1>. QED
  BY <1>3, <1>4, <1>5, <1>6 DEF HNext

\* As long as invocations do not overlap: once a report has called an
\* age-gated problem reopened and its run was saved, no report alerts for that
\* problem before min_age_days have passed, wherever later runs die.
THEOREM GraceHoldsAfterReopening ==
  ASSUME OneRun, GatesApply
  PROVE  HSpec => []ReopenThenGrace
<1>1. HInit => GraceInv
  BY NoneAssumption DEF HInit, Init, Idle, GraceInv, Graced, SinceReopened, Carrying, GatedIds
<1>2. TypeOK /\ GraceInv /\ [HNext]_allVars => GraceInv'
  BY GraceInductive
<1>3. GraceInv => ReopenThenGrace
  BY DEF GraceInv, Graced, ReopenThenGrace, Reported
<1>. QED
  BY <1>1, <1>2, <1>3, HistoryTypeCorrect, PTL DEF HSpec
-----------------------------------------------------------------------------
(* The reports chain.  Where invocations do not overlap, none dies and every *)
(* report that is sent arrives, what the reader was told is what the next    *)
(* run reads back from facts-latest.json, at whatever step a run stands.     *)

\* The invocations the service documents: one that sends also saves, and one
\* that only prints does not.
SavedIfSent == \A m \in Modes : m.send = ~m.dry

NothingLost == {"abort", "lost"} \cap Faults = {}

\* The diff takes the reader from the saved report to this run's.
ToldApart(r) ==
  /\ run[r].facts.resolved = told \ Alerts(r)
  /\ run[r].facts.new \cup run[r].facts.reopened = Alerts(r) \ told

Chained(r) ==
  /\ run[r].pc # "idle" => run[r].mode \in Modes
  /\ run[r].arrived => run[r].pc \in {"delivered", "rotated", "written"}
  /\ run[r].pc \in {"idle", "collected", "loaded", "assembled", "written"} =>
       told = ActionableIn(latest)
  /\ run[r].pc = "loaded" => run[r].before = latest
  /\ run[r].pc = "assembled" => ToldApart(r)
  /\ run[r].pc = "delivered" =>
       told = IF run[r].mode.send THEN Alerts(r) ELSE ActionableIn(latest)
  /\ run[r].pc = "rotated" => told = Alerts(r)

AllChained == \A r \in Runs : Chained(r)

LEMMA CollectShape ==
  ASSUME TypeOK, NEW r \in Runs, NEW truth \in Truths,
         NEW failed \in SUBSET Collectors, Collect(r, truth, failed)
  PROVE  /\ run[r].pc = "idle" /\ run'[r].pc = "collected"
         /\ run'[r].mode \in Modes /\ ~run'[r].arrived
         /\ \E names \in Selections :
              \E kept \in SUBSET {i \in Conditions : Source[i] \in failed} :
                run'[r].reading = Observed(truth, names, failed, kept)
         /\ latest' = latest
<1>1. PICK names \in Selections, mode \in Modes :
        \E kept \in SUBSET {i \in Conditions : Source[i] \in failed} :
          run' = [run EXCEPT ![r] =
                    [Idle EXCEPT !.pc = "collected", !.mode = mode,
                       !.reading = Observed(truth, names, failed, kept)]]
  BY DEF Collect
<1>2. PICK kept \in SUBSET {i \in Conditions : Source[i] \in failed} :
        run' = [run EXCEPT ![r] =
                  [Idle EXCEPT !.pc = "collected", !.mode = mode,
                     !.reading = Observed(truth, names, failed, kept)]]
  BY <1>1
<1>3. /\ run'[r].pc = "collected" /\ run'[r].mode = mode /\ ~run'[r].arrived
      /\ run'[r].reading = Observed(truth, names, failed, kept)
  BY <1>2 DEF Idle, TypeOK
<1>. QED
  BY <1>3 DEF Collect

\* The lists of a report hold the problems it ranks, each in one of them: what
\* ReportDelivery assumes of the reports it is given.
LEMMA DiffListsTheProblems ==
  ASSUME NEW severity, NEW before, NEW memory
  PROVE  LET diff == Diff(severity, before, memory)
         IN /\ diff.new \cup diff.reopened \cup diff.persisting = ActionableIn(severity)
            /\ diff.new \cap diff.reopened = {}
            /\ (diff.new \cup diff.reopened) \cap diff.persisting = {}
            /\ diff.worsened \subseteq diff.persisting
            /\ diff.resolved \cap ActionableIn(severity) = {}
BY DEF Diff

\* The diff against the saved report is the diff against what the reader knows.
LEMMA DiffTellsApart ==
  ASSUME NEW severity \in Severities, NEW before, NEW memory
  PROVE  LET diff == Diff(severity, before, memory)
             now  == ActionableIn(severity)
             was  == ActionableIn(before)
         IN /\ diff.severity = severity
            /\ diff.resolved = was \ now
            /\ diff.new \cup diff.reopened = now \ was
BY DEF Diff

LEMMA AssembleChained ==
  ASSUME TypeOK, NEW r \in Runs, Chained(r), Assemble(r), told' = told
  PROVE  Chained(r)'
<1>. DEFINE severity == Classified(run[r].reading, seen)
            diff     == Diff(severity, run[r].before, seen)
<1>1. /\ run[r].pc = "loaded" /\ run'[r].pc = "assembled"
      /\ run'[r].facts = diff /\ run'[r].mode = run[r].mode
      /\ run'[r].arrived = run[r].arrived
      /\ latest' = latest
  BY DEF Assemble, TypeOK, RunRecord
<1>2. told = ActionableIn(latest) /\ run[r].before = latest
  BY <1>1 DEF Chained
<1>3. /\ diff.severity = severity
      /\ diff.resolved = told \ ActionableIn(severity)
      /\ diff.new \cup diff.reopened = ActionableIn(severity) \ told
  BY <1>2, ClassifiedType, DiffTellsApart
<1>. HIDE DEF severity, diff
<1>. QED
  BY <1>1, <1>2, <1>3 DEF Chained, ToldApart, Alerts, ActionableIn

LEMMA DeliverShape ==
  ASSUME TypeOK, NEW r \in Runs, HDeliver(r)
  PROVE  /\ run[r].pc = "assembled" /\ run'[r].pc = "delivered"
         /\ run'[r].facts = run[r].facts /\ run'[r].mode = run[r].mode
         /\ run'[r].arrived => run[r].mode.send
         /\ latest' = latest
         /\ told' = IF run'[r].arrived THEN Alerts(r) ELSE told
<1>1. PICK arrived \in {TRUE, FALSE} :
        /\ arrived => run[r].mode.send
        /\ run' = [run EXCEPT ![r].pc = "delivered", ![r].arrived = arrived]
  BY DEF HDeliver, Deliver
<1>2. run'[r].arrived = arrived
  BY <1>1 DEF TypeOK, RunRecord
<1>. QED
  BY <1>1, <1>2 DEF HDeliver, Deliver, TypeOK, RunRecord, Alerts

LEMMA DeliverChained ==
  ASSUME SavedIfSent, NothingLost, TypeOK, NEW r \in Runs, Chained(r), HDeliver(r)
  PROVE  /\ Chained(r)'
         /\ run'[r].arrived => told' = Alerts(r)
<1>1. run[r].mode.send => run'[r].arrived
  BY DEF HDeliver, NothingLost
<1>2. told = ActionableIn(latest) /\ run[r].mode \in Modes
  BY DeliverShape DEF Chained
<1>3. Alerts(r)' = Alerts(r)
  BY DeliverShape DEF Alerts, ActionableIn
<1>. QED
  BY <1>1, <1>2, <1>3, DeliverShape DEF Chained, ActionableIn

LEMMA SaveChained ==
  ASSUME SavedIfSent, TypeOK, NEW r \in Runs, Chained(r), told' = told,
         Rotate(r) \/ WriteLatest(r) \/ WriteSeen(r) \/ EndDryRun(r)
  PROVE  Chained(r)'
<1>1. run[r].pc # "idle" => run[r].mode \in Flags /\ run[r].facts \in Facts \cup {None}
  BY DEF TypeOK, RunRecord
<1>2. CASE Rotate(r)
  <2>1. /\ run[r].pc = "delivered" /\ run'[r].pc = "rotated"
        /\ ~run[r].mode.dry
        /\ run'[r].facts = run[r].facts /\ run'[r].mode = run[r].mode
        /\ run'[r].arrived = run[r].arrived
    BY <1>2 DEF Rotate, TypeOK, RunRecord
  <2>2. run[r].mode.send
    BY <1>1, <2>1 DEF Chained, SavedIfSent, Flags
  <2>. QED
    BY <2>1, <2>2 DEF Chained, Alerts, ActionableIn
<1>3. CASE WriteLatest(r)
  <2>1. /\ run[r].pc = "rotated" /\ run'[r].pc = "written"
        /\ latest' = run[r].facts.severity
        /\ run'[r].facts = run[r].facts /\ run'[r].mode = run[r].mode
        /\ run'[r].arrived = run[r].arrived
    BY <1>3 DEF WriteLatest, TypeOK, RunRecord
  <2>. QED
    BY <2>1 DEF Chained, Alerts, ActionableIn
<1>4. CASE WriteSeen(r)
  <2>1. /\ run[r].pc = "written" /\ run'[r].pc = "idle"
        /\ ~run'[r].arrived /\ latest' = latest
    BY <1>4 DEF WriteSeen, Idle, TypeOK
  <2>. QED
    BY <2>1 DEF Chained, ActionableIn
<1>5. CASE EndDryRun(r)
  <2>1. /\ run[r].pc = "delivered" /\ run'[r].pc = "idle"
        /\ run[r].mode.dry
        /\ ~run'[r].arrived /\ latest' = latest
    BY <1>5 DEF EndDryRun, Idle, TypeOK
  <2>2. ~run[r].mode.send
    BY <1>1, <2>1 DEF Chained, SavedIfSent, Flags
  <2>. QED
    BY <2>1, <2>2 DEF Chained, ActionableIn
<1>. QED
  BY <1>2, <1>3, <1>4, <1>5

LEMMA AllChainedInductive ==
  ASSUME OneRun, SavedIfSent, NothingLost, TypeOK, AllChained, [HNext]_allVars
  PROVE  AllChained'
<1>. SUFFICES ASSUME NEW r \in Runs PROVE Chained(r)'
  BY DEF AllChained
<1>1. Chained(r)
  BY DEF AllChained
<1>2. CASE HTick \/ UNCHANGED allVars
  <2>1. run' = run /\ told' = told /\ latest' = latest
    BY <1>2 DEF HTick, Tick, allVars, vars, history
  <2>. QED
    BY <1>1, <2>1 DEF Chained, ToldApart, Alerts, ActionableIn
<1>3. CASE HStart(r)
  <2>1. /\ run[r].pc = "idle" /\ run'[r].pc = "collected"
        /\ run'[r].mode \in Modes /\ ~run'[r].arrived
        /\ latest' = latest /\ told' = told
    BY <1>3, CollectShape DEF HStart, HCollect
  <2>. QED
    BY <1>1, <2>1 DEF Chained, ActionableIn
<1>4. CASE LoadPrevious(r) /\ UNCHANGED history
  <2>1. /\ run[r].pc = "collected" /\ run'[r].pc = "loaded"
        /\ run'[r].before = latest /\ run'[r].mode = run[r].mode
        /\ run'[r].arrived = run[r].arrived
        /\ latest' = latest /\ told' = told
    BY <1>4 DEF LoadPrevious, history, TypeOK, RunRecord
  <2>. QED
    BY <1>1, <2>1 DEF Chained, ActionableIn
<1>5. CASE Assemble(r) /\ UNCHANGED history
  BY <1>1, <1>5, AssembleChained DEF history
<1>6. CASE HDeliver(r)
  BY <1>1, <1>6, DeliverChained
<1>7. CASE HRotate(r) \/ HWriteLatest(r) \/ HWriteSeen(r) \/ HEndDryRun(r)
  BY <1>1, <1>7, SaveChained DEF HRotate, HWriteLatest, HWriteSeen, HEndDryRun
<1>8. ~HAbort(r)
  BY DEF HAbort, NothingLost
<1>. QED
  BY <1>2, <1>3, <1>4, <1>5, <1>6, <1>7, <1>8 DEF HNext, HStep, OneRun

\* Only a delivery can make a report arrive.
LEMMA ArrivesByDelivery ==
  ASSUME OneRun, NothingLost, TypeOK, AllChained, [HNext]_allVars,
         NEW r \in Runs, run'[r].arrived, ~run[r].arrived
  PROVE  HDeliver(r)
<1>1. CASE HTick \/ UNCHANGED allVars
  BY <1>1 DEF HTick, Tick, allVars, vars
<1>2. ~HStart(r)
  BY CollectShape DEF HStart, HCollect
<1>3. ~(LoadPrevious(r) \/ Assemble(r) \/ HRotate(r) \/ HWriteLatest(r))
  BY DEF LoadPrevious, Assemble, HRotate, Rotate, HWriteLatest, WriteLatest,
         TypeOK, RunRecord
<1>4. ~(HWriteSeen(r) \/ HEndDryRun(r))
  BY DEF HWriteSeen, WriteSeen, HEndDryRun, EndDryRun, Idle, TypeOK
<1>5. ~HAbort(r)
  BY DEF HAbort, NothingLost
<1>. QED
  BY <1>1, <1>2, <1>3, <1>4, <1>5 DEF HNext, HStep, OneRun

LEMMA ChainStep ==
  ASSUME OneRun, SavedIfSent, NothingLost, TypeOK, AllChained, [HNext]_allVars,
         NEW r \in Runs, run'[r].arrived, ~run[r].arrived
  PROVE  /\ run[r].facts.resolved = told \ told'
         /\ run[r].facts.new \cup run[r].facts.reopened = told' \ told
<1>1. HDeliver(r)
  BY ArrivesByDelivery
<1>2. Chained(r)
  BY DEF AllChained
<1>3. ToldApart(r)
  BY <1>1, <1>2, DeliverShape DEF Chained
<1>4. told' = Alerts(r)
  BY <1>1, <1>2, DeliverChained
<1>. QED
  BY <1>3, <1>4 DEF ToldApart

LEMMA ChainedFromTheStart == HInit => AllChained
BY DEF HInit, Init, Idle, AllChained, Chained, ActionableIn

\* Where invocations do not overlap, none of them dies and every report that is
\* sent arrives, each report takes the reader exactly from what the last one
\* called a problem to what it calls a problem itself.
THEOREM EveryReportChains ==
  ASSUME OneRun, SavedIfSent, NothingLost
  PROVE  HSpec => ReportsChain
<1>1. TypeOK /\ AllChained /\ [HNext]_allVars => AllChained'
  BY AllChainedInductive
<1>2. TypeOK /\ AllChained /\ [HNext]_allVars =>
        [\A r \in Runs : run'[r].arrived /\ ~run[r].arrived =>
           /\ run[r].facts.resolved = told \ told'
           /\ run[r].facts.new \cup run[r].facts.reopened = told' \ told]_allVars
  BY ChainStep
<1>. QED
  BY <1>1, <1>2, ChainedFromTheStart, HistoryTypeCorrect, PTL DEF HSpec, ReportsChain
-----------------------------------------------------------------------------
(* One announcement per breach: what was announced during a breach that     *)
(* still lasts is what the reader was last told, because every run that     *)
(* looks while it lasts sees it and alerts for it.                          *)

NothingFails == {"abort", "collector", "lost"} \cap Faults = {}

Remains(r) ==
  /\ \A i \in announced : Plain(i) => i \in told
  /\ run[r].pc \in {"collected", "loaded"} =>
       \A i \in announced : Plain(i) => Breached(i, run[r].reading[i])
  /\ run[r].pc = "assembled" => \A i \in announced : Plain(i) => i \in Alerts(r)

AllRemain == \A r \in Runs : Remains(r)

LEMMA CollectRemains ==
  ASSUME Deployed, NothingFails, TypeOK, NEW r \in Runs, Remains(r), HStart(r)
  PROVE  Remains(r)'
<1>1. PICK truth \in Truths, failed \in SUBSET Collectors :
        HCollect(r, truth, failed)
  BY DEF HStart
<1>2. failed = {}
  BY <1>1 DEF HCollect, NothingFails
<1>3. run'[r].pc = "collected"
  BY <1>1, CollectShape DEF HCollect
<1>4. PICK names \in Selections :
        \E kept \in SUBSET {i \in Conditions : Source[i] \in failed} :
          run'[r].reading = Observed(truth, names, failed, kept)
  BY <1>1, CollectShape DEF HCollect
<1>5. PICK kept \in SUBSET {i \in Conditions : Source[i] \in failed} :
        run'[r].reading = Observed(truth, names, failed, kept)
  BY <1>4
<1>6. ASSUME NEW i \in announced', Plain(i)
      PROVE  i \in told' /\ Breached(i, run'[r].reading[i])
  <2>1. i \in announced /\ Breached(i, truth[i]) /\ told' = told
    BY <1>1, <1>6 DEF HCollect
  <2>2. i \in Ids /\ i \notin Collectors /\ Source[i] \in names
    BY <1>6, ConstantsAssumption DEF Plain, Ids, Deployed
  <2>3. run'[r].reading[i] = truth[i]
    BY <1>2, <1>5, <2>2 DEF Observed
  <2>. QED
    BY <1>6, <2>1, <2>3 DEF Remains
<1>. QED
  BY <1>3, <1>6 DEF Remains, Plain, Gated, Breached

LEMMA AssembleRemains ==
  ASSUME Deployed, TypeOK, NEW r \in Runs, Remains(r), Assemble(r),
         UNCHANGED history
  PROVE  Remains(r)'
<1>. DEFINE severity == Classified(run[r].reading, seen)
            diff     == Diff(severity, run[r].before, seen)
<1>1. /\ run[r].pc = "loaded" /\ run'[r].pc = "assembled"
      /\ run'[r].facts = diff
      /\ announced' = announced /\ told' = told
  BY DEF Assemble, TypeOK, RunRecord, history
<1>2. diff.severity = severity /\ severity \in Severities
  BY ClassifiedType, DiffTellsApart
<1>3. Alerts(r)' = {i \in Ids : Actionable(severity[i])}
  BY <1>1, <1>2, NoneAssumption DEF Alerts, ActionableIn
<1>4. ASSUME NEW i \in announced, Plain(i) PROVE i \in Alerts(r)'
  <2>1. i \in Ids /\ Breached(i, run[r].reading[i])
    BY <1>1, <1>4 DEF Remains, Plain, Ids
  <2>. QED
    BY <1>3, <1>4, <2>1, BreachAlerts
<1>. HIDE DEF severity, diff
<1>. QED
  BY <1>1, <1>4 DEF Remains, Plain, Gated

LEMMA DeliverRemains ==
  ASSUME NothingFails, TypeOK, NEW r \in Runs, Remains(r), HDeliver(r)
  PROVE  Remains(r)'
<1>1. announced' = IF run'[r].arrived
                   THEN announced \cup {i \in Alerts(r) \cap Conditions :
                                          Breached(i, truthOf[r][i])}
                   ELSE announced
  BY DEF HDeliver, Alerts
<1>2. \A i \in announced : Plain(i) => i \in told /\ i \in Alerts(r)
  BY DeliverShape DEF Remains
<1>. QED
  BY <1>1, <1>2, DeliverShape DEF Remains, Plain, Gated

LEMMA AllRemainInductive ==
  ASSUME OneRun, Deployed, NothingFails, TypeOK, AllRemain, [HNext]_allVars
  PROVE  AllRemain'
<1>. SUFFICES ASSUME NEW r \in Runs PROVE Remains(r)'
  BY DEF AllRemain
<1>1. Remains(r)
  BY DEF AllRemain
<1>2. CASE HTick \/ UNCHANGED allVars
  <2>1. run' = run /\ told' = told /\ announced' = announced
    BY <1>2 DEF HTick, Tick, allVars, vars, history
  <2>. QED
    BY <1>1, <2>1 DEF Remains, Plain, Gated, Breached, Alerts
<1>3. CASE HStart(r)
  BY <1>1, <1>3, CollectRemains
<1>4. CASE LoadPrevious(r) /\ UNCHANGED history
  <2>1. /\ run[r].pc = "collected" /\ run'[r].pc = "loaded"
        /\ run'[r].reading = run[r].reading
        /\ told' = told /\ announced' = announced
    BY <1>4 DEF LoadPrevious, history, TypeOK, RunRecord
  <2>. QED
    BY <1>1, <2>1 DEF Remains, Plain, Gated, Breached
<1>5. CASE Assemble(r) /\ UNCHANGED history
  BY <1>1, <1>5, AssembleRemains
<1>6. CASE HDeliver(r)
  BY <1>1, <1>6, DeliverRemains
<1>7. CASE HRotate(r) \/ HWriteLatest(r) \/ HWriteSeen(r) \/ HEndDryRun(r)
  <2>1. /\ run'[r].pc \in {"rotated", "written", "idle"}
        /\ told' = told /\ announced' = announced
    BY <1>7 DEF HRotate, Rotate, HWriteLatest, WriteLatest, HWriteSeen, WriteSeen,
                HEndDryRun, EndDryRun, Idle, TypeOK, RunRecord
  <2>. QED
    BY <1>1, <2>1 DEF Remains, Plain, Gated
<1>8. ~HAbort(r)
  BY DEF HAbort, NothingFails
<1>. QED
  BY <1>2, <1>3, <1>4, <1>5, <1>6, <1>7, <1>8 DEF HNext, HStep, OneRun

LEMMA AnnounceStep ==
  ASSUME OneRun, SavedIfSent, NothingFails, TypeOK, AllChained, AllRemain,
         [HNext]_allVars, NEW r \in Runs, run'[r].arrived, ~run[r].arrived,
         NEW i \in run[r].facts.new \cup run[r].facts.reopened, Plain(i)
  PROVE  i \notin announced
<1>1. i \notin told
  BY ChainStep DEF NothingFails, NothingLost
<1>. QED
  BY <1>1 DEF AllRemain, Remains

\* With the deployed rules, where invocations do not overlap and nothing fails,
\* an unbroken breach of an ungated rule is called new or reopened by one
\* report only.
THEOREM EachBreachIsAnnouncedOnce ==
  ASSUME OneRun, Deployed, SavedIfSent, NothingFails
  PROVE  HSpec => AnnouncedOnce
<1>1. NothingLost
  BY DEF NothingFails, NothingLost
<1>2. HInit => AllRemain
  BY DEF HInit, Init, Idle, AllRemain, Remains
<1>3. TypeOK /\ AllChained /\ AllRemain /\ [HNext]_allVars =>
        AllChained' /\ AllRemain'
  BY <1>1, AllChainedInductive, AllRemainInductive
<1>4. TypeOK /\ AllChained /\ AllRemain /\ [HNext]_allVars =>
        [\A r \in Runs : run'[r].arrived /\ ~run[r].arrived =>
           \A i \in run[r].facts.new \cup run[r].facts.reopened :
             Plain(i) => i \notin announced]_allVars
  BY AnnounceStep
<1>. QED
  BY <1>2, <1>3, <1>4, ChainedFromTheStart, HistoryTypeCorrect, PTL
  DEF HSpec, AnnouncedOnce
=============================================================================
