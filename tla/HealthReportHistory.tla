------------------------ MODULE HealthReportHistory ------------------------
(***************************************************************************)
(* HealthReport seen from outside: history variables record what the       *)
(* estate really was like when a run looked, and what the reader has been  *)
(* told, so that the reports can be held against both.  They observe the   *)
(* steps of HealthReport and guard none of them; only the constant Faults  *)
(* restricts which failures a behaviour contains.                          *)
(***************************************************************************)
EXTENDS HealthReport

CONSTANT Faults   \* subset of {"abort", "collector", "lost"}

VARIABLES
  truthOf,      \* per run: what held when its collectors looked
  breachAge,    \* per gated condition: days its unbroken breach has lasted
  announced,    \* conditions a report has named during that breach
  told,         \* what the last report that arrived called a problem
  reopenedAge,  \* per gated identity: days since a saved run reopened it
  lastSaved     \* the severities of the last completed facts-latest.json

history == <<truthOf, breachAge, announced, told, reopenedAge, lastSaved>>
allVars == <<vars, history>>

\* The value is out of bounds, whatever its age: what the rule is about.
Breached(i, value) ==
  /\ value # None
  /\ \/ Rule[i].type = "threshold" /\ BreachedLevel(Rule[i], value) # "info"
     \/ Rule[i].type = "present"

Gated(i) == Rule[i].minAge # None
Plain(i) == i \in Conditions /\ Rule[i].type = "threshold" /\ ~Gated(i)

GatedIds == {i \in Ids : Gated(i)}
GatedConditions == GatedIds \cap Conditions

HCollect(r, truth, failed) ==
  /\ failed # {} => "collector" \in Faults
  /\ Collect(r, truth, failed)
  /\ truthOf' = [truthOf EXCEPT ![r] = truth]
  /\ breachAge' = [i \in GatedConditions |->
       IF ~Breached(i, truth[i]) THEN None
       ELSE IF breachAge[i] = None THEN 0 ELSE breachAge[i]]
  /\ announced' = {i \in announced : Breached(i, truth[i])}
  /\ UNCHANGED <<told, reopenedAge, lastSaved>>

HDeliver(r) ==
  /\ Deliver(r)
  /\ run[r].mode.send /\ "lost" \notin Faults => run'[r].arrived
  /\ LET now == ActionableIn(run[r].facts.severity)
     IN IF run'[r].arrived
        THEN /\ told' = now
             /\ announced' = announced \cup
                  {i \in now \cap Conditions : Breached(i, truthOf[r][i])}
        ELSE UNCHANGED <<told, announced>>
  /\ UNCHANGED <<truthOf, breachAge, reopenedAge, lastSaved>>

HWriteLatest(r) ==
  /\ WriteLatest(r)
  /\ lastSaved' = latest'
  /\ UNCHANGED <<truthOf, breachAge, announced, told, reopenedAge>>

HWriteSeen(r) ==
  /\ WriteSeen(r)
  /\ reopenedAge' = [i \in GatedIds |-> IF i \in run[r].facts.reopened THEN 0
                                   ELSE reopenedAge[i]]
  /\ UNCHANGED <<truthOf, breachAge, announced, told, lastSaved>>

HAbort(r) ==
  /\ "abort" \in Faults
  /\ Abort(r)
  /\ truthOf' = [truthOf EXCEPT ![r] = None]
  /\ UNCHANGED <<breachAge, announced, told, reopenedAge, lastSaved>>

HEndDryRun(r) ==
  /\ EndDryRun(r)
  /\ truthOf' = [truthOf EXCEPT ![r] = None]
  /\ UNCHANGED <<breachAge, announced, told, reopenedAge, lastSaved>>

HTick ==
  /\ Tick
  /\ breachAge' = [i \in GatedConditions |->
       IF breachAge[i] = None THEN None ELSE Older(breachAge[i], AgeCap)]
  /\ reopenedAge' = [i \in GatedIds |->
       IF reopenedAge[i] = None THEN None ELSE Older(reopenedAge[i], AgeCap)]
  /\ UNCHANGED <<truthOf, announced, told, lastSaved>>

HInit ==
  /\ Init
  /\ truthOf = [r \in Runs |-> None]
  /\ breachAge = [i \in GatedConditions |-> None]
  /\ announced = {}
  /\ told = {}
  /\ reopenedAge = [i \in GatedIds |-> None]
  /\ lastSaved = None

HRotate(r) ==
  /\ Rotate(r)
  /\ truthOf' = [truthOf EXCEPT ![r] = None]
  /\ UNCHANGED <<breachAge, announced, told, reopenedAge, lastSaved>>

HStep(r) ==
  \/ (LoadPrevious(r) \/ Assemble(r)) /\ UNCHANGED history
  \/ HRotate(r)
  \/ HDeliver(r)
  \/ HEndDryRun(r)
  \/ HWriteLatest(r)
  \/ HWriteSeen(r)

HStart(r) ==
  \E truth \in Truths, failed \in SUBSET Collectors : HCollect(r, truth, failed)

HTimer(r) == HStart(r) /\ run'[r].mode.send /\ ~run'[r].mode.dry

HNext == HTick \/ \E r \in Runs : HStart(r) \/ HStep(r) \/ HAbort(r)

HSpec == HInit /\ [][HNext]_allVars

\* The timer starts a run every day, a run that has started proceeds, and days
\* keep passing however often a run is in progress when one could.
FairSpec ==
  /\ HSpec
  /\ SF_allVars(HTick)
  /\ \A r \in Runs : SF_allVars(HTimer(r)) /\ WF_allVars(HStep(r))
-----------------------------------------------------------------------------
(* Properties                                                              *)

\* The last completed report can be read back after a crash at any step of
\* Save, from facts-latest.json or else from facts-previous.json.
LastReportSurvives ==
  latest = lastSaved \/ (latest = None /\ previous = lastSaved)

Reported(r) == run[r].pc = "delivered"
Alerts(r) == ActionableIn(run[r].facts.severity)

\* "A broken collector looks exactly like a clean bill of health" is what
\* CollectorHealth prevents: a report calls a problem resolved that is still
\* there only if it also names the collector that failed.
NoSilentRecovery ==
  \A r \in Runs : Reported(r) =>
    \A i \in run[r].facts.resolved :
      Plain(i) /\ Breached(i, truthOf[r][i]) => Source[i] \in Alerts(r)

\* Each report that arrives takes the reader exactly from the problems the
\* last one named to those it names itself: what it calls resolved was open,
\* what it calls new or reopened was not, and nothing else changes hands.
ReportsChain ==
  [][\A r \in Runs : run'[r].arrived /\ ~run[r].arrived =>
       /\ run[r].facts.resolved = told \ told'
       /\ run[r].facts.new \cup run[r].facts.reopened = told' \ told]_allVars

\* An unbroken breach of an ungated rule is announced (as new or reopened)
\* by one report only; the following ones carry it as persisting.
AnnouncedOnce ==
  [][\A r \in Runs : run'[r].arrived /\ ~run[r].arrived =>
       \A i \in run[r].facts.new \cup run[r].facts.reopened :
         Plain(i) => i \notin announced]_allVars

\* After a report that called an age-gated problem reopened, the gate holds
\* again: no alert for it before min_age_days have passed.
ReopenThenGrace ==
  \A r \in Runs : Reported(r) =>
    \A i \in Alerts(r) \cap GatedIds :
      reopenedAge[i] # None => reopenedAge[i] >= Rule[i].minAge

\* rules.yml of an age-gated rule: a breach is only escalated once it has
\* lasted min_age_days.
FreshBreachHeldBack ==
  \A r \in Runs : Reported(r) =>
    \A i \in Alerts(r) \cap GatedConditions :
      breachAge[i] # None /\ breachAge[i] >= Rule[i].minAge

StaysBreached(i) ==
  <>[](\A r \in Runs : truthOf[r] # None => Breached(i, truthOf[r][i]))

\* A breach that does not go away is reported for good under an ungated rule,
\* and again and again under an age-gated one.
LastingBreachIsReported ==
  \A i \in Conditions :
    StaysBreached(i) => IF Plain(i) THEN <>[](i \in told) ELSE []<>(i \in told)
=============================================================================
