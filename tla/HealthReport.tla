---------------------------- MODULE HealthReport ----------------------------
(***************************************************************************)
(* One invocation after another (or at once) of tools/cmd/healthreport:    *)
(* collect, assemble (classify and diff), deliver, save.  The memory       *)
(* between invocations is three files of the state directory:              *)
(*                                                                         *)
(*   latest    facts-latest.json: the severities of the last saved run     *)
(*   previous  facts-previous.json: those of the one before                *)
(*   seen      seen/observations.json: what is known of each identity      *)
(*                                                                         *)
(* Timestamps are modelled by their age in days, which is all the code     *)
(* compares: FirstSeen by firstAge, capped at AgeCap (no rule asks for     *)
(* more), and LastSeen by lastAge, capped just beyond the retention.  A    *)
(* run takes minutes, so no day passes while one is in progress.           *)
(***************************************************************************)
EXTENDS Severity

CONSTANTS
  Runs,         \* slots for concurrent invocations: the timer's, a manual one
  Conditions,   \* identities of the observations that collectors make
  Collectors,   \* also the identities of the collector_failed observations
  Source,       \* the collector of each condition
  Rule,         \* the rule of each identity
  Readings,     \* the values an observation may have
  Selections,   \* the sets of collectors invocations are started with
  Modes,        \* the flags (--send, --dry-run) they are started with
  AgeCap,       \* cap of firstAge
  Retention     \* retentionDays of PruneSeen

Ids == Conditions \cup Collectors

RuleRecord == [type: STRING, direction: STRING,
               warn: Int \cup {None}, crit: Int \cup {None},
               minAge: Nat \cup {None}, factor: Int, floor: Int,
               level: SeverityNames,
               subjects: SUBSET STRING, critValues: SUBSET STRING,
               warnValues: SUBSET STRING, okValues: SUBSET STRING]

ASSUME ConstantsAssumption ==
  /\ Conditions \cap Collectors = {}
  /\ Source \in [Conditions -> Collectors]
  /\ Readings \subseteq Int /\ 1 \in Readings
  /\ Selections \subseteq SUBSET Collectors
  /\ AgeCap \in Nat
  /\ Retention \in Nat

ASSUME RuleAssumption ==
  /\ Rule \in [Ids -> RuleRecord]
  /\ \A i \in Ids : Rule[i].minAge # None => Rule[i].minAge \in 0..AgeCap

VARIABLES latest, previous, seen, run

vars == <<latest, previous, seen, run>>

-----------------------------------------------------------------------------
(* Values of the files and of the invocations.                             *)

Severities == [Ids -> SeverityNames \cup {"absent"}]

SeenRecord == [firstAge: 0..AgeCap, lastAge: 0..(Retention + 1),
               actionable: BOOLEAN, value: Readings \cup {None}]

SeenFile == [Ids -> SeenRecord \cup {None}]

Facts == [severity: Severities, new: SUBSET Ids, reopened: SUBSET Ids,
          persisting: SUBSET Ids, worsened: SUBSET Ids, improved: SUBSET Ids,
          resolved: SUBSET Ids]

\* What one invocation observes.
Reading == [Ids -> Readings \cup {None}]

Flags == [send: BOOLEAN, dry: BOOLEAN]

\* None is no value of any of these kinds.
ASSUME NoneAssumption ==
  /\ None \notin Int /\ None \notin Flags
  /\ None \notin Severities
  /\ None \notin SeenRecord
  /\ None \notin SeenFile
  /\ None \notin Reading
  /\ None \notin Facts

ASSUME ModesAssumption == Modes \subseteq Flags

Idle == [pc |-> "idle", mode |-> None, reading |-> None,
         before |-> None, facts |-> None, seen |-> None, arrived |-> FALSE]

Steps == {"idle", "collected", "loaded", "assembled", "delivered",
          "rotated", "written"}

\* PreviousIDs: what was actionable in a facts file; nothing, if it is missing.
ActionableIn(file) ==
  IF file = None THEN {} ELSE {i \in Ids : Actionable(file[i])}

-----------------------------------------------------------------------------
(* Collecting                                                              *)

\* One observation for each failed collector.
SilentHealth(i, failed) == None   \* mutant: failures go unmentioned
CollectorHealth(i, failed) == IF i \in failed THEN 1 ELSE None

\* What a run observes when `truth` holds: the collectors it names that did
\* not fail report theirs, and a failed one what it had gathered (`kept`).
Observed(truth, names, failed, kept) ==
  [i \in Ids |->
     IF i \in Collectors THEN CollectorHealth(i, failed)
     ELSE IF Source[i] \in names /\ (Source[i] \in failed => i \in kept)
          THEN truth[i] ELSE None]

Collect(r, truth, failed) ==
  /\ run[r].pc = "idle"
  /\ \E names \in Selections, mode \in Modes :
       /\ failed \subseteq names
       /\ \E kept \in SUBSET {i \in Conditions : Source[i] \in failed} :
            run' = [run EXCEPT ![r] =
                      [Idle EXCEPT !.pc = "collected", !.mode = mode,
                         !.reading = Observed(truth, names, failed, kept)]]
  /\ UNCHANGED <<latest, previous, seen>>

-----------------------------------------------------------------------------
(* Assembling                                                              *)

\* The observation that Classify sees, after AttachPreviousValues.
Observation(reading, record) ==
  [subject |-> "", text |-> "", number |-> reading, truth |-> reading # 0,
   previous |-> IF record = None THEN None ELSE record.value,
   age      |-> IF record = None THEN None ELSE record.firstAge]

\* On the very first run nothing is known, and no identity counts as new.
CandidateNew(memory) ==
  IF \A i \in Ids : memory[i] = None THEN {}
  ELSE {i \in Ids : memory[i] = None}

\* Apply
Classified(reading, memory) ==
  [i \in Ids |->
     IF reading[i] = None THEN "absent"
     ELSE Classify(Rule[i], Observation(reading[i], memory[i]),
                   i \in CandidateNew(memory))]

WasAlerted(memory, i) == memory[i] # None /\ memory[i].actionable

\* The DiffResult of Compute.
Diff(severity, before, memory) ==
  LET now    == ActionableIn(severity)
      was    == ActionableIn(before)
      Rank(i) == SeverityRank(severity[i]) - SeverityRank(before[i])
  IN [severity   |-> severity,
      persisting |-> now \cap was,
      reopened   |-> {i \in now \ was : WasAlerted(memory, i)},
      new        |-> {i \in now \ was : ~WasAlerted(memory, i)},
      worsened   |-> {i \in now \cap was : Rank(i) > 0},
      improved   |-> {i \in now \cap was : Rank(i) < 0},
      resolved   |-> was \ now]

\* FirstSeen of an observed identity: a reopened problem starts a new life.
FirstAgeCarried(diff, memory, i) ==   \* mutant: also when it reopens
  IF memory[i] = None THEN 0 ELSE memory[i].firstAge
FirstAgeUnset(diff, memory, i) ==     \* mutant: none for a new record
  IF memory[i] = None THEN None ELSE memory[i].firstAge
FirstAge(diff, memory, i) ==
  IF memory[i] = None \/ i \in diff.reopened THEN 0 ELSE memory[i].firstAge

\* The seen-state Compute leaves: what was observed is remembered as of today.
\* The value of a failed collector is no number, and is not remembered.
Remembered(diff, reading, memory) ==
  [i \in Ids |->
     IF reading[i] = None THEN memory[i]
     ELSE [firstAge   |-> FirstAge(diff, memory, i),
           lastAge    |-> 0,
           actionable |-> Actionable(diff.severity[i]) \/ WasAlerted(memory, i),
           value      |-> IF i \in Conditions THEN reading[i] ELSE None]]

LoadOlder(r) ==   \* mutant: reads facts-previous.json
  /\ run[r].pc = "collected"
  /\ run' = [run EXCEPT ![r].pc = "loaded", ![r].before = previous]
  /\ UNCHANGED <<latest, previous, seen>>

LoadPrevious(r) ==
  /\ run[r].pc = "collected"
  /\ run' = [run EXCEPT ![r].pc = "loaded", ![r].before = latest]
  /\ UNCHANGED <<latest, previous, seen>>

\* LoadSeen, AttachPreviousValues, Apply and Compute.
Assemble(r) ==
  /\ run[r].pc = "loaded"
  /\ LET diff == Diff(Classified(run[r].reading, seen), run[r].before, seen)
     IN run' = [run EXCEPT ![r].pc = "assembled", ![r].facts = diff,
                  ![r].seen = Remembered(diff, run[r].reading, seen),
                  ![r].reading = None, ![r].before = None]
  /\ UNCHANGED <<latest, previous, seen>>

-----------------------------------------------------------------------------
(* Delivering and saving                                                   *)

\* The report is sent (it may fail to arrive by any channel) or printed; a
\* dry run then ends, leaving the three files alone.
Deliver(r) ==
  /\ run[r].pc = "assembled"
  /\ \E arrived \in {TRUE, FALSE} :
       /\ arrived => run[r].mode.send
       /\ run' = [run EXCEPT ![r].pc = "delivered", ![r].arrived = arrived]
  /\ UNCHANGED <<latest, previous, seen>>

SavesAlways(r) == TRUE   \* mutant: --dry-run is ignored
Saves(r) == ~run[r].mode.dry

EndDryRun(r) ==
  /\ run[r].pc = "delivered"
  /\ run[r].mode.dry
  /\ run' = [run EXCEPT ![r] = Idle]
  /\ UNCHANGED <<latest, previous, seen>>

PruneSeenEarly(memory, facts) ==   \* mutant: a day early
  [i \in Ids |->
     IF /\ memory[i] # None
        /\ i \notin ActionableIn(facts.severity)
        /\ memory[i].lastAge >= Retention
     THEN None ELSE memory[i]]

PruneSeenFresh(memory, facts) ==   \* mutant: the cutoff the other way round
  [i \in Ids |->
     IF /\ memory[i] # None
        /\ i \notin ActionableIn(facts.severity)
        /\ memory[i].lastAge <= Retention
     THEN None ELSE memory[i]]

\* PruneSeen: forget what has not been observed for longer than the
\* retention, unless it is actionable in this very run.
PruneSeen(memory, facts) ==
  [i \in Ids |->
     IF /\ memory[i] # None
        /\ i \notin ActionableIn(facts.severity)
        /\ memory[i].lastAge > Retention
     THEN None ELSE memory[i]]

RotateUnchecked ==   \* mutant: latest is taken to exist
  previous' = latest /\ latest' = None

\* facts-latest.json is renamed to facts-previous.json, if it exists.
RotateFiles ==
  IF latest # None THEN previous' = latest /\ latest' = None
  ELSE UNCHANGED <<latest, previous>>

\* Save, up to that rename.
Rotate(r) ==
  /\ run[r].pc = "delivered"
  /\ Saves(r)
  /\ RotateFiles
  /\ run' = [run EXCEPT ![r].pc = "rotated",
                        ![r].seen = PruneSeen(run[r].seen, run[r].facts)]
  /\ UNCHANGED seen

WriteLatest(r) ==
  /\ run[r].pc = "rotated"
  /\ latest' = run[r].facts.severity
  /\ run' = [run EXCEPT ![r].pc = "written"]
  /\ UNCHANGED <<previous, seen>>

WriteSeen(r) ==
  /\ run[r].pc = "written"
  /\ seen' = run[r].seen
  /\ run' = [run EXCEPT ![r] = Idle]
  /\ UNCHANGED <<latest, previous>>

\* The process dies, or a step of Save returns an error: the files stay as
\* they are and everything the invocation knew is gone.
Abort(r) ==
  /\ run[r].pc # "idle"
  /\ run' = [run EXCEPT ![r] = Idle]
  /\ UNCHANGED <<latest, previous, seen>>

-----------------------------------------------------------------------------
Older(age, cap) == IF age < cap THEN age + 1 ELSE age

\* A day passes: every recorded timestamp is a day older.
Tick ==
  /\ \A r \in Runs : run[r].pc = "idle"
  /\ seen' = [i \in Ids |->
       IF seen[i] = None THEN None
       ELSE [seen[i] EXCEPT !.firstAge = Older(@, AgeCap),
                            !.lastAge  = Older(@, Retention + 1)]]
  /\ UNCHANGED <<latest, previous, run>>

Init ==
  /\ latest = None
  /\ previous = None
  /\ seen = [i \in Ids |-> None]
  /\ run = [r \in Runs |-> Idle]

Truths == [Conditions -> Readings \cup {None}]

Step(r) ==
  \/ LoadPrevious(r)
  \/ Assemble(r)
  \/ Deliver(r)
  \/ EndDryRun(r)
  \/ Rotate(r)
  \/ WriteLatest(r)
  \/ WriteSeen(r)

Next ==
  \/ Tick
  \/ \E r \in Runs :
       \/ \E truth \in Truths, failed \in SUBSET Collectors :
            Collect(r, truth, failed)
       \/ Step(r)
       \/ Abort(r)

Spec == Init /\ [][Next]_vars
-----------------------------------------------------------------------------
RunRecord ==
  [pc: Steps,
   mode: Flags \cup {None},
   reading: Reading \cup {None},
   before: Severities \cup {None},
   facts: Facts \cup {None},
   seen: SeenFile \cup {None},
   arrived: BOOLEAN]

\* The three files and every invocation have their types: an invocation holds
\* a mode once it has started, what it observed until it has assembled, and a
\* report with the seen-state to save from then on.
TypeOK ==
  /\ latest \in Severities \cup {None}
  /\ previous \in Severities \cup {None}
  /\ seen \in SeenFile
  /\ run \in [Runs -> RunRecord]
  /\ \A r \in Runs :
       /\ run[r].pc # "idle" => run[r].mode # None
       /\ run[r].pc \in {"collected", "loaded"} => run[r].reading # None
       /\ run[r].pc \in {"assembled", "delivered", "rotated", "written"} =>
            run[r].facts # None /\ run[r].seen # None
=============================================================================
