------------------------ MODULE KumaProvision_proofs ------------------------
(***************************************************************************)
(* Theorems about KumaProvision, for every history of catalogs, any        *)
(* windows and pages, and any number of failing calls and killed runs.     *)
(***************************************************************************)
EXTENDS KumaProvision, TLAPS

LEMMA NoRunType == NoRun \in RunRecord /\ NoRun.pc = "idle"
BY VersionsAssumption DEF NoRun, RunRecord

LEMMA ExpectedType ==
  /\ \A v : Expected(v) \subseteq Names
  /\ Monitors \subseteq Names /\ Orphans \subseteq Names
BY DEF Expected, Monitors, Orphans

LEMMA WantType ==
  ASSUME TypeOK, NEW n \in Names
  PROVE  Want(n) \in Targets \cup {None}
BY CatalogAssumption DEF Want, TypeOK, RunRecord

LEMMA MembersType ==
  ASSUME TypeOK, NEW u \in Uses
  PROVE  Members(u) \subseteq Names
BY ExpectedType DEF Members

LEMMA ChecksumType ==
  TypeOK => Checksum \in {Hash(v) : v \in Versions} \cup {None}
BY DEF Checksum, TypeOK

-----------------------------------------------------------------------------
(* Type correctness                                                        *)

LEMMA InitType == Init => TypeOK
BY NoRunType, ExpectedType, VersionsAssumption, FlagsAssumption, NamesAssumption
   DEF Init, TypeOK, NoRun

LEMMA SyncType == TypeOK /\ Sync => TypeOK'
<1> SUFFICES ASSUME TypeOK, Sync
             PROVE  TypeOK'
  OBVIOUS
<1>1. CASE \E n \in Names : SkipMonitor(n)
  BY <1>1, NamesAssumption
     DEF TypeOK, RunRecord, SkipMonitor, Synced, server, NoRun
<1>2. CASE \E n \in Names : UpdateMonitor(n)
  BY <1>2, NamesAssumption, WantType
     DEF TypeOK, RunRecord, UpdateMonitor, MayUpdate, SetTarget, Synced, NoRun
<1>3. CASE \E n \in Names : CreateMonitor(n)
  <2>1. PICK n \in Names : CreateMonitor(n)
    BY <1>3
  <2>2. target' \in [Names -> Targets \cup {None}]
    BY <2>1, WantType DEF TypeOK, CreateMonitor, SetTarget
  <2>. QED
    BY <2>1, <2>2, NamesAssumption
       DEF TypeOK, RunRecord, CreateMonitor, MayCreate, SetTarget, NoRun
<1>4. CASE \E n \in Names : DeleteMonitor(n)
  BY <1>4, NamesAssumption
     DEF TypeOK, RunRecord, DeleteMonitor, Removed, Synced, NoRun
<1>5. CASE ResumeMonitor
  BY <1>5, NamesAssumption
     DEF TypeOK, RunRecord, ResumeMonitor, EndCreate, NoRun
<1>6. CASE BeginDelete
  BY <1>6, ExpectedType DEF TypeOK, RunRecord, BeginDelete, server, NoRun
<1>7. CASE EndDelete
  BY <1>7 DEF TypeOK, RunRecord, EndDelete, server, NoRun
<1>8. CASE Notify
  BY <1>8, ExpectedType DEF TypeOK, RunRecord, Notify, NotifyAll, NoRun
<1>9. CASE EndAssign
  BY <1>9 DEF TypeOK, RunRecord, EndAssign, server, NoRun
<1>10. CASE \E u \in Uses : Assign(u)
  BY <1>10, MembersType DEF TypeOK, RunRecord, Assign, NoRun
<1>11. CASE Finish
  BY <1>11, NoRunType, ChecksumType DEF TypeOK, Finish, server, NoRun
<1>. QED
  BY <1>1, <1>2, <1>3, <1>4, <1>5, <1>6, <1>7, <1>8, <1>9, <1>10, <1>11
     DEF Sync

LEMMA FaultType == ASSUME TypeOK, NEW kind, Fault(kind) PROVE faults' \in 0..MaxFaults
BY FlagsAssumption DEF Fault, TypeOK

ServerOK ==
  /\ target \in [Names -> Targets \cup {None}]
  /\ active \subseteq Names /\ notified \subseteq Names
  /\ assigned \in [Uses -> SUBSET Names]

RunOK ==
  /\ run \in RunRecord
  /\ run.pc = "idle" => run = NoRun
  /\ run.pc = "resume" <=> run.new # None
  /\ run.pc \notin {"sync", "resume", "delete"} => run.todo = {}

LEMMA ServerType ==
  ASSUME TypeOK, NEW n \in Names, SetTarget(n) \/ Removed(n) \/ UNCHANGED server
  PROVE  ServerOK'
<1>1. CASE SetTarget(n)
  BY <1>1, WantType DEF TypeOK, ServerOK, SetTarget
<1>2. CASE Removed(n)
  BY <1>2 DEF TypeOK, ServerOK, Removed
<1>3. CASE UNCHANGED server
  BY <1>3 DEF TypeOK, ServerOK, server
<1>. QED
  BY <1>1, <1>2, <1>3

LEMMA SyncedType ==
  ASSUME TypeOK, NEW n \in Names, run.pc \in {"sync", "delete"},
         Synced(n) \/ NotSynced(n)
  PROVE  RunOK'
<1>1. run \in RunRecord /\ run.new = None
  BY DEF TypeOK
<1>2. CASE Synced(n)
  BY <1>1, <1>2 DEF RunOK, RunRecord, Synced
<1>3. CASE NotSynced(n)
  BY <1>1, <1>3 DEF RunOK, RunRecord, NotSynced
<1>. QED
  BY <1>2, <1>3

LEMMA MonitorFails ==
  ASSUME TypeOK, NEW n \in Names,
         UpdateFails(n) \/ CreateFails(n) \/ DeleteFails(n)
  PROVE  TypeOK'
<1>1. ServerOK'
  BY ServerType DEF UpdateFails, CreateFails, DeleteFails
<1>2. RunOK'
  BY SyncedType
     DEF UpdateFails, CreateFails, DeleteFails, MayUpdate, MayCreate
<1>3. faults' \in 0..MaxFaults
  BY FaultType DEF UpdateFails, CreateFails, DeleteFails
<1>. QED
  BY <1>1, <1>2, <1>3
     DEF TypeOK, ServerOK, RunOK, UpdateFails, CreateFails, DeleteFails

LEMMA FailType == TypeOK /\ Fail => TypeOK'
<1> SUFFICES ASSUME TypeOK, Fail
             PROVE  TypeOK'
  OBVIOUS
<1>1. CASE \E n \in Names : UpdateFails(n) \/ CreateFails(n) \/ DeleteFails(n)
  BY <1>1, MonitorFails
<1>4. CASE ResumeFails
  BY <1>4, NamesAssumption, FaultType
     DEF TypeOK, RunRecord, ResumeFails, EndCreate, NoRun
<1>5. CASE NotifyFails
  BY <1>5, ExpectedType, FaultType DEF TypeOK, RunRecord, NotifyFails, NoRun
<1>6. CASE KeyRejected
  BY <1>6, FaultType DEF TypeOK, RunRecord, KeyRejected, server, NoRun
<1>7. CASE Crash
  BY <1>7, FaultType, NoRunType DEF TypeOK, Crash, server, NoRun
<1>8. CASE \E u \in Uses : AssignFails(u)
  <2>1. PICK u \in Uses : AssignFails(u)
    BY <1>8
  <2>2. assigned' \in [Uses -> SUBSET Names]
    BY <2>1, MembersType DEF TypeOK, AssignFails
  <2>3. RunOK'
    BY <2>1 DEF TypeOK, RunOK, RunRecord, AssignFails, NoRun
  <2>4. faults' \in 0..MaxFaults
    BY <2>1, FaultType DEF AssignFails
  <2>. QED
    BY <2>1, <2>2, <2>3, <2>4 DEF TypeOK, RunOK, AssignFails
<1>. QED
  BY <1>1, <1>4, <1>5, <1>6, <1>7, <1>8 DEF Fail

LEMMA NextType == TypeOK /\ [Next]_vars => TypeOK'
<1> SUFFICES ASSUME TypeOK, [Next]_vars
             PROVE  TypeOK'
  OBVIOUS
<1>1. CASE Deploy
  BY <1>1 DEF TypeOK, Deploy, server
<1>2. CASE Start
  BY <1>2, NoRunType, ExpectedType DEF TypeOK, RunRecord, Start, server, NoRun
<1>3. CASE Sync
  BY <1>3, SyncType
<1>4. CASE Fail
  BY <1>4, FailType
<1>5. CASE UNCHANGED vars
  BY <1>5 DEF TypeOK, vars
<1>. QED
  BY <1>1, <1>2, <1>3, <1>4, <1>5 DEF Next

\* The server, the stored checksum and the run keep their types.
THEOREM TypeCorrect == Spec => []TypeOK
<1>. QED
  BY InitType, NextType, PTL DEF Spec

-----------------------------------------------------------------------------
(* A stored checksum means that the server is provisioned                  *)

\* Catalogs are deployed in their order, and a catalog whose services are
\* those of an earlier one does not come back after others.
InOrder ==
  /\ ~Rollbacks
  /\ \A a, b, c \in Versions :
       a < b /\ b < c /\ Hash(a) = Hash(c) => Hash(b) = Hash(a)

Right(n) == target[n] = Want(n)

\* What a run that has not failed so far has achieved, step by step.
Synchronised ==
  /\ run.pc \in {"sync", "resume"} =>
       /\ \A n \in run.todo \ {run.new} : target[n] = run.seen[n]
       /\ run.failed \/ \A n \in Names : n \in run.todo \/ Right(n) \/ Orphan(n)
  /\ run.pc = "resume" => Right(run.new)
Cleared ==
  /\ run.pc = "delete" =>
       /\ \A n \in run.todo : Want(n) = None
       /\ run.failed \/ \A n \in Names : n \in run.todo \/ Right(n)
  /\ run.pc \in {"notify", "assign", "done"} =>
       run.failed \/ \A n \in Names : Right(n)
Covered ==
  /\ run.pc \in {"assign", "done"} =>
       run.failed \/ /\ notified = Expected(run.want)
                     /\ \A u \in Uses \ run.left :
                          assigned[u] = Listed[run.want][u] \cap Expected(run.want)
  /\ run.pc = "done" => run.left = {}

\* Only a catalog that is not stored is worked on, and what is stored is the
\* checksum of one deployed before.
Working == run.pc # "idle" => run.want = version /\ ~Stored
Past == stored # None => \E v \in Versions : v <= version /\ stored = Hash(v)

Inv == /\ TypeOK /\ Synchronised /\ Cleared /\ Covered
       /\ Working /\ Past /\ StoredIsProvisioned

\* When every monitor is right, the monitors are those that are expected.
LEMMA AllRight ==
  ASSUME TypeOK, \A n \in Names : Right(n)
  PROVE  target = Catalog[run.want] /\ Monitors = Expected(run.want)
<1>1. /\ target \in [Names -> Targets \cup {None}]
      /\ Catalog[run.want] \in [Names -> Targets \cup {None}]
  BY CatalogAssumption DEF TypeOK, RunRecord
<1>2. target = Catalog[run.want]
  BY <1>1 DEF Right, Want
<1>. QED
  BY <1>2 DEF Monitors, Expected

LEMMA InitInv == Init => Inv
BY InitType, HashAssumption, VersionsAssumption
   DEF Init, Inv, NoRun, Synchronised, Cleared, Covered, Working, Past,
       StoredIsProvisioned, Stored

\* No step of a run but its end touches what is stored.
Kept == UNCHANGED <<version, stored>> /\ run.pc # "idle" /\ run'.want = run.want

LEMMA KeptOld ==
  ASSUME Inv, Kept
  PROVE  Working' /\ Past' /\ StoredIsProvisioned'
BY DEF Inv, Kept, Working, Past, StoredIsProvisioned, Stored

Progress == Synchronised /\ Cleared /\ Covered

LEMMA FromKept ==
  ASSUME Inv, TypeOK', Kept, Progress'
  PROVE  Inv'
BY KeptOld DEF Inv, Progress

\* A monitor that is dealt with, with or without success.
LEMMA MonitorStep ==
  ASSUME Inv, NEW n \in Names,
         \/ SkipMonitor(n) \/ UpdateMonitor(n) \/ DeleteMonitor(n)
         \/ UpdateFails(n) \/ CreateFails(n) \/ DeleteFails(n)
  PROVE  Progress' /\ Kept
<1>1. run \in RunRecord /\ run.pc \in {"sync", "delete"} /\ n \in run.todo
  BY DEF Inv, TypeOK, SkipMonitor, UpdateMonitor, DeleteMonitor, UpdateFails,
         CreateFails, DeleteFails, MayUpdate, MayCreate
<1>2. run.new = None
  BY <1>1 DEF Inv, TypeOK
<1>3. /\ run' \in RunRecord
      /\ run'.pc = run.pc /\ run'.want = run.want /\ run'.seen = run.seen
      /\ run'.todo = run.todo \ {n} /\ run'.new = None
      /\ run'.failed = run.failed \/ run'.failed = TRUE
  BY <1>1, <1>2
     DEF RunRecord, SkipMonitor, UpdateMonitor, DeleteMonitor, UpdateFails,
         CreateFails, DeleteFails, Synced, NotSynced
<1>4. UNCHANGED <<version, stored>>
  BY DEF SkipMonitor, UpdateMonitor, DeleteMonitor, UpdateFails, CreateFails,
         DeleteFails
<1>5. \A k \in Names \ {n} : target'[k] = target[k]
  BY DEF Inv, TypeOK, SkipMonitor, UpdateMonitor, DeleteMonitor, UpdateFails,
         CreateFails, DeleteFails, SetTarget, Removed, server
<1>6. run'.failed \/ Right(n)'
  <2>1. CASE SkipMonitor(n)
    <3>1. target[n] = run.seen[n]
      BY <2>1, <1>1, <1>2, NamesAssumption
         DEF Inv, Synchronised, SkipMonitor
    <3>. QED
      BY <2>1, <3>1, <1>3 DEF SkipMonitor, server, Right, Want
  <2>2. CASE UpdateMonitor(n)
    BY <2>2, <1>3 DEF Inv, TypeOK, UpdateMonitor, SetTarget, Right, Want
  <2>3. CASE DeleteMonitor(n)
    <3>1. Want(n) = None
      BY <2>3, <1>1 DEF Inv, Cleared, DeleteMonitor
    <3>. QED
      BY <2>3, <3>1, <1>3 DEF Inv, TypeOK, DeleteMonitor, Removed, Right, Want
  <2>4. CASE UpdateFails(n) \/ CreateFails(n) \/ DeleteFails(n)
    BY <2>4, <1>1 DEF RunRecord, UpdateFails, CreateFails, DeleteFails, NotSynced
  <2>. QED
    BY <2>1, <2>2, <2>3, <2>4
<1>7. Synchronised'
  BY <1>1, <1>2, <1>3, <1>5, <1>6, NamesAssumption
     DEF Inv, Synchronised, Right, Want, Orphan, RunRecord
<1>8. Cleared'
  BY <1>1, <1>3, <1>5, <1>6
     DEF Inv, Cleared, Right, Want, RunRecord
<1>9. Covered'
  BY <1>1, <1>3 DEF Covered
<1>. QED
  BY <1>1, <1>3, <1>4, <1>7, <1>8, <1>9 DEF Progress, Kept

LEMMA CreateStep ==
  ASSUME Inv, NEW n \in Names, CreateMonitor(n)
  PROVE  Progress' /\ Kept
<1>1. run \in RunRecord /\ run.pc = "sync" /\ n \in run.todo
  BY DEF Inv, TypeOK, CreateMonitor, MayCreate
<1>2. run' = [run EXCEPT !.pc = "resume", !.new = n]
  BY DEF CreateMonitor
<1>3. \A k \in Names \ {n} : target'[k] = target[k]
  BY DEF Inv, TypeOK, CreateMonitor, SetTarget
<1>4. target'[n] = Want(n)
  BY DEF Inv, TypeOK, CreateMonitor, SetTarget
<1>5. run.new = None
  BY <1>1 DEF Inv, TypeOK
<1>6. Synchronised'
  BY <1>1, <1>2, <1>3, <1>4, <1>5, NamesAssumption
     DEF Inv, Synchronised, Right, Want, Orphan, RunRecord
<1>. QED
  BY <1>1, <1>2, <1>6
     DEF Progress, Cleared, Covered, Kept, RunRecord, CreateMonitor

LEMMA ResumeStep ==
  ASSUME Inv, ResumeMonitor \/ ResumeFails
  PROVE  Progress' /\ Kept
<1>1. run \in RunRecord /\ run.pc = "resume" /\ run.new \in Names
  BY DEF Inv, TypeOK, RunRecord, ResumeMonitor, ResumeFails
<1>2. /\ run'.pc = "sync" /\ run'.new = None /\ run'.todo = run.todo \ {run.new}
      /\ run'.want = run.want /\ run'.seen = run.seen
      /\ run'.failed = run.failed \/ run'.failed = TRUE
  BY <1>1 DEF RunRecord, ResumeMonitor, ResumeFails, EndCreate
<1>3. UNCHANGED <<version, stored, target>>
  BY DEF ResumeMonitor, ResumeFails
<1>4. Synchronised'
  BY <1>1, <1>2, <1>3, NamesAssumption
     DEF Inv, Synchronised, Right, Want, Orphan, RunRecord
<1>. QED
  BY <1>1, <1>2, <1>3, <1>4 DEF Progress, Cleared, Covered, Kept

LEMMA BeginDeleteStep ==
  ASSUME Inv, BeginDelete
  PROVE  Progress' /\ Kept
<1>1. /\ run \in RunRecord /\ run.pc = "sync" /\ run.todo = {}
      /\ run' = [run EXCEPT !.pc = "delete", !.todo = Orphans]
      /\ UNCHANGED <<version, stored, target>>
  BY DEF Inv, TypeOK, BeginDelete, server
<1>2. Cleared'
  BY <1>1 DEF Inv, Synchronised, Cleared, Right, Want, Orphans, Orphan, RunRecord
<1>. QED
  BY <1>1, <1>2 DEF Progress, Synchronised, Covered, Kept, RunRecord

LEMMA EndDeleteStep ==
  ASSUME Inv, EndDelete
  PROVE  Progress' /\ Kept
<1>1. /\ run \in RunRecord /\ run.pc = "delete" /\ run.todo = {}
      /\ run' = [run EXCEPT !.pc = "notify"]
      /\ UNCHANGED <<version, stored, target>>
  BY DEF Inv, TypeOK, EndDelete, server
<1>2. Cleared'
  BY <1>1 DEF Inv, Cleared, Right, Want, RunRecord
<1>. QED
  BY <1>1, <1>2 DEF Progress, Synchronised, Covered, Kept, RunRecord

LEMMA NotifyStep ==
  ASSUME Inv, Notify \/ NotifyFails
  PROVE  Progress' /\ Kept
<1>1. /\ run \in RunRecord /\ run.pc = "notify" /\ run'.pc = "assign"
      /\ run'.left = Uses /\ run'.want = run.want
      /\ \/ run'.failed = run.failed /\ notified' = Monitors
         \/ run'.failed = TRUE
      /\ UNCHANGED <<version, stored, target>>
  BY DEF Inv, TypeOK, RunRecord, Notify, NotifyAll, NotifyFails
<1>2. Cleared'
  BY <1>1 DEF Inv, Cleared, Right, Want
<1>3. Covered'
  <2>1. run'.failed \/ notified' = Expected(run.want)
    BY <1>1, AllRight DEF Inv, Cleared
  <2>2. Expected(run.want)' = Expected(run.want)
    BY <1>1 DEF Expected
  <2>. QED
    BY <1>1, <2>1, <2>2 DEF Covered
<1>. QED
  BY <1>1, <1>2, <1>3 DEF Progress, Synchronised, Kept

LEMMA AssignStep ==
  ASSUME Inv, NEW u \in Uses, Assign(u) \/ AssignFails(u)
  PROVE  Progress' /\ Kept
<1>1. /\ run \in RunRecord /\ run.pc = "assign" /\ run'.pc = "assign"
      /\ run'.left = run.left \ {u} /\ run'.want = run.want
      /\ \/ /\ run'.failed = run.failed
            /\ assigned' = [assigned EXCEPT ![u] = Members(u)]
         \/ run'.failed = TRUE
      /\ UNCHANGED <<version, stored, target, notified>>
  BY DEF Inv, TypeOK, RunRecord, Assign, AssignFails
<1>2. Cleared'
  BY <1>1 DEF Inv, Cleared, Right, Want
<1>3. Covered'
  <2>1. CASE run'.failed = TRUE
    BY <2>1, <1>1 DEF Covered
  <2>2. CASE ~run.failed /\ assigned' = [assigned EXCEPT ![u] = Members(u)]
    <3>1. Members(u) = Listed[run.want][u] \cap Expected(run.want)
      BY <1>1, <2>2, AllRight DEF Inv, Cleared, Members
    <3>2. Expected(run.want)' = Expected(run.want)
      BY <1>1 DEF Expected
    <3>3. \A w \in Uses \ {u} : assigned'[w] = assigned[w]
      BY <2>2 DEF Inv, TypeOK
    <3>4. assigned'[u] = Members(u)
      BY <2>2 DEF Inv, TypeOK
    <3>. QED
      BY <1>1, <2>2, <3>1, <3>2, <3>3, <3>4 DEF Inv, Covered
  <2>. QED
    BY <1>1, <2>1, <2>2 DEF RunRecord
<1>. QED
  BY <1>1, <1>2, <1>3 DEF Progress, Synchronised, Kept

LEMMA EndAssignStep ==
  ASSUME Inv, EndAssign \/ KeyRejected
  PROVE  Progress' /\ Kept
<1>1. /\ run \in RunRecord /\ run.pc = "assign" /\ run'.pc = "done"
      /\ run.left = {} /\ run'.left = {} /\ run'.want = run.want
      /\ run'.failed = run.failed \/ run'.failed = TRUE
      /\ UNCHANGED <<version, stored, server>>
  BY DEF Inv, TypeOK, RunRecord, EndAssign, KeyRejected
<1>2. Cleared'
  BY <1>1 DEF Inv, Cleared, Right, Want, server
<1>3. Covered'
  BY <1>1 DEF Inv, Covered, server, Expected
<1>. QED
  BY <1>1, <1>2, <1>3 DEF Progress, Synchronised, Kept

\* Every step within a run keeps the invariant.
LEMMA WithinRun ==
  ASSUME Inv, Next, ~Deploy, ~Start, ~Finish, ~Crash
  PROVE  Inv'
<1>1. TypeOK'
  BY NextType DEF Inv
<1>2. Progress' /\ Kept
  BY MonitorStep, CreateStep, ResumeStep, BeginDeleteStep, EndDeleteStep,
     NotifyStep, AssignStep, EndAssignStep DEF Next, Sync, Fail
<1>. QED
  BY <1>1, <1>2, FromKept

\* A run that ends leaves nothing to be remembered of it.
LEMMA NoProgress == run' = NoRun => Progress'
BY DEF Progress, Synchronised, Cleared, Covered, NoRun

LEMMA FinishInv ==
  ASSUME Inv, Finish
  PROVE  Inv'
<1>1. TypeOK'
  BY NextType DEF Inv, Sync, Next, Finish
<1>2. /\ run' = NoRun /\ run'.pc = "idle" /\ version \in Versions
      /\ run.want = version /\ ~Stored
      /\ UNCHANGED <<version, target, notified, assigned>>
  BY DEF Inv, TypeOK, Finish, Working, server, NoRun
<1>3. CASE run.failed
  BY <1>1, <1>2, <1>3, NoProgress
     DEF Inv, Progress, Finish, Checksum, Working, Past, StoredIsProvisioned,
         Stored
<1>4. CASE ~run.failed
  <2>1. Provisioned(version)
    BY <1>2, <1>4, AllRight DEF Inv, Cleared, Covered, Provisioned, Finish
  <2>2. Provisioned(version)'
    BY <1>2, <2>1 DEF Provisioned, Expected
  <2>3. stored' = Hash(version)
    BY <1>4 DEF Finish, Checksum
  <2>4. version <= version
    BY <1>2, VersionsAssumption
  <2>5. Past' /\ StoredIsProvisioned' /\ Working'
    BY <1>2, <2>2, <2>3, <2>4 DEF Past, StoredIsProvisioned, Working
  <2>. QED
    BY <1>1, <1>2, <2>5, NoProgress DEF Inv, Progress
<1>. QED
  BY <1>3, <1>4

LEMMA CrashInv ==
  ASSUME Inv, Crash
  PROVE  Inv'
<1>1. TypeOK'
  BY NextType DEF Inv, Fail, Next
<1>2. /\ run' = NoRun /\ run'.pc = "idle" /\ ~Stored
      /\ UNCHANGED <<version, stored>>
  BY DEF Inv, Crash, Working, NoRun
<1>. QED
  BY <1>1, <1>2, NoProgress
     DEF Inv, Progress, Working, Past, StoredIsProvisioned, Stored

LEMMA StartInv ==
  ASSUME Inv, Start
  PROVE  Inv'
<1>1. TypeOK'
  BY NextType DEF Inv, Next
<1>2. /\ run' = [NoRun EXCEPT !.pc = "sync", !.want = version, !.seen = target,
                              !.todo = Expected(version)]
      /\ ~Stored /\ UNCHANGED <<version, stored, target>>
  BY DEF Start, server, Stored
<1>3. Synchronised'
  BY <1>2, ExpectedType DEF Synchronised, Right, Want, Orphan, Expected, NoRun
<1>4. Working' /\ Past' /\ StoredIsProvisioned'
  BY <1>2 DEF Inv, Working, Past, StoredIsProvisioned, Stored, NoRun
<1>. QED
  BY <1>1, <1>2, <1>3, <1>4 DEF Inv, Cleared, Covered, NoRun

LEMMA DeployInv ==
  ASSUME Inv, InOrder, Deploy
  PROVE  Inv'
<1>1. TypeOK'
  BY NextType DEF Inv, Next
<1>2. /\ run.pc = "idle" /\ version \in Versions /\ version' \in Versions
      /\ version < version' /\ UNCHANGED <<stored, server, run>>
  BY DEF Inv, TypeOK, InOrder, Deploy
<1>3. Synchronised' /\ Cleared' /\ Covered' /\ Working'
  BY <1>2 DEF Synchronised, Cleared, Covered, Working
<1>4. Past'
  BY <1>2, VersionsAssumption DEF Inv, Past
<1>5. ASSUME stored = Hash(version')
      PROVE  Stored
  <2>1. PICK v \in Versions : v <= version /\ stored = Hash(v)
    BY <1>2, <1>5, HashAssumption DEF Inv, Past
  <2>2. v = version \/ v < version
    BY <1>2, <2>1, VersionsAssumption
  <2>. QED
    BY <1>2, <1>5, <2>1, <2>2 DEF InOrder, Stored
<1>6. StoredIsProvisioned'
  BY <1>2, <1>5
     DEF Inv, StoredIsProvisioned, Stored, Provisioned, Expected, server
<1>. QED
  BY <1>1, <1>3, <1>4, <1>6 DEF Inv

LEMMA NextInv == InOrder /\ Inv /\ [Next]_vars => Inv'
<1> SUFFICES ASSUME InOrder, Inv, [Next]_vars
             PROVE  Inv'
  OBVIOUS
<1>1. CASE Next
  BY <1>1, WithinRun, FinishInv, CrashInv, StartInv, DeployInv
<1>2. CASE UNCHANGED vars
  BY <1>2
     DEF Inv, TypeOK, Synchronised, Cleared, Covered, Working, Past, Stored,
         StoredIsProvisioned, Provisioned, Right, Orphan, Want, Expected, vars
<1>. QED
  BY <1>1, <1>2

\* As long as catalogs are deployed in their order, a stored checksum means
\* that the server is provisioned, whatever calls fail and runs are killed.
THEOREM StoredIsAlwaysProvisioned ==
  ASSUME InOrder
  PROVE  Spec => []StoredIsProvisioned
<1>1. Inv /\ [Next]_vars => Inv'
  BY NextInv
<1>. QED
  BY <1>1, InitInv, PTL DEF Spec, Inv

-----------------------------------------------------------------------------
(* No monitor of the catalog is deleted                                    *)

\* A run works for the catalog on the host, and deletes what is not in it.
Orderly ==
  /\ TypeOK
  /\ run.pc # "idle" => run.want = version
  /\ run.pc = "delete" => \A n \in run.todo : Want(n) = None

LEMMA InitOrderly == Init => Orderly
BY InitType DEF Init, Orderly, NoRun

\* A step within a run neither changes the catalog nor adds to what is to be
\* deleted, but when it begins to delete.
LEMMA SameCatalog ==
  ASSUME TypeOK, Next, ~Deploy, ~Start, ~Finish, ~Crash, ~BeginDelete
  PROVE  /\ run.pc # "idle" /\ run'.want = run.want /\ version' = version
         /\ run'.pc = "delete" => run.pc = "delete" /\ run'.todo \subseteq run.todo
<1>1. run \in RunRecord
  BY DEF TypeOK
<1>2. CASE \E n \in Names : SkipMonitor(n) \/ UpdateMonitor(n) \/ DeleteMonitor(n)
  BY <1>1, <1>2
     DEF RunRecord, SkipMonitor, UpdateMonitor, DeleteMonitor, MayUpdate, Synced
<1>3. CASE \E n \in Names : UpdateFails(n) \/ CreateFails(n) \/ DeleteFails(n)
  BY <1>1, <1>3
     DEF RunRecord, UpdateFails, CreateFails, DeleteFails, MayUpdate, MayCreate,
         NotSynced
<1>4. CASE \E n \in Names : CreateMonitor(n)
  BY <1>1, <1>4 DEF RunRecord, CreateMonitor, MayCreate
<1>5. CASE ResumeMonitor \/ ResumeFails
  BY <1>1, <1>5 DEF RunRecord, ResumeMonitor, ResumeFails, EndCreate
<1>6. CASE EndDelete \/ Notify \/ NotifyFails
  BY <1>1, <1>6 DEF RunRecord, EndDelete, Notify, NotifyFails
<1>7. CASE \E u \in Uses : Assign(u) \/ AssignFails(u)
  BY <1>1, <1>7 DEF RunRecord, Assign, AssignFails
<1>8. CASE EndAssign \/ KeyRejected
  BY <1>1, <1>8 DEF RunRecord, EndAssign, KeyRejected
<1>. QED
  BY <1>2, <1>3, <1>4, <1>5, <1>6, <1>7, <1>8 DEF Next, Sync, Fail

LEMMA NextOrderly == Orderly /\ [Next]_vars => Orderly'
<1> SUFFICES ASSUME Orderly, [Next]_vars
             PROVE  Orderly'
  OBVIOUS
<1>1. TypeOK'
  BY NextType DEF Orderly
<1>2. CASE Deploy
  BY <1>1, <1>2 DEF Orderly, Deploy
<1>3. CASE Start
  BY <1>1, <1>3 DEF Orderly, Start, NoRun
<1>4. CASE Finish \/ Crash
  BY <1>1, <1>4 DEF Orderly, Finish, Crash, NoRun
<1>5. CASE BeginDelete
  BY <1>1, <1>5
     DEF Orderly, TypeOK, RunRecord, BeginDelete, Orphans, Orphan, Want
<1>6. CASE Next /\ ~Deploy /\ ~Start /\ ~Finish /\ ~Crash /\ ~BeginDelete
  BY <1>1, <1>6, SameCatalog DEF Orderly, Want
<1>7. CASE UNCHANGED vars
  BY <1>1, <1>7 DEF Orderly, Want, vars
<1>. QED
  BY <1>2, <1>3, <1>4, <1>5, <1>6, <1>7

\* What a step may do to what a monitor watches.
LEMMA TargetStep ==
  ASSUME Orderly, Next, NEW n \in Names
  PROVE  \/ target'[n] = target[n]
         \/ target'[n] = Want(n)
<1>1. CASE \E k \in Names : UpdateMonitor(k) \/ CreateMonitor(k)
  BY <1>1 DEF Orderly, TypeOK, UpdateMonitor, CreateMonitor, SetTarget
<1>2. CASE \E k \in Names : UpdateFails(k) \/ CreateFails(k)
  BY <1>2 DEF Orderly, TypeOK, UpdateFails, CreateFails, SetTarget, server
<1>3. CASE \E k \in Names : DeleteMonitor(k) \/ DeleteFails(k)
  BY <1>3 DEF Orderly, TypeOK, DeleteMonitor, DeleteFails, Removed, server
<1>4. CASE UNCHANGED target
  BY <1>4
<1>5. CASE \E k \in Names : SkipMonitor(k)
  BY <1>5 DEF SkipMonitor, server
<1>6. CASE \E u \in Uses : Assign(u) \/ AssignFails(u)
  BY <1>6 DEF Assign, AssignFails
<1>. QED
  BY <1>1, <1>2, <1>3, <1>4, <1>5, <1>6
     DEF Next, Deploy, Start, Sync, Fail, ResumeMonitor, ResumeFails,
         BeginDelete, EndDelete, Notify, NotifyFails, EndAssign, KeyRejected,
         Finish, Crash, server

\* Whatever fails, no run deletes a monitor that the catalog on the host has.
THEOREM ExpectedIsAlwaysKept == Spec => ExpectedIsKept
<1>1. Orderly /\ [Next]_vars =>
        [\A n \in Expected(version) :
           target[n] # None => target'[n] # None]_vars
  <2> SUFFICES ASSUME Orderly, Next, NEW n \in Expected(version),
                      target[n] # None
               PROVE  target'[n] # None
    OBVIOUS
  <2>1. n \in Names
    BY DEF Expected
  <2>2. run.pc = "idle" => UNCHANGED target
    BY DEF Orderly, TypeOK, NoRun, Next, Deploy, Start, Sync, Fail, SkipMonitor,
           UpdateMonitor, MayUpdate, CreateMonitor, MayCreate, DeleteMonitor,
           ResumeMonitor, BeginDelete, EndDelete, Notify, EndAssign, Assign,
           Finish, UpdateFails, CreateFails, DeleteFails, ResumeFails,
           NotifyFails, KeyRejected, Crash, AssignFails, server
  <2>3. CASE run.pc # "idle"
    BY <2>1, <2>3, TargetStep DEF Orderly, Want, Expected
  <2>. QED
    BY <2>2, <2>3
<1>. QED
  BY <1>1, InitOrderly, NextOrderly, PTL DEF Spec, ExpectedIsKept
=============================================================================
