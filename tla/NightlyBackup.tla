---------------------------- MODULE NightlyBackup ----------------------------
(***************************************************************************)
(* The nightly backup of a host (templates/backup/backup.sh.epp): for each *)
(* service a dump or a copy of its volume, which pCloud, ugreen and the WD *)
(* Cloud then mirror, and for some a dated copy on pCloud that is kept for *)
(* as long as Retention says.                                              *)
(*                                                                         *)
(* A copy is None, Torn, or Whole, of whatever night.  A mirror is made    *)
(* the same as what is there, whole or not.                                *)
(***************************************************************************)
EXTENDS TornFile, Retention

CONSTANTS
  Whole,
  Order,        \* the services, in the order of the script
  Hooked,       \* those with a pre-hook that writes a dump, and a post-hook
  Dated,        \* those with a history
  LastDay,      \* bound: days
  MaxFaults     \* bound: commands that fail, and runs that are cut off

ASSUME OrderAssumption == Order \in Seq(Range(Order)) /\ Order # <<>>

VARIABLES
  today,
  job,          \* the run: [at, stamp, next, bad, failed, reachable], and
                \* the day of the last summary
  local,        \* the dump or the copy of the volume on the host
  mirrors,      \* the mirrors of it
  dated,        \* the history: stamp |-> copies of the services
  made,         \* stamps that were ever in the history
  warnings,     \* runs since the service was last reported as backed up
  faults

backupVars == <<today, job, local, mirrors, dated, made, warnings, faults>>

Services == Range(Order)
Places == {"pcloud", "ugreen", "wd"}
NoCopy == [s \in Services |-> None]
Idle(stamp, told) == [at |-> "idle", stamp |-> stamp, next |-> 1, bad |-> FALSE,
                      failed |-> {}, reachable |-> FALSE, told |-> told]
Service == Order[job.next]

NightlyInit ==
  /\ today = 0 /\ job = Idle(-1, None) /\ local = NoCopy
  /\ mirrors = [p \in Places |-> NoCopy]
  /\ dated = <<>> /\ made = {} /\ faults = 0
  /\ warnings = [s \in Services |-> None]

Works == UNCHANGED faults
Fails(n) == faults + n <= MaxFaults /\ faults' = faults + n

-----------------------------------------------------------------------------
(* A run                                                                   *)

NextDay ==
  /\ job.at = "idle" /\ today < LastDay /\ today' = today + 1
  /\ UNCHANGED <<job, local, mirrors, dated, made, warnings, faults>>

\* The timer, or an operator: TIMESTAMP is the time of the start.
StartNight ==
  /\ job.at = "idle"
  /\ LET stamp == Max({job.stamp + 1, today * RunsPerDay})
     IN DayOf(stamp) = today /\ job' = [Idle(stamp, job.told) EXCEPT !.at = "probe"]
  /\ UNCHANGED <<today, local, mirrors, dated, made, warnings, faults>>

\* probe_ugreen
Probe ==
  /\ job.at = "probe"
  /\ \/ Works /\ job' = [job EXCEPT !.at = "local", !.reachable = TRUE]
     \/ Fails(1) /\ job' = [job EXCEPT !.at = "local"]
  /\ UNCHANGED <<today, local, mirrors, dated, made, warnings>>

\* run_pre_hook, or the rsync of backup_volume.  A dump that fails is cut
\* off, and backup_path goes on with what there is; a volume that fails is
\* left out.
ToLocal ==
  /\ job.at = "local"
  /\ \/ /\ Works
        /\ local' = [local EXCEPT ![Service] = Whole]
        /\ job' = [job EXCEPT !.at = "pcloud"]
     \/ /\ Fails(1)
        /\ \E copy \in {local[Service], Torn} : local' = [local EXCEPT ![Service] = copy]
        /\ job' = [job EXCEPT !.bad = TRUE,
                              !.at = IF Service \in Hooked /\ local'[Service] # None
                                     THEN "pcloud" ELSE "dated"]
  /\ UNCHANGED <<today, mirrors, dated, made, warnings>>

\* rclone sync to pCloud, the one mirror that counts.
ToPcloud ==
  /\ job.at = "pcloud"
  /\ \/ /\ Works
        /\ mirrors' = [mirrors EXCEPT !["pcloud"][Service] = local[Service]]
        /\ job' = [job EXCEPT !.at = "mirrors"]
     \/ /\ Fails(1)
        /\ \E copy \in {mirrors["pcloud"][Service], Torn} :
             mirrors' = [mirrors EXCEPT !["pcloud"][Service] = copy]
        /\ job' = [job EXCEPT !.bad = TRUE, !.at = "dated"]
  /\ UNCHANGED <<today, local, dated, made, warnings>>

\* sync_to_ugreen, sync_to_wdcloud: a failure is only a line in the log.
ToMirrors ==
  /\ job.at = "mirrors"
  /\ LET tried == {"wd"} \cup IF job.reachable THEN {"ugreen"} ELSE {}
     IN \E failing \in SUBSET tried :
          /\ Fails(Cardinality(failing))
          /\ mirrors' = [p \in Places |->
               [mirrors[p] EXCEPT ![Service] = IF p \in failing THEN Torn
                                               ELSE IF p \in tried THEN local[Service]
                                               ELSE @]]
  /\ job' = [job EXCEPT !.at = "dated"]
  /\ UNCHANGED <<today, local, dated, made, warnings>>

\* history_path, history_volume: a source that is missing and a copy that
\* fails are failures of the service.
DatedCopy(copy) ==
  LET before == IF job.stamp \in DOMAIN dated THEN dated[job.stamp] ELSE NoCopy
  IN [t \in DOMAIN dated \cup {job.stamp} |->
        IF t = job.stamp THEN [before EXCEPT ![Service] = copy] ELSE dated[t]]

ToHistory ==
  /\ job.at = "dated" /\ Service \in Dated
  /\ \/ /\ Works /\ local[Service] # None
        /\ dated' = DatedCopy(local[Service])
        /\ job' = [job EXCEPT !.at = "hook"]
     \/ /\ \/ local[Service] = None /\ Works /\ UNCHANGED dated
           \/ local[Service] # None /\ Fails(1) /\ dated' \in {dated, DatedCopy(Torn)}
        /\ job' = [job EXCEPT !.bad = TRUE, !.at = "hook"]
  /\ made' = made \cup DOMAIN dated'
  /\ UNCHANGED <<today, local, mirrors, warnings>>

NoHistory ==
  /\ job.at = "dated" /\ Service \notin Dated
  /\ job' = [job EXCEPT !.at = "hook"]
  /\ UNCHANGED <<today, local, mirrors, dated, made, warnings, faults>>

\* mutant: the verdict on the service is overwritten by that on its hook
HookCounts(bad) == IF bad /\ ~job.bad THEN job.failed \cup {Service} ELSE job.failed
Counted(bad) == IF bad THEN job.failed \cup {Service} ELSE job.failed

\* run_post_hook removes the dump, and the service is counted.
EndService ==
  /\ job.at = "hook"
  /\ \E removed \in IF Service \in Hooked THEN BOOLEAN ELSE {TRUE} :
       /\ IF removed THEN Works ELSE Fails(1)
       /\ local' = IF removed /\ Service \in Hooked
                   THEN [local EXCEPT ![Service] = None] ELSE local
       /\ job' = [job EXCEPT !.failed = Counted(job.bad \/ ~removed), !.bad = FALSE,
                             !.at = IF job.next = Len(Order) THEN "prune" ELSE "local",
                             !.next = IF job.next = Len(Order) THEN @ ELSE @ + 1]
  /\ UNCHANGED <<today, mirrors, dated, made, warnings>>

-----------------------------------------------------------------------------
(* The end of a run                                                        *)

Without(stamps) == [t \in DOMAIN dated \ stamps |-> dated[t]]

\* prune_history purges from the newest to the oldest, and gives up when one
\* purge fails; that one may be half done.
Prune ==
  /\ job.at = "prune"
  /\ LET expired == Expired(DOMAIN dated)
     IN \/ Works /\ dated' = Without(expired)
        \/ /\ Fails(1)
           /\ \E t \in expired, half \in BOOLEAN :
                LET left == Without({u \in expired : u > t})
                IN dated' = IF half THEN [left EXCEPT ![t] = [s \in Services |-> Torn]]
                            ELSE left
        \/ Fails(1) /\ UNCHANGED dated
  /\ job' = [job EXCEPT !.at = "summary"]
  /\ UNCHANGED <<today, local, mirrors, made, warnings>>

\* The summary, which the health report reads.
Summary ==
  /\ job.at = "summary"
  /\ warnings' = [s \in Services |-> IF s \notin job.failed THEN 0
                                     ELSE IF warnings[s] = None THEN None
                                     ELSE warnings[s] + 1]
  /\ job' = Idle(job.stamp, today)
  /\ UNCHANGED <<today, local, mirrors, dated, made, faults>>

\* The unit is stopped after three hours, the host goes down, or set -e ends
\* the script (the rmdir of probe_ugreen).  A log without a summary is
\* reported; but a day has one log, and the summary of an earlier run hides
\* the one that died: what was said of the services is void then.
Dies ==
  /\ job.at # "idle" /\ Fails(1)
  /\ warnings' = [s \in Services |-> IF warnings[s] = None \/ job.told = today THEN None
                                     ELSE warnings[s] + 1]
  /\ job' = Idle(job.stamp, job.told)
  /\ UNCHANGED <<today, local, mirrors, dated, made>>

NightlyNext ==
  \/ NextDay \/ StartNight \/ Probe
  \/ ToLocal \/ ToPcloud \/ ToMirrors \/ ToHistory \/ NoHistory \/ EndService
  \/ Prune \/ Summary \/ Dies

NightlySpec == NightlyInit /\ [][NightlyNext]_backupVars
-----------------------------------------------------------------------------
\* "The newest snapshot for each of the daily, weekly and monthly buckets":
\* however runs fail, are cut off, repeated or left out, each stamp that was
\* ever in the history still has a copy at least as new in its own day, week
\* and month, or as many newer days, weeks or months have one as are kept.
HistoryReachesBack ==
  \A t \in made, i \in DOMAIN Tiers :
    LET newer == {u \in DOMAIN dated : u >= t}
    IN \/ \E u \in newer : Bucket(i, u) = Bucket(i, t)
       \/ Cardinality({Bucket(i, u) : u \in newer}) >= Tiers[i].quota

WholeSomewhere(s) ==
  \/ \E p \in Places : mirrors[p][s] = Whole
  \/ \E t \in DOMAIN dated : dated[t][s] = Whole

\* A service that was reported as backed up has a whole copy somewhere, until
\* a later run is known to have failed; and until as many are as there are
\* tiers, when it has a history.  One bad dump is enough to spoil every
\* mirror, and the remains of a bad night count for the retention as much as
\* a whole one.
LossIsAnnounced ==
  job.at = "idle" =>
    \A s \in Services :
      warnings[s] # None /\ ~WholeSomewhere(s) =>
        warnings[s] >= IF s \in Dated THEN Len(Tiers) ELSE 1
=============================================================================
