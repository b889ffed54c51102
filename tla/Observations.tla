---------------------------- MODULE Observations ----------------------------
(***************************************************************************)
(* What the collectors of the health report have in common                 *)
(* (healthreport/run.go, healthreport/collectors/base.go).  A collector    *)
(* returns a status and observations <<kind, subject, part, value>>.       *)
(* The answer of a request is None when the request fails.                 *)
(***************************************************************************)
EXTENDS Integers, Sequences, FiniteSets

CONSTANT None

When(condition, set) == IF condition THEN set ELSE {}

Id(obs) == <<obs[1], obs[2], obs[3]>>

Ok(observations) == [status |-> "ok", obs |-> observations]
Unavailable == [status |-> "unavailable", obs |-> {}]

\* RunCollector: whatever a collector had gathered before it panics is gone.
Panicked == [status |-> "error", obs |-> {}]

\* httpGet and the decoding after it: any of the requests fails the collector.
AllAnswered(a, requests) == \A q \in requests : a[q] # None

\* CollectorHealth, for one collector.
CollectorHealth(name, result) ==
  When(result.status # "ok", {<<"collector_failed", name, "", result.status>>})

\* WdCloudBackupTargetUsage, over the observations of all collectors: the
\* usage of the target without a quota is that of the disk behind it.  (The
\* code would not add it next to one of kind "wd_cloud", which no collector
\* makes.)
WdCloudBackupTargetUsage(obs) ==
  {<<"backup_target_usage", "nas", "wd-cloud", o[4]>> :
     o \in {d \in obs : d[1] = "disk_usage" /\ d[2] = "wd-mycloud" /\ d[3] = "/mnt/HD/HD_a2"}}
=============================================================================
