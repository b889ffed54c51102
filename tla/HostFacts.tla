----------------------------- MODULE HostFacts -----------------------------
(***************************************************************************)
(* The ssh_facts collector, healthreport/collectors/sshfacts.go.  Every    *)
(* host runs homelab-facts.py, which answers with named sections.  A       *)
(* section is None when the script reports it as failed (its data is null  *)
(* then), and absent when the host has no such section.                    *)
(*                                                                         *)
(* An observation is <<kind, subject, part, value>>; the first three are   *)
(* its ID.  Ages are in days, and None is a value the script left out.     *)
(***************************************************************************)
EXTENDS Observations

CONSTANTS
  KnownPaths    \* backup sources and excluded paths of the configuration

\* crowdsecWatchedMachines: the agents without a local API.
WatchedMachines == {"nuc", "nas"}
IntegrityMaxAge == 8
RestoreMaxAge == 35

\* section(): the data of a section that is there and has not failed.
Data(sections, name) ==
  IF name \in DOMAIN sections THEN {sections[name]} \ {None} ELSE {}

\* numOr: a missing number counts as the default.
NumOr(v, default) == IF v = None THEN default ELSE v

\* verificationStale: a stamp that does not parse is as bad as an old one.
VerificationStale(age, max) == age = None \/ age > max

-----------------------------------------------------------------------------
(* rockyObservations                                                       *)

SecurityUpdates(host, s) ==
  UNION {{<<"security_updates", host, "", u.count>>} \cup
         When(u.reboot, {<<"reboot_required", host, "", TRUE>>})
         : u \in Data(s, "security_updates")}

CrowdsecAgents(host, c) ==
  {<<"crowdsec_agent_stale", host, id, TRUE>> :
     id \in {m \in DOMAIN c.machines \cap WatchedMachines :
               VerificationStale(c.machines[m], 0)}}

Crowdsec(host, s) ==
  UNION {IF ~c.available THEN {<<"crowdsec_absent", host, "", TRUE>>}
         ELSE {<<"crowdsec_decisions", host, "", c.decisions>>}
              \cup {<<"crowdsec_bouncer", host, b, ~c.bouncers[b].revoked>> :
                      b \in DOMAIN c.bouncers}
              \cup CrowdsecAgents(host, c)
         : c \in Data(s, "crowdsec")}

\* The number of rules, unless nft itself failed inside the section.
Firewall(host, s) ==
  {<<"firewall_rules", host, "", n.rules>> :
     n \in {d \in Data(s, "nftables") : ~d.error}}

\* A target without a quota, or that could not be asked, has no usage.
BackupTargets(host, s) ==
  UNION {{<<"backup_target_usage", host, t, d[t].used>> :
            t \in {x \in DOMAIN d : d[x].quota /\ d[x].used # None}}
         : d \in Data(s, "backup_targets")}

KernelErrors(host, s) ==
  {<<"kernel_storage_errors", host, "", k.serious>> :
     k \in {d \in Data(s, "kernel_errors") : d.available /\ d.serious > 0}}

Clock(host, s) ==
  UNION {IF ~c.synchronised THEN {<<"time_unsynchronised", host, "", TRUE>>}
         ELSE When(c.offset # None, {<<"time_offset", host, "", c.offset>>})
         : c \in {d \in Data(s, "time_sync") : d.available}}

BackupAge(b) == {NumOr(b.age, 0)}

\* The newest log of the nightly backup: a summary, or none yet, or none.
BackupLog(host, s) ==
  UNION {IF ~b.available THEN {<<"backup_missing", host, "", TRUE>>}
         ELSE {<<"backup_age", host, "", a>> : a \in BackupAge(b)} \cup
              (IF b.completed
               THEN {<<"backup_failures", host, "", b.critical>>} \cup
                    {<<"backup_service_failed", host, f, TRUE>> : f \in b.failed}
               ELSE IF b.running THEN {<<"backup_in_progress", host, "", TRUE>>}
               ELSE {<<"backup_incomplete", host, "", TRUE>>})
         : b \in Data(s, "backup")}

\* One mode of the verification, integrity or restore.
Verification(host, kind, stale, check, maxAge) ==
  {<<kind, host, "", check.state>>} \cup
  When(VerificationStale(check.at, maxAge), {<<stale, host, "", TRUE>>})

\* A status file of version 1 has the result of the integrity mode only, and
\* at its top level.
BackupVerification(host, s) ==
  UNION {LET integrity == IF v.integrity = None THEN v.top ELSE v.integrity
             failed == \/ integrity.state = "failed"
                       \/ v.restore # None /\ v.restore.state = "failed"
         IN Verification(host, "backup_verification", "backup_verification_stale",
                         integrity, IntegrityMaxAge)
            \cup (IF v.restore = None
                  THEN {<<"backup_restore_verification_stale", host, "", TRUE>>}
                  ELSE Verification(host, "backup_restore_verification",
                                    "backup_restore_verification_stale",
                                    v.restore, RestoreMaxAge))
            \cup When(failed, {<<"backup_verification_failed", host, "", TRUE>>})
         : v \in {d \in Data(s, "backup_verification") : d.available}}

RockyObservations(host, s) ==
  SecurityUpdates(host, s) \cup Crowdsec(host, s) \cup Firewall(host, s)
  \cup BackupTargets(host, s) \cup KernelErrors(host, s) \cup Clock(host, s)
  \cup BackupLog(host, s) \cup BackupVerification(host, s)

-----------------------------------------------------------------------------
(* ugreenObservations and unraidObservations                               *)

UgreenObservations(host, s) ==
  (UNION {{<<"backup_history", host, "", h.state>>} \cup
          When(h.state # "ready", {<<"backup_history_failed", host, "", h.state>>})
          : h \in Data(s, "backup_history")})
  \cup UNION {{<<"mdraid_degraded", host, a, TRUE>> : a \in u.degraded} \cup
              {<<"lvm_usage", host, v, u.lvm[v]>> :
                 v \in {x \in DOMAIN u.lvm : u.lvm[x] # None}}
              : u \in Data(s, "ugreen_storage")}

UnraidArray(host, s) ==
  UNION {{<<"array_state", host, "", a.state>>,
          <<"parity_sync_errors", host, "", NumOr(a.errors, 0)>>} \cup
         {<<"parity_check_age", host, "", age>> : age \in {a.age} \ {None, 0}} \cup
         {<<"array_disk", host, d, a.disks[d]>> : d \in DOMAIN a.disks}
         : a \in Data(s, "unraid_array")}

\* unraid_smart is read only where there is no smart section.  A device that
\* smartctl could not read (None) is passed over.
SmartData(s) ==
  IF Data(s, "smart") # {} THEN Data(s, "smart") ELSE Data(s, "unraid_smart")
SmartFields == {"reallocated_sectors", "pending_sectors"}
Smart(host, s) ==
  UNION {{<<x[1], host, x[2], devices[x[2]][x[1]]>> :
            x \in {y \in SmartFields \X DOMAIN devices :
                     devices[y[2]] # None /\ devices[y[2]][y[1]] # None}}
         : devices \in SmartData(s)}

DockerImage(host, s) ==
  {<<"docker_image_usage", host, "", d>> : d \in Data(s, "unraid_docker_image")}

\* The latest time stamp of some notes; 0 is a stamp that is missing.
Latest(notes) ==
  IF notes = {} THEN 0
  ELSE CHOOSE t \in {n.at : n \in notes} : \A n \in notes : n.at <= t

\* A warning is gone once a normal note of the same event is not older.
Superseded(notes, event, importance) ==
  /\ importance # "normal"
  /\ Latest({n \in notes : n.event = event /\ n.importance = "normal"})
       >= Latest({n \in notes : n.event = event /\ n.importance = importance})

\* Unread notifications, one observation for each event and importance.
Notifications(host, s) ==
  UNION {{<<"unraid_notification", host, <<n.event, n.importance>>, n.importance>> :
            n \in {x \in notes : ~Superseded(notes, x.event, x.importance)}}
         : notes \in Data(s, "unraid_notifications")}

\* Directories that are in no backup: the children of each watched directory
\* that could be read (paths are pairs here).
BackupDrift(host, s) ==
  UNION {{<<"backup_drift", host, p, TRUE>> :
            p \in UNION {{<<b, c>> : c \in w[b]} : b \in {x \in DOMAIN w : w[x] # None}}
                  \ (KnownPaths \cup {<<b, "">> : b \in DOMAIN w})}
         : w \in Data(s, "watched_dirs")}

UnraidObservations(host, s) ==
  UnraidArray(host, s) \cup Smart(host, s) \cup DockerImage(host, s)
  \cup Notifications(host, s) \cup BackupDrift(host, s)

-----------------------------------------------------------------------------
SectionsSilent(host, s) == {}   \* mutant: failed sections are not looked for
SectionsFailed(host, s) ==
  {<<"facts_section_failed", host, n, TRUE>> :
     n \in {x \in DOMAIN s : s[x] = None}}

\* fetchFacts: None when ssh, the script or its output fails.
HostObservations(host, sections) ==
  IF sections = None THEN {<<"facts_unreachable", host, "", TRUE>>}
  ELSE RockyObservations(host, sections) \cup UnraidObservations(host, sections)
       \cup UgreenObservations(host, sections) \cup SectionsFailed(host, sections)

\* collectSSHFacts: one host that answers is enough for status ok.
CollectSSHFacts(hosts) ==
  IF DOMAIN hosts = {} THEN Unavailable
  ELSE [status |-> IF \A h \in DOMAIN hosts : hosts[h] = None THEN "error" ELSE "ok",
        obs |-> UNION {HostObservations(h, hosts[h]) : h \in DOMAIN hosts}]
=============================================================================
