--------------------------- MODULE KumaProvision ----------------------------
(***************************************************************************)
(* Provisioning of the Uptime Kuma server from the services catalog: a     *)
(* deployment puts services.yml on the host and, unless the stored         *)
(* checksum is that of the catalog, runs tools/cmd/provision-kuma, which   *)
(* fetches the monitors, creates, updates and deletes until they are those *)
(* of the catalog, and puts every monitor under the notification and into  *)
(* its maintenance windows and status pages.                               *)
(*                                                                         *)
(* A catalog says for every monitor name what is watched, or None.  The    *)
(* checksum is taken of its services alone: a change of the host list does *)
(* not provision.  (It also covers the program, which holds the TCP checks *)
(* and windows.)  Services, hosts and TCP checks are synced alike.  Nobody *)
(* else changes the server, and runs do not overlap.                       *)
(***************************************************************************)
EXTENDS Naturals, FiniteSets

CONSTANTS
  None,
  Names, Targets,
  Hosts,              \* the names of ping monitors
  Versions, Catalog,  \* the catalogs that are deployed, in their order
  Uses, Listed,       \* maintenance windows and status pages, and the names
                      \* each catalog puts there (a window may go by host)
  Rollbacks,          \* whether an earlier catalog may be deployed again
  Faulty, MaxFaults   \* which calls fail, and how often

ASSUME VersionsAssumption == 1 \in Versions /\ Versions \subseteq Nat \ {0}
ASSUME CatalogAssumption ==
  None \notin Targets /\ Catalog \in [Versions -> [Names -> Targets \cup {None}]]
ASSUME NamesAssumption == None \notin Names
ASSUME HostsAssumption == Hosts \subseteq Names
ASSUME ListedAssumption == Listed \in [Versions -> [Uses -> SUBSET Names]]
ASSUME FlagsAssumption == Rollbacks \in BOOLEAN /\ MaxFaults \in Nat

VARIABLES
  version,    \* of the catalog on the host
  stored,     \* .services-checksum, None before the first success
  target,     \* what each monitor of the server watches
  active,     \* monitors that are not paused
  notified,   \* monitors that the notification is on
  assigned,   \* monitors of each window and page
  run, faults

server == <<target, active, notified, assigned>>
vars == <<version, stored, target, active, notified, assigned, run, faults>>

Expected(v) == {n \in Names : Catalog[v][n] # None}
Monitors == {n \in Names : target[n] # None}

Services == Names \ Hosts
Hash(v) == <<[n \in Services |-> Catalog[v][n]], Listed[v]>>

ASSUME HashAssumption == \A v \in Versions : Hash(v) # None

NoRun == [pc |-> "idle", want |-> 1, seen |-> [n \in Names |-> None],
          todo |-> {}, left |-> {}, new |-> None, failed |-> FALSE]

Fault(kind) ==
  /\ kind \in Faulty
  /\ faults < MaxFaults
  /\ faults' = faults + 1
-----------------------------------------------------------------------------
(* kuma-provision-check.sh and kuma-provision-apply.sh                      *)

Deploy ==
  /\ run.pc = "idle"
  /\ \E v \in Versions : /\ v # version
                         /\ Rollbacks \/ v > version
                         /\ version' = v
  /\ UNCHANGED <<stored, server, run, faults>>

\* The checksum differs; the program logs in, reads the catalog and lists
\* the monitors.
Start ==
  /\ run.pc = "idle"
  /\ stored # Hash(version)
  /\ run' = [NoRun EXCEPT !.pc = "sync", !.want = version, !.seen = target,
                          !.todo = Expected(version)]
  /\ UNCHANGED <<version, stored, server, faults>>

Checksum == IF run.failed THEN stored ELSE Hash(version)

Finish ==
  /\ run.pc = "done"
  /\ stored' = Checksum
  /\ run' = NoRun
  /\ UNCHANGED <<version, server, faults>>

\* The run is killed, by the exec's timeout or a reboot, or cannot list.
Crash ==
  /\ run.pc # "idle"
  /\ Fault("crash")
  /\ run' = NoRun
  /\ UNCHANGED <<version, stored, server>>
-----------------------------------------------------------------------------
(* syncServiceMonitors, syncPingMonitors, syncTCPMonitors                   *)

Want(n) == Catalog[run.want][n]

Synced(n) == run' = [run EXCEPT !.todo = @ \ {n}]
NotSynced(n) == run' = [run EXCEPT !.todo = @ \ {n}, !.failed = TRUE]

SkipMonitor(n) ==
  /\ run.pc = "sync" /\ n \in run.todo
  /\ run.seen[n] = Want(n)
  /\ Synced(n)
  /\ UNCHANGED <<version, stored, server, faults>>

MayUpdate(n) == run.pc = "sync" /\ n \in run.todo
                /\ run.seen[n] # None /\ run.seen[n] # Want(n)

SetTarget(n) ==
  /\ target' = [target EXCEPT ![n] = Want(n)]
  /\ UNCHANGED <<active, notified, assigned>>

UpdateMonitor(n) ==
  /\ MayUpdate(n)
  /\ SetTarget(n)
  /\ Synced(n)
  /\ UNCHANGED <<version, stored, faults>>

\* A call that fails may have taken effect, or not.
UpdateFails(n) ==
  /\ MayUpdate(n)
  /\ Fault("update")
  /\ SetTarget(n) \/ UNCHANGED server
  /\ NotSynced(n)
  /\ UNCHANGED <<version, stored>>

MayCreate(n) == run.pc = "sync" /\ n \in run.todo /\ run.seen[n] = None

\* Kuma's client creates monitors paused; createAndStart resumes them next.
CreateMonitor(n) ==
  /\ MayCreate(n)
  /\ SetTarget(n)
  /\ run' = [run EXCEPT !.pc = "resume", !.new = n]
  /\ UNCHANGED <<version, stored, faults>>

CreateFails(n) ==
  /\ MayCreate(n)
  /\ Fault("create")
  /\ SetTarget(n) \/ UNCHANGED server
  /\ NotSynced(n)
  /\ UNCHANGED <<version, stored>>

EndCreate(ok) ==
  run' = [run EXCEPT !.pc = "sync", !.new = None, !.todo = @ \ {run.new},
                     !.failed = @ \/ ~ok]

ResumeMonitor ==
  /\ run.pc = "resume"
  /\ active' = active \cup {run.new}
  /\ EndCreate(TRUE)
  /\ UNCHANGED <<version, stored, target, notified, assigned, faults>>

ResumeFails ==
  /\ run.pc = "resume"
  /\ Fault("resume")
  /\ active' \in {active, active \cup {run.new}}
  /\ EndCreate(FALSE)
  /\ UNCHANGED <<version, stored, target, notified, assigned>>
-----------------------------------------------------------------------------
(* deleteOrphanedMonitors                                                  *)

OrphanOnce(n) ==                \* mutant: what was not updated is deleted
  run.seen[n] # None /\ run.seen[n] # Want(n)
Orphan(n) == run.seen[n] # None /\ Want(n) = None
Orphans == {n \in Names : Orphan(n)}

BeginDelete ==
  /\ run.pc = "sync" /\ run.todo = {}
  /\ run' = [run EXCEPT !.pc = "delete", !.todo = Orphans]
  /\ UNCHANGED <<version, stored, server, faults>>

\* The server takes a monitor out of everything it is used in.
Removed(n) ==
  /\ target' = [target EXCEPT ![n] = None]
  /\ active' = active \ {n}
  /\ notified' = notified \ {n}
  /\ assigned' = [u \in Uses |-> assigned[u] \ {n}]

DeleteMonitor(n) ==
  /\ run.pc = "delete" /\ n \in run.todo
  /\ Removed(n)
  /\ Synced(n)
  /\ UNCHANGED <<version, stored, faults>>

DeleteFails(n) ==
  /\ run.pc = "delete" /\ n \in run.todo
  /\ Fault("delete")
  /\ Removed(n) \/ UNCHANGED server
  /\ NotSynced(n)
  /\ UNCHANGED <<version, stored>>
-----------------------------------------------------------------------------
(* monitorIDs, syncNotification, syncMaintenance, syncStatusPages,         *)
(* checkAPIKey                                                             *)

EndDelete ==
  /\ run.pc = "delete" /\ run.todo = {}
  /\ run' = [run EXCEPT !.pc = "notify"]
  /\ UNCHANGED <<version, stored, server, faults>>

NotifyNone == notified          \* mutant: not applied to existing monitors
NotifyAll == Monitors

Notify ==
  /\ run.pc = "notify"
  /\ notified' = NotifyAll
  /\ run' = [run EXCEPT !.pc = "assign", !.left = Uses]
  /\ UNCHANGED <<version, stored, target, active, assigned, faults>>

NotifyFails ==
  /\ run.pc = "notify"
  /\ Fault("notify")
  /\ notified' \in {notified, Monitors}
  /\ run' = [run EXCEPT !.pc = "assign", !.left = Uses, !.failed = TRUE]
  /\ UNCHANGED <<version, stored, target, active, assigned>>

AssignSeen(u) ==                \* mutant: the monitors listed at the start
  {n \in Listed[run.want][u] : run.seen[n] # None /\ target[n] # None}
Members(u) == Listed[run.want][u] \cap Monitors

Assign(u) ==
  /\ run.pc = "assign" /\ u \in run.left
  /\ assigned' = [assigned EXCEPT ![u] = Members(u)]
  /\ run' = [run EXCEPT !.left = @ \ {u}]
  /\ UNCHANGED <<version, stored, target, active, notified, faults>>

AssignFails(u) ==
  /\ run.pc = "assign" /\ u \in run.left
  /\ Fault("assign")
  /\ assigned' \in {assigned, [assigned EXCEPT ![u] = Members(u)]}
  /\ run' = [run EXCEPT !.left = @ \ {u}, !.failed = TRUE]
  /\ UNCHANGED <<version, stored, target, active, notified>>

EndAssign ==
  /\ run.pc = "assign" /\ run.left = {}
  /\ run' = [run EXCEPT !.pc = "done"]
  /\ UNCHANGED <<version, stored, server, faults>>

KeyRejected ==
  /\ run.pc = "assign" /\ run.left = {}
  /\ Fault("key")
  /\ run' = [run EXCEPT !.pc = "done", !.failed = TRUE]
  /\ UNCHANGED <<version, stored, server>>
-----------------------------------------------------------------------------
\* The server was set up by hand, or is new.
Init ==
  /\ version = 1
  /\ stored = None
  /\ target \in [Names -> Targets \cup {None}]
  /\ active = Monitors
  /\ notified \in {{}, Monitors}
  /\ assigned = [u \in Uses |-> {}]
  /\ run = NoRun
  /\ faults = 0

Sync ==
  \/ \E n \in Names : SkipMonitor(n) \/ UpdateMonitor(n) \/ CreateMonitor(n)
                      \/ DeleteMonitor(n)
  \/ ResumeMonitor \/ BeginDelete \/ EndDelete
  \/ Notify \/ EndAssign
  \/ \E u \in Uses : Assign(u)
  \/ Finish

Fail ==
  \/ \E n \in Names : UpdateFails(n) \/ CreateFails(n) \/ DeleteFails(n)
  \/ ResumeFails \/ NotifyFails \/ KeyRejected \/ Crash
  \/ \E u \in Uses : AssignFails(u)

Next == Deploy \/ Start \/ Sync \/ Fail

Spec == Init /\ [][Next]_vars

\* A run goes on, and configurations are applied again and again.
FairSpec == Spec /\ WF_vars(Sync) /\ WF_vars(Start)
-----------------------------------------------------------------------------
(* Properties                                                              *)

RunRecord ==
  [pc: {"idle", "sync", "resume", "delete", "notify", "assign", "done"},
   want: Versions, seen: [Names -> Targets \cup {None}], todo: SUBSET Names,
   left: SUBSET Uses, new: Names \cup {None}, failed: BOOLEAN]

TypeOK ==
  /\ version \in Versions
  /\ stored \in {Hash(v) : v \in Versions} \cup {None}
  /\ target \in [Names -> Targets \cup {None}]
  /\ active \subseteq Names /\ notified \subseteq Names
  /\ assigned \in [Uses -> SUBSET Names]
  /\ run \in RunRecord
  /\ run.pc = "idle" => run = NoRun
  /\ run.pc = "resume" <=> run.new # None
  /\ run.pc \notin {"sync", "resume", "delete"} => run.todo = {}
  /\ faults \in 0..MaxFaults

Provisioned(v) ==
  /\ target = Catalog[v]
  /\ notified = Expected(v)
  /\ \A u \in Uses : assigned[u] = Listed[v][u] \cap Expected(v)

Stored == stored = Hash(version)

\* When the stored checksum is that of the catalog, so that the next apply
\* passes provisioning over, the server is what a catalog with these services
\* says: exactly its monitors, all under the notification and in their windows
\* and pages.  Of the hosts this says no more than that they were right once.
StoredIsProvisioned ==
  Stored => \E v \in Versions : Hash(v) = Hash(version) /\ Provisioned(v)

\* kuma-provision-apply.sh: a failed run is retried and not marked done.  So
\* when it is done, every monitor of the services checks something.
StoredIsWatching == Stored => Expected(version) \cap Services \subseteq active

\* A monitor of the catalog on the host is never deleted, nor recreated.
ExpectedIsKept ==
  [][\A n \in Expected(version) : target[n] # None => target'[n] # None]_vars

\* However calls fail, provisioning is repeated until all of it has succeeded.
ProvisionedAtLast == <>[](Stored /\ StoredIsProvisioned)
=============================================================================
