-------------------------- MODULE BackupDashboard --------------------------
(***************************************************************************)
(* The page about backups, which is rebuilt from scratch every time        *)
(* (internal/backupdashboard, cmd/backup-dashboard-collect/main.go).  It   *)
(* asks the same script on the hosts as the health report, and has its own *)
(* reading of the answers; they have the form HostFacts describes, with    *)
(* the kind of each target added.                                          *)
(***************************************************************************)
EXTENDS Integers, Sequences, FiniteSets

CONSTANTS None,
  Mentions(_, _)   \* the text of a failure contains the name of an entry

DayMinutes == 1440

\* A section that is missing or has failed has no fields: as if unavailable.
Section(sections, name) ==
  IF name \in DOMAIN sections THEN sections[name] ELSE None
IsAvailable(sections, name) ==
  Section(sections, name) # None /\ Section(sections, name).available

Unknown == [state |-> "unknown", failed |-> {}, age |-> None,
            verification |-> None, restore |-> None]

NoFailures(backup) == backup.critical = 0   \* mutant: a run that is not over counts
LooksWell(backup) == backup.completed /\ backup.critical = 0

\* hostStatus; `sections` is None when the host could not be asked.
HostStatus(sections) ==
  IF sections = None \/ ~IsAvailable(sections, "backup") THEN Unknown
  ELSE LET backup == sections["backup"]
           verified == IsAvailable(sections, "backup_verification")
           v == Section(sections, "backup_verification")
       IN [state |-> IF LooksWell(backup) THEN "ok" ELSE "degraded",
           failed |-> backup.failed, age |-> backup.age,
           verification |-> IF verified THEN v.top.state ELSE "unknown",
           restore |-> IF verified THEN v.restore ELSE None]

\* historyStatus and targetUsage: what a host contributes if it was asked.
\* Local targets are left out, and those without a quota or an answer.
History(sections) ==
  IF sections = None THEN {} ELSE {Section(sections, "backup_history")} \ {None}

TargetUsage(sections) ==
  IF sections = None \/ Section(sections, "backup_targets") = None THEN {}
  ELSE LET t == sections["backup_targets"]
       IN {<<n, t[n].used>> : n \in {x \in DOMAIN t : /\ t[x].kind = "remote"
                                                      /\ t[x].quota
                                                      /\ t[x].used # None}}

\* EntryBadge: a failure names an entry by its destination or contains its
\* name, be it as part of a longer name.
EntryBadge(entry, statuses) ==
  IF entry.host \notin DOMAIN statuses THEN "unknown"
  ELSE IF \E f \in statuses[entry.host].failed : f = entry.dest \/ Mentions(f, entry.name)
  THEN "failed" ELSE statuses[entry.host].state

\* SourceDiskUsage: nothing when the query fails.
SourceDisk(rows) ==
  IF rows = None THEN <<>>
  ELSE [i \in {r[1] : r \in DOMAIN rows} |->
          [m \in {r[2] : r \in {x \in DOMAIN rows : x[1] = i}} |-> rows[<<i, m>>]]]

\* BuildSnapshot.  `order` is the hosts in the order of the configuration: of
\* two that report the same destination the later one is believed.
Snapshot(catalog, order, facts, disk) ==
  LET hosts == {order[i] : i \in DOMAIN order}
      sources == hosts \cap {e.host : e \in catalog}
      statuses == [h \in sources |-> HostStatus(facts[h])]
      usage == UNION {{i} \X TargetUsage(facts[order[i]]) : i \in DOMAIN order}
      names == {x[2][1] : x \in usage}
  IN [hosts |-> statuses,
      history |-> [h \in {x \in hosts : History(facts[x]) # {}} |-> History(facts[h])],
      destinations |-> [n \in names |->
        (CHOOSE x \in usage : /\ x[2][1] = n
                              /\ \A y \in usage : y[2][1] = n => y[1] <= x[1])[2][2]],
      disk |-> SourceDisk(disk),
      badges |-> [e \in catalog |-> EntryBadge(e, statuses)],
      errors |-> {h \in hosts : facts[h] = None}]

-----------------------------------------------------------------------------
(* The page                                                                *)

Gauge(percent) == IF percent > 90 THEN "crit" ELSE IF percent > 80 THEN "warn" ELSE "ok"

\* NextRun: minutes until a daily time of day, never 0.
NextRun(schedule, now) ==
  IF schedule = None THEN None
  ELSE IF schedule > now THEN schedule - now ELSE schedule + DayMinutes - now

\* buildFlowGraph: hosts and destinations once, entries each by themselves;
\* two entries of one host with the same name are one node twice.  The next
\* run of a host is that of one of its entries.
FlowGraph(catalog, badges, now) ==
  [nodes |-> {<<"host", h, NextRun((CHOOSE e \in catalog : e.host = h).schedule, now)>> :
                h \in {e.host : e \in catalog}}
             \cup {<<"entry", e.host, e.name, badges[e]>> : e \in catalog}
             \cup {<<"dest", d>> : d \in UNION {e.destinations : e \in catalog}},
   links |-> {<<e.host, e.name>> : e \in catalog}
             \cup UNION {{<<e.name, d>> : d \in e.destinations} : e \in catalog}]

\* buildPageData: the summary counts hosts, by their own state.
PageData(catalog, snapshot, now) ==
  LET hosts == DOMAIN snapshot.hosts
      In(states) == Cardinality({h \in hosts : snapshot.hosts[h].state \in states})
  IN [ok |-> In({"ok"}), degraded |-> In({"degraded"}), unknown |-> In({"unknown"}),
      gauges |-> [d \in DOMAIN snapshot.destinations |-> Gauge(snapshot.destinations[d])],
      graph |-> FlowGraph(catalog, snapshot.badges, now),
      entries |-> snapshot.badges, errors |-> snapshot.errors]
=============================================================================
