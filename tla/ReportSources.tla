--------------------------- MODULE ReportSources ---------------------------
(***************************************************************************)
(* Every collector of the health report over one world (RunCollectors of   *)
(* healthreport/run.go, CollectAll), and the page about backups over the   *)
(* same hosts, while requests fail and recover between two looks.          *)
(*                                                                         *)
(* A fault is <<collector, request>>: the request fails.  For the facts of *)
(* the hosts the request is a host, and <<"section", host, name>> is one   *)
(* that its script could not fill; <<"host_metrics", host>> is a host      *)
(* whose exporters are down.  The collectors run one after the other and   *)
(* none uses what another one has found; a report is about one moment.     *)
(***************************************************************************)
EXTENDS NoValue, Integers, Sequences, FiniteSets, TLC

CONSTANTS Denied,
  World,        \* the answers of every collector when nothing fails
  Faults, MaxBroken,
  AllHosts, KnownPaths, RetiredMounts, SessionUnits, Ephemeral,
  Windows, Hour,  \* maintenance windows; length of a bucket
  LineLimit, MinSignatureCount, MaxSignatures, MaxContainers, HourThreshold,
  DayLength, LookbackDays, OwnedDomains, ExcludedClusters, SignificantCluster,
  ScanStaleAfter,
  Nights,       \* what the log of a nightly backup can say
  Entries, PageHosts, Mentions(_, _)   \* backup_catalog.json and the page

Hosts == INSTANCE HostFacts
Metrics == INSTANCE MetricSources
Logs == INSTANCE LogSources
Outside == INSTANCE OutsideSources
Board == INSTANCE BackupDashboard
Text == INSTANCE ReportText WITH
  MaxIssues <- 3, PushLimit <- 3, MaxMounts <- 4, InterestingUsed <- 50,
  TokenWarnDays <- 30, TrendDays <- 10

VARIABLES
  broken,     \* the requests that fail at the moment
  night,      \* the log of the nightly backup, of every host that has one
  facts,      \* the observations of the report about this moment
  clean,      \* what it would have observed without faults, as IDs
  views       \* the page about backups of the same moment, and the backup
              \* targets in the mail of the report, or None

looked == <<facts, clean, views>>
sourceVars == <<broken, night, looked>>

Collectors == {"ssh_facts", "host_metrics", "containers", "monitor_availability",
  "uptime_kuma", "logs", "ntfy_access", "csp_reports", "appsec", "updates", "github",
  "defectdojo", "homeassistant", "pki", "mail_dns", "home_ip", "dmarc"}

-----------------------------------------------------------------------------
(* The answers under the faults                                            *)

FactsOf(host, failing) ==
  IF <<"ssh_facts", host>> \in failing THEN None
  ELSE [s \in DOMAIN World["ssh_facts"][host] |->
          IF <<"section", host, s>> \in failing THEN None
          ELSE IF s = "backup" THEN night ELSE World["ssh_facts"][host][s]]

\* The rows of a query without those of hosts whose exporters are down.
Scraped(rows, failing) ==
  [r \in {x \in DOMAIN rows : <<"host_metrics", x[1]>> \notin failing} |-> rows[r]]

AnswersOf(c, failing) ==
  [q \in DOMAIN World[c] |->
     IF c = "ssh_facts" THEN FactsOf(q, failing)
     ELSE IF <<c, q>> \in failing THEN None
     ELSE IF c = "host_metrics" THEN Scraped(World[c][q], failing)
     ELSE World[c][q]]

Collected(c, a) ==
  CASE c = "ssh_facts" -> Hosts!CollectSSHFacts(a)
    [] c = "host_metrics" -> Metrics!CollectHostMetrics(a)
    [] c = "containers" -> Metrics!CollectContainers(a)
    [] c = "monitor_availability" -> Metrics!CollectMonitorAvailability(a)
    [] c = "uptime_kuma" -> Metrics!CollectKuma(a)
    [] c = "logs" -> Logs!CollectLogs(a, Windows, Hour)
    [] c = "ntfy_access" -> Logs!CollectNtfyDenied(a)
    [] c = "csp_reports" -> Logs!CollectCSPReports(a)
    [] c = "appsec" -> Logs!CollectAppSec(a)
    [] c = "updates" -> Logs!CollectUpdates(a)
    [] c = "github" -> Outside!CollectGithub(a)
    [] c = "defectdojo" -> Outside!CollectDefectDojo(a)
    [] c = "homeassistant" -> Outside!CollectHomeAssistant(a)
    [] c = "pki" -> Outside!CollectPKI(a)
    [] c = "mail_dns" -> Outside!CollectMailDNS(a)
    [] c = "home_ip" -> Outside!CollectHomeIP(a)
    [] c = "dmarc" -> Outside!CollectDMARC(a)

\* RunCollectors and CollectAll: the observations of all, what is said of
\* collectors that failed, and the usage that is derived from all of them.
RunCollectors(failing) == [c \in Collectors |-> Collected(c, AnswersOf(c, failing))]
AllObserved(results) ==
  LET obs == UNION {results[c].obs \cup Hosts!CollectorHealth(c, results[c]) : c \in Collectors}
  IN obs \cup Hosts!WdCloudBackupTargetUsage(obs)

Noon == 720
PageOf(answers, targets) ==
  LET snapshot == Board!Snapshot(Entries, PageHosts, answers, None)
  IN [hosts |-> snapshot.hosts, board |-> Board!PageData(Entries, snapshot, Noon),
      targets |-> targets]

\* StateBackupTargets: the sections are read a second time for the mail.
TargetsOf(answers, observations) ==
  LET Targets(s) == IF s # None /\ "backup_targets" \in DOMAIN s
                    THEN s["backup_targets"] ELSE None
      derived == {o[4] : o \in {x \in observations :
                                  Hosts!Id(x) = <<"backup_target_usage", "nas", "wd-cloud">>}}
  IN Text!StateBackupTargets([h \in DOMAIN answers |-> Targets(answers[h])],
                             IF derived = {} THEN None ELSE CHOOSE v \in derived : TRUE)

-----------------------------------------------------------------------------
SourceInit == broken = {} /\ night \in Nights /\ facts = {} /\ clean = {} /\ views = None

\* The report of an earlier moment is not looked at any more.
Forget == facts' = {} /\ clean' = {} /\ views' = None

Break ==
  /\ Cardinality(broken) < MaxBroken
  /\ broken' \in {broken \cup {f} : f \in Faults \ broken}
  /\ Forget /\ UNCHANGED night

Mend ==
  /\ broken' \in {broken \ {f} : f \in broken}
  /\ Forget /\ UNCHANGED night

BackupRuns ==
  /\ night' \in Nights
  /\ Forget /\ UNCHANGED broken

Look ==
  /\ views = None
  /\ facts' = AllObserved(RunCollectors(broken))
  /\ clean' = LET results == RunCollectors({})
              IN UNION {{<<c, Hosts!Id(o)>> : o \in results[c].obs} : c \in Collectors}
  /\ LET answers == AnswersOf("ssh_facts", broken)
     IN views' = PageOf(answers, TargetsOf(answers, facts'))
  /\ UNCHANGED <<broken, night>>

SourceNext == Break \/ Mend \/ BackupRuns \/ Look

SourceSpec == SourceInit /\ [][SourceNext]_sourceVars
-----------------------------------------------------------------------------
(* What is assumed of the world                                            *)

\* What can fail of the collectors whose answers are not one for each host or
\* endpoint; their other fields are settings.
Requests ==
  [host_metrics |-> Metrics!HostQueries,
   containers |-> {"current", "previous", "restarts", "oom"},
   monitor_availability |-> {"day", "week"}, uptime_kuma |-> {"metrics"},
   logs |-> {"counts", "lines", "auth", "caddy"}, ntfy_access |-> {"lines"},
   csp_reports |-> {"bodies"}, appsec |-> {"matches", "lines"}, updates |-> {"stream"},
   github |-> {"user", "repos"},
   defectdojo |-> {"login", "tests", "engagements", "products", "findings"},
   homeassistant |-> {"config", "states"}, mail_dns |-> Outside!Lookups,
   home_ip |-> {"first", "second"}, dmarc |-> {"lastReport", "counts"}]

FaultsAreRequests ==
  \A c \in DOMAIN Requests : \A q \in DOMAIN World[c] :
    <<c, q>> \in Faults => q \in Requests[c]

AnswersAreThere ==
  /\ DOMAIN World["host_metrics"] = Metrics!HostQueries
  /\ DOMAIN World["mail_dns"] = Outside!Lookups
  /\ {"expected", "first", "second"} \subseteq DOMAIN World["home_ip"]
  /\ {"url", "lastReport", "counts"} \subseteq DOMAIN World["dmarc"]

\* The exporters are those of the hosts the report knows; and the two services
\* that tell the public address tell the same.
MetricsAreOfHosts ==
  \A q \in Metrics!HostQueries :
    \A r \in DOMAIN World["host_metrics"][q] : r[1] \in AllHosts
AddressesAgree == World["home_ip"].first = World["home_ip"].second

SoundWorld ==
  FaultsAreRequests /\ AnswersAreThere /\ MetricsAreOfHosts /\ AddressesAgree

\* The page and the report ask the hosts of one list, SSHHosts of the
\* configuration; and homelab-facts.py computes the usage of a target only
\* where there is a quota.
OneHostList == {PageHosts[i] : i \in DOMAIN PageHosts} = DOMAIN World["ssh_facts"]
UsageNeedsQuota ==
  \A h \in DOMAIN World["ssh_facts"] :
    \A targets \in Hosts!Data(World["ssh_facts"][h], "backup_targets") :
      \A n \in DOMAIN targets : targets[n].used # None => targets[n].quota

-----------------------------------------------------------------------------
Failed(kind, subject) == \E o \in facts : o[1] = kind /\ o[2] = subject

\* What the report has to say when it does not show an ID of a collector:
\* that the collector failed, or which host, section or endpoint it missed.
Named(c, id) ==
  \/ Failed("collector_failed", c)
  \/ c = "ssh_facts" /\ \E k \in {"facts_unreachable", "facts_section_failed"} : Failed(k, id[2])
  \/ c = "host_metrics" /\ Failed("metrics_missing", id[2])
  \/ c = "pki" /\ \E o \in facts : o[1] = "pki_fetch_failed"

\* CollectorHealth: without it "a broken collector looks exactly like a clean
\* bill of health".  Whatever fails, each thing the report would have shown is
\* shown, or the report says that it could not look there.
BlindnessIsNamed ==
  \A x \in clean : x[2] \in {Hosts!Id(o) : o \in facts} \/ Named(x[1], x[2])

\* The report and the page are two readings of the same backup log.  A host
\* that the page calls ok has none of the problems of a backup in the report,
\* and an entry the report lists as failed is marked on the page.  The usage of
\* a backup target in the table of the mail, which is read from the answers a
\* second time, is the one that was observed and classified.
ViewsAgree ==
  views # None =>
    /\ \A h \in DOMAIN views.hosts : views.hosts[h].state = "ok" =>
         /\ \A k \in {"backup_missing", "backup_incomplete", "backup_in_progress",
                       "facts_unreachable"} : ~Failed(k, h)
         /\ \A o \in facts : o[1] = "backup_failures" /\ o[2] = h => o[4] = 0
    /\ \A e \in Entries, o \in facts :
         o[1] = "backup_service_failed" /\ o[2] = e.host /\ Mentions(o[3], e.name)
           => views.board.entries[e] = "failed"
    /\ \A t \in views.targets : t.used # None =>
         \E o \in facts : o[1] = "backup_target_usage" /\ o[3] = t.name /\ o[4] = t.used
=============================================================================
