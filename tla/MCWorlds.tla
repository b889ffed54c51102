------------------------------ MODULE MCWorlds ------------------------------
(***************************************************************************)
(* The data of MCPrograms: what the hosts and services of the health       *)
(* report answer, reports, replies of the language model, and catalogs and *)
(* jobs of the deployments.                                                *)
(***************************************************************************)
EXTENDS ReportSources

-----------------------------------------------------------------------------
(* The world of ReportSources: something to be seen for every collector    *)

Night(available, completed, critical, failed) ==
  [available |-> available, completed |-> completed, running |-> ~completed,
   age |-> 1, critical |-> critical, failed |-> failed]

MCNights == {Night(TRUE, TRUE, 0, {}), Night(TRUE, TRUE, 1, {"paperless"}),
           Night(TRUE, FALSE, 0, {}), Night(FALSE, FALSE, 0, {})}

Nuc ==
  [security_updates |-> [count |-> 3, reboot |-> TRUE],
   crowdsec |-> [available |-> TRUE, decisions |-> 7,
                 bouncers |-> "caddy" :> [revoked |-> FALSE],
                 machines |-> "nuc" :> 2 @@ "mljr" :> 2],
   nftables |-> [error |-> FALSE, rules |-> 40],
   kernel_errors |-> [available |-> TRUE, serious |-> 1],
   time_sync |-> [available |-> TRUE, synchronised |-> TRUE, offset |-> 1],
   backup |-> Night(TRUE, TRUE, 0, {}),
   backup_verification |-> [available |-> TRUE,
                            integrity |-> [state |-> "ok", at |-> 9],
                            restore |-> None, top |-> [state |-> "ok", at |-> 9]]]

BackupTarget(kind, quota, used) ==
  [kind |-> kind, quota |-> quota, error |-> FALSE, used |-> used]

Nas ==
  [unraid_array |-> [state |-> "STARTED", errors |-> None, age |-> 12,
                     disks |-> "disk1" :> "DISK_OK"],
   unraid_smart |-> "sda" :> [reallocated_sectors |-> 1, pending_sectors |-> None]
                    @@ "sdb" :> None,
   unraid_docker_image |-> 70,
   unraid_notifications |-> {[event |-> "array", importance |-> "alert", at |-> 2],
                             [event |-> "array", importance |-> "normal", at |-> 1],
                             [event |-> "disk", importance |-> "warning", at |-> 1],
                             [event |-> "disk", importance |-> "normal", at |-> 1]},
   backup_targets |-> "pcloud" :> BackupTarget("remote", TRUE, 91)
                      @@ "wd-cloud" :> BackupTarget("remote", FALSE, None)
                      @@ "borg" :> BackupTarget("local", TRUE, 40),
   watched_dirs |-> "/mnt/user/Sync" :> {"Personal", "New"} @@ "/mnt/user/Lost" :> None,
   backup |-> Night(TRUE, TRUE, 0, {})]

Ugreen ==
  [backup_history |-> [state |-> "degraded"],
   ugreen_storage |-> [degraded |-> {"md1"}, lvm |-> "data" :> 80 @@ "thin" :> None]]

OnNuc(v) == <<"nuc", "">> :> v

HostMetrics ==
  [disk_usage |-> <<"nuc", "/">> :> 60 @@ <<"wd-mycloud", "/mnt/HD/HD_a2">> :> 82,
   memory_usage |-> OnNuc(50), load_per_core |-> OnNuc(1), cpu_steal |-> OnNuc(0),
   recent_reboot |-> OnNuc(1), smart_health |-> <<"nuc", "sda">> :> 1,
   disk_temperature |-> <<"nuc", "sda">> :> 40,
   crowdsec_active_decisions |-> OnNuc(7),
   disk_fill_projection |-> <<"nuc", "/">> :> -1 @@ <<"nuc", "/old">> :> -1,
   systemd_failed |-> <<"nuc", "x.service">> :> 1 @@ <<"nuc", "session-1.scope">> :> 1,
   metrics_age |-> OnNuc(1) @@ <<"nas", "">> :> 1 @@ <<"wd-mycloud", "">> :> 1,
   btrfs_pool_errors |-> <<"nas", "sda", "read">> :> 1 @@ <<"nas", "sda", "write">> :> 2,
   crowdsec_alerts_24h |-> OnNuc(2)]

Runs1 == {[workflow |-> "deploy", branch |-> "main", at |-> 0, conclusion |-> "failure"],
          [workflow |-> "lint", branch |-> "main", at |-> 0, conclusion |-> "success"],
          [workflow |-> "lint", branch |-> "main", at |-> 1, conclusion |-> "failure"]}

Repo == [name |-> "homelab", archived |-> FALSE, default |-> "main", branches |-> {"dev"},
         runs |-> Runs1, dependabot |-> 4 :> "high", scanning |-> Denied]

Violation(effective, violated, document, blocked) ==
  [effective |-> effective, violated |-> violated, document |-> document,
   blocked |-> blocked]

Finding == [id |-> 1, test |-> 1, cve |-> "cve", severity |-> "High", fix |-> TRUE,
            days |-> 0, exploited |-> FALSE, epss |-> TRUE]

MCWorld ==
  [ssh_facts |-> [nuc |-> Nuc, nas |-> Nas, ugreen |-> Ugreen],
   host_metrics |-> HostMetrics,
   containers |-> [current |-> {<<"nuc", "a">>}, previous |-> {<<"nuc", "b">>},
                   restarts |-> <<"nuc", "a">> :> 3, oom |-> <<"nuc", "a">> :> 1],
   monitor_availability |-> [day |-> "web" :> 99, week |-> "web" :> 98],
   uptime_kuma |-> [key |-> "k", metrics |-> <<[name |-> "web", status |-> 1, days |-> 20],
                                              [name |-> "web", status |-> 0, days |-> -1]>>],
   logs |-> [counts |-> <<"nuc", "a">> :> 9 @@ <<"nuc", "b">> :> None, order |-> <<"nuc", "a">> :> 1,
             lines |-> <<<<"a", "broken", "nuc">>, <<"a", "broken", "nuc">>>>,
             auth |-> "nuc" :> 4,
             caddy |-> "mljr" :> {[at |-> 120, n |-> 5, quoted |-> FALSE]}],
   ntfy_access |-> [lines |-> <<[topic |-> "t", scanner |-> FALSE], None,
                                [topic |-> "t", scanner |-> TRUE]>>],
   csp_reports |-> [bodies |-> <<
     [kind |-> "legacy", reports |-> <<Violation("script-src", "", "/", "inline")>>],
     [kind |-> "batch", reports |-> <<Violation("", "img-src", "/a", "moz-extension"),
                                      Violation("", "img-src", "/a", "other"), None>>],
     None>>],
   appsec |-> [matches |-> "mljr" :> 1, lines |-> <<"down">>],
   updates |-> [stream |-> <<"open", "message">>],
   github |-> [token |-> "t", user |-> [expiry |-> "soon"], repos |-> {Repo}],
   defectdojo |-> [password |-> "p", login |-> "in", findings |-> <<{Finding}, {}>>,
                   tests |-> 1 :> [engagement |-> "trivy", title |-> "nuc", age |-> 9],
                   engagements |-> {"trivy"}, products |-> {"homelab"}],
   homeassistant |-> [token |-> "t", config |-> [safeMode |-> FALSE, state |-> "RUNNING"],
                      states |-> {[id |-> "light.a", domain |-> "light", cluster |-> "hue",
                                   state |-> "unavailable"],
                                  [id |-> "update.b", domain |-> "update", cluster |-> "b",
                                   state |-> "on"]}],
   pki |-> [ca |-> [leaf |-> 5, cas |-> {[selfSigned |-> TRUE, days |-> 900]},
                    signedBy |-> "root"],
            vault |-> [leaf |-> 5, cas |-> {}, signedBy |-> "other"]],
   mail_dns |-> [MX |-> "good", SPF |-> "wrong", DMARC |-> "good", DKIM |-> "good",
                 A |-> "good", PTR |-> "wrong"],
   home_ip |-> [expected |-> "1", first |-> "2", second |-> "2"],
   dmarc |-> [url |-> "u", lastReport |-> "old",
              counts |-> <<"mljr.eu", "mljr.eu">> :> [total |-> 3, passed |-> 2]]]

MCFaults ==
  {<<"ssh_facts", "nuc">>, <<"ssh_facts", "nas">>, <<"section", "nuc", "backup">>,
   <<"section", "nas", "unraid_array">>, <<"section", "nas", "unraid_smart">>,
   <<"section", "ugreen", "backup_history">>, <<"host_metrics", "nuc">>,
   <<"host_metrics", "disk_usage">>, <<"containers", "oom">>,
   <<"monitor_availability", "week">>, <<"uptime_kuma", "metrics">>, <<"logs", "auth">>,
   <<"ntfy_access", "lines">>, <<"csp_reports", "bodies">>, <<"appsec", "matches">>,
   <<"updates", "stream">>, <<"github", "user">>, <<"defectdojo", "tests">>,
   <<"homeassistant", "states">>, <<"pki", "ca">>, <<"pki", "vault">>, <<"mail_dns", "A">>,
   <<"home_ip", "first">>, <<"home_ip", "second">>, <<"dmarc", "counts">>}

MCPaths == {<<"/mnt/user/Sync", "Personal">>}

MCMounts == {<<"nuc", "/old">>}

MCWindows == {[day |-> -1, start |-> 23, end |-> 2]}

MCPageHosts == <<"nuc", "nas", "ugreen">>

MCMentions(text, name) == text = name

MCEntries ==
  {[name |-> "paperless", host |-> "nuc", dest |-> "pcloud:nuc", schedule |-> 180,
    destinations |-> {"pcloud"}],
   [name |-> "Fotos", host |-> "nas", dest |-> "pcloud:Fotos", schedule |-> 1320,
    destinations |-> {"pcloud", "wd"}],
   [name |-> "old", host |-> "pi", dest |-> "", schedule |-> None, destinations |-> {}]}

-----------------------------------------------------------------------------
(* Reports and replies of ReportDelivery.  Every warning is in one of the  *)
(* lists of the diff, and what has worsened is persisting.                 *)

Ids == {"p", "q"}
Level(severity, list) == [severity |-> severity, list |-> list]
ActionableLevels == {Level(s, l) : s \in {"warn", "crit"}, l \in {"new", "reopened", "persisting"}}
Info == Level("info", "none")

Listed(levels, list) ==
  SelectSeq(<<"p", "q">>, LAMBDA i : levels[i].list = list)

Around ==   \* what the other sections of the mail are made of
  [history |-> <<[crit |-> 0, warn |-> 1], None, [crit |-> 1, warn |-> 1]>>,
   memory |-> [nuc |-> 50], load |-> [nas |-> 1], uptime |-> [nuc |-> 3],
   mounts |-> [nuc |-> "/" :> 60 @@ "/data" :> 85, nas |-> "/" :> 10],
   tokenDays |-> 5, crowdsec |-> {"nuc"}, dmarc |-> {"p"}, updates |-> {"core"}]

ReportOf(levels) ==
  [severity |-> [i \in Ids |-> levels[i].severity], subject |-> [i \in Ids |-> "nuc"],
   notice |-> {"p"}, new |-> Listed(levels, "new"), reopened |-> Listed(levels, "reopened"),
   persisting |-> Listed(levels, "persisting"),
   worsened |-> SelectSeq(Listed(levels, "persisting"),
                          LAMBDA i : levels[i].severity = "crit"),
   resolved |-> <<"gone">>, failed |-> {"logs"}, state |-> Around]

MCReports ==
  {ReportOf([p |-> l, q |-> k]) : l \in ActionableLevels \cup {Info},
                                  k \in {Info, Level("crit", "persisting")}}

MCReplies ==
  {None, [complete |-> FALSE, issues |-> <<"p">>],
   [complete |-> TRUE, issues |-> <<"ghost", "p", "q">>]}

-----------------------------------------------------------------------------
(* Catalogs and jobs of DeployStatus                                       *)

CatalogEntry(name, port, host) ==
  [name |-> name, enabled |-> TRUE, managed |-> TRUE, skipDeploy |-> FALSE,
   host |-> host, port |-> port, domains |-> <<name>>]

MCCatalogs ==
  {<<CatalogEntry("web", 80, "nuc"), CatalogEntry("mail", 25, "mljr")>>,
   <<CatalogEntry("web", 80, "nuc"), CatalogEntry("mail", 80, "nuc")>>}

Line(task, fatal, mentions, error) ==
  [task |-> task, fatal |-> fatal, mentions |-> mentions, error |-> error]

MCJobs ==
  {[status |-> "failed", duration |-> 1,
    lines |-> <<Line({"web"}, FALSE, {}, {}), Line(None, TRUE, {}, {}),
                Line(None, FALSE, {}, {"mail"})>>]}
=============================================================================
