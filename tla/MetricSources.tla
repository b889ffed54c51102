---------------------------- MODULE MetricSources ----------------------------
(***************************************************************************)
(* The collectors that ask VictoriaMetrics and Uptime Kuma for numbers:    *)
(* host_metrics and containers (healthreport/collectors/victoria.go),      *)
(* monitor_availability and uptime_kuma.                                   *)
(*                                                                         *)
(* Each takes its answers as a record with one field per request.  The     *)
(* rows of a query are a function from <<host, part>> to a number.         *)
(***************************************************************************)
EXTENDS Observations

CONSTANTS
  AllHosts,          \* the hosts of the configuration
  RetiredMounts,     \* diskFillProjectionExclude, as <<host, mount>>
  SessionUnits,      \* systemd units that match systemdNoise
  Ephemeral          \* names of short-lived containers

\* One observation for each row of a query.
Each(kind, rows) == {<<kind, r[1], r[2], rows[r]>> : r \in DOMAIN rows}

Rows(rows, Keep(_, _)) ==
  [r \in {x \in DOMAIN rows : Keep(x, rows[x])} |-> rows[r]]

-----------------------------------------------------------------------------
(* collectHostMetrics: queries whose every row is an observation, and      *)
(* those that are filtered or summed                                       *)

PlainQueries == {"disk_usage", "memory_usage", "load_per_core", "cpu_steal",
                 "recent_reboot", "smart_health", "disk_temperature",
                 "crowdsec_active_decisions"}
HostQueries == PlainQueries \cup {"disk_fill_projection", "systemd_failed",
                 "metrics_age", "btrfs_pool_errors", "crowdsec_alerts_24h"}

\* predict_linear below zero, for the mounts that are still in use.
Projections(rows) ==
  Each("disk_fill_projection",
       Rows(rows, LAMBDA r, v : v < 0 /\ r \notin RetiredMounts))

FailedUnits(rows) ==
  {<<"systemd_failed", r[1], r[2], TRUE>> :
     r \in {x \in DOMAIN rows : x[2] \notin SessionUnits}}

\* Every configured host, whether the query knows it or not.
MetricsAge(rows) ==
  {IF <<h, "">> \in DOMAIN rows THEN <<"metrics_stale", h, "", rows[<<h, "">>]>>
   ELSE <<"metrics_missing", h, "", None>> : h \in AllHosts}

Total(f) ==
  LET sum[S \in SUBSET DOMAIN f] ==
        IF S = {} THEN 0 ELSE LET x == CHOOSE y \in S : TRUE
                              IN f[x] + sum[S \ {x}]
  IN sum[DOMAIN f]

\* The errors of a device, all types together; rows are <<host, device, type>>.
PoolErrors(rows) ==
  {<<"btrfs_pool_errors", d[1], d[2],
     Total([r \in {x \in DOMAIN rows : <<x[1], x[2]>> = d /\ rows[x] > 0}
              |-> rows[r]])>> :
     d \in {<<r[1], r[2]>> : r \in {x \in DOMAIN rows : rows[x] > 0}}}

CollectHostMetrics(a) ==
  IF ~AllAnswered(a, HostQueries) THEN Panicked
  ELSE Ok((UNION {Each(q, a[q]) : q \in PlainQueries})
          \cup Projections(a.disk_fill_projection)
          \cup FailedUnits(a.systemd_failed)
          \cup MetricsAge(a.metrics_age)
          \cup PoolErrors(a.btrfs_pool_errors)
          \cup Each("crowdsec_alerts_24h",
                    Rows(a.crowdsec_alerts_24h, LAMBDA r, v : v > 0)))

-----------------------------------------------------------------------------
(* collectContainers                                                       *)

Inventory(containers) == {c \in containers : c[2] \notin Ephemeral}

\* Only hosts that are there at both ends of the window are compared.
Comparable(current, previous) ==
  {c[1] : c \in current} \cap {p[1] : p \in previous}

\* current and previous are sets of <<host, name>>.
CollectContainers(a) ==
  IF ~AllAnswered(a, {"current", "previous", "restarts", "oom"}) THEN Panicked
  ELSE LET current == Inventory(a.current)
           previous == Inventory(a.previous)
           On(set) == {c \in set : c[1] \in Comparable(current, previous)}
       IN Ok({<<"container_missing", c[1], c[2], TRUE>> : c \in On(previous) \ current}
             \cup {<<"container_new", c[1], c[2], TRUE>> : c \in On(current) \ previous}
             \cup Each("container_restarts", Rows(a.restarts, LAMBDA r, v : v > 1))
             \cup Each("container_oom", Rows(a.oom, LAMBDA r, v : v >= 1)))

-----------------------------------------------------------------------------
(* monitor_availability and uptime_kuma                                    *)

\* collectMonitorAvailability: no row at all means that Kuma is not scraped;
\* None among the values is the NaN of a monitor that was in maintenance
\* throughout.  The query over seven days adds to the message only.
CollectMonitorAvailability(a) ==
  IF a.day = None THEN Panicked
  ELSE IF DOMAIN a.day = {} THEN Unavailable
  ELSE IF a.week = None THEN Panicked
  ELSE Ok({<<"monitor_availability", m, "", a.day[m]>> :
             m \in {x \in DOMAIN a.day : a.day[x] # None}})

\* parseKumaMetrics and the grouping by name: of two monitors with the same
\* name the later one is kept.
ByName(monitors) ==
  [n \in {monitors[i].name : i \in DOMAIN monitors} |->
     monitors[CHOOSE i \in DOMAIN monitors :
                /\ monitors[i].name = n
                /\ \A j \in DOMAIN monitors : monitors[j].name = n => j <= i]]

\* collectKuma: -1 days stands for a monitor without a certificate.
CollectKuma(a) ==
  IF a.key = None THEN Unavailable
  ELSE IF a.metrics = None THEN Panicked
  ELSE LET m == ByName(a.metrics)
       IN Ok({<<"monitor_status", n, "", m[n].status>> : n \in DOMAIN m} \cup
             {<<"cert_expiry", n, "", m[n].days>> :
                n \in {x \in DOMAIN m : m[x].days >= 0}})
=============================================================================
