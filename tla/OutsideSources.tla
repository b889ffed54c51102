--------------------------- MODULE OutsideSources ---------------------------
(***************************************************************************)
(* The collectors that ask services and the internet: github, defectdojo,  *)
(* homeassistant, pki, mail_dns, home_ip and dmarc (one file each in       *)
(* healthreport/collectors).  A collector takes its answers as a record    *)
(* with one field per request; None is a request that fails.               *)
(***************************************************************************)
EXTENDS Observations

CONSTANTS
  Denied,               \* the answer of GitHub that is no answer
  LookbackDays,         \* the window of the report
  OwnedDomains,         \* DMARCDomains
  ExcludedClusters, SignificantCluster,
  ScanStaleAfter

-----------------------------------------------------------------------------
(* github                                                                  *)

\* githubGet answers Denied for 403 and 404: no access, or no such feature.
Bad == {"failure", "timed_out", "startup_failure"}

\* A run is [workflow, branch, at, conclusion], `at` in days before today.
InWindow(runs) == {r \in runs : r.at <= LookbackDays}

\* The most recent run of a workflow on a branch.
IsLatest(runs, r) ==
  \A q \in runs : (q.workflow = r.workflow /\ q.branch = r.branch) => q.at >= r.at

\* What is failing now.  The branch is not part of the ID, unless it is the
\* default branch.
Workflows(repo) ==
  LET runs == InWindow(repo.runs)
  IN {<<IF r.branch = repo.default THEN "workflow_failed_default_branch"
        ELSE "workflow_failed", repo.name, r.workflow, r.conclusion>> :
        r \in {x \in runs : /\ IsLatest(runs, x)
                            /\ x.conclusion \in Bad
                            /\ x.branch \in repo.branches \cup {repo.default}}}

\* Alerts are a function from their numbers to severities; the first page.
Alerts(kind, name, alerts) ==
  IF alerts = Denied THEN {}
  ELSE {<<kind, name, n, alerts[n]>> : n \in DOMAIN alerts}

RepoObservations(repo) ==
  (IF repo.runs = Denied THEN {} ELSE Workflows(repo))
  \cup Alerts("dependabot_alert", repo.name, repo.dependabot)
  \cup Alerts("code_scanning_alert", repo.name, repo.scanning)

\* A repository whose requests fail takes the whole collector down; one that
\* is denied is listed in the data and nowhere else.
CollectGithub(a) ==
  IF a.token = None THEN Unavailable
  ELSE IF ~AllAnswered(a, {"user", "repos"}) THEN Panicked
  ELSE LET repos == {r \in a.repos : ~r.archived}
       IN IF \E r \in repos : None \in {r.runs, r.dependabot, r.scanning} THEN Panicked
          ELSE Ok(When(a.user.expiry # "", {<<"github_token_expiry", "", "", a.user.expiry>>})
                  \cup UNION {RepoObservations(r) : r \in repos})

-----------------------------------------------------------------------------
(* defectdojo                                                              *)

\* dojoList: the pages of a list up to the first that is empty; None when a
\* page does not answer.
List(pages) ==
  LET ends == {i \in DOMAIN pages : pages[i] = {}}
      read == {i \in DOMAIN pages : \A j \in ends : i <= j}
  IN IF \E i \in read : pages[i] = None THEN None ELSE UNION {pages[i] : i \in read}

\* A finding is [id, test, cve, severity, fix, days, exploited, epss].
Severe(findings) == {f \in findings : f.severity \in {"Critical", "High"}}

FreshFixable(findings) ==
  {f \in Severe(findings) : f.fix /\ f.days <= LookbackDays}

\* dojoTargetLabels: several tests may be of one target, and a label may be
\* missing when the list of tests is older than the findings.
Label(tests, id) ==
  IF id \in DOMAIN tests THEN <<tests[id].engagement, tests[id].title>> ELSE <<"test", id>>

PerCVE(kind, tests, findings) ==
  {<<kind, cve, "", Cardinality({Label(tests, f.test) : f \in {g \in findings : g.cve = cve}})>> :
     cve \in {f.cve : f \in findings}}

FindingObservations(tests, findings) ==
  LET fresh == FreshFixable(findings)
  IN {<<"vuln_new_fixable", Label(tests, t), "", Cardinality({f \in fresh : f.test = t})>> :
        t \in {f.test : f \in fresh}}
     \cup PerCVE("vuln_known_exploited", tests, {f \in findings : f.exploited})
     \cup PerCVE("vuln_high_epss", tests,
                 {f \in Severe(findings) : f.fix /\ ~f.exploited /\ f.epss})

\* An engagement with no test at all is not stale, only its newest counts.
StaleScans(a) ==
  LET AgesOf(e) == {a.tests[t].age : t \in {x \in DOMAIN a.tests : a.tests[x].engagement = e}}
  IN {<<"vuln_scan_stale", e, "", TRUE>> :
        e \in {x \in a.engagements : /\ AgesOf(x) # {}
                                     /\ \A age \in AgesOf(x) : age > ScanStaleAfter}}

CollectDefectDojo(a) ==
  IF a.password = None THEN Unavailable
  ELSE IF ~AllAnswered(a, {"login", "tests", "engagements", "products", "findings"})
  THEN Panicked
  ELSE LET findings == List(a.findings)
       IN IF findings = None THEN Panicked
          ELSE Ok(FindingObservations(a.tests, findings) \cup StaleScans(a))

-----------------------------------------------------------------------------
(* homeassistant                                                           *)

UnknownIsNormal == {"button", "scene", "script", "input_button", "notify",
                    "tts", "conversation", "event", "stt", "image"}

\* haIsRealFault: an entity is [id, domain, cluster, state].
IsRealFault(e) ==
  \/ e.state = "unavailable"
  \/ e.state = "unknown" /\ e.domain \notin UnknownIsNormal

\* Clusters of dead entities, so that one broken integration is one problem.
Significant(entities) ==
  {c \in {e.cluster : e \in entities} \ ExcludedClusters :
     Cardinality({e \in entities : e.cluster = c /\ IsRealFault(e)}) >= SignificantCluster}

CollectHomeAssistant(a) ==
  IF a.token = None THEN Unavailable
  ELSE IF ~AllAnswered(a, {"config", "states"}) THEN Panicked
  ELSE LET updates == {e \in a.states : e.domain = "update" /\ e.state = "on"}
       IN Ok({<<"ha_unavailable_entities", "homeassistant", "",
                Cardinality(Significant(a.states))>>}
             \cup When(a.config.safeMode \/ a.config.state \notin {"", "RUNNING"},
                       {<<"ha_safe_mode", "homeassistant", "", TRUE>>})
             \cup When(updates # {}, {<<"ha_updates_available", "homeassistant", "",
                                        Cardinality(updates)>>}))

-----------------------------------------------------------------------------
(* pki                                                                     *)

\* verifyChain: the signatures lead from the leaf to the pinned root, at a
\* time when every certificate of the chain had begun.
Trusted(chain) == chain.signedBy = "root"

\* caName: any CA that is not self-signed is called the intermediate.
CAName(ca) == IF ca.selfSigned THEN "root" ELSE "intermediate"

\* One endpoint: [leaf |-> days left, cas, signedBy], or None.
Endpoint(name, chain) ==
  IF chain = None THEN {<<"pki_fetch_failed", name, "", TRUE>>}
  ELSE IF ~Trusted(chain) THEN {<<"pki_chain_untrusted", name, "", TRUE>>}
  ELSE {<<"pki_leaf_expiry", name, "", chain.leaf>>}
       \cup {<<"pki_ca_expiry", CAName(c), "", c.days>> : c \in chain.cas}

CollectPKI(a) ==
  IF \A e \in DOMAIN a : a[e] = None THEN Panicked
  ELSE Ok(UNION {Endpoint(e, a[e]) : e \in DOMAIN a})

-----------------------------------------------------------------------------
(* mail_dns, home_ip, dmarc                                                *)

\* mailDNSProblems: the answer to a lookup is "good", "wrong", or "absent"
\* when the name does not exist; a resolver that fails is None.  The reverse
\* lookup is not made when the host has no address.
Lookups == {"MX", "SPF", "DMARC", "DKIM", "A", "PTR"}
Asked(a) == IF a["A"] = "absent" THEN Lookups \ {"PTR"} ELSE Lookups

CollectMailDNS(a) ==
  IF ~AllAnswered(a, Asked(a)) THEN Panicked
  ELSE Ok({<<"mail_dns_problem", IF l = "A" THEN "PTR" ELSE l, "", TRUE>> :
             l \in {x \in Asked(a) : a[x] # "good"}})

\* collectHomeIP and lookupPublicIP: the first of the services that answers.
CollectHomeIP(a) ==
  IF a.expected = "" THEN Ok({})
  ELSE IF a.first = None /\ a.second = None THEN Panicked
  ELSE LET current == IF a.first # None THEN a.first ELSE a.second
       IN Ok(When(current # a.expected, {<<"home_ip_mismatch", "home", "", current>>}))

\* collectDMARC: a domain is <<name, owner>>, where the owner is the domain
\* it is or ends with.
CollectDMARC(a) ==
  IF a.url = None THEN Unavailable
  ELSE IF a.lastReport = None THEN Panicked
  ELSE IF a.lastReport = "never" THEN Ok({<<"dmarc_report_stale", "dmarc-monitor", "", TRUE>>})
  ELSE IF OwnedDomains # {} /\ a.counts = None THEN Panicked
  ELSE Ok(When(a.lastReport = "old", {<<"dmarc_report_stale", "dmarc-monitor", "", TRUE>>})
          \cup (IF OwnedDomains = {} THEN {}
                ELSE {<<"dmarc_fail_count", d[1], "", a.counts[d].total - a.counts[d].passed>> :
                        d \in {x \in DOMAIN a.counts :
                                 /\ x[2] \in OwnedDomains
                                 /\ a.counts[x].total > a.counts[x].passed}}))
=============================================================================
