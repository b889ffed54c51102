----------------------------- MODULE ReportText -----------------------------
(***************************************************************************)
(* What a health report says to its reader: the Markdown and the HTML body *)
(* of the mail, the push, and the story of the language model              *)
(* (healthreport/render.go, render_html.go, system_state.go, history.go,   *)
(* llm.go).                                                                *)
(*                                                                         *)
(* A report is [severity, subject, notice, new, worsened, reopened,        *)
(* resolved, persisting, failed, state]: the severity and the subject of   *)
(* every observed ID, the IDs with a notice, the lists of the diff as      *)
(* sequences of IDs, the collectors that failed, and what else the         *)
(* collectors found.  What is said of an ID is left out; which section it  *)
(* is in is kept.                                                          *)
(***************************************************************************)
EXTENDS NoValue, Integers, Sequences, FiniteSets, SequencesExt

CONSTANTS
  MaxIssues,    \* top issues of a story
  PushLimit,    \* highlights of a push
  MaxMounts, InterestingUsed,
  TokenWarnDays, TrendDays

ASSUME LimitsAssumption == MaxIssues \in Nat

Observed(report) == DOMAIN report.severity

Of(report, severity) == {i \in Observed(report) : report.severity[i] = severity}

\* rows(), and the same loop in Render: an ID that was not observed, as most
\* resolved ones, has nothing to show.
Rows(report, ids) == {i \in ToSet(ids) : i \in Observed(report)}

\* Notices: info observations that breached the notice level of their rule.
Notices(report) == Of(report, "info") \cap report.notice

-----------------------------------------------------------------------------
(* The story                                                               *)

AnyId(report, id) == TRUE                  \* mutant: the IDs are not compared
KnownId(report, id) == id \in Observed(report)

\* The loop of ValidateNarrative over the issues of a reply: one about an ID
\* of no observation is dropped, and it ends at the limit.
TopIssues(report, issues) ==
  LET kept[n \in 0..Len(issues)] ==
        IF n = 0 THEN <<>>
        ELSE IF KnownId(report, issues[n]) /\ Len(kept[n - 1]) < MaxIssues
             THEN Append(kept[n - 1], issues[n]) ELSE kept[n - 1]
  IN kept[Len(issues)]

\* ValidateNarrative: a reply without a headline and an assessment is
\* unusable.  Keys that judge severity are not read.
Validated(report, reply) ==
  IF reply = None \/ ~reply.complete THEN None
  ELSE [issues |-> TopIssues(report, reply.issues)]

-----------------------------------------------------------------------------
(* Markdown                                                                *)

\* SummaryCounts and SubjectLine.
Counts(report) ==
  [crit |-> Cardinality(Of(report, "crit")), warn |-> Cardinality(Of(report, "warn")),
   new |-> Len(report.new), resolved |-> Len(report.resolved)]

\* WorstSeverity: the loudness of the push.
Worst(report) ==
  IF Of(report, "crit") # {} THEN "crit"
  ELSE IF Of(report, "warn") # {} THEN "warn" ELSE "info"

\* worstNew: the first of the new problems that no other one outranks.
WorstNew(report) ==
  LET new == SelectSeq(report.new, LAMBDA i : i \in Observed(report))
      crit == SelectSeq(new, LAMBDA i : report.severity[i] = "crit")
      warn == SelectSeq(new, LAMBDA i : report.severity[i] = "warn")
  IN IF crit # <<>> THEN crit[1] ELSE IF warn # <<>> THEN warn[1]
     ELSE IF new # <<>> THEN new[1] ELSE None

\* renderFallback: the story when there is none.
Fallback(report) ==
  [worst |-> Worst(report), new |-> WorstNew(report),
   open |-> report.new # <<>> \/ report.persisting # <<>>,
   incomplete |-> report.failed # {}]

\* Render: each section with its IDs; the resolved ones are named even when
\* they were not observed.
Markdown(report, story) ==
  [counts |-> Counts(report), story |-> IF story = None THEN Fallback(report) ELSE story,
   new |-> Rows(report, report.new), worsened |-> ToSet(report.worsened),
   reopened |-> Rows(report, report.reopened), notices |-> Notices(report),
   resolved |-> ToSet(report.resolved), open |-> Rows(report, report.persisting),
   failed |-> report.failed]

\* NtfyBody: the first of the new problems, or else of the open ones.
PushBody(report) ==
  LET ids == IF report.new = <<>> THEN report.persisting ELSE report.new
  IN [counts |-> Counts(report),
      shown |-> Rows(report, SubSeq(ids, 1, IF Len(ids) < PushLimit THEN Len(ids)
                                            ELSE PushLimit)),
      failed |-> report.failed]

-----------------------------------------------------------------------------
(* HTML                                                                    *)

NewAndReopened(report) ==   \* mutant: the section of the open problems is lost
  Rows(report, report.new) \cup Rows(report, report.reopened)
\* The sections with rows, in buildHTMLPageData: a problem that worsened is
\* among the open ones and not named a second time.
HtmlRows(report) ==
  Rows(report, report.new) \cup Rows(report, report.reopened)
  \cup Rows(report, report.persisting)

\* ByHost: the actionable observations of each subject; the first eight rows
\* with the worst first are shown (and here those that are equally bad).
ByHost(report, shown) ==
  LET subjects == {report.subject[i] : i \in Of(report, "crit") \cup Of(report, "warn")}
      Number(s, sev) == Cardinality({i \in Of(report, sev) : report.subject[i] = s})
      Total(s) == Number(s, "crit") + Number(s, "warn")
      Before(s, t) == \/ Number(s, "crit") > Number(t, "crit")
                      \/ /\ Number(s, "crit") = Number(t, "crit")
                         /\ Total(s) > Total(t)
  IN {s \in subjects : Cardinality({t \in subjects : Before(t, s)}) < shown}

\* Trend: the counts of the last days that have a file that can be read; the
\* report of today is not among them, for it is saved after it was sent.
\* `history` is a sequence of counts or None, oldest first.
Trend(history) ==
  LET from == IF Len(history) > TrendDays THEN Len(history) - TrendDays + 1 ELSE 1
  IN SelectSeq(SubSeq(history, from, Len(history)), LAMBDA c : c # None)

-----------------------------------------------------------------------------
(* The state of the hosts: system_state.go                                 *)

\* StateHosts, the mounts of one host: the fullest of those that are
\* interesting, or the fullest one when none is.  Mounts that are equally
\* full may be cut in any order here.
Mounts(used) ==
  LET notable == {m \in DOMAIN used : used[m] >= InterestingUsed}
      from == IF notable = {} THEN DOMAIN used ELSE notable
      limit == IF notable = {} THEN 1 ELSE MaxMounts
  IN {m \in from : Cardinality({n \in from : used[n] > used[m]}) < limit}

\* A host is shown as soon as one of the queries knows it.
StateHosts(state) ==
  LET known == [q \in {"memory", "load", "uptime"} |-> state[q]]
      hosts == DOMAIN state.mounts \cup UNION {DOMAIN known[q] : q \in DOMAIN known}
  IN [h \in hosts |->
        [mounts |-> IF h \in DOMAIN state.mounts THEN Mounts(state.mounts[h]) ELSE {},
         numbers |-> [q \in {x \in DOMAIN known : h \in DOMAIN known[x]} |-> known[q][h]]]]

\* StateBackupTargets with applyWdCloudDerivedUsage.  A target is [quota,
\* error, used]; `derived` is the usage that was observed for wd-cloud.
TargetRow(host, name, t, derived) ==
  LET filled == name = "wd-cloud" /\ t.used = None /\ derived # None
  IN [host |-> host, name |-> name,
      used |-> IF filled THEN derived ELSE t.used,
      note |-> IF filled THEN "" ELSE IF ~t.quota THEN "no quota API"
               ELSE IF t.error THEN "unreachable" ELSE ""]

\* The section is skipped when it failed or the host did not answer.
StateBackupTargets(sections, derived) ==
  UNION {{TargetRow(h, n, sections[h][n], derived) : n \in DOMAIN sections[h]} :
           h \in {x \in DOMAIN sections : sections[x] # None}}

\* StateNotes: what no limit makes a problem of, and is said nevertheless.
StateNotes(report) ==
  LET s == report.state
  IN (IF s.tokenDays # None /\ s.tokenDays <= TokenWarnDays
      THEN {<<"token", s.tokenDays>>} ELSE {})
     \cup {<<"crowdsec", h>> : h \in s.crowdsec}
     \cup {<<"dmarc", i>> : i \in s.dmarc \cap Of(report, "info")}
     \cup {<<"update", u>> : u \in s.updates}

-----------------------------------------------------------------------------
\* Headline: without a story the first sentence of the one that replaces it,
\* and no more of that one.
Headline(report, story) == IF story = None THEN Worst(report) ELSE story

Html(report, story) ==
  [counts |-> Counts(report), headline |-> Headline(report, story),
   rows |-> HtmlRows(report), notices |-> Notices(report),
   hosts |-> ByHost(report, 8), trend |-> Trend(report.state.history),
   state |-> StateHosts(report.state), notes |-> StateNotes(report), resolved |-> ToSet(report.resolved),
   failed |-> report.failed]
=============================================================================
