------------------------------ MODULE Severity ------------------------------
(***************************************************************************)
(* The severity rules of the daily health report, translated from          *)
(* tools/internal/healthreport/severity.go.  A rule decides, from one      *)
(* observation alone, whether it is "info", "warn" or "crit"; everything   *)
(* the report later calls a problem was made one here.                     *)
(*                                                                         *)
(* An observation carries: its subject; `number`, the value as numeric()   *)
(* reads it, or None; `text`, the value as fmt.Sprint prints it; `truth`,  *)
(* whether truthy() accepts it; `previous`, the value remembered from the  *)
(* last run, or None; and `age`, the days since its FirstSeen, or None     *)
(* when no FirstSeen is recorded.                                          *)
(* The Notices section, which lists info observations, is left out.        *)
(***************************************************************************)
EXTENDS NoValue, Integers   \* None: an absent limit, value or timestamp

SeverityNames == {"info", "warn", "crit"}

\* SeverityRank of model.go: the position in the list info, warn, crit.
SeverityRank(severity) ==
  IF severity = "crit" THEN 2 ELSE IF severity = "warn" THEN 1 ELSE 0

Actionable(severity) == severity \in {"warn", "crit"}

\* A value breaches a limit that the rule has, on the rule's side of it.
Breaches(rule, value, limit) ==
  /\ limit # None
  /\ IF rule.direction = "above" THEN value > limit ELSE value < limit

\* The worst level whose limit the value breaches.
BreachedLevel(rule, value) ==
  IF Breaches(rule, value, rule.crit) THEN "crit"
  ELSE IF Breaches(rule, value, rule.warn) THEN "warn"
  ELSE "info"

\* min_age_days: an observation without a FirstSeen, or with a recent one,
\* is held back.
OldEnough(rule, obs) ==
  rule.minAge # None => (obs.age # None /\ obs.age >= rule.minAge)

\* The value has jumped by the spike factor over a positive baseline.
Spikes(rule, obs) ==
  /\ obs.previous # None
  /\ obs.previous > 0
  /\ obs.number >= rule.floor
  /\ obs.number >= obs.previous * rule.factor

InScope(rule, obs) == rule.subjects = {} \/ obs.subject \in rule.subjects

Threshold(rule, obs) ==
  IF obs.number # None /\ OldEnough(rule, obs)
  THEN BreachedLevel(rule, obs.number) ELSE "info"

SpikeFirst(rule, obs) ==   \* mutant: the spike is tried before the limits
  IF obs.number = None THEN "info"
  ELSE IF Spikes(rule, obs) THEN rule.level
  ELSE BreachedLevel(rule, obs.number)

ThresholdOrSpike(rule, obs) ==
  IF obs.number = None THEN "info"
  ELSE LET level == BreachedLevel(rule, obs.number)
       IN IF level = "info" /\ Spikes(rule, obs) THEN rule.level ELSE level

\* The rules that look at one property of the observation and have one level.
Matches(rule, obs, isNew) ==
  \/ rule.type = "not_equals" /\ obs.text \notin rule.okValues
  \/ rule.type = "truthy" /\ obs.truth
  \/ rule.type = "falsy" /\ ~obs.truth
  \/ rule.type = "present" /\ OldEnough(rule, obs)
  \/ rule.type = "new_only" /\ isNew

Equals(rule, obs) ==
  IF obs.text \in rule.critValues THEN "crit"
  ELSE IF obs.text \in rule.warnValues THEN "warn" ELSE "info"

\* Classify: the severity of one observation under the rule of its kind; an
\* unknown kind stays info.
Classify(rule, obs, isNew) ==
  IF ~InScope(rule, obs) THEN "info"
  ELSE IF rule.type = "threshold" THEN Threshold(rule, obs)
  ELSE IF rule.type = "threshold_or_spike" THEN ThresholdOrSpike(rule, obs)
  ELSE IF rule.type = "equals" THEN Equals(rule, obs)
  ELSE IF Matches(rule, obs, isNew) THEN rule.level
  ELSE "info"
=============================================================================
