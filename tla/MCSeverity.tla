----------------------------- MODULE MCSeverity -----------------------------
(***************************************************************************)
(* Classify over every numeric rule and observation of a small range.  A   *)
(* behaviour takes one of each and lets the value get worse by one step    *)
(* after the other, as a disk that fills or an error rate that climbs.     *)
(***************************************************************************)
EXTENDS Severity

CONSTANTS
  Values,   \* the values of observations and limits
  Ages,     \* ages and minimal ages in days
  Factors, Floors   \* of spikes

ASSUME ValuesAssumption ==
  /\ Values \subseteq Int /\ Ages \subseteq Nat
  /\ Factors \subseteq Int /\ Floors \subseteq Int
  /\ None \notin Int

VARIABLES rule, obs

severityVars == <<rule, obs>>

Limits == Values \cup {None}

NumericRules ==
  [type: {"threshold", "threshold_or_spike"}, direction: {"above", "below"},
   warn: Limits, crit: Limits, minAge: Ages \cup {None},
   factor: Factors, floor: Floors, level: {"warn"}, subjects: {{}}]

\* A limit of rules.yml is met on the way to the worse one.
Ordered(r) ==
  r.warn # None /\ r.crit # None =>
    IF r.direction = "above" THEN r.warn <= r.crit ELSE r.warn >= r.crit

SeverityInit ==
  /\ rule \in {r \in NumericRules : Ordered(r)}
  /\ obs \in [subject: {""}, number: Values, previous: Limits,
              age: Ages \cup {None}]

Worse ==
  /\ obs' = [obs EXCEPT !.number = IF rule.direction = "above" THEN @ + 1
                                   ELSE @ - 1]
  /\ obs'.number \in Values
  /\ UNCHANGED rule

SeveritySpec == SeverityInit /\ [][Worse]_severityVars

Rank(r, o) == SeverityRank(Classify(r, o, FALSE))

\* A value that gets worse is never classified milder, although two levels,
\* an age gate and a spike compete for it.  (A spike is a rise: under a rule
\* with direction "below" it is not on the way of the limits.)
WorseIsNoMilder ==
  [][rule.type = "threshold" \/ rule.direction = "above" =>
       Rank(rule, obs') >= Rank(rule, obs)]_severityVars

\* The comment of threshold_or_spike: the spike "widens coverage rather than
\* trading one signal for another".
SpikeWidensCoverage ==
  rule.type = "threshold_or_spike" =>
    Rank(rule, obs) >=
      Rank([rule EXCEPT !.type = "threshold", !.minAge = None], obs)
=============================================================================
