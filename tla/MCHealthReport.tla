-------------------------- MODULE MCHealthReport --------------------------
(***************************************************************************)
(* Instances of HealthReport: one collector, a plain threshold             *)
(* (disk usage), an age-gated one (security updates) and a log signature   *)
(* that only alerts when it is new.                                        *)
(***************************************************************************)
EXTENDS HealthReportMemory, TLC

BaseRule ==
  [type |-> "threshold", direction |-> "above", warn |-> 0, crit |-> None,
   minAge |-> None, factor |-> 3, floor |-> 0,
   level |-> "warn", subjects |-> {}, critValues |-> {}, warnValues |-> {},
   okValues |-> {}]

MCRule ==
  [i \in Ids |->
     CASE i = "disk"      -> [BaseRule EXCEPT !.crit = 1]
       [] i = "updates"   -> [BaseRule EXCEPT !.minAge = AgeCap]
       [] i = "signature" -> [BaseRule EXCEPT !.type = "new_only"]
       [] OTHER           -> [BaseRule EXCEPT !.type = "present"]]

MCSource == [i \in Conditions |-> CHOOSE c \in Collectors : TRUE]

AllCollectors == {Collectors}

\* Invocations differ in their names only.
RunSymmetry == Permutations(Runs)

\* What the timer and the manual invocations of the service's README use.
SendOnly    == {[send |-> TRUE, dry |-> FALSE]}
SendOrDry   == {[send |-> TRUE, dry |-> FALSE], [send |-> FALSE, dry |-> TRUE]}
===========================================================================
