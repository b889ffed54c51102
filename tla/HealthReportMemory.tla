------------------------- MODULE HealthReportMemory -------------------------
(***************************************************************************)
(* The seen file of HealthReport, read as a ProblemMemory.                 *)
(***************************************************************************)
EXTENDS HealthReportHistory

Status(record) ==
  IF record = None THEN "unknown"
  ELSE IF record.actionable THEN "alerted" ELSE "observed"

Unobserved(record) == IF record = None THEN 0 ELSE record.lastAge

Memory == INSTANCE ProblemMemory
            WITH status     <- [i \in Ids |-> Status(seen[i])],
                 unobserved <- [i \in Ids |-> Unobserved(seen[i])]

\* observations.json is a ProblemMemory: whatever a run decides, and wherever
\* it crashes, no identity is forgotten early and no former alert is demoted.
SeenIsMemory == Memory!MemorySpec
=============================================================================
