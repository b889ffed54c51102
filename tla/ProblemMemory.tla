--------------------------- MODULE ProblemMemory ---------------------------
(***************************************************************************)
(* What the seen-state of the health report promises, whatever crashes: an *)
(* identity once observed by a saved run is remembered, and remembered as  *)
(* a former alert once it was one, until no saved run has observed it for  *)
(* longer than the retention.  "new", "reopened" and the new_only rules    *)
(* mean what they say only because of this.                                *)
(***************************************************************************)
EXTENDS Integers

CONSTANTS Ids, Retention

VARIABLES
  status,      \* what is remembered of each identity
  unobserved   \* days since a saved run observed it

memory == <<status, unobserved>>

MemoryInit ==
  /\ status = [i \in Ids |-> "unknown"]
  /\ unobserved = [i \in Ids |-> 0]

\* A day passes; beyond the retention it no longer matters how many have.
Day ==
  /\ unobserved' = [i \in Ids |->
       IF status[i] = "unknown" THEN 0
       ELSE IF unobserved[i] <= Retention THEN unobserved[i] + 1
       ELSE unobserved[i]]
  /\ UNCHANGED status

\* A saved run has observed S and alerted for A, a part of S.
Record(S, A) ==
  LET Forgotten(i) == i \notin S /\ unobserved[i] > Retention
  IN /\ status' = [i \in Ids |->
          IF i \in A THEN "alerted"
          ELSE IF i \in S /\ status[i] = "unknown" THEN "observed"
          ELSE IF Forgotten(i) THEN "unknown"
          ELSE status[i]]
     /\ unobserved' = [i \in Ids |->
          IF i \in S \/ Forgotten(i) THEN 0 ELSE unobserved[i]]

MemoryNext == Day \/ \E S \in SUBSET Ids : \E A \in SUBSET S : Record(S, A)

MemorySpec == MemoryInit /\ [][MemoryNext]_memory
=============================================================================
