------------------------------ MODULE Retention ------------------------------
(***************************************************************************)
(* Which dated copies of a backup are kept: the newest of each day, week   *)
(* and month, as far as the numbers go.  The nightly backup and the        *)
(* snapshots of its target choose in the same way (prune_history in        *)
(* backup.sh.epp, and snapshot.sh.epp).                                    *)
(*                                                                         *)
(* A stamp is a number; stamps are in the order of time.                   *)
(***************************************************************************)
EXTENDS Integers, Sequences, FiniteSets, FiniteSetsExt, SequencesExt

CONSTANTS
  RunsPerDay,  \* bound: stamps a day has
  Tiers        \* what is kept for days, weeks and months: [quota, length]

ASSUME RetentionAssumption ==
  /\ RunsPerDay \in Nat \ {0}
  /\ Tiers \in Seq([quota : Nat \ {0}, length : Nat \ {0}]) /\ Tiers # <<>>

DayOf(t) == t \div RunsPerDay
Bucket(i, t) == DayOf(t) \div Tiers[i].length

HasRoom(i, t, taken) ==
  Bucket(i, t) \notin taken[i] /\ Cardinality(taken[i]) < Tiers[i].quota

\* A copy is kept by the first tier that has room for it.
Place(choice, t) ==
  LET tiers == {i \in DOMAIN Tiers : HasRoom(i, t, choice.taken)}
  IN IF tiers = {} THEN choice
     ELSE LET i == Min(tiers)
          IN [kept |-> choice.kept \cup {t},
              taken |-> [choice.taken EXCEPT ![i] = @ \cup {Bucket(i, t)}]]

\* The stamps are gone through in the order of `sort -r`.
OldestFirst(n, last) == n - 1          \* mutant: sorted without -r
NewestFirst(n, last) == last + 1 - n

NoneKept == [kept |-> {}, taken |-> [i \in DOMAIN Tiers |-> {}]]

KeptStamps(stamps) ==
  LET last == Max(stamps \cup {0})
      choice[n \in 0..(last + 1)] ==
        IF n = 0 THEN NoneKept
        ELSE IF NewestFirst(n, last) \in stamps
             THEN Place(choice[n - 1], NewestFirst(n, last)) ELSE choice[n - 1]
  IN choice[last + 1].kept

Expired(stamps) == stamps \ KeptStamps(stamps)
=============================================================================
