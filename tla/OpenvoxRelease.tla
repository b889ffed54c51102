--------------------------- MODULE OpenvoxRelease ---------------------------
(***************************************************************************)
(* How a host gets a new configuration: scripts/openvox-sync.sh copies it  *)
(* into a release directory of its own, points the `production` symlink at *)
(* it, prunes old releases and runs `puppet apply`; a noop run copies and  *)
(* checks only; scripts/openvox-rollback.sh points the symlink at another  *)
(* release.  Jobs (CI workflows, operators) do this for one host, one at a *)
(* time within a concurrency group.                                        *)
(*                                                                         *)
(* A release is what each of its files was copied from: a revision of the  *)
(* repository, or None while it is missing.  Releases are numbered by      *)
(* their time stamps; two jobs never start in the same second, and the     *)
(* move to the release scheme has happened.  The shared Forge modules are  *)
(* not part of a release and are left out.                                 *)
(***************************************************************************)
EXTENDS Naturals, Sequences, FiniteSets

CONSTANTS
  None,
  Jobs, Group,       \* who deploys, and in which concurrency group
  Modes,             \* a subset of {"apply", "noop", "rollback"}
  Revs, FirstRev,    \* revisions of the repository; what the host starts with
  Deployed,          \* the revisions that are deployed
  Steps,             \* how far a rollback is asked to go
  Keep,              \* OPENVOX_RELEASE_KEEP
  MaxRuns,           \* bound: runs, the one that set the host up included
  Faulty, MaxFaults  \* which of the things that can fail do, and how often

ASSUME KeepAssumption == Keep \in Nat \ {0}
ASSUME RunsAssumption == MaxRuns \in Nat \ {0}
ASSUME RevAssumption ==
  FirstRev \in Revs /\ Deployed \subseteq Revs /\ None \notin Revs
ASSUME StepsAssumption == Steps \subseteq Nat \ {0}
ASSUME ModesAssumption == Modes \subseteq {"apply", "noop", "rollback"}
ASSUME FaultsAssumption == MaxFaults \in Nat

VARIABLES
  releases,    \* the directories under releases/
  mtime,       \* when each of them was last modified
  production,  \* the release the symlink names
  applied,     \* what the host was last configured from, None when in between
  jobs, runs, clock, faults

host == <<releases, mtime, production>>
vars == <<releases, mtime, production, applied, jobs, runs, clock, faults>>

Files == <<"manifests", "roles", "role", "hiera", "data">>
Names == {Files[k] : k \in 1..5}
Stamps == 1..MaxRuns
Contents == [Names -> Revs \cup {None}]
Of(rev) == [f \in Names |-> rev]

Idle == [pc |-> "idle", mode |-> "none", rev |-> None, dir |-> 1, next |-> 1,
         reading |-> 1, said |-> "none"]

Fault(kind) ==
  /\ kind \in Faulty
  /\ faults < MaxFaults
  /\ faults' = faults + 1

Exit(j, said) == jobs' = [jobs EXCEPT ![j].pc = "idle", ![j].said = said]
GoOn(j) == jobs' = [jobs EXCEPT ![j].pc = "swap"]   \* mutant: nobody looks
GiveUp(j) == Exit(j, "failed")
-----------------------------------------------------------------------------
(* Copying a release                                                       *)

Running(j) == jobs[j].pc # "idle"

SyncFirst == [apply |-> "mkdir", noop |-> "copy", rollback |-> "choose"]

Start(j) ==
  /\ \A i \in Jobs : Group[i] = Group[j] => ~Running(i)
  /\ runs < MaxRuns
  /\ runs' = runs + 1
  /\ \E mode \in Modes, rev \in Deployed :
       jobs' = [jobs EXCEPT ![j] = [Idle EXCEPT !.pc = SyncFirst[mode],
                                                !.mode = mode, !.rev = rev,
                                                !.dir = runs + 1]]
  /\ UNCHANGED <<host, applied, clock, faults>>

MakeRelease(j) ==
  /\ jobs[j].pc = "mkdir"
  /\ releases' = [releases EXCEPT ![jobs[j].dir] = Of(None)]
  /\ mtime' = [mtime EXCEPT ![jobs[j].dir] = clock + 1]
  /\ clock' = clock + 1
  /\ jobs' = [jobs EXCEPT ![j].pc = "copy"]
  /\ UNCHANGED <<production, applied, runs, faults>>

\* A noop copies to where the symlink leads.
Target(j) == IF jobs[j].mode = "apply" THEN jobs[j].dir ELSE production

NextFile(k) == IF k = Len(Files) THEN 1 ELSE k + 1

\* hiera.yaml lies in the release directory itself: rsync replaces it there,
\* which modifies the directory.
Copy(j) ==
  LET file == Files[jobs[j].next] IN
  /\ jobs[j].pc = "copy"
  /\ releases[Target(j)] # None
  /\ releases' = [releases EXCEPT ![Target(j)][file] = jobs[j].rev]
  /\ IF file = "hiera"
     THEN /\ mtime' = [mtime EXCEPT ![Target(j)] = clock + 1]
          /\ clock' = clock + 1
     ELSE UNCHANGED <<mtime, clock>>
  /\ jobs' = [jobs EXCEPT ![j].next = NextFile(@),
                          ![j].pc = IF jobs[j].next = Len(Files)
                                    THEN "check" ELSE "copy"]
  /\ UNCHANGED <<production, applied, runs, faults>>

\* modules/roles was made with the release, so its presence says nothing.
Complete(r) == releases[r] # None /\ releases[r]["manifests"] # None
                                  /\ releases[r]["hiera"] # None

Check(j) ==
  /\ jobs[j].pc = "check"
  /\ Complete(Target(j))
  /\ jobs' = [jobs EXCEPT ![j].pc = IF jobs[j].mode = "apply"
                                    THEN "swap" ELSE "apply"]
  /\ UNCHANGED <<host, applied, runs, clock, faults>>

\* A connection or a transfer fails, or the directory is gone or incomplete.
CopyFails(j) ==
  /\ \/ jobs[j].pc \in {"mkdir", "copy", "check", "choose"} /\ Fault("copy")
     \/ /\ \/ jobs[j].pc = "copy" /\ releases[Target(j)] = None
           \/ jobs[j].pc = "check" /\ ~Complete(Target(j))
        /\ UNCHANGED faults
  /\ GiveUp(j)
  /\ UNCHANGED <<host, applied, runs, clock>>
-----------------------------------------------------------------------------
(* Activating it                                                           *)

Newer(r) == {s \in Stamps : releases[s] # None /\ mtime[s] > mtime[r]}
KeepOldest(r) ==                                    \* mutant: ls -1dtr
  Cardinality({s \in Stamps : releases[s] # None /\ mtime[s] < mtime[r]}) < Keep
KeepOneLess(r) == Cardinality(Newer(r)) < Keep - 1  \* mutant: tail -n +Keep
Kept(r) == Cardinality(Newer(r)) < Keep

SwapUnpruned(j) ==
  /\ production' = jobs[j].dir
  /\ UNCHANGED <<releases, mtime>>

Swap(j) ==
  /\ jobs[j].pc = "swap"
  /\ jobs[j].mode = "apply"
  /\ production' = jobs[j].dir
  /\ releases' = [r \in Stamps |-> IF Kept(r) THEN releases[r] ELSE None]
  /\ jobs' = [jobs EXCEPT ![j].pc = "apply"]
  /\ UNCHANGED <<mtime, applied, runs, clock, faults>>

\* The connection is lost before the symlink is renamed, or before old
\* releases are pruned; neither script looks at the exit status.
SwapFails(j) ==
  /\ jobs[j].pc = "swap"
  /\ Fault("swap")
  /\ UNCHANGED host \/ SwapUnpruned(j)
  /\ jobs' = [jobs EXCEPT ![j].pc = "apply"]
  /\ UNCHANGED <<applied, runs, clock>>
-----------------------------------------------------------------------------
(* puppet apply: it reads the manifests first and files while it runs, all *)
(* of them through the symlink.                                            *)

BeginApply(j) ==
  /\ jobs[j].pc = "apply"
  /\ jobs' = [jobs EXCEPT ![j].pc = "applying", ![j].reading = production]
  /\ UNCHANGED <<host, applied, runs, clock, faults>>

EndApply(j) ==
  /\ jobs[j].pc = "applying"
  /\ Complete(jobs[j].reading)
  /\ IF jobs[j].mode = "noop" THEN UNCHANGED applied
     ELSE \/ applied' = releases[jobs[j].reading]
          \/ Complete(production) /\ applied' = releases[production]
  /\ Exit(j, "ok")
  /\ UNCHANGED <<host, runs, clock, faults>>

\* When single resources fail, puppet still exits with 0: openvox-sync.sh
\* finds the errors in the log, openvox-rollback.sh does not look for them.
TrustsPuppet(j) == Complete(jobs[j].reading)   \* mutant: neither does
MaySayOk(j) == jobs[j].mode = "rollback" /\ Complete(jobs[j].reading)

ApplyFails(j) ==
  /\ jobs[j].pc = "applying"
  /\ \/ Fault("apply")
     \/ ~Complete(jobs[j].reading) /\ UNCHANGED faults
  /\ applied' = IF jobs[j].mode = "noop" THEN applied ELSE None
  /\ \/ Exit(j, "failed")
     \/ MaySayOk(j) /\ Exit(j, "ok")
  /\ UNCHANGED <<host, runs, clock>>

\* A workflow is cancelled, an operator's machine goes away.
Interrupt(j) ==
  /\ Running(j)
  /\ Fault("interrupt")
  /\ applied' = IF jobs[j].pc = "applying" /\ jobs[j].mode # "noop"
                THEN None ELSE applied
  /\ Exit(j, "none")
  /\ UNCHANGED <<host, runs, clock>>
-----------------------------------------------------------------------------
(* Rolling back                                                            *)

\* `ls -1dt releases/*/`, the current one left out, and of it line `steps`.
Candidate(r, steps) ==
  /\ releases[r] # None /\ r # production
  /\ Cardinality(Newer(r) \ {production}) = steps - 1

Choose(j) ==
  /\ jobs[j].pc = "choose"
  /\ \E steps \in Steps, r \in Stamps :
       /\ Candidate(r, steps)
       /\ jobs' = [jobs EXCEPT ![j].pc = "swap", ![j].dir = r]
  /\ UNCHANGED <<host, applied, runs, clock, faults>>

NothingToRollBackTo(j) ==
  /\ jobs[j].pc = "choose"
  /\ \E steps \in Steps : \A r \in Stamps : ~Candidate(r, steps)
  /\ Exit(j, "failed")
  /\ UNCHANGED <<host, applied, runs, clock, faults>>

SwapBack(j) ==
  /\ jobs[j].pc = "swap"
  /\ jobs[j].mode = "rollback"
  /\ SwapUnpruned(j)
  /\ jobs' = [jobs EXCEPT ![j].pc = "apply"]
  /\ UNCHANGED <<applied, runs, clock, faults>>
-----------------------------------------------------------------------------
Init ==
  /\ releases = [r \in Stamps |-> IF r = 1 THEN Of(FirstRev) ELSE None]
  /\ mtime = [r \in Stamps |-> 0]
  /\ production = 1
  /\ applied = Of(FirstRev)
  /\ jobs = [j \in Jobs |-> Idle]
  /\ runs = 1 /\ clock = 0 /\ faults = 0

Step(j) ==
  \/ MakeRelease(j) \/ Copy(j) \/ Check(j) \/ Swap(j)
  \/ BeginApply(j) \/ EndApply(j)
  \/ Choose(j) \/ NothingToRollBackTo(j) \/ SwapBack(j)

Fail(j) == CopyFails(j) \/ SwapFails(j) \/ ApplyFails(j) \/ Interrupt(j)

Next == \E j \in Jobs : Start(j) \/ Step(j) \/ Fail(j)

Spec == Init /\ [][Next]_vars

\* A job that was started goes on, and deployments are repeated.
FairSpec ==
  /\ Spec
  /\ \A j \in Jobs : WF_vars(Step(j) \/ Fail(j)) /\ WF_vars(Start(j))
-----------------------------------------------------------------------------
(* Properties                                                              *)

JobRecord ==
  [pc: {"idle", "mkdir", "copy", "check", "swap", "apply", "applying",
        "choose"},
   mode: {"none", "apply", "noop", "rollback"}, rev: Revs \cup {None},
   dir: Stamps, next: 1..5, reading: Stamps,
   said: {"none", "ok", "failed"}]

TypeOK ==
  /\ releases \in [Stamps -> Contents \cup {None}]
  /\ mtime \in [Stamps -> Nat]
  /\ production \in Stamps
  /\ applied \in Contents \cup {None}
  /\ jobs \in [Jobs -> JobRecord]
  /\ runs \in Stamps
  /\ clock \in Nat
  /\ faults \in 0..MaxFaults

Whole(r) == \E rev \in Revs : releases[r] = Of(rev)

\* The symlink always leads to a release that is there, with every file of it
\* from one revision: production is never missing or partial.
LiveIsWhole == Whole(production)

\* Only a rollback or a noop can take that away: no
\* deployment does, wherever it fails, is cut off, or prunes.
DeployKeepsLiveWhole ==
  [][LiveIsWhole /\ ~LiveIsWhole' =>
       \E j \in Jobs : jobs[j].mode # "apply" /\ jobs'[j] # jobs[j]]_vars

\* While every release is whole and there is one besides the live one, pruning
\* and swapping leave one: a bad deployment can be undone.
WayBack == \E r \in Stamps : r # production /\ Whole(r)
AllWhole == \A r \in Stamps : releases[r] # None => Whole(r)
KeepsAWayBack == [][AllWhole /\ WayBack => WayBack']_vars

SaidOk(j) == jobs[j].pc = "idle" /\ jobs[j].mode = "apply" /\ jobs[j].said = "ok"

\* When a deployment ends with OK and its release is production, the host was
\* configured from every file of the revision it was started with.
ActiveIsApplied ==
  \A j \in Jobs : SaidOk(j) /\ production = jobs[j].dir
                   => applied = Of(jobs[j].rev)

\* A rollback leads to a release that is older than the current one.
RollbackGoesBack ==
  [][\A j \in Jobs : Choose(j) => jobs'[j].dir < production]_vars

\* A new revision that is deployed again and again is applied at last, and a
\* host is left in between only until then.
NewRevisionIsApplied == <>(\E rev \in Revs \ {FirstRev} : applied = Of(rev))
=============================================================================
