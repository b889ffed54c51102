----------------------- MODULE OpenvoxRelease_proofs -----------------------
(***************************************************************************)
(* Theorems about OpenvoxRelease, for any number of jobs and runs, any     *)
(* revisions, and any failures.                                            *)
(***************************************************************************)
EXTENDS OpenvoxRelease, FiniteSetTheorems, Loops, TLAPS

LEMMA FilesFacts ==
  /\ Len(Files) = 5
  /\ \A k \in 1..5 : Files[k] \in Names
  /\ \A f \in Names : \E k \in 1..5 : f = Files[k]
BY DEF Files, Names

LEMMA StampsFacts == 1 \in Stamps /\ \A r \in Stamps : r \in Nat
BY RunsAssumption DEF Stamps

LEMMA ContentsType == \A rev \in Revs \cup {None} : Of(rev) \in Contents
BY DEF Of, Contents

LEMMA IdleType == Idle \in JobRecord
BY StampsFacts DEF Idle, JobRecord

LEMMA TargetType ==
  ASSUME TypeOK, NEW j \in Jobs
  PROVE  Target(j) \in Stamps
BY DEF TypeOK, JobRecord, Target

LEMMA FaultType ==
  ASSUME TypeOK, NEW kind, Fault(kind)
  PROVE  faults' \in 0..MaxFaults
BY FaultsAssumption DEF Fault, TypeOK

LEMMA ExitType ==
  ASSUME TypeOK, NEW j \in Jobs, NEW said \in {"none", "ok", "failed"},
         Exit(j, said)
  PROVE  jobs' \in [Jobs -> JobRecord]
<1>1. jobs[j] \in JobRecord
  BY DEF TypeOK
<1>2. [jobs[j] EXCEPT !.pc = "idle", !.said = said] \in JobRecord
  BY <1>1 DEF JobRecord
<1>3. jobs' = [jobs EXCEPT ![j] = [jobs[j] EXCEPT !.pc = "idle", !.said = said]]
  BY DEF TypeOK, Exit
<1>. QED
  BY <1>2, <1>3 DEF TypeOK

-----------------------------------------------------------------------------
(* Type correctness                                                        *)

LEMMA InitType == Init => TypeOK
BY StampsFacts, ContentsType, IdleType, RevAssumption, FaultsAssumption,
   RunsAssumption
   DEF Init, TypeOK

LEMMA StartType ==
  ASSUME TypeOK, NEW j \in Jobs, Start(j)
  PROVE  TypeOK'
<1>1. runs + 1 \in Stamps
  BY RunsAssumption DEF TypeOK, Stamps, Start
<1>2. PICK mode \in Modes, rev \in Deployed :
        jobs' = [jobs EXCEPT ![j] = [Idle EXCEPT !.pc = SyncFirst[mode],
                                                 !.mode = mode, !.rev = rev,
                                                 !.dir = runs + 1]]
  BY DEF Start
<1>3. mode \in {"apply", "noop", "rollback"} /\ rev \in Revs
  BY ModesAssumption, RevAssumption
<1>4. SyncFirst[mode] \in {"mkdir", "copy", "choose"}
  BY <1>3 DEF SyncFirst
<1>5. jobs' \in [Jobs -> JobRecord]
  <2>1. [Idle EXCEPT !.pc = SyncFirst[mode], !.mode = mode, !.rev = rev,
                     !.dir = runs + 1] \in JobRecord
    BY <1>1, <1>3, <1>4, IdleType DEF JobRecord
  <2>. QED
    BY <1>2, <2>1 DEF TypeOK
<1>. QED
  BY <1>1, <1>5 DEF TypeOK, Start, host

LEMMA CopyType ==
  ASSUME TypeOK, NEW j \in Jobs, Copy(j)
  PROVE  TypeOK'
<1>1. /\ jobs[j].next \in 1..5 /\ jobs[j].rev \in Revs \cup {None}
      /\ Target(j) \in Stamps
  BY TargetType DEF TypeOK, JobRecord
<1>2. releases' \in [Stamps -> Contents \cup {None}]
  BY <1>1 DEF TypeOK, Copy, Contents
<1>3. jobs' \in [Jobs -> JobRecord]
  <2>1. NextFile(jobs[j].next) \in 1..5
    BY <1>1, FilesFacts DEF NextFile
  <2>2. PICK pc \in {"check", "copy"} :
          jobs' = [jobs EXCEPT ![j].next = NextFile(jobs[j].next), ![j].pc = pc]
    BY DEF TypeOK, Copy
  <2>3. [jobs[j] EXCEPT !.next = NextFile(jobs[j].next), !.pc = pc] \in JobRecord
    BY <2>1 DEF TypeOK, JobRecord
  <2>4. jobs' = [jobs EXCEPT ![j] = [jobs[j] EXCEPT
                   !.next = NextFile(jobs[j].next), !.pc = pc]]
    BY <2>2 DEF TypeOK
  <2>. QED
    BY <2>3, <2>4 DEF TypeOK
<1>4. mtime' \in [Stamps -> Nat] /\ clock' \in Nat
  BY <1>1 DEF TypeOK, Copy
<1>. QED
  BY <1>2, <1>3, <1>4 DEF TypeOK, Copy

LEMMA StepType ==
  ASSUME TypeOK, NEW j \in Jobs, Step(j)
  PROVE  TypeOK'
<1>1. CASE MakeRelease(j)
  BY <1>1, ContentsType DEF TypeOK, JobRecord, MakeRelease
<1>2. CASE Copy(j)
  BY <1>2, CopyType
<1>3. CASE Check(j)
  BY <1>3 DEF TypeOK, JobRecord, Check, host
<1>4. CASE Swap(j)
  BY <1>4 DEF TypeOK, JobRecord, Swap
<1>5. CASE BeginApply(j)
  <2>1. [jobs[j] EXCEPT !.pc = "applying", !.reading = production] \in JobRecord
    BY DEF TypeOK, JobRecord
  <2>2. jobs' = [jobs EXCEPT ![j] = [jobs[j] EXCEPT !.pc = "applying",
                                                    !.reading = production]]
    BY <1>5 DEF TypeOK, BeginApply
  <2>. QED
    BY <1>5, <2>1, <2>2 DEF TypeOK, BeginApply, host
<1>6. CASE EndApply(j)
  <2>1. jobs' \in [Jobs -> JobRecord]
    BY <1>6, ExitType DEF EndApply
  <2>2. jobs[j].reading \in Stamps
    BY DEF TypeOK, JobRecord
  <2>. QED
    BY <1>6, <2>1, <2>2 DEF TypeOK, EndApply, host
<1>7. CASE Choose(j)
  <2>1. PICK r \in Stamps : jobs' = [jobs EXCEPT ![j].pc = "swap", ![j].dir = r]
    BY <1>7 DEF Choose
  <2>2. [jobs[j] EXCEPT !.pc = "swap", !.dir = r] \in JobRecord
    BY DEF TypeOK, JobRecord
  <2>3. jobs' = [jobs EXCEPT ![j] = [jobs[j] EXCEPT !.pc = "swap", !.dir = r]]
    BY <2>1 DEF TypeOK
  <2>. QED
    BY <1>7, <2>2, <2>3 DEF TypeOK, Choose, host
<1>8. CASE NothingToRollBackTo(j)
  <2>1. jobs' \in [Jobs -> JobRecord]
    BY <1>8, ExitType DEF NothingToRollBackTo
  <2>. QED
    BY <1>8, <2>1 DEF TypeOK, NothingToRollBackTo, host
<1>9. CASE SwapBack(j)
  BY <1>9 DEF TypeOK, JobRecord, SwapBack, SwapUnpruned
<1>. QED
  BY <1>1, <1>2, <1>3, <1>4, <1>5, <1>6, <1>7, <1>8, <1>9 DEF Step

LEMMA FailType ==
  ASSUME TypeOK, NEW j \in Jobs, Fail(j)
  PROVE  TypeOK'
<1>1. CASE CopyFails(j)
  <2>1. jobs' \in [Jobs -> JobRecord]
    BY <1>1, ExitType DEF CopyFails, GiveUp
  <2>. QED
    BY <1>1, <2>1, FaultType DEF TypeOK, CopyFails, host
<1>2. CASE SwapFails(j)
  BY <1>2, FaultType DEF TypeOK, JobRecord, SwapFails, SwapUnpruned, host
<1>3. CASE ApplyFails(j)
  <2>1. jobs' \in [Jobs -> JobRecord]
    BY <1>3, ExitType DEF ApplyFails
  <2>. QED
    BY <1>3, <2>1, FaultType DEF TypeOK, ApplyFails, host
<1>4. CASE Interrupt(j)
  <2>1. jobs' \in [Jobs -> JobRecord]
    BY <1>4, ExitType DEF Interrupt
  <2>. QED
    BY <1>4, <2>1, FaultType DEF TypeOK, Interrupt, host
<1>. QED
  BY <1>1, <1>2, <1>3, <1>4 DEF Fail

LEMMA NextType == TypeOK /\ [Next]_vars => TypeOK'
<1> SUFFICES ASSUME TypeOK, [Next]_vars
             PROVE  TypeOK'
  OBVIOUS
<1>1. CASE Next
  BY <1>1, StartType, StepType, FailType DEF Next
<1>2. CASE UNCHANGED vars
  BY <1>2 DEF TypeOK, vars
<1>. QED
  BY <1>1, <1>2

\* The directories, the symlink and every job keep their types.
THEOREM TypeCorrect == Spec => []TypeOK
<1>. QED
  BY InitType, NextType, PTL DEF Spec

-----------------------------------------------------------------------------
(* A deployment never takes a whole production away                        *)

\* All jobs are in one concurrency group.
OneGroup == \A i, j \in Jobs : Group[i] = Group[j]

Alone == \A i, j \in Jobs : Running(i) /\ Running(j) => i = j

\* The steps of a job are those of its mode.
InMode ==
  \A j \in Jobs : Running(j) =>
    /\ jobs[j].rev \in Revs
    /\ jobs[j].pc = "mkdir" => jobs[j].mode = "apply"
    /\ jobs[j].pc \in {"copy", "check"} => jobs[j].mode \in {"apply", "noop"}
    /\ jobs[j].pc = "choose" => jobs[j].mode = "rollback"

\* Releases have been numbered up to `runs`.
Numbered ==
  /\ production <= runs
  /\ \A j \in Jobs : Running(j) => jobs[j].dir <= runs
  /\ \A r \in Stamps : r > runs => releases[r] = None

Deploying(j) ==
  jobs[j].mode = "apply" /\ jobs[j].pc \in {"mkdir", "copy", "check", "swap"}

\* Until the swap, production is another release than the one that is copied;
\* what has been copied is of the job's revision; and its directory is the
\* newest, so that pruning spares it.
Fresh == \A j \in Jobs : Deploying(j) => jobs[j].dir # production
Copied ==
  \A j \in Jobs : Deploying(j) =>
    /\ jobs[j].pc = "mkdir" => jobs[j].next = 1
    /\ jobs[j].pc = "copy" =>
         /\ releases[jobs[j].dir] \in Contents
         /\ \A k \in 1..5 : k < jobs[j].next =>
              releases[jobs[j].dir][Files[k]] = jobs[j].rev
    /\ jobs[j].pc \in {"check", "swap"} =>
         releases[jobs[j].dir] = Of(jobs[j].rev)
Newest ==
  /\ \A r \in Stamps : mtime[r] <= clock
  /\ \A j \in Jobs : Deploying(j) /\ jobs[j].pc # "mkdir" =>
       \A r \in Stamps \ {jobs[j].dir} : mtime[r] < mtime[jobs[j].dir]

Inv == TypeOK /\ Alone /\ InMode /\ Numbered /\ Fresh /\ Copied /\ Newest

LEMMA InitInv == Init => Inv
BY InitType, StampsFacts
   DEF Init, Inv, Alone, InMode, Numbered, Fresh, Copied, Newest, Deploying,
       Running, Idle

\* A step that only ends a run, or moves a job on that is not deploying.
LEMMA Others ==
  ASSUME Inv, NEW j \in Jobs, UNCHANGED <<host, runs, clock>>, TypeOK',
         \A i \in Jobs \ {j} : jobs'[i] = jobs[i],
         Running(j),
         jobs'[j].mode = jobs[j].mode, jobs'[j].rev = jobs[j].rev,
         jobs'[j].dir = jobs[j].dir, jobs'[j].pc \in {"idle", "apply", "applying"}
  PROVE  Inv'
BY DEF Inv, Alone, InMode, Numbered, Fresh, Copied, Newest, Deploying, Running,
       host

\* While one job runs, no other one is deploying.
LEMMA OnlyOne ==
  ASSUME Inv, NEW j \in Jobs, Running(j), NEW i \in Jobs \ {j}
  PROVE  ~Running(i) /\ ~Deploying(i) /\ jobs[i].pc = "idle"
BY DEF Inv, Alone, Running, Deploying

LEMMA StartInv ==
  ASSUME OneGroup, Inv, NEW j \in Jobs, Start(j)
  PROVE  Inv'
<1>1. TypeOK'
  BY StartType DEF Inv
<1>2. PICK mode \in Modes, rev \in Deployed :
        jobs' = [jobs EXCEPT ![j] = [Idle EXCEPT !.pc = SyncFirst[mode],
                                                 !.mode = mode, !.rev = rev,
                                                 !.dir = runs + 1]]
  BY DEF Start
<1>3. /\ jobs'[j].pc = SyncFirst[mode] /\ jobs'[j].mode = mode
      /\ jobs'[j].rev = rev /\ jobs'[j].dir = runs + 1 /\ jobs'[j].next = 1
      /\ \A i \in Jobs \ {j} : jobs'[i] = jobs[i]
  BY <1>2 DEF Inv, TypeOK, Idle
<1>4. /\ mode \in {"apply", "noop", "rollback"} /\ rev \in Revs
      /\ mode = "apply" => SyncFirst[mode] = "mkdir"
      /\ mode = "noop" => SyncFirst[mode] = "copy"
      /\ mode = "rollback" => SyncFirst[mode] = "choose"
  BY ModesAssumption, RevAssumption DEF SyncFirst
<1>5. \A i \in Jobs : ~Running(i)
  BY DEF OneGroup, Start
<1>6. \A i \in Jobs \ {j} : ~Running(i)' /\ ~Deploying(i)'
  BY <1>3, <1>5 DEF Running, Deploying
<1>7. /\ UNCHANGED <<releases, mtime, production, clock>> /\ runs' = runs + 1
      /\ runs \in Nat
  BY StampsFacts DEF Inv, TypeOK, Start, host
<1>8. Alone' /\ InMode'
  BY <1>3, <1>4, <1>6 DEF Alone, InMode
<1>9. Numbered' /\ Fresh'
  BY <1>3, <1>6, <1>7, StampsFacts DEF Inv, TypeOK, Numbered, Fresh
<1>10. Copied' /\ Newest'
  BY <1>3, <1>4, <1>6, <1>7 DEF Inv, Copied, Newest, Deploying
<1>. QED
  BY <1>1, <1>8, <1>9, <1>10 DEF Inv

LEMMA MakeReleaseInv ==
  ASSUME Inv, NEW j \in Jobs, MakeRelease(j)
  PROVE  Inv'
<1>1. TypeOK'
  BY StepType DEF Inv, Step
<1>2. /\ Running(j) /\ jobs[j].pc = "mkdir" /\ jobs[j].mode = "apply"
      /\ jobs[j].dir \in Stamps /\ jobs[j].dir <= runs /\ jobs[j].next = 1
      /\ jobs[j].dir # production
  BY DEF Inv, TypeOK, JobRecord, InMode, Numbered, Fresh, Copied, Deploying,
         Running, MakeRelease
<1>3. /\ jobs'[j] = [jobs[j] EXCEPT !.pc = "copy"]
      /\ \A i \in Jobs \ {j} : jobs'[i] = jobs[i]
  BY DEF Inv, TypeOK, MakeRelease
<1>4. /\ jobs'[j].pc = "copy" /\ jobs'[j].mode = "apply" /\ jobs'[j].next = 1
      /\ jobs'[j].dir = jobs[j].dir /\ jobs'[j].rev = jobs[j].rev
  BY <1>2, <1>3 DEF Inv, TypeOK, JobRecord
<1>5. \A i \in Jobs \ {j} : ~Running(i)' /\ ~Deploying(i)'
  BY <1>2, <1>3, OnlyOne DEF Running, Deploying
<1>6. Alone' /\ InMode'
  BY <1>2, <1>4, <1>5 DEF Inv, Alone, InMode
<1>7. Numbered' /\ Fresh'
  BY <1>2, <1>4, <1>5, StampsFacts
     DEF Inv, TypeOK, Numbered, Fresh, MakeRelease
<1>8. Copied'
  BY <1>2, <1>4, <1>5, ContentsType DEF Inv, TypeOK, Copied, MakeRelease
<1>9. Newest'
  BY <1>2, <1>4, <1>5 DEF Inv, TypeOK, Newest, MakeRelease
<1>. QED
  BY <1>1, <1>6, <1>7, <1>8, <1>9 DEF Inv

LEMMA CopyInv ==
  ASSUME Inv, NEW j \in Jobs, Copy(j)
  PROVE  Inv'
<1>1. TypeOK'
  BY CopyType DEF Inv
<1>2. /\ Running(j) /\ jobs[j].pc = "copy" /\ jobs[j].mode \in {"apply", "noop"}
      /\ jobs[j].dir \in Stamps /\ jobs[j].dir <= runs /\ jobs[j].next \in 1..5
      /\ jobs[j].rev \in Revs /\ Target(j) \in Stamps /\ Target(j) <= runs
  BY TargetType
     DEF Inv, TypeOK, JobRecord, InMode, Numbered, Running, Copy, Target
<1>3. /\ jobs'[j].pc = (IF jobs[j].next = 5 THEN "check" ELSE "copy")
      /\ jobs'[j].next = NextFile(jobs[j].next)
      /\ jobs'[j].mode = jobs[j].mode /\ jobs'[j].rev = jobs[j].rev
      /\ jobs'[j].dir = jobs[j].dir
      /\ \A i \in Jobs \ {j} : jobs'[i] = jobs[i]
  BY FilesFacts DEF Inv, TypeOK, JobRecord, Copy
<1>4. \A i \in Jobs \ {j} : ~Running(i)' /\ ~Deploying(i)'
  BY <1>2, <1>3, OnlyOne DEF Running, Deploying
<1>5. /\ \A r \in Stamps \ {Target(j)} : releases'[r] = releases[r]
      /\ releases'[Target(j)] =
           [releases[Target(j)] EXCEPT ![Files[jobs[j].next]] = jobs[j].rev]
      /\ UNCHANGED <<production, runs>>
  BY <1>2 DEF Inv, TypeOK, Copy
<1>6. Alone' /\ InMode'
  BY <1>2, <1>3, <1>4 DEF Inv, Alone, InMode
<1>7. Numbered' /\ Fresh'
  BY <1>2, <1>3, <1>4, <1>5, StampsFacts
     DEF Inv, TypeOK, Numbered, Fresh, Deploying
<1>8. Copied'
  <2>1. CASE jobs[j].mode = "noop"
    BY <2>1, <1>3, <1>4 DEF Copied, Deploying
  <2>2. CASE jobs[j].mode = "apply"
    <3>1. Target(j) = jobs[j].dir /\ releases[jobs[j].dir] \in Contents
          /\ \A k \in 1..5 : k < jobs[j].next =>
               releases[jobs[j].dir][Files[k]] = jobs[j].rev
      BY <2>2, <1>2 DEF Target, Inv, Copied, Deploying
    <3>2. releases'[jobs[j].dir] \in Contents
      BY <3>1, <1>2, <1>5, FilesFacts DEF Contents
    <3>3. \A k \in 1..5 : k < jobs[j].next + 1 =>
            releases'[jobs[j].dir][Files[k]] = jobs[j].rev
      BY <3>1, <1>2, <1>5, FilesFacts DEF Contents
    <3>4. CASE jobs[j].next = 5
      <4>1. releases'[jobs[j].dir] = Of(jobs[j].rev)
        BY <3>2, <3>3, <3>4, FilesFacts DEF Contents, Of
      <4>. QED
        BY <4>1, <3>4, <1>3, <1>4 DEF Copied
    <3>5. CASE jobs[j].next # 5
      BY <3>2, <3>3, <3>5, <1>2, <1>3, <1>4, FilesFacts DEF Copied, NextFile
    <3>. QED
      BY <3>4, <3>5
  <2>. QED
    BY <1>2, <2>1, <2>2
<1>9. Newest'
  <2>1. \A r \in Stamps : mtime'[r] <= clock'
    <3>1. /\ clock \in Nat /\ mtime \in [Stamps -> Nat]
          /\ \A r \in Stamps : mtime[r] <= clock
      BY DEF Inv, TypeOK, Newest
    <3>2. \/ /\ mtime' = [mtime EXCEPT ![Target(j)] = clock + 1]
             /\ clock' = clock + 1
          \/ UNCHANGED <<mtime, clock>>
      BY DEF Copy
    <3>. QED
      BY <3>1, <3>2, <1>2
  <2>2. CASE jobs[j].mode = "noop"
    BY <2>1, <2>2, <1>3, <1>4 DEF Newest, Deploying
  <2>3. CASE jobs[j].mode = "apply"
    <3>1. /\ Target(j) = jobs[j].dir
          /\ \A r \in Stamps \ {jobs[j].dir} : mtime[r] < mtime[jobs[j].dir]
      BY <2>3, <1>2 DEF Target, Inv, Newest, Deploying
    <3>2. \A r \in Stamps \ {jobs[j].dir} : mtime'[r] < mtime'[jobs[j].dir]
      BY <3>1, <1>2 DEF Inv, TypeOK, Newest, Copy
    <3>. QED
      BY <2>1, <3>2, <1>3, <1>4 DEF Newest
  <2>. QED
    BY <1>2, <2>2, <2>3
<1>. QED
  BY <1>1, <1>6, <1>7, <1>8, <1>9 DEF Inv

LEMMA ChooseInv ==
  ASSUME Inv, NEW j \in Jobs, Choose(j)
  PROVE  Inv'
<1>1. TypeOK'
  BY StepType DEF Inv, Step
<1>2. PICK r \in Stamps : /\ releases[r] # None
                          /\ jobs' = [jobs EXCEPT ![j].pc = "swap", ![j].dir = r]
  BY DEF Choose, Candidate
<1>3. /\ Running(j) /\ jobs[j].mode = "rollback" /\ r <= runs
      /\ UNCHANGED <<host, runs, clock>>
  <2>1. r <= runs
    BY <1>2, StampsFacts DEF Inv, TypeOK, Numbered
  <2>. QED
    BY <2>1 DEF Inv, InMode, Running, Choose
<1>4. /\ jobs'[j].pc = "swap" /\ jobs'[j].mode = "rollback"
      /\ jobs'[j].dir = r /\ jobs'[j].rev = jobs[j].rev
      /\ \A i \in Jobs \ {j} : jobs'[i] = jobs[i]
  BY <1>2, <1>3 DEF Inv, TypeOK, JobRecord
<1>5. \A i \in Jobs \ {j} : ~Running(i)' /\ ~Deploying(i)'
  BY <1>3, <1>4, OnlyOne DEF Running, Deploying
<1>6. ~Deploying(j)'
  BY <1>4 DEF Deploying
<1>. QED
  BY <1>1, <1>3, <1>4, <1>5, <1>6
     DEF Inv, Alone, InMode, Numbered, Fresh, Copied, Newest, host

\* Of the directories, pruning removes none that is newest.
LEMMA NewestIsKept ==
  ASSUME Inv, NEW j \in Jobs, Deploying(j), jobs[j].pc # "mkdir"
  PROVE  Kept(jobs[j].dir)
<1>1. Newer(jobs[j].dir) = {}
  BY DEF Inv, TypeOK, JobRecord, Newest, Newer
<1>. QED
  BY <1>1, FS_EmptySet, KeepAssumption DEF Kept

\* The release a deployment puts in production is whole.
LEMMA SwapIsWhole ==
  ASSUME Inv, NEW j \in Jobs, Swap(j)
  PROVE  /\ production' = jobs[j].dir /\ releases'[jobs[j].dir] = Of(jobs[j].rev)
         /\ jobs[j].rev \in Revs
<1>1. Deploying(j) /\ jobs[j].pc = "swap" /\ Running(j) /\ jobs[j].dir \in Stamps
  BY DEF Inv, TypeOK, JobRecord, Swap, Deploying, Running
<1>2. Kept(jobs[j].dir)
  BY <1>1, NewestIsKept
<1>. QED
  BY <1>1, <1>2 DEF Inv, Copied, InMode, Swap

LEMMA SwapInv ==
  ASSUME Inv, NEW j \in Jobs, Swap(j) \/ SwapBack(j) \/ SwapFails(j)
  PROVE  Inv'
<1>1. TypeOK'
  BY StepType, FailType DEF Inv, Step, Fail
<1>2. /\ Running(j) /\ jobs[j].dir <= runs /\ jobs'[j].pc = "apply"
      /\ jobs'[j].rev = jobs[j].rev /\ jobs'[j].dir = jobs[j].dir
      /\ \A i \in Jobs \ {j} : jobs'[i] = jobs[i]
      /\ UNCHANGED <<mtime, runs, clock>>
      /\ production' \in {production, jobs[j].dir}
      /\ \A r \in Stamps : releases'[r] \in {releases[r], None}
  BY DEF Inv, TypeOK, JobRecord, Numbered, Running, Swap, SwapBack, SwapFails,
         SwapUnpruned, host
<1>3. \A i \in Jobs \ {j} : ~Running(i)' /\ ~Deploying(i)'
  BY <1>2, OnlyOne DEF Running, Deploying
<1>4. ~Deploying(j)'
  BY <1>2 DEF Deploying
<1>5. Numbered'
  BY <1>2, <1>3 DEF Inv, Numbered
<1>. QED
  BY <1>1, <1>2, <1>3, <1>4, <1>5
     DEF Inv, Alone, InMode, Fresh, Copied, Newest

LEMMA CheckInv ==
  ASSUME Inv, NEW j \in Jobs, Check(j)
  PROVE  Inv'
<1>1. TypeOK'
  BY StepType DEF Inv, Step
<1>2. /\ Running(j) /\ jobs[j].mode \in {"apply", "noop"} /\ jobs[j].pc = "check"
      /\ jobs'[j].pc = (IF jobs[j].mode = "apply" THEN "swap" ELSE "apply")
      /\ jobs'[j].mode = jobs[j].mode /\ jobs'[j].rev = jobs[j].rev
      /\ jobs'[j].dir = jobs[j].dir
      /\ \A i \in Jobs \ {j} : jobs'[i] = jobs[i]
      /\ UNCHANGED <<host, runs, clock>>
  BY DEF Inv, TypeOK, JobRecord, InMode, Running, Check
<1>. QED
  BY <1>1, <1>2
     DEF Inv, Alone, InMode, Numbered, Fresh, Copied, Newest, Deploying, Running,
         host

LEMMA OtherInv ==
  ASSUME Inv, NEW j \in Jobs,
         \/ BeginApply(j) \/ EndApply(j) \/ NothingToRollBackTo(j)
         \/ CopyFails(j) \/ ApplyFails(j) \/ Interrupt(j)
  PROVE  Inv'
<1>1. TypeOK'
  BY StepType, FailType DEF Inv, Step, Fail
<1>2. /\ UNCHANGED <<host, runs, clock>> /\ Running(j)
  BY DEF BeginApply, EndApply, NothingToRollBackTo, CopyFails, ApplyFails,
         Interrupt, Running
<1>3. /\ \A i \in Jobs \ {j} : jobs'[i] = jobs[i]
      /\ jobs'[j].mode = jobs[j].mode /\ jobs'[j].rev = jobs[j].rev
      /\ jobs'[j].dir = jobs[j].dir /\ jobs'[j].pc \in {"idle", "applying"}
  <2>1. CASE BeginApply(j)
    BY <2>1 DEF Inv, TypeOK, JobRecord, BeginApply
  <2>2. CASE \E said \in {"none", "ok", "failed"} : Exit(j, said)
    BY <2>2 DEF Inv, TypeOK, JobRecord, Exit
  <2>. QED
    BY <2>1, <2>2
       DEF EndApply, NothingToRollBackTo, CopyFails, GiveUp, ApplyFails, Interrupt
<1>. QED
  BY <1>1, <1>2, <1>3, Others

LEMMA NextInv == OneGroup /\ Inv /\ [Next]_vars => Inv'
<1> SUFFICES ASSUME OneGroup, Inv, [Next]_vars
             PROVE  Inv'
  OBVIOUS
<1>1. CASE Next
  BY <1>1, StartInv, MakeReleaseInv, CopyInv, CheckInv, SwapInv, ChooseInv,
     OtherInv
     DEF Next, Step, Fail
<1>2. CASE UNCHANGED vars
  BY <1>2
     DEF Inv, TypeOK, Alone, InMode, Numbered, Fresh, Copied, Newest, Deploying,
         Running, vars
<1>. QED
  BY <1>1, <1>2

\* A step leaves production whole, or is one of a job that does not deploy.
LEMMA WholeStep ==
  ASSUME Inv, Next, LiveIsWhole
  PROVE  \/ LiveIsWhole'
         \/ \E j \in Jobs : Running(j) /\ jobs[j].mode # "apply" /\ jobs'[j] # jobs[j]
<1>1. CASE UNCHANGED host
  BY <1>1 DEF LiveIsWhole, Whole, host
<1>2. ASSUME NEW j \in Jobs, MakeRelease(j)
      PROVE  LiveIsWhole'
  <2>1. jobs[j].dir # production
    BY <1>2 DEF Inv, InMode, Fresh, Deploying, MakeRelease, Running
  <2>. QED
    BY <1>2, <2>1 DEF Inv, TypeOK, MakeRelease, LiveIsWhole, Whole
<1>3. ASSUME NEW j \in Jobs, Copy(j), jobs[j].mode = "apply"
      PROVE  LiveIsWhole'
  <2>1. Target(j) # production
    BY <1>3 DEF Inv, Fresh, Deploying, Copy, Target
  <2>. QED
    BY <1>3, <2>1, TargetType DEF Inv, TypeOK, Copy, LiveIsWhole, Whole
<1>4. ASSUME NEW j \in Jobs, Swap(j)
      PROVE  LiveIsWhole'
  BY <1>4, SwapIsWhole DEF LiveIsWhole, Whole
<1>5. ASSUME NEW j \in Jobs, SwapFails(j), jobs[j].mode = "apply", ~UNCHANGED host
      PROVE  LiveIsWhole'
  <2>1. jobs[j].rev \in Revs /\ releases[jobs[j].dir] = Of(jobs[j].rev)
    BY <1>5 DEF Inv, InMode, Copied, Deploying, SwapFails, Running
  <2>. QED
    BY <1>5, <2>1 DEF SwapFails, SwapUnpruned, LiveIsWhole, Whole
<1>6. ASSUME NEW j \in Jobs, jobs[j].mode # "apply",
             Copy(j) \/ SwapFails(j) \/ SwapBack(j)
      PROVE  Running(j) /\ jobs'[j] # jobs[j]
  <2>1. jobs[j] \in JobRecord /\ Running(j)
    BY <1>6 DEF Inv, TypeOK, Copy, SwapFails, SwapBack, Running
  <2>2. jobs'[j].next # jobs[j].next \/ jobs'[j].pc # jobs[j].pc
    BY <1>6, <2>1, FilesFacts
       DEF Inv, TypeOK, JobRecord, Copy, NextFile, SwapFails, SwapBack
  <2>. QED
    BY <2>1, <2>2
<1>7. CASE \E j \in Jobs : SwapBack(j)
  BY <1>6, <1>7 DEF SwapBack
<1>8. CASE \E j \in Jobs : Copy(j) \/ SwapFails(j)
  BY <1>1, <1>3, <1>5, <1>6, <1>8
<1>. QED
  BY <1>1, <1>2, <1>4, <1>7, <1>8
     DEF Next, Start, Step, Fail, Check, BeginApply, EndApply, Choose,
         NothingToRollBackTo, CopyFails, ApplyFails, Interrupt

\* A step of a job changes neither its mode nor another job.
LEMMA JobStep ==
  ASSUME Inv, NEW j \in Jobs, Step(j) \/ Fail(j)
  PROVE  /\ jobs'[j].mode = jobs[j].mode
         /\ \A i \in Jobs \ {j} : jobs'[i] = jobs[i]
<1>1. CASE \E said \in {"none", "ok", "failed"} : Exit(j, said)
  BY <1>1 DEF Inv, TypeOK, JobRecord, Exit
<1>2. CASE MakeRelease(j) \/ Copy(j) \/ Check(j) \/ Swap(j)
  BY <1>2 DEF Inv, TypeOK, JobRecord, MakeRelease, Copy, Check, Swap
<1>3. CASE BeginApply(j) \/ Choose(j) \/ SwapBack(j) \/ SwapFails(j)
  BY <1>3 DEF Inv, TypeOK, JobRecord, BeginApply, Choose, SwapBack, SwapFails
<1>. QED
  BY <1>1, <1>2, <1>3
     DEF Step, Fail, EndApply, NothingToRollBackTo, CopyFails, GiveUp,
         ApplyFails, Interrupt

\* With jobs of one group, no deployment takes a whole production away,
\* wherever it fails or is cut off, and whatever it prunes.
THEOREM DeploymentsKeepLiveWhole ==
  ASSUME OneGroup
  PROVE  Spec => DeployKeepsLiveWhole
<1>1. Inv /\ [Next]_vars =>
        [LiveIsWhole /\ ~LiveIsWhole' =>
           \E j \in Jobs : jobs[j].mode # "apply" /\ jobs'[j] # jobs[j]]_vars
  BY WholeStep
<1>2. Inv /\ [Next]_vars => Inv'
  BY NextInv
<1>. QED
  BY <1>1, <1>2, InitInv, PTL DEF Spec, DeployKeepsLiveWhole

\* Where jobs of one group only deploy, production is always a whole release.
THEOREM DeployedIsAlwaysWhole ==
  ASSUME OneGroup, Modes = {"apply"}
  PROVE  Spec => []LiveIsWhole
<1> DEFINE OnlyDeploys == \A j \in Jobs : Running(j) => jobs[j].mode = "apply"
           All == Inv /\ OnlyDeploys /\ LiveIsWhole
<1>1. Init => All
  BY InitInv, StampsFacts, RevAssumption
     DEF Init, Running, Idle, LiveIsWhole, Whole
<1>2. All /\ [Next]_vars => All'
  <2> SUFFICES ASSUME All, [Next]_vars
               PROVE  All'
    OBVIOUS
  <2>1. Inv'
    BY NextInv
  <2>2. LiveIsWhole'
    BY WholeStep DEF vars, LiveIsWhole, Whole
  <2>3. OnlyDeploys'
    <3>1. ASSUME NEW j \in Jobs, Start(j)
          PROVE  OnlyDeploys'
      BY <3>1 DEF Inv, TypeOK, Start, Idle, Running
    <3>2. ASSUME NEW j \in Jobs, Step(j) \/ Fail(j)
          PROVE  OnlyDeploys'
      <4>1. Running(j)
        BY <3>2 DEF Step, Fail, MakeRelease, Copy, Check, Swap, BeginApply,
                    EndApply, Choose, NothingToRollBackTo, SwapBack, CopyFails,
                    SwapFails, ApplyFails, Interrupt, Running
      <4>2. /\ jobs'[j].mode = jobs[j].mode
            /\ \A i \in Jobs \ {j} : jobs'[i] = jobs[i]
        BY <3>2, JobStep
      <4>. QED
        BY <4>1, <4>2 DEF Running
    <3>. QED
      BY <3>1, <3>2 DEF Next, vars, Running
  <2>. QED
    BY <2>1, <2>2, <2>3
<1>. QED
  BY <1>1, <1>2, PTL DEF Spec
-----------------------------------------------------------------------------
(* What a deployment said is so                                            *)

\* Jobs take turns in one slot, which remembers what the last of them said.
OneSlot == \A i, j \in Jobs : i = j

\* What a deployment is about to apply, if its release became production, is
\* its revision, and puppet reads production from beginning to end.
ReadsItsOwn ==
  \A j \in Jobs :
    /\ jobs[j].mode = "apply" /\ jobs[j].pc \in {"apply", "applying"}
       /\ production = jobs[j].dir => releases[jobs[j].dir] = Of(jobs[j].rev)
    /\ jobs[j].pc = "applying" => jobs[j].reading = production

ActiveInv == Inv /\ ReadsItsOwn /\ ActiveIsApplied

LEMMA InitActive == Init => ActiveInv
BY InitInv DEF Init, ActiveInv, ReadsItsOwn, ActiveIsApplied, SaidOk, Idle

LEMMA StepActive ==
  ASSUME OneSlot, ActiveInv, NEW j \in Jobs, Start(j) \/ Step(j) \/ Fail(j)
  PROVE  ReadsItsOwn' /\ ActiveIsApplied'
<1>1. jobs[j] \in JobRecord /\ \A i \in Jobs : i = j
  BY DEF OneSlot, ActiveInv, Inv, TypeOK
<1>2. CASE Start(j)
  <2>1. PICK mode \in Modes : jobs'[j].pc = SyncFirst[mode]
    BY <1>1, <1>2 DEF Start, Idle, ActiveInv, Inv, TypeOK
  <2>2. jobs'[j].pc \in {"mkdir", "copy", "choose"}
    BY <2>1, ModesAssumption DEF SyncFirst
  <2>. QED
    BY <1>1, <2>2 DEF ReadsItsOwn, ActiveIsApplied, SaidOk
<1>3. CASE MakeRelease(j) \/ Copy(j) \/ Choose(j)
  BY <1>1, <1>3 DEF MakeRelease, Copy, Choose, ActiveInv, Inv, TypeOK, JobRecord,
                    ReadsItsOwn, ActiveIsApplied, SaidOk
<1>4. CASE Check(j)
  BY <1>1, <1>4 DEF Check, ActiveInv, Inv, TypeOK, JobRecord,
                    ReadsItsOwn, ActiveIsApplied, SaidOk
<1>5. CASE Swap(j)
  <2>1. releases'[jobs[j].dir] = Of(jobs[j].rev)
    BY <1>5, SwapIsWhole DEF ActiveInv
  <2>2. /\ jobs'[j].pc = "apply" /\ jobs'[j].dir = jobs[j].dir
        /\ jobs'[j].rev = jobs[j].rev
    BY <1>1, <1>5 DEF Swap, ActiveInv, Inv, TypeOK, JobRecord
  <2>. QED
    BY <1>1, <2>1, <2>2 DEF ReadsItsOwn, ActiveIsApplied, SaidOk
<1>6. CASE SwapFails(j) \/ SwapBack(j)
  <2>1. /\ jobs'[j].pc = "apply" /\ jobs'[j].dir = jobs[j].dir
        /\ jobs'[j].rev = jobs[j].rev /\ jobs'[j].mode = jobs[j].mode
        /\ jobs[j].pc = "swap" /\ releases' = releases
    BY <1>1, <1>6 DEF SwapFails, SwapBack, SwapUnpruned, host, ActiveInv, Inv, TypeOK,
                      JobRecord
  <2>2. jobs[j].mode = "apply" => releases[jobs[j].dir] = Of(jobs[j].rev)
    BY <2>1 DEF ActiveInv, Inv, Copied, Deploying
  <2>. QED
    BY <1>1, <2>1, <2>2 DEF ReadsItsOwn, ActiveIsApplied, SaidOk
<1>7. CASE BeginApply(j)
  BY <1>1, <1>7 DEF BeginApply, host, ActiveInv, Inv, TypeOK, JobRecord,
                    ReadsItsOwn, ActiveIsApplied, SaidOk
<1>8. CASE EndApply(j)
  <2>1. /\ jobs[j].pc = "applying" /\ UNCHANGED host
        /\ jobs'[j].pc = "idle" /\ jobs'[j].dir = jobs[j].dir
        /\ jobs'[j].rev = jobs[j].rev /\ jobs'[j].mode = jobs[j].mode
    BY <1>1, <1>8 DEF EndApply, Exit, ActiveInv, Inv, TypeOK, JobRecord
  <2>2. jobs[j].mode = "apply" => applied' = releases[production]
    BY <1>8, <2>1 DEF EndApply, ActiveInv, ReadsItsOwn
  <2>. QED
    BY <1>1, <2>1, <2>2 DEF host, ActiveInv, ReadsItsOwn, ActiveIsApplied, SaidOk
<1>9. CASE NothingToRollBackTo(j) \/ CopyFails(j) \/ Interrupt(j)
  <2>1. jobs'[j].pc = "idle" /\ jobs'[j].said # "ok"
    BY <1>1, <1>9 DEF NothingToRollBackTo, CopyFails, Interrupt, Exit, GiveUp,
                      ActiveInv, Inv, TypeOK, JobRecord
  <2>. QED
    BY <1>1, <2>1 DEF ReadsItsOwn, ActiveIsApplied, SaidOk
<1>10. CASE ApplyFails(j)
  <2>1. /\ jobs'[j].pc = "idle" /\ jobs'[j].mode = jobs[j].mode
        /\ jobs[j].mode = "rollback" \/ jobs'[j].said # "ok"
    BY <1>1, <1>10 DEF ApplyFails, MaySayOk, Exit, ActiveInv, Inv, TypeOK, JobRecord
  <2>. QED
    BY <1>1, <2>1 DEF ReadsItsOwn, ActiveIsApplied, SaidOk
<1>. QED
  BY <1>2, <1>3, <1>4, <1>5, <1>6, <1>7, <1>8, <1>9, <1>10 DEF Step, Fail

\* Where jobs take turns, a deployment that ends with OK and whose release is
\* production has configured the host from its revision, whatever failed, was
\* rolled back or copied through the symlink before.
THEOREM ActiveIsAlwaysApplied ==
  ASSUME OneSlot
  PROVE  Spec => []ActiveIsApplied
<1>1. ActiveInv /\ [Next]_vars => ActiveInv'
  <2> SUFFICES ASSUME ActiveInv, [Next]_vars
               PROVE  ActiveInv'
    OBVIOUS
  <2>1. OneGroup
    BY DEF OneSlot, OneGroup
  <2>2. Inv'
    BY <2>1, NextInv DEF ActiveInv
  <2>3. CASE UNCHANGED vars
    BY <2>2, <2>3 DEF vars, ActiveInv, ReadsItsOwn, ActiveIsApplied, SaidOk
  <2>4. CASE Next
    BY <2>2, <2>4, StepActive DEF Next, ActiveInv
  <2>. QED
    BY <2>3, <2>4
<1>. QED
  BY <1>1, InitActive, PTL DEF Spec, ActiveInv
-----------------------------------------------------------------------------
(* A bad deployment can be undone                                          *)

NoneIsNoRelease == None \notin Contents

\* A release is not there before it is made, and while it is being copied it
\* lacks what has not been copied yet.
NotYetMade ==
  \A j \in Jobs : jobs[j].pc = "mkdir" => releases[jobs[j].dir] = None
Unfinished ==
  \A j \in Jobs : jobs[j].mode = "apply" /\ jobs[j].pc = "copy" =>
    \A k \in 1..5 : k >= jobs[j].next => releases[jobs[j].dir][Files[k]] = None

\* What a rollback has chosen is a release, and not the one that is live.
GoingBack ==
  \A j \in Jobs : jobs[j].pc = "swap" =>
    /\ jobs[j].mode \in {"apply", "rollback"}
    /\ jobs[j].mode = "rollback" =>
         jobs[j].dir # production /\ releases[jobs[j].dir] # None

WayInv ==
  Inv /\ releases[production] # None /\ NotYetMade /\ Unfinished /\ GoingBack

LEMMA FilesDiffer == \A k, m \in 1..5 : Files[k] = Files[m] => k = m
BY DEF Files

LEMMA InitWay ==
  ASSUME NoneIsNoRelease, Init
  PROVE  WayInv
<1>1. releases[production] = Of(FirstRev) /\ Of(FirstRev) \in Contents
  BY StampsFacts, ContentsType, RevAssumption DEF Init
<1>2. \A j \in Jobs : jobs[j].pc = "idle"
  BY DEF Init, Idle
<1>. QED
  BY <1>1, <1>2, InitInv DEF WayInv, NotYetMade, Unfinished, GoingBack, NoneIsNoRelease

LEMMA StepWay ==
  ASSUME OneGroup, NoneIsNoRelease, WayInv,
         NEW j \in Jobs, Start(j) \/ Step(j) \/ Fail(j)
  PROVE  WayInv'
<1>0. TypeOK /\ jobs[j] \in JobRecord /\ production \in Stamps
  BY DEF WayInv, Inv, TypeOK
<1>1. Inv'
  BY NextInv DEF WayInv, Next
\* A step that leaves the releases alone, and no swap ahead that was not.
<1>2. ASSUME UNCHANGED host, \A i \in Jobs \ {j} : jobs'[i] = jobs[i],
             jobs'[j].pc \notin {"mkdir", "copy", "swap"}
      PROVE  WayInv'
  BY <1>1, <1>2 DEF WayInv, NotYetMade, Unfinished, GoingBack, host
<1>3. CASE Start(j)
  <2>1. PICK mode \in Modes, rev \in Deployed :
          jobs' = [jobs EXCEPT ![j] = [Idle EXCEPT !.pc = SyncFirst[mode],
                                                   !.mode = mode, !.rev = rev,
                                                   !.dir = runs + 1]]
    BY <1>3 DEF Start
  <2>2. /\ jobs'[j].pc = SyncFirst[mode] /\ jobs'[j].mode = mode
        /\ \A i \in Jobs \ {j} : jobs'[i] = jobs[i]
    BY <1>0, <2>1 DEF TypeOK, Idle
  <2>3. /\ UNCHANGED host /\ jobs'[j].dir = runs + 1 /\ runs + 1 \in Stamps
        /\ \A i \in Jobs \ {j} : jobs[i].pc = "idle"
    <3>1. jobs'[j].dir = runs + 1
      BY <1>0, <2>1 DEF TypeOK, Idle
    <3>2. runs + 1 \in Stamps
      <4>1. runs \in 1..MaxRuns /\ runs < MaxRuns
        BY <1>0, <1>3 DEF Start, TypeOK, Stamps
      <4>. QED
        BY <4>1, RunsAssumption DEF Stamps
    <3>3. \A i \in Jobs \ {j} : jobs[i].pc = "idle"
      BY <1>3 DEF Start, OneGroup, Running
    <3>. QED
      BY <1>3, <3>1, <3>2, <3>3 DEF Start
  <2>4. releases[runs + 1] = None
    BY <1>0, <2>3, StampsFacts DEF WayInv, Inv, Numbered, TypeOK
  <2>5. /\ mode = "apply" => SyncFirst[mode] = "mkdir"
        /\ mode = "noop" => SyncFirst[mode] = "copy"
        /\ mode = "rollback" => SyncFirst[mode] = "choose"
        /\ mode \in {"apply", "noop", "rollback"}
    BY ModesAssumption DEF SyncFirst
  <2>. QED
    BY <1>1, <2>2, <2>3, <2>4, <2>5
       DEF WayInv, NotYetMade, Unfinished, GoingBack, host
<1>4. CASE MakeRelease(j)
  <2>1. /\ jobs'[j].pc = "copy" /\ jobs'[j].dir = jobs[j].dir /\ jobs[j].dir \in Stamps
        /\ releases' = [releases EXCEPT ![jobs[j].dir] = Of(None)]
        /\ production' = production /\ jobs[j].pc = "mkdir" /\ Running(j)
        /\ \A i \in Jobs \ {j} : jobs'[i] = jobs[i]
    BY <1>0, <1>4 DEF MakeRelease, TypeOK, JobRecord, Running
  <2>2. jobs[j].dir # production
    BY <2>1 DEF WayInv, Inv, InMode, Fresh, Deploying
  <2>3. \A i \in Jobs \ {j} : jobs'[i].pc = "idle"
    BY <2>1, OnlyOne DEF WayInv
  <2>4. \A k \in 1..5 : releases'[jobs[j].dir][Files[k]] = None
    BY <1>0, <2>1, FilesFacts DEF TypeOK, Of
  <2>5. releases'[production] = releases[production]
    BY <1>0, <2>1, <2>2 DEF TypeOK
  <2>. QED
    BY <1>1, <2>1, <2>3, <2>4, <2>5 DEF WayInv, NotYetMade, Unfinished, GoingBack
<1>5. CASE Copy(j)
  <2>1. /\ jobs[j].pc = "copy" /\ Running(j) /\ Target(j) \in Stamps
        /\ jobs[j].rev \in Revs /\ jobs[j].next \in 1..5
        /\ jobs'[j].pc = (IF jobs[j].next = 5 THEN "check" ELSE "copy")
        /\ jobs'[j].next = NextFile(jobs[j].next)
        /\ jobs'[j].mode = jobs[j].mode /\ jobs'[j].dir = jobs[j].dir
        /\ \A i \in Jobs \ {j} : jobs'[i] = jobs[i]
        /\ production' = production /\ releases[Target(j)] # None
        /\ releases' = [releases EXCEPT ![Target(j)][Files[jobs[j].next]] = jobs[j].rev]
    BY <1>0, <1>5, TargetType, FilesFacts
       DEF Copy, WayInv, Inv, InMode, TypeOK, JobRecord, Running
  <2>2. \A i \in Jobs \ {j} : jobs'[i].pc = "idle"
    BY <2>1, OnlyOne DEF WayInv
  <2>3. releases[Target(j)] \in Contents
    BY <1>0, <2>1 DEF TypeOK
  <2>4. /\ releases'[Target(j)] =
             [releases[Target(j)] EXCEPT ![Files[jobs[j].next]] = jobs[j].rev]
        /\ \A r \in Stamps \ {Target(j)} : releases'[r] = releases[r]
    BY <1>0, <2>1 DEF TypeOK
  <2>5. releases'[Target(j)] \in Contents
    BY <2>1, <2>3, <2>4, FilesFacts DEF Contents
  <2>6. releases'[production'] # None
    BY <1>0, <2>1, <2>4, <2>5 DEF NoneIsNoRelease, WayInv
  <2>7. ASSUME jobs'[j].mode = "apply", jobs'[j].pc = "copy", NEW k \in 1..5,
               k >= jobs'[j].next
        PROVE  releases'[jobs'[j].dir][Files[k]] = None
    <3>1. k > jobs[j].next /\ Target(j) = jobs[j].dir
      BY <2>1, <2>7, FilesFacts DEF NextFile, Target
    <3>2. releases[jobs[j].dir][Files[k]] = None
      <4>1. k >= jobs[j].next /\ jobs[j].mode = "apply" /\ jobs[j].pc = "copy"
        BY <2>1, <2>7, <3>1
      <4>. QED
        BY <4>1 DEF WayInv, Unfinished
    <3>3. Files[k] # Files[jobs[j].next] /\ Files[k] \in Names
      BY <2>1, <3>1, FilesFacts, FilesDiffer
    <3>4. releases'[Target(j)][Files[k]] = releases[Target(j)][Files[k]]
      BY <2>3, <2>4, <3>3 DEF Contents
    <3>. QED
      BY <2>1, <3>1, <3>2, <3>4
  <2>. QED
    BY <1>1, <2>1, <2>2, <2>6, <2>7 DEF WayInv, NotYetMade, Unfinished, GoingBack
<1>6. CASE Check(j) \/ Choose(j)
  <2>1. /\ UNCHANGED host /\ Running(j)
        /\ \A i \in Jobs \ {j} : jobs'[i] = jobs[i]
        /\ jobs'[j].mode = jobs[j].mode /\ jobs'[j].pc \notin {"mkdir", "copy"}
    BY <1>0, <1>6 DEF Check, Choose, TypeOK, JobRecord, Running
  <2>2. ASSUME jobs'[j].pc = "swap"
        PROVE  /\ jobs[j].mode \in {"apply", "rollback"}
               /\ jobs[j].mode = "rollback" =>
                    jobs'[j].dir # production /\ releases[jobs'[j].dir] # None
    <3>1. CASE Check(j)
      BY <1>0, <2>2, <3>1 DEF Check, TypeOK, JobRecord
    <3>2. CASE Choose(j)
      <4>1. PICK r \in Stamps : /\ r # production /\ releases[r] # None
                                /\ jobs' = [jobs EXCEPT ![j].pc = "swap", ![j].dir = r]
        BY <3>2 DEF Choose, Candidate
      <4>2. jobs'[j].dir = r
        BY <1>0, <4>1 DEF TypeOK, JobRecord
      <4>3. jobs[j].mode = "rollback"
        BY <3>2 DEF Choose, WayInv, Inv, InMode, Running
      <4>. QED
        BY <4>1, <4>2, <4>3
    <3>. QED
      BY <1>6, <3>1, <3>2
  <2>. QED
    BY <1>1, <2>1, <2>2 DEF WayInv, NotYetMade, Unfinished, GoingBack, host
<1>7. CASE Swap(j) \/ SwapBack(j) \/ SwapFails(j)
  <2>1. /\ jobs[j].pc = "swap" /\ jobs'[j].pc = "apply" /\ Running(j)
        /\ \A i \in Jobs \ {j} : jobs'[i] = jobs[i]
    BY <1>0, <1>7 DEF Swap, SwapBack, SwapFails, TypeOK, JobRecord, Running
  <2>2. \A i \in Jobs \ {j} : jobs'[i].pc = "idle"
    BY <2>1, OnlyOne DEF WayInv
  <2>3. releases[jobs[j].dir] # None
    <3>1. CASE jobs[j].mode = "apply"
      <4>1. releases[jobs[j].dir] = Of(jobs[j].rev) /\ jobs[j].rev \in Revs
        BY <2>1, <3>1 DEF WayInv, Inv, InMode, Copied, Deploying
      <4>. QED
        BY <4>1, ContentsType DEF NoneIsNoRelease
    <3>2. CASE jobs[j].mode = "rollback"
      BY <2>1, <3>2 DEF WayInv, GoingBack
    <3>. QED
      BY <2>1, <3>1, <3>2 DEF WayInv, GoingBack
  <2>4. releases'[production'] # None
    <3>1. CASE Swap(j)
      BY <3>1, SwapIsWhole, ContentsType DEF WayInv, NoneIsNoRelease
    <3>2. CASE SwapBack(j) \/ SwapFails(j)
      BY <2>3, <3>2 DEF SwapBack, SwapFails, SwapUnpruned, host, WayInv
    <3>. QED
      BY <1>7, <3>1, <3>2
  <2>. QED
    BY <1>1, <2>1, <2>2, <2>4 DEF WayInv, NotYetMade, Unfinished, GoingBack
<1>8. CASE \/ BeginApply(j) \/ EndApply(j) \/ NothingToRollBackTo(j)
           \/ CopyFails(j) \/ ApplyFails(j) \/ Interrupt(j)
  <2>1. CASE BeginApply(j)
    <3>1. /\ UNCHANGED host /\ jobs'[j].pc = "applying"
          /\ \A i \in Jobs \ {j} : jobs'[i] = jobs[i]
      BY <1>0, <2>1 DEF BeginApply, TypeOK, JobRecord
    <3>. QED
      BY <1>2, <3>1
  <2>2. CASE ~BeginApply(j)
    <3>1. UNCHANGED host /\ \E said \in {"none", "ok", "failed"} : Exit(j, said)
      BY <1>8, <2>2
         DEF EndApply, NothingToRollBackTo, CopyFails, GiveUp, ApplyFails, Interrupt
    <3>2. jobs'[j].pc = "idle" /\ \A i \in Jobs \ {j} : jobs'[i] = jobs[i]
      BY <1>0, <3>1 DEF Exit, TypeOK, JobRecord
    <3>. QED
      BY <1>2, <3>1, <3>2
  <2>. QED
    BY <2>1, <2>2
<1>. QED
  BY <1>3, <1>4, <1>5, <1>6, <1>7, <1>8 DEF Step, Fail

\* Of the releases besides the one that is swapped in, pruning spares the
\* newest, if two are kept.
LEMMA SecondIsKept ==
  ASSUME WayInv, Keep >= 2, NEW j \in Jobs, Swap(j)
  PROVE  \E s \in Stamps \ {jobs[j].dir} : releases[s] # None /\ Kept(s)
<1>. DEFINE E == {s \in Stamps \ {jobs[j].dir} : releases[s] # None}
            Age == {clock - mtime[s] : s \in E}
<1>0. /\ clock \in Nat /\ \A s \in Stamps : mtime[s] \in Nat /\ mtime[s] <= clock
      /\ production \in Stamps /\ jobs[j].dir \in Stamps /\ Keep \in Nat
  BY KeepAssumption DEF WayInv, Inv, TypeOK, JobRecord, Newest
<1>1. production \in E
  BY <1>0 DEF WayInv, Inv, Fresh, Deploying, Swap
<1>2. Age \in SUBSET Nat /\ Age # {}
  <2>1. \A s \in E : clock - mtime[s] \in Nat
    BY <1>0
  <2>. QED
    BY <1>1, <2>1
<1>3. PICK a \in Age : \A b \in Age : a <= b
  <2>. HIDE DEF Age
  <2>. QED
    BY <1>2, LeastNumber
<1>4. PICK s \in E : a = clock - mtime[s]
  BY <1>3
<1>5. \A u \in E : mtime[u] <= mtime[s]
  <2>. SUFFICES ASSUME NEW u \in E PROVE mtime[u] <= mtime[s]
    OBVIOUS
  <2>1. a <= clock - mtime[u]
    BY <1>3
  <2>. QED
    BY <1>0, <1>4, <2>1
<1>6. Newer(s) \in SUBSET {jobs[j].dir}
  <2>. SUFFICES ASSUME NEW u \in Newer(s), u # jobs[j].dir PROVE FALSE
    OBVIOUS
  <2>1. u \in E /\ mtime[u] > mtime[s] /\ u \in Stamps /\ s \in Stamps
    BY DEF Newer
  <2>. QED
    BY <1>0, <1>5, <2>1
<1>7. Cardinality(Newer(s)) \in {0, 1}
  <2>1. Newer(s) = {} \/ Newer(s) = {jobs[j].dir}
    BY <1>6
  <2>. QED
    BY <2>1, FS_EmptySet, FS_Singleton
<1>8. Kept(s)
  BY <1>0, <1>7 DEF Kept
<1>. QED
  BY <1>8

LEMMA WayStays ==
  ASSUME OneGroup, NoneIsNoRelease, Keep >= 2, WayInv, AllWhole, WayBack,
         NEW j \in Jobs, Start(j) \/ Step(j) \/ Fail(j)
  PROVE  WayBack'
<1>0. TypeOK /\ jobs[j] \in JobRecord /\ production \in Stamps
  BY DEF WayInv, Inv, TypeOK
<1>1. PICK r \in Stamps : r # production /\ Whole(r)
  BY DEF WayBack
<1>2. releases[r] # None /\ releases[r] \in Contents
  BY <1>1, ContentsType DEF Whole, NoneIsNoRelease
<1>3. ASSUME releases'[r] = releases[r], production' = production PROVE WayBack'
  BY <1>1, <1>3 DEF WayBack, Whole
<1>4. CASE UNCHANGED host
  BY <1>3, <1>4 DEF host
<1>5. CASE MakeRelease(j)
  <2>1. jobs[j].pc = "mkdir" /\ jobs[j].dir \in Stamps
        /\ releases' = [releases EXCEPT ![jobs[j].dir] = Of(None)]
        /\ production' = production
    BY <1>0, <1>5 DEF MakeRelease, JobRecord
  <2>2. r # jobs[j].dir
    BY <1>2, <2>1 DEF WayInv, NotYetMade
  <2>. QED
    BY <1>0, <1>3, <2>1, <2>2 DEF TypeOK
<1>6. CASE Copy(j)
  <2>1. /\ jobs[j].pc = "copy" /\ Running(j) /\ Target(j) \in Stamps
        /\ jobs[j].rev \in Revs /\ jobs[j].next \in 1..5
        /\ production' = production /\ releases[Target(j)] # None
        /\ \A s \in Stamps \ {Target(j)} : releases'[s] = releases[s]
        /\ jobs[j].mode \in {"apply", "noop"}
    BY <1>0, <1>6, TargetType
       DEF Copy, WayInv, Inv, InMode, TypeOK, JobRecord, Running
  <2>2. CASE jobs[j].mode = "noop"
    BY <1>1, <1>3, <2>1, <2>2 DEF Target
  <2>3. CASE jobs[j].mode = "apply"
    <3>1. Whole(jobs[j].dir) /\ Files[jobs[j].next] \in Names
      BY <2>1, <2>3, FilesFacts DEF AllWhole, Target, Names
    <3>2. releases[jobs[j].dir][Files[jobs[j].next]] = None
      BY <2>1, <2>3 DEF WayInv, Unfinished
    <3>. QED
      BY <3>1, <3>2, RevAssumption DEF Whole, Of
  <2>. QED
    BY <2>1, <2>2, <2>3
<1>7. CASE Swap(j)
  <2>1. PICK s \in Stamps \ {jobs[j].dir} : releases[s] # None /\ Kept(s)
    BY <1>7, SecondIsKept DEF WayInv
  <2>2. Whole(s) /\ releases'[s] = releases[s] /\ production' = jobs[j].dir
    BY <1>7, <2>1 DEF AllWhole, Swap
  <2>. QED
    BY <2>1, <2>2 DEF WayBack, Whole
<1>8. CASE (SwapBack(j) \/ SwapFails(j)) /\ ~UNCHANGED host
  <2>1. production' = jobs[j].dir /\ releases' = releases /\ jobs[j].pc = "swap"
    BY <1>8 DEF SwapBack, SwapFails, SwapUnpruned
  <2>2. jobs[j].dir # production
    <3>1. jobs[j].mode = "apply" => jobs[j].dir # production
      BY <2>1 DEF WayInv, Inv, Fresh, Deploying
    <3>. QED
      BY <2>1, <3>1 DEF WayInv, GoingBack
  <2>3. Whole(production)
    BY <1>0 DEF AllWhole, WayInv
  <2>. QED
    BY <1>0, <2>1, <2>2, <2>3 DEF WayBack, Whole
<1>. QED
  BY <1>4, <1>5, <1>6, <1>7, <1>8
     DEF Start, Step, Fail, Check, BeginApply, EndApply, Choose,
         NothingToRollBackTo, CopyFails, ApplyFails, Interrupt

\* With jobs of one group and at least two releases kept (OPENVOX_RELEASE_KEEP
\* is five): as long as every release is whole and there is one to go back to,
\* no step takes the last of them away, whatever fails or is cut off.
THEOREM AWayBackIsAlwaysKept ==
  ASSUME OneGroup, NoneIsNoRelease, Keep >= 2
  PROVE  Spec => KeepsAWayBack
<1>1. WayInv /\ [Next]_vars => WayInv'
  <2>1. CASE UNCHANGED vars
    <3>1. Inv /\ UNCHANGED vars => Inv'
      BY NextInv
    <3>. QED
      BY <2>1, <3>1 DEF vars, WayInv, NotYetMade, Unfinished, GoingBack
  <2>. QED
    BY <2>1, StepWay DEF Next
<1>2. WayInv /\ [Next]_vars => [AllWhole /\ WayBack => WayBack']_vars
  BY WayStays DEF Next
<1>. QED
  BY <1>1, <1>2, InitWay, PTL DEF Spec, KeepsAWayBack
-----------------------------------------------------------------------------
(* Deployments that overlap                                                *)

\* No deployment is passed by as many others as releases are kept: while it is
\* on its way, pruning spares its release.
NotOvertaken ==
  \A j \in Jobs : Deploying(j) /\ jobs[j].pc # "mkdir" => Kept(jobs[j].dir)

OnlyDeploys == \A j \in Jobs : Running(j) => jobs[j].mode = "apply"
Apart ==
  \A i, j \in Jobs : Running(i) /\ Running(j) /\ i # j => jobs[i].dir # jobs[j].dir

RaceInv ==
  TypeOK /\ InMode /\ OnlyDeploys /\ Numbered /\ Fresh /\ Apart /\ Copied /\ LiveIsWhole

LEMMA InitRace == Init => RaceInv
BY InitInv, StampsFacts, RevAssumption
   DEF Init, Inv, RaceInv, OnlyDeploys, Apart, Running, Idle, LiveIsWhole, Whole

\* A step that leaves the host alone, and of its job no more than it ends or
\* goes on.
LEMMA RaceOthers ==
  ASSUME RaceInv, NEW j \in Jobs, UNCHANGED <<host, runs>>, TypeOK',
         \A i \in Jobs \ {j} : jobs'[i] = jobs[i],
         Running(j),
         jobs'[j].mode = jobs[j].mode, jobs'[j].rev = jobs[j].rev,
         jobs'[j].dir = jobs[j].dir,
         \/ jobs'[j].pc \in {"idle", "apply", "applying"}
         \/ jobs[j].pc = "check" /\ jobs'[j].pc = "swap"
  PROVE  RaceInv'
<1>1. InMode' /\ OnlyDeploys' /\ Numbered' /\ Apart'
  BY DEF RaceInv, InMode, OnlyDeploys, Numbered, Apart, Running, host
<1>2. Fresh' /\ Copied' /\ LiveIsWhole'
  BY DEF RaceInv, Fresh, Copied, Deploying, LiveIsWhole, Whole, host
<1>. QED
  BY <1>1, <1>2 DEF RaceInv

LEMMA RaceStart ==
  ASSUME Modes = {"apply"}, RaceInv, NEW j \in Jobs, Start(j)
  PROVE  RaceInv'
<1>1. TypeOK'
  BY StartType DEF RaceInv
<1>2. PICK rev \in Deployed :
        jobs' = [jobs EXCEPT ![j] = [Idle EXCEPT !.pc = SyncFirst["apply"],
                                                 !.mode = "apply", !.rev = rev,
                                                 !.dir = runs + 1]]
  BY DEF Start
<1>3. /\ jobs'[j].pc = "mkdir" /\ jobs'[j].mode = "apply"
      /\ jobs'[j].rev \in Revs /\ jobs'[j].dir = runs + 1 /\ jobs'[j].next = 1
      /\ \A i \in Jobs \ {j} : jobs'[i] = jobs[i]
  BY <1>2, RevAssumption DEF RaceInv, TypeOK, Idle, SyncFirst
<1>4. /\ UNCHANGED <<releases, production>> /\ runs' = runs + 1 /\ runs \in Nat
  BY StampsFacts DEF RaceInv, TypeOK, Start, host
<1>5. InMode' /\ OnlyDeploys'
  BY <1>3 DEF RaceInv, InMode, OnlyDeploys, Running
<1>6. \A i \in Jobs \ {j} : Running(i) => jobs[i].dir <= runs /\ jobs[i].dir \in Nat
  BY StampsFacts DEF RaceInv, Numbered, TypeOK, JobRecord
<1>7. Numbered' /\ Apart' /\ Fresh'
  <2>1. production <= runs /\ production \in Nat
    BY StampsFacts DEF RaceInv, Numbered, TypeOK
  <2>2. Numbered'
    BY <1>3, <1>4, <1>6, <2>1, StampsFacts DEF RaceInv, Numbered, Running
  <2>3. Apart'
    BY <1>3, <1>4, <1>6 DEF RaceInv, Apart, Running
  <2>4. Fresh'
    BY <1>3, <1>4, <2>1 DEF RaceInv, Fresh, Deploying
  <2>. QED
    BY <2>2, <2>3, <2>4
<1>8. Copied' /\ LiveIsWhole'
  BY <1>3, <1>4 DEF RaceInv, Copied, Deploying, LiveIsWhole, Whole
<1>. QED
  BY <1>1, <1>5, <1>7, <1>8 DEF RaceInv

\* Making a release and copying into it touch the directory of one job.
LEMMA RaceWrites ==
  ASSUME RaceInv, NEW j \in Jobs, MakeRelease(j) \/ Copy(j)
  PROVE  RaceInv'
<1>1. TypeOK'
  BY StepType DEF RaceInv, Step
<1>2. /\ Running(j) /\ jobs[j].mode = "apply" /\ jobs[j].dir \in Stamps
      /\ jobs[j].dir <= runs /\ jobs[j].dir # production
      /\ jobs[j].next \in 1..5 /\ jobs[j].rev \in Revs
      /\ jobs[j].pc = "mkdir" => jobs[j].next = 1
  BY DEF RaceInv, TypeOK, JobRecord, InMode, OnlyDeploys, Numbered, Fresh, Copied,
         Deploying, Running, MakeRelease, Copy
<1>3. /\ jobs'[j].mode = "apply" /\ jobs'[j].rev = jobs[j].rev
      /\ jobs'[j].dir = jobs[j].dir
      /\ jobs'[j].pc \in {"copy", "check"}
      /\ \A i \in Jobs \ {j} : jobs'[i] = jobs[i]
      /\ UNCHANGED <<production, runs>>
  BY <1>2 DEF RaceInv, TypeOK, JobRecord, MakeRelease, Copy
<1>4. \A r \in Stamps \ {jobs[j].dir} : releases'[r] = releases[r]
  BY <1>2 DEF RaceInv, TypeOK, MakeRelease, Copy, Target
<1>5. InMode' /\ OnlyDeploys' /\ Apart' /\ Fresh'
  BY <1>2, <1>3 DEF RaceInv, InMode, OnlyDeploys, Apart, Fresh, Deploying, Running
<1>6. Numbered' /\ LiveIsWhole'
  BY <1>2, <1>3, <1>4, StampsFacts
     DEF RaceInv, TypeOK, Numbered, LiveIsWhole, Whole, Running
<1>7. \A i \in Jobs \ {j} : Running(i) => jobs[i].dir \in Stamps \ {jobs[j].dir}
  BY <1>2 DEF RaceInv, Apart, TypeOK, JobRecord
<1>8. Copied'
  <2>1. CASE MakeRelease(j)
    <3>1. jobs'[j].pc = "copy" /\ jobs'[j].next = 1
      BY <1>2, <2>1 DEF RaceInv, TypeOK, JobRecord, MakeRelease
    <3>2. releases'[jobs[j].dir] \in Contents
      BY <1>2, <2>1, ContentsType DEF RaceInv, TypeOK, MakeRelease
    <3>. QED
      BY <1>3, <1>4, <1>7, <3>1, <3>2 DEF RaceInv, Copied, Deploying, Running
  <2>2. CASE Copy(j)
    <3>1. /\ releases[jobs[j].dir] \in Contents
          /\ \A k \in 1..5 : k < jobs[j].next =>
               releases[jobs[j].dir][Files[k]] = jobs[j].rev
          /\ releases'[jobs[j].dir] =
               [releases[jobs[j].dir] EXCEPT ![Files[jobs[j].next]] = jobs[j].rev]
          /\ jobs'[j].next = NextFile(jobs[j].next)
          /\ jobs'[j].pc = (IF jobs[j].next = 5 THEN "check" ELSE "copy")
      BY <1>2, <2>2, FilesFacts
         DEF RaceInv, TypeOK, JobRecord, Copied, Deploying, Copy, Target
    <3>2. releases'[jobs[j].dir] \in Contents
      BY <1>2, <3>1, FilesFacts DEF Contents
    <3>3. \A k \in 1..5 : k < jobs[j].next + 1 =>
            releases'[jobs[j].dir][Files[k]] = jobs[j].rev
      BY <1>2, <3>1, FilesFacts DEF Contents
    <3>4. CASE jobs[j].next = 5
      <4>1. releases'[jobs[j].dir] = Of(jobs[j].rev)
        BY <3>2, <3>3, <3>4, FilesFacts DEF Contents, Of
      <4>. QED
        BY <1>3, <1>4, <1>7, <3>1, <3>4, <4>1 DEF RaceInv, Copied, Deploying, Running
    <3>5. CASE jobs[j].next # 5
      <4>1. jobs'[j].next = jobs[j].next + 1 /\ jobs'[j].pc = "copy"
        BY <3>1, <3>5, FilesFacts DEF NextFile
      <4>. QED
        BY <1>3, <1>4, <1>7, <3>2, <3>3, <4>1 DEF RaceInv, Copied, Deploying, Running
    <3>. QED
      BY <3>4, <3>5
  <2>. QED
    BY <2>1, <2>2
<1>. QED
  BY <1>1, <1>5, <1>6, <1>8 DEF RaceInv

\* A swap, cut off or not, names a whole release, and prunes none that is on
\* its way.
LEMMA RaceSwap ==
  ASSUME RaceInv, NotOvertaken, NEW j \in Jobs,
         Swap(j) \/ (SwapFails(j) /\ SwapUnpruned(j))
  PROVE  RaceInv'
<1>1. TypeOK'
  BY StepType, FailType DEF RaceInv, Step, Fail
<1>2. /\ Running(j) /\ Deploying(j) /\ jobs[j].dir \in Stamps /\ jobs[j].pc = "swap"
      /\ jobs[j].dir <= runs /\ jobs[j].rev \in Revs
      /\ releases[jobs[j].dir] = Of(jobs[j].rev)
  BY DEF RaceInv, TypeOK, JobRecord, InMode, OnlyDeploys, Numbered, Copied,
         Deploying, Running, Swap, SwapFails
<1>3. /\ jobs'[j].mode = "apply" /\ jobs'[j].rev = jobs[j].rev
      /\ jobs'[j].dir = jobs[j].dir /\ jobs'[j].pc = "apply"
      /\ \A i \in Jobs \ {j} : jobs'[i] = jobs[i]
      /\ runs' = runs /\ production' = jobs[j].dir
  BY <1>2 DEF RaceInv, TypeOK, JobRecord, Swap, SwapFails, SwapUnpruned, Deploying
<1>4. ASSUME NEW i \in Jobs, Deploying(i), jobs[i].pc # "mkdir"
      PROVE  releases'[jobs[i].dir] = releases[jobs[i].dir]
  <2>1. jobs[i].dir \in Stamps /\ Kept(jobs[i].dir)
    BY <1>4 DEF NotOvertaken, RaceInv, TypeOK, JobRecord
  <2>. QED
    BY <2>1 DEF Swap, SwapUnpruned
<1>5. InMode' /\ OnlyDeploys' /\ Apart'
  BY <1>2, <1>3 DEF RaceInv, InMode, OnlyDeploys, Apart, Running
<1>6. Fresh'
  BY <1>2, <1>3 DEF RaceInv, Fresh, Apart, Deploying, Running
<1>7. Numbered'
  <2>1. \A r \in Stamps : releases[r] = None => releases'[r] = None
    BY DEF Swap, SwapUnpruned
  <2>. QED
    BY <1>2, <1>3, <2>1 DEF RaceInv, Numbered, Running
<1>8. Copied'
  BY <1>3, <1>4 DEF RaceInv, Copied, Deploying
<1>9. LiveIsWhole'
  BY <1>2, <1>3, <1>4 DEF LiveIsWhole, Whole
<1>. QED
  BY <1>1, <1>5, <1>6, <1>7, <1>8, <1>9 DEF RaceInv

LEMMA RaceEnds ==
  ASSUME RaceInv, NEW j \in Jobs,
         \/ Check(j) \/ BeginApply(j) \/ EndApply(j) \/ NothingToRollBackTo(j)
         \/ CopyFails(j) \/ ApplyFails(j) \/ Interrupt(j)
         \/ SwapFails(j) /\ UNCHANGED host
  PROVE  RaceInv'
<1>1. TypeOK'
  BY StepType, FailType DEF RaceInv, Step, Fail
<1>2. UNCHANGED <<host, runs>> /\ Running(j)
  BY DEF Check, BeginApply, EndApply, NothingToRollBackTo, CopyFails, ApplyFails,
         Interrupt, SwapFails, Running
<1>3. /\ \A i \in Jobs \ {j} : jobs'[i] = jobs[i]
      /\ jobs'[j].mode = jobs[j].mode /\ jobs'[j].rev = jobs[j].rev
      /\ jobs'[j].dir = jobs[j].dir
      /\ \/ jobs'[j].pc \in {"idle", "apply", "applying"}
         \/ jobs[j].pc = "check" /\ jobs'[j].pc = "swap"
  <2>1. CASE Check(j)
    BY <2>1 DEF RaceInv, TypeOK, JobRecord, Check
  <2>2. CASE BeginApply(j) \/ SwapFails(j)
    BY <2>2 DEF RaceInv, TypeOK, JobRecord, BeginApply, SwapFails
  <2>3. CASE \E said \in {"none", "ok", "failed"} : Exit(j, said)
    BY <2>3 DEF RaceInv, TypeOK, JobRecord, Exit
  <2>. QED
    BY <2>1, <2>2, <2>3
       DEF EndApply, NothingToRollBackTo, CopyFails, GiveUp, ApplyFails, Interrupt
<1>. QED
  BY <1>1, <1>2, <1>3, RaceOthers

LEMMA RaceNext ==
  ASSUME Modes = {"apply"}, RaceInv, NotOvertaken, [Next]_vars
  PROVE  RaceInv'
<1>1. CASE UNCHANGED vars
  BY <1>1 DEF RaceInv, TypeOK, InMode, OnlyDeploys, Numbered, Fresh, Apart, Copied,
              Deploying, Running, LiveIsWhole, Whole, vars
<1>2. ASSUME NEW j \in Jobs, Choose(j) \/ SwapBack(j)
      PROVE  FALSE
  BY <1>2 DEF RaceInv, InMode, OnlyDeploys, Choose, SwapBack, Running
<1>3. ASSUME NEW j \in Jobs, SwapFails(j)
      PROVE  RaceInv'
  BY <1>3, RaceSwap, RaceEnds DEF SwapFails
<1>4. CASE Next
  BY <1>2, <1>3, <1>4, RaceStart, RaceWrites, RaceSwap, RaceEnds DEF Next, Step, Fail
<1>. QED
  BY <1>1, <1>4

\* Where jobs only deploy, any number of them may overlap: production is always
\* a whole release, as long as none is overtaken by OPENVOX_RELEASE_KEEP others
\* between its mkdir and its swap.
THEOREM OverlappingDeploymentsKeepLiveWhole ==
  ASSUME Modes = {"apply"}
  PROVE  Spec /\ []NotOvertaken => []LiveIsWhole
<1>1. RaceInv /\ NotOvertaken /\ [Next]_vars => RaceInv'
  BY RaceNext
<1>2. RaceInv => LiveIsWhole
  BY DEF RaceInv
<1>. QED
  BY <1>1, <1>2, InitRace, PTL DEF Spec
=============================================================================
