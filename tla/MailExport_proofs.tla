-------------------------- MODULE MailExport_proofs --------------------------
(***************************************************************************)
(* Theorems about MailExport and its history, for every set of mails,      *)
(* files, names and passwords, and any failures.                           *)
(***************************************************************************)
EXTENDS MailExportHistory, FiniteSetTheorems, TLAPS

LEMMA LoadStateType ==
  ASSUME saved \in State \cup {None}
  PROVE  LoadState \in State
BY DEF LoadState, NoState, State

LEMMA NoRunType ==
  /\ NoRun \in RunRecord /\ NoRun.pc = "idle"
  /\ [NoRun EXCEPT !.pc = "push"] \in RunRecord
  /\ [NoRun EXCEPT !.pc = "push"].pc = "push"
<1>1. NoState \in State
  BY DEF NoState, State
<1>2. NoRun \in RunRecord /\ NoRun.pc = "idle"
  BY <1>1 DEF NoRun, RunRecord, Modes
<1>3. [NoRun EXCEPT !.pc = "push"] \in RunRecord
  BY <1>2 DEF RunRecord
<1>4. [NoRun EXCEPT !.pc = "push"].pc = "push"
  BY <1>2 DEF RunRecord
<1>. QED
  BY <1>2, <1>3, <1>4

RunOK == run \in RunRecord /\ (run.pc = "mail" => run.mail # None)

\* The attachment a run works on is one of its mail.
LEMMA CurrentWanted ==
  ASSUME RunOK, HasAttachment
  PROVE  /\ run.mail \in Mails
         /\ Current \in Wanted(run.mail)
         /\ Current \in Contents
<1>1. run.mail \in Mails /\ run.next \in Nat \ {0}
  BY DEF RunOK, HasAttachment, RunRecord
<1>2. Attachments[run.mail] \in Seq(Contents)
  BY <1>1, ConstantsAssumption
<1>3. run.next \in DOMAIN Attachments[run.mail]
  BY <1>1, <1>2 DEF HasAttachment
<1>. QED
  BY <1>1, <1>2, <1>3 DEF Current, Wanted

LEMMA InitType == Init => TypeOK
BY NoRunType, ConstantsAssumption DEF Init, TypeOK, Empty

\* What each step makes of the record of the run.
LEMMA StartRun ==
  ASSUME saved \in State \cup {None}, NEW mode \in Modes, Start(mode)
  PROVE  RunOK'
<1>1. LoadState \in State /\ LoadState.watermark \in Nat
  BY LoadStateType DEF State
<1>2. From(mode, LoadState.watermark) \in Int
  BY <1>1, ConstantsAssumption DEF From
<1>3. run' = [NoRun EXCEPT !.pc = "listing", !.mode = mode, !.page = 1,
                           !.from = From(mode, LoadState.watermark),
                           !.st = LoadState]
  BY DEF Start
<1>. QED
  BY <1>1, <1>2, <1>3, NoRunType DEF RunOK, RunRecord

LEMMA ProceedRun ==
  ASSUME RunOK, archive \subseteq Mails, Proceed
  PROVE  RunOK'
<1>1. CASE ListPage
  <2>1. Listed \ run.st.done \subseteq Mails
    BY DEF Listed
  <2>. QED
    BY <1>1, <2>1 DEF ListPage, RunOK, RunRecord
<1>2. ASSUME NEW m \in Mails, FetchMail(m) PROVE RunOK'
  <2>1. m # None /\ run.items \ {m} \subseteq Mails /\ 1 \in Nat \ {0}
    BY ConstantsAssumption DEF RunOK, RunRecord
  <2>2. run' = [run EXCEPT !.pc = "mail", !.items = @ \ {m}, !.mail = m,
                           !.next = 1, !.locked = FALSE]
    BY <1>2 DEF FetchMail
  <2>. QED
    BY <2>1, <2>2, Zenon DEF RunOK, RunRecord
<1>. DEFINE next == run.next + 1
<1>a. next \in Nat \ {0}
  BY DEF RunOK, RunRecord
<1>3. CASE Dedupe \/ HoldBack
  <2>1. \/ run' = [run EXCEPT !.next = next]
        \/ run' = [run EXCEPT !.next = next, !.locked = TRUE]
    BY <1>3 DEF Dedupe, HoldBack
  <2>. HIDE DEF next
  <2>. QED
    BY <1>a, <2>1, Zenon DEF RunOK, RunRecord
<1>4. CASE Export
  <2>. DEFINE st == [run.st EXCEPT !.seen = @ \cup {Current}]
  <2>1. Current \in Contents /\ run.st \in State
    BY <1>4, CurrentWanted DEF Export, RunOK, RunRecord
  <2>2. st \in State
    BY <2>1 DEF State
  <2>3. run' = [run EXCEPT !.next = next, !.st = st]
    BY <1>4 DEF Export, Remember
  <2>. HIDE DEF st, next
  <2>. QED
    BY <1>a, <2>2, <2>3, Zenon DEF RunOK, RunRecord
<1>5. CASE EndMail
  <2>. DEFINE st == [run.st EXCEPT !.done = @ \cup {run.mail}]
  <2>1. run.mail \in Mails /\ run.st \in State
    BY <1>5 DEF EndMail, RunOK, RunRecord
  <2>2. st \in State
    BY <2>1 DEF State
  <2>3. Sent[run.mail] \in Nat
    BY <2>1, ConstantsAssumption
  <2>4. CASE MailIsDone
    <3>1. PICK pc \in {"save", "page"}, unsaved \in Nat, maxSent \in Nat :
            run' = [run EXCEPT !.pc = pc, !.mail = None, !.unsaved = unsaved,
                               !.maxSent = maxSent, !.st = st]
      <4>1. run.unsaved \in Nat /\ run.maxSent \in Nat
        BY DEF RunOK, RunRecord
      <4>. DEFINE pc == IF run.unsaved + 1 >= SaveEvery THEN "save" ELSE "page"
                  unsaved == IF run.unsaved + 1 >= SaveEvery THEN 0
                             ELSE run.unsaved + 1
                  maxSent == IF Sent[run.mail] > run.maxSent
                             THEN Sent[run.mail] ELSE run.maxSent
      <4>2. pc \in {"save", "page"} /\ unsaved \in Nat /\ maxSent \in Nat
        BY <2>3, <4>1
      <4>3. run' = [run EXCEPT !.pc = pc, !.mail = None, !.unsaved = unsaved,
                               !.maxSent = maxSent, !.st = st]
        BY <1>5, <2>4 DEF EndMail
      <4>. HIDE DEF pc, unsaved, maxSent, st
      <4>. QED
        BY <4>2, <4>3
    <3>. HIDE DEF st
    <3>. QED
      BY <2>2, <3>1, Zenon DEF RunOK, RunRecord
  <2>5. CASE ~MailIsDone
    BY <1>5, <2>5 DEF EndMail, RunOK, RunRecord
  <2>. QED
    BY <2>4, <2>5
<1>6. CASE Save \/ NextPage
  <2>1. run.page + 1 \in Nat
    BY DEF RunOK, RunRecord
  <2>. DEFINE page == run.page + 1
  <2>2. \/ run' = [run EXCEPT !.pc = "page"]
        \/ run' = [run EXCEPT !.pc = "listing", !.page = page]
    BY <1>6 DEF Save, NextPage
  <2>3. page \in Nat
    BY <2>1
  <2>. HIDE DEF page
  <2>. QED
    BY <2>2, <2>3, Zenon DEF RunOK, RunRecord
<1>7. CASE Finish \/ EndPush
  BY <1>7, NoRunType DEF Finish, EndPush, GiveUp, RunOK
<1>8. ASSUME NEW p \in Paths, Push(p) PROVE RunOK'
  BY <1>8 DEF Push, RunOK
<1>. QED
  BY <1>1, <1>2, <1>3, <1>4, <1>5, <1>6, <1>7, <1>8 DEF Proceed

LEMMA FailRun ==
  ASSUME RunOK, Fail
  PROVE  RunOK'
<1>1. CASE ListFails \/ SaveFails \/ PushFails \/ Crash
  BY <1>1, NoRunType DEF ListFails, SaveFails, PushFails, Crash, GiveUp, RunOK
<1>2. CASE MailFails
  <2>1. run.mail \in Mails
    BY <1>2 DEF MailFails, HasAttachment, RunOK, RunRecord
  <2>. QED
    BY <1>2, <2>1 DEF MailFails, RunOK, RunRecord
<1>. QED
  BY <1>1, <1>2 DEF Fail

\* Everything but the run.
FilesOK ==
  /\ archive \subseteq Mails
  /\ passwords \subseteq Contents
  /\ library \subseteq Contents
  /\ saved \in State \cup {None}
  /\ outbox \in [Paths -> Contents \cup {None}]
  /\ consume \in [Paths -> Contents \cup {None}]
  /\ faults \in 0..MaxFaults

LEMMA ProceedFiles ==
  ASSUME FilesOK, RunOK, Proceed
  PROVE  FilesOK'
<1>. USE DEF FilesOK, outside
<1>1. CASE ListPage \/ (\E m \in Mails : FetchMail(m)) \/ Dedupe \/ HoldBack
             \/ EndMail \/ NextPage \/ EndPush
  BY <1>1 DEF ListPage, FetchMail, Dedupe, HoldBack, EndMail, NextPage, EndPush
<1>2. CASE Export
  BY <1>2, CurrentWanted DEF Export
<1>3. CASE Save
  BY <1>3 DEF Save, RunOK, RunRecord
<1>4. CASE Finish
  <2>1. run.st \in State
    BY DEF RunOK, RunRecord
  <2>2. run.maxSent \in Nat
    BY DEF RunOK, RunRecord
  <2>3. saved' = [run.st EXCEPT !.watermark = Advance(@)]
    BY <1>4 DEF Finish
  <2>4. saved' \in State
    BY <2>1, <2>2, <2>3 DEF Advance, State
  <2>. QED
    BY <1>4, <2>4 DEF Finish
<1>5. ASSUME NEW p \in Paths, Push(p) PROVE FilesOK'
  BY <1>5 DEF Push
<1>. QED
  BY <1>1, <1>2, <1>3, <1>4, <1>5 DEF Proceed

LEMMA StepType ==
  ASSUME TypeOK, [Next]_vars
  PROVE  TypeOK'
<1>1. FilesOK /\ RunOK
  BY DEF TypeOK, FilesOK, RunOK
<1>2. SUFFICES FilesOK' /\ RunOK'
  BY DEF TypeOK, FilesOK, RunOK
<1>3. ASSUME NEW mode \in Modes, Start(mode) PROVE FilesOK' /\ RunOK'
  BY <1>1, <1>3, StartRun DEF Start, FilesOK, outside
<1>4. CASE Proceed
  BY <1>1, <1>4, ProceedRun, ProceedFiles DEF FilesOK
<1>5. CASE Fail
  <2>1. FilesOK'
    BY <1>1, <1>5, ConstantsAssumption
    DEF Fail, ListFails, MailFails, SaveFails, PushFails, Crash, Fault, FilesOK,
        outside
  <2>. QED
    BY <1>1, <1>5, <2>1, FailRun
<1>6. CASE World
  BY <1>1, <1>6
  DEF World, Arrive, LearnPassword, Ingest, Locked, FilesOK, RunOK
<1>7. CASE UNCHANGED vars
  BY <1>1, <1>7 DEF vars, FilesOK, RunOK
<1>. QED
  BY <1>3, <1>4, <1>5, <1>6, <1>7 DEF Next

\* Every state file and every run has its type, whatever fails.
THEOREM TypeCorrect == Spec => []TypeOK
BY InitType, StepType, PTL DEF Spec

-----------------------------------------------------------------------------
(* DoneIsComplete is not inductive: a run knows more than the state file.   *)
(* What it believes done is complete as well, and of the mail it works on   *)
(* every attachment so far has been exported, or one is locked.             *)

Complete(st) == \A m \in st.done : Wanted(m) \subseteq st.seen

SoFar ==
  run.pc = "mail" =>
    \/ run.locked
    \/ \A k \in DOMAIN Attachments[run.mail] :
         k < run.next => Attachments[run.mail][k] \in run.st.seen

Inv == DoneIsComplete /\ Complete(run.st) /\ SoFar

LEMMA InvInit == Init => Inv
BY DEF Init, Inv, DoneIsComplete, Complete, SoFar, LoadState, NoState, NoRun

LEMMA InvStep ==
  ASSUME TypeOK, Inv, [Next]_vars
  PROVE  Inv'
<1>. USE DEF Inv, DoneIsComplete, Complete
<1>1. ASSUME NEW mode \in Modes, Start(mode) PROVE Inv'
  BY <1>1 DEF Start, NoRun, SoFar, LoadState, NoState
<1>2. CASE ListPage \/ NextPage
  BY <1>2 DEF ListPage, NextPage, SoFar, TypeOK, RunRecord, LoadState
<1>3. ASSUME NEW m \in Mails, FetchMail(m) PROVE Inv'
  <2>1. /\ run'.next = 1 /\ run'.st = run.st /\ saved' = saved
    BY <1>3 DEF FetchMail, TypeOK, RunRecord
  <2>2. m \in Mails /\ run'.mail = m
    BY <1>3 DEF FetchMail, TypeOK, RunRecord
  <2>3. \A k \in DOMAIN Attachments[m] : ~(k < 1)
    BY <2>2, ConstantsAssumption
  <2>. QED
    BY <2>1, <2>2, <2>3 DEF SoFar, LoadState
<1>4. CASE Dedupe
  BY <1>4 DEF Dedupe, HasAttachment, Current, SoFar, TypeOK, RunRecord, LoadState
<1>5. CASE HoldBack
  BY <1>5 DEF HoldBack, SoFar, TypeOK, RunRecord, LoadState
<1>6. CASE Export
  BY <1>6
  DEF Export, Remember, HasAttachment, Current, SoFar, TypeOK, RunRecord, State,
      LoadState
<1>7. CASE EndMail
  <2>1. run.mail \in Mails /\ Attachments[run.mail] \in Seq(Contents)
    BY <1>7, ConstantsAssumption DEF EndMail, TypeOK, RunRecord
  <2>2. MailIsDone => Wanted(run.mail) \subseteq run.st.seen
    BY <1>7, <2>1 DEF EndMail, MailIsDone, SoFar, Wanted, TypeOK, RunRecord
  <2>3. /\ run'.pc # "mail"
        /\ run'.st.seen = run.st.seen
        /\ run'.st.done = IF MailIsDone THEN run.st.done \cup {run.mail}
                          ELSE run.st.done
    BY <1>7 DEF EndMail, TypeOK, RunRecord, State
  <2>. QED
    BY <1>7, <2>2, <2>3 DEF EndMail, SoFar, LoadState
<1>8. CASE Save
  <2>1. run.st \in State /\ run.st # None
    BY ConstantsAssumption DEF TypeOK, RunRecord
  <2>2. saved' = run.st /\ run'.st = run.st /\ run'.pc = "page"
    BY <1>8 DEF Save, TypeOK, RunRecord
  <2>. QED
    BY <2>1, <2>2 DEF SoFar, LoadState
<1>9. CASE Finish
  <2>1. saved' \in State /\ saved'.done = run.st.done /\ saved'.seen = run.st.seen
    BY <1>9 DEF Finish, Advance, TypeOK, RunRecord, State
  <2>. QED
    BY <1>9, <2>1 DEF Finish, GiveUp, NoRun, NoState, SoFar, LoadState
<1>10. CASE EndPush \/ PushFails \/ ListFails \/ SaveFails \/ Crash
  BY <1>10
  DEF EndPush, PushFails, ListFails, SaveFails, Crash, GiveUp, NoRun, NoState,
      SoFar, LoadState
<1>11. CASE MailFails
  BY <1>11 DEF MailFails, SoFar, TypeOK, RunRecord, LoadState
<1>12. CASE World \/ (\E p \in Paths : Push(p))
  BY <1>12 DEF World, Arrive, LearnPassword, Ingest, Push, SoFar, LoadState
<1>13. CASE UNCHANGED vars
  BY <1>13 DEF vars, SoFar, LoadState
<1>. QED
  BY <1>1, <1>2, <1>3, <1>4, <1>5, <1>6, <1>7, <1>8, <1>9, <1>10, <1>11,
     <1>12, <1>13 DEF Next, Proceed, Fail

\* A mail that the state file calls done has all its files exported, whatever
\* fails, crashes or is locked.
THEOREM DoneIsAlwaysComplete == Spec => []DoneIsComplete
<1>1. TypeOK /\ Inv /\ [Next]_vars => Inv'
  BY InvStep
<1>. QED
  BY InvInit, <1>1, TypeCorrect, PTL DEF Spec, Inv
-----------------------------------------------------------------------------
(* The history only observes: what holds of Spec holds of HSpec.           *)

LEMMA HistoryStep ==
  ASSUME [HNext]_allVars
  PROVE  [Next]_vars /\ (Observe \/ UNCHANGED allVars)
BY DEF HNext, Next, allVars

LEMMA HistoryType == HSpec => []TypeOK
<1>1. TypeOK /\ [HNext]_allVars => TypeOK'
  BY HistoryStep, StepType
<1>. QED
  BY <1>1, InitType, PTL DEF HSpec, HInit

-----------------------------------------------------------------------------
(* No document is lost                                                     *)

\* A path with a hash in it has no other content than that one.
NamedByHash == \A n \in Names, c \in Contents : outbox[<<n, c>>] \in {None, c}

Somewhere == Held(outbox) \cup Held(consume) \cup library \cup replaced

LEMMA ExportWrites ==
  ASSUME TypeOK, NamedByHash, Export
  PROVE  /\ Current \in Contents
         /\ \E path \in Paths :
              /\ outbox' = [outbox EXCEPT ![path] = Current]
              /\ outbox[path] \in {None, Current}
         /\ run'.st.seen = run.st.seen \cup {Current}
         /\ run'.pc = "mail" /\ run.pc = "mail"
         /\ NamedByHash'
<1>. DEFINE name == Name[<<run.mail, Current>>]
            path == OutName(run.mail, Current)
<1>1. Current \in Contents /\ run.mail \in Mails
  BY CurrentWanted DEF Export, TypeOK, RunOK
<1>2. name \in Names
  <2>1. <<run.mail, Current>> \in Mails \X Contents
    BY <1>1
  <2>. QED
    BY <2>1, ConstantsAssumption
<1>3. path = IF outbox[<<name, None>>] = None THEN <<name, None>> ELSE <<name, Current>>
  BY DEF OutName
<1>4. path \in Paths /\ outbox[path] \in {None, Current}
  BY <1>1, <1>2, <1>3 DEF Paths, NamedByHash
<1>5. outbox' = [outbox EXCEPT ![path] = Current]
  BY DEF Export
<1>6. \A n \in Names, c \in Contents : path = <<n, c>> => c = Current
  BY <1>1, <1>3, ConstantsAssumption
<1>. HIDE DEF path, name
<1>7. NamedByHash'
  BY <1>4, <1>5, <1>6 DEF NamedByHash, TypeOK, Paths
<1>8. run'.st.seen = run.st.seen \cup {Current} /\ run'.pc = "mail" /\ run.pc = "mail"
  BY DEF Export, Remember, HasAttachment, TypeOK, RunRecord, State
<1>. QED
  BY <1>1, <1>4, <1>5, <1>7, <1>8

\* What is where does not matter to the steps that only change the run.
LEMMA SeenSteps ==
  ASSUME TypeOK, [HNext]_allVars, ~Export
  PROVE  run'.st.seen \cup LoadState'.seen \subseteq run.st.seen \cup LoadState.seen
<1>1. [Next]_vars
  BY HistoryStep
<1>2. run.st \in State /\ None \notin State
  BY ConstantsAssumption DEF TypeOK, RunRecord
<1>3. CASE UNCHANGED saved /\ run'.st \in {run.st, LoadState, NoState}
  BY <1>3 DEF LoadState, NoState
<1>4. CASE EndMail
  BY <1>4 DEF EndMail, LoadState, TypeOK, RunRecord, State
<1>5. CASE Save
  BY <1>2, <1>5 DEF Save, LoadState, TypeOK, RunRecord
<1>6. CASE Finish
  BY <1>2, <1>6 DEF Finish, GiveUp, NoRun, NoState, LoadState, TypeOK, RunRecord, State
<1>7. ASSUME NEW mode \in Modes, Start(mode)
      PROVE  UNCHANGED saved /\ run'.st = LoadState
  BY <1>7 DEF Start, NoRun
<1>8. CASE ListPage \/ (\E m \in Mails : FetchMail(m)) \/ Dedupe \/ HoldBack \/ NextPage
           \/ MailFails \/ (\E p \in Paths : Push(p)) \/ World \/ UNCHANGED vars
  <2>1. UNCHANGED saved /\ run'.st = run.st
    BY <1>8 DEF ListPage, FetchMail, Dedupe, HoldBack, NextPage, MailFails, Push,
                World, Arrive, LearnPassword, Ingest, vars, TypeOK, RunRecord
  <2>. QED
    BY <1>3, <2>1
<1>9. CASE EndPush \/ ListFails \/ SaveFails \/ PushFails \/ Crash
  <2>1. UNCHANGED saved /\ run'.st = NoState
    BY <1>9 DEF EndPush, ListFails, SaveFails, PushFails, Crash, GiveUp, NoRun
  <2>. QED
    BY <1>3, <2>1
<1>. QED
  BY <1>1, <1>3, <1>4, <1>5, <1>6, <1>7, <1>8, <1>9 DEF Next, Proceed, Fail

\* No step takes a content away from where it is, but for the next place.
LEMMA SomewhereStays ==
  ASSUME TypeOK, NamedByHash, [HNext]_allVars
  PROVE  Somewhere \subseteq Somewhere' /\ NamedByHash'
<1>1. [Next]_vars /\ (Observe \/ UNCHANGED allVars)
  BY HistoryStep
<1>2. replaced \subseteq replaced'
  BY <1>1 DEF Observe, allVars, history
<1>3. CASE UNCHANGED <<outbox, consume, library>>
  BY <1>2, <1>3 DEF Somewhere, Held, NamedByHash
<1>4. CASE Export
  <2>1. PICK path \in Paths : /\ outbox' = [outbox EXCEPT ![path] = Current]
                              /\ outbox[path] \in {None, Current}
    BY <1>4, ExportWrites
  <2>2. NamedByHash' /\ Current # None
    BY <1>4, ExportWrites, ConstantsAssumption
  <2>3. \A p \in Paths : outbox[p] # None => outbox'[p] = outbox[p]
    BY <2>1 DEF TypeOK
  <2>4. UNCHANGED <<consume, library>>
    BY <1>4 DEF Export, outside
  <2>. QED
    BY <1>2, <2>2, <2>3, <2>4 DEF Somewhere, Held
<1>5. ASSUME NEW p \in Paths, Push(p)
      PROVE  Somewhere \subseteq Somewhere' /\ NamedByHash'
  <2>1. /\ outbox[p] # None /\ library' = library
        /\ consume'[p] = outbox[p] /\ outbox'[p] = None
        /\ \A q \in Paths \ {p} : consume'[q] = consume[q] /\ outbox'[q] = outbox[q]
    BY <1>5 DEF Push, TypeOK
  <2>2. Observe
    BY <1>1, <2>1 DEF allVars, vars
  <2>3. consume[p] \in {None, outbox[p]} \cup replaced'
    BY <2>1, <2>2 DEF Observe
  <2>4. Held(outbox) \subseteq Held(outbox') \cup Held(consume')
    BY <2>1 DEF Held
  <2>5. Held(consume) \subseteq Held(consume') \cup replaced'
    BY <2>1, <2>3 DEF Held
  <2>6. NamedByHash'
    BY <2>1 DEF NamedByHash, Paths
  <2>. QED
    BY <1>2, <2>1, <2>4, <2>5, <2>6 DEF Somewhere, Held
<1>6. ASSUME NEW p \in Paths, Ingest(p)
      PROVE  Somewhere \subseteq Somewhere' /\ NamedByHash'
  BY <1>2, <1>6 DEF Ingest, Somewhere, Held, NamedByHash, TypeOK
<1>7. CASE Next
  BY <1>3, <1>4, <1>5, <1>6, <1>7
     DEF Next, Start, Proceed, ListPage, FetchMail, Dedupe, HoldBack, EndMail, Save,
         NextPage, Finish, EndPush, Fail, ListFails, MailFails, SaveFails, PushFails,
         Crash, World, Arrive, LearnPassword, outside
<1>. QED
  BY <1>1, <1>3, <1>7 DEF vars

\* What the program took for exported is in the outbox, the consume directory
\* or Paperless, or a later file of its path has replaced it.
THEOREM NoDocumentIsEverLost == HSpec => []NoDocumentLost
<1>1. HInit => NoDocumentLost /\ NamedByHash
  BY DEF HInit, Init, NoDocumentLost, NamedByHash, LoadState, NoState, NoRun, Empty, Paths
<1>2. TypeOK /\ NoDocumentLost /\ NamedByHash /\ [HNext]_allVars
        => NoDocumentLost' /\ NamedByHash'
  <2>. SUFFICES ASSUME TypeOK, NoDocumentLost, NamedByHash, [HNext]_allVars
                PROVE  NoDocumentLost' /\ NamedByHash'
    OBVIOUS
  <2>1. Somewhere \subseteq Somewhere' /\ NamedByHash'
    BY SomewhereStays
  <2>2. CASE Export
    <3>1. /\ \E path \in Paths : outbox' = [outbox EXCEPT ![path] = Current]
          /\ Current \in Contents /\ run'.st.seen = run.st.seen \cup {Current}
      BY <2>2, ExportWrites
    <3>2. Current \in Held(outbox')
      BY <3>1, ConstantsAssumption DEF TypeOK, Held
    <3>3. LoadState' = LoadState
      BY <2>2 DEF Export, LoadState
    <3>. QED
      BY <2>1, <3>1, <3>2, <3>3 DEF NoDocumentLost, Somewhere, Held
  <2>3. CASE ~Export
    BY <2>1, <2>3, SeenSteps DEF NoDocumentLost, Somewhere, Held
  <2>. QED
    BY <2>1, <2>2, <2>3
<1>. QED
  BY <1>1, <1>2, HistoryType, PTL DEF HSpec
-----------------------------------------------------------------------------
(* Repeats                                                                 *)

\* A run starts from what the state file has, and forgets it at its end.
Grows ==
  /\ Running(run) => LoadState.seen \subseteq run.st.seen
  /\ ~Running(run) => run.st.seen = {}

Exported == LoadState.seen \cup run.st.seen

\* A content has been exported once more than runs were lost only if the
\* program still knows of it.
Counted ==
  /\ lost \in Nat
  /\ copies \in [Contents -> Nat]
  /\ \A c \in Contents : copies[c] <= IF c \in Exported THEN lost + 1 ELSE lost

LEMMA SeenGrows ==
  ASSUME TypeOK, Grows, [HNext]_allVars
  PROVE  /\ Grows' /\ LoadState.seen \subseteq LoadState'.seen
         /\ ~Ends => Exported \subseteq Exported'
<1>1. [Next]_vars
  BY HistoryStep
<1>2. /\ run.st \in State /\ None \notin State
      /\ run.pc \in {"idle", "listing", "page", "mail", "save", "push"}
  BY ConstantsAssumption DEF TypeOK, RunRecord
<1>. DEFINE Same == /\ UNCHANGED saved /\ Running(run') = Running(run)
                    /\ run.st.seen \subseteq run'.st.seen
                    /\ ~Running(run) => run'.st.seen = {}
            Over == /\ UNCHANGED saved /\ ~Running(run') /\ run'.st.seen = {}
<1>3. CASE Same
  BY <1>3 DEF Grows, Exported, Ends, LoadState
<1>4. CASE Over
  BY <1>4 DEF Grows, Exported, Ends, LoadState
<1>5. CASE Save
  BY <1>2, <1>5 DEF Save, LoadState, TypeOK, RunRecord, Grows, Exported, Running
<1>6. CASE Finish
  <2>1. saved' \in State /\ saved'.seen = run.st.seen
    BY <1>6 DEF Finish, Advance, TypeOK, RunRecord, State
  <2>2. run.pc = "page" /\ run'.st.seen = {} /\ run'.pc = "push"
    BY <1>6, NoRunType DEF Finish, GiveUp, NoRun, NoState
  <2>. QED
    BY <1>2, <2>1, <2>2 DEF LoadState, Grows, Exported, Running, Ends
<1>7. ASSUME NEW mode \in Modes, Start(mode)
      PROVE  Grows' /\ LoadState' = LoadState /\ Exported \subseteq Exported'
  <2>1. run'.st = LoadState /\ run'.pc = "listing" /\ saved' = saved /\ run.pc = "idle"
    BY <1>7 DEF Start, NoRun
  <2>. QED
    BY <2>1 DEF Grows, Exported, Running, LoadState
<1>8. CASE ListPage \/ (\E m \in Mails : FetchMail(m)) \/ Dedupe \/ HoldBack \/ NextPage
           \/ MailFails \/ (\E p \in Paths : Push(p)) \/ World \/ UNCHANGED vars
  <2>1. UNCHANGED saved /\ run'.st = run.st /\ Running(run') = Running(run)
    BY <1>8 DEF ListPage, FetchMail, Dedupe, HoldBack, NextPage, MailFails, Push,
                HasAttachment, World, Arrive, LearnPassword, Ingest, vars, TypeOK, RunRecord,
                Running
  <2>2. Same
    BY <2>1 DEF Grows
  <2>. QED
    BY <1>3, <2>2
<1>9. CASE EndPush \/ ListFails \/ SaveFails \/ PushFails \/ Crash
  <2>1. Over
    BY <1>9 DEF EndPush, ListFails, SaveFails, PushFails, Crash, GiveUp, NoRun, NoState,
                Running
  <2>. QED
    BY <1>4, <2>1
<1>10. CASE Export
  <2>1. run'.st.seen = run.st.seen \cup {Current} /\ run'.pc = "mail" /\ run.pc = "mail"
    BY <1>10 DEF Export, Remember, HasAttachment, TypeOK, RunRecord, State
  <2>2. Same
    BY <1>10, <2>1 DEF Export, Running
  <2>. QED
    BY <1>3, <2>2
<1>11. CASE EndMail
  <2>1. Same
    BY <1>11 DEF EndMail, TypeOK, RunRecord, State, Running
  <2>. QED
    BY <1>3, <2>1
<1>. QED
  BY <1>1, <1>3, <1>4, <1>5, <1>6, <1>7, <1>8, <1>9, <1>10, <1>11 DEF Next, Proceed, Fail

\* Only Export puts a file into the outbox.
LEMMA OutboxShrinks ==
  ASSUME TypeOK, Next, ~Export, NEW c \in Contents
  PROVE  {p \in Paths : outbox'[p] = c /\ outbox[p] # c} = {}
<1>1. c # None
  BY ConstantsAssumption
<1>2. CASE UNCHANGED outbox
  BY <1>2
<1>3. ASSUME NEW q \in Paths, Push(q)
      PROVE  \A p \in Paths : outbox'[p] \in {None, outbox[p]}
  BY <1>3 DEF Push, TypeOK
<1>. QED
  BY <1>1, <1>2, <1>3
     DEF Next, Start, Proceed, ListPage, FetchMail, Dedupe, HoldBack, EndMail, Save,
         NextPage, Finish, EndPush, Fail, ListFails, MailFails, SaveFails, PushFails,
         Crash, World, Arrive, LearnPassword, Ingest

LEMMA CountedStep ==
  ASSUME TypeOK, NamedByHash, Grows, Counted, [HNext]_allVars
  PROVE  Counted'
<1>. DEFINE New(c) == {p \in Paths : outbox'[p] = c /\ outbox[p] # c}
<1>1. CASE UNCHANGED allVars
  BY <1>1 DEF allVars, vars, history, Counted, Exported, LoadState
<1>2. CASE HNext /\ Export
  <2>1. PICK path \in Paths : /\ outbox' = [outbox EXCEPT ![path] = Current]
                              /\ outbox[path] \in {None, Current}
    BY <1>2, ExportWrites
  <2>2. /\ Current \in Contents /\ run'.st.seen = run.st.seen \cup {Current}
        /\ run'.pc = "mail" /\ run.pc = "mail" /\ LoadState' = LoadState
    BY <1>2, ExportWrites DEF Export, LoadState
  <2>3. Current \notin Exported
    BY <1>2, <2>2 DEF Export, Grows, Running, Exported
  <2>4. ~Ends
    BY <2>2 DEF Ends, Running
  <2>5. New(Current) \subseteq {path}
    BY <2>1 DEF TypeOK
  <2>6. Cardinality(New(Current)) \in {0, 1}
    <3>1. IsFiniteSet({path}) /\ Cardinality({path}) = 1
      BY FS_Singleton
    <3>2. IsFiniteSet(New(Current)) /\ Cardinality(New(Current)) <= 1
      BY <2>5, <3>1, FS_Subset
    <3>3. Cardinality(New(Current)) \in Nat
      BY <3>2, FS_CardinalityType
    <3>. QED
      BY <3>2, <3>3
  <2>7. ASSUME NEW c \in Contents \ {Current} PROVE Cardinality(New(c)) = 0
    <3>1. New(c) = {}
      BY <2>1 DEF TypeOK
    <3>. QED
      BY <3>1, FS_EmptySet
  <2>. HIDE DEF New
  <2>8. /\ lost' = lost
        /\ copies' = [c \in Contents |-> copies[c] + Cardinality(New(c))]
    BY <1>2, <2>4, HistoryStep DEF HNext, Observe, New
  <2>9. Exported' = Exported \cup {Current}
    BY <2>2 DEF Exported
  <2>. QED
    BY <2>2, <2>3, <2>6, <2>7, <2>8, <2>9 DEF Counted
<1>3. CASE HNext /\ ~Export
  <2>1. \A c \in Contents : Cardinality(New(c)) = 0
    BY <1>3, OutboxShrinks, FS_EmptySet DEF HNext, Next
  <2>. HIDE DEF New
  <2>2. /\ copies' = [c \in Contents |-> copies[c] + Cardinality(New(c))]
        /\ lost' = IF Ends /\ run.st.seen # LoadState'.seen THEN lost + 1 ELSE lost
    BY <1>3 DEF HNext, Observe, New
  <2>3. copies' = copies
    BY <2>1, <2>2 DEF Counted
  <2>4. lost' = lost => Exported \subseteq Exported'
    BY <2>2, SeenGrows DEF Exported, Counted, Grows, Ends
  <2>. QED
    BY <2>2, <2>3, <2>4 DEF Counted
<1>. QED
  BY <1>1, <1>2, <1>3

\* However often runs fail or are killed, a content is exported once, and once
\* more at most for each run that ended without saving what it had exported.
THEOREM RepeatsAreLostRunsOnly == HSpec => []RepeatsAreLostRuns
<1>. DEFINE All == NamedByHash /\ Grows /\ Counted
<1>1. HInit => All
  BY DEF HInit, Init, NamedByHash, Grows, Counted, Exported, Running, LoadState, NoState,
         NoRun, Empty, Paths
<1>2. TypeOK /\ All /\ [HNext]_allVars => All'
  BY SomewhereStays, SeenGrows, CountedStep
<1>3. All => RepeatsAreLostRuns
  BY DEF Counted, RepeatsAreLostRuns
<1>. QED
  BY <1>1, <1>2, <1>3, HistoryType, PTL DEF HSpec
-----------------------------------------------------------------------------
(* A failed mail is listed again                                           *)

Watermark == LoadState.watermark

\* A run that is not yet past an owed mail: it has failed again, is done, is
\* being worked on, or is on this page or on one to come.
Awaits(m) ==
  \/ m \in run.failed \cup run.st.done \cup run.items
  \/ run.pc = "mail" /\ m = run.mail
  \/ /\ ~run.last
     /\ PageOf(m) > IF run.pc = "listing" THEN run.page - 1 ELSE run.page

OwedInv ==
  /\ IsFiniteSet(archive) /\ owed \subseteq archive
  /\ FailedMailIsListedAgain
  /\ Running(run) =>
       /\ run.st.watermark = Watermark
       /\ run.from \in {0, From("incremental", Watermark)}
       /\ run.mode = "incremental" => run.from = From("incremental", Watermark)
       /\ run.failed \cup run.items \subseteq Listed
       /\ run.pc = "mail" => run.mail \in Listed
       /\ run.pc = "listing" => run.items = {}
       /\ \A m \in owed : Awaits(m)

LEMMA DivType ==
  ASSUME NEW x \in Nat, NEW p \in Nat \ {0}
  PROVE  x \div p \in Nat
<1>1. x \div p \in Int /\ x < p * (x \div p + 1)
  OBVIOUS
<1>2. ASSUME x \div p < 0 PROVE FALSE
  <2>1. x \div p + 1 <= 0 /\ x \div p + 1 \in Int
    BY <1>1, <1>2
  <2>2. p * (x \div p + 1) <= 0
    BY <2>1
  <2>. QED
    BY <1>1, <2>2
<1>. QED
  BY <1>1, <1>2

LEMMA PageOfType ==
  ASSUME IsFiniteSet(archive), NEW m
  PROVE  Position(m) \in Nat /\ PageOf(m) \in Nat /\ PageOf(m) >= 1
<1>1. IsFiniteSet({n \in Listed : Before(n, m)})
  BY FS_Subset DEF Listed
<1>2. Position(m) \in Nat
  BY <1>1, FS_CardinalityType DEF Position
<1>3. Position(m) \div PageSize \in Nat
  BY <1>2, DivType, ConstantsAssumption
<1>. QED
  BY <1>2, <1>3 DEF PageOf

LEMMA PageOfTypeNext ==
  ASSUME IsFiniteSet(archive'), NEW m
  PROVE  PageOf(m)' \in Nat /\ PageOf(m)' >= 1
<1>1. IsFiniteSet({n \in Listed' : Before(n, m)})
  BY FS_Subset DEF Listed
<1>2. Position(m)' \in Nat
  BY <1>1, FS_CardinalityType DEF Position, Before
<1>3. Position(m)' \div PageSize \in Nat
  BY <1>2, DivType, ConstantsAssumption
<1>. QED
  BY <1>2, <1>3 DEF PageOf

LEMMA DivGrows ==
  ASSUME NEW x \in Nat, NEW y \in Nat, NEW p \in Nat \ {0}, x <= y
  PROVE  x \div p <= y \div p
OBVIOUS

\* Mail that arrives moves others to later pages, never to earlier ones.
LEMMA PagesGrow ==
  ASSUME IsFiniteSet(archive'), archive \subseteq archive', run'.from = run.from, NEW m
  PROVE  PageOf(m) <= PageOf(m)' /\ Listed \subseteq Listed'
<1>. DEFINE S == {n \in Listed : Before(n, m)}
            T == {n \in Listed' : Before(n, m)}
<1>1. Listed \subseteq Listed'
  BY DEF Listed
<1>2. IsFiniteSet(archive) /\ IsFiniteSet(T)
  BY FS_Subset DEF Listed
<1>3. S \subseteq T
  BY <1>1
<1>4. Cardinality(S) <= Cardinality(T)
  BY <1>2, <1>3, FS_Subset
<1>5. Position(m) = Cardinality(S) /\ Position(m)' = Cardinality(T)
  BY DEF Position, Before
<1>6. Position(m) \in Nat /\ Position(m)' \in Nat
  <2>1. IsFiniteSet(S)
    BY <1>2, <1>3, FS_Subset
  <2>. QED
    BY <1>2, <1>5, <2>1, FS_CardinalityType
<1>7. Position(m) \div PageSize <= Position(m)' \div PageSize
  BY <1>4, <1>5, <1>6, DivGrows, ConstantsAssumption
<1>8. Position(m) \div PageSize \in Int /\ Position(m)' \div PageSize \in Int
  BY <1>6, ConstantsAssumption
<1>. QED
  BY <1>1, <1>7, <1>8 DEF PageOf

LEMMA PagesStay ==
  ASSUME UNCHANGED archive, run'.from = run.from
  PROVE  Listed' = Listed /\ \A m : PageOf(m)' = PageOf(m)
BY DEF PageOf, Position, Listed, Before

\* An owed mail is among those that a run lists.
LEMMA OwedIsListed ==
  ASSUME TypeOK, OwedInv, Running(run), NEW m \in owed
  PROVE  m \in Listed /\ m \in Mails
<1>1. m \in archive /\ m \in Mails
  BY DEF OwedInv, TypeOK
<1>2. From("incremental", Watermark) <= Sent[m] /\ Sent[m] \in Nat
  BY <1>1, ConstantsAssumption DEF OwedInv, FailedMailIsListedAgain, Watermark
<1>3. 0 <= Sent[m]
  BY <1>2
<1>4. Sent[m] >= run.from
  BY <1>2, <1>3 DEF OwedInv
<1>. QED
  BY <1>1, <1>4 DEF Listed

\* As long as a run goes on, nothing new is owed.
LEMMA OwedShrinks ==
  ASSUME Observe, ~Ends
  PROVE  owed' \subseteq owed /\ (run.locked => run.mail \notin owed')
BY DEF Observe

\* A step of a run that goes on and leaves the archive and the state file.
LEMMA RunGoesOn ==
  ASSUME TypeOK, TypeOK', OwedInv, Observe,
         Running(run), Running(run'), UNCHANGED <<archive, saved>>,
         run'.from = run.from, run'.mode = run.mode,
         run'.st.watermark = run.st.watermark,
         run'.failed \cup run'.items \subseteq Listed,
         run'.pc = "mail" => run'.mail \in Listed,
         run'.pc = "listing" => run'.items = {},
         \A m \in owed' : Awaits(m)'
  PROVE  OwedInv'
<1>1. owed' \subseteq owed
  BY OwedShrinks DEF Ends
<1>2. Listed' = Listed
  BY PagesStay
<1>3. LoadState' = LoadState /\ Watermark' = Watermark
  BY DEF LoadState, Watermark
<1>4. FailedMailIsListedAgain'
  BY <1>1, <1>3 DEF OwedInv, FailedMailIsListedAgain, From
<1>. QED
  BY <1>1, <1>2, <1>3, <1>4 DEF OwedInv, From

\* A run ends without its state.
LEMMA RunBreaksOff ==
  ASSUME TypeOK, OwedInv, Observe, Running(run), ~Running(run'), UNCHANGED <<archive, saved>>
  PROVE  OwedInv'
<1>1. owed' \subseteq owed \cup (IF run.mode = "incremental" THEN run.failed ELSE {})
  BY DEF Observe, Ends
<1>2. LoadState' = LoadState
  BY DEF LoadState
<1>3. ASSUME run.mode = "incremental", NEW m \in run.failed
      PROVE  From("incremental", LoadState.watermark) <= Sent[m] /\ m \in archive
  <2>1. m \in Listed /\ run.from = From("incremental", LoadState.watermark)
    BY <1>3 DEF OwedInv, Watermark
  <2>2. m \in Mails /\ run.from \in Int /\ Sent[m] \in Int
    BY <2>1, ConstantsAssumption DEF Listed, TypeOK, RunRecord
  <2>. QED
    BY <2>1, <2>2 DEF Listed
<1>4. FailedMailIsListedAgain'
  BY <1>1, <1>2, <1>3 DEF OwedInv, FailedMailIsListedAgain, From
<1>. QED
  BY <1>1, <1>3, <1>4 DEF OwedInv

\* Nothing runs, before and after the step.
LEMMA NothingRuns ==
  ASSUME OwedInv, Observe, ~Running(run), ~Running(run'), UNCHANGED saved,
         IsFiniteSet(archive'), archive \subseteq archive'
  PROVE  OwedInv'
<1>1. owed' \subseteq owed
  BY OwedShrinks DEF Ends
<1>2. FailedMailIsListedAgain'
  BY <1>1 DEF OwedInv, FailedMailIsListedAgain, From, LoadState
<1>. QED
  BY <1>1, <1>2 DEF OwedInv

\* The last step of a run that lists everything: what is owed is done, or the
\* watermark stays.
LEMMA FinishOwed ==
  ASSUME TypeOK, OwedInv, Observe, Finish
  PROVE  OwedInv'
<1>1. /\ run.pc = "page" /\ run.items = {} /\ run.last
      /\ Running(run) /\ ~Running(run') /\ Ends /\ UNCHANGED archive
  BY NoRunType DEF Finish, GiveUp, Running, Ends, outside
<1>2. saved' \in State /\ saved'.done = run.st.done /\ LoadState' = saved'
      /\ saved'.watermark = Advance(run.st.watermark) /\ run.st.watermark = Watermark
  BY <1>1, ConstantsAssumption DEF Finish, LoadState, OwedInv, TypeOK, RunRecord, State, Advance
<1>3. owed' = IF run.mode = "incremental" THEN (owed \cup run.failed) \ run.st.done
              ELSE (owed \ run.st.done) \ (IF run.locked THEN {run.mail} ELSE {})
  BY <1>1, <1>2 DEF Observe
<1>4. ASSUME NEW m \in owed, m \notin run.st.done
      PROVE  m \in run.failed
  BY <1>1, <1>4 DEF OwedInv, Awaits
<1>5. CASE run.failed = {}
  <2>1. owed' = {}
    BY <1>3, <1>4, <1>5
  <2>. QED
    BY <1>1, <2>1 DEF OwedInv, FailedMailIsListedAgain
<1>6. CASE run.failed # {}
  <2>1. LoadState'.watermark = LoadState.watermark
    BY <1>2, <1>6 DEF Advance, CleanRun, Watermark
  <2>2. ASSUME NEW m \in owed'
        PROVE  m \in archive /\ From("incremental", LoadState.watermark) <= Sent[m]
    <3>1. CASE m \in owed
      BY <3>1 DEF OwedInv, FailedMailIsListedAgain
    <3>2. CASE m \notin owed
      <4>1. m \in Listed /\ run.from = From("incremental", LoadState.watermark)
        BY <1>1, <1>3, <3>2 DEF OwedInv, Watermark
      <4>2. m \in Mails /\ run.from \in Int /\ Sent[m] \in Int
        BY <4>1, ConstantsAssumption DEF Listed, TypeOK, RunRecord
      <4>. QED
        BY <4>1, <4>2 DEF Listed
    <3>. QED
      BY <3>1, <3>2
  <2>3. FailedMailIsListedAgain'
    BY <2>1, <2>2 DEF FailedMailIsListedAgain, From
  <2>. QED
    BY <1>1, <2>2, <2>3 DEF OwedInv
<1>. QED
  BY <1>5, <1>6

LEMMA OwedStep ==
  ASSUME TypeOK, TypeOK', OwedInv, [HNext]_allVars
  PROVE  OwedInv'
<1>0. [Next]_vars /\ (Observe \/ UNCHANGED allVars)
  BY HistoryStep
<1>1. CASE UNCHANGED allVars
  BY <1>1 DEF allVars, vars, history, OwedInv, FailedMailIsListedAgain, LoadState, Watermark,
              Listed, Awaits, PageOf, Position, From
<1>. SUFFICES ASSUME Observe, Next PROVE OwedInv'
  BY <1>1 DEF HNext, Next
<1>r. run \in RunRecord /\ run.st \in State /\ archive \subseteq Mails
  BY DEF TypeOK, RunRecord
<1>2. ASSUME NEW mode \in Modes, Start(mode) PROVE OwedInv'
  <2>1. /\ run.pc = "idle" /\ run'.pc = "listing" /\ run'.mode = mode /\ run'.page = 1
        /\ run'.from = From(mode, Watermark) /\ run'.st = LoadState /\ run'.last = FALSE
        /\ run'.failed = {} /\ run'.items = {} /\ UNCHANGED <<archive, saved>>
    BY <1>2 DEF Start, NoRun, Watermark, outside
  <2>2. owed' \subseteq owed
    BY <2>1, OwedShrinks DEF Ends, Running
  <2>3. LoadState' = LoadState /\ Watermark' = Watermark
    BY <2>1 DEF LoadState, Watermark
  <2>4. FailedMailIsListedAgain'
    BY <2>2, <2>3 DEF OwedInv, FailedMailIsListedAgain, From
  <2>5. run'.from \in {0, From("incremental", Watermark)}
    BY <1>2, <2>1 DEF From, Modes
  <2>6. ASSUME NEW m \in owed' PROVE Awaits(m)'
    <3>1. IsFiniteSet(archive')
      BY <2>1 DEF OwedInv
    <3>2. PageOf(m)' \in Nat /\ PageOf(m)' >= 1
      BY <3>1, PageOfTypeNext
    <3>. QED
      BY <2>1, <3>2 DEF Awaits
  <2>7. mode = "incremental" => run'.from = From("incremental", Watermark)
    BY <2>1
  <2>8. From("incremental", Watermark)' = From("incremental", Watermark)
    BY <2>3 DEF From
  <2>9. run'.st.watermark = Watermark'
    BY <2>1, <2>3 DEF Watermark
  <2>. QED
    BY <2>1, <2>2, <2>4, <2>5, <2>6, <2>7, <2>8, <2>9 DEF OwedInv
<1>3. CASE ListPage
  <2>1. /\ run.pc = "listing" /\ run'.pc = "page" /\ run.items = {}
        /\ run'.from = run.from /\ run'.mode = run.mode /\ run'.st = run.st
        /\ run'.failed = run.failed /\ run'.page = run.page /\ run.page \in Nat
        /\ run'.items = {m \in Listed \ run.st.done : PageOf(m) = run.page}
        /\ run'.last = \A m \in Listed : PageOf(m) <= run.page
        /\ UNCHANGED <<archive, saved>> /\ Running(run) /\ Running(run')
    BY <1>3, <1>r DEF ListPage, outside, RunRecord, OwedInv, Running
  <2>2. \A m : PageOf(m)' = PageOf(m)
    BY <2>1, PagesStay
  <2>3. ASSUME NEW m \in owed' PROVE Awaits(m)'
    <3>1. m \in owed /\ m \in Listed
      BY <2>1, OwedShrinks, OwedIsListed DEF Ends
    <3>2. PageOf(m) \in Nat
      BY PageOfType DEF OwedInv
    <3>3. CASE m \in run.failed \cup run.st.done
      BY <2>1, <3>3 DEF Awaits
    <3>4. CASE m \notin run.failed \cup run.st.done
      <4>1. ~run.last /\ PageOf(m) > run.page - 1
        BY <2>1, <3>1, <3>4 DEF OwedInv, Awaits
      <4>2. CASE PageOf(m) = run.page
        BY <2>1, <3>1, <3>4, <4>2 DEF Awaits
      <4>3. CASE PageOf(m) # run.page
        <5>1. PageOf(m) > run.page
          BY <2>1, <3>2, <4>1, <4>3
        <5>2. ~run'.last
          BY <2>1, <3>1, <3>2, <5>1
        <5>. QED
          BY <2>1, <2>2, <5>1, <5>2 DEF Awaits
      <4>. QED
        BY <4>2, <4>3
    <3>. QED
      BY <3>3, <3>4
  <2>4. run'.failed \cup run'.items \subseteq Listed
    BY <2>1 DEF OwedInv
  <2>. QED
    BY <2>1, <2>3, <2>4, RunGoesOn
<1>4. ASSUME NEW x \in Mails, FetchMail(x) PROVE OwedInv'
  <2>1. /\ run.pc = "page" /\ run'.pc = "mail" /\ run'.mail = x /\ x \in run.items
        /\ run'.items = run.items \ {x}
        /\ run'.from = run.from /\ run'.mode = run.mode /\ run'.st = run.st
        /\ run'.failed = run.failed /\ run'.page = run.page /\ run'.last = run.last
        /\ UNCHANGED <<archive, saved>> /\ Running(run) /\ Running(run')
    BY <1>4, <1>r DEF FetchMail, outside, RunRecord, Running
  <2>2. \A m : PageOf(m)' = PageOf(m)
    BY <2>1, PagesStay
  <2>3. ASSUME NEW m \in owed' PROVE Awaits(m)'
    BY <2>1, <2>2, OwedShrinks DEF Ends, OwedInv, Awaits
  <2>. QED
    BY <2>1, <2>3, RunGoesOn DEF OwedInv
<1>5. CASE Dedupe \/ HoldBack \/ Export
  <2>. DEFINE Same ==
                /\ run.pc = "mail" /\ run'.pc = "mail" /\ run'.mail = run.mail
                /\ run'.items = run.items
                /\ run'.from = run.from /\ run'.mode = run.mode
                /\ run'.st.done = run.st.done /\ run'.st.watermark = run.st.watermark
                /\ run'.failed = run.failed /\ run'.page = run.page
                /\ run'.last = run.last
                /\ UNCHANGED <<archive, saved>>
  <2>a. ASSUME Dedupe \/ HoldBack PROVE Same
    BY <1>r, <2>a DEF Dedupe, HoldBack, HasAttachment, outside, RunRecord
  <2>b. ASSUME Export PROVE Same
    BY <1>r, <2>b DEF Export, HasAttachment, outside, RunRecord, State
  <2>1. Same /\ Running(run) /\ Running(run')
    BY <1>5, <2>a, <2>b DEF Running
  <2>2. \A m : PageOf(m)' = PageOf(m)
    BY <2>1, PagesStay
  <2>3. ASSUME NEW m \in owed' PROVE Awaits(m)'
    BY <2>1, <2>2, OwedShrinks DEF Ends, OwedInv, Awaits
  <2>. QED
    BY <2>1, <2>3, RunGoesOn DEF OwedInv
<1>6. CASE EndMail
  <2>1. /\ run.pc = "mail" /\ run'.pc \in {"page", "save"}
        /\ run'.items = run.items
        /\ run'.from = run.from /\ run'.mode = run.mode
        /\ run'.st.watermark = run.st.watermark
        /\ run'.st.done = IF run.locked THEN run.st.done ELSE run.st.done \cup {run.mail}
        /\ run'.failed = run.failed /\ run'.page = run.page /\ run'.last = run.last
        /\ UNCHANGED <<archive, saved>> /\ Running(run) /\ Running(run')
    BY <1>6, <1>r DEF EndMail, MailIsDone, outside, RunRecord, State, Running
  <2>2. \A m : PageOf(m)' = PageOf(m)
    BY <2>1, PagesStay
  <2>3. ASSUME NEW m \in owed' PROVE Awaits(m)'
    BY <2>1, <2>2, OwedShrinks DEF Ends, OwedInv, Awaits
  <2>. QED
    BY <2>1, <2>3, RunGoesOn DEF OwedInv
<1>7. CASE MailFails
  <2>1. /\ run.pc = "mail" /\ run'.pc = "page"
        /\ run'.items = run.items
        /\ run'.from = run.from /\ run'.mode = run.mode /\ run'.st = run.st
        /\ run'.failed = run.failed \cup {run.mail}
        /\ run'.page = run.page /\ run'.last = run.last
        /\ UNCHANGED <<archive, saved>> /\ Running(run) /\ Running(run')
    BY <1>7, <1>r DEF MailFails, HasAttachment, outside, RunRecord, Running
  <2>2. \A m : PageOf(m)' = PageOf(m)
    BY <2>1, PagesStay
  <2>3. ASSUME NEW m \in owed' PROVE Awaits(m)'
    BY <2>1, <2>2, OwedShrinks DEF Ends, OwedInv, Awaits
  <2>. QED
    BY <2>1, <2>3, RunGoesOn DEF OwedInv
<1>8. CASE NextPage
  <2>1. /\ run.pc = "page" /\ run'.pc = "listing" /\ run.items = {} /\ run'.items = {}
        /\ ~run.last /\ ~run'.last /\ run'.page = run.page + 1 /\ run.page \in Nat
        /\ run'.from = run.from /\ run'.mode = run.mode /\ run'.st = run.st
        /\ run'.failed = run.failed
        /\ UNCHANGED <<archive, saved>> /\ Running(run) /\ Running(run')
    BY <1>8, <1>r DEF NextPage, outside, RunRecord, Running
  <2>2. \A m : PageOf(m)' = PageOf(m)
    BY <2>1, PagesStay
  <2>3. ASSUME NEW m \in owed' PROVE Awaits(m)'
    <3>1. m \in run.failed \cup run.st.done \/ PageOf(m) > run.page
      BY <2>1, OwedShrinks DEF Ends, OwedInv, Awaits
    <3>2. run'.page - 1 = run.page
      BY <2>1
    <3>. QED
      BY <2>1, <2>2, <3>1, <3>2 DEF Awaits
  <2>. QED
    BY <2>1, <2>3, RunGoesOn DEF OwedInv
<1>9. CASE Save
  <2>1. /\ run.pc = "save" /\ run'.pc = "page" /\ saved' = run.st
        /\ run'.items = run.items
        /\ run'.from = run.from /\ run'.mode = run.mode /\ run'.st = run.st
        /\ run'.failed = run.failed /\ run'.page = run.page /\ run'.last = run.last
        /\ UNCHANGED archive /\ Running(run) /\ Running(run')
    BY <1>9, <1>r DEF Save, outside, RunRecord, Running
  <2>2. Listed' = Listed /\ \A m : PageOf(m)' = PageOf(m)
    BY <2>1, PagesStay
  <2>3. owed' \subseteq owed
    BY <2>1, OwedShrinks DEF Ends
  <2>4. LoadState' = run.st /\ Watermark' = Watermark
    BY <1>r, <2>1, ConstantsAssumption DEF LoadState, Watermark, OwedInv
  <2>5. FailedMailIsListedAgain'
    BY <2>3, <2>4 DEF OwedInv, FailedMailIsListedAgain, From, Watermark
  <2>6. ASSUME NEW m \in owed' PROVE Awaits(m)'
    BY <2>1, <2>2, <2>3 DEF OwedInv, Awaits
  <2>. QED
    BY <2>1, <2>2, <2>3, <2>4, <2>5, <2>6 DEF OwedInv, From
<1>10. CASE Finish
  BY <1>10, FinishOwed
<1>11. CASE ListFails \/ SaveFails \/ Crash
  <2>1. Running(run) /\ ~Running(run') /\ UNCHANGED <<archive, saved>>
    BY <1>11, NoRunType DEF ListFails, SaveFails, Crash, GiveUp, Running, outside
  <2>. QED
    BY <2>1, RunBreaksOff
<1>12. CASE EndPush \/ PushFails \/ \E p \in Paths : Push(p)
  <2>1. ~Running(run) /\ ~Running(run') /\ UNCHANGED <<archive, saved>>
    BY <1>12, NoRunType DEF EndPush, PushFails, Push, Running, outside
  <2>. QED
    BY <2>1, NothingRuns DEF OwedInv
<1>13. CASE World
  <2>1. UNCHANGED <<saved, run>> /\ archive \subseteq archive'
    BY <1>13 DEF World, Arrive, LearnPassword, Ingest
  <2>2. IsFiniteSet(archive')
    <3>1. CASE \E m \in Mails : archive' = archive \cup {m}
      BY <3>1, FS_AddElement DEF OwedInv
    <3>. QED
      BY <1>13, <3>1 DEF OwedInv, World, Arrive, LearnPassword, Ingest
  <2>3. CASE ~Running(run)
    BY <2>1, <2>2, <2>3, NothingRuns
  <2>4. CASE Running(run)
    <3>1. owed' \subseteq owed
      BY <2>1, OwedShrinks DEF Ends
    <3>2. ASSUME NEW m \in owed' PROVE Awaits(m)'
      <4>1. PageOf(m) <= PageOf(m)' /\ PageOf(m) \in Nat /\ run.page \in Nat
        BY <1>r, <2>1, <2>2, PagesGrow, PageOfType DEF OwedInv, RunRecord
      <4>2. PageOf(m)' \in Nat
        BY <2>2, PageOfTypeNext
      <4>. QED
        BY <2>1, <2>4, <3>1, <4>1, <4>2 DEF OwedInv, Awaits
    <3>3. Listed \subseteq Listed'
      BY <2>1, <2>2, PagesGrow
    <3>4. LoadState' = LoadState /\ Watermark' = Watermark
      BY <2>1 DEF LoadState, Watermark
    <3>5. FailedMailIsListedAgain'
      BY <3>1, <3>4 DEF OwedInv, FailedMailIsListedAgain, From
    <3>. QED
      BY <2>1, <2>2, <2>4, <3>1, <3>2, <3>3, <3>4, <3>5 DEF OwedInv, From
  <2>. QED
    BY <2>3, <2>4
<1>. QED
  BY <1>2, <1>3, <1>4, <1>5, <1>6, <1>7, <1>8, <1>9, <1>10, <1>11, <1>12, <1>13
     DEF Next, Proceed, Fail

\* A mail that failed in an incremental run is listed again by the next one,
\* as far as others have moved the watermark on, whatever mail arrives while a
\* run turns the pages.
THEOREM FailedMailIsAlwaysListedAgain == HSpec => []FailedMailIsListedAgain
<1>1. HInit => OwedInv
  BY FS_EmptySet DEF HInit, Init, OwedInv, FailedMailIsListedAgain, Running, NoRun
<1>2. TypeOK /\ TypeOK' /\ OwedInv /\ [HNext]_allVars => OwedInv'
  BY OwedStep
<1>3. OwedInv => FailedMailIsListedAgain
  BY DEF OwedInv
<1>. QED
  BY <1>1, <1>2, <1>3, HistoryType, PTL DEF HSpec
=============================================================================
