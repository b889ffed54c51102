----------------------------- MODULE MailExport -----------------------------
(***************************************************************************)
(* The transfer of mail attachments to paperless:                          *)
(* tools/cmd/paperless-mail-export, run by services/paperless-mail-export/ *)
(* run.sh.  A run lists the mails of the archive page by page, oldest      *)
(* first, puts the wanted attachments of each mail that is not done into   *)
(* the outbox, saves its state now and then, and finally pushes the outbox *)
(* to the consume directory of paperless.  run.sh holds a lock, so one run *)
(* exists at a time.  Dates are days, and 0 is the missing date.           *)
(*                                                                         *)
(* A content stands for the bytes of a file and for their sha256.          *)
(***************************************************************************)
EXTENDS Integers, Sequences, FiniteSets

CONSTANTS
  None,
  Mails,         \* their ids in mail-archiver
  Contents, Names,
  Attachments,   \* the attachments of a mail that wanted() accepts, in order
  Sent,          \* the day of a mail
  Name,          \* the path outName gives an attachment, unless it is taken
  Protected,     \* contents that are PDFs which need a password
  Overlap, PageSize, SaveEvery,   \* the flags of the program
  Faulty,        \* what may fail: "list", "mail", "save", "push", "crash"
  MaxFaults      \* bound on failures, for TLC

State == [watermark: Nat, done: SUBSET Mails, seen: SUBSET Contents]

ASSUME ConstantsAssumption ==
  /\ Attachments \in [Mails -> Seq(Contents)]
  /\ Mails \subseteq Nat
  /\ Sent \in [Mails -> Nat] /\ \A m \in Mails : Sent[m] = 0 \/ Sent[m] > Overlap
  /\ Name \in [Mails \X Contents -> Names]
  /\ Protected \subseteq Contents
  /\ Overlap \in Nat /\ PageSize \in Nat \ {0} /\ SaveEvery \in Nat \ {0}
  /\ MaxFaults \in Nat
  /\ None \notin Contents /\ None \notin Mails /\ None \notin State

VARIABLES
  archive,    \* the mails in mail-archiver
  passwords,  \* the protected contents whose password is in the secret
  saved,      \* the state file, or None
  run,        \* the run in progress
  outbox,     \* what is at each path of the outbox
  consume,    \* what is at each path of the consume directory
  library,    \* what paperless has taken in
  faults      \* failures so far

vars == <<archive, passwords, saved, run, outbox, consume, library, faults>>
outside == <<archive, passwords, consume, library>>

Modes == {"incremental", "sweep"}

\* outName: the plain name, or the one with the hash in it.
Paths == Names \X (Contents \cup {None})

Empty == [p \in Paths |-> None]

NoState == [watermark |-> 0, done |-> {}, seen |-> {}]

\* loadState: a missing file is an empty state.
LoadState == IF saved = None THEN NoState ELSE saved

NoRun == [pc |-> "idle", mode |-> "sweep", from |-> 0, page |-> 0,
          last |-> FALSE, items |-> {}, mail |-> None, next |-> 1,
          locked |-> FALSE, failed |-> {}, maxSent |-> 0, unsaved |-> 0,
          st |-> NoState]

-----------------------------------------------------------------------------
(* Listing                                                                 *)

\* The first day an incremental run asks for; a sweep asks for everything.
FromWatermark(mode, watermark) ==   \* mutant: a sweep, too, starts there
  IF watermark = 0 THEN 0 ELSE watermark - Overlap
From(mode, watermark) ==
  IF mode = "incremental" /\ watermark # 0 THEN watermark - Overlap ELSE 0

Start(mode) ==
  /\ run.pc = "idle"
  /\ run' = [NoRun EXCEPT !.pc = "listing", !.mode = mode, !.page = 1,
                          !.from = From(mode, LoadState.watermark),
                          !.st = LoadState]
  /\ UNCHANGED <<outside, saved, outbox, faults>>

Before(m, n) == Sent[m] < Sent[n] \/ (Sent[m] = Sent[n] /\ m < n)

\* The archive as it is now, cut into pages: mails that arrive during a run
\* move others to later pages.
Listed == {m \in archive : Sent[m] >= run.from}
Position(m) == Cardinality({n \in Listed : Before(n, m)})
PageOf(m) == 1 + Position(m) \div PageSize

\* Mails that are done are passed over (so are those without attachments,
\* which Mails leaves out).
ListPage ==
  /\ run.pc = "listing"
  /\ run' = [run EXCEPT !.pc = "page",
       !.items = {m \in Listed \ run.st.done : PageOf(m) = run.page},
       !.last = \A m \in Listed : PageOf(m) <= run.page]
  /\ UNCHANGED <<outside, saved, outbox, faults>>

Fault(kind) ==
  /\ kind \in Faulty
  /\ faults < MaxFaults
  /\ faults' = faults + 1

\* The program ends with what it has in memory unsaved; run.sh pushes all the
\* same.
GiveUp == run' = [NoRun EXCEPT !.pc = "push"]

\* The accounts or a page cannot be listed.
ListFails ==
  /\ run.pc = "listing"
  /\ Fault("list")
  /\ GiveUp
  /\ UNCHANGED <<outside, saved, outbox>>

-----------------------------------------------------------------------------
(* One mail                                                                *)

FetchMail(m) ==
  /\ run.pc = "page"
  /\ m \in run.items
  /\ \A n \in run.items : n # m => Before(m, n)
  /\ run' = [run EXCEPT !.pc = "mail", !.items = @ \ {m}, !.mail = m,
                        !.next = 1, !.locked = FALSE]
  /\ UNCHANGED <<outside, saved, outbox, faults>>

Current == Attachments[run.mail][run.next]

HasAttachment ==
  /\ run.pc = "mail"
  /\ run.next <= Len(Attachments[run.mail])

\* outName, for the file c of the mail m.
OutNameTaken(m, c) == <<Name[<<m, c>>], None>>   \* mutant: whatever is there
OutName(m, c) ==
  IF outbox[<<Name[<<m, c>>], None>>] = None THEN <<Name[<<m, c>>], None>>
  ELSE <<Name[<<m, c>>], c>>

Locked(c) == c \in Protected \ passwords

\* A content that was exported before, from whichever mail.
Dedupe ==
  /\ HasAttachment
  /\ Current \in run.st.seen
  /\ run' = [run EXCEPT !.next = @ + 1]
  /\ UNCHANGED <<outside, saved, outbox, faults>>

\* No known password opens it: it is held back.
HoldBack ==
  /\ HasAttachment
  /\ Current \notin run.st.seen
  /\ Locked(Current)
  /\ run' = [run EXCEPT !.next = @ + 1, !.locked = TRUE]
  /\ UNCHANGED <<outside, saved, outbox, faults>>

RememberNothing(seen, c) == seen   \* mutant: st.Seen is not updated
RememberName(seen, c) ==   \* mutant: files are told apart by name
  seen \cup {Name[<<run.mail, c>>]}
Remember(seen, c) == seen \cup {c}

Export ==
  /\ HasAttachment
  /\ Current \notin run.st.seen
  /\ ~Locked(Current)
  /\ outbox' = [outbox EXCEPT ![OutName(run.mail, Current)] = Current]
  /\ run' = [run EXCEPT !.next = @ + 1,
                        !.st.seen = Remember(@, Current)]
  /\ UNCHANGED <<outside, saved, faults>>

\* The mail or one of its attachments cannot be fetched or written: the mail
\* counts as failed, what was exported of it stays.
MailFails ==
  /\ HasAttachment \/ (run.pc = "mail" /\ run.next = 1)
  /\ Fault("mail")
  /\ run' = [run EXCEPT !.pc = "page", !.failed = @ \cup {run.mail},
                        !.mail = None]
  /\ UNCHANGED <<outside, saved, outbox>>

DoneAnyway == TRUE   \* mutant: a mail with a locked file is done as well
MailIsDone == ~run.locked

\* The mail after its last attachment: locked, or done and now and then saved.
EndMail ==
  /\ run.pc = "mail"
  /\ run.next > Len(Attachments[run.mail])
  /\ run' = IF ~MailIsDone THEN [run EXCEPT !.pc = "page", !.mail = None]
            ELSE [run EXCEPT
              !.pc = IF run.unsaved + 1 >= SaveEvery THEN "save" ELSE "page",
              !.mail = None,
              !.unsaved = IF @ + 1 >= SaveEvery THEN 0 ELSE @ + 1,
              !.maxSent = IF Sent[run.mail] > @ THEN Sent[run.mail] ELSE @,
              !.st.done = @ \cup {run.mail}]
  /\ UNCHANGED <<outside, saved, outbox, faults>>

-----------------------------------------------------------------------------
(* Saving and pushing                                                      *)

Save ==
  /\ run.pc = "save"
  /\ saved' = run.st
  /\ run' = [run EXCEPT !.pc = "page"]
  /\ UNCHANGED <<outside, outbox, faults>>

NextPage ==
  /\ run.pc = "page"
  /\ run.items = {} /\ ~run.last
  /\ run' = [run EXCEPT !.pc = "listing", !.page = @ + 1]
  /\ UNCHANGED <<outside, saved, outbox, faults>>

AnyRun == TRUE   \* mutant: the watermark advances after failures too
CleanRun == run.failed = {}

\* The watermark after the last page.
Advance(watermark) ==
  IF CleanRun /\ run.maxSent > watermark THEN run.maxSent ELSE watermark

Finish ==
  /\ run.pc = "page"
  /\ run.items = {} /\ run.last
  /\ saved' = [run.st EXCEPT !.watermark = Advance(@)]
  /\ GiveUp
  /\ UNCHANGED <<outside, outbox, faults>>

\* The state file cannot be written, during a run or at its end.
SaveFails ==
  /\ run.pc = "save" \/ (run.pc = "page" /\ run.items = {} /\ run.last)
  /\ Fault("save")
  /\ GiveUp
  /\ UNCHANGED <<outside, saved, outbox>>

\* rsync moves one file of the outbox to the same path of the target.
Push(p) ==
  /\ run.pc = "push"
  /\ outbox[p] # None
  /\ consume' = [consume EXCEPT ![p] = outbox[p]]
  /\ outbox' = [outbox EXCEPT ![p] = None]
  /\ UNCHANGED <<archive, passwords, library, saved, run, faults>>

EndPush ==
  /\ run.pc = "push"
  /\ outbox = Empty
  /\ run' = NoRun
  /\ UNCHANGED <<outside, saved, outbox, faults>>

PushFails ==
  /\ run.pc = "push"
  /\ Fault("push")
  /\ run' = NoRun
  /\ UNCHANGED <<outside, saved, outbox>>

\* The exporter is killed, alone or with run.sh.
Crash ==
  /\ run.pc \notin {"idle", "push"}
  /\ Fault("crash")
  /\ GiveUp \/ run' = NoRun
  /\ UNCHANGED <<outside, saved, outbox>>

-----------------------------------------------------------------------------
(* The rest of the world                                                   *)

\* Mail is imported in any order, old mail late.
Arrive(m) ==
  /\ m \notin archive
  /\ archive' = archive \cup {m}
  /\ UNCHANGED <<passwords, consume, library, saved, run, outbox, faults>>

LearnPassword(c) ==
  /\ Locked(c)
  /\ passwords' = passwords \cup {c}
  /\ UNCHANGED <<archive, consume, library, saved, run, outbox, faults>>

\* paperless takes a file from its consume directory.
Ingest(p) ==
  /\ consume[p] # None
  /\ library' = library \cup {consume[p]}
  /\ consume' = [consume EXCEPT ![p] = None]
  /\ UNCHANGED <<archive, passwords, saved, run, outbox, faults>>

Init ==
  /\ archive = {} /\ passwords = {} /\ library = {}
  /\ saved = None
  /\ run = NoRun
  /\ outbox = Empty /\ consume = Empty
  /\ faults = 0

Proceed ==
  \/ ListPage
  \/ \E m \in Mails : FetchMail(m)
  \/ Dedupe
  \/ HoldBack
  \/ Export
  \/ EndMail
  \/ Save
  \/ NextPage
  \/ Finish
  \/ \E p \in Paths : Push(p)
  \/ EndPush

Fail ==
  \/ ListFails
  \/ MailFails
  \/ SaveFails
  \/ PushFails
  \/ Crash

World ==
  \/ \E m \in Mails : Arrive(m)
  \/ \E c \in Contents : LearnPassword(c)
  \/ \E p \in Paths : Ingest(p)

Next == (\E mode \in Modes : Start(mode)) \/ Proceed \/ Fail \/ World

Spec == Init /\ [][Next]_vars
-----------------------------------------------------------------------------
(* Properties                                                              *)

RunRecord ==
  [pc: {"idle", "listing", "page", "mail", "save", "push"}, mode: Modes,
   from: Int, page: Nat, last: BOOLEAN, items: SUBSET Mails,
   mail: Mails \cup {None}, next: Nat \ {0}, locked: BOOLEAN,
   failed: SUBSET Mails, maxSent: Nat, unsaved: Nat, st: State]

TypeOK ==
  /\ archive \subseteq Mails
  /\ passwords \subseteq Contents
  /\ library \subseteq Contents
  /\ saved \in State \cup {None}
  /\ run \in RunRecord
  /\ run.pc = "mail" => run.mail # None
  /\ outbox \in [Paths -> Contents \cup {None}]
  /\ consume \in [Paths -> Contents \cup {None}]
  /\ faults \in 0..MaxFaults

Wanted(m) == {Attachments[m][k] : k \in DOMAIN Attachments[m]}

\* A mail the state file calls done is never looked at again, so every file
\* of it has been exported: none is left behind a password or a failure.
DoneIsComplete ==
  \A m \in LoadState.done : Wanted(m) \subseteq LoadState.seen
=============================================================================
