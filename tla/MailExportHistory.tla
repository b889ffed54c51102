------------------------- MODULE MailExportHistory -------------------------
(***************************************************************************)
(* MailExport with history variables that follow every file.  They observe *)
(* each step and restrict none.                                            *)
(***************************************************************************)
EXTENDS MailExport

VARIABLES
  copies,     \* how often each content has been put into the outbox
  lost,       \* runs that ended with exports their state file does not know
  replaced,   \* contents overwritten in the consume directory
  owed        \* not done, and failed in an incremental run

history == <<copies, lost, replaced, owed>>
allVars == <<vars, history>>

HInit ==
  /\ Init
  /\ copies = [c \in Contents |-> 0]
  /\ lost = 0
  /\ replaced = {}
  /\ owed = {}

Running(r) == r.pc \notin {"idle", "push"}

\* The run ends in this step.
Ends == Running(run) /\ ~Running(run')

Observe ==
  /\ copies' = [c \in Contents |->
       copies[c] + Cardinality({p \in Paths : outbox'[p] = c /\ outbox[p] # c})]
  /\ lost' = IF Ends /\ run.st.seen # LoadState'.seen THEN lost + 1 ELSE lost
  /\ replaced' = replaced \cup
       {consume[p] : p \in {q \in Paths : /\ consume[q] # None
                                          /\ consume'[q] \notin {None, consume[q]}}}
  /\ owed' = IF Ends /\ run.mode = "incremental"
             THEN (owed \cup run.failed) \ LoadState'.done
             ELSE (owed \ LoadState'.done) \ (IF run.locked THEN {run.mail} ELSE {})

HNext ==
  \/ \E mode \in Modes : Start(mode) /\ Observe
  \/ Proceed /\ Observe
  \/ Fail /\ Observe
  \/ World /\ Observe

HSpec == HInit /\ [][HNext]_allVars

\* A run that has started proceeds, the sweep's timer finds the lock free now
\* and then, and paperless works on its directory.
HFairSpec ==
  /\ HSpec
  /\ WF_allVars(Proceed /\ Observe)
  /\ SF_allVars(Start("sweep") /\ Observe)
  /\ \A p \in Paths : WF_allVars(Ingest(p) /\ Observe)
-----------------------------------------------------------------------------
Held(directory) == {directory[p] : p \in Paths} \ {None}

\* What has been exported is in the outbox, in the consume directory or in
\* paperless, whatever fails, crashes or has the same name; it can only vanish
\* when rsync replaces a file of that path which paperless has not yet taken.
NoDocumentLost ==
  run.st.seen \cup LoadState.seen
    \subseteq Held(outbox) \cup Held(consume) \cup library \cup replaced

\* main.go: a mail that failed in an incremental run "must be retried next
\* time": the next incremental run lists it, although others have advanced
\* the watermark since.
FailedMailIsListedAgain ==
  \A m \in owed : From("incremental", LoadState.watermark) <= Sent[m]

\* The head comment of main.go, a content "is exported once at most", holds as
\* long as every run ends with its state saved: each run that does not can
\* repeat a file once, and nothing else does.
RepeatsAreLostRuns == \A c \in Contents : copies[c] <= 1 + lost

\* Late-arriving or later-imported mail is always picked up, and a protected
\* file once its password is known.
EveryFileIsFiled ==
  \A m \in Mails : \A c \in Wanted(m) :
    (m \in archive /\ ~Locked(c)) ~> (c \in library \cup replaced)
=============================================================================
