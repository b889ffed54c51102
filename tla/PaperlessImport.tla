--------------------------- MODULE PaperlessImport ---------------------------
(***************************************************************************)
(* The backfill of existing documents into Paperless                       *)
(* (cmd/paperless-import/main.go).  `plan` writes the manifest; `apply`    *)
(* copies what is not in done.tsv yet into the consume directory, a batch  *)
(* at a time, and waits until Paperless has taken the files away.  What    *)
(* stays there too long is moved aside.  Both can be run again, and apply  *)
(* can be interrupted anywhere.                                            *)
(*                                                                         *)
(* Paperless is known only by what it does to the consume directory: it    *)
(* takes files away, in its own order, or leaves them for ever.  The mail  *)
(* export puts files there too, under names of its own.                    *)
(***************************************************************************)
EXTENDS TornFile, ImportPlan, Functions

CONSTANTS
  Foreign,        \* the documents of the mail export
  Batch,          \* --batch
  MaxAccidents,   \* bound: interruptions and copies that go wrong
  MaxPlans        \* bound: how often plan is run

ASSUME BatchAssumption == Batch \in Nat \ {0}
ASSUME BoundsAssumption == MaxAccidents \in Nat /\ MaxPlans \in Nat
ASSUME NoneAssumption ==
  None \notin Files \cup Foreign \cup {Torn} /\ Torn \notin Files

VARIABLES
  found,              \* what the walk of the last plan has found
  manifest, hashed,   \* manifest.tsv: its files, and those with a hash
  done,               \* done.tsv
  consume, failed,    \* the directories: what lies under each name
  ingested,           \* documents that Paperless has taken
  at, todo, left,     \* a run of apply: files to import, room in this batch
  copies,             \* how often each file was put into the directory
  accidents,          \* how often a copy was made and not recorded
  overwritten,        \* documents that were lost from the failed directory
  plans               \* runs of plan

run == <<at, todo, left>>
importHistory == <<copies, accidents, overwritten>>
plan == <<found, manifest, hashed, plans>>
vars == <<plan, done, consume, failed, ingested, run, importHistory>>

ImportNames == {Dest(f) : f \in Files}
               \cup {Suffixed(f, {f}) : f \in Files} \cup {Suffixed(f, {}) : f \in Files}
Names == ImportNames \cup {<<d>> : d \in Foreign}

\* What is imported lies in the directory of its class, the documents of the
\* mail export directly in the consume directory.
ASSUME NamesAssumption == \A d \in Foreign : <<d>> \notin ImportNames

Documents == Files \cup Foreign \cup {Torn}
Directory == [Names -> Documents \cup {None}]

Lying(directory) == {n \in Names : directory[n] # None}

Init ==
  /\ found = {} /\ manifest = {} /\ hashed = {} /\ done = {}
  /\ consume = [n \in Names |-> None] /\ failed = [n \in Names |-> None]
  /\ ingested = {}
  /\ at = "idle" /\ todo = {} /\ left = 0
  /\ copies = [f \in Files |-> 0] /\ accidents = [f \in Files |-> 0]
  /\ overwritten = {} /\ plans = 0

-----------------------------------------------------------------------------
(* plan                                                                    *)

\* walk: an entry that cannot be read is skipped.
Walks == SUBSET Files

\* cmdPlan; a file that cannot be read has no hash.
Plan ==
  /\ at = "idle" /\ plans < MaxPlans
  /\ found' \in Walks
  /\ \E hashes \in SUBSET {f \in found' : SharesContent(found', f)} :
       /\ manifest' = Kept(found', hashes)
       /\ hashed' = hashes \cap manifest'
  /\ plans' = plans + 1
  /\ UNCHANGED <<done, consume, failed, ingested, run, importHistory>>

-----------------------------------------------------------------------------
(* apply                                                                   *)

EveryRow(f) == TRUE          \* mutant: done.tsv is not read
NotDone(f) == f \notin done

Apply ==
  /\ at = "idle"
  /\ \E only \in Classes \cup {None} :
       todo' = {f \in manifest : NotDone(f) /\ only \in {None, Class(f)}}
  /\ todo' # {}
  /\ at' = "copying" /\ left' = Batch
  /\ UNCHANGED <<plan, done, consume, failed, ingested, importHistory>>

\* The name for the copy: its own one, unless something lies there.
Target(f) ==
  IF consume[Dest(f)] = None THEN Dest(f) ELSE Suffixed(f, hashed)

AccidentsSoFar == FoldFunction(+, 0, accidents)

\* copyFile creates the file only if there is none of that name.
Copied(f) ==
  /\ consume[Target(f)] = None
  /\ consume' = [consume EXCEPT ![Target(f)] = f]
  /\ copies' = [copies EXCEPT ![f] = @ + 1]

RecordedAnyway(f) ==   \* mutant: what could not be copied is recorded too
  done' = done \cup {f} /\ UNCHANGED <<consume, copies, accidents>>
\* The source or the directory cannot be used, or both names are taken.
NotCopied(f) == UNCHANGED <<consume, copies, done, accidents>>

\* One file of the batch: copied and recorded; not copied; or copied and taken
\* for a failure, because its owner or time stamp could not be set.
Copy(f) ==
  /\ at = "copying" /\ left > 0 /\ f \in todo
  /\ todo' = todo \ {f} /\ left' = left - 1
  /\ \/ Copied(f) /\ done' = done \cup {f} /\ UNCHANGED accidents
     \/ NotCopied(f)
     \/ /\ AccidentsSoFar < MaxAccidents
        /\ Copied(f)
        /\ accidents' = [accidents EXCEPT ![f] = @ + 1]
        /\ UNCHANGED done
  /\ UNCHANGED <<plan, failed, ingested, at, overwritten>>

BatchEnds ==
  /\ at = "copying" /\ (left = 0 \/ todo = {})
  /\ at' = "waiting"
  /\ UNCHANGED <<plan, done, consume, failed, ingested, todo, left,
                 importHistory>>

\* After a batch: the next one, or the end, which --max-batches can bring
\* earlier.
NextBatch ==
  \/ at' = "idle" /\ todo' = {} /\ left' = 0
  \/ todo # {} /\ at' = "copying" /\ left' = Batch /\ UNCHANGED todo

\* waitDrained returns true.
Drained ==
  /\ at = "waiting" /\ Lying(consume) = {}
  /\ NextBatch
  /\ UNCHANGED <<plan, done, consume, failed, ingested, importHistory>>

NeverGivesUp == FALSE   \* mutant: the directory has to become empty
\* waitDrained, when the number of files has not changed for long enough.
GivesUp == Lying(consume) # {}

\* Then quarantine moves every file aside, whoever has put it there.
\* A file that cannot be renamed stays; a name that is taken is overwritten.
Stalled ==
  /\ at = "waiting" /\ GivesUp
  /\ NextBatch
  /\ \E moved \in SUBSET Lying(consume) :
       /\ failed' = [n \in Names |-> IF n \in moved THEN consume[n] ELSE failed[n]]
       /\ consume' = [n \in Names |-> IF n \in moved THEN None ELSE consume[n]]
       /\ overwritten' = overwritten \cup {failed[n] : n \in moved \cap Lying(failed)}
  /\ UNCHANGED <<plan, done, ingested, copies, accidents>>

\* apply is interrupted, in the middle of a copy or after it and before its
\* line in done.tsv.
Interrupted ==
  /\ at # "idle"
  /\ at' = "idle" /\ todo' = {} /\ left' = 0
  /\ \/ UNCHANGED <<consume, copies, accidents>>
     \/ /\ at = "copying" /\ left > 0
        /\ AccidentsSoFar < MaxAccidents
        /\ \E f \in todo :
             /\ accidents' = [accidents EXCEPT ![f] = @ + 1]
             /\ \/ Copied(f)
                \/ /\ consume[Target(f)] = None
                   /\ consume' = [consume EXCEPT ![Target(f)] = Torn]
                   /\ UNCHANGED copies
  /\ UNCHANGED <<plan, done, failed, ingested, overwritten>>

-----------------------------------------------------------------------------
(* The other users of the directory                                        *)

\* Paperless has read a document and removes it.
Ingest(n) ==
  /\ consume[n] # None
  /\ ingested' = ingested \cup {consume[n]}
  /\ consume' = [consume EXCEPT ![n] = None]
  /\ UNCHANGED <<plan, done, failed, run, importHistory>>

\* The mail export adds a document, each one once.
Arrive(d) ==
  /\ \A n \in Names : d \notin {consume[n], failed[n]}
  /\ d \notin ingested
  /\ consume' = [consume EXCEPT ![<<d>>] = d]
  /\ UNCHANGED <<plan, done, failed, ingested, run, importHistory>>

Next ==
  \/ Plan
  \/ Apply
  \/ \E f \in Files : Copy(f)
  \/ BatchEnds
  \/ Drained
  \/ Stalled
  \/ Interrupted
  \/ \E n \in Names : Ingest(n)
  \/ \E d \in Foreign : Arrive(d)

\* The steps of a running apply.
Runs == \/ \E f \in Files : Copy(f)
        \/ BatchEnds \/ Drained \/ Stalled

Spec == Init /\ [][Next]_vars /\ WF_vars(Runs)
-----------------------------------------------------------------------------
TypeOK ==
  /\ found \subseteq Files /\ manifest \subseteq Files /\ hashed \subseteq manifest
  /\ done \subseteq Files
  /\ consume \in Directory /\ failed \in Directory
  /\ ingested \subseteq Documents
  /\ at \in {"idle", "copying", "waiting"}
  /\ todo \subseteq Files /\ left \in 0..Batch
  /\ copies \in [Files -> Nat] /\ accidents \in [Files -> Nat]
  /\ overwritten \subseteq Documents /\ plans \in Nat

LiesIn(directory, d) == \E n \in Names : directory[n] = d

\* A file that done.tsv records is in Paperless, on its way there, or among
\* the failed ones for someone to look at.  There is one way out: quarantine
\* puts another document with the same destination in its place.
RecordedIsSomewhere ==
  \A f \in done : \/ f \in ingested \cup overwritten
                  \/ LiesIn(consume, f) \/ LiesIn(failed, f)

\* However often apply is run and interrupted, a file is put before Paperless
\* a second time only after a copy of it was made and not recorded.
RepeatsAreAccidents == \A f \in Files : copies[f] <= 1 + accidents[f]

\* "Identical content is imported once and the highest-priority class wins":
\* each document that was found is in the plan, as itself or as a copy of no
\* worse class, and twice only when a copy of it could not be read.
BestCopyIsPlanned ==
  /\ \A f \in found : Class(f) # "skip" =>
       \E g \in manifest : /\ Content[g] = Content[f]
                         /\ Priority[Class(g)] <= Priority[Class(f)]
  /\ \A f, g \in hashed : Content[f] = Content[g] => f = g

\* A run of apply ends, although Paperless may leave files in the directory
\* for ever and the mail export keeps adding to them for a while.
ApplyEnds == at # "idle" ~> at = "idle"
=============================================================================
