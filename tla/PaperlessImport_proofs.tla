----------------------- MODULE PaperlessImport_proofs -----------------------
(***************************************************************************)
(* Theorems about PaperlessImport, for every set of files, contents, rules *)
(* and documents of the mail export, any batches and any interruptions.    *)
(***************************************************************************)
EXTENDS PaperlessImport, FiniteSetTheorems, TLAPS

-----------------------------------------------------------------------------
(* The plan                                                                *)

\* The numbers up to n are a finite set, and inclusion of finite sets is
\* well-founded.
LEMMA NonemptyHasMin ==
  ASSUME NEW T, T \subseteq Nat, T # {}
  PROVE  \E x \in T : \A y \in T : x <= y
<1>. DEFINE upTo == {1..n : n \in T}
<1>1. upTo \subseteq FiniteSubsetsOf(Nat) /\ upTo # {}
  <2>1. ASSUME NEW n \in T PROVE 1..n \in FiniteSubsetsOf(Nat)
    <3>1. IsFiniteSet(1..n)
      BY FS_Interval
    <3>. QED
      BY <3>1 DEF FiniteSubsetsOf
  <2>. QED
    BY <2>1
<1>2. PICK u \in upTo : \A v \in upTo : ~ (<<v, u>> \in StrictSubsetOrdering(Nat))
  <2>1. IsWellFoundedOn(StrictSubsetOrdering(Nat), FiniteSubsetsOf(Nat))
    BY FS_StrictSubsetOrderingWellFounded
  <2>. QED
    BY <1>1, <2>1, WFMin, Zenon
<1>3. PICK x \in T : u = 1..x
  OBVIOUS
<1>4. ASSUME NEW y \in T, ~ (x <= y) PROVE FALSE
  <2>1. 1..y \subseteq 1..x /\ 1..y # 1..x
    <3>1. x \in 1..x /\ x \notin 1..y
      BY <1>4
    <3>2. 1..y \subseteq 1..x
      BY <1>4
    <3>. QED
      BY <3>1, <3>2
  <2>2. <<1..y, u>> \in StrictSubsetOrdering(Nat)
    BY <1>3, <2>1 DEF StrictSubsetOrdering
  <2>. QED
    BY <1>2, <2>2
<1>. QED
  BY <1>4

\* Every file has a class, that of the first rule or the one for the rest.
LEMMA ClassType ==
  ASSUME NEW f \in Files
  PROVE  Class(f) \in Classes \cup {"skip"}
<1>. DEFINE matching == {i \in DOMAIN Rules : Below(Rules[i].prefix, f)}
            first == CHOOSE i \in matching : \A j \in matching : i <= j
<1>1. Class(f) = IF matching = {} THEN "unsortiert" ELSE Rules[first].class
  BY DEF Class, Classified
<1>2. CASE matching = {}
  BY <1>1, <1>2 DEF Classes
<1>3. CASE matching # {}
  <2>1. matching \subseteq Nat
    BY RulesAssumption
  <2>2. first \in matching
    BY <1>3, <2>1, NonemptyHasMin, Zenon
  <2>. QED
    BY <1>1, <1>3, <2>2, RulesAssumption
<1>. QED
  BY <1>2, <1>3

LEMMA PriorityType ==
  ASSUME NEW f \in Files, Class(f) # "skip"
  PROVE  Priority[Class(f)] \in Nat
BY ClassType DEF Priority, Classes

\* The first of the copies with one content: one of them, and none of a better
\* class.
LEMMA FirstCopy ==
  ASSUME NEW same, same \subseteq Files, same # {},
         \A g \in same : Class(g) # "skip"
  PROVE  LET first == CHOOSE g \in same : \A h \in same : ~Before(h, g)
         IN /\ first \in same
            /\ \A g \in same : Priority[Class(first)] <= Priority[Class(g)]
<1>. DEFINE priorities == {Priority[Class(g)] : g \in same}
            first == CHOOSE g \in same : \A h \in same : ~Before(h, g)
<1>1. \A g \in same : Priority[Class(g)] \in Nat
  BY PriorityType
<1>2. PICK x \in priorities : \A y \in priorities : x <= y
  <2>1. priorities \subseteq Nat /\ priorities # {}
    BY <1>1
  <2>. HIDE DEF priorities
  <2>. QED
    BY <2>1, NonemptyHasMin
<1>3. PICK g \in same : Priority[Class(g)] = x
  OBVIOUS
<1>4. \A h \in same : ~Before(h, g)
  <2>1. ASSUME NEW h \in same PROVE ~(Priority[Class(h)] < Priority[Class(g)])
    <3>1. Priority[Class(g)] <= Priority[Class(h)]
      BY <1>2, <1>3
    <3>. QED
      BY <1>1, <3>1
  <2>. QED
    BY <2>1 DEF Before
<1>5. first \in same /\ \A h \in same : ~Before(h, first)
  BY <1>3, <1>4, Zenon
<1>. HIDE DEF first
<1>. QED
  BY <1>1, <1>5 DEF Before

\* buildPlan: what was found is in the plan, as itself or as a copy of no
\* worse class, and no content that could be read is in it twice.
LEMMA PlanIsComplete ==
  ASSUME NEW walk, walk \subseteq Files, NEW hashes, hashes \subseteq walk
  PROVE  /\ \A f \in walk : Class(f) # "skip" =>
              \E g \in Kept(walk, hashes) :
                /\ Content[g] = Content[f]
                /\ Priority[Class(g)] <= Priority[Class(f)]
         /\ \A f, g \in hashes \cap Kept(walk, hashes) :
              Content[f] = Content[g] => f = g
<1>. DEFINE candidates == {f \in walk : Class(f) # "skip"}
            Same(f) == {g \in candidates \cap hashes : Content[g] = Content[f]}
            First(f) == CHOOSE g \in Same(f) : \A h \in Same(f) : ~Before(h, g)
<1>1. Kept(walk, hashes) = {f \in candidates : f \notin hashes \/ f = First(f)}
  BY Zenon DEF Kept
<1>2. ASSUME NEW f \in candidates, f \in hashes
      PROVE  /\ First(f) \in Same(f)
             /\ Priority[Class(First(f))] <= Priority[Class(f)]
  <2>1. f \in Same(f)
    BY <1>2
  <2>2. Same(f) \subseteq Files /\ \A g \in Same(f) : Class(g) # "skip"
    OBVIOUS
  <2>. HIDE DEF Same
  <2>. QED
    BY <2>1, <2>2, FirstCopy
<1>3. ASSUME NEW f \in candidates, NEW g \in candidates, Content[f] = Content[g]
      PROVE  First(f) = First(g)
  <2>1. Same(f) = Same(g)
    BY <1>3
  <2>. HIDE DEF Same
  <2>. QED
    BY <2>1
<1>4. ASSUME NEW f \in candidates
      PROVE  \E g \in Kept(walk, hashes) :
                /\ Content[g] = Content[f]
                /\ Priority[Class(g)] <= Priority[Class(f)]
  <2>1. CASE f \notin hashes
    <3>1. Priority[Class(f)] <= Priority[Class(f)]
      BY PriorityType
    <3>. QED
      BY <1>1, <2>1, <3>1
  <2>2. CASE f \in hashes
    <3>1. First(f) \in candidates /\ Content[First(f)] = Content[f]
      BY <1>2, <2>2
    <3>2. First(First(f)) = First(f)
      BY <1>3, <3>1
    <3>. HIDE DEF First
    <3>. QED
      BY <1>1, <1>2, <2>2, <3>1, <3>2
  <2>. QED
    BY <2>1, <2>2
<1>5. ASSUME NEW f \in hashes \cap Kept(walk, hashes),
             NEW g \in hashes \cap Kept(walk, hashes), Content[f] = Content[g]
      PROVE  f = g
  <2>1. /\ f \in candidates /\ g \in candidates
        /\ f = First(f) /\ g = First(g)
    BY <1>1, Zenon
  <2>. QED
    BY <1>3, <1>5, <2>1
<1>. QED
  BY <1>4, <1>5

-----------------------------------------------------------------------------
(* Types                                                                   *)

LEMMA InitType == Init => TypeOK
BY BatchAssumption DEF Init, TypeOK, Directory

\* The name of a copy is one of those that imports have.
LEMMA TargetType ==
  ASSUME NEW f \in Files
  PROVE  Target(f) \in ImportNames /\ Target(f) \in Names
<1>1. \A h : Suffixed(f, h) \in {Suffixed(f, {f}), Suffixed(f, {})}
  BY DEF Suffixed
<1>2. {Dest(f), Suffixed(f, {f}), Suffixed(f, {})} \subseteq ImportNames
  BY DEF ImportNames
<1>. QED
  BY <1>1, <1>2 DEF Target, Names

LEMMA CopiedType ==
  ASSUME TypeOK, NEW f \in Files, Copied(f)
  PROVE  consume' \in Directory /\ copies' \in [Files -> Nat]
<1>1. consume' \in Directory
  BY TargetType DEF TypeOK, Copied, Directory, Documents
<1>2. copies' \in [Files -> Nat]
  BY DEF TypeOK, Copied
<1>. QED
  BY <1>1, <1>2

LEMMA StepType == TypeOK /\ [Next]_vars => TypeOK'
<1>. SUFFICES ASSUME TypeOK, [Next]_vars PROVE TypeOK'
  OBVIOUS
<1>. USE DEF TypeOK
<1>1. CASE Plan
  <2>1. PICK hashes \in SUBSET {f \in found' : SharesContent(found', f)} :
          manifest' = Kept(found', hashes) /\ hashed' = hashes \cap manifest'
    BY <1>1 DEF Plan
  <2>2. found' \subseteq Files /\ plans' \in Nat
    BY <1>1 DEF Plan, Walks
  <2>3. manifest' \subseteq Files
    BY <2>1, <2>2 DEF Kept
  <2>4. UNCHANGED <<done, consume, failed, ingested, run, importHistory>>
    BY <1>1 DEF Plan
  <2>. QED
    BY <2>1, <2>2, <2>3, <2>4 DEF run, importHistory
<1>2. CASE Apply
  BY <1>2, BatchAssumption DEF Apply, plan, importHistory
<1>3. ASSUME NEW f \in Files, Copy(f) PROVE TypeOK'
  <2>1. left' \in 0..Batch /\ todo' \subseteq Files
    BY <1>3, BatchAssumption DEF Copy
  <2>2. done' \subseteq Files
    BY <1>3 DEF Copy, NotCopied
  <2>3. consume' \in Directory /\ copies' \in [Files -> Nat]
    BY <1>3, CopiedType DEF Copy, NotCopied
  <2>4. accidents' \in [Files -> Nat]
    BY <1>3 DEF Copy, NotCopied
  <2>. QED
    BY <1>3, <2>1, <2>2, <2>3, <2>4 DEF Copy, plan
<1>4. CASE BatchEnds
  BY <1>4 DEF BatchEnds, plan, importHistory
<1>5. ASSUME NextBatch
      PROVE  /\ at' \in {"idle", "copying", "waiting"}
             /\ todo' \subseteq Files /\ left' \in 0..Batch
  BY <1>5, BatchAssumption DEF NextBatch
<1>6. CASE Drained
  BY <1>5, <1>6 DEF Drained, plan, importHistory
<1>7. CASE Stalled
  <2>1. PICK moved \in SUBSET Lying(consume) :
          /\ failed' = [n \in Names |-> IF n \in moved THEN consume[n] ELSE failed[n]]
          /\ consume' = [n \in Names |-> IF n \in moved THEN None ELSE consume[n]]
          /\ overwritten' = overwritten \cup {failed[n] : n \in moved \cap Lying(failed)}
    BY <1>7 DEF Stalled
  <2>2. failed' \in Directory /\ consume' \in Directory
    BY <2>1 DEF Directory
  <2>3. overwritten' \subseteq Documents
    BY <2>1 DEF Directory, Lying
  <2>. QED
    BY <1>5, <1>7, <2>2, <2>3 DEF Stalled, plan
<1>8. CASE Interrupted
  <2>1. /\ consume' \in Directory /\ copies' \in [Files -> Nat]
        /\ accidents' \in [Files -> Nat]
    <3>1. CASE UNCHANGED <<consume, copies, accidents>>
      BY <3>1
    <3>2. CASE ~ UNCHANGED <<consume, copies, accidents>>
      <4>1. PICK f \in todo :
              /\ accidents' = [accidents EXCEPT ![f] = @ + 1]
              /\ \/ Copied(f)
                 \/ /\ consume' = [consume EXCEPT ![Target(f)] = Torn]
                    /\ UNCHANGED copies
        BY <1>8, <3>2 DEF Interrupted
      <4>2. accidents' \in [Files -> Nat]
        BY <4>1
      <4>3. CASE Copied(f)
        BY <4>2, <4>3, CopiedType
      <4>4. CASE consume' = [consume EXCEPT ![Target(f)] = Torn] /\ UNCHANGED copies
        BY <4>2, <4>4, TargetType DEF Directory, Documents
      <4>. QED
        BY <4>1, <4>3, <4>4
    <3>. QED
      BY <3>1, <3>2
  <2>. QED
    BY <1>8, <2>1, BatchAssumption DEF Interrupted, plan
<1>9. ASSUME NEW n \in Names, Ingest(n) PROVE TypeOK'
  BY <1>9 DEF Ingest, Directory, plan, run, importHistory
<1>10. ASSUME NEW d \in Foreign, Arrive(d) PROVE TypeOK'
  <2>1. <<d>> \in Names
    BY DEF Names
  <2>2. consume' \in Directory
    BY <1>10, <2>1 DEF Arrive, Directory, Documents
  <2>. QED
    BY <1>10, <2>2 DEF Arrive, plan, run, importHistory
<1>11. CASE UNCHANGED vars
  BY <1>11 DEF vars, plan, run, importHistory
<1>. QED
  BY <1>1, <1>2, <1>3, <1>4, <1>6, <1>7, <1>8, <1>9, <1>10, <1>11 DEF Next

\* The directories hold documents, and the manifest files that were found.
THEOREM TypeCorrect == Spec => []TypeOK
BY InitType, StepType, PTL DEF Spec

-----------------------------------------------------------------------------
(* The plan is complete in every state                                     *)

LEMMA StepPlan == TypeOK /\ BestCopyIsPlanned /\ [Next]_vars => BestCopyIsPlanned'
<1>. SUFFICES ASSUME TypeOK, BestCopyIsPlanned, [Next]_vars PROVE BestCopyIsPlanned'
  OBVIOUS
<1>1. CASE Plan
  <2>1. PICK hashes \in SUBSET {f \in found' : SharesContent(found', f)} :
          manifest' = Kept(found', hashes) /\ hashed' = hashes \cap manifest'
    BY <1>1 DEF Plan
  <2>2. found' \subseteq Files /\ hashes \subseteq found'
    BY <1>1 DEF Plan, Walks
  <2>. QED
    BY <2>1, <2>2, PlanIsComplete DEF BestCopyIsPlanned
<1>2. CASE UNCHANGED plan
  BY <1>2 DEF plan, BestCopyIsPlanned
<1>3. [Next]_vars => Plan \/ UNCHANGED plan
  BY Zenon DEF Next, vars, Apply, Copy, BatchEnds, Drained, Stalled, Interrupted, Ingest, Arrive
<1>. QED
  BY <1>1, <1>2, <1>3

\* Whatever the files are, wherever they lie, and whichever of them cannot be
\* read: each document that was found is in the plan in its best class, and
\* once, as far as its copies could be compared.
THEOREM BestCopyIsAlwaysPlanned == Spec => []BestCopyIsPlanned
<1>1. Init => BestCopyIsPlanned
  BY DEF Init, BestCopyIsPlanned
<1>. QED
  BY <1>1, InitType, StepType, StepPlan, PTL DEF Spec

-----------------------------------------------------------------------------
(* Each file is put before Paperless once, but for accidents               *)

\* A run has only files in hand that done.tsv does not record, and the first
\* copy that goes into the directory without an accident is recorded.
CopiesInv ==
  /\ todo \cap done = {}
  /\ \A f \in Files : copies[f] <= accidents[f] + IF f \in done THEN 1 ELSE 0

\* What a step makes of the numbers of one file.
LEMMA NoCopies ==
  ASSUME CopiesInv, UNCHANGED <<copies, accidents, done>>, todo' \subseteq todo
  PROVE  CopiesInv'
BY DEF CopiesInv

LEMMA OneCopy ==
  ASSUME TypeOK, CopiesInv, NEW f \in todo, todo' \subseteq todo \ {f},
         copies' = [copies EXCEPT ![f] = @ + 1],
         \/ done' = done \cup {f} /\ UNCHANGED accidents
         \/ UNCHANGED done /\ accidents' = [accidents EXCEPT ![f] = @ + 1]
  PROVE  CopiesInv'
<1>1. todo' \cap done' = {}
  BY DEF CopiesInv
<1>2. f \in Files /\ f \notin done
  BY DEF TypeOK, CopiesInv
<1>3. /\ copies \in [Files -> Nat] /\ accidents \in [Files -> Nat]
      /\ copies[f] <= accidents[f]
  BY <1>2 DEF TypeOK, CopiesInv
<1>4. ASSUME NEW g \in Files
      PROVE  copies'[g] <= accidents'[g] + IF g \in done' THEN 1 ELSE 0
  <2>1. CASE g = f
    BY <1>2, <1>3, <2>1
  <2>2. CASE g # f
    BY <1>3, <2>2 DEF CopiesInv
  <2>. QED
    BY <2>1, <2>2
<1>. QED
  BY <1>1, <1>4 DEF CopiesInv

LEMMA StepCopies == TypeOK /\ CopiesInv /\ [Next]_vars => CopiesInv'
<1>. SUFFICES ASSUME TypeOK, CopiesInv, [Next]_vars PROVE CopiesInv'
  OBVIOUS
<1>1. CASE Plan
  BY <1>1, NoCopies DEF Plan, run, importHistory
<1>2. CASE Apply
  BY <1>2 DEF Apply, NotDone, importHistory, CopiesInv
<1>3. ASSUME NEW f \in Files, Copy(f) PROVE CopiesInv'
  <2>1. f \in todo /\ todo' = todo \ {f}
    BY <1>3 DEF Copy
  <2>2. CASE NotCopied(f)
    BY <2>1, <2>2, NoCopies DEF NotCopied
  <2>3. CASE ~ NotCopied(f)
    BY <1>3, <2>1, <2>3, OneCopy DEF Copy, Copied
  <2>. QED
    BY <2>2, <2>3
<1>4. CASE BatchEnds
  BY <1>4, NoCopies DEF BatchEnds, importHistory
<1>5. NextBatch => todo' \subseteq todo
  BY DEF NextBatch
<1>6. CASE Drained
  BY <1>5, <1>6, NoCopies DEF Drained, importHistory
<1>7. CASE Stalled
  BY <1>5, <1>7, NoCopies DEF Stalled
<1>8. CASE Interrupted
  <2>1. todo' = {} /\ UNCHANGED done
    BY <1>8 DEF Interrupted
  <2>2. CASE UNCHANGED <<copies, accidents>>
    BY <2>1, <2>2, NoCopies
  <2>3. CASE ~ UNCHANGED <<copies, accidents>>
    <3>1. PICK f \in todo :
            /\ accidents' = [accidents EXCEPT ![f] = @ + 1]
            /\ copies' = [copies EXCEPT ![f] = @ + 1] \/ UNCHANGED copies
      BY <1>8, <2>3 DEF Interrupted, Copied
    <3>2. CASE copies' = [copies EXCEPT ![f] = @ + 1]
      BY <2>1, <3>1, <3>2, OneCopy
    <3>3. CASE UNCHANGED copies
      BY <2>1, <3>1, <3>3 DEF TypeOK, CopiesInv
    <3>. QED
      BY <3>1, <3>2, <3>3
  <2>. QED
    BY <2>2, <2>3
<1>9. ASSUME NEW n \in Names, Ingest(n) PROVE CopiesInv'
  BY <1>9, NoCopies DEF Ingest, run, importHistory
<1>10. ASSUME NEW d \in Foreign, Arrive(d) PROVE CopiesInv'
  BY <1>10, NoCopies DEF Arrive, run, importHistory
<1>11. CASE UNCHANGED vars
  BY <1>11, NoCopies DEF vars, run, importHistory
<1>. QED
  BY <1>1, <1>2, <1>3, <1>4, <1>6, <1>7, <1>8, <1>9, <1>10, <1>11 DEF Next

\* However often apply is run, interrupted and run again, a file comes before
\* Paperless a second time only after a copy that was not recorded.
THEOREM RepeatsAreAccidentsOnly == Spec => []RepeatsAreAccidents
<1>1. Init => CopiesInv
  BY DEF Init, CopiesInv
<1>2. TypeOK /\ CopiesInv => RepeatsAreAccidents
  BY DEF TypeOK, CopiesInv, RepeatsAreAccidents
<1>. QED
  BY <1>1, <1>2, InitType, StepType, StepCopies, PTL DEF Spec

-----------------------------------------------------------------------------
(* What is recorded is somewhere                                           *)

\* The names of the mail export hold nothing else, so that it replaces no file
\* of an import.
OwnNames == \A d \in Foreign : consume[<<d>>] \in {None, d}

Somewhere(f) ==
  \/ f \in ingested \cup overwritten
  \/ LiesIn(consume, f) \/ LiesIn(failed, f)

LEMMA FileIsSomething == \A f \in Files : f # None /\ f # Torn
BY NoneAssumption

\* A file that is put under a free name replaces nothing.
LEMMA PutUnderFreeName ==
  ASSUME TypeOK, NEW n \in Names, consume[n] = None, NEW x,
         consume' = [consume EXCEPT ![n] = x], UNCHANGED <<failed, ingested, overwritten>>,
         NEW f \in Files, Somewhere(f)
  PROVE  Somewhere(f)'
<1>1. ASSUME LiesIn(consume, f) PROVE LiesIn(consume', f)
  <2>1. PICK m \in Names : consume[m] = f
    BY <1>1 DEF LiesIn
  <2>2. m # n
    BY <2>1, FileIsSomething
  <2>3. consume'[m] = f
    BY <2>1, <2>2 DEF TypeOK, Directory
  <2>. QED
    BY <2>3 DEF LiesIn
<1>. QED
  BY <1>1 DEF Somewhere

LEMMA PutImport ==
  ASSUME TypeOK, OwnNames, NEW n \in ImportNames, NEW x,
         consume' = [consume EXCEPT ![n] = x]
  PROVE  OwnNames'
BY NamesAssumption DEF OwnNames, TypeOK, Directory, Names

LEMMA StepOwnNames == TypeOK /\ OwnNames /\ [Next]_vars => OwnNames'
<1>. SUFFICES ASSUME TypeOK, OwnNames, [Next]_vars PROVE OwnNames'
  OBVIOUS
<1>1. CASE UNCHANGED consume
  BY <1>1 DEF OwnNames
<1>2. ASSUME NEW f \in Files, Copy(f) PROVE OwnNames'
  <2>1. UNCHANGED consume \/ consume' = [consume EXCEPT ![Target(f)] = f]
    BY <1>2 DEF Copy, Copied, NotCopied
  <2>. QED
    BY <1>1, <2>1, TargetType, PutImport
<1>3. CASE Stalled
  <2>1. PICK moved \in SUBSET Lying(consume) :
          consume' = [n \in Names |-> IF n \in moved THEN None ELSE consume[n]]
    BY <1>3 DEF Stalled
  <2>. QED
    BY <2>1 DEF OwnNames, Names
<1>4. CASE Interrupted
  <2>1. CASE UNCHANGED consume
    BY <1>1, <2>1
  <2>2. CASE ~ UNCHANGED consume
    <3>1. PICK f \in todo : \/ consume' = [consume EXCEPT ![Target(f)] = f]
                            \/ consume' = [consume EXCEPT ![Target(f)] = Torn]
      BY <1>4, <2>2 DEF Interrupted, Copied
    <3>2. f \in Files
      BY DEF TypeOK
    <3>. QED
      BY <3>1, <3>2, TargetType, PutImport
  <2>. QED
    BY <2>1, <2>2
<1>5. ASSUME NEW n \in Names, Ingest(n) PROVE OwnNames'
  BY <1>5 DEF Ingest, OwnNames, TypeOK, Directory, Names
<1>6. ASSUME NEW d \in Foreign, Arrive(d) PROVE OwnNames'
  BY <1>6 DEF Arrive, OwnNames, TypeOK, Directory, Names
<1>7. Plan \/ Apply \/ BatchEnds \/ Drained \/ UNCHANGED vars => UNCHANGED consume
  BY DEF Plan, Apply, BatchEnds, Drained, vars
<1>. QED
  BY <1>1, <1>2, <1>3, <1>4, <1>5, <1>6, <1>7 DEF Next

\* Quarantine moves a file aside, and what lay there under its name is lost.
LEMMA StalledKeeps ==
  ASSUME TypeOK, Stalled, NEW f \in Files, Somewhere(f)
  PROVE  Somewhere(f)'
<1>1. PICK moved \in SUBSET Lying(consume) :
        /\ failed' = [n \in Names |-> IF n \in moved THEN consume[n] ELSE failed[n]]
        /\ consume' = [n \in Names |-> IF n \in moved THEN None ELSE consume[n]]
        /\ overwritten' = overwritten \cup {failed[n] : n \in moved \cap Lying(failed)}
  BY DEF Stalled
<1>2. UNCHANGED ingested
  BY DEF Stalled
<1>3. CASE f \in ingested \cup overwritten
  BY <1>1, <1>2, <1>3 DEF Somewhere
<1>4. CASE LiesIn(consume, f)
  <2>1. PICK n \in Names : consume[n] = f
    BY <1>4 DEF LiesIn
  <2>2. failed'[n] = f \/ consume'[n] = f
    BY <1>1, <2>1
  <2>. QED
    BY <2>2 DEF Somewhere, LiesIn
<1>5. CASE LiesIn(failed, f)
  <2>1. PICK n \in Names : failed[n] = f
    BY <1>5 DEF LiesIn
  <2>2. n \in Lying(failed)
    BY <2>1, FileIsSomething DEF Lying
  <2>3. failed'[n] = f \/ f \in overwritten'
    BY <1>1, <2>1, <2>2
  <2>. QED
    BY <2>3 DEF Somewhere, LiesIn
<1>. QED
  BY <1>3, <1>4, <1>5 DEF Somewhere

LEMMA NothingMoves ==
  ASSUME NEW f \in Files, Somewhere(f),
         UNCHANGED <<consume, failed, ingested, overwritten>>
  PROVE  Somewhere(f)'
BY DEF Somewhere, LiesIn

LEMMA StepKeeps ==
  ASSUME TypeOK, OwnNames, [Next]_vars, NEW f \in Files, Somewhere(f)
  PROVE  Somewhere(f)'
<1>1. ASSUME NEW g \in Files, Copy(g) PROVE Somewhere(f)'
  <2>1. UNCHANGED <<failed, ingested, overwritten>>
    BY <1>1 DEF Copy, plan
  <2>2. \/ UNCHANGED consume
        \/ consume[Target(g)] = None /\ consume' = [consume EXCEPT ![Target(g)] = g]
    BY <1>1 DEF Copy, Copied, NotCopied
  <2>. QED
    BY <2>1, <2>2, NothingMoves, TargetType, PutUnderFreeName
<1>2. CASE Interrupted
  <2>1. UNCHANGED <<failed, ingested, overwritten>>
    BY <1>2 DEF Interrupted
  <2>2. CASE UNCHANGED consume
    BY <2>1, <2>2, NothingMoves
  <2>3. CASE ~ UNCHANGED consume
    <3>1. PICK g \in todo :
            /\ consume[Target(g)] = None
            /\ \/ consume' = [consume EXCEPT ![Target(g)] = g]
               \/ consume' = [consume EXCEPT ![Target(g)] = Torn]
      BY <1>2, <2>3 DEF Interrupted, Copied
    <3>2. g \in Files
      BY DEF TypeOK
    <3>. QED
      BY <2>1, <3>1, <3>2, TargetType, PutUnderFreeName
  <2>. QED
    BY <2>2, <2>3
<1>3. ASSUME NEW n \in Names, Ingest(n) PROVE Somewhere(f)'
  <2>1. /\ ingested' = ingested \cup {consume[n]} /\ consume' = [consume EXCEPT ![n] = None]
        /\ UNCHANGED <<failed, overwritten>>
    BY <1>3 DEF Ingest, importHistory
  <2>2. ASSUME NEW m \in Names, consume[m] = f PROVE f \in ingested' \/ consume'[m] = f
    BY <2>1, <2>2 DEF TypeOK, Directory
  <2>. QED
    BY <2>1, <2>2 DEF Somewhere, LiesIn
<1>4. ASSUME NEW d \in Foreign, Arrive(d) PROVE Somewhere(f)'
  <2>1. <<d>> \in Names
    BY DEF Names
  <2>2. consume[<<d>>] = None
    BY <1>4, <2>1 DEF Arrive, OwnNames
  <2>3. /\ consume' = [consume EXCEPT ![<<d>>] = d]
        /\ UNCHANGED <<failed, ingested, overwritten>>
    BY <1>4 DEF Arrive, importHistory
  <2>. QED
    BY <2>1, <2>2, <2>3, PutUnderFreeName
<1>5. Plan \/ Apply \/ BatchEnds \/ Drained \/ UNCHANGED vars =>
        UNCHANGED <<consume, failed, ingested, overwritten>>
  BY DEF Plan, Apply, BatchEnds, Drained, vars, importHistory
<1>. QED
  BY <1>1, <1>2, <1>3, <1>4, <1>5, StalledKeeps, NothingMoves DEF Next

\* A file is recorded only when it has just been copied.
LEMMA StepRecords ==
  ASSUME TypeOK, [Next]_vars, NEW f \in Files, f \in done' \ done
  PROVE  Somewhere(f)'
<1>1. Copy(f) /\ ~ NotCopied(f)
  BY DEF Next, vars, plan, run, Plan, Apply, Copy, NotCopied, BatchEnds, Drained, Stalled,
         Interrupted, Ingest, Arrive
<1>2. consume' = [consume EXCEPT ![Target(f)] = f]
  BY <1>1 DEF Copy, Copied
<1>3. Target(f) \in Names /\ consume'[Target(f)] = f
  BY <1>2, TargetType DEF TypeOK, Directory
<1>. QED
  BY <1>3 DEF Somewhere, LiesIn

LEMMA StepRecorded ==
  TypeOK /\ OwnNames /\ RecordedIsSomewhere /\ [Next]_vars => RecordedIsSomewhere'
<1>. SUFFICES ASSUME TypeOK, OwnNames, RecordedIsSomewhere, [Next]_vars
              PROVE  RecordedIsSomewhere'
  OBVIOUS
<1>1. TypeOK'
  BY StepType
<1>2. ASSUME NEW f \in done' PROVE Somewhere(f)'
  <2>1. f \in Files
    BY <1>1 DEF TypeOK
  <2>2. CASE f \in done
    BY <2>1, <2>2, StepKeeps DEF RecordedIsSomewhere, Somewhere
  <2>3. CASE f \notin done
    BY <2>1, <2>3, StepRecords
  <2>. QED
    BY <2>2, <2>3
<1>. QED
  BY <1>2 DEF RecordedIsSomewhere, Somewhere

\* Through interruptions, stalls and quarantines, next to Paperless and the
\* mail export: no file that done.tsv records vanishes, but for one that
\* quarantine replaced by another of its name.
THEOREM RecordedIsAlwaysSomewhere == Spec => []RecordedIsSomewhere
<1>1. Init => OwnNames /\ RecordedIsSomewhere
  BY DEF Init, OwnNames, RecordedIsSomewhere, Names
<1>. QED
  BY <1>1, InitType, StepType, StepOwnNames, StepRecorded, PTL DEF Spec
=============================================================================
