----------------------------- MODULE ImportPlan -----------------------------
(***************************************************************************)
(* The plan of the backfill into Paperless: which of the files of the NAS  *)
(* are imported, and under which names (cmd/paperless-import/main.go,      *)
(* classify, destFor, buildPlan).                                          *)
(*                                                                         *)
(* A path is a sequence of folder names that ends with the file name.      *)
(***************************************************************************)
EXTENDS NoValue, Integers, Sequences, FiniteSets

CONSTANTS
  Files,          \* paths below the scanned roots
  Content,        \* the content of each file
  Rules,          \* sequence of [prefix, class, root]
  MaxTagDepth     \* sub-folders that become tags

Classes == {"persoenlich", "wissen", "unsortiert"}
Priority == [persoenlich |-> 0, wissen |-> 1, unsortiert |-> 2]

ASSUME RulesAssumption ==
  /\ DOMAIN Rules \subseteq Nat
  /\ \A i \in DOMAIN Rules : Rules[i].class \in Classes \cup {"skip"}

FirstOf(path, n) == SubSeq(path, 1, IF Len(path) < n THEN Len(path) ELSE n)
Below(prefix, path) == FirstOf(path, Len(prefix)) = prefix
Base(path) == path[Len(path)]

\* classify, for every file: the first rule whose prefix the path lies below.
\* The first two names of a path without a rule are its root, and the second
\* of them is the file itself when it lies directly in a scanned root.
Classified == [rel \in Files |->
  LET matching == {i \in DOMAIN Rules : Below(Rules[i].prefix, rel)}
      first == CHOOSE i \in matching : \A j \in matching : i <= j
  IN IF matching = {} THEN [class |-> "unsortiert", root |-> FirstOf(rel, 2)]
     ELSE [class |-> Rules[first].class, root |-> Rules[first].root]]

Class(rel) == Classified[rel].class

\* destFor, for every file: the folders between the root and the file, and no
\* more of them than become tags.
Destination == [rel \in Files |->
  LET root == Classified[rel].root
      folders == SubSeq(rel, Len(root) + 1, Len(rel) - 1)
      tags == FirstOf(folders, MaxTagDepth)
  IN <<Class(rel)>>
     \o (IF Class(rel) = "unsortiert" THEN <<Base(root)>> \o FirstOf(tags, 1) ELSE tags)
     \o <<Base(rel)>>]

Dest(rel) == Destination[rel]

\* The name a file gets when its own is taken: a piece of its hash, or of the
\* hash of its path when the plan has none for its content.
Suffixed(rel, hashed) ==
  Append(Dest(rel), IF rel \in hashed THEN <<"content", Content[rel]>> ELSE <<"path", rel>>)

WorseFirst(f, g) ==   \* mutant: the classes are sorted the other way round
  Priority[Class(f)] > Priority[Class(g)]
\* The sort of buildPlan.  (Files of one class are sorted by their paths; the
\* one that comes first is any of them here, the same each time.)
Before(f, g) == Priority[Class(f)] < Priority[Class(g)]

\* The files that are hashed: only those that share their size with another
\* one, here at least all that share their content, and can be read.
SharesContent(found, f) == \E g \in found \ {f} : Content[g] = Content[f]

\* buildPlan: of the files with one hash the first is kept; a file without a
\* hash is not compared with any other.
Kept(found, hashes) ==
  LET candidates == {f \in found : Class(f) # "skip"}
      Same(f) == {g \in candidates \cap hashes : Content[g] = Content[f]}
      First(f) == CHOOSE g \in Same(f) : \A h \in Same(f) : ~Before(h, g)
  IN {f \in candidates : f \notin hashes \/ f = First(f)}
=============================================================================
