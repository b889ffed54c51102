--------------------------- MODULE ScheduleMerge ---------------------------
(***************************************************************************)
(* schedule.json of the User Scripts plugin of Unraid, which the plugin's  *)
(* page and the schedule-merge programs both write                         *)
(* (internal/schedulemerge/schedulemerge.go and its three mains).  Puppet  *)
(* runs one program after the other, each only if its --check fails.       *)
(*                                                                         *)
(* A file is None, the set of its entries, or Torn when it does not parse; *)
(* an empty file reads as one without entries.                             *)
(***************************************************************************)
EXTENDS TornFile, FiniteSets

CONSTANTS
  Programs,     \* the programs
  Own,          \* Own[p]: the entries program p adds
  Retired,      \* Retired[p]: the entries it drops, with their directories
  PageEntries   \* further entries that the page can add

VARIABLES
  flash, backup, runtime,   \* schedule.json, its copy, what the scheduler reads
  dirs,                     \* directories of retired scripts
  phase, running, merged,      \* the program that runs
  wanted,                   \* what the page has saved
  cut, raced                \* a write was interrupted; the page saved during a run

disk == <<flash, backup, runtime, dirs>>
scheduleVars == <<disk, phase, running, merged, wanted, cut, raced>>

EntriesOf(file) == IF file = None THEN {} ELSE file

HandMade == UNION {Retired[p] : p \in Programs}

\* Before the first program.
ScheduleInit ==
  /\ flash \in {None, HandMade} /\ backup = None /\ runtime = flash
  /\ dirs = HandMade
  /\ phase = "idle" /\ running = None /\ merged = None
  /\ wanted = {} /\ cut = FALSE /\ raced = FALSE

OnlyOwn(p, file) == Own[p]   \* mutant: the file is overwritten
\* The other entries are kept, the program's own are replaced by its own.
Merged(p, file) == (EntriesOf(file) \ Retired[p]) \cup Own[p]

\* --check: nothing would change.
Clean(p) ==
  /\ flash # Torn /\ flash = Merged(p, flash)
  /\ dirs \cap Retired[p] = {}
  /\ runtime = flash

-----------------------------------------------------------------------------
(* Run                                                                     *)

\* The exec of a program.  A file that does not parse ends it at once.
StartMerge(p) ==
  /\ phase = "idle" /\ flash # Torn /\ ~Clean(p)
  /\ running' = p
  /\ merged' = Merged(p, flash)
  /\ phase' = IF merged' = flash THEN "mirror" ELSE IF flash = None THEN "write" ELSE "backup"
  /\ UNCHANGED <<disk, wanted, cut, raced>>

Backup ==
  /\ phase = "backup"
  /\ backup' = flash
  /\ phase' = "write"
  /\ UNCHANGED <<flash, runtime, dirs, running, merged, wanted, cut, raced>>

WriteFlash ==
  /\ phase = "write"
  /\ flash' = merged
  /\ phase' = "mirror"
  /\ UNCHANGED <<backup, runtime, dirs, running, merged, wanted, cut, raced>>

\* The runtime copy is a copy of the file, not of what was merged.
Mirror ==
  /\ phase = "mirror"
  /\ runtime' = flash
  /\ phase' = "retire"
  /\ UNCHANGED <<flash, backup, dirs, running, merged, wanted, cut, raced>>

Retire ==
  /\ phase = "retire"
  /\ dirs' = dirs \ Retired[running]
  /\ phase' = "idle" /\ running' = None /\ merged' = None
  /\ UNCHANGED <<flash, backup, runtime, wanted, cut, raced>>

\* The program dies or a file cannot be written.  os.WriteFile empties a file
\* before it writes it.
CutOff ==
  /\ phase # "idle"
  /\ phase' = "idle" /\ running' = None /\ merged' = None
  /\ CASE phase = "backup" -> backup' \in {backup, {}, Torn} /\ UNCHANGED <<flash, runtime>>
       [] phase = "write"  -> flash' \in {flash, {}, Torn} /\ UNCHANGED <<backup, runtime>>
       [] phase = "mirror" -> runtime' \in {runtime, {}, Torn} /\ UNCHANGED <<flash, backup>>
       [] OTHER         -> UNCHANGED <<flash, backup, runtime>>
  /\ cut' = (cut \/ flash' # flash)
  /\ UNCHANGED <<dirs, wanted, raced>>

-----------------------------------------------------------------------------
(* The plugin                                                              *)

\* The page shows the file and saves it, with an entry more or less; the
\* runtime copy is refreshed.
Save ==
  /\ flash # Torn
  /\ \E e \in PageEntries :
       /\ flash' = IF e \in EntriesOf(flash) THEN EntriesOf(flash) \ {e}
                   ELSE EntriesOf(flash) \cup {e}
       /\ wanted' = IF e \in EntriesOf(flash) THEN wanted \ {e} ELSE wanted \cup {e}
  /\ runtime' = flash'
  /\ raced' = (raced \/ phase # "idle")
  /\ UNCHANGED <<backup, dirs, phase, running, merged, cut>>

\* The NAS boots, while no program runs: the copy is made anew.
Boot ==
  /\ phase = "idle"
  /\ runtime' = flash
  /\ UNCHANGED <<flash, backup, dirs, phase, running, merged, wanted, cut, raced>>

ScheduleNext ==
  \/ \E p \in Programs : StartMerge(p)
  \/ Backup
  \/ WriteFlash
  \/ Mirror
  \/ Retire
  \/ CutOff
  \/ Save
  \/ Boot

ScheduleSpec == ScheduleInit /\ [][ScheduleNext]_scheduleVars
-----------------------------------------------------------------------------
\* "It must be merged, not overwritten": what the page has saved is in the
\* file after any number of programs, unless the page saved while a program
\* was between its reading and its writing, or a write was cut off (there is
\* no rename; the copy in `backup` is replaced by the next program).
SavedEntriesSurvive == ~cut /\ ~raced => wanted \subseteq EntriesOf(flash)
=============================================================================
