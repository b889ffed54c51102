----------------------------- MODULE MCPrograms -----------------------------
(***************************************************************************)
(* The programs that share no state, next to each other: a behaviour picks *)
(* one of them and takes its steps.  The properties are those of the       *)
(* modules this one extends.                                               *)
(***************************************************************************)
EXTENDS PaperlessImport, MCSeverity, ReportDelivery, ScheduleMerge,
        SyncthingProvision, DeployStatus, LogConversion, NightlyBackup, MCWorlds

VARIABLE program

-----------------------------------------------------------------------------
(* Values of the constants that a configuration cannot write down          *)

\* Two copies of one document, and another one that has the destination of
\* the second copy.
Copy1 == <<"Sync", "P", "x">>
Copy2 == <<"Fotos", "t", "u", "v", "x">>
Other == <<"Fotos", "t", "u", "w", "x">>
ThreeFiles == {Copy1, Copy2, Other}
TwoContents == [f \in Files |-> IF f = Other THEN 2 ELSE 1]
OneRule == <<[prefix |-> <<"Sync", "P">>, class |-> "persoenlich", root |-> <<"Sync", "P">>]>>

OwnEntries == [p \in Programs |-> {p}]
RetiredEntries == [p \in Programs |-> IF p = "backup" THEN {"rclone"} ELSE {"ghcr"}]

TwoTiers == <<[quota |-> 1, length |-> 1], [quota |-> 1, length |-> 2]>>
TwoServices == <<"db", "web">>

ASSUME SourcesAreSound == SoundWorld /\ OneHostList /\ UsageNeedsQuota

-----------------------------------------------------------------------------
others == <<severityVars, deliveryVars, scheduleVars, syncVars, deployVars, logVars,
            sourceVars, backupVars>>
allVars == <<program, vars, others>>

SomeRule == CHOOSE r \in NumericRules : TRUE
SomeObs == [subject |-> "", number |-> 0, previous |-> None, age |-> None]

\* A program that is not the one of this behaviour stays where one of its
\* initial states has it.
AllInit ==
  /\ program \in {"import", "severity", "delivery", "schedule", "syncthing",
                  "deploy", "convert", "sources", "nightly"}
  /\ Init
  /\ IF program = "severity" THEN SeverityInit ELSE rule = SomeRule /\ obs = SomeObs
  /\ DeliveryInit
  /\ ScheduleInit /\ (program # "schedule" => flash = None)
  /\ SyncInit
  /\ DeployInit
  /\ ConvertInit
  /\ NightlyInit
  /\ SourceInit /\ (program # "sources" => night = CHOOSE n \in Nights : TRUE)

AllNext ==
  \/ /\ program = "import" /\ Next
     /\ UNCHANGED <<program, others>>
  \/ /\ program = "severity" /\ Worse
     /\ UNCHANGED <<program, vars, deliveryVars, scheduleVars, syncVars, deployVars,
                    logVars, sourceVars, backupVars>>
  \/ /\ program = "delivery" /\ DeliveryNext
     /\ UNCHANGED <<program, vars, severityVars, scheduleVars, syncVars, deployVars,
                    logVars, sourceVars, backupVars>>
  \/ /\ program = "schedule" /\ ScheduleNext
     /\ UNCHANGED <<program, vars, severityVars, deliveryVars, syncVars, deployVars,
                    logVars, sourceVars, backupVars>>
  \/ /\ program = "syncthing" /\ SyncNext
     /\ UNCHANGED <<program, vars, severityVars, deliveryVars, scheduleVars, deployVars,
                    logVars, sourceVars, backupVars>>
  \/ /\ program = "deploy" /\ DeployNext
     /\ UNCHANGED <<program, vars, severityVars, deliveryVars, scheduleVars, syncVars,
                    logVars, sourceVars, backupVars>>
  \/ /\ program = "convert" /\ ConvertNext
     /\ UNCHANGED <<program, vars, severityVars, deliveryVars, scheduleVars, syncVars,
                    deployVars, sourceVars, backupVars>>
  \/ /\ program = "sources" /\ SourceNext
     /\ UNCHANGED <<program, vars, severityVars, deliveryVars, scheduleVars, syncVars,
                    deployVars, logVars, backupVars>>
  \/ /\ program = "nightly" /\ NightlyNext
     /\ UNCHANGED <<program, vars, severityVars, deliveryVars, scheduleVars, syncVars,
                    deployVars, logVars, sourceVars>>

\* Only the import is fair.
AllSpec == AllInit /\ [][AllNext]_allVars /\ WF_vars(program = "import" /\ Runs)
=============================================================================
