--------------------------- MODULE Programs_proofs ---------------------------
(***************************************************************************)
(* Theorems about the smaller programs: ScheduleMerge and                  *)
(* SyncthingProvision, which change a configuration that people change as  *)
(* well, DeployStatus with its history, LogConversion, and NightlyBackup   *)
(* with Retention, for any number of programs, entries, devices, jobs, log *)
(* entries, services, tiers and faults.                                    *)
(***************************************************************************)
EXTENDS ScheduleMerge, SyncthingProvision, DeployStatus, LogConversion,
        NightlyBackup, FiniteSetTheorems, Loops, TLAPS


(* ScheduleMerge                                                           *)

Owned == UNION {Own[p] : p \in Programs}
AllEntries == PageEntries \cup Owned \cup HandMade

\* What the page adds is none of the entries that the programs retire, and a
\* file with entries is neither missing nor torn.
EntriesAreTheirOwn ==
  /\ \A p \in Programs : PageEntries \cap Retired[p] = {}
  /\ None \notin SUBSET AllEntries /\ Torn \notin SUBSET AllEntries
  /\ None # Torn

File == {None, Torn} \cup SUBSET AllEntries

\* As long as no write was cut off and the page did not save during a run: what
\* it has saved is in the file, and in what the running program will write.
MergeInv ==
  /\ flash \in File
  /\ phase \in {"backup", "write"} => merged \subseteq AllEntries
  /\ wanted \subseteq PageEntries
  /\ ~cut /\ ~raced =>
       /\ wanted \subseteq EntriesOf(flash)
       /\ phase \in {"backup", "write"} => wanted \subseteq merged

LEMMA EntriesType ==
  ASSUME EntriesAreTheirOwn, MergeInv, flash # Torn
  PROVE  /\ EntriesOf(flash) \subseteq AllEntries
         /\ \A p \in Programs : Merged(p, flash) \subseteq AllEntries
         /\ \A s \in SUBSET AllEntries : EntriesOf(s) = s
<1>1. EntriesOf(flash) \subseteq AllEntries
  BY DEF MergeInv, File, EntriesOf
<1>2. ASSUME NEW p \in Programs PROVE Merged(p, flash) \subseteq AllEntries
  BY <1>1 DEF Merged, AllEntries, Owned
<1>3. \A s \in SUBSET AllEntries : EntriesOf(s) = s
  BY DEF EntriesAreTheirOwn, EntriesOf
<1>. QED
  BY <1>1, <1>2, <1>3

LEMMA InitMerge == ScheduleInit => MergeInv
<1>. SUFFICES ASSUME ScheduleInit PROVE MergeInv
  OBVIOUS
<1>1. HandMade \in SUBSET AllEntries
  BY DEF AllEntries
<1>2. flash \in File
  BY <1>1 DEF ScheduleInit, File
<1>3. wanted = {} /\ phase = "idle"
  BY DEF ScheduleInit
<1>. QED
  BY <1>2, <1>3 DEF MergeInv

LEMMA StepMerge ==
  ASSUME EntriesAreTheirOwn
  PROVE  MergeInv /\ [ScheduleNext]_scheduleVars => MergeInv'
<1>. SUFFICES ASSUME MergeInv, [ScheduleNext]_scheduleVars PROVE MergeInv'
  OBVIOUS
<1>1. ASSUME NEW p \in Programs, StartMerge(p) PROVE MergeInv'
  <2>1. flash # Torn /\ merged' = Merged(p, flash)
    BY <1>1 DEF StartMerge
  <2>2. UNCHANGED <<flash, wanted, cut, raced>>
    BY <1>1 DEF StartMerge, disk
  <2>3. merged' \subseteq AllEntries
    BY <2>1, EntriesType
  <2>4. wanted \subseteq EntriesOf(flash) => wanted \subseteq merged'
    BY <2>1 DEF MergeInv, Merged, EntriesAreTheirOwn
  <2>. QED
    BY <2>2, <2>3, <2>4 DEF MergeInv, EntriesOf
<1>2. CASE Backup
  BY <1>2 DEF Backup, MergeInv, EntriesOf
<1>3. CASE WriteFlash
  <2>1. flash' = merged /\ merged \in SUBSET AllEntries
    BY <1>3 DEF WriteFlash, MergeInv
  <2>2. EntriesOf(flash)' = merged
    BY <2>1 DEF EntriesAreTheirOwn, EntriesOf
  <2>. QED
    BY <1>3, <2>1, <2>2 DEF WriteFlash, MergeInv, File
<1>4. CASE Mirror
  BY <1>4 DEF Mirror, MergeInv, EntriesOf
<1>5. CASE Retire
  BY <1>5 DEF Retire, MergeInv, EntriesOf
<1>6. CASE CutOff
  <2>1. flash' \in {flash, {}, Torn}
    BY <1>6 DEF CutOff
  <2>2. flash' \in File
    BY <2>1 DEF MergeInv, File
  <2>3. ~cut' => ~cut /\ UNCHANGED flash
    BY <1>6 DEF CutOff
  <2>. QED
    BY <1>6, <2>2, <2>3 DEF CutOff, MergeInv, EntriesOf
<1>7. CASE Save
  <2>1. PICK e \in PageEntries :
          /\ flash' = IF e \in EntriesOf(flash) THEN EntriesOf(flash) \ {e}
                      ELSE EntriesOf(flash) \cup {e}
          /\ wanted' = IF e \in EntriesOf(flash) THEN wanted \ {e} ELSE wanted \cup {e}
    BY <1>7 DEF Save
  <2>2. flash # Torn /\ raced' = (raced \/ phase # "idle")
        /\ UNCHANGED <<phase, merged, cut>>
    BY <1>7 DEF Save
  <2>3. flash' \in SUBSET AllEntries
    BY <2>1, <2>2, EntriesType DEF AllEntries
  <2>4. EntriesOf(flash)' = flash'
    BY <2>3 DEF EntriesAreTheirOwn, EntriesOf
  <2>. QED
    BY <2>1, <2>2, <2>3, <2>4 DEF MergeInv, File
<1>8. CASE Boot
  BY <1>8 DEF Boot, MergeInv, EntriesOf
<1>9. CASE UNCHANGED scheduleVars
  BY <1>9 DEF scheduleVars, disk, MergeInv, EntriesOf
<1>. QED
  BY <1>1, <1>2, <1>3, <1>4, <1>5, <1>6, <1>7, <1>8, <1>9 DEF ScheduleNext

\* However many programs run in whatever order and stop anywhere: what the page
\* has saved stays in schedule.json, unless a write was cut off or the page
\* saved in the middle of a run.
THEOREM SavedEntriesAlwaysSurvive ==
  ASSUME EntriesAreTheirOwn
  PROVE  ScheduleSpec => []SavedEntriesSurvive
<1>1. MergeInv => SavedEntriesSurvive
  BY DEF MergeInv, SavedEntriesSurvive
<1>. QED
  BY <1>1, InitMerge, StepMerge, PTL DEF ScheduleSpec

-----------------------------------------------------------------------------
(* SyncthingProvision                                                      *)

\* The devices that come and go are others than the two of the program.
NamesAreApart ==
  /\ "nas" \notin Others /\ "ugreen" \notin Others
  /\ Archive \subseteq Folders
  /\ None \notin SUBSET Devices

Config == [devices : SUBSET Devices, folders : [Folders -> {None} \cup SUBSET Devices]]

Early == {"device", "archive", "share"}     \* before the second reading
Late == {"devices", "accept", "done"}       \* after it

TypeInv ==
  /\ hub \in Config /\ node \in Config
  /\ step \in {"idle", "reread"} \cup Early \cup Late
  /\ step \in Early \cup Late => snapshot \in Config

\* A folder is shared with devices that its side knows.
Known(config) == \A f \in There(config) : config.folders[f] \subseteq config.devices
KnownInv ==
  /\ Known(hub) /\ Known(node) /\ "nas" \in hub.devices
  /\ step \in Early => \A f \in There(snapshot) : snapshot.folders[f] \subseteq hub.devices
  /\ step \in Early \cup Late => snapshot.devices \subseteq hub.devices
  /\ step \in {"archive", "share"} => "ugreen" \in hub.devices

\* Up to the second reading: what the program has read is what the hub has,
\* but for the folders edited since, and what the hub has more is new.
EarlyInv ==
  step \in Early =>
    /\ There(snapshot) \subseteq There(hub)
    /\ \A f \in There(snapshot) \ edited : hub.folders[f] = snapshot.folders[f]
    /\ \A f \in There(snapshot) :
         "ugreen" \in snapshot.folders[f] => "ugreen" \in hub.folders[f]
    /\ \A f \in There(hub) \ There(snapshot) : "ugreen" \in hub.folders[f]
    /\ step = "device" => There(hub) = There(snapshot)
    /\ step = "archive" => known = There(hub)
    /\ step = "share" => Archive \subseteq There(hub)

\* From then on: every folder that is not excluded is shared with ugreen.
LateInv ==
  /\ step = "reread" =>
       /\ Archive \subseteq There(hub)
       /\ \A f \in There(hub) \ Excluded : "ugreen" \in hub.folders[f]
  /\ step \in Late =>
       /\ There(snapshot) = There(hub) /\ Archive \subseteq There(hub)
       /\ \A f \in There(snapshot) \ Excluded : "ugreen" \in snapshot.folders[f]
       /\ Known(snapshot)
  /\ step = "devices" => known \subseteq node.devices
  /\ step \in {"accept", "done"} => snapshot.devices \subseteq node.devices
  /\ step = "done" => ToAccept = {}

SyncInv == TypeInv /\ KnownInv /\ EarlyInv /\ LateInv

LEMMA InitSync == ASSUME NamesAreApart PROVE SyncInit => SyncInv
<1>. SUFFICES ASSUME SyncInit PROVE SyncInv
  OBVIOUS
<1>1. hub \in Config /\ node \in Config
  BY DEF SyncInit, NamesAreApart, Config, Devices, NoFolders
<1>2. step = "idle" /\ "nas" \in hub.devices
  BY DEF SyncInit
<1>3. Known(hub) /\ Known(node)
  BY DEF SyncInit, Known, There, NoFolders
<1>. QED
  BY <1>1, <1>2, <1>3 DEF SyncInv, TypeInv, KnownInv, EarlyInv, LateInv, Early, Late

\* A change of one folder.
With(config, f, new) == [config EXCEPT !.folders[f] = new]
LEMMA OneFolder ==
  ASSUME NamesAreApart, NEW config \in Config, NEW f \in Folders,
         NEW new \in SUBSET Devices
  PROVE  /\ With(config, f, new) \in Config
         /\ With(config, f, new).devices = config.devices
         /\ There(With(config, f, new)) = There(config) \cup {f}
         /\ With(config, f, new).folders[f] = new
         /\ \A g \in Folders \ {f} : With(config, f, new).folders[g] = config.folders[g]
<1>1. /\ With(config, f, new) \in Config
      /\ With(config, f, new).devices = config.devices
      /\ With(config, f, new).folders[f] = new
      /\ \A g \in Folders \ {f} : With(config, f, new).folders[g] = config.folders[g]
  BY DEF Config, With
<1>2. There(With(config, f, new)) = There(config) \cup {f}
  BY <1>1 DEF There, NamesAreApart
<1>. QED
  BY <1>1, <1>2

\* A device more.
LEMMA MoreDevices ==
  ASSUME NEW config \in Config, NEW more \in SUBSET Devices, NEW config2,
         config2 = [config EXCEPT !.devices = @ \cup more]
  PROVE  /\ config2 \in Config
         /\ config2.devices = config.devices \cup more
         /\ config2.folders = config.folders
         /\ There(config2) = There(config)
  BY DEF Config, There

LEMMA FolderType ==
  ASSUME NEW config \in Config, NEW f \in There(config)
  PROVE  f \in Folders /\ config.folders[f] \in SUBSET Devices
  BY DEF Config, There

LEMMA StepSync ==
  ASSUME NamesAreApart
  PROVE  SyncInv /\ [SyncNext]_syncVars => SyncInv'
<1>. SUFFICES ASSUME SyncInv, [SyncNext]_syncVars PROVE SyncInv'
  OBVIOUS
<1>1. CASE StartSync
  BY <1>1 DEF StartSync, SyncInv, TypeInv, KnownInv, EarlyInv, LateInv, Early, Late, Known, There
<1>2. CASE RegisterNode
  <2>. DEFINE more == {"ugreen"} \ snapshot.devices
  <2>1. hub \in Config /\ more \in SUBSET Devices
    BY DEF SyncInv, TypeInv, Devices
  <2>2. /\ hub' \in Config
        /\ hub'.devices = hub.devices \cup more
        /\ hub'.folders = hub.folders
        /\ There(hub') = There(hub)
    BY <1>2, <2>1, MoreDevices DEF RegisterNode
  <2>3. "ugreen" \in hub'.devices
    BY <1>2, <2>2 DEF RegisterNode, SyncInv, KnownInv, Early
  <2>4. step = "device" /\ step' = "archive" /\ known' = There(snapshot)
        /\ UNCHANGED <<node, snapshot, edited>>
    BY <1>2 DEF RegisterNode
  <2>5. TypeInv'
    BY <2>2, <2>4 DEF SyncInv, TypeInv, Early, Late
  <2>6. KnownInv'
    BY <2>2, <2>3, <2>4 DEF SyncInv, KnownInv, Known, Early, Late, There
  <2>7. EarlyInv'
    BY <2>2, <2>4 DEF SyncInv, EarlyInv, Early, There
  <2>8. LateInv'
    BY <2>4 DEF LateInv, Late
  <2>. QED
    BY <2>5, <2>6, <2>7, <2>8 DEF SyncInv
<1>3. CASE CreateArchive
  <2>0. step = "archive" /\ UNCHANGED <<node, snapshot, edited>>
    BY <1>3 DEF CreateArchive
  <2>1. CASE Archive \subseteq known
    BY <1>3, <2>0, <2>1
       DEF CreateArchive, SyncInv, TypeInv, KnownInv, EarlyInv, LateInv, Early, Late
  <2>2. CASE ~(Archive \subseteq known)
    <3>1. PICK f \in Archive \ known :
            /\ hub' = With(hub, f, {"nas", "ugreen"})
            /\ known' = known \cup {f}
            /\ step' = step
      BY <1>3, <2>2 DEF CreateArchive, With
    <3>2. f \in Folders /\ hub \in Config /\ {"nas", "ugreen"} \in SUBSET Devices
      BY DEF NamesAreApart, SyncInv, TypeInv, Devices
    <3>3. /\ hub' \in Config
          /\ hub'.devices = hub.devices
          /\ There(hub') = There(hub) \cup {f}
          /\ hub'.folders[f] = {"nas", "ugreen"}
          /\ \A g \in Folders \ {f} : hub'.folders[g] = hub.folders[g]
      BY <3>1, <3>2, OneFolder
    <3>4. f \notin There(hub) /\ f \notin There(snapshot)
      BY <2>0, <3>1 DEF SyncInv, EarlyInv, Early
    <3>5. TypeInv'
      BY <2>0, <3>1, <3>3 DEF SyncInv, TypeInv, Early, Late
    <3>6. KnownInv'
      BY <2>0, <3>1, <3>3 DEF SyncInv, KnownInv, Known, Early, Late, There
    <3>7. EarlyInv'
      BY <2>0, <3>1, <3>3, <3>4 DEF SyncInv, EarlyInv, Early, There
    <3>8. LateInv'
      BY <2>0, <3>1 DEF LateInv, Late
    <3>. QED
      BY <3>5, <3>6, <3>7, <3>8 DEF SyncInv
  <2>. QED
    BY <2>1, <2>2
<1>4. CASE Share
  <2>0. step = "share" /\ UNCHANGED <<node, known, edited>> /\ snapshot \in Config
    BY <1>4 DEF Share, SyncInv, TypeInv, Early
  <2>1. CASE ToShare = {}
    <3>1. step' = "reread" /\ UNCHANGED <<hub, snapshot>>
      BY <1>4, <2>1 DEF Share
    <3>2. ASSUME NEW f \in There(hub) \ Excluded PROVE "ugreen" \in hub.folders[f]
      BY <2>0, <2>1 DEF ToShare, SyncInv, EarlyInv, Early
    <3>3. TypeInv' /\ KnownInv' /\ EarlyInv'
      BY <2>0, <3>1 DEF SyncInv, TypeInv, KnownInv, EarlyInv, Early, Late
    <3>4. LateInv'
      BY <2>0, <3>1, <3>2 DEF LateInv, Late, SyncInv, EarlyInv, Early
    <3>. QED
      BY <3>3, <3>4 DEF SyncInv
  <2>2. CASE ToShare # {}
    <3>1. PICK f \in ToShare :
            /\ hub' = With(hub, f, WithNode(f))
            /\ snapshot' = With(snapshot, f, WithNode(f))
            /\ step' = step
      BY <1>4, <2>2 DEF Share, With
    <3>2. /\ f \in There(snapshot) /\ f \in There(hub) /\ f \in Folders
          /\ WithNode(f) \in SUBSET Devices
      BY <2>0, FolderType DEF ToShare, WithNode, SyncInv, EarlyInv, Early, Devices
    <3>. DEFINE all == WithNode(f)
    <3>. HIDE DEF all
    <3>3. all \in SUBSET Devices /\ all = WithNode(f)
           /\ hub' = With(hub, f, all) /\ snapshot' = With(snapshot, f, all)
      BY <3>1, <3>2 DEF all
    <3>4. hub \in Config /\ There(hub) \cup {f} = There(hub)
      BY <3>2 DEF SyncInv, TypeInv
    <3>5. There(snapshot) \cup {f} = There(snapshot)
      BY <3>2
    <3>6. /\ hub' \in Config
          /\ hub'.devices = hub.devices
          /\ There(hub') = There(hub)
          /\ hub'.folders[f] = all
          /\ \A g \in Folders \ {f} : hub'.folders[g] = hub.folders[g]
      <4>1. hub \in Config /\ f \in Folders /\ all \in SUBSET Devices
        BY <3>3, <3>2, <3>4
      <4>2. /\ With(hub, f, all) \in Config
            /\ With(hub, f, all).devices = hub.devices
            /\ There(With(hub, f, all)) = There(hub) \cup {f}
            /\ With(hub, f, all).folders[f] = all
            /\ \A g \in Folders \ {f} : With(hub, f, all).folders[g] = hub.folders[g]
        BY <4>1, OneFolder
      <4>3. hub' = With(hub, f, all)
        BY <3>3
      <4>. QED
        BY <4>2, <4>3, <3>4
    <3>7. /\ snapshot' \in Config
          /\ snapshot'.devices = snapshot.devices
          /\ There(snapshot') = There(snapshot)
          /\ snapshot'.folders[f] = all
          /\ \A g \in Folders \ {f} : snapshot'.folders[g] = snapshot.folders[g]
      <4>1. snapshot \in Config /\ f \in Folders /\ all \in SUBSET Devices
        BY <2>0, <3>3, <3>2
      <4>2. /\ With(snapshot, f, all) \in Config
            /\ With(snapshot, f, all).devices = snapshot.devices
            /\ There(With(snapshot, f, all)) = There(snapshot) \cup {f}
            /\ With(snapshot, f, all).folders[f] = all
            /\ \A g \in Folders \ {f} :
                 With(snapshot, f, all).folders[g] = snapshot.folders[g]
        BY <4>1, OneFolder
      <4>3. snapshot' = With(snapshot, f, all)
        BY <3>3
      <4>. QED
        BY <4>2, <4>3, <3>5
    <3>8. WithNode(f) \subseteq hub.devices /\ "ugreen" \in WithNode(f)
      BY <2>0, <3>2 DEF WithNode, SyncInv, KnownInv, Early
    <3>9. TypeInv'
      BY <2>0, <3>1, <3>6, <3>7 DEF SyncInv, TypeInv, Early, Late
    <3>10. KnownInv'
      BY <2>0, <3>1, <3>3, <3>6, <3>7, <3>8 DEF SyncInv, KnownInv, Known, Early, Late, There
    <3>11. EarlyInv'
      BY <2>0, <3>1, <3>3, <3>6, <3>7, <3>8 DEF SyncInv, EarlyInv, Early, There
    <3>12. LateInv'
      BY <2>0, <3>1 DEF LateInv, Late
    <3>. QED
      BY <3>9, <3>10, <3>11, <3>12 DEF SyncInv
  <2>. QED
    BY <2>1, <2>2
<1>5. CASE Reread
  BY <1>5 DEF Reread, HubNow, SyncInv, TypeInv, KnownInv, EarlyInv, LateInv, Early, Late
<1>6. CASE RegisterDevices
  <2>0. step = "devices" /\ UNCHANGED <<hub, snapshot, edited>> /\ snapshot \in Config
    BY <1>6 DEF RegisterDevices, SyncInv, TypeInv, Late
  <2>1. CASE snapshot.devices \subseteq known
    BY <1>6, <2>0, <2>1 DEF RegisterDevices, SyncInv, TypeInv, KnownInv, EarlyInv, LateInv,
                            Early, Late, ToAccept
  <2>2. CASE ~(snapshot.devices \subseteq known)
    <3>1. PICK d \in snapshot.devices \ known :
            /\ node' = [node EXCEPT !.devices = @ \cup {d}]
            /\ known' = known \cup {d}
            /\ step' = step
      BY <1>6, <2>2 DEF RegisterDevices
    <3>2. {d} \in SUBSET Devices /\ node \in Config
      BY <2>0 DEF Config, SyncInv, TypeInv
    <3>3. /\ node' \in Config
          /\ node'.devices = node.devices \cup {d}
          /\ node'.folders = node.folders
          /\ There(node') = There(node)
      BY <3>1, <3>2, MoreDevices
    <3>4. TypeInv' /\ EarlyInv'
      BY <2>0, <3>1, <3>3 DEF SyncInv, TypeInv, EarlyInv, Early, Late
    <3>5. KnownInv'
      BY <2>0, <3>1, <3>3 DEF SyncInv, KnownInv, Known, Early, Late
    <3>6. LateInv'
      BY <2>0, <3>1, <3>3 DEF SyncInv, LateInv, Late
    <3>. QED
      BY <3>4, <3>5, <3>6 DEF SyncInv
  <2>. QED
    BY <2>1, <2>2
<1>7. CASE Accept
  <2>0. /\ step = "accept" /\ UNCHANGED <<hub, snapshot, known, edited>>
        /\ snapshot \in Config /\ node \in Config
    BY <1>7 DEF Accept, SyncInv, TypeInv, Late
  <2>1. CASE ToAccept = {}
    <3>1. step' = "done" /\ node' = node
      BY <1>7, <2>1 DEF Accept
    <3>2. ToAccept' = {}
      BY <2>0, <2>1, <3>1 DEF ToAccept
    <3>. QED
      BY <2>0, <3>1, <3>2 DEF SyncInv, TypeInv, KnownInv, EarlyInv, LateInv, Early, Late
  <2>2. CASE ToAccept # {}
    <3>1. PICK f \in ToAccept : node' = With(node, f, snapshot.folders[f])
      BY <1>7, <2>2 DEF Accept, With
    <3>2. f \in There(snapshot) /\ f \in Folders /\ snapshot.folders[f] \in SUBSET Devices
      BY <2>0, FolderType DEF ToAccept
    <3>3. /\ node' \in Config
          /\ node'.devices = node.devices
          /\ There(node') = There(node) \cup {f}
          /\ node'.folders[f] = snapshot.folders[f]
          /\ \A g \in Folders \ {f} : node'.folders[g] = node.folders[g]
      BY <2>0, <3>1, <3>2, OneFolder
    <3>4. step' = "accept"
      BY <1>7, <2>0, <2>2 DEF Accept
    <3>5. snapshot.folders[f] \subseteq node.devices
      BY <2>0, <3>2 DEF SyncInv, LateInv, Late, Known
    <3>6. Known(node')
      BY <3>3, <3>5 DEF SyncInv, KnownInv, Known, There
    <3>7. TypeInv' /\ EarlyInv'
      BY <2>0, <3>3, <3>4 DEF SyncInv, TypeInv, EarlyInv, Early, Late
    <3>8. KnownInv'
      BY <2>0, <3>4, <3>6 DEF SyncInv, KnownInv, Known, Early, Late
    <3>9. LateInv'
      BY <2>0, <3>3, <3>4 DEF SyncInv, LateInv, Late
    <3>. QED
      BY <3>7, <3>8, <3>9 DEF SyncInv
  <2>. QED
    BY <2>1, <2>2
<1>8. CASE End
  BY <1>8 DEF End, SyncInv, TypeInv, KnownInv, EarlyInv, LateInv, Early, Late
<1>9. CASE Edit
  <2>0. UNCHANGED <<node, step, snapshot, known>> /\ hub \in Config
    BY <1>9 DEF Edit, SyncInv, TypeInv
  <2>1. CASE \E f \in There(hub), d \in Others \cap hub.devices :
               /\ hub' = [hub EXCEPT !.folders[f] = IF d \in @ THEN @ \ {d} ELSE @ \cup {d}]
               /\ edited' = edited \cup {f}
    <3>1. PICK f \in There(hub), d \in Others \cap hub.devices :
               /\ hub' = [hub EXCEPT !.folders[f] = IF d \in @ THEN @ \ {d} ELSE @ \cup {d}]
               /\ edited' = edited \cup {f}
      BY <2>1
    <3>. DEFINE old == hub.folders[f]
                new == IF d \in old THEN old \ {d} ELSE old \cup {d}
    <3>2. f \in Folders /\ old \in SUBSET Devices /\ new \in SUBSET Devices
      BY <2>0, FolderType DEF Devices
    <3>3. hub' = With(hub, f, new)
      BY <2>0, <3>1, <3>2 DEF Config, With
    <3>4. new \subseteq hub.devices /\ ("ugreen" \in old => "ugreen" \in new)
      BY DEF SyncInv, KnownInv, Known, NamesAreApart
    <3>. HIDE DEF new
    <3>5. /\ hub' \in Config
          /\ hub'.devices = hub.devices
          /\ There(hub') = There(hub)
          /\ hub'.folders[f] = new
          /\ \A g \in Folders \ {f} : hub'.folders[g] = hub.folders[g]
      BY <2>0, <3>2, <3>3, OneFolder
    <3>6. TypeInv'
      BY <2>0, <3>5 DEF SyncInv, TypeInv
    <3>7. KnownInv'
      BY <2>0, <3>4, <3>5 DEF SyncInv, KnownInv, Known, There
    <3>8. EarlyInv'
      BY <2>0, <3>1, <3>4, <3>5 DEF SyncInv, EarlyInv, Early, There
    <3>9. LateInv'
      BY <2>0, <3>4, <3>5 DEF SyncInv, LateInv, Late, There, ToAccept
    <3>. QED
      BY <3>6, <3>7, <3>8, <3>9 DEF SyncInv
  <2>2. CASE \E d \in Others : hub' = [hub EXCEPT !.devices = @ \cup {d}] /\ edited' = edited
    <3>1. PICK d \in Others : hub' = [hub EXCEPT !.devices = @ \cup {d}]
      BY <2>2
    <3>2. /\ hub' \in Config
          /\ hub'.devices = hub.devices \cup {d}
          /\ hub'.folders = hub.folders
          /\ There(hub') = There(hub)
      BY <2>0, <3>1, MoreDevices DEF Devices
    <3>. QED
      BY <2>0, <2>2, <3>2
         DEF SyncInv, TypeInv, KnownInv, EarlyInv, LateInv, Early, Late, Known, ToAccept, There
  <2>. QED
    BY <1>9, <2>1, <2>2 DEF Edit
<1>10. CASE UNCHANGED syncVars
  BY <1>10 DEF syncVars, SyncInv, TypeInv, KnownInv, EarlyInv, LateInv, Early, Late, Known,
               There, ToAccept
<1>. QED
  BY <1>1, <1>2, <1>3, <1>4, <1>5, <1>6, <1>7, <1>8, <1>9, <1>10 DEF SyncNext

\* A run of provision-syncthing that comes to its end has put every folder and
\* device of the hub on the node, whatever runs before it broke off.
THEOREM EveryEndMirrors ==
  ASSUME NamesAreApart
  PROVE  SyncSpec => []EndMirrors
<1>1. SyncInv => EndMirrors
  BY DEF SyncInv, TypeInv, KnownInv, LateInv, Late, Known, EndMirrors, ToAccept
<1>. QED
  BY <1>1, InitSync, StepSync, PTL DEF SyncSpec

\* No step of provision-syncthing takes a share away from a folder that nobody
\* has edited since the program read it.
THEOREM SharesAreAlwaysKept ==
  ASSUME NamesAreApart
  PROVE  SyncSpec => SharesAreKept
<1>. DEFINE Kept == hub # hub' /\ edited' = edited =>
                      \A f \in There(hub) \ edited : hub.folders[f] \subseteq hub'.folders[f]
<1>1. ASSUME SyncInv, [SyncNext]_syncVars PROVE Kept \/ UNCHANGED syncVars
  <2>. SUFFICES ASSUME hub # hub', edited' = edited, NEW f \in There(hub) \ edited
                PROVE  hub.folders[f] \subseteq hub'.folders[f]
    OBVIOUS
  <2>0. f \in Folders /\ hub \in Config
    BY <1>1 DEF There, SyncInv, TypeInv
  <2>1. CASE RegisterNode
    BY <2>0, <2>1 DEF RegisterNode, Config
  <2>2. CASE CreateArchive
    <3>1. known = There(hub)
      BY <1>1, <2>2 DEF CreateArchive, SyncInv, EarlyInv, Early
    <3>. QED
      BY <2>0, <2>2, <3>1 DEF CreateArchive, Config
  <2>3. CASE Share
    <3>1. PICK g \in ToShare : hub' = [hub EXCEPT !.folders[g] = WithNode(g)]
      BY <2>3 DEF Share
    <3>2. f \in There(snapshot) => hub.folders[f] = snapshot.folders[f]
      BY <1>1, <2>3 DEF Share, SyncInv, EarlyInv, Early
    <3>. QED
      BY <2>0, <3>1, <3>2 DEF ToShare, WithNode, Config
  <2>4. CASE Edit
    BY <2>0, <2>4 DEF Edit, Config
  <2>. QED
    BY <1>1, <2>1, <2>2, <2>3, <2>4
       DEF SyncNext, syncVars, StartSync, Reread, RegisterDevices, Accept, End
<1>. QED
  BY <1>1, InitSync, StepSync, PTL DEF SyncSpec, SharesAreKept

-----------------------------------------------------------------------------
(* DeployStatus                                                            *)

Deployments ==
  {Deployment(id, now, services) :
     id \in Nat, now \in Jobs, services \in Catalogs \cup {<<>>}}

\* A history is neither missing nor torn.
HistoriesAreFiles == None \notin Seq(Deployments) /\ Torn \notin Seq(Deployments)

IdsOf(deployments) == [i \in DOMAIN deployments |-> deployments[i].id]

DeployTypes ==
  /\ catalog \in Catalogs \cup {<<>>} /\ jobs \in Nat
  /\ history \in {None, Torn} \cup Seq(Deployments)
  /\ DOMAIN base = Groups /\ DOMAIN built = Groups /\ DOMAIN doing = Groups
  /\ \A g \in Groups : /\ base[g].id \in Nat /\ base[g].old \in Seq(Deployments)
                       /\ built[g].history \in {None} \cup Seq(Deployments)

\* The job g works on the history as it is published.
WorksOnTheLatest(g) ==
  /\ doing[g] = "build" => history # Torn /\ base[g].old = Readable(history)
  /\ doing[g] = "history" =>
       /\ history # Torn
       /\ built[g].history # None =>
            \E d \in Deployments : built[g].history = NewHistory(d, Readable(history))

\* As long as no job was without the history: one job at a time works, and on
\* the history as it is published; the history is what was uploaded.
DeployInv ==
  /\ DeployTypes
  /\ ~lost =>
       /\ \A g, h \in Groups : doing[g] # "idle" /\ doing[h] # "idle" => g = h
       /\ \A g \in Groups : WorksOnTheLatest(g)
       /\ history # Torn => uploaded = IdsOf(Readable(history))

LEMMA DeploymentType ==
  ASSUME NEW id \in Nat, NEW now \in Jobs, NEW services \in Catalogs \cup {<<>>}
  PROVE  Deployment(id, now, services) \in Deployments
BY DEF Deployments

LEMMA ReadableType ==
  ASSUME HistoriesAreFiles, DeployTypes
  PROVE  /\ Readable(history) \in Seq(Deployments)
         /\ \A s \in Seq(Deployments) : Readable(s) = s
BY DEF HistoriesAreFiles, DeployTypes, Readable

LEMMA NewHistoryIds ==
  ASSUME NEW d \in Deployments, NEW old \in Seq(Deployments)
  PROVE  /\ NewHistory(d, old) \in Seq(Deployments)
         /\ NewHistory(d, old)[1] = d
         /\ IdsOf(NewHistory(d, old)) = FirstN(Cap, <<d.id>> \o IdsOf(old))
<1>. DEFINE all == <<d>> \o old
            ids == <<d.id>> \o IdsOf(old)
<1>1. /\ all \in Seq(Deployments) /\ Len(all) = Len(old) + 1
      /\ all[1] = d /\ \A i \in 2..Len(all) : all[i] = old[i - 1]
  OBVIOUS
<1>2. IdsOf(old) \in Seq({x.id : x \in Deployments}) /\ Len(IdsOf(old)) = Len(old)
  BY DEF IdsOf
<1>3. /\ Len(ids) = Len(all) /\ ids \in Seq({x.id : x \in Deployments})
      /\ \A i \in 1..Len(all) : ids[i] = all[i].id
  <2>1. Len(ids) = Len(all) /\ ids \in Seq({x.id : x \in Deployments})
    BY <1>1, <1>2
  <2>2. ASSUME NEW i \in 1..Len(all) PROVE ids[i] = all[i].id
    <3>1. CASE i = 1
      BY <3>1, <1>1, <1>2
    <3>2. CASE i # 1
      BY <3>2, <1>1, <1>2 DEF IdsOf
    <3>. QED
      BY <3>1, <3>2
  <2>. QED
    BY <2>1, <2>2
<1>. DEFINE n == IF Len(all) < Cap THEN Len(all) ELSE Cap
<1>4. n \in 1..Len(all)
  BY <1>1, CapAssumption
<1>. HIDE DEF all, ids, n
<1>5. /\ SubSeq(all, 1, n) \in Seq(Deployments) /\ Len(SubSeq(all, 1, n)) = n
      /\ \A i \in 1..n : SubSeq(all, 1, n)[i] = all[i]
  BY <1>1, <1>4
<1>6. SubSeq(ids, 1, n) = [i \in 1..n |-> ids[i]]
  BY <1>3, <1>4
<1>7. NewHistory(d, old) = SubSeq(all, 1, n) /\ FirstN(Cap, ids) = SubSeq(ids, 1, n)
  BY <1>3 DEF NewHistory, FirstN, all, n
<1>8. IdsOf(SubSeq(all, 1, n)) = [i \in 1..n |-> all[i].id]
  BY <1>5, <1>4 DEF IdsOf
<1>9. IdsOf(SubSeq(all, 1, n)) = SubSeq(ids, 1, n)
  BY <1>8, <1>6, <1>3, <1>4
<1>. QED
  <2>1. NewHistory(d, old) \in Seq(Deployments) /\ NewHistory(d, old)[1] = d
    BY <1>1, <1>4, <1>5, <1>7
  <2>2. IdsOf(NewHistory(d, old)) = FirstN(Cap, ids)
    BY <1>7, <1>9, Zenon
  <2>. QED
    BY <2>1, <2>2 DEF ids

LEMMA InitDeploy == ASSUME HistoriesAreFiles PROVE DeployInit => DeployInv
<1>. SUFFICES ASSUME DeployInit PROVE DeployInv
  OBVIOUS
<1>1. DeployTypes
  <2>1. <<>> \in Seq(Deployments)
    OBVIOUS
  <2>2. \A g \in Groups : /\ base[g].id \in Nat /\ base[g].old \in Seq(Deployments)
                         /\ built[g].history \in {None} \cup Seq(Deployments)
    BY <2>1 DEF DeployInit, NoBase, Nothing
  <2>. QED
    BY <2>2 DEF DeployInit, DeployTypes
<1>2. Readable(history) = <<>> /\ IdsOf(<<>>) = <<>>
  BY DEF DeployInit, Readable, IdsOf
<1>. QED
  BY <1>1, <1>2 DEF DeployInit, DeployInv, WorksOnTheLatest

LEMMA StepDeploy ==
  ASSUME HistoriesAreFiles
  PROVE  DeployInv /\ [DeployNext]_deployVars => DeployInv'
<1>. SUFFICES ASSUME DeployInv, [DeployNext]_deployVars PROVE DeployInv'
  OBVIOUS
<1>0. DeployTypes
  BY DEF DeployInv
<1>1. CASE Commit
  BY <1>1 DEF Commit, lane, DeployInv, DeployTypes, WorksOnTheLatest
<1>2. ASSUME NEW g \in Groups, Fetch(g) PROVE DeployInv'
  <2>1. PICK answered \in BOOLEAN :
          /\ base' = [base EXCEPT ![g] = [id |-> jobs',
                        old |-> IF answered THEN Readable(history) ELSE <<>>]]
          /\ lost' = \/ lost \/ (~answered /\ history # None) \/ history = Torn
                     \/ \E other \in Groups \ {g} : doing[other] # "idle"
    BY <1>2 DEF Fetch
  <2>2. /\ jobs' = jobs + 1 /\ doing' = [doing EXCEPT ![g] = "build"]
        /\ UNCHANGED <<catalog, history, page, built, uploaded>>
    BY <1>2 DEF Fetch
  <2>3. DeployTypes'
    BY <1>0, <2>1, <2>2, ReadableType DEF DeployTypes
  <2>. SUFFICES ASSUME ~lost'
                PROVE  /\ \A f, h \in Groups : doing'[f] # "idle" /\ doing'[h] # "idle" => f = h
                       /\ \A h \in Groups : WorksOnTheLatest(h)'
                       /\ history' # Torn => uploaded' = IdsOf(Readable(history'))
    BY <2>3 DEF DeployInv, Readable
  <2>4. /\ ~lost /\ (~answered => history = None) /\ history # Torn
        /\ \A other \in Groups \ {g} : doing[other] = "idle"
    BY <2>1
  <2>5. \A h \in Groups \ {g} : doing'[h] = "idle"
    BY <1>0, <2>2, <2>4 DEF DeployTypes
  <2>6. doing'[g] = "build" /\ base'[g].old = Readable(history)
    BY <1>0, <2>1, <2>2, <2>4 DEF DeployTypes, Readable
  <2>7. \A h \in Groups : WorksOnTheLatest(h)'
    BY <2>2, <2>4, <2>5, <2>6 DEF WorksOnTheLatest, Readable
  <2>. QED
    BY <2>2, <2>4, <2>5, <2>7 DEF DeployInv
<1>3. ASSUME NEW g \in Groups, Build(g) PROVE DeployInv'
  <2>0. PICK now \in Jobs :
          LET new == NewHistory(Deployment(base[g].id, now, catalog), base[g].old)
          IN \E files \in {Nothing, [history |-> new, page |-> None],
                           [history |-> new, page |-> Page(new, catalog)]} :
               built' = [built EXCEPT ![g] = files]
    BY <1>3 DEF Build
  <2>1. PICK files :
          /\ built' = [built EXCEPT ![g] = files]
          /\ \/ files.history = None
             \/ files.history = NewHistory(Deployment(base[g].id, now, catalog), base[g].old)
    <3>. DEFINE new == NewHistory(Deployment(base[g].id, now, catalog), base[g].old)
    <3>1. PICK files \in {Nothing, [history |-> new, page |-> None],
                          [history |-> new, page |-> Page(new, catalog)]} :
            built' = [built EXCEPT ![g] = files]
      BY <2>0
    <3>. HIDE DEF new
    <3>2. files.history = None \/ files.history = new
      BY <3>1 DEF Nothing
    <3>. QED
      BY <3>1, <3>2 DEF new
  <2>2. /\ doing[g] = "build" /\ doing' = [doing EXCEPT ![g] = "history"]
        /\ UNCHANGED <<catalog, history, page, base, jobs, uploaded, lost>>
    BY <1>3 DEF Build
  <2>. DEFINE deployment == Deployment(base[g].id, now, catalog)
  <2>3. deployment \in Deployments
    <3>1. base[g].id \in Nat /\ catalog \in Catalogs \cup {<<>>}
      BY <1>0 DEF DeployTypes
    <3>. QED
      BY <3>1, DeploymentType DEF deployment
  <2>. HIDE DEF deployment
  <2>4. DeployTypes'
    <3>1. NewHistory(deployment, base[g].old) \in Seq(Deployments)
      BY <1>0, <2>3, NewHistoryIds DEF DeployTypes
    <3>. QED
      BY <1>0, <2>1, <2>2, <3>1 DEF DeployTypes, deployment
  <2>. SUFFICES ASSUME ~lost
                PROVE  /\ \A f, h \in Groups : doing'[f] # "idle" /\ doing'[h] # "idle" => f = h
                       /\ \A h \in Groups : WorksOnTheLatest(h)'
    BY <2>2, <2>4 DEF DeployInv, Readable
  <2>5. history # Torn /\ base[g].old = Readable(history)
    BY <2>2 DEF DeployInv, WorksOnTheLatest
  <2>6. /\ doing'[g] = "history"
        /\ built'[g].history # None => built'[g].history = NewHistory(deployment, Readable(history))
    BY <1>0, <2>1, <2>2, <2>5 DEF DeployTypes, deployment
  <2>7. WorksOnTheLatest(g)'
    BY <2>2, <2>3, <2>5, <2>6 DEF WorksOnTheLatest, Readable
  <2>8. \A h \in Groups \ {g} : doing'[h] = doing[h] /\ doing[h] = "idle"
    BY <1>0, <2>2 DEF DeployTypes, DeployInv
  <2>. QED
    BY <2>7, <2>8 DEF WorksOnTheLatest
<1>4. ASSUME NEW g \in Groups, UploadHistory(g) PROVE DeployInv'
  <2>1. /\ doing[g] = "history" /\ doing' = [doing EXCEPT ![g] = "page"]
        /\ UNCHANGED <<catalog, page, base, built, jobs, lost>>
    BY <1>4 DEF UploadHistory
  <2>2. history' \in Uploaded(built[g].history, history)
    BY <1>4 DEF UploadHistory
  <2>3. uploaded' = IF built[g].history # None /\ history' = built[g].history
                    THEN FirstN(Cap, <<history'[1].id>> \o uploaded) ELSE uploaded
    BY <1>4 DEF UploadHistory
  <2>. DEFINE new == built[g].history
  <2>4. CASE new = None
    <3>1. history' = history /\ uploaded' = uploaded
      BY <2>2, <2>3, <2>4 DEF Uploaded
    <3>2. \A h \in Groups : doing'[h] = IF h = g THEN "page" ELSE doing[h]
      BY <1>0, <2>1 DEF DeployTypes
    <3>. QED
      BY <2>1, <3>1, <3>2 DEF DeployInv, DeployTypes, WorksOnTheLatest, Readable
  <2>5. CASE new # None
    <3>1. history' \in {new, history, Torn} /\ new \in Seq(Deployments)
      BY <1>0, <2>2, <2>5 DEF Uploaded, DeployTypes
    <3>2. \A h \in Groups : doing'[h] = IF h = g THEN "page" ELSE doing[h]
      BY <1>0, <2>1 DEF DeployTypes
    <3>3. DeployTypes'
      BY <1>0, <2>1, <3>1 DEF DeployTypes
    <3>. SUFFICES ASSUME ~lost
                  PROVE  /\ \A h \in Groups : WorksOnTheLatest(h)'
                         /\ history' # Torn => uploaded' = IdsOf(Readable(history'))
      BY <2>1, <3>2, <3>3 DEF DeployInv, DeployTypes
    <3>4. \A h \in Groups : doing'[h] \in {"idle", "page"}
      BY <2>1, <3>2 DEF DeployInv
    <3>5. PICK d \in Deployments : new = NewHistory(d, Readable(history))
      BY <2>1, <2>5 DEF DeployInv, WorksOnTheLatest
    <3>6. /\ Readable(history) \in Seq(Deployments)
          /\ Readable(new) = new /\ uploaded = IdsOf(Readable(history))
      BY <1>0, <2>1, <3>1, ReadableType DEF DeployInv, WorksOnTheLatest
    <3>7. history' = new => uploaded' = IdsOf(Readable(new))
      <4>1. new[1] = d /\ IdsOf(new) = FirstN(Cap, <<d.id>> \o IdsOf(Readable(history)))
        BY <3>5, <3>6, NewHistoryIds, Zenon
      <4>. HIDE DEF new
      <4>2. history' = new => uploaded' = FirstN(Cap, <<history'[1].id>> \o uploaded)
        BY <2>3, <2>5 DEF new
      <4>. QED
        BY <4>1, <4>2, <3>6
    <3>8. history' # new => uploaded' = uploaded
      BY <2>3
    <3>9. history' # Torn => uploaded' = IdsOf(Readable(history'))
      BY <3>1, <3>6, <3>7, <3>8
    <3>. QED
      BY <3>4, <3>9 DEF WorksOnTheLatest
  <2>. QED
    BY <2>4, <2>5
<1>5. ASSUME NEW g \in Groups, UploadPage(g) PROVE DeployInv'
  <2>1. /\ doing[g] = "page" /\ doing' = [doing EXCEPT ![g] = "idle"]
        /\ base' = [base EXCEPT ![g] = NoBase]
        /\ built' = [built EXCEPT ![g] = Nothing]
        /\ UNCHANGED <<catalog, history, jobs, uploaded, lost>>
    BY <1>5 DEF UploadPage
  <2>2. DeployTypes'
    BY <1>0, <2>1 DEF DeployTypes, NoBase, Nothing
  <2>3. \A h \in Groups : \/ doing'[h] = "idle"
                          \/ doing'[h] = doing[h] /\ base'[h] = base[h] /\ built'[h] = built[h]
    BY <1>0, <2>1 DEF DeployTypes
  <2>. QED
    BY <2>1, <2>2, <2>3 DEF DeployInv, WorksOnTheLatest, Readable
<1>6. CASE UNCHANGED deployVars
  BY <1>6 DEF deployVars, lane, DeployInv, DeployTypes, WorksOnTheLatest, Readable
<1>. QED
  BY <1>1, <1>2, <1>3, <1>4, <1>5, <1>6 DEF DeployNext

\* The published history is the last deployments that were uploaded, newest
\* first, whatever step of a job fails, unless a job found no history or two
\* jobs of different groups were at it.
THEOREM HistoryIsAlwaysTheLatest ==
  ASSUME HistoriesAreFiles
  PROVE  DeploySpec => []HistoryIsTheLatest
<1>1. DeployInv => HistoryIsTheLatest
  BY DEF DeployInv, HistoryIsTheLatest, IdsOf
<1>. QED
  BY <1>1, InitDeploy, StepDeploy, PTL DEF DeploySpec

-----------------------------------------------------------------------------
(* LogConversion                                                           *)

Entries == UNION {ToSet(logs[i]) : i \in DOMAIN logs}

\* Entry k of file i has been read, or was read when the files before the
\* open one were.
Before(i, k) == i < reading \/ (i = reading /\ k <= offset)

\* The entries are numbered through the files, from 1 on.
Numbered ==
  /\ logs \in Seq(Seq(Nat))
  /\ \A i \in DOMAIN logs : \A k, l \in DOMAIN logs[i] : k < l => logs[i][k] < logs[i][l]
  /\ \A i, j \in DOMAIN logs : i < j =>
       \A k \in DOMAIN logs[i], l \in DOMAIN logs[j] : logs[i][k] < logs[j][l]
  /\ \E w \in Nat : Entries = 1..w

\* What has been written is what was read before, in order.
OutIsRead ==
  /\ out \in Seq(Nat)
  /\ \A n, m \in DOMAIN out : n < m => out[n] < out[m]
  /\ \A n \in DOMAIN out : \E i \in DOMAIN logs : \E k \in DOMAIN logs[i] :
       Before(i, k) /\ out[n] = logs[i][k]

\* Of what was read, all from the first entry of the output on is in it or
\* counts as missed.
ReadIsOut ==
  out # <<>> => \A i \in DOMAIN logs : \A k \in DOMAIN logs[i] :
    Before(i, k) /\ out[1] <= logs[i][k] => logs[i][k] \in ToSet(out) \cup missed

ConvertInv ==
  /\ Numbered
  /\ reading \in DOMAIN logs /\ inode = reading /\ offset \in 0..Len(logs[reading])
  /\ OutIsRead /\ ReadIsOut

LEMMA EntryOf ==
  ASSUME Numbered
  PROVE  /\ \A i \in DOMAIN logs : logs[i] \in Seq(Nat)
         /\ \A i \in DOMAIN logs : \A k \in DOMAIN logs[i] : logs[i][k] \in Entries
         /\ \A n \in Entries : \E i \in DOMAIN logs : \E k \in DOMAIN logs[i] : n = logs[i][k]
         /\ Written \in Nat /\ Entries = 1..Written
<1>1. \A i \in DOMAIN logs : logs[i] \in Seq(Nat)
  BY DEF Numbered
<1>2. PICK w \in Nat : Entries = 1..w
  BY DEF Numbered
<1>3. Cardinality(1..w) = w
  BY FS_Interval
<1>4. Written = w
  BY <1>2, <1>3 DEF Written, Entries
<1>. QED
  BY <1>1, <1>2, <1>4 DEF Entries, ToSet

LEMMA CurrentFile ==
  ASSUME Numbered, reading \in DOMAIN logs
  PROVE  /\ Current \in DOMAIN logs /\ Current \in Nat /\ DOMAIN logs = 1..Current
         /\ \A i \in DOMAIN logs : DOMAIN logs[i] = 1..Len(logs[i]) /\ Len(logs[i]) \in Nat
<1>1. logs \in Seq(Seq(Nat)) /\ \A i \in DOMAIN logs : logs[i] \in Seq(Nat)
  BY DEF Numbered
<1>2. \A i \in DOMAIN logs : DOMAIN logs[i] = 1..Len(logs[i]) /\ Len(logs[i]) \in Nat
  BY <1>1
<1>3. Current \in Nat /\ DOMAIN logs = 1..Current
  BY <1>1 DEF Current
<1>. QED
  BY <1>2, <1>3

LEMMA InitConvert == ConvertInit => ConvertInv
<1>. SUFFICES ASSUME ConvertInit PROVE ConvertInv
  OBVIOUS
<1>1. logs = <<<<>>>> /\ DOMAIN logs = {1} /\ logs[1] = <<>> /\ logs \in Seq(Seq(Nat))
  BY DEF ConvertInit
<1>2. Entries = {} /\ 1..0 = {}
  BY <1>1 DEF Entries, ToSet
<1>3. Numbered
  BY <1>1, <1>2 DEF Numbered
<1>. QED
  BY <1>1, <1>3 DEF ConvertInit, ConvertInv, OutIsRead, ReadIsOut

LEMMA Replaced ==
  ASSUME NEW S, NEW s \in Seq(S), NEW c \in DOMAIN s, NEW x \in S,
         NEW t, t = [s EXCEPT ![c] = x]
  PROVE  /\ t \in Seq(S) /\ DOMAIN t = DOMAIN s
         /\ \A i \in DOMAIN s : t[i] = IF i = c THEN x ELSE s[i]
OBVIOUS

LEMMA OneMore ==
  ASSUME NEW s \in Seq(Nat), NEW n \in Nat
  PROVE  /\ Append(s, n) \in Seq(Nat) /\ DOMAIN s = 1..Len(s) /\ Len(s) \in Nat
         /\ DOMAIN Append(s, n) = 1..(Len(s) + 1) /\ Append(s, n)[Len(s) + 1] = n
         /\ \A k \in DOMAIN s : Append(s, n)[k] = s[k]
OBVIOUS

LEMMA Appended ==
  ASSUME ConvertInv, logs' = [logs EXCEPT ![Current] = Append(@, Written + 1)]
  PROVE  /\ Numbered'
         /\ DOMAIN logs' = DOMAIN logs
         /\ \A i \in DOMAIN logs : /\ DOMAIN logs[i] \subseteq DOMAIN logs'[i]
                                   /\ \A k \in DOMAIN logs[i] : logs'[i][k] = logs[i][k]
         /\ \A i \in DOMAIN logs : \A k \in DOMAIN logs'[i] :
              k \in DOMAIN logs[i] \/ (i = Current /\ k = Len(logs[i]) + 1)
<1>0. /\ Current \in DOMAIN logs /\ \A i \in DOMAIN logs : i <= Current /\ logs[i] \in Seq(Nat)
      /\ Written \in Nat /\ logs \in Seq(Seq(Nat))
  <2>1. Numbered /\ logs \in Seq(Seq(Nat)) /\ reading \in DOMAIN logs
    BY DEF ConvertInv, Numbered
  <2>2. Written \in Nat /\ \A i \in DOMAIN logs : logs[i] \in Seq(Nat)
    BY <2>1, EntryOf
  <2>. QED
    BY <2>1, <2>2 DEF Current
<1>. DEFINE longer == Append(logs[Current], Written + 1)
<1>a. /\ longer \in Seq(Nat) /\ DOMAIN longer = 1..(Len(logs[Current]) + 1)
      /\ DOMAIN logs[Current] = 1..Len(logs[Current]) /\ Len(logs[Current]) \in Nat
      /\ longer[Len(logs[Current]) + 1] = Written + 1
      /\ \A k \in DOMAIN logs[Current] : longer[k] = logs[Current][k]
  BY <1>0, OneMore
<1>b. logs' = [logs EXCEPT ![Current] = longer]
  OBVIOUS
<1>. HIDE DEF longer
<1>1. /\ logs' \in Seq(Seq(Nat)) /\ DOMAIN logs' = DOMAIN logs
      /\ \A i \in DOMAIN logs : logs'[i] = IF i = Current THEN longer ELSE logs[i]
  <2>. DEFINE Files == Seq(Nat)
  <2>1. Current \in DOMAIN logs /\ logs \in Seq(Files) /\ longer \in Files
    BY <1>0, <1>a
  <2>. HIDE DEF Files
  <2>2. /\ logs' \in Seq(Files) /\ DOMAIN logs' = DOMAIN logs
        /\ \A i \in DOMAIN logs : logs'[i] = IF i = Current THEN longer ELSE logs[i]
    BY <2>1, <1>b, Replaced
  <2>. QED
    BY <2>2 DEF Files
<1>2. \A i \in DOMAIN logs :
        /\ DOMAIN logs[i] \subseteq DOMAIN logs'[i]
        /\ \A k \in DOMAIN logs[i] : logs'[i][k] = logs[i][k]
        /\ \A k \in DOMAIN logs'[i] :
             k \in DOMAIN logs[i] \/ (i = Current /\ k = Len(logs[i]) + 1)
        /\ \A k \in DOMAIN logs'[i] :
             k \in DOMAIN logs[i] \/ logs'[i][k] = Written + 1
  <2>. SUFFICES ASSUME NEW i \in DOMAIN logs
                PROVE  /\ DOMAIN logs[i] \subseteq DOMAIN logs'[i]
                       /\ \A k \in DOMAIN logs[i] : logs'[i][k] = logs[i][k]
                       /\ \A k \in DOMAIN logs'[i] :
                            \/ k \in DOMAIN logs[i]
                            \/ i = Current /\ k = Len(logs[i]) + 1 /\ logs'[i][k] = Written + 1
    OBVIOUS
  <2>1. CASE i # Current
    BY <2>1, <1>1
  <2>2. CASE i = Current
    <3>1. logs'[i] = longer
      BY <2>2, <1>1
    <3>. QED
      BY <2>2, <3>1, <1>a
  <2>. QED
    BY <2>1, <2>2
<1>3. \A i \in DOMAIN logs : \A k \in DOMAIN logs[i] : logs[i][k] \in 1..Written
  BY EntryOf DEF ConvertInv
<1>4. \A i \in DOMAIN logs' : \A k, l \in DOMAIN logs'[i] : k < l => logs'[i][k] < logs'[i][l]
  <2>. SUFFICES ASSUME NEW i \in DOMAIN logs,
                       NEW k \in DOMAIN logs'[i], NEW l \in DOMAIN logs'[i], k < l
                PROVE  logs'[i][k] < logs'[i][l]
    BY <1>1
  <2>1. k \in DOMAIN logs[i]
    BY <1>0, <1>1, <1>2
  <2>2. CASE l \in DOMAIN logs[i]
    BY <2>1, <2>2, <1>2 DEF ConvertInv, Numbered
  <2>3. CASE l \notin DOMAIN logs[i]
    BY <2>1, <2>3, <1>0, <1>2, <1>3
  <2>. QED
    BY <2>2, <2>3
<1>5. \A i, j \in DOMAIN logs' : i < j =>
        \A k \in DOMAIN logs'[i], l \in DOMAIN logs'[j] : logs'[i][k] < logs'[j][l]
  <2>. SUFFICES ASSUME NEW i \in DOMAIN logs, NEW j \in DOMAIN logs, i < j,
                       NEW k \in DOMAIN logs'[i], NEW l \in DOMAIN logs'[j]
                PROVE  logs'[i][k] < logs'[j][l]
    BY <1>1
  <2>1. i # Current
    BY <1>0
  <2>2. k \in DOMAIN logs[i]
    BY <2>1, <1>2
  <2>3. CASE l \in DOMAIN logs[j]
    BY <2>2, <2>3, <1>2 DEF ConvertInv, Numbered
  <2>4. CASE l \notin DOMAIN logs[j]
    BY <2>2, <2>4, <1>0, <1>2, <1>3
  <2>. QED
    BY <2>3, <2>4
<1>6. Entries' = 1..(Written + 1)
  <2>1. Entries' \subseteq 1..(Written + 1)
    BY <1>0, <1>1, <1>2, <1>3 DEF Entries, ToSet
  <2>2. ASSUME NEW n \in 1..Written PROVE n \in Entries'
    <3>1. PICK i \in DOMAIN logs : \E k \in DOMAIN logs[i] : n = logs[i][k]
      BY EntryOf DEF ConvertInv
    <3>. QED
      BY <3>1, <1>1, <1>2 DEF Entries, ToSet
  <2>3. Written + 1 \in Entries'
    <3>1. /\ Len(logs[Current]) + 1 \in DOMAIN logs'[Current]
          /\ logs'[Current][Len(logs[Current]) + 1] = Written + 1
      BY <1>0, <1>1, <1>a
    <3>. QED
      <4>1. Written + 1 \in ToSet(logs'[Current])
        BY <3>1 DEF ToSet
      <4>. QED
        BY <4>1, <1>0, <1>1, Zenon DEF Entries
  <2>. QED
    <3>1. \A n \in 1..(Written + 1) : n \in 1..Written \/ n = Written + 1
      BY <1>0
    <3>. QED
      BY <2>1, <2>2, <2>3, <3>1, Zenon
<1>. QED
  <2>1. Numbered'
    <3>1. Written + 1 \in Nat
      BY <1>0
    <3>. HIDE DEF Written
    <3>. QED
      BY <3>1, <1>1, <1>4, <1>5, <1>6 DEF Numbered
  <2>. QED
    BY <2>1, <1>1, <1>2

LEMMA SamePlace ==
  ASSUME ConvertInv, UNCHANGED <<logs, reading, inode, offset, out, missed>>
  PROVE  ConvertInv'
<1>1. Numbered'
  BY DEF ConvertInv, Numbered, Entries
<1>2. OutIsRead'
  BY DEF ConvertInv, OutIsRead, Before
<1>3. ReadIsOut'
  BY DEF ConvertInv, ReadIsOut, Before
<1>. QED
  BY <1>1, <1>2, <1>3 DEF ConvertInv

LEMMA StepConvert == ConvertInv /\ [ConvertNext]_logVars => ConvertInv'
<1>. SUFFICES ASSUME ConvertInv, [ConvertNext]_logVars PROVE ConvertInv'
  OBVIOUS
<1>0. Numbered
  BY DEF ConvertInv
<1>1. CASE WriteEntry
  <2>1. UNCHANGED <<reading, inode, offset, out, missed>>
    BY <1>1 DEF WriteEntry, reader
  <2>2. CASE UNCHANGED logs
    BY <2>1, <2>2, SamePlace
  <2>3. CASE logs' = [logs EXCEPT ![Current] = Append(@, Written + 1)]
    <3>1. /\ Numbered'
          /\ DOMAIN logs' = DOMAIN logs
          /\ \A i \in DOMAIN logs : /\ DOMAIN logs[i] \subseteq DOMAIN logs'[i]
                                    /\ \A k \in DOMAIN logs[i] : logs'[i][k] = logs[i][k]
          /\ \A i \in DOMAIN logs : \A k \in DOMAIN logs'[i] :
               k \in DOMAIN logs[i] \/ (i = Current /\ k = Len(logs[i]) + 1)
      BY <2>3, Appended
    <3>2. /\ reading \in DOMAIN logs' /\ inode' = reading
          /\ offset \in 0..Len(logs[reading]) /\ Len(logs[reading]) \in Nat
          /\ DOMAIN logs[reading] = 1..Len(logs[reading])
          /\ offset \in 0..Len(logs'[reading])
      <4>1. logs[reading] \in Seq(Nat) /\ logs'[reading] \in Seq(Nat)
        BY <3>1 DEF ConvertInv, Numbered
      <4>. QED
        BY <2>1, <3>1, <4>1 DEF ConvertInv
    <3>3. \A i \in DOMAIN logs : \A k \in DOMAIN logs'[i] :
            Before(i, k) => k \in DOMAIN logs[i]
      BY <3>1, <3>2 DEF Before, Current, ConvertInv, Numbered
    <3>4. OutIsRead'
      BY <2>1, <3>1 DEF ConvertInv, OutIsRead, Before
    <3>5. ReadIsOut'
      BY <2>1, <3>1, <3>3 DEF ConvertInv, ReadIsOut, Before
    <3>. QED
      BY <2>1, <3>1, <3>2, <3>4, <3>5 DEF ConvertInv
  <2>. QED
    BY <1>1, <2>2, <2>3 DEF WriteEntry
<1>2. CASE Rotate
  <2>1. logs' = Append(logs, <<>>) /\ UNCHANGED <<reading, inode, offset, out, missed>>
    BY <1>2 DEF Rotate, reader
  <2>. DEFINE Files == Seq(Nat)
  <2>2. logs \in Seq(Files) /\ <<>> \in Files
    BY <1>0 DEF Numbered
  <2>. HIDE DEF Files
  <2>3. /\ logs' \in Seq(Files) /\ DOMAIN logs = 1..Len(logs) /\ Len(logs) \in Nat
        /\ DOMAIN logs' = 1..(Len(logs) + 1) /\ logs'[Len(logs) + 1] = <<>>
        /\ \A i \in DOMAIN logs : logs'[i] = logs[i]
    BY <2>1, <2>2
  <2>4. /\ DOMAIN logs \subseteq DOMAIN logs'
        /\ \A i \in DOMAIN logs' : \A k \in DOMAIN logs'[i] :
             i \in DOMAIN logs /\ k \in DOMAIN logs[i] /\ logs'[i] = logs[i]
    BY <2>3
  <2>5. Entries' = Entries
    BY <2>3, <2>4 DEF Entries, ToSet
  <2>6. Numbered'
    BY <1>0, <2>3, <2>4, <2>5 DEF Numbered, Files
  <2>7. OutIsRead'
    BY <2>1, <2>3, <2>4 DEF ConvertInv, OutIsRead, Before
  <2>8. ReadIsOut'
    BY <2>1, <2>3, <2>4 DEF ConvertInv, ReadIsOut, Before
  <2>. QED
    BY <2>1, <2>3, <2>4, <2>6, <2>7, <2>8 DEF ConvertInv
<1>3. CASE ReadLine
  <2>. DEFINE entry == logs[reading][offset + 1]
  <2>1. /\ offset < Len(logs[reading]) /\ UNCHANGED <<logs, reading, inode>>
        /\ \/ UNCHANGED <<offset, out, missed>>
           \/ /\ offset' = offset + 1
              /\ \/ out' = out /\ missed' = missed \cup {entry}
                 \/ out' = Append(out, entry) /\ missed' = missed
    BY <1>3 DEF ReadLine, Unread
  <2>2. /\ offset \in Nat /\ reading \in Nat /\ DOMAIN logs \subseteq Nat
        /\ reading \in DOMAIN logs
        /\ offset + 1 \in DOMAIN logs[reading]
        /\ \A i \in DOMAIN logs : DOMAIN logs[i] \subseteq Nat
        /\ \A i \in DOMAIN logs : \A k \in DOMAIN logs[i] : logs[i][k] \in Nat
        /\ entry \in Nat
    <3>1. /\ offset \in Nat /\ reading \in Nat /\ DOMAIN logs \subseteq Nat
          /\ reading \in DOMAIN logs
          /\ offset + 1 \in DOMAIN logs[reading]
          /\ \A i \in DOMAIN logs : DOMAIN logs[i] \subseteq Nat
      BY <1>0, <2>1, CurrentFile DEF ConvertInv
    <3>2. \A i \in DOMAIN logs : logs[i] \in Seq(Nat)
      BY <1>0, EntryOf
    <3>3. \A i \in DOMAIN logs : \A k \in DOMAIN logs[i] : logs[i][k] \in Nat
      BY <3>2
    <3>. QED
      BY <3>1, <3>3
  <2>3. \A i \in DOMAIN logs : \A k \in DOMAIN logs[i] : Before(i, k) => logs[i][k] < entry
    BY <1>0, <2>2 DEF Numbered, Before
  <2>4. offset' = offset + 1 =>
          \A i \in DOMAIN logs : \A k \in DOMAIN logs[i] :
            Before(i, k)' <=> Before(i, k) \/ (i = reading /\ k = offset + 1)
    BY <2>1, <2>2 DEF Before
  <2>5. Numbered'
    BY <1>0, <2>1 DEF Numbered, Entries
  <2>6. offset' = offset + 1 => offset' \in 0..Len(logs[reading])
    BY <1>0, <2>1, <2>2, CurrentFile
  <2>. HIDE DEF entry
  <2>7. CASE UNCHANGED <<offset, out, missed>>
    BY <2>1, <2>7, SamePlace
  <2>8. CASE offset' = offset + 1 /\ out' = out /\ missed' = missed \cup {entry}
    <3>1. OutIsRead'
      BY <2>1, <2>4, <2>8 DEF ConvertInv, OutIsRead
    <3>2. ReadIsOut'
      BY <2>1, <2>4, <2>8 DEF ConvertInv, ReadIsOut, entry
    <3>. QED
      BY <2>1, <2>2, <2>5, <2>6, <2>8, <3>1, <3>2 DEF ConvertInv
  <2>9. CASE offset' = offset + 1 /\ out' = Append(out, entry) /\ missed' = missed
    <3>1. /\ out' \in Seq(Nat) /\ DOMAIN out = 1..Len(out) /\ Len(out) \in Nat
          /\ DOMAIN out' = 1..(Len(out) + 1) /\ out'[Len(out) + 1] = entry
          /\ \A n \in DOMAIN out : out'[n] = out[n] /\ out[n] \in Nat
      BY <2>2, <2>9, OneMore DEF ConvertInv, OutIsRead
    <3>2. \A n \in DOMAIN out : out[n] < entry
      BY <2>3 DEF ConvertInv, OutIsRead
    <3>3. OutIsRead'
      <4>1. \A n, m \in DOMAIN out' : n < m => out'[n] < out'[m]
        <5>1. \A n, m \in DOMAIN out : n < m => out[n] < out[m]
          BY DEF ConvertInv, OutIsRead
        <5>2. \A n, m \in DOMAIN out' :
                n < m => n \in DOMAIN out /\ (m \in DOMAIN out \/ m = Len(out) + 1)
          BY <3>1
        <5>. QED
          BY <3>1, <3>2, <5>1, <5>2
      <4>2. \A n \in DOMAIN out' : \E i \in DOMAIN logs : \E k \in DOMAIN logs[i] :
              Before(i, k)' /\ out'[n] = logs[i][k]
        BY <2>2, <2>4, <2>9, <3>1 DEF ConvertInv, OutIsRead, entry
      <4>. QED
        BY <2>1, <3>1, <4>1, <4>2 DEF OutIsRead
    <3>4. ReadIsOut'
      <4>1. \A n \in DOMAIN out : out[n] \in ToSet(out')
        BY <3>1 DEF ToSet
      <4>2. entry \in ToSet(out')
        BY <3>1 DEF ToSet
      <4>3. CASE out = <<>>
        <5>1. out'[1] = entry
          BY <3>1, <4>3
        <5>. QED
          BY <2>1, <2>2, <2>3, <2>4, <2>9, <4>2, <5>1 DEF ReadIsOut, entry
      <4>4. CASE out # <<>>
        <5>1. out'[1] = out[1]
          BY <3>1, <4>4 DEF ConvertInv, OutIsRead
        <5>2. ToSet(out) \subseteq ToSet(out')
          BY <4>1 DEF ToSet
        <5>. QED
          BY <2>1, <2>4, <2>9, <4>2, <4>4, <5>1, <5>2 DEF ConvertInv, ReadIsOut, entry
      <4>. QED
        BY <4>3, <4>4
    <3>. QED
      BY <2>1, <2>2, <2>5, <2>6, <2>9, <3>3, <3>4 DEF ConvertInv
  <2>. QED
    BY <2>1, <2>7, <2>8, <2>9
<1>4. CASE AtEnd \/ Wake \/ UNCHANGED logVars
  BY <1>4, SamePlace DEF AtEnd, Wake, logVars, reader
<1>5. CASE CheckRotation
  <2>1. CASE UNCHANGED <<reading, inode, offset, missed>>
    BY <1>5, <2>1, SamePlace DEF CheckRotation
  <2>2. CASE /\ Current # inode /\ missed' = missed \cup LeftBehind
             /\ reading' = Current /\ inode' = OpenedInode /\ offset' = 0
    <3>1. UNCHANGED <<logs, out>>
      BY <1>5 DEF CheckRotation
    <3>2. /\ reading \in 1..Current /\ reading < Current /\ reading \in Nat /\ offset \in Nat
          /\ Current \in DOMAIN logs /\ Current \in Nat /\ DOMAIN logs = 1..Current
          /\ \A i \in DOMAIN logs : DOMAIN logs[i] = 1..Len(logs[i]) /\ Len(logs[i]) \in Nat
      BY <1>0, <2>2, CurrentFile DEF ConvertInv
    <3>3. Numbered'
      BY <1>0, <3>1 DEF Numbered, Entries
    <3>4. \A i \in DOMAIN logs : \A k \in DOMAIN logs[i] :
            /\ Before(i, k) => Before(i, k)'
            /\ Before(i, k)' => Before(i, k) \/ logs[i][k] \in LeftBehind
      <4>. SUFFICES ASSUME NEW i \in DOMAIN logs, NEW k \in DOMAIN logs[i]
                    PROVE  /\ Before(i, k) => i < Current
                           /\ i < Current => Before(i, k) \/ logs[i][k] \in LeftBehind
        BY <2>2, <3>2 DEF Before
      <4>1. ASSUME i = reading, offset < k PROVE logs[i][k] \in LeftBehind
        <5>. DEFINE rest == SubSeq(logs[reading], offset + 1, Len(logs[reading]))
        <5>1. logs[reading] \in Seq(Nat) /\ k \in 1..Len(logs[reading])
          BY <1>0, <3>2, <4>1, EntryOf
        <5>2. /\ k - offset \in DOMAIN rest /\ rest[k - offset] = logs[reading][k]
          BY <3>2, <4>1, <5>1
        <5>3. logs[i][k] \in ToSet(rest)
          BY <4>1, <5>2 DEF ToSet
        <5>. QED
          BY <5>3 DEF LeftBehind
      <4>2. ASSUME reading < i, i < Current PROVE logs[i][k] \in LeftBehind
        <5>1. i \in (reading + 1)..(Current - 1)
          BY <3>2, <4>2
        <5>2. logs[i][k] \in ToSet(logs[i])
          BY DEF ToSet
        <5>. QED
          BY <5>1, <5>2 DEF LeftBehind
      <4>. QED
        BY <3>2, <4>1, <4>2 DEF Before
    <3>5. OutIsRead'
      BY <3>1, <3>4 DEF ConvertInv, OutIsRead
    <3>6. ReadIsOut'
      BY <2>2, <3>1, <3>4 DEF ConvertInv, ReadIsOut
    <3>. QED
      BY <2>2, <3>1, <3>2, <3>3, <3>5, <3>6 DEF ConvertInv, OpenedInode
  <2>. QED
    BY <1>5, <2>1, <2>2 DEF CheckRotation
<1>6. CASE Restart
  <2>1. /\ UNCHANGED logs /\ out' = <<>> /\ reading' = Current /\ inode' = Current
        /\ offset' = 0
    BY <1>6 DEF Restart
  <2>2. Current \in DOMAIN logs /\ 0 \in 0..Len(logs[Current])
    BY <1>0, CurrentFile DEF ConvertInv
  <2>3. Numbered'
    BY <1>0, <2>1 DEF Numbered, Entries
  <2>4. OutIsRead' /\ ReadIsOut'
    BY <2>1 DEF OutIsRead, ReadIsOut
  <2>. QED
    BY <2>1, <2>2, <2>3, <2>4 DEF ConvertInv
<1>. QED
  BY <1>1, <1>2, <1>3, <1>4, <1>5, <1>6 DEF ConvertNext

\* The output has every entry from its first to its last one, once and in
\* order, but for those that were missed, over any number of rotations.
THEOREM OutputIsAlwaysInOrder == ConvertSpec => []ConvertedInOrder
<1>1. ConvertInv => ConvertedInOrder
  <2>. SUFFICES ASSUME ConvertInv PROVE ConvertedInOrder
    OBVIOUS
  <2>1. out \in Seq(Nat) /\ DOMAIN out = 1..Len(out) /\ Len(out) \in Nat
    BY DEF ConvertInv, OutIsRead
  <2>2. \A i \in 1..(Len(out) - 1) : out[i] < out[i + 1]
    BY <2>1 DEF ConvertInv, OutIsRead
  <2>3. ASSUME out # <<>>, NEW n \in Head(out)..Last(out)
        PROVE  n \in ToSet(out) \cup missed
    <3>1. /\ Head(out) = out[1] /\ Last(out) = out[Len(out)]
          /\ 1 \in DOMAIN out /\ Len(out) \in DOMAIN out
      BY <2>1, <2>3 DEF Last
    <3>2. PICK i \in DOMAIN logs : \E k \in DOMAIN logs[i] :
            Before(i, k) /\ out[Len(out)] = logs[i][k]
      BY <3>1 DEF ConvertInv, OutIsRead
    <3>3. PICK k \in DOMAIN logs[i] : Before(i, k) /\ out[Len(out)] = logs[i][k]
      BY <3>2
    <3>4. out[1] \in 1..Written /\ out[Len(out)] \in 1..Written
      BY <3>1, EntryOf DEF ConvertInv, OutIsRead
    <3>5. n \in Entries
      BY <2>3, <3>1, <3>4, EntryOf DEF ConvertInv
    <3>6. PICK j \in DOMAIN logs : \E l \in DOMAIN logs[j] : n = logs[j][l]
      BY <3>5, EntryOf DEF ConvertInv
    <3>7. PICK l \in DOMAIN logs[j] : n = logs[j][l]
      BY <3>6
    <3>8. Before(j, l)
      <4>1. logs[j][l] <= logs[i][k]
        BY <2>3, <3>1, <3>3, <3>4, <3>7
      <4>2. \A f \in DOMAIN logs : f \in Nat /\ DOMAIN logs[f] \subseteq Nat
        BY CurrentFile DEF ConvertInv
      <4>3. ~(i < j) /\ (i = j => ~(k < l))
        <5>1. /\ i < j => logs[i][k] < logs[j][l]
              /\ i = j /\ k < l => logs[i][k] < logs[j][l]
          BY DEF ConvertInv, Numbered
        <5>2. logs[i][k] \in Nat /\ logs[j][l] \in Nat
          <6>1. logs[i] \in Seq(Nat) /\ logs[j] \in Seq(Nat)
            BY EntryOf DEF ConvertInv
          <6>. QED
            BY <6>1
        <5>. QED
          BY <4>1, <5>1, <5>2
      <4>4. /\ i \in Nat /\ j \in Nat /\ k \in Nat /\ l \in Nat
            /\ reading \in Nat /\ offset \in Nat
        BY <4>2, CurrentFile DEF ConvertInv
      <4>. QED
        BY <3>3, <4>3, <4>4 DEF Before
    <3>. QED
      BY <2>3, <3>1, <3>4, <3>7, <3>8 DEF ConvertInv, ReadIsOut
  <2>. QED
    BY <2>2, <2>3 DEF ConvertedInOrder
<1>. QED
  BY <1>1, InitConvert, StepConvert, PTL DEF ConvertSpec

-----------------------------------------------------------------------------
(* Retention                                                               *)

LEMMA MaxOf ==
  ASSUME NEW N \in Nat, NEW T \in SUBSET (0..N), T # {}
  PROVE  Max(T) \in T /\ \A x \in T : x <= Max(T)
<1>. DEFINE Below == {N - x : x \in T}
<1>1. Below \in SUBSET Nat /\ Below # {}
  <2>1. \A x \in T : N - x \in Nat
    OBVIOUS
  <2>. QED
    BY <2>1
<1>2. PICK b \in Below : \A y \in Below : b <= y
  <2>. HIDE DEF Below
  <2>. QED
    BY <1>1, LeastNumber
<1>3. \E x \in T : \A y \in T : x >= y
  <2>1. PICK x \in T : b = N - x
    BY <1>2
  <2>2. ASSUME NEW y \in T PROVE x >= y
    <3>1. b <= N - y
      BY <1>2
    <3>. QED
      BY <2>1, <3>1
  <2>. QED
    BY <2>2
<1>4. Max(T) \in T /\ \A y \in T : Max(T) >= y
  BY <1>3, Zenon DEF Max
<1>. QED
  BY <1>4

LEMMA CountUpTo ==
  ASSUME NEW n \in Nat
  PROVE  Cardinality(1..n) = n
BY FS_Interval

LEMMA StampsAreFinite ==
  ASSUME NEW N \in Nat, NEW T \in SUBSET (0..N)
  PROVE  IsFiniteSet(T) /\ T \subseteq Nat
<1>1. IsFiniteSet(0..N)
  BY FS_Interval
<1>2. IsFiniteSet(T)
  BY <1>1, FS_Subset, Zenon
<1>. QED
  BY <1>2

LEMMA TierType ==
  /\ Len(Tiers) \in Nat /\ DOMAIN Tiers = 1..Len(Tiers)
  /\ \A i \in DOMAIN Tiers : Tiers[i].quota \in Nat \ {0}
<1>. DEFINE Tier == [quota : Nat \ {0}, length : Nat \ {0}]
<1>1. Tiers \in Seq(Tier)
  BY RetentionAssumption
<1>2. \A x \in Tier : x.quota \in Nat \ {0}
  OBVIOUS
<1>. HIDE DEF Tier
<1>3. /\ Len(Tiers) \in Nat /\ DOMAIN Tiers = 1..Len(Tiers)
      /\ \A i \in DOMAIN Tiers : Tiers[i] \in Tier
  BY <1>1
<1>. QED
  BY <1>2, <1>3

\* The copies of K cover a stamp in a tier: one of its bucket, and not older,
\* or as many newer buckets as are kept.
Covered(K, i, t) ==
  \/ \E u \in K : u >= t /\ Bucket(i, u) = Bucket(i, t)
  \/ Cardinality({Bucket(i, u) : u \in {v \in K : v >= t}}) >= Tiers[i].quota

\* There are as many newer stamps as tiers.
Outdated(D, t) == Cardinality({u \in D : u > t}) >= Len(Tiers)

LEMMA BucketsFinite ==
  ASSUME NEW K, IsFiniteSet(K), NEW i
  PROVE  IsFiniteSet({Bucket(i, u) : u \in K})
<1>. DEFINE f == [u \in K |-> Bucket(i, u)]
            B == {Bucket(i, u) : u \in K}
<1>1. f \in Surjection(K, B)
  BY DEF Surjection
<1>. HIDE DEF f, B
<1>2. IsFiniteSet(B)
  BY <1>1, FS_Surjection
<1>. QED
  BY <1>2 DEF B

LEMMA MoreIsCovered ==
  ASSUME NEW E, IsFiniteSet(E), E \subseteq Nat, NEW K \in SUBSET E,
         NEW i \in DOMAIN Tiers, NEW t \in Nat, Covered(K, i, t)
  PROVE  Covered(E, i, t)
<1>. DEFINE BK == {Bucket(i, u) : u \in {v \in K : v >= t}}
            BE == {Bucket(i, u) : u \in {v \in E : v >= t}}
<1>1. IsFiniteSet({v \in E : v >= t})
  BY FS_Subset
<1>2. IsFiniteSet(BE) /\ BK \in SUBSET BE
  BY <1>1, BucketsFinite
<1>. HIDE DEF BK, BE
<1>3. Cardinality(BK) <= Cardinality(BE) /\ Cardinality(BK) \in Nat /\ Cardinality(BE) \in Nat
  BY <1>2, FS_Subset, FS_CardinalityType
<1>4. Tiers[i].quota \in Nat
  BY TierType
<1>5. CASE \E u \in K : u >= t /\ Bucket(i, u) = Bucket(i, t)
  BY <1>5 DEF Covered
<1>6. CASE Cardinality(BK) >= Tiers[i].quota
  <2>1. Cardinality(BE) >= Tiers[i].quota
    BY <1>3, <1>4, <1>6
  <2>. QED
    BY <2>1 DEF Covered, BE
<1>. QED
  BY <1>5, <1>6 DEF Covered, BK

\* What is covered by D is covered by what is left of D, if that covers each
\* stamp of D which is left out.
LEMMA StillCovered ==
  ASSUME NEW D, IsFiniteSet(D), D \subseteq Nat, NEW K \in SUBSET D,
         NEW i \in DOMAIN Tiers, NEW t \in Nat, Covered(D, i, t),
         \A u \in D \ K : Covered(K, i, u)
  PROVE  Covered(K, i, t)
<1>. DEFINE BK(x) == {Bucket(i, u) : u \in {v \in K : v >= x}}
            BD == {Bucket(i, u) : u \in {v \in D : v >= t}}
<1>0. \A x \in Nat : IsFiniteSet(BK(x))
  <2>1. \A x \in Nat : IsFiniteSet({v \in K : v >= x})
    BY FS_Subset
  <2>. QED
    BY <2>1, BucketsFinite
<1>1. \A x \in Nat : x >= t => Cardinality(BK(x)) <= Cardinality(BK(t))
                             /\ Cardinality(BK(x)) \in Nat /\ Cardinality(BK(t)) \in Nat
  <2>. SUFFICES ASSUME NEW x \in Nat, x >= t
                PROVE  /\ Cardinality(BK(x)) <= Cardinality(BK(t))
                       /\ Cardinality(BK(x)) \in Nat /\ Cardinality(BK(t)) \in Nat
    OBVIOUS
  <2>1. BK(x) \in SUBSET BK(t)
    OBVIOUS
  <2>2. IsFiniteSet(BK(x)) /\ IsFiniteSet(BK(t))
    BY <1>0
  <2>. HIDE DEF BK
  <2>. QED
    BY <2>1, <2>2, FS_Subset, FS_CardinalityType
<1>2. Tiers[i].quota \in Nat
  BY TierType
\* A stamp of D that is not older than t is covered with all its successors.
<1>3. ASSUME NEW u \in D, u >= t
      PROVE  Bucket(i, u) \in BK(t) \/ Cardinality(BK(t)) >= Tiers[i].quota
  <2>1. CASE u \in K
    BY <1>3, <2>1
  <2>2. CASE u \notin K
    <3>1. Covered(K, i, u) /\ u \in Nat
      BY <2>2
    <3>2. CASE \E v \in K : v >= u /\ Bucket(i, v) = Bucket(i, u)
      BY <1>3, <3>1, <3>2
    <3>3. CASE Cardinality(BK(u)) >= Tiers[i].quota
      <4>1. Cardinality(BK(u)) <= Cardinality(BK(t))
            /\ Cardinality(BK(u)) \in Nat /\ Cardinality(BK(t)) \in Nat
        BY <1>1, <1>3, <3>1
      <4>. HIDE DEF BK
      <4>. QED
        BY <4>1, <1>2, <3>3
    <3>. QED
      BY <3>1, <3>2, <3>3 DEF Covered
  <2>. QED
    BY <2>1, <2>2
<1>4. CASE Cardinality(BK(t)) >= Tiers[i].quota
  BY <1>4 DEF Covered
<1>5. CASE ~(Cardinality(BK(t)) >= Tiers[i].quota)
  <2>1. \A u \in D : u >= t => Bucket(i, u) \in BK(t)
    BY <1>3, <1>5
  <2>2. CASE \E u \in D : u >= t /\ Bucket(i, u) = Bucket(i, t)
    <3>1. Bucket(i, t) \in BK(t)
      BY <2>1, <2>2
    <3>2. \E v \in K : v >= t /\ Bucket(i, v) = Bucket(i, t)
      BY <3>1
    <3>. QED
      BY <3>2 DEF Covered
  <2>3. CASE Cardinality(BD) >= Tiers[i].quota
    <3>1. BD = BK(t)
      BY <2>1
    <3>. QED
      BY <3>1, <2>3, <1>5
  <2>. QED
    BY <2>2, <2>3 DEF Covered
<1>. QED
  BY <1>4, <1>5

\* What prune_history may have chosen from D so far.
PruneChoices(D) ==
  [kept : SUBSET D,
   taken : [DOMAIN Tiers -> SUBSET {Bucket(i, u) : i \in DOMAIN Tiers, u \in D}]]

\* The choice with t in tier i.
TookIt(choice, new, i, t) ==
  new = [kept |-> choice.kept \cup {t},
         taken |-> [choice.taken EXCEPT ![i] = @ \cup {Bucket(i, t)}]]

LEMMA PlaceShape ==
  ASSUME NEW D, NEW choice \in PruneChoices(D), NEW t \in D
  PROVE  /\ Place(choice, t) \in PruneChoices(D)
         /\ \/ /\ Place(choice, t) = choice
               /\ \A i \in DOMAIN Tiers : ~HasRoom(i, t, choice.taken)
            \/ \E i \in DOMAIN Tiers :
                 HasRoom(i, t, choice.taken) /\ TookIt(choice, Place(choice, t), i, t)
<1>. DEFINE tiers == {i \in DOMAIN Tiers : HasRoom(i, t, choice.taken)}
<1>1. CASE tiers = {}
  <2>1. Place(choice, t) = choice
    BY <1>1 DEF Place
  <2>. QED
    BY <1>1, <2>1
<1>2. CASE tiers # {}
  <2>1. DOMAIN Tiers \subseteq Nat
    BY RetentionAssumption
  <2>2. tiers \in SUBSET Nat
    BY <2>1
  <2>. DEFINE first == Min(tiers)
  <2>3. first \in tiers
    <3>. HIDE DEF tiers
    <3>1. \E x \in tiers : \A y \in tiers : x <= y
      BY <1>2, <2>2, LeastNumber
    <3>. QED
      BY <3>1, Zenon DEF Min
  <2>4. TookIt(choice, Place(choice, t), first, t)
    BY <1>2, Zenon DEF Place, TookIt
  <2>. HIDE DEF first, tiers
  <2>5. first \in DOMAIN Tiers /\ HasRoom(first, t, choice.taken)
    BY <2>3 DEF tiers
  <2>6. Place(choice, t) \in PruneChoices(D)
    BY <2>4, <2>5 DEF TookIt, PruneChoices
  <2>. QED
    BY <2>4, <2>5, <2>6
<1>. QED
  BY <1>1, <1>2

\* What is true of the choice after n rounds through the stamps of D: the
\* buckets that are taken are those of kept stamps, each tier that has taken one
\* has a kept stamp to itself, and what was passed by is outdated and covered.
Chosen(D, last, n, choice) ==
  LET visited == {u \in D : u > last - n}
  IN /\ choice.kept \subseteq visited
     /\ \A i \in DOMAIN Tiers :
          choice.taken[i] \subseteq {Bucket(i, u) : u \in choice.kept}
     /\ \E by \in [{i \in DOMAIN Tiers : choice.taken[i] # {}} -> choice.kept] :
          IsInjective(by)
     /\ \A t \in visited \ choice.kept :
          Outdated(D, t) /\ \A i \in DOMAIN Tiers : Covered(choice.kept, i, t)

\* A stamp that no tier has room for.
LEMMA PassedBy ==
  ASSUME NEW D, IsFiniteSet(D), D \subseteq Nat, NEW choice \in PruneChoices(D), NEW t \in D,
         \A u \in choice.kept : u > t,
         \A i \in DOMAIN Tiers :
           choice.taken[i] \subseteq {Bucket(i, u) : u \in choice.kept},
         \E by \in [{i \in DOMAIN Tiers : choice.taken[i] # {}} -> choice.kept] :
           IsInjective(by),
         \A i \in DOMAIN Tiers : ~HasRoom(i, t, choice.taken)
  PROVE  Outdated(D, t) /\ \A i \in DOMAIN Tiers : Covered(choice.kept, i, t)
<1>0. /\ choice.kept \in SUBSET D /\ t \in Nat
      /\ \A u \in choice.kept : u \in Nat /\ u > t /\ u >= t
  <2>1. choice.kept \in SUBSET D /\ t \in Nat
    BY DEF PruneChoices
  <2>2. ASSUME NEW u \in choice.kept PROVE u \in Nat /\ u > t /\ u >= t
    <3>1. u \in Nat /\ u > t
      BY <2>1
    <3>. QED
      BY <2>1, <3>1
  <2>. QED
    BY <2>1, <2>2
<1>1. IsFiniteSet(choice.kept)
  BY <1>0, FS_Subset
<1>2. \A i \in DOMAIN Tiers : choice.taken[i] # {}
  <2>. SUFFICES ASSUME NEW i \in DOMAIN Tiers, choice.taken[i] = {} PROVE FALSE
    OBVIOUS
  <2>1. Cardinality(choice.taken[i]) < Tiers[i].quota
    BY FS_EmptySet, TierType
  <2>. QED
    BY <2>1 DEF HasRoom
<1>3. Outdated(D, t)
  <2>. DEFINE after == {u \in D : u > t}
  <2>1. IsFiniteSet(after) /\ choice.kept \subseteq after
    BY <1>0, FS_Subset
  <2>2. PICK by \in [DOMAIN Tiers -> choice.kept] : IsInjective(by)
    BY <1>2
  <2>3. by \in Injection(1..Len(Tiers), after)
    BY <2>1, <2>2, TierType DEF Injection
  <2>. HIDE DEF after
  <2>4. Cardinality(1..Len(Tiers)) <= Cardinality(after)
    BY <2>1, <2>3, FS_Injection
  <2>5. Cardinality(1..Len(Tiers)) = Len(Tiers)
    <3>1. Len(Tiers) \in Nat
      BY TierType
    <3>. QED
      BY <3>1, CountUpTo
  <2>6. Cardinality(after) >= Len(Tiers)
    BY <2>1, <2>4, <2>5, FS_CardinalityType, TierType
  <2>. QED
    BY <2>6 DEF Outdated, after
<1>4. ASSUME NEW i \in DOMAIN Tiers PROVE Covered(choice.kept, i, t)
  <2>1. CASE Bucket(i, t) \in choice.taken[i]
    <3>1. PICK u \in choice.kept : Bucket(i, t) = Bucket(i, u)
      BY <2>1
    <3>2. u >= t
      BY <1>0
    <3>. QED
      BY <3>1, <3>2 DEF Covered
  <2>2. CASE ~(Cardinality(choice.taken[i]) < Tiers[i].quota)
    <3>. DEFINE K == choice.kept
                B == {Bucket(i, u) : u \in {v \in K : v >= t}}
    <3>1. {v \in K : v >= t} = K
      BY <1>0
    <3>2. IsFiniteSet(B)
      BY <3>1, <1>1, BucketsFinite
    <3>3. choice.taken[i] \in SUBSET B
      BY <3>1
    <3>. HIDE DEF B
    <3>4. Cardinality(B) >= Tiers[i].quota
      BY <3>2, <3>3, <2>2, FS_Subset, FS_CardinalityType, TierType
    <3>. QED
      BY <3>4 DEF Covered, B
  <2>. QED
    BY <2>1, <2>2 DEF HasRoom
<1>. QED
  BY <1>3, <1>4

LEMMA RoundChooses ==
  ASSUME NEW last \in Nat, NEW D \in SUBSET (0..last), NEW n \in 1..(last + 1),
         NEW choice \in PruneChoices(D), Chosen(D, last, n - 1, choice)
  PROVE  Chosen(D, last, n, IF last + 1 - n \in D THEN Place(choice, last + 1 - n)
                            ELSE choice)
<1>. DEFINE t == last + 1 - n
            visited == {u \in D : u > last - n}
            before == {u \in D : u > last - (n - 1)}
<1>0. IsFiniteSet(D) /\ D \subseteq Nat /\ t \in Nat
  <2>1. last + 1 - n \in Nat
    OBVIOUS
  <2>. QED
    BY <2>1, StampsAreFinite
<1>1. visited = IF t \in D THEN before \cup {t} ELSE before
  <2>1. \A u \in D : u > last - n <=> u > last - (n - 1) \/ u = t
    OBVIOUS
  <2>. QED
    BY <2>1
<1>2. t \notin before /\ \A u \in before : u > t
  OBVIOUS
<1>3. /\ choice.kept \subseteq before
      /\ \A i \in DOMAIN Tiers :
           choice.taken[i] \subseteq {Bucket(i, u) : u \in choice.kept}
      /\ \E by \in [{i \in DOMAIN Tiers : choice.taken[i] # {}} -> choice.kept] :
           IsInjective(by)
      /\ \A v \in before \ choice.kept :
           Outdated(D, v) /\ \A i \in DOMAIN Tiers : Covered(choice.kept, i, v)
  BY DEF Chosen
<1>. HIDE DEF visited, before, t
<1>4. CASE t \notin D
  BY <1>1, <1>3, <1>4 DEF Chosen, t, visited
<1>5. ASSUME t \in D, Place(choice, t) = choice,
             \A i \in DOMAIN Tiers : ~HasRoom(i, t, choice.taken)
      PROVE  Chosen(D, last, n, choice)
  <2>1. Outdated(D, t) /\ \A i \in DOMAIN Tiers : Covered(choice.kept, i, t)
    BY <1>0, <1>2, <1>3, <1>5, PassedBy
  <2>. QED
    BY <1>1, <1>3, <1>5, <2>1 DEF Chosen, visited
<1>6. ASSUME t \in D, NEW i \in DOMAIN Tiers, HasRoom(i, t, choice.taken),
             NEW new, TookIt(choice, new, i, t)
      PROVE  Chosen(D, last, n, new)
  <2>1. /\ new.kept = choice.kept \cup {t}
        /\ DOMAIN choice.taken = DOMAIN Tiers
        /\ \A j \in DOMAIN Tiers : new.taken[j] =
             IF j = i THEN choice.taken[i] \cup {Bucket(i, t)} ELSE choice.taken[j]
    BY <1>6 DEF TookIt, PruneChoices
  <2>2. new.kept \subseteq visited
    BY <2>1, <1>1, <1>3, <1>6
  <2>3. \A j \in DOMAIN Tiers : new.taken[j] \subseteq {Bucket(j, u) : u \in new.kept}
    BY <2>1, <1>3
  <2>4. \E by \in [{j \in DOMAIN Tiers : new.taken[j] # {}} -> new.kept] : IsInjective(by)
    <3>. DEFINE Old == {j \in DOMAIN Tiers : choice.taken[j] # {}}
    <3>1. PICK by \in [Old -> choice.kept] : IsInjective(by)
      BY <1>3
    <3>2. {j \in DOMAIN Tiers : new.taken[j] # {}} = Old \cup {i}
      BY <2>1
    <3>3. t \notin choice.kept
      BY <1>2, <1>3
    <3>. DEFINE more == [j \in Old \cup {i} |-> IF j \in Old THEN by[j] ELSE t]
    <3>. HIDE DEF Old
    <3>4. more \in [Old \cup {i} -> new.kept]
      BY <2>1, <3>1
    <3>5. IsInjective(more)
      BY <3>1, <3>3 DEF IsInjective
    <3>. QED
      BY <3>2, <3>4, <3>5
  <2>5. ASSUME NEW v \in visited \ new.kept
        PROVE  Outdated(D, v) /\ \A j \in DOMAIN Tiers : Covered(new.kept, j, v)
    <3>1. v \in before \ choice.kept /\ v \in Nat
      BY <2>1, <1>0, <1>1, <1>6 DEF visited
    <3>2. IsFiniteSet(new.kept) /\ new.kept \subseteq Nat /\ choice.kept \in SUBSET new.kept
      BY <2>1, <2>2, <1>0, FS_Subset DEF visited
    <3>3. \A j \in DOMAIN Tiers : Covered(choice.kept, j, v)
      BY <3>1, <1>3
    <3>4. \A j \in DOMAIN Tiers : Covered(new.kept, j, v)
      BY <3>1, <3>2, <3>3, MoreIsCovered
    <3>. QED
      BY <3>1, <3>4, <1>3
  <2>. QED
    BY <2>2, <2>3, <2>4, <2>5 DEF Chosen, visited
<1>7. t \in D => Chosen(D, last, n, Place(choice, t))
  BY <1>5, <1>6, PlaceShape
<1>. QED
  BY <1>4, <1>7 DEF t

\* Whatever is not kept has as many newer copies as there are tiers, and each
\* tier keeps one of its bucket that is not older, or its number of buckets.
LEMMA Retained ==
  ASSUME NEW N \in Nat, NEW D \in SUBSET (0..N)
  PROVE  /\ KeptStamps(D) \in SUBSET D
         /\ \A t \in D \ KeptStamps(D) :
              Outdated(D, t) /\ \A i \in DOMAIN Tiers : Covered(KeptStamps(D), i, t)
<1>. DEFINE last == Max(D \cup {0})
            All == PruneChoices(D)
            Next1(c, n) == IF NewestFirst(n, last) \in D THEN Place(c, NewestFirst(n, last))
                           ELSE c
            Round == [n \in 1..(last + 1) |-> [c \in All |-> Next1(c, n)]]
            choice == CHOOSE f : f = [n \in 0..(last + 1) |->
                        IF n = 0 THEN NoneKept
                        ELSE IF NewestFirst(n, last) \in D
                             THEN Place(f[n - 1], NewestFirst(n, last)) ELSE f[n - 1]]
<1>1. last \in Nat /\ D \in SUBSET (0..last)
  <2>1. last \in D \cup {0} /\ \A x \in D \cup {0} : x <= last
    BY MaxOf
  <2>. HIDE DEF last
  <2>. QED
    BY <2>1
<1>. HIDE DEF last
<1>2. NoneKept \in All
  BY DEF NoneKept, PruneChoices
<1>3. ASSUME NEW c \in All, NEW n \in 1..(last + 1) PROVE Next1(c, n) \in All
  BY <1>3, PlaceShape
<1>4. Round \in [1..(last + 1) -> [All -> All]]
  <2>. HIDE DEF Next1, All
  <2>. QED
    BY <1>3
<1>5. PICK f \in [0..(last + 1) -> All] : IsLoop(f, last + 1, NoneKept, Round)
  <2>. HIDE DEF All, Round
  <2>1. last + 1 \in Nat
    BY <1>1
  <2>. QED
    BY <2>1, <1>2, <1>4, LoopExists
<1>6. f = [n \in 0..(last + 1) |-> IF n = 0 THEN NoneKept ELSE Next1(f[n - 1], n)]
  <2>. HIDE DEF Next1, All
  <2>1. ASSUME NEW n \in 0..(last + 1)
        PROVE  f[n] = IF n = 0 THEN NoneKept ELSE Next1(f[n - 1], n)
    <3>1. f[n] = IF n = 0 THEN NoneKept ELSE Round[n][f[n - 1]]
      <4>. HIDE DEF Round
      <4>. QED
        BY <1>5 DEF IsLoop
    <3>2. n # 0 => n \in 1..(last + 1) /\ n - 1 \in 0..(last + 1)
      BY <1>1
    <3>. QED
      BY <3>1, <3>2
  <2>. QED
    BY <2>1
<1>7. choice = [n \in 0..(last + 1) |->
                  IF n = 0 THEN NoneKept
                  ELSE IF NewestFirst(n, last) \in D
                       THEN Place(choice[n - 1], NewestFirst(n, last)) ELSE choice[n - 1]]
  BY <1>6, Zenon
<1>8. KeptStamps(D) = choice[last + 1].kept
  BY Zenon DEF KeptStamps, last
<1>. HIDE DEF choice, All
\* The invariant of the loop.
<1>. DEFINE Done == {n \in 0..(last + 1) : choice[n] \in All /\ Chosen(D, last, n, choice[n])}
<1>9. 0 \in Done
  <2>1. choice[0] = NoneKept
    BY <1>1, <1>7
  <2>2. Chosen(D, last, 0, NoneKept)
    <3>1. {u \in D : u > last - 0} = {}
      <4>1. \A u \in D : ~(u > last - 0)
        BY <1>1
      <4>. QED
        BY <4>1
    <3>2. [x \in {} |-> x] \in [{} -> {}] /\ IsInjective([x \in {} |-> x])
      BY DEF IsInjective
    <3>3. {i \in DOMAIN Tiers : NoneKept.taken[i] # {}} = {} /\ NoneKept.kept = {}
      BY DEF NoneKept
    <3>4. \A i \in DOMAIN Tiers : NoneKept.taken[i] = {}
      BY DEF NoneKept
    <3>. QED
      BY <3>1, <3>2, <3>3, <3>4 DEF Chosen
  <2>. QED
    BY <2>1, <2>2, <1>1, <1>2
<1>10. ASSUME NEW n \in 1..(last + 1), n - 1 \in Done PROVE n \in Done
  <2>1. choice[n] = IF last + 1 - n \in D THEN Place(choice[n - 1], last + 1 - n)
                    ELSE choice[n - 1]
    <3>1. n \in 0..(last + 1) /\ n # 0
      BY <1>1
    <3>. QED
      BY <3>1, <1>7 DEF NewestFirst
  <2>2. choice[n - 1] \in All /\ Chosen(D, last, n - 1, choice[n - 1])
    BY <1>10
  <2>3. choice[n] \in All
    BY <2>1, <2>2, PlaceShape DEF All
  <2>4. Chosen(D, last, n, choice[n])
    BY <1>1, <2>1, <2>2, RoundChooses DEF All
  <2>. QED
    BY <2>3, <2>4
<1>11. last + 1 \in Done
  <2>. HIDE DEF Done
  <2>1. 0..(last + 1) \subseteq Done
    BY <1>1, <1>9, <1>10, UpTo
  <2>. QED
    BY <1>1, <2>1
<1>12. {u \in D : u > last - (last + 1)} = D
  <2>1. \A u \in D : u > last - (last + 1)
    BY <1>1
  <2>. QED
    BY <2>1
<1>. QED
  BY <1>8, <1>11, <1>12 DEF Chosen

-----------------------------------------------------------------------------
(* NightlyBackup                                                           *)

Copies == {None, Torn, Whole}
JobSteps == {"idle", "probe", "local", "pcloud", "mirrors", "dated", "hook", "prune", "summary"}

NightTypes ==
  /\ today \in Nat
  /\ job \in [at : JobSteps, stamp : Int, next : DOMAIN Order, bad : BOOLEAN,
              failed : SUBSET Services, reachable : BOOLEAN, told : Nat \cup {None}]
  /\ job.stamp >= -1 /\ (job.at # "idle" => job.stamp \in Nat)
  /\ local \in [Services -> Copies]
  /\ mirrors \in [Places -> [Services -> Copies]]
  /\ DOMAIN dated \in SUBSET (0..job.stamp)
  /\ \A t \in DOMAIN dated : dated[t] \in [Services -> Copies]
  /\ made \in SUBSET Nat
  /\ warnings \in [Services -> Nat \cup {None}]

\* A run says of a service it has done that it is backed up only if it is.
Sound(s) == s \notin job.failed /\ ~(job.bad /\ s = Service)

Handled(s) ==
  \E k \in DOMAIN Order :
    /\ s = Order[k]
    /\ \/ k < job.next
       \/ job.at \in {"prune", "summary"}
       \/ k = job.next /\ job.at = "hook"

BackedUp(s) ==
  /\ mirrors["pcloud"][s] = Whole
  /\ s \in Dated => job.stamp \in DOMAIN dated /\ dated[job.stamp][s] = Whole

\* What the step of a run may rely on.
OnTheWay ==
  /\ job.at = "pcloud" /\ ~job.bad => local[Service] = Whole
  /\ job.at \in {"mirrors", "dated"} /\ ~job.bad =>
       local[Service] = Whole /\ mirrors["pcloud"][Service] = Whole
  /\ job.at \in {"idle", "probe", "local", "prune", "summary"} => ~job.bad
  /\ job.at \in {"idle", "probe"} => job.failed = {} /\ job.next = 1

\* The copies that are newer than t, without that of the run.
NewerThan(t) == {u \in DOMAIN dated : u > t /\ ~(job.at # "idle" /\ u = job.stamp)}

\* There is a whole copy with at most as many newer ones as runs that have not
\* backed the service up.
StillWhole(s) ==
  \E t \in DOMAIN dated :
    /\ dated[t][s] = Whole /\ (job.at # "idle" => t < job.stamp)
    /\ Cardinality(NewerThan(t)) <= warnings[s]

\* A run that has pruned already may have taken one more away.
Allowed == IF job.at = "summary" THEN Len(Tiers) - 1 ELSE Len(Tiers)

NightInv ==
  /\ NightTypes /\ OnTheWay
  /\ \A t \in made, i \in DOMAIN Tiers : Covered(DOMAIN dated, i, t)
  /\ job.at # "idle" => \A s \in Services : Handled(s) /\ Sound(s) => BackedUp(s)
  /\ \A s \in Services \ Dated :
       warnings[s] # None /\ warnings[s] = 0 /\ Sound(s) => mirrors["pcloud"][s] = Whole
  /\ \A s \in Services \cap Dated :
       warnings[s] # None /\ warnings[s] < Allowed => StillWhole(s)

LEMMA OrderType ==
  /\ Len(Order) \in Nat \ {0} /\ DOMAIN Order = 1..Len(Order)
  /\ \A k \in DOMAIN Order : Order[k] \in Services
  /\ \A s \in Services : \E k \in DOMAIN Order : s = Order[k]
BY OrderAssumption DEF Services, Range

LEMMA UpToStamp ==
  ASSUME NEW n \in Int, n >= -1, NEW D \in SUBSET (0..n)
  PROVE  IsFiniteSet(D) /\ D \subseteq Nat
<1>1. CASE n \in Nat
  BY <1>1, StampsAreFinite
<1>2. CASE n = -1
  <2>1. 0..n = {}
    BY <1>2
  <2>2. D = {}
    BY <2>1
  <2>. QED
    BY <2>2, FS_EmptySet
<1>. QED
  BY <1>1, <1>2

LEMMA DatedType ==
  /\ NightTypes => IsFiniteSet(DOMAIN dated) /\ DOMAIN dated \subseteq Nat
  /\ NightTypes' => IsFiniteSet(DOMAIN dated') /\ DOMAIN dated' \subseteq Nat
<1>1. NightTypes => /\ job.stamp \in Int /\ job.stamp >= -1
                    /\ DOMAIN dated \in SUBSET (0..job.stamp)
  BY DEF NightTypes
<1>2. NightTypes' => /\ job'.stamp \in Int /\ job'.stamp >= -1
                     /\ DOMAIN dated' \in SUBSET (0..job'.stamp)
  BY DEF NightTypes
<1>. QED
  BY <1>1, <1>2, UpToStamp

LEMMA InitNight == NightlyInit => NightInv
<1>. SUFFICES ASSUME NightlyInit PROVE NightInv
  OBVIOUS
<1>1. /\ today = 0 /\ local = NoCopy /\ mirrors = [p \in Places |-> NoCopy]
      /\ dated = <<>> /\ made = {} /\ warnings = [s \in Services |-> None]
      /\ job = Idle(-1, None)
  BY DEF NightlyInit
<1>2. DOMAIN dated = {}
  BY <1>1
<1>3. NightTypes
  BY <1>1, <1>2, OrderType DEF NightTypes, Idle, NoCopy, Copies, JobSteps
<1>4. OnTheWay /\ job.at = "idle"
  BY <1>1 DEF OnTheWay, Idle
<1>. QED
  BY <1>1, <1>3, <1>4 DEF NightInv

\* As long as a run works on its services, no copy but its own changes.
LEMMA StaysWhole ==
  ASSUME NightInv, NightTypes', UNCHANGED warnings,
         job.at \notin {"idle", "summary"}, job'.at \notin {"idle", "summary"},
         job'.stamp = job.stamp, DOMAIN dated' \subseteq DOMAIN dated \cup {job.stamp},
         \A t \in DOMAIN dated : t < job.stamp => t \in DOMAIN dated' /\ dated'[t] = dated[t]
  PROVE  \A s \in Services \cap Dated :
           warnings'[s] # None /\ warnings'[s] < Allowed' => StillWhole(s)'
<1>. SUFFICES ASSUME NEW s \in Services \cap Dated, warnings[s] # None, warnings[s] < Len(Tiers)
              PROVE  StillWhole(s)'
  BY DEF Allowed
<1>1. PICK t \in DOMAIN dated : /\ dated[t][s] = Whole /\ t < job.stamp
                                /\ Cardinality(NewerThan(t)) <= warnings[s]
  BY DEF NightInv, StillWhole, Allowed
<1>2. NewerThan(t)' \in SUBSET NewerThan(t)
  BY DEF NewerThan
<1>3. IsFiniteSet(NewerThan(t))
  <2>1. NewerThan(t) \in SUBSET DOMAIN dated
    BY DEF NewerThan
  <2>. QED
    BY <2>1, DatedType, FS_Subset DEF NightInv
<1>4. Cardinality(NewerThan(t)') <= warnings[s]
  <2>1. warnings[s] \in Nat
    BY DEF NightInv, NightTypes
  <2>2. /\ Cardinality(NewerThan(t)') <= Cardinality(NewerThan(t))
        /\ Cardinality(NewerThan(t)') \in Nat /\ Cardinality(NewerThan(t)) \in Nat
    BY <1>2, <1>3, FS_Subset, FS_CardinalityType
  <2>. QED
    BY <1>1, <2>1, <2>2
<1>. QED
  BY <1>1, <1>4 DEF StillWhole

LEMMA StillReaches ==
  ASSUME NightInv, NightTypes', UNCHANGED made, DOMAIN dated \subseteq DOMAIN dated'
  PROVE  \A t \in made', i \in DOMAIN Tiers : Covered(DOMAIN dated', i, t)
<1>1. IsFiniteSet(DOMAIN dated') /\ DOMAIN dated' \subseteq Nat
  BY DatedType
<1>. QED
  BY <1>1, MoreIsCovered DEF NightInv, NightTypes

\* A step of the run for one service: it spoils the copies of this one only,
\* and only with a verdict to that effect.
WorksOnService ==
  /\ job.at \in {"local", "pcloud", "mirrors", "dated"}
  /\ job'.at \in {"pcloud", "mirrors", "dated", "hook"}
  /\ job'.stamp = job.stamp /\ job'.next = job.next /\ job'.failed = job.failed
  /\ (job.bad => job'.bad) /\ warnings' = warnings
  /\ \A s \in Services \ {Service} : mirrors'["pcloud"][s] = mirrors["pcloud"][s]
  /\ ~job'.bad => mirrors'["pcloud"][Service] \in {mirrors["pcloud"][Service], Whole}
  /\ DOMAIN dated \subseteq DOMAIN dated'
  /\ DOMAIN dated' \subseteq DOMAIN dated \cup {job.stamp}
  /\ \A t \in DOMAIN dated : t < job.stamp => dated'[t] = dated[t]
  /\ job.stamp \in DOMAIN dated =>
       \A s \in Services :
         \/ dated'[job.stamp][s] = dated[job.stamp][s]
         \/ s = Service /\ (job'.bad \/ dated'[job.stamp][s] = Whole)
  /\ job'.at = "hook" /\ ~job'.bad => BackedUp(Service)'
  /\ made' \subseteq made \cup DOMAIN dated'

LEMMA WithinService ==
  ASSUME NightInv, NightTypes', OnTheWay', WorksOnService
  PROVE  NightInv'
<1>0. NightTypes
  BY DEF NightInv
<1>1. Service' = Service
  BY DEF Service, WorksOnService
<1>2. \A s \in Services : Sound(s)' => Sound(s)
  BY <1>1 DEF Sound, WorksOnService
<1>3. \A t \in made', i \in DOMAIN Tiers : Covered(DOMAIN dated', i, t)
  <2>. SUFFICES ASSUME NEW t \in made', NEW i \in DOMAIN Tiers
                PROVE  Covered(DOMAIN dated', i, t)
    OBVIOUS
  <2>1. IsFiniteSet(DOMAIN dated') /\ DOMAIN dated' \subseteq Nat
    BY DatedType
  <2>2. CASE t \in DOMAIN dated'
    BY <2>1, <2>2 DEF Covered
  <2>3. CASE t \in made
    BY <1>0, <2>1, <2>3, MoreIsCovered DEF NightInv, NightTypes, WorksOnService
  <2>. QED
    BY <2>2, <2>3 DEF WorksOnService
<1>4. ASSUME NEW s \in Services, Handled(s)', Sound(s)' PROVE BackedUp(s)'
  <2>1. Sound(s)
    BY <1>2, <1>4
  <2>2. CASE Handled(s)
    <3>1. BackedUp(s)
      BY <2>1, <2>2 DEF NightInv, WorksOnService
    <3>2. s = Service => ~job'.bad
      BY <1>1, <1>4 DEF Sound
    <3>3. mirrors'["pcloud"][s] = Whole
      BY <3>1, <3>2 DEF BackedUp, WorksOnService
    <3>4. s \in Dated => job.stamp \in DOMAIN dated' /\ dated'[job.stamp][s] = Whole
      BY <3>1, <3>2 DEF BackedUp, WorksOnService
    <3>. QED
      BY <3>3, <3>4 DEF BackedUp, WorksOnService
  <2>3. CASE ~Handled(s)
    <3>1. s = Service /\ job'.at = "hook"
      BY <1>4, <2>3 DEF Handled, Service, WorksOnService
    <3>. QED
      BY <3>1, <1>1, <1>4 DEF Sound, WorksOnService
  <2>. QED
    BY <2>2, <2>3
<1>5. ASSUME NEW s \in Services \ Dated, warnings[s] # None, warnings[s] = 0, Sound(s)'
      PROVE  mirrors'["pcloud"][s] = Whole
  <2>1. mirrors["pcloud"][s] = Whole
    BY <1>2, <1>5 DEF NightInv
  <2>2. s = Service => ~job'.bad
    BY <1>1, <1>5 DEF Sound
  <2>. QED
    BY <2>1, <2>2 DEF WorksOnService
<1>6. \A s \in Services \cap Dated :
        warnings'[s] # None /\ warnings'[s] < Allowed' => StillWhole(s)'
  BY <1>0, StaysWhole DEF WorksOnService
<1>. QED
  BY <1>3, <1>4, <1>5, <1>6 DEF NightInv, WorksOnService

LEMMA StepServices ==
  ASSUME NightInv,
         Probe \/ ToLocal \/ ToPcloud \/ ToMirrors \/ ToHistory \/ NoHistory \/ EndService
  PROVE  NightInv'
<1>0. NightTypes /\ OnTheWay
  BY DEF NightInv
<1>1. CASE Probe
  <2>1. /\ job.at = "probe" /\ UNCHANGED <<today, local, mirrors, dated, made, warnings>>
        /\ \E r \in BOOLEAN : job' = [job EXCEPT !.at = "local", !.reachable = r]
    <3>1. job.reachable \in BOOLEAN /\ job = [job EXCEPT !.reachable = job.reachable]
      BY <1>0 DEF NightTypes
    <3>2. CASE job' = [job EXCEPT !.at = "local", !.reachable = TRUE]
      BY <1>1, <3>2 DEF Probe
    <3>3. CASE job' = [job EXCEPT !.at = "local"]
      <4>1. job' = [job EXCEPT !.at = "local", !.reachable = job.reachable]
        BY <1>0, <3>3 DEF NightTypes
      <4>. QED
        BY <1>1, <3>1, <4>1 DEF Probe
    <3>. QED
      BY <1>1, <3>2, <3>3 DEF Probe
  <2>2. /\ job'.at = "local" /\ job'.stamp = job.stamp /\ job'.next = job.next
        /\ job'.bad = job.bad /\ job'.failed = job.failed
    BY <1>0, <2>1 DEF NightTypes
  <2>3. NightTypes'
    BY <1>0, <2>1 DEF NightTypes, JobSteps
  <2>4. OnTheWay'
    BY <1>0, <2>1, <2>2 DEF OnTheWay
  <2>5. \A t \in made', i \in DOMAIN Tiers : Covered(DOMAIN dated', i, t)
    BY <2>1, <2>3, StillReaches
  <2>6. \A s \in Services : ~Handled(s)'
    BY <1>0, <2>1, <2>2, OrderType DEF OnTheWay, Handled
  <2>7. \A s \in Services : Sound(s)' <=> Sound(s)
    BY <2>2 DEF Sound, Service
  <2>8. \A s \in Services \cap Dated :
          warnings'[s] # None /\ warnings'[s] < Allowed' => StillWhole(s)'
    BY <2>1, <2>2, <2>3, StaysWhole
  <2>. QED
    BY <2>1, <2>3, <2>4, <2>5, <2>6, <2>7, <2>8 DEF NightInv
<1>2. CASE ToLocal
  <2>1. PICK copy \in Copies, bad \in BOOLEAN, at \in {"pcloud", "dated"} :
          /\ local' = [local EXCEPT ![Service] = copy]
          /\ job' = [job EXCEPT !.bad = bad, !.at = at]
          /\ bad \/ (~job.bad /\ bad = job.bad /\ at = "pcloud" /\ copy = Whole)
    <3>1. Service \in Services
      BY <1>0, OrderType DEF NightTypes, Service
    <3>2. local[Service] \in Copies /\ job.bad = FALSE
      BY <1>0, <1>2, <3>1 DEF NightTypes, OnTheWay, ToLocal
    <3>3. CASE /\ local' = [local EXCEPT ![Service] = Whole]
               /\ job' = [job EXCEPT !.at = "pcloud"]
      <4>1. job' = [job EXCEPT !.bad = FALSE, !.at = "pcloud"]
        BY <1>0, <3>2, <3>3 DEF NightTypes
      <4>. QED
        BY <3>2, <3>3, <4>1 DEF Copies
    <3>4. CASE /\ \E copy \in {local[Service], Torn} :
                    local' = [local EXCEPT ![Service] = copy]
               /\ job' = [job EXCEPT !.bad = TRUE,
                              !.at = IF Service \in Hooked /\ local'[Service] # None
                                     THEN "pcloud" ELSE "dated"]
      <4>1. PICK copy \in Copies : local' = [local EXCEPT ![Service] = copy]
        BY <3>2, <3>4 DEF Copies
      <4>. QED
        BY <3>4, <4>1
    <3>. QED
      BY <1>2, <3>3, <3>4 DEF ToLocal
  <2>2. job.at = "local" /\ UNCHANGED <<today, mirrors, dated, made, warnings>>
    BY <1>2 DEF ToLocal
  <2>3. /\ job'.at = at /\ job'.bad = bad /\ job'.stamp = job.stamp /\ job'.next = job.next
        /\ job'.failed = job.failed /\ Service' = Service
    BY <1>0, <2>1 DEF NightTypes, Service
  <2>4. NightTypes'
    BY <1>0, <2>1, <2>2 DEF NightTypes, JobSteps
  <2>5. bad \/ local'[Service] = Whole
    BY <1>0, <2>1, OrderType DEF NightTypes, Service
  <2>6. OnTheWay'
    BY <2>1, <2>3, <2>5 DEF OnTheWay
  <2>. QED
    <3>1. job.bad => job'.bad
      BY <1>0, <2>2 DEF OnTheWay
    <3>2. WorksOnService
      BY <2>1, <2>2, <2>3, <3>1 DEF WorksOnService
    <3>. QED
      BY <2>4, <2>6, <3>2, WithinService
<1>3. CASE ToPcloud
  <2>1. PICK copy \in Copies, bad \in BOOLEAN, at \in {"mirrors", "dated"} :
          /\ mirrors' = [mirrors EXCEPT !["pcloud"][Service] = copy]
          /\ job' = [job EXCEPT !.bad = bad, !.at = at]
          /\ bad \/ (bad = job.bad /\ copy = local[Service])
    <3>1. Service \in Services
      BY <1>0, OrderType DEF NightTypes, Service
    <3>2. local[Service] \in Copies /\ mirrors["pcloud"][Service] \in Copies
          /\ job.bad \in BOOLEAN
      BY <1>0, <3>1 DEF NightTypes, Places
    <3>3. CASE /\ mirrors' = [mirrors EXCEPT !["pcloud"][Service] = local[Service]]
               /\ job' = [job EXCEPT !.at = "mirrors"]
      <4>1. job' = [job EXCEPT !.bad = job.bad, !.at = "mirrors"]
        BY <1>0, <3>3 DEF NightTypes
      <4>. QED
        BY <3>2, <3>3, <4>1
    <3>4. CASE /\ \E copy \in {mirrors["pcloud"][Service], Torn} :
                    mirrors' = [mirrors EXCEPT !["pcloud"][Service] = copy]
               /\ job' = [job EXCEPT !.bad = TRUE, !.at = "dated"]
      <4>1. PICK copy \in Copies : mirrors' = [mirrors EXCEPT !["pcloud"][Service] = copy]
        BY <3>2, <3>4 DEF Copies
      <4>. QED
        BY <3>4, <4>1
    <3>. QED
      BY <1>3, <3>3, <3>4 DEF ToPcloud
  <2>2. job.at = "pcloud" /\ UNCHANGED <<today, local, dated, made, warnings>>
    BY <1>3 DEF ToPcloud
  <2>3. /\ job'.at = at /\ job'.bad = bad /\ job'.stamp = job.stamp /\ job'.next = job.next
        /\ job'.failed = job.failed /\ Service' = Service
    BY <1>0, <2>1 DEF NightTypes, Service
  <2>4. NightTypes'
    BY <1>0, <2>1, <2>2 DEF NightTypes, JobSteps, Places
  <2>5. /\ mirrors'["pcloud"][Service] = copy
        /\ \A s \in Services \ {Service} : mirrors'["pcloud"][s] = mirrors["pcloud"][s]
    BY <1>0, <2>1, OrderType DEF NightTypes, Service, Places
  <2>6. bad \/ (copy = Whole /\ local[Service] = Whole)
    BY <1>0, <2>1, <2>2 DEF OnTheWay
  <2>7. OnTheWay'
    BY <2>1, <2>2, <2>3, <2>5, <2>6 DEF OnTheWay
  <2>. QED
    <3>1. job.bad => job'.bad
      BY <2>1, <2>3
    <3>2. WorksOnService
      BY <2>1, <2>2, <2>3, <2>5, <2>6, <3>1 DEF WorksOnService
    <3>. QED
      BY <2>4, <2>7, <3>2, WithinService
<1>4. CASE ToMirrors
  <2>1. PICK failing \in SUBSET {"wd", "ugreen"} :
          mirrors' = [p \in Places |->
            [mirrors[p] EXCEPT ![Service] =
               IF p \in failing THEN Torn
               ELSE IF p \in {"wd"} \cup IF job.reachable THEN {"ugreen"} ELSE {} THEN local[Service]
               ELSE @]]
    <3>. DEFINE tried == {"wd"} \cup IF job.reachable THEN {"ugreen"} ELSE {}
    <3>1. PICK failing \in SUBSET tried :
            mirrors' = [p \in Places |->
              [mirrors[p] EXCEPT ![Service] = IF p \in failing THEN Torn
                                              ELSE IF p \in tried THEN local[Service]
                                              ELSE @]]
      BY <1>4 DEF ToMirrors
    <3>. QED
      BY <3>1
  <2>2. /\ job.at = "mirrors" /\ job' = [job EXCEPT !.at = "dated"]
        /\ UNCHANGED <<today, local, dated, made, warnings>>
    BY <1>4 DEF ToMirrors
  <2>3. /\ job'.at = "dated" /\ job'.bad = job.bad /\ job'.stamp = job.stamp
        /\ job'.next = job.next /\ job'.failed = job.failed /\ Service' = Service
    BY <1>0, <2>2 DEF NightTypes, Service
  <2>4. Service \in Services /\ local[Service] \in Copies
    BY <1>0, OrderType DEF NightTypes, Service
  <2>5. mirrors' \in [Places -> [Services -> Copies]]
    BY <1>0, <2>1, <2>4 DEF NightTypes, Copies
  <2>6. NightTypes'
    BY <1>0, <2>2, <2>5 DEF NightTypes, JobSteps
  <2>7. \A s \in Services : mirrors'["pcloud"][s] = mirrors["pcloud"][s]
    BY <1>0, <2>1, <2>4 DEF NightTypes, Places
  <2>8. OnTheWay'
    BY <1>0, <2>2, <2>3, <2>4, <2>7 DEF OnTheWay
  <2>. QED
    <3>1. WorksOnService
      BY <2>2, <2>3, <2>4, <2>7 DEF WorksOnService
    <3>. QED
      BY <2>6, <2>8, <3>1, WithinService
<1>5. CASE ToHistory
  <2>1. PICK copy \in Copies, bad \in BOOLEAN :
          /\ dated' = dated \/ dated' = DatedCopy(copy)
          /\ job' = [job EXCEPT !.bad = bad, !.at = "hook"]
          /\ bad \/ (bad = job.bad /\ copy = local[Service] /\ dated' = DatedCopy(copy))
    <3>1. Service \in Services
      BY <1>0, OrderType DEF NightTypes, Service
    <3>2. local[Service] \in Copies /\ job.bad \in BOOLEAN /\ Torn \in Copies
      BY <1>0, <3>1 DEF NightTypes, Copies
    <3>3. CASE /\ dated' = DatedCopy(local[Service])
               /\ job' = [job EXCEPT !.at = "hook"]
      <4>1. job' = [job EXCEPT !.bad = job.bad, !.at = "hook"]
        BY <1>0, <3>3 DEF NightTypes
      <4>. QED
        BY <3>2, <3>3, <4>1
    <3>4. CASE /\ dated' \in {dated, DatedCopy(Torn)}
               /\ job' = [job EXCEPT !.bad = TRUE, !.at = "hook"]
      BY <3>2, <3>4
    <3>. QED
      BY <1>5, <3>3, <3>4 DEF ToHistory
  <2>2. /\ job.at = "dated" /\ Service \in Dated /\ made' = made \cup DOMAIN dated'
        /\ UNCHANGED <<today, local, mirrors, warnings>>
    BY <1>5 DEF ToHistory
  <2>3. /\ job'.at = "hook" /\ job'.bad = bad /\ job'.stamp = job.stamp
        /\ job'.next = job.next /\ job'.failed = job.failed /\ Service' = Service
    BY <1>0, <2>1 DEF NightTypes, Service
  <2>4. Service \in Services /\ job.stamp \in Nat
    BY <1>0, <2>2, OrderType DEF NightTypes, Service
  <2>5. ASSUME dated' = DatedCopy(copy)
        PROVE  /\ DOMAIN dated' = DOMAIN dated \cup {job.stamp}
               /\ \A t \in DOMAIN dated : t # job.stamp => dated'[t] = dated[t]
               /\ dated'[job.stamp] \in [Services -> Copies]
               /\ dated'[job.stamp][Service] = copy
               /\ job.stamp \in DOMAIN dated =>
                    \A s \in Services \ {Service} :
                      dated'[job.stamp][s] = dated[job.stamp][s]
    <3>. DEFINE before == IF job.stamp \in DOMAIN dated THEN dated[job.stamp] ELSE NoCopy
    <3>1. before \in [Services -> Copies]
      BY <1>0 DEF NightTypes, NoCopy, Copies
    <3>2. dated' = [t \in DOMAIN dated \cup {job.stamp} |->
                      IF t = job.stamp THEN [before EXCEPT ![Service] = copy] ELSE dated[t]]
      BY <2>5 DEF DatedCopy
    <3>3. /\ DOMAIN dated' = DOMAIN dated \cup {job.stamp}
          /\ \A t \in DOMAIN dated : t # job.stamp => dated'[t] = dated[t]
          /\ dated'[job.stamp] = [before EXCEPT ![Service] = copy]
      <4>. HIDE DEF before
      <4>. QED
        BY <3>2
    <3>4. job.stamp \in DOMAIN dated => before = dated[job.stamp]
      OBVIOUS
    <3>. HIDE DEF before
    <3>. QED
      BY <2>1, <2>4, <3>1, <3>3, <3>4
  <2>6. /\ DOMAIN dated \subseteq DOMAIN dated'
        /\ DOMAIN dated' \subseteq DOMAIN dated \cup {job.stamp}
        /\ \A t \in DOMAIN dated : t < job.stamp => dated'[t] = dated[t]
        /\ \A t \in DOMAIN dated' : dated'[t] \in [Services -> Copies]
        /\ job.stamp \in DOMAIN dated =>
             \A s \in Services :
               \/ dated'[job.stamp][s] = dated[job.stamp][s]
               \/ s = Service /\ dated'[job.stamp][s] = copy
    <3>1. CASE dated' = dated
      BY <1>0, <3>1 DEF NightTypes
    <3>2. CASE dated' = DatedCopy(copy)
      BY <1>0, <2>4, <2>5, <3>2 DEF NightTypes
    <3>. QED
      BY <2>1, <3>1, <3>2
  <2>7. NightTypes'
    <3>1. DOMAIN dated' \in SUBSET (0..job'.stamp)
      BY <1>0, <2>3, <2>4, <2>6 DEF NightTypes
    <3>2. made' \in SUBSET Nat
      <4>1. DOMAIN dated' \subseteq Nat
        BY <2>3, <2>4, <3>1
      <4>. QED
        BY <1>0, <2>2, <4>1 DEF NightTypes
    <3>3. job' \in [at : JobSteps, stamp : Int, next : DOMAIN Order, bad : BOOLEAN,
              failed : SUBSET Services, reachable : BOOLEAN, told : Nat \cup {None}]
      BY <1>0, <2>1 DEF NightTypes, JobSteps
    <3>. QED
      BY <1>0, <2>2, <2>3, <2>4, <2>6, <3>1, <3>2, <3>3 DEF NightTypes
  <2>8. OnTheWay'
    BY <2>3 DEF OnTheWay
  <2>9. bad \/ (/\ copy = Whole /\ dated' = DatedCopy(copy)
                /\ mirrors["pcloud"][Service] = Whole)
    BY <1>0, <2>1, <2>2 DEF OnTheWay
  <2>10. ~job'.bad => BackedUp(Service)'
    BY <2>2, <2>3, <2>5, <2>9 DEF BackedUp
  <2>. QED
    <3>1. job.bad => job'.bad
      BY <2>1, <2>3
    <3>2. WorksOnService
      BY <2>2, <2>3, <2>6, <2>9, <2>10, <3>1 DEF WorksOnService
    <3>. QED
      BY <2>7, <2>8, <3>2, WithinService
<1>6. CASE NoHistory
  <2>1. /\ job.at = "dated" /\ job' = [job EXCEPT !.at = "hook"] /\ Service \notin Dated
        /\ UNCHANGED <<today, local, mirrors, dated, made, warnings>>
    BY <1>6 DEF NoHistory
  <2>2. /\ job'.at = "hook" /\ job'.bad = job.bad /\ job'.stamp = job.stamp
        /\ job'.next = job.next /\ job'.failed = job.failed /\ Service' = Service
    BY <1>0, <2>1 DEF NightTypes, Service
  <2>3. NightTypes'
    BY <1>0, <2>1 DEF NightTypes, JobSteps
  <2>4. OnTheWay'
    BY <2>2 DEF OnTheWay
  <2>5. ~job'.bad => BackedUp(Service)'
    BY <1>0, <2>1, <2>2 DEF OnTheWay, BackedUp
  <2>. QED
    <3>1. WorksOnService
      BY <2>1, <2>2, <2>5 DEF WorksOnService
    <3>. QED
      BY <2>3, <2>4, <3>1, WithinService
<1>7. CASE EndService
  <2>1. PICK removed \in BOOLEAN :
          /\ local' = local \/ local' = [local EXCEPT ![Service] = None]
          /\ job' = [job EXCEPT !.failed = Counted(job.bad \/ ~removed), !.bad = FALSE,
                                !.at = IF job.next = Len(Order) THEN "prune" ELSE "local",
                                !.next = IF job.next = Len(Order) THEN @ ELSE @ + 1]
    BY <1>7 DEF EndService
  <2>2. job.at = "hook" /\ UNCHANGED <<today, mirrors, dated, made, warnings>>
    BY <1>7 DEF EndService
  <2>3. Service \in Services /\ job.next \in DOMAIN Order
    BY <1>0, OrderType DEF NightTypes, Service
  <2>4. /\ job'.failed = Counted(job.bad \/ ~removed) /\ job'.bad = FALSE
        /\ job'.at = IF job.next = Len(Order) THEN "prune" ELSE "local"
        /\ job'.next = IF job.next = Len(Order) THEN job.next ELSE job.next + 1
        /\ job'.stamp = job.stamp /\ job'.reachable = job.reachable /\ job'.told = job.told
    BY <1>0, <2>1 DEF NightTypes
  <2>5. NightTypes'
    <3>1. job'.failed \in SUBSET Services
      BY <1>0, <2>3, <2>4 DEF NightTypes, Counted
    <3>2. job'.next \in DOMAIN Order
      BY <2>3, <2>4, OrderType
    <3>3. job' \in [at : JobSteps, stamp : Int, next : DOMAIN Order, bad : BOOLEAN,
              failed : SUBSET Services, reachable : BOOLEAN, told : Nat \cup {None}]
      BY <1>0, <2>1, <2>4, <3>1, <3>2 DEF NightTypes, JobSteps
    <3>4. local' \in [Services -> Copies]
      BY <1>0, <2>1, <2>3 DEF NightTypes, Copies
    <3>. QED
      BY <1>0, <2>2, <2>4, <3>3, <3>4 DEF NightTypes
  <2>6. OnTheWay'
    BY <2>4 DEF OnTheWay
  <2>7. \A t \in made', i \in DOMAIN Tiers : Covered(DOMAIN dated', i, t)
    BY <2>2, <2>5, StillReaches
  <2>8. \A s \in Services : Sound(s)' => Sound(s)
    BY <2>4 DEF Sound, Counted
  <2>9. ASSUME NEW s \in Services, Handled(s)' PROVE Handled(s)
    <3>1. PICK k \in DOMAIN Order :
            s = Order[k] /\ (k < job'.next \/ job'.at = "prune")
      BY <2>4, <2>9 DEF Handled
    <3>2. k <= job.next
      BY <2>3, <2>4, <3>1, OrderType
    <3>. QED
      BY <2>2, <2>3, <3>1, <3>2, OrderType DEF Handled
  <2>10. \A s \in Services : BackedUp(s) => BackedUp(s)'
    BY <2>2, <2>4 DEF BackedUp
  <2>11. \A s \in Services \cap Dated :
           warnings'[s] # None /\ warnings'[s] < Allowed' => StillWhole(s)'
    BY <2>2, <2>4, <2>5, StaysWhole
  <2>12. \A s \in Services \ Dated :
           warnings[s] # None /\ warnings[s] = 0 /\ Sound(s)' => mirrors["pcloud"][s] = Whole
    BY <2>8 DEF NightInv
  <2>13. \A s \in Services : Handled(s)' /\ Sound(s)' => BackedUp(s)'
    BY <2>2, <2>8, <2>9, <2>10 DEF NightInv
  <2>. QED
    BY <2>2, <2>5, <2>6, <2>7, <2>11, <2>12, <2>13 DEF NightInv
<1>. QED
  BY <1>1, <1>2, <1>3, <1>4, <1>5, <1>6, <1>7

\* With the copy of a run, one more than without it are newer.
LEMMA NewerWithRun ==
  ASSUME NightTypes, job.at # "idle", NEW t \in DOMAIN dated, NEW w \in Nat,
         Cardinality(NewerThan(t)) <= w
  PROVE  /\ IsFiniteSet({u \in DOMAIN dated : u > t})
         /\ Cardinality({u \in DOMAIN dated : u > t}) \in Nat
         /\ Cardinality({u \in DOMAIN dated : u > t}) <= w + 1
<1>. DEFINE All == {u \in DOMAIN dated : u > t}
            Fewer == NewerThan(t)
<1>1. IsFiniteSet(DOMAIN dated) /\ All \in SUBSET DOMAIN dated /\ Fewer \in SUBSET DOMAIN dated
  BY DatedType DEF NewerThan
<1>2. All \in SUBSET (Fewer \cup {job.stamp})
  BY DEF NewerThan
<1>. HIDE DEF All, Fewer
<1>3. IsFiniteSet(All) /\ IsFiniteSet(Fewer)
  BY <1>1, FS_Subset
<1>4. /\ IsFiniteSet(Fewer \cup {job.stamp})
      /\ Cardinality(Fewer \cup {job.stamp}) \in {Cardinality(Fewer), Cardinality(Fewer) + 1}
  BY <1>3, FS_AddElement
<1>5. Cardinality(All) <= Cardinality(Fewer \cup {job.stamp})
  BY <1>2, <1>4, FS_Subset
<1>6. Cardinality(All) \in Nat /\ Cardinality(Fewer) \in Nat
  BY <1>3, FS_CardinalityType
<1>7. Cardinality(Fewer) <= w
  BY DEF Fewer
<1>8. Cardinality(All) <= w + 1
  BY <1>4, <1>5, <1>6, <1>7
<1>. QED
  BY <1>3, <1>6, <1>8 DEF All

\* The end of a run that has not backed the service up.
LEMMA OneMoreWarning ==
  ASSUME NightInv, job.at # "idle", job'.at = "idle", dated' = dated,
         NEW s \in Services \cap Dated, warnings[s] # None,
         warnings'[s] = warnings[s] + 1, warnings'[s] < Len(Tiers)
  PROVE  StillWhole(s)'
<1>0. NightTypes
  BY DEF NightInv
<1>1. warnings[s] \in Nat /\ Len(Tiers) \in Nat
  BY <1>0, TierType DEF NightTypes
<1>2. warnings[s] < Allowed
  BY <1>1 DEF Allowed
<1>3. StillWhole(s)
  BY <1>2 DEF NightInv
<1>4. PICK t \in DOMAIN dated :
        dated[t][s] = Whole /\ Cardinality(NewerThan(t)) <= warnings[s]
  BY <1>3 DEF StillWhole
<1>5. Cardinality({u \in DOMAIN dated : u > t}) <= warnings[s] + 1
  BY <1>0, <1>1, <1>4, NewerWithRun
<1>6. NewerThan(t)' = {u \in DOMAIN dated : u > t}
  BY DEF NewerThan
<1>. QED
  BY <1>4, <1>5, <1>6 DEF StillWhole

\* How the state looks when a run has ended.
LEMMA EndedRun ==
  ASSUME NightInv, job.at # "idle", UNCHANGED <<today, local, mirrors, dated, made>>,
         NEW told \in Nat \cup {None}, job' = Idle(job.stamp, told),
         warnings' \in [Services -> Nat \cup {None}],
         \A s \in Services : warnings'[s] # None =>
           \/ warnings[s] # None /\ warnings'[s] = warnings[s] + 1
           \/ warnings'[s] = 0 /\ BackedUp(s)
  PROVE  NightInv'
<1>0. NightTypes /\ job.stamp \in Nat
  BY DEF NightInv, NightTypes
<1>1. /\ job'.at = "idle" /\ job'.stamp = job.stamp /\ job'.bad = FALSE
      /\ job'.failed = {} /\ job'.next = 1
  BY DEF Idle
<1>2. NightTypes'
  <2>1. job' \in [at : JobSteps, stamp : Int, next : DOMAIN Order, bad : BOOLEAN,
              failed : SUBSET Services, reachable : BOOLEAN, told : Nat \cup {None}]
    BY <1>0, OrderType DEF Idle, JobSteps
  <2>. QED
    BY <1>0, <1>1, <2>1 DEF NightTypes
<1>3. OnTheWay'
  BY <1>1 DEF OnTheWay
<1>4. \A t \in made', i \in DOMAIN Tiers : Covered(DOMAIN dated', i, t)
  BY <1>2, StillReaches
<1>5. \A s \in Services \ Dated :
        warnings'[s] # None /\ warnings'[s] = 0 => mirrors'["pcloud"][s] = Whole
  <2>1. \A s \in Services : warnings[s] # None => warnings[s] + 1 # 0
    BY <1>0 DEF NightTypes
  <2>. QED
    BY <2>1 DEF BackedUp
<1>6. ASSUME NEW s \in Services \cap Dated, warnings'[s] # None, warnings'[s] < Len(Tiers)
      PROVE  StillWhole(s)'
  <2>1. CASE warnings[s] # None /\ warnings'[s] = warnings[s] + 1
    BY <1>1, <1>6, <2>1, OneMoreWarning
  <2>2. CASE warnings'[s] = 0 /\ BackedUp(s)
    <3>1. PICK n \in DOMAIN dated : n = job.stamp /\ dated[n][s] = Whole
      BY <2>2 DEF BackedUp
    <3>2. NewerThan(n)' = {}
      <4>1. \A u \in DOMAIN dated : ~(u > n)
        BY <1>0, <3>1 DEF NightTypes
      <4>. QED
        BY <4>1 DEF NewerThan
    <3>3. Cardinality(NewerThan(n)') = 0
      BY <3>2, FS_EmptySet
    <3>. QED
      BY <1>1, <2>2, <3>1, <3>3 DEF StillWhole
  <2>. QED
    BY <1>6, <2>1, <2>2
<1>7. Allowed' = Len(Tiers)
  BY <1>1 DEF Allowed
<1>. QED
  BY <1>1, <1>2, <1>3, <1>4, <1>5, <1>6, <1>7 DEF NightInv

LEMMA StepEnds ==
  ASSUME NightInv, Summary \/ Dies
  PROVE  NightInv'
<1>0. NightTypes /\ OnTheWay
  BY DEF NightInv
<1>1. CASE Summary
  <2>1. /\ job.at = "summary" /\ UNCHANGED <<today, local, mirrors, dated, made>>
        /\ job' = Idle(job.stamp, today)
        /\ warnings' = [s \in Services |-> IF s \notin job.failed THEN 0
                                           ELSE IF warnings[s] = None THEN None
                                           ELSE warnings[s] + 1]
    BY <1>1 DEF Summary
  <2>2. warnings' \in [Services -> Nat \cup {None}]
    BY <1>0, <2>1 DEF NightTypes
  <2>3. \A s \in Services : s \notin job.failed => BackedUp(s)
    BY <1>0, <2>1, OrderType DEF NightInv, Handled, Sound, OnTheWay
  <2>4. \A s \in Services : warnings'[s] # None =>
           \/ warnings[s] # None /\ warnings'[s] = warnings[s] + 1
           \/ warnings'[s] = 0 /\ BackedUp(s)
    BY <2>1, <2>3
  <2>5. today \in Nat
    BY <1>0 DEF NightTypes
  <2>. QED
    BY <2>1, <2>2, <2>4, <2>5, EndedRun
<1>2. CASE Dies
  <2>1. /\ job.at # "idle" /\ UNCHANGED <<today, local, mirrors, dated, made>>
        /\ job' = Idle(job.stamp, job.told)
        /\ warnings' = [s \in Services |-> IF warnings[s] = None \/ job.told = today THEN None
                                           ELSE warnings[s] + 1]
    BY <1>2 DEF Dies
  <2>2. warnings' \in [Services -> Nat \cup {None}]
    BY <1>0, <2>1 DEF NightTypes
  <2>3. \A s \in Services : warnings'[s] # None =>
          warnings[s] # None /\ warnings'[s] = warnings[s] + 1
    BY <2>1
  <2>4. job.told \in Nat \cup {None}
    BY <1>0 DEF NightTypes
  <2>. QED
    BY <2>1, <2>2, <2>3, <2>4, EndedRun
<1>. QED
  BY <1>1, <1>2

LEMMA StepStarts ==
  ASSUME NightInv, NextDay \/ StartNight \/ UNCHANGED backupVars
  PROVE  NightInv'
<1>0. NightTypes /\ OnTheWay
  BY DEF NightInv
<1>1. CASE NextDay \/ UNCHANGED backupVars
  <2>1. /\ today' \in Nat
        /\ UNCHANGED <<job, local, mirrors, dated, made, warnings>>
    BY <1>0, <1>1 DEF NextDay, backupVars, NightTypes
  <2>2. NightTypes' /\ OnTheWay'
    BY <1>0, <2>1 DEF NightTypes, OnTheWay, Service
  <2>3. /\ Allowed' = Allowed
        /\ \A s : /\ Handled(s)' <=> Handled(s)
                  /\ Sound(s)' <=> Sound(s)
                  /\ BackedUp(s)' <=> BackedUp(s)
    BY <2>1 DEF Handled, Sound, BackedUp, Allowed, Service
  <2>4. \A s : StillWhole(s)' <=> StillWhole(s)
    BY <2>1 DEF StillWhole, NewerThan
  <2>. QED
    BY <2>1, <2>2, <2>3, <2>4 DEF NightInv
<1>2. CASE StartNight
  <2>. DEFINE stamp == Max({job.stamp + 1, today * RunsPerDay})
  <2>1. /\ job.at = "idle" /\ job' = [Idle(stamp, job.told) EXCEPT !.at = "probe"]
        /\ UNCHANGED <<today, local, mirrors, dated, made, warnings>>
    BY <1>2 DEF StartNight
  <2>2. stamp \in Nat /\ stamp > job.stamp
    <3>1. job.stamp + 1 \in Nat /\ today * RunsPerDay \in Nat
      BY <1>0, RetentionAssumption DEF NightTypes
    <3>. DEFINE m == job.stamp + 1
                n == today * RunsPerDay
    <3>2. m \in Nat /\ n \in Nat
      BY <3>1
    <3>. HIDE DEF n
    <3>3. Max({m, n}) \in {m, n} /\ m <= Max({m, n})
      <4>. HIDE DEF m
      <4>1. {m, n} \in SUBSET (0..(m + n)) /\ {m, n} # {} /\ m + n \in Nat
        BY <3>2
      <4>. QED
        BY <4>1, MaxOf
    <3>4. stamp = Max({m, n})
      BY DEF n
    <3>. HIDE DEF stamp
    <3>. QED
      BY <1>0, <3>2, <3>3, <3>4 DEF NightTypes
  <2>. HIDE DEF stamp
  <2>3. /\ job'.at = "probe" /\ job'.stamp = stamp /\ job'.next = 1 /\ job'.bad = FALSE
        /\ job'.failed = {}
    BY <2>1 DEF Idle
  <2>4. NightTypes'
    <3>1. job' \in [at : JobSteps, stamp : Int, next : DOMAIN Order, bad : BOOLEAN,
              failed : SUBSET Services, reachable : BOOLEAN, told : Nat \cup {None}]
      <4>1. job' = [at |-> "probe", stamp |-> stamp, next |-> 1, bad |-> FALSE,
                    failed |-> {}, reachable |-> FALSE, told |-> job.told]
        BY <2>1 DEF Idle
      <4>2. 1 \in DOMAIN Order /\ job.told \in Nat \cup {None} /\ "probe" \in JobSteps
        BY <1>0, OrderType DEF JobSteps, NightTypes
      <4>. QED
        BY <2>2, <4>1, <4>2
    <3>2. DOMAIN dated' \in SUBSET (0..job'.stamp)
      BY <1>0, <2>1, <2>2, <2>3 DEF NightTypes
    <3>. QED
      BY <1>0, <2>1, <2>2, <2>3, <3>1, <3>2 DEF NightTypes
  <2>5. OnTheWay'
    BY <2>3 DEF OnTheWay
  <2>6. \A t \in made', i \in DOMAIN Tiers : Covered(DOMAIN dated', i, t)
    BY <2>1, <2>4, StillReaches
  <2>7. \A s \in Services : ~Handled(s)'
    BY <2>3, OrderType DEF Handled
  <2>8. \A s \in Services : Sound(s)
    BY <1>0, <2>1 DEF OnTheWay, Sound
  <2>9. ASSUME NEW s \in Services, StillWhole(s) PROVE StillWhole(s)'
    <3>1. PICK t \in DOMAIN dated :
            dated[t][s] = Whole /\ Cardinality(NewerThan(t)) <= warnings[s]
      BY <2>9 DEF StillWhole
    <3>2. t < stamp
      BY <1>0, <2>2 DEF NightTypes
    <3>3. NewerThan(t)' = NewerThan(t)
      BY <1>0, <2>1, <2>2, <2>3 DEF NewerThan, NightTypes
    <3>. QED
      BY <2>1, <2>3, <3>1, <3>2, <3>3 DEF StillWhole
  <2>10. Allowed' = Allowed
    BY <2>1, <2>3 DEF Allowed
  <2>. QED
    BY <2>1, <2>4, <2>5, <2>6, <2>7, <2>8, <2>9, <2>10 DEF NightInv
<1>. QED
  BY <1>1, <1>2

LEMMA StepPrune ==
  ASSUME NightInv, Prune
  PROVE  NightInv'
<1>. DEFINE D == DOMAIN dated
            K == KeptStamps(DOMAIN dated)
<1>0. NightTypes /\ OnTheWay /\ job.at = "prune" /\ job.stamp \in Nat
  BY DEF NightInv, NightTypes, Prune
<1>1. /\ D \in SUBSET (0..job.stamp) /\ IsFiniteSet(D) /\ D \subseteq Nat
      /\ \A t \in D : dated[t] \in [Services -> Copies]
  BY <1>0, DatedType DEF NightTypes
<1>2. /\ K \in SUBSET D
      /\ \A t \in D \ K : Outdated(D, t) /\ \A i \in DOMAIN Tiers : Covered(K, i, t)
  BY <1>0, <1>1, Retained
<1>3. /\ job' = [job EXCEPT !.at = "summary"]
      /\ UNCHANGED <<today, local, mirrors, made, warnings>>
  BY DEF Prune
<1>4. /\ K \subseteq DOMAIN dated' /\ DOMAIN dated' \subseteq D
      /\ \A t \in K : dated'[t] = dated[t]
      /\ \A t \in DOMAIN dated' : dated'[t] \in [Services -> Copies]
  <2>. DEFINE expired == D \ K
  <2>1. CASE dated' = Without(expired)
    BY <1>1, <1>2, <2>1 DEF Without
  <2>2. CASE \E t \in expired, begun \in BOOLEAN :
               LET left == Without({u \in expired : u > t})
               IN dated' = IF begun THEN [left EXCEPT ![t] = [s \in Services |-> Torn]]
                           ELSE left
    <3>1. PICK t \in expired, begun \in BOOLEAN :
            dated' = IF begun THEN [Without({u \in expired : u > t})
                                     EXCEPT ![t] = [s \in Services |-> Torn]]
                     ELSE Without({u \in expired : u > t})
      BY <2>2
    <3>. DEFINE newer == {u \in expired : u > t}
                left == Without(newer)
    <3>2. /\ DOMAIN left = D \ newer /\ \A u \in D \ newer : left[u] = dated[u]
      BY DEF Without
    <3>3. newer \subseteq expired
      OBVIOUS
    <3>4. dated' = left \/ dated' = [left EXCEPT ![t] = [s \in Services |-> Torn]]
      BY <3>1
    <3>5. [s \in Services |-> Torn] \in [Services -> Copies]
      BY DEF Copies
    <3>. HIDE DEF left, newer
    <3>. QED
      BY <1>1, <1>2, <3>1, <3>2, <3>3, <3>4, <3>5
  <2>3. CASE dated' = dated
    BY <1>1, <1>2, <2>3
  <2>. QED
    BY <2>1, <2>2, <2>3 DEF Prune, Expired
<1>5. /\ job'.at = "summary" /\ job'.bad = job.bad /\ job'.stamp = job.stamp
      /\ job'.next = job.next /\ job'.failed = job.failed
  BY <1>0, <1>3 DEF NightTypes
<1>6. NightTypes'
  <2>1. DOMAIN dated' \in SUBSET (0..job'.stamp)
    BY <1>1, <1>4, <1>5
  <2>2. job' \in [at : JobSteps, stamp : Int, next : DOMAIN Order, bad : BOOLEAN,
              failed : SUBSET Services, reachable : BOOLEAN, told : Nat \cup {None}]
    BY <1>0, <1>3 DEF NightTypes, JobSteps
  <2>. QED
    BY <1>0, <1>3, <1>4, <1>5, <2>1, <2>2 DEF NightTypes
<1>7. OnTheWay'
  BY <1>0, <1>5 DEF OnTheWay
<1>8. ASSUME NEW t \in made', NEW i \in DOMAIN Tiers
      PROVE  Covered(DOMAIN dated', i, t)
  <2>1. t \in Nat /\ Covered(D, i, t)
    BY <1>0, <1>3 DEF NightInv, NightTypes
  <2>. HIDE DEF K, D
  <2>2. Covered(K, i, t)
    BY <1>1, <1>2, <2>1, StillCovered
  <2>3. IsFiniteSet(DOMAIN dated') /\ DOMAIN dated' \subseteq Nat
    BY <1>6, DatedType
  <2>. QED
    BY <1>4, <2>1, <2>2, <2>3, MoreIsCovered
\* What has few newer copies is kept.
<1>9. \A t \in D : ~Outdated(D, t) => t \in DOMAIN dated' /\ dated'[t] = dated[t]
  BY <1>2, <1>4
<1>10. ASSUME NEW s \in Services, Handled(s)', Sound(s)' PROVE BackedUp(s)'
  <2>1. Handled(s) /\ Sound(s)
    BY <1>0, <1>5, <1>10, OrderType DEF Handled, Sound, OnTheWay
  <2>2. BackedUp(s)
    BY <1>0, <2>1 DEF NightInv
  <2>3. ~Outdated(D, job.stamp)
    <3>1. {u \in D : u > job.stamp} = {}
      <4>1. \A u \in D : ~(u > job.stamp)
        BY <1>0, <1>1
      <4>. QED
        BY <4>1
    <3>2. Cardinality({u \in D : u > job.stamp}) = 0
      BY <3>1, FS_EmptySet
    <3>3. Len(Tiers) \in Nat /\ Len(Tiers) > 0
      BY RetentionAssumption, TierType
    <3>. QED
      BY <3>2, <3>3 DEF Outdated
  <2>. QED
    BY <1>3, <1>5, <1>9, <2>2, <2>3 DEF BackedUp
<1>11. ASSUME NEW s \in Services \cap Dated, warnings[s] # None, warnings[s] < Len(Tiers) - 1
       PROVE  StillWhole(s)'
  <2>1. warnings[s] \in Nat /\ Len(Tiers) \in Nat
    BY <1>0, <1>11, TierType DEF NightTypes
  <2>2. StillWhole(s)
    BY <1>0, <1>11, <2>1 DEF NightInv, Allowed
  <2>3. PICK t \in D : /\ dated[t][s] = Whole /\ t < job.stamp
                       /\ Cardinality(NewerThan(t)) <= warnings[s]
    BY <1>0, <2>2 DEF StillWhole
  <2>4. /\ Cardinality({u \in D : u > t}) \in Nat
        /\ Cardinality({u \in D : u > t}) <= warnings[s] + 1
    BY <1>0, <2>1, <2>3, NewerWithRun
  <2>5. ~Outdated(D, t)
    BY <1>11, <2>1, <2>4 DEF Outdated
  <2>6. t \in DOMAIN dated' /\ dated'[t][s] = Whole
    BY <1>9, <2>3, <2>5
  <2>7. Cardinality(NewerThan(t)') <= warnings[s]
    <3>1. NewerThan(t)' \in SUBSET NewerThan(t)
      BY <1>0, <1>4, <1>5 DEF NewerThan
    <3>2. IsFiniteSet(NewerThan(t))
      <4>1. NewerThan(t) \in SUBSET D
        BY DEF NewerThan
      <4>. QED
        BY <1>1, <4>1, FS_Subset
    <3>3. /\ Cardinality(NewerThan(t)') <= Cardinality(NewerThan(t))
          /\ Cardinality(NewerThan(t)') \in Nat /\ Cardinality(NewerThan(t)) \in Nat
      BY <3>1, <3>2, FS_Subset, FS_CardinalityType
    <3>. QED
      BY <2>1, <2>3, <3>3
  <2>. QED
    BY <1>3, <1>5, <2>3, <2>6, <2>7 DEF StillWhole
<1>12. Allowed' = Len(Tiers) - 1
  BY <1>5 DEF Allowed
<1>13. \A s \in Services \ Dated :
         warnings[s] # None /\ warnings[s] = 0 /\ Sound(s)' => mirrors["pcloud"][s] = Whole
  BY <1>0, <1>5 DEF NightInv, Sound, OnTheWay
<1>. QED
  BY <1>3, <1>6, <1>7, <1>8, <1>10, <1>11, <1>12, <1>13 DEF NightInv

LEMMA NightStep == NightInv /\ [NightlyNext]_backupVars => NightInv'
<1>. SUFFICES ASSUME NightInv, [NightlyNext]_backupVars PROVE NightInv'
  OBVIOUS
<1>1. CASE NextDay \/ StartNight \/ UNCHANGED backupVars
  BY <1>1, StepStarts
<1>2. CASE \/ Probe \/ ToLocal \/ ToPcloud \/ ToMirrors
           \/ ToHistory \/ NoHistory \/ EndService
  BY <1>2, StepServices
<1>3. CASE Prune
  BY <1>3, StepPrune
<1>4. CASE Summary \/ Dies
  BY <1>4, StepEnds
<1>. QED
  BY <1>1, <1>2, <1>3, <1>4 DEF NightlyNext

LEMMA NightInvariant == NightlySpec => []NightInv
<1>1. NightlyInit => NightInv
  BY InitNight
<1>2. NightInv /\ [NightlyNext]_backupVars => NightInv'
  BY NightStep
<1>. QED
  BY <1>1, <1>2, PTL DEF NightlySpec

\* However runs fail, are cut off, repeated or left out, each stamp that was
\* ever in the history has a copy in its own day, week and month that is not
\* older, or as many newer ones have one as are kept: for any tiers, services
\* and number of faults (prune_history).
THEOREM HistoryAlwaysReachesBack == NightlySpec => []HistoryReachesBack
<1>1. NightInv => HistoryReachesBack
  <2>. SUFFICES ASSUME NightInv, NEW t \in made, NEW i \in DOMAIN Tiers
                PROVE  LET newer == {u \in DOMAIN dated : u >= t}
                       IN \/ \E u \in newer : Bucket(i, u) = Bucket(i, t)
                          \/ Cardinality({Bucket(i, u) : u \in newer}) >= Tiers[i].quota
    BY DEF HistoryReachesBack
  <2>1. Covered(DOMAIN dated, i, t)
    BY DEF NightInv
  <2>. QED
    BY <2>1 DEF Covered
<1>. QED
  BY <1>1, NightInvariant, PTL

\* A service that was reported as backed up has a whole copy somewhere, until
\* a later run is known to have failed; and until as many are as there are
\* tiers, when it has a history.
THEOREM LossIsAlwaysAnnounced == NightlySpec => []LossIsAnnounced
<1>1. NightInv => LossIsAnnounced
  <2>. SUFFICES ASSUME NightInv, job.at = "idle", NEW s \in Services,
                       warnings[s] # None, ~WholeSomewhere(s)
                PROVE  warnings[s] >= IF s \in Dated THEN Len(Tiers) ELSE 1
    BY DEF LossIsAnnounced
  <2>1. warnings[s] \in Nat /\ Len(Tiers) \in Nat
    BY TierType DEF NightInv, NightTypes
  <2>2. CASE s \in Dated
    <3>1. ~StillWhole(s)
      BY DEF StillWhole, WholeSomewhere
    <3>2. ~(warnings[s] < Len(Tiers))
      BY <2>2, <3>1 DEF NightInv, Allowed
    <3>. QED
      BY <2>1, <2>2, <3>2
  <2>3. CASE s \notin Dated
    <3>1. Sound(s)
      BY DEF NightInv, OnTheWay, Sound
    <3>2. mirrors["pcloud"][s] # Whole
      BY DEF WholeSomewhere, Places
    <3>3. warnings[s] # 0
      BY <2>3, <3>1, <3>2 DEF NightInv
    <3>. QED
      BY <2>1, <2>3, <3>3
  <2>. QED
    BY <2>2, <2>3
<1>. QED
  BY <1>1, NightInvariant, PTL
=============================================================================
