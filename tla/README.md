# Formal model of homelab-automation

This directory holds a TLA+ model of the programs and scripts of this
repository that keep state from one run to the next, and of what the health
report and the status pages make of the answers they get: what each of them
does step by step, what must not go wrong when steps fail, overlap or are cut
off, and machine-checked proofs of the central guarantees. All source paths below
are relative to the root of the repository.

Contents: [the system](#the-system), [modules](#modules-and-how-they-correspond-to-the-code),
[runs](#runs), [fairness](#fairness), [proofs](#proofs),
[disagreements](#where-the-code-and-its-texts-disagree), [limits](#what-is-not-modelled),
[plan](#plan), [how to run it](#how-to-run-it).

## The system

The repository automates a small estate of hosts (`mljr`, `nuc`, `ugreen` and
the Unraid box `nas`). Its own logic is in three places: `tools/` (Go
programs), `openvox/` (Puppet classes and the shell scripts they install) and
`scripts/`, `services/`, `.github/workflows/` (deployment and service hooks).

### Components that keep state

| Component | State it keeps | Operations | What is hard | What makes it correct |
| --- | --- | --- | --- | --- |
| **Health report** `tools/cmd/healthreport`, `tools/internal/healthreport` | `facts-latest.json`, `facts-previous.json`, `seen/observations.json` | collect, classify, diff, deliver, save (three writes), prune | manual and timed runs overlap without a lock; a crash between the writes; failing collectors; severities that feed back into tomorrow's | the last report survives; no false "resolved"; consecutive reports fit together; a lasting problem is reported |
| **Mail export** `tools/cmd/paperless-mail-export`, `services/paperless-mail-export/run.sh` | state file (watermark, done, seen), outbox, consume directory | list, fetch, export, save, push, sweep | failure and crash anywhere; late mail; locked PDFs; equal file names | nothing exported is lost, nothing wanted is passed over, everything arrives |
| **OpenVox releases** `scripts/openvox-sync.sh`, `scripts/openvox-rollback.sh` | release directories, the `production` symlink, the host's configuration | copy, check, swap, prune, apply, noop, roll back | two concurrency groups and operators; lost ssh connections; cancelled workflows; partial directories | production is whole; OK means applied; a way back stays |
| **Uptime Kuma provisioning** `tools/cmd/provision-kuma`, `services.pp`, `kuma-provision-*.sh` | stored checksum; monitors, notification, windows, pages on the server | create and resume, update, delete, notify, assign, finish | calls that fail with or without effect; kill after 300 s; retry of what is half done | a stored checksum means the server is what the catalog says; nothing wanted is deleted |
| **Paperless backfill** `tools/cmd/paperless-import` | manifest, `done.tsv`, consume directory | plan, apply in batches, quarantine | interruption between copy and `done.tsv`; the consume directory is shared with the mail export | each document is imported once, in its best class; what is recorded is never lost |
| **Schedule merge** `tools/internal/schedulemerge` | `schedule.json` on a boot flash, its backup, the runtime copy, script directories | merge, mirror, retire | three programs and a web interface write one file, not atomically; cut off anywhere | nobody's entry is lost |
| **Syncthing provisioning** `tools/cmd/provision-syncthing` | configurations of hub and node | register, share, accept | works on configurations read earlier, while people edit; calls that fail after their effect | no share is taken away; one run is enough |
| **Deployment status page** `tools/internal/deploystatus`, `deploy.yml` | published history and page | fetch, build, upload twice | jobs of several concurrency groups rewrite one file | the history is the last deployments, in order |
| **Log conversion** `tools/cmd/caddylog` | position in the access log, output file | follow, convert, notice a rotation, restart | half-written lines, rotation while it sleeps or reads | each entry once, in order; what is missed is known |
| **Nightly backup** `roles/templates/backup/backup.sh.epp`, `unraid_backup/backup-content.sh` | dumps, three mirrors, dated copies, logs | hooks, sync to three targets, dated copy, prune | a failed dump is mirrored like a good one; partial runs; incomplete copies counted by the retention | what was backed up is not lost without a word; the history reaches back |
| **Snapshots** `backup_remote_target/snapshot.sh.epp` (their retention) | Btrfs snapshots, status file | create, plan, prune | free-space floor; skipped runs | the newest of each tier is kept |
| Display controller `unraid_aoostar/aoostar-controller.sh` | one state file in `/tmp` | daemon loop, command line | read, minutes of work, write: no lock | a command is not undone by the daemon |
| PostgreSQL upgrade `services_common/postgres-major-upgrade.sh` | volumes, dump, completion marker | copy, dump, restore, mark | interruption before the marker | the old data is never touched, the upgrade happens once |
| Caddy promotion `roles/files/caddy/*.sh` | staged, live and running configuration | validate, promote, reload | a reload that fails after the files are replaced | what runs is what was validated |

Components without state of their own, which are functions of what they are
told:

| Component | Function | What is hard | What makes it correct |
| --- | --- | --- | --- |
| **Collectors** `tools/internal/healthreport/collectors` | answers of some twenty sources to observations | requests that fail, answers that lack parts, limits, identical IDs | what cannot be seen is named |
| **Narrative and rendering** `render.go`, `render_html.go`, `system_state.go`, `history.go`, `llm.go` | a report to three texts; a reply of the model to a checked story | several sources of one text, a model that invents | a problem is in every text; the story names only facts |
| **Delivery** `deliver.go`, `main.go` | a report to push and mail | two relays, requests that fail after their effect | a mail that is given up is made up for |
| **Backup dashboard** `tools/internal/backupdashboard` | the facts of the hosts to a page | the same answers read twice, by different rules | the page is not rosier than the report |
| **Catalog checks** `tools/cmd/validate-services` | catalog to errors | | what the hook lets pass can be shown |

What is left out (secret rotation, scans, Puppet resources, DNS, zero-trust
ceremonies and others) is listed in `PROJECT.json` with the reason.

### How they interact

* A deployment (`openvox-sync.sh`, from a workflow or an operator) makes a
  release and runs `puppet apply`; the apply installs the scripts and timers of
  all the others and starts the provisioning of Uptime Kuma
  (`services.pp:541-551`). In the model an apply is one step of
  `OpenvoxRelease`; `KumaProvision` starts where the catalog has been put on
  the host. Syncthing provisioning and the schedule programs are run by the same
  applies. The job then writes the deployment status (`DeployStatus`).
* The health report reads what the others leave behind (backup logs, facts,
  Kuma) through its collectors, and tells a person. `ReportSources` runs the
  collectors over a world that breaks and mends; `HealthReport` takes their
  observations as inputs and keeps the state; `ReportDelivery` takes an assembled
  report to the reader.
* The backup dashboard and the `ssh_facts` collector ask the same script on the
  same hosts. `ReportSources` feeds both from one world.
* Mail export and backfill write into the same consume directory of Paperless.
  `PaperlessImport` has the other's files in its directory (`Foreign`), since its
  batches wait for the directory to be empty and quarantine what stays.

Apart from these, the components share no state that two of them write, so each
is a module of its own; interleavings inside a component (two invocations, two
jobs, program and outside world) are what its module is about.
Hazards, each at its line and with the properties that cover it, are listed in
`PROJECT.json`.

## Modules and how they correspond to the code

### Severity, MCSeverity: the rules of the report

`Severity.tla` translates `severity.go` (`Classify`): thresholds with two
limits and a direction, the age gate `min_age_days`, the spike rule, and the
rules with one level. An observation is reduced to what the rules read: number,
text, truth, remembered value, age. `MCSeverity` takes every numeric rule and
observation of a small range and lets the value get worse one step at a time.

### HealthReport, HealthReportHistory, ProblemMemory, HealthReportMemory

`HealthReport.tla` is one invocation of `tools/cmd/healthreport/main.go` after
another, or several at once. `latest`, `previous` and `seen` are the three
files; `run[r]` is what the invocation in slot `r` holds in memory.

| Action | Code |
| --- | --- |
| `Collect` | `RunCollectors`, `CollectorHealth` (`run.go:44-100`): what each collector reports, what a failed one had gathered before it failed, and one observation per failure |
| `LoadPrevious` | `LoadPrevious` (`diff.go:38`) |
| `Assemble` | `LoadSeen`, `AttachPreviousValues`, `Apply`, `Compute` (`run.go:142-208`): `Diff` is the `DiffResult`, `Remembered` the new seen-state |
| `Deliver` | `main.go:174-198`: sent (and possibly lost) or printed |
| `EndDryRun` | `main.go:200-220` |
| `Rotate`, `WriteLatest`, `WriteSeen` | the three file operations of `Save` (`diff.go:295-323`), with `PruneSeen` before the first |
| `Abort` | the process dies, or `Save` returns an error, between any two of them |
| `Tick` | a day passes |

Time stamps are represented by their age in days, which is all the code
compares, capped where no rule looks further. No day passes during a run.

`HealthReportHistory.tla` adds history variables and the properties: what
really held when the collectors looked, how long a breach has lasted, which
problems the reader was told. They observe the steps and guard none; `Faults`
selects what may fail in a run.

`ProblemMemory.tla` is the abstract specification of the seen-state: an
identity once observed by a saved run is remembered, as a former alert once it
was one, until it has not been observed for longer than the retention.
`HealthReportMemory.tla` gives the refinement mapping (`status` from
`actionable`, `unobserved` from `LastSeen`).

### MailExport, MailExportHistory

`MailExport.tla` is the program and `run.sh` around it. `saved` is the state
file, `run.st` the state in memory; `outbox` and `consume` map paths to
contents, `library` is what Paperless has taken in. A content stands for bytes
and hash at once.

| Action | Code |
| --- | --- |
| `Start` | `run.sh` with its lock, `loadState`, the first day an incremental run asks for |
| `ListPage`, `NextPage` | the page loop over the archive as it is at that moment (mails that arrive meanwhile shift the pages) |
| `FetchMail`, `Dedupe`, `HoldBack`, `Export`, `EndMail` | `processMail` (`main.go:442-511`): skip a content seen before, hold a locked PDF back, write one into the outbox under `outName`; then the bookkeeping of the mail |
| `Save`, `Finish` | the periodic save and the last one, with the watermark |
| `Push`, `EndPush` | rsync with removal of the sources, file by file |
| `ListFails`, `MailFails`, `SaveFails`, `PushFails`, `Crash` | the error paths; `run.sh` pushes even after the program failed |
| `Arrive`, `LearnPassword`, `Ingest` | mail-archiver, the operator, Paperless |

`MailExportHistory.tla` counts the copies of each content and the runs that
ended with unsaved exports, and remembers replaced files and failed mails.

### OpenvoxRelease

One host. A release is a function from its five parts (in the order of
transfer) to the revision each was copied from; `mtime` orders directories as
`ls -1dt` does; `applied` is what the host was last configured from, `None`
when a run was cut off in between.

| Action | Code |
| --- | --- |
| `Start` | `openvox-sync.sh:64-78`, and the concurrency groups of `deploy.yml:130-135` |
| `MakeRelease`, `Copy`, `Check` | `176-215`: mkdir, transfer part by part, the completeness test. A noop copies to where the symlink leads |
| `Swap` | `217-233`: symlink, then pruning to `OPENVOX_RELEASE_KEEP`; `SwapFails`: its exit status is not looked at |
| `BeginApply`, `EndApply`, `ApplyFails` | `235-258`: puppet reads through the symlink while it runs; only openvox-sync.sh looks for errors in the log |
| `Choose`, `NothingToRollBackTo`, `SwapBack` | `openvox-rollback.sh:42-65` |
| `CopyFails`, `Interrupt` | lost connections, cancelled workflows |

### KumaProvision

`version` is the catalog on the host, `stored` the checksum file, `target`,
`active`, `notified`, `assigned` the server. A run works with the list of
monitors it fetched at its start (`run.seen`) until it lists them again for
windows and pages (`Members`). Services, hosts and TCP checks go through the
same three functions and are one set of names, of which `Hosts` are those the
checksum does not cover.

| Action | Code |
| --- | --- |
| `Deploy`, `Start`, `Finish`, `Crash` | `services.pp:541-551`, `kuma-provision-check.sh`, `kuma-provision-apply.sh`; the exec's timeout |
| `SkipMonitor`, `UpdateMonitor`, `CreateMonitor`, `ResumeMonitor` | `syncServiceMonitors` and its siblings, `createAndStart` (`provision-kuma/main.go`) |
| `BeginDelete`, `DeleteMonitor`, `EndDelete` | `deleteOrphanedMonitors` |
| `Notify`, `Assign`, `EndAssign`, `KeyRejected` | `syncNotification`, `syncMaintenance`, `syncStatusPages`, `checkAPIKey` (`state.go`) |
| `...Fails` | a call that returns an error, with or without effect on the server; the run goes on and ends as failed |

### ImportPlan, PaperlessImport

`ImportPlan.tla` is the pure part of the backfill: the class and destination of a
path by the rules, the order of the classes, and `Kept`, the files that remain
of those with one content. `PaperlessImport.tla` is the program next to
Paperless and the mail export. `manifest` and `done` are the two files,
`consume` and `stuck` the directory and its quarantine.

| Action | Code |
| --- | --- |
| `Plan` | `buildPlan`, with files and folders that cannot be read, and the manifest it writes |
| `Apply` | the beginning of `apply`: the rows that are not in `done.tsv` |
| `Copy`, `BatchEnds` | `copyFile` under the first free name (`O_EXCL`), the line in `done.tsv`, the end of a batch |
| `Drained`, `Stalled` | `waitDrained`: the directory became empty; or nothing moved for too long, and all that lies there is moved aside |
| `Interrupted` | the program ends anywhere, between the copy and its line too |
| `Ingest`, `Arrive` | Paperless takes a file; the mail export puts one there |

### Collectors: Observations, HostFacts, MetricSources, LogSources, OutsideSources, ReportSources

An observation is `<<kind, subject, part, value>>`; the first three are its ID.
An answer is `None` when the request fails. Each collector is an operator from
its answers to its result.

| Module | Collectors |
| --- | --- |
| `Observations` | status of a collector, `CollectorHealth`, the evidence check of WD Cloud |
| `HostFacts` | `ssh_facts`, with its sections for each kind of host |
| `MetricSources` | `host_metrics`, `containers`, `monitor_availability`, `uptime_kuma` |
| `LogSources` | `logs` with its windows, signatures and error rates, `ntfy_access`, `csp_reports` (and the handler of that service), `appsec`, `updates` |
| `OutsideSources` | `github`, `defectdojo`, `homeassistant`, `pki`, `mail_dns`, `home_ip`, `dmarc` |
| `ReportSources` | all of them over a `World`: a request breaks or mends (`Break`, `Mend`), backups run (`BackupRuns`), and a report and a page are made (`Look`) |
| `BackupDashboard` | the page's own reading of the same answers |

### ReportText, ReportDelivery

`ReportText` says which identities each text lists, in which section, and which
are counted: the Markdown body, the HTML body, the push, the fallback story, and
`Validated`, what is left of the reply of the language model. `ReportDelivery` is
one report on its way: `Begin`, `Load`, `Chat` and `Unload` (the model, two attempts),
`Push`, `Relay` (each relay in turn) and `FallbackPush`. Each request may fail
before or after its effect.

### ScheduleMerge

`flash`, `backup` and `runtime` are the three copies of `schedule.json`: absent, a
set of entries, or `Torn`. `Start`, `Backup`, `Write`, `Mirror` and `Retire` are the
steps of one of the programs (`schedulemerge.go` and its mains); `Interrupted` cuts
one off, in the middle of a write too; `Save` is the plugin's page and `Boot` copies
the flash to the runtime.

### SyncthingProvision

`hub` and `node` are the configurations, `snapshot` what the run has read of the
hub, `known` what it works with. `Start`, `RegisterNode`, `CreateArchive`, `Share`,
`Reread`, `RegisterDevices`, `Accept`, `End` follow `main.go`; each call that
writes may fail before or after its effect; `Edit` is a person at the hub.

### CatalogChecks, DeployStatus

`CatalogChecks` translates the errors of `validate-services`; a catalog that has
one cannot be committed (`Commit`). `Fetch`, `Build`, `UploadHistory` and
`UploadPage` are the last steps of a deploy job; `Build` holds `build-deploy-status`:
which services failed according to the log, the new history, the page.

### LogConversion

`logs` are the log files by age, `half` says whether the last line is incomplete,
`reading`, `inode` and `offset` where caddylog reads. `WriteEntry` and `Rotate` are Caddy; `ReadLine`,
`AtEnd`, `CheckRotation` and `Wake` the loop of `main.go`; `Restart` the container with
the command of its compose file.

### NightlyBackup, Retention

`local` is the dump or the copy of a volume, `mirrors` what pCloud, ugreen and the
WD Cloud have of it, `dated` the history by the time stamp of its run: nothing, a
`Torn` copy or a `Whole` one, of any night. A run (`job`) goes through the services in the order
of the script: `ToLocal` (pre-hook or rsync), `ToPcloud`, `ToMirrors`, `ToHistory`,
`EndService` (post-hook, and which list of failures the service joins), then `Prune`
and `Summary`; `Dies` cuts it off anywhere. `warnings` counts, for each service, the
runs known to have failed since it was last reported as backed up. `Retention` is
the choice of what to keep, which `snapshot.sh` makes in the same way: a loop over the
stamps from the newest to the oldest, in which each goes to the first tier with room.

### NoValue, TornFile, Loops

`NoValue` declares `None`, what is not there; `TornFile` adds `Torn`, a file that was
cut off while it was written. They are the constants that modules share, so that several
of them can be extended at once. `Loops` has no model in it: its lemmas say that a loop
over the numbers 1 to N, written as a recursive function, has a value after each round and
keeps an invariant of its rounds (the loops of `Retention` and of `ReportText!TopIssues`);
and that a set of numbers has a least member, which `OpenvoxRelease_proofs` uses too.

### MCPrograms, MCWorlds

The programs of these last sections share no state, so one run checks them next
to each other: `MCPrograms` extends their modules, so that their
properties, assumptions and theorems are about the same definitions; `AllInit` picks one of nine (`import`, `severity`, `delivery`,
`schedule`, `syncthing`, `deploy`, `convert`, `sources`, `nightly`) and the behaviour takes the
steps of that one. `MCWorlds` holds their data: the answers of the world,
reports, replies, catalogs, jobs.

## Runs

State counts are of distinct states. No run finds a deadlock interesting: every
component may legitimately have nothing to do (bounds on runs and failures are
used up), so `CHECK_DEADLOCK FALSE` is set throughout.

| Run | States | Question |
| --- | --- | --- |
| HealthTwoRuns | 3.8 M | Two invocations in every interleaving, one failing collector, a crash at any step: `LastReportSurvives` (it can be read back from `latest` or else `previous`), `NoSilentRecovery` (no report calls a lasting problem resolved without naming the collector that failed) |
| HealthGrace | 2.3 M | An age-gated rule and a signature rule over days, crashes between the writes: `ReopenThenGrace` (after a report that reopened a problem the gate holds for its full length), `SeenIsMemory` (refinement of `ProblemMemory`) |
| HealthChain | 417 k | Sending runs and dry runs over days: `ReportsChain` (each report takes the reader exactly from what the last one named to what it names), `AnnouncedOnce`, and under fairness `LastingBreachIsReported` |
| MailExport | 768 k | Two failures of any kind anywhere: `DoneIsComplete`, `NoDocumentLost`, `FailedMailIsListedAgain`, `RepeatsAreLostRuns` (a content is exported once, plus once for each run that ended unsaved) |
| MailExportLive | 71 k | One failure, fairness: `EveryFileIsFiled`, late mail and newly known passwords included |
| Release | 434 k | One group; deployments, noops and rollbacks of two revisions, two failures: `ActiveIsApplied`, `DeployKeepsLiveWhole`, `KeepsAWayBack` |
| ReleaseRace | 221 k | Two groups deploy at once, two failures: `LiveIsWhole`, and under fairness `NewRevisionIsApplied` |
| Kuma | 137 k | Three catalogs, any server left from before, two failures: `StoredIsProvisioned`, `ExpectedIsKept`, and under fairness `ProvisionedAtLast` |
| Programs | 444 k | Nine programs, each with faults of its own (below) |
| HealthFresh | | *violated*: `FreshBreachHeldBack` |
| ReleaseForward | | *violated*: `RollbackGoesBack` |
| KumaPaused | | *violated*: `StoredIsWatching` |

What `Programs` asks of each:

| Program | Question |
| --- | --- |
| import | `RecordedIsSomewhere`: is a file that `done.tsv` lists in the directory, in Paperless or in quarantine, unless another of its name replaced it there? `RepeatsAreAccidents`: is a second import of a file always due to a copy that was not recorded? `BestCopyIsPlanned`: of files with one content, is the one of the best class planned, and once? `ApplyEnds` (under fairness): does a run of apply end, although Paperless may leave files lying for ever? |
| severity | `WorseIsNoMilder`: does a value that gets worse ever become milder, with two limits, an age gate and a spike rule competing? `SpikeWidensCoverage`: does the spike only ever add? |
| delivery | `DeadMailPathIsPushed`: has a finished delivery brought the body to the reader, or an error on record for every channel it tried? `StoryNamesOnlyFacts`: whatever the model replies, does the story point to observed problems only? `BothBodiesNameAll`: does each body list every problem? |
| schedule | `SavedEntriesSurvive`: does what the page saved outlive every run and interruption, unless a write was cut off or the page saved in the middle of a run? |
| syncthing | `SharesAreKept` (action property): does a step take a share from a folder nobody edited after it was read? `EndMirrors`: has a run that ends put every folder and device on the node? |
| deploy | `HistoryIsTheLatest`: is the published history the last deployments, newest first, unless a job found no history or worked on it at the same time as a job of another group? |
| convert | `ConvertedInOrder`: over rotations, half-written lines and restarts: is the output in order, without a repetition, and without a gap but for entries read in halves or added just before a rotation was noticed? |
| sources | `BlindnessIsNamed`: does a report that lacks what a clean one has name the collector, section or request that failed? `ViewsAgree`: is a host that the page calls ok free of backup problems in the report, and an entry that the report calls failed marked on the page? |
| nightly | `HistoryReachesBack`: whatever fails, is repeated or left out, has each stamp that was ever made a newer one in its day, week and month, or as many newer days, weeks and months as are kept? `LossIsAnnounced`: is a whole copy left of a service that was reported as backed up, until a later run is known to have failed, and until as many are as there are tiers when it has a history? |

Each stateful module of the first four components has one type invariant, and
each of the four is a theorem; it is checked in the runs `HealthTwoRuns` and
`MailExport` as well.

### Bounds, and why they are enough

* **Severity**: values and limits 0 to 3, factors 2 and 3, floors 0 and 3, ages
  0 and 1. Every order of value, two limits, baseline times factor and floor
  occurs, equalities included; with 0 to 6 and ages to 2 the result is the same.
* **Health report**: one collector (collectors are independent of each other:
  each condition belongs to one). Two slots give every pairwise overlap; they
  differ in their names only, so they are declared symmetric in this run, which
  checks invariants alone. A
  reading is absent, 0 or 1, below or above the limit; `HealthTwoRuns` needs
  absent and 1 only. `AgeCap` equals the gate, the largest age any rule asks
  for, and `Retention` is 0 or 1: `lastAge` still takes the values below, at and
  beyond it. Lost reports are left out of the runs (with them `HealthTwoRuns`
  has 18 million states without the symmetry and still passes) and are included in the theorems.
* **Mail export**: three mails: one old that may be imported late, two of one
  day; a logo attached to two, a protected file, two contents of one name; two
  mails a page and a save after every second mail, so that a run has several
  pages and unsaved exports. Two failures let one run fail and the next one
  too.
* **Releases**: five runs, `Keep = 2` so that pruning bites on the third
  release, rollbacks of one and two steps, two revisions so that a copy over an
  old one is visible. `ReleaseRace`: two jobs, four runs.
* **Kuma**: the second catalog changes one monitor's target, drops one, adds a
  host, and changes who is in the window; the third changes only the host; one
  monitor is in none. Two failures: one in a run, one in its retry.
* **Import**: two copies of one document in folders of different classes, and
  another document with the destination of the second copy, so that both the
  choice and the renaming occur; batches of one, one plan, one accident, one
  foreign mail.
* **Schedule**: two programs, each of which retires an entry of an earlier time,
  and one entry of the page.
* **Syncthing**: one further device, three folders (one ordinary, one excluded,
  one archive).
* **Deployments**: two groups, three jobs, a history of two. **Log conversion**:
  four entries, three files, one restart: a rotation before, during and after a
  read.
* **Nightly backup**: three days with up to two runs each, two faults; a service with a
  dump and a history, and one with a volume and none; a daily and a two-day tier of
  one copy each, so that a copy can be the only one of its tier.
* **Sources**: two requests that fail at once; every collector has something to
  report when nothing fails. The reports and replies of **delivery** have an ID in each
  of the lists, and one that was never observed.

## Fairness

* `HealthReportHistory!FairSpec`: an invocation that has started proceeds (weak
  fairness of its steps: a sequential program); the timer starts a sending run
  again and again (`HTimer`, strong fairness, since a manual run may hold the
  only slot) and days pass (strong fairness of `HTick`, which is disabled
  during a run). The systemd timer justifies both. Failing collectors, aborts
  and lost reports are not part of this run: nothing forces any of them to stop.
* `MailExportHistory!HFairSpec`: a run proceeds; the sweep's timer finds the
  lock free again and again (strong fairness: an incremental run may hold it
  whenever the timer fires, and `flock` does not wait, `run.sh:18`); Paperless
  works on its directory.
* `OpenvoxRelease!FairSpec`: a job proceeds or fails (weak fairness of both
  together, so no success is assumed), and jobs are started; failures are
  bounded by `MaxFaults`.
* `KumaProvision!FairSpec`: a run proceeds; puppet is applied again and again.

* `MCPrograms!AllSpec`: weak fairness of the steps of plan and apply only
  (`PaperlessImport!Runs`): a sequential program. Paperless is not assumed to take
  anything.

No fairness is assumed of arrivals, of passwords, of operators, or of new
catalogs.

## Proofs

Checked with tlapm, with no step left out, for every value of the constants
that the named assumptions admit. Each proof module extends the module it is
about.

| Theorem | Statement | Extra assumption |
| --- | --- | --- |
| `HealthReport_proofs!TypeCorrect` | `Spec => []TypeOK` | |
| `LastReportAlwaysSurvives` | `HSpec => []LastReportSurvives` | none: any number of overlapping runs |
| `NoSilentRecoveryEver` | `HSpec => []NoSilentRecovery` | `Deployed` |
| `SeenRefinesMemory` | `HSpec => SeenIsMemory` | `OneRun` |
| `GraceHoldsAfterReopening` | `HSpec => []ReopenThenGrace` | `OneRun`, `GatesApply` |
| `EveryReportChains` | `HSpec => ReportsChain` | `OneRun`, `SavedIfSent`, `NothingLost` |
| `EachBreachIsAnnouncedOnce` | `HSpec => AnnouncedOnce` | `OneRun`, `Deployed`, `SavedIfSent`, `NothingFails` |
| `MailExport_proofs!TypeCorrect` | `Spec => []TypeOK` | |
| `DoneIsAlwaysComplete` | `Spec => []DoneIsComplete` | |
| `NoDocumentIsEverLost` | `HSpec => []NoDocumentLost` | |
| `RepeatsAreLostRunsOnly` | `HSpec => []RepeatsAreLostRuns` | |
| `FailedMailIsAlwaysListedAgain` | `HSpec => []FailedMailIsListedAgain` | |
| `OpenvoxRelease_proofs!TypeCorrect` | `Spec => []TypeOK` | |
| `DeploymentsKeepLiveWhole` | `Spec => DeployKeepsLiveWhole` | `OneGroup` |
| `DeployedIsAlwaysWhole` | `Spec => []LiveIsWhole` | `OneGroup`, `Modes = {"apply"}` |
| `ActiveIsAlwaysApplied` | `Spec => []ActiveIsApplied` | `OneSlot` |
| `AWayBackIsAlwaysKept` | `Spec => KeepsAWayBack` | `OneGroup`, `NoneIsNoRelease`, `Keep >= 2` |
| `OverlappingDeploymentsKeepLiveWhole` | `Spec /\ []NotOvertaken => []LiveIsWhole` | `Modes = {"apply"}`; any groups |
| `KumaProvision_proofs!TypeCorrect` | `Spec => []TypeOK` | |
| `StoredIsAlwaysProvisioned` | `Spec => []StoredIsProvisioned` | `InOrder` |
| `ExpectedIsAlwaysKept` | `Spec => ExpectedIsKept` | none: any order of catalogs |
| `PaperlessImport_proofs!TypeCorrect` | `Spec => []TypeOK` | |
| `BestCopyIsAlwaysPlanned` | `Spec => []BestCopyIsPlanned` | |
| `RepeatsAreAccidentsOnly` | `Spec => []RepeatsAreAccidents` | |
| `RecordedIsAlwaysSomewhere` | `Spec => []RecordedIsSomewhere` | |
| `ReportDelivery_proofs!DeadMailPathIsAlwaysPushed` | `DeliverySpec => []DeadMailPathIsPushed` | |
| `StoryAlwaysNamesFacts` | `DeliverySpec => []StoryNamesOnlyFacts` | none: any replies, of any length |
| `BothBodiesAlwaysNameAll` | `DeliverySpec => []BothBodiesNameAll` | |
| `SpikesOnlyWiden` | `SeveritySpec => []SpikeWidensCoverage` | none: all numeric rules and readings |
| `WorseIsNeverMilder` | `SeveritySpec => WorseIsNoMilder` | none: all numeric rules and readings |
| `NothingIsLostInSilence` | `SourceSpec => []BlindnessIsNamed` | `SoundWorld`; any answers and any set of failing requests |
| `ThePageIsNeverRosier` | `SourceSpec => []ViewsAgree` | `OneHostList`, `UsageNeedsQuota`; any answers and any set of failing requests |
| `Programs_proofs!SavedEntriesAlwaysSurvive` | `ScheduleSpec => []SavedEntriesSurvive` | `EntriesAreTheirOwn` |
| `SharesAreAlwaysKept` | `SyncSpec => SharesAreKept` | `NamesAreApart` |
| `EveryEndMirrors` | `SyncSpec => []EndMirrors` | `NamesAreApart` |
| `HistoryIsAlwaysTheLatest` | `DeploySpec => []HistoryIsTheLatest` | `HistoriesAreFiles` |
| `OutputIsAlwaysInOrder` | `ConvertSpec => []ConvertedInOrder` | none: any number of rotations and restarts |
| `HistoryAlwaysReachesBack` | `NightlySpec => []HistoryReachesBack` | none: any tiers and any failures |
| `LossIsAlwaysAnnounced` | `NightlySpec => []LossIsAnnounced` | none: any tiers and any failures |

What the assumptions say:

* `Deployed`: every run asks all collectors, and a failed collector alerts
  (`present`, with a level that alerts, no age gate). That is how `rules.yml` and the timer's unit are;
  with `--collector` a run leaves sources out on purpose.
* `OneRun`: invocations do not overlap. It is needed: two overlapping runs
  write `seen` from the same old copy, and the one that is later by chance
  undoes what the other remembered.
* `GatesApply`: the age gates are at rules that look at them, thresholds and
  `present` ones (`Classify` asks the gate nowhere else; `rules.yml` has one at each,
  for pending advisories and for a reboot that is due).
* `SavedIfSent`: each run is either a dry run or sends, as with the flags of the
  timer's unit. `--dry-run` together with `--send` would tell the reader what the
  next run does not know.
* `NothingLost`, `NothingFails`: which members of `Faults` are left out, as in the
  run `HealthChain`. Neither theorem is true otherwise: a report that is lost, or
  one whose run dies before `Save`, breaks the chain, and a breach that no collector
  saw for a day is new again the day after. Within `NothingLost` collectors may fail.
* `OneGroup`: jobs for a host are serialised. It is needed for these three: a
  noop or rollback at the same time may write into or replace what a deployment
  is about to use. Deployments alone may overlap, as `ReleaseRace` checks and
  `OverlappingDeploymentsKeepLiveWhole` says for any number of them.
* `NotOvertaken`: no deployment is passed by `OPENVOX_RELEASE_KEEP` others between
  its `mkdir` and its swap. It is needed, and it is about behaviours, not about the
  constants: the others would prune the release it is still to activate, and
  `openvox-sync.sh` does not look again (214) before the `mv` (230). With five releases
  kept that takes a job that hangs while five others for its host come and go.
  `ReleaseRace` cannot reach it: it has four runs and keeps three releases.
* `Keep >= 2`: `openvox-sync.sh:74` keeps five. With one, pruning leaves nothing but
  the release just activated. `NoneIsNoRelease`: the value that stands for a missing
  directory is not the content of one.
* `OneSlot`: there is one job at a time. Needed for the same reason.
* `EntriesAreTheirOwn`: the page does not add an entry under a name that one of
  the programs retires; those are dropped on purpose.
* `NamesAreApart`: the further devices are not the two the program is about, and
  the archive folders are folders.
* `HistoriesAreFiles`: a missing and a torn history file are not one with deployments.
* `SoundWorld`, in four parts. `AnswersAreThere`, `FaultsAreRequests`: the answers have
  the fields their collectors read, and what fails is a request, not a setting. `MetricsAreOfHosts`: the
  exporters scraped are those of configured hosts. It is needed: `metrics_missing` goes
  through the hosts of the configuration, so the metrics of any other host vanish
  without a word. `AddressesAgree`: both services that tell the public address tell the
  same. It is needed: `home_ip.go` asks the second only when the first fails, so one that
  is wrong could hide a mismatch.
* `OneHostList`: page and report ask the hosts of one list; both read `SSHHosts` of the
  configuration. `UsageNeedsQuota`: `homelab-facts.py` computes `used_percent` only
  where there is a quota. It is needed: the mail shows any usage it finds, the collector
  passes by those without a quota.
* `InOrder`: no earlier catalog is deployed again, neither as such nor as one
  with the same services. It is needed: see the last entry under disagreements.

Assumptions on constants, which TLC evaluates in the runs, say what the code has:
`CapAssumption` (the history holds at least one deployment; 500 in
`build-deploy-status`), `RetentionAssumption` (each tier keeps at least one copy; 14
days, 8 weeks and 12 months in `backup.pp`), `OrderAssumption` (the script backs
something up), `LimitsAssumption` (the story names a number of problems; 3 in
`llm.go`), `RepliesAssumption` (a reply is a list of strings) and
`ReportsAssumption`: the lists of a report hold the problems it ranks, each
worsened one among the persisting. The last is what `Compute` makes of any readings;
the lemma `DiffListsTheProblems` says so of `HealthReport!Diff`.

The arguments:

* **`NoSilentRecovery`** is not inductive: it speaks of delivered reports only.
  `Insight` carries it through the run. While a run holds readings, each
  condition's reading is the truth, or its collector's failure is among the
  readings (`SeesAll`); once assembled, each lasting breach of a plain rule is
  among the alerts, or its collector is, and nothing is both an alert and
  resolved (`AlertsAll`). The steps in between rest on two lemmas about
  `Classify`: a breach of a plain threshold alerts, and so does a failure.
* **`SeenIsMemory`** needs to know, between `Assemble` and `WriteSeen`, how the
  seen-state a run carries relates to the file (`Carries`): it differs by what
  one `Record` step of the abstract memory does. Then `WriteSeen` is `Record`,
  `Tick` is `Day`, and everything else stutters, crashes included.
* **`ReopenThenGrace`** needs (`GraceInv`) that a record, in the file or carried by a
  run, dates from the last reopening at the earliest, and that a run which carries one
  has itself waited for the gate. The days between the reopening and the alert come
  from `Tick`, which ages the record and the reopening alike.
* **`ReportsChain`** needs what the reader was told to be what the last report says:
  in `latest`, in what a run has loaded, and, once its report has arrived, in what
  it carries (`AllChained`). Then the diff against the file is the diff against
  the reader (`DiffTellsApart`). **`AnnouncedOnce`** needs besides that a breach which
  was announced stays among the reader's problems and among the readings and alerts
  of each run (`AllRemain`).
* **`DoneIsComplete`** needs the same of the state in memory (`Complete`), and
  of the mail in progress that all attachments before the current one are in
  `seen`, unless one was locked (`SoFar`).
* **`LiveIsWhole`, `DeployKeepsLiveWhole`** need six more facts: at most one job
  runs (`Alone`), its steps are those of its mode (`InMode`), release numbers
  are not used twice (`Numbered`), a deployment writes to another release than
  the live one (`Fresh`), what it has copied so far is of its revision
  (`Copied`), and its directory is the newest by modification time (`Newest`),
  so that pruning keeps it whatever `Keep` is.
* **`StoredIsProvisioned`** needs what a run that has not failed has achieved at
  each step (`Synchronised`, `Cleared`, `Covered`), that a run works for the
  catalog on the host and only when its checksum is not stored (`Working`), and
  that the stored checksum is that of this or an earlier catalog (`Past`).
  `ExpectedIsKept` needs only that a run deletes nothing its catalog has.
* **`ActiveIsApplied`** needs that a job that goes on after its apply read the
  release it has swapped in (`ReadsItsOwn`), and with one slot nobody moves the
  symlink in between.
* **`KeepsAWayBack`** needs that a release is not there before it is made
  (`NotYetMade`), that a file of a release is missing until it is copied, so that one
  that is being copied is not whole (`Unfinished`), and that a rollback swaps in
  another release than the live one (`GoingBack`). A prune keeps, besides the release
  it has activated, the newest of the others (`SecondIsKept`).
* **Overlapping deployments**: `RaceInv` has none of `Alone` and `Newest`; that each job
  has a directory to itself (`Apart`) takes the place of the one, `NotOvertaken` that of
  the other.
* **`NoDocumentLost`** needs that an outbox path holds nothing but the content its
  hash is of (`NamedByHash`). **`RepeatsAreLostRuns`** needs that a run only adds to
  the seen contents it has loaded (`Grows`), and counts one export more than lost
  runs only for contents that are in the saved state or in memory (`Counted`).
  **`FailedMailIsListedAgain`** needs, for a failed mail of earlier runs, that it is
  done, behind no watermark, or still to come on the pages of the run in progress
  (`OwedInv`, `Awaits`); mails that arrive meanwhile move others to later pages,
  never to earlier ones.
* **The import**: `CopiesInv` counts the copies of a file against its line in
  `done.tsv` and the accidents; `OwnNames` keeps its names apart from the mail
  export's; that the plan is complete is the lemma `PlanIsComplete`, which rests
  on `FirstCopy`: of finitely many copies one is the best.
* **The delivery**: `DeliveryInv` says at each step which channels were tried, and
  that a channel tried has brought its body or left an error. `StoryInv` says the same
  of the story as the property, and of a reply; that `TopIssues` leaves known IDs only,
  and not more than the limit, is an invariant of its loop. That both bodies name all
  problems is a matter of what the sections select, for any report of
  `ReportsAssumption`.
* **The classification**: the rank of a value is that of its limits, raised by the spike
  where that is higher (`NumericRank`); both grow with the value, and the age gate
  does not read it.
* **The schedule**: `MergeInv` relates what the run in progress has read to the flash
  and the backup. **Syncthing**: what a run has read is still there (`KnownInv`), what
  its steps so far have put on hub and node (`EarlyInv`, `LateInv`).
* **The deployment status**: as long as no job found the history missing and no two
  were at it, the history a job has fetched is the published one, and what it
  has built is that with its own deployment in front (`WorksOnTheLatest`).
* **The log conversion**: the files hold the entries 1 to n in order (`Numbered`), the
  output has what was read and not missed (`OutIsRead`, `ReadIsOut`); so what lies
  between two of its entries was missed.
* **The retention**: `Retained` is the lemma about the loop. After each round
  (`Chosen`) every stamp passed by is kept, or no tier had room for it: then each
  tier has already taken one of its bucket, which is newer, or as many buckets as it
  keeps. So it is covered in every tier (`Covered`); and since each tier that has taken
  any has a kept stamp to itself, it has at least as many newer stamps as there are
  tiers (`Outdated`). **`HistoryReachesBack`** follows since
  covering is transitive (`StillCovered`) and more copies cover more
  (`MoreIsCovered`): a purge that stops half-way does no harm.
* **`LossIsAnnounced`**: `NightInv` says of each service with a history that it has a
  whole copy with at most as many newer ones as runs that are known to have failed
  (`StillWhole`), not counting the copy of the run in progress. By `Outdated` a prune
  keeps such a copy while they are fewer than the tiers - one fewer between the prune and the
  summary of a run (`Allowed`) - and a run that reports a service as backed up has made a
  new one (`BackedUp`), which needs to be known through all its steps (`OnTheWay`).
* **The collectors**: `AllIsTold` says of each collector and any set of failing requests
  that whatever it observes when nothing fails it still observes, with the same ID, or
  its result says where it could not look (`Told`). Eleven need every answer, and fail
  without (`StrictFails`). The others have a lemma each, for what they can do without:
  hosts and sections (`FactsAreTold`), rows of hosts (`MetricsAreTold`), endpoints
  (`EndpointsAreTold`), the reverse lookup (`LookupsAreTold`), the second service
  (`AddressIsTold`), the counts when no report ever came (`ReportsAreTold`).
* **The page**: of all collectors, only `ssh_facts` makes observations of the kinds
  that are about the log of a backup (`BackupFactsAreOfHosts`; the lemmas `...Elsewhere`,
  one for each collector or group), and it makes them of the host's own log
  (`BackupSaid`). So both readings are of one section of one answer (`HostsAgree`,
  `EntriesAgree`); a usage in the mail is that of a section, or the one derived for
  `wd-cloud` (`TargetsAgree`).

Recursion is over numbers throughout (`TopIssues`, `KeptStamps`). The induction theorems
of the library take an operator as a parameter, which the provers here cannot
instantiate; `Loops` does induction over sets of numbers instead, from the
well-foundedness of `<`: a set of numbers that is not empty has a least member.

Model-checked only: the properties under fairness, as liveness is out of the prover's
reach. Every invariant and every action property that a passing run checks is
stated by a theorem.

## Where the code and its texts disagree

With a run that shows it:

* **HealthFresh.** `rules.yml:223-226` holds a pending advisory back until it
  has lasted `min_age_days`; `severity.go:169` counts from the first run that
  ever reported the host, breached or not.
* **ReleaseForward.** `openvox-rollback.sh:11` promises the release immediately
  before the current one; line 51 takes the one modified last, so a second
  rollback leads forward to the release the first one left.
* **KumaPaused.** `kuma-provision-apply.sh:9-10` promises that a failed run is
  retried; the retry of a create whose resume failed finds the monitor, counts
  it as unchanged, and stores the checksum while the monitor stays paused.

Met while modelling, modelled as the code has it, without a run of their own:

* `diff.go:160` calls a problem *reopened* when it was known before and "cleared";
  it is also called so when it never cleared, but a gate or a failed collector
  kept it out of the last report. `ReopenThenGrace` and
  `LastingBreachIsReported` show what still holds.
* The head of `paperless-mail-export/main.go` (9-12) says a content is exported
  once at most; a run that ends unsaved exports again. `RepeatsAreLostRuns`
  bounds how often.
* `openvox-sync.sh:182` and `248-250` promise that every step up to the swap must
  succeed and that an error never becomes a green result; the exit status of the
  swap itself (223) is not looked at. `ActiveIsApplied` therefore speaks of
  releases that did become production.
* `openvox-sync.sh:69-71` and `openvox/README.md:130-132` call a noop a read-only
  check that never mutates what is running; it copies through the symlink into
  the live release.
  `DeployKeepsLiveWhole` and `KeepsAWayBack` (which is about whole releases)
  say what holds in spite of it.
* Failed copies leave directories that rollback may choose and pruning counts
  (`openvox/README.md:129-130` keeps the last five releases to go back to).
  `KeepsAWayBack` is stated for whole releases only.
* `deploy.yml:130-134` means its groups to keep two applies apart; a service
  update and a push have different groups and do overlap (`ReleaseRace`).
* The checksum that decides about provisioning is that of the services
  (`services.pp:541`), while `services.yml` also holds the hosts: a change of
  the host list alone is not provisioned until the services change.
  `StoredIsProvisioned` speaks of *a* catalog with these services.
* *Import* (`paperless-import/main.go`): quarantine renames over an earlier file of
  the same name; when the destination and its suffixed form are both taken by
  others, every apply fails at that file; a later plan that finds a copy of a better
  class imports the content again; a file directly under a scan root gets a tag
  named after itself; mails that keep arriving keep a batch from being recognised
  as stalled.
* *Schedule merge*: `os.WriteFile` truncates before it writes. Cut off there, it
  leaves an empty `schedule.json`, which reads as one without entries; the next
  program copies that over the backup and goes on. A file that is torn otherwise
  stops every program until someone repairs it. What the page saves while a program
  runs is lost.
* *Syncthing*: a folder is sent back as it was read, so an edit in between is
  undone; a device that is added to a share later never reaches the folders that the
  node has accepted already; two folders whose paths end alike get the same path.
* *Deployment status* (`deploy.yml:134`, `474-515`): the history is read, changed and
  written back without a lock across concurrency groups; one that could not be
  fetched is replaced by an empty one; services of hosts that the job did not target
  count as ok; services on `ugreen` are not on the page.
* *Log conversion*: the comment of `services/goaccess/docker-compose.yml` (14-15) says
  the rotated logs are processed for full history; each start of `caddylog` creates
  its output anew, so only the last file's entries remain. Entries read in two halves
  are dropped, and so are those appended between the last read and the look at the
  inode, and a file that is rotated twice during one sleep.
* *Collectors*: `loki.go:222-226` decodes the time stamps of a matrix as strings where
  Loki sends numbers, so the count of 5xx answers is always 0. A `github` answer of
  403 empties that report without a word; failing workflows vanish once they are
  older than the lookback or run again, and those without a branch share an ID. Two
  intermediate certificates (`pki`) and monitors of one name (`uptime_kuma`)
  collapse into one. An error of the scanner in `ntfy_updates` ends its list early.
  `csp-reports` drops bodies beyond 64 KiB. Errors of one SMART device, of a watched
  directory and of a verification that cannot be read are silent.
  `BlindnessIsNamed` speaks of requests that fail, and of nothing a collector
  misreads when they succeed.
* *Texts*: the HTML body has no section for what worsened, and only the first line of
  the fallback story; the push highlights new problems, never reopened or worsened
  ones; the trend leaves out today. `BothBodiesNameAll` says that every problem is in
  some section of each body.
* *Delivery*: a relay that fails at `Quit`, after it has accepted the mail, makes it
  go out a second time over the other one. A report lost on every channel is saved
  all the same, and its problems are known from then on.
* *Backup dashboard*: entries are matched to failed services as substrings of their
  names.
* *Nightly backup*: a dump is written with `>`; when it fails, what there is of it goes
  to all three mirrors the same night, and only a dated copy saves the old one -
  but `history_enabled` is false by default (`backup.pp:84`). Dated copies count by
  name, torn ones too: as many bad runs as there are tiers are enough to lose the last good copy.
  A day has one log, so a run that dies after another has ended that day is hidden by the
  summary of the first; `LossIsAnnounced` gives up on the services then. The `rmdir` of
  `probe_ugreen` runs under `set -e`: when it fails, the whole backup ends. The names
  of failed services are logged with blanks between them and read with commas
  (`homelab-facts.py`), and those of non-critical services are not logged when a critical
  one failed.
* When a run for a new catalog fails half-way and the old catalog is deployed
  again, its checksum is still stored and the half-done change stays. With
  `Rollbacks = TRUE`, `StoredIsProvisioned` is violated; the run and the theorem
  are for catalogs in their order.

## What is not modelled

* *Health report*: the dated copies in `history/`, the fields nothing reads, torn
  temporary files (`writeJSON` renames), prompts, wording, layout, configuration
  files and `StateCounts`.
* *Mail export*: the filter `wanted()` and qpdf are constants; the rate limit and
  the retries of one request are one outcome.
* *Releases*: the shared Forge modules, the one-time move to `releases/`,
  isolated environments under `/tmp`, and two jobs in the same second.
* *Kuma*: operators who edit the server, overlapping provisioning runs, server
  settings, unmanaged maintenance windows, contents of windows and pages other
  than their monitors.
* *Import*: copies appear in the directory whole; Paperless is not modelled looking
  at a file while it is written. Verification and statistics only read.
* *Syncthing*: paths and addresses. *Schedule*: what an entry holds. *Deployment
  status*: markup and relative times.
* *Nightly backup*: `backup-content.sh` of the NAS (the same legs, without hooks and
  tiers), `verify.sh`, `restore.sh`, and a run started by hand next to the timer's. Of
  the *snapshots* only the retention is modelled, not the lock, the free-space floor
  (below which nothing is pruned either) and the status file.
* Whole components: the display controller, the PostgreSQL upgrade, the promotion of
  Caddy's configuration, Compose deployments, services of the NAS, secret rotation,
  scans, the other workflows, Puppet resources, `check-services` and `canary-gen`; the
  reason of each is in `PROJECT.json`.
* *Clocks*: ages never decrease; nothing models a clock set back.
* Data races within one process: these programs run their steps one after the
  other (collectors too, `run.go:64-74`); what is shared is files and servers.

## Plan

Done: `Severity`, `HealthReport` with `ProblemMemory`, `MailExport`, `OpenvoxRelease`,
`KumaProvision`; `PaperlessImport`, the collectors and `ReportSources`,
`ReportDelivery`, `ScheduleMerge`, `SyncthingProvision`, `DeployStatus`,
`LogConversion`, `NightlyBackup` with `Retention`. Next, most important first:

1. `DisplayController`: daemon and command line over one file; lost updates.
2. `PgUpgrade`: the marker protocol as a refinement of *at most once, old data
   intact*.
3. `CaddyPromote`, and its composition with `OpenvoxRelease` and `KumaProvision`:
   what an interrupted apply means for them.
4. The backup of the NAS, and `verify.sh` next to `NightlyBackup`.

Theorems to add: those of the modules above, as they come.

## How to run it

Inside this directory, with TLC and the TLA+ proof system installed:

    tlc -workers 2 -config HealthChain.cfg MCHealthReport.tla
    tlapm HealthReport_proofs.tla

`PROJECT.json` names the module and configuration of each run, and for every
checked property a mutation of the code's definition (an operator marked
`mutant:` in the module) under which the run must find it violated.
