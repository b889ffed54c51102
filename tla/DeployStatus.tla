---------------------------- MODULE DeployStatus ----------------------------
(***************************************************************************)
(* The page about deployments: every deploy job ends by fetching the       *)
(* published history, putting its own deployment in front of it with       *)
(* build-deploy-status, and uploading the history and the page             *)
(* (.github/workflows/deploy.yml, cmd/build-deploy-status/main.go,         *)
(* internal/deploystatus).  Jobs of one concurrency group run one after    *)
(* the other; there is a group for each host, and one for each branch.     *)
(***************************************************************************)
EXTENDS TornFile, CatalogChecks

CONSTANTS
  Groups,       \* concurrency groups
  Catalogs,     \* catalogs that someone tries to commit
  Jobs,         \* how jobs can end: [status, duration, lines]
  Cap,          \* deployments that are kept
  PageRows, PageRecent,  \* deployments in the table, and in the figures
  ShownHosts,   \* hosts that the page has a section for
  MaxJobs       \* bound: jobs

VARIABLES
  catalog,      \* services_catalog of the repository
  history, page,    \* deployments.json and index.html of the site
  doing, base, built,  \* of each group: its step, its number and the history it
                    \* fetched, what it built
  jobs,         \* how many jobs have ended
  uploaded,     \* the deployments that were uploaded, newest first
  lost          \* a job fetched no history, or while another job was at it

ASSUME CapAssumption == Cap \in Nat \ {0}   \* 500 in main

lane == <<doing, base, built>>
deployVars == <<catalog, history, page, lane, jobs, uploaded, lost>>

FirstN(n, seq) == SubSeq(seq, 1, IF Len(seq) < n THEN Len(seq) ELSE n)

-----------------------------------------------------------------------------
(* ParseFailedServices                                                     *)

\* A line is [task, fatal, mentions, error]: the services in the title of a
\* TASK (None if it is no title), whether it says that a task failed, the
\* services it mentions, and those whose resources an "Error:" line names.
CurrentTask(lines, i) ==
  LET titles == {j \in 1..i : lines[j].task # None}
  IN IF titles = {} THEN {}
     ELSE lines[CHOOSE j \in titles : \A k \in titles : k <= j].task

Blamed(lines, i) ==
  (IF lines[i].fatal THEN CurrentTask(lines, i) \cup lines[i].mentions ELSE {})
  \cup lines[i].error

\* Each service with the first line that blames it.
FailedServices(lines, services) ==
  [s \in {n \in {x.name : x \in services} : \E i \in DOMAIN lines : n \in Blamed(lines, i)} |->
     CHOOSE i \in DOMAIN lines : /\ s \in Blamed(lines, i)
                                 /\ \A j \in 1..(i - 1) : s \notin Blamed(lines, j)]

-----------------------------------------------------------------------------
(* build-deploy-status and GenerateHTML                                    *)

Enabled(services) == {s \in ToSet(services) : s.enabled}

\* The error of every enabled service: None unless the log blames it, whether
\* it was part of the deployment or not.
Results(job, services) ==
  LET failed == FailedServices(job.lines, ToSet(services))
  IN [n \in {s.name : s \in Enabled(services)} |->
        IF n \in DOMAIN failed THEN failed[n] ELSE None]

Deployment(id, job, services) ==
  [id |-> id, status |-> job.status, duration |-> job.duration,
   results |-> Results(job, services)]

OldestKept(deployment, old) ==   \* mutant: what is new goes to the end
  FirstN(Cap, Append(old, deployment))
NewHistory(deployment, old) == FirstN(Cap, <<deployment>> \o old)

FailedOf(deployment) ==
  {n \in DOMAIN deployment.results : deployment.results[n] # None}

\* Durations of 0 are left out of the average.
Average(deployments) ==
  LET timed == SelectSeq(deployments, LAMBDA d : d.duration # 0)
      total == FoldSeq(LAMBDA d, sum : d.duration + sum, 0, timed)
  IN IF timed = <<>> THEN 0 ELSE total \div Len(timed)

\* A service on a host without a section of its own is not on the page.
ServiceSections(services) ==
  [h \in ShownHosts \cap {s.host : s \in Enabled(services)} |->
     {s.name : s \in {x \in Enabled(services) : x.host = h}}]

\* The table: each deployment with its failed services.
DeploymentRows(deployments) ==
  LET shown == FirstN(PageRows, deployments)
  IN [i \in DOMAIN shown |-> <<shown[i].id, shown[i].status, FailedOf(shown[i])>>]

Page(deployments, services) ==
  LET recent == FirstN(PageRecent, deployments)
  IN [success |-> Len(SelectSeq(recent, LAMBDA d : d.status = "success")),
      average |-> Average(recent),
      last |-> IF deployments = <<>> THEN "none" ELSE deployments[1].status,
      failed |-> IF deployments = <<>> THEN {} ELSE FailedOf(deployments[1]),
      rows |-> DeploymentRows(deployments),
      services |-> ServiceSections(services)]

-----------------------------------------------------------------------------
Nothing == [history |-> None, page |-> None]
NoBase == [id |-> 0, old |-> <<>>]

DeployInit ==
  /\ catalog = <<>> /\ history = None /\ page = None
  /\ doing = [g \in Groups |-> "idle"] /\ base = [g \in Groups |-> NoBase]
  /\ built = [g \in Groups |-> Nothing]
  /\ jobs = 0 /\ uploaded = <<>> /\ lost = FALSE

\* The hook lets a commit through only if the catalog has no errors.
Commit ==
  /\ catalog' \in {c \in Catalogs : Errors(c) = {}} \ {catalog}
  /\ UNCHANGED <<history, page, lane, jobs, uploaded, lost>>

\* loadJSONObject: a history that cannot be read counts as empty, and so does
\* one that could not be fetched.
Readable(file) == IF file \in {None, Torn} THEN <<>> ELSE file

Fetch(g) ==
  /\ doing[g] = "idle" /\ jobs < MaxJobs
  /\ jobs' = jobs + 1
  /\ \E answered \in BOOLEAN :
       /\ base' = [base EXCEPT ![g] = [id |-> jobs',
                     old |-> IF answered THEN Readable(history) ELSE <<>>]]
       /\ lost' = \/ lost \/ (~answered /\ history # None) \/ history = Torn
                  \/ \E other \in Groups \ {g} : doing[other] # "idle"
  /\ doing' = [doing EXCEPT ![g] = "build"]
  /\ UNCHANGED <<catalog, history, page, built, uploaded>>

\* The program can fail before it has written anything, or between the two
\* files; the job goes on in any case.
Build(g) ==
  /\ doing[g] = "build"
  /\ \E job \in Jobs :
       LET new == NewHistory(Deployment(base[g].id, job, catalog), base[g].old)
       IN \E files \in {Nothing, [history |-> new, page |-> None],
                        [history |-> new, page |-> Page(new, catalog)]} :
            built' = [built EXCEPT ![g] = files]
  /\ doing' = [doing EXCEPT ![g] = "history"]
  /\ UNCHANGED <<catalog, history, page, base, jobs, uploaded, lost>>

\* scp writes the file in place: it is replaced, torn, or never reached.
Uploaded(file, old) == IF file = None THEN {old} ELSE {file, old, Torn}

UploadHistory(g) ==
  /\ doing[g] = "history"
  /\ history' \in Uploaded(built[g].history, history)
  /\ uploaded' = IF built[g].history # None /\ history' = built[g].history
                 THEN FirstN(Cap, <<history'[1].id>> \o uploaded) ELSE uploaded
  /\ doing' = [doing EXCEPT ![g] = "page"]
  /\ UNCHANGED <<catalog, page, base, built, jobs, lost>>

UploadPage(g) ==
  /\ doing[g] = "page"
  /\ page' \in Uploaded(built[g].page, page)
  /\ doing' = [doing EXCEPT ![g] = "idle"]
  /\ base' = [base EXCEPT ![g] = NoBase] /\ built' = [built EXCEPT ![g] = Nothing]
  /\ UNCHANGED <<catalog, history, jobs, uploaded, lost>>

DeployNext ==
  \/ Commit
  \/ \E g \in Groups : Fetch(g) \/ Build(g) \/ UploadHistory(g) \/ UploadPage(g)

DeploySpec == DeployInit /\ [][DeployNext]_deployVars
-----------------------------------------------------------------------------
\* The published history is the last deployments that were uploaded, newest
\* first, through jobs that fail at any step; unless a job found no history,
\* or worked on it at the same time as a job of another group.
HistoryIsTheLatest ==
  ~lost /\ history # Torn =>
    uploaded = [i \in DOMAIN Readable(history) |-> Readable(history)[i].id]
=============================================================================
