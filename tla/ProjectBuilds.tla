--------------------------- MODULE ProjectBuilds ---------------------------
(***************************************************************************)
(* The project lifecycle of the API and of the knowledge worker: draft     *)
(* snapshots, upload sessions, build jobs, and the activation of a built   *)
(* version (apps/api/app/projects/{repository,worker,storage}.py).         *)
(*                                                                         *)
(* Actors.  API request handlers (Request is the set of handlers in flight *)
(* at once), the cleanup loop of the API process, and the one worker       *)
(* process, which may crash after any of its steps and is restarted.       *)
(*                                                                         *)
(* Transactions.  Every handler that takes the project row with            *)
(* SELECT ... FOR UPDATE before it reads anything else is one step, which  *)
(* is what the row lock gives on PostgreSQL.  Finalizing an upload         *)
(* validates the received files, moves them into the blob store and reads  *)
(* the session row before it takes the lock, so it is three steps.  The    *)
(* SQLite deployment, where FOR UPDATE locks nothing, is modelled in       *)
(* ProjectBuildsAutocommit.                                                *)
(*                                                                         *)
(* Data.  A file row is its logical filename (Name), the bytes its sha256  *)
(* stands for (Content) and its lifecycle stage.  The worker's five        *)
(* progress checkpoints are the one stage "processing".                    *)
(***************************************************************************)
EXTENDS Naturals, FiniteSets

CONSTANTS
  Project,      \* project ids
  Request,      \* API handlers in flight at the same time
  Index,        \* snapshot numbers of a project, in creation order
  Session,      \* upload session ids
  Build,        \* build job ids, in creation order
  Key,          \* Idempotency-Key values of build submissions
  Name,         \* logical filenames
  Content,      \* contents of a file
  MaxFiles,     \* ProjectStorage.max_files
  MaxCrashes,   \* bound: crashes of the worker process
  Synthetic,    \* graphify_runtime_mode = "synthetic"
  None          \* no value

ASSUME BoundsAssumption ==
  /\ MaxFiles \in Nat
  /\ MaxCrashes \in Nat
  /\ Synthetic \in BOOLEAN

-----------------------------------------------------------------------------

(* The files of a snapshot: a content, or None, for every name.            *)
Docs == [Name -> Content \cup {None}]
EmptyDocs == [f \in Name |-> None]
NamesOf(d) == {f \in Name : d[f] # None}

(* A graph version names a directory under versions/.                      *)
Version == Build \X (0 .. MaxCrashes)

ASSUME IdsAssumption ==
  /\ Index \subseteq Nat /\ 1 \in Index
  /\ Build \subseteq Nat
  /\ Project # {}
  /\ None \notin Session \cup Content \cup Key \cup Nat \cup Version \cup Docs

ProjectState == {"absent", "draft", "queued", "building", "ready", "failed",
                 "archived"}
Frozen == {"absent", "queued", "building", "archived"}
SnapshotStatus == {"none", "editable", "sealed", "active", "validated"}
Stage == {"none", "uploaded", "queued", "processing", "ready", "failed"}
JobStatus == {"none", "queued", "building", "ready", "failed"}
InFlight == {"queued", "building"}
ErrorCode == {"none", "build_error", "empty_snapshot", "build_root_exists",
              "version_collision", "stale_generation"}
Phase == {"down", "polling", "claimed", "staging", "staged", "published",
          "completing", "failing", "cleaning"}

(* The phases in which the worker holds a build that is not settled.       *)
Busy == {"claimed", "staging", "staged", "published", "completing", "failing"}

VARIABLES
  pstate,       \* ProjectRow.state
  active,       \* ProjectRow.active_snapshot_id
  version,      \* ProjectRow.active_graph_version
  generation,   \* ProjectRow.generation
  status,       \* SnapshotRow.status
  docs,         \* the rows of SnapshotFileRow, per snapshot
  stage,        \* SnapshotFileRow.lifecycle_status
  upload,       \* UploadSessionRow and its parts
  job,          \* BuildJobRow
  finalizing,   \* what a finalize handler has done so far: volatile
  worker,       \* the worker's local state: volatile
  run,          \* the number of times the worker has crashed
  buildRoot,    \* directories builds/<build id>
  corpus        \* directories versions/<version>: the files each was built of

projectVars == <<pstate, active, version, generation>>
snapshotVars == <<status, docs, stage>>
apiVars == <<upload, finalizing>>
diskVars == <<buildRoot, corpus>>
vars == <<projectVars, snapshotVars, upload, job, finalizing, worker, run,
          diskVars>>

(* The parts of a session: not all received; the last one on its way; all  *)
(* received into temporary files; some or all of those renamed into the    *)
(* blob store; unlinked by the cleanup.                                    *)
PartsState == {"pending", "receiving", "received", "moved", "unlinked"}
SessionRow == [state : {"none", "open", "finalized", "expired"},
               project : Project, snapshot : Index, docs : Docs,
               parts : PartsState, lapsed : BOOLEAN]
Handler == [session : Session \cup {None}, stored : BOOLEAN]
JobRow == [status : JobStatus, project : Project, snapshot : Index,
           expected : Nat, key : Key \cup {None}, error : ErrorCode]
WorkerState == [phase : Phase, build : Build \cup {None}, docs : Docs,
                error : ErrorCode]

(* The type of every variable.                                             *)
TypeOK ==
  /\ pstate \in [Project -> ProjectState]
  /\ active \in [Project -> Index \cup {None}]
  /\ version \in [Project -> Version \cup {None}]
  /\ generation \in [Project -> Nat]
  /\ status \in [Project -> [Index -> SnapshotStatus]]
  /\ docs \in [Project -> [Index -> Docs]]
  /\ stage \in [Project -> [Index -> [Name -> Stage]]]
  /\ upload \in [Session -> SessionRow]
  /\ job \in [Build -> JobRow]
  /\ finalizing \in [Request -> Handler]
  /\ worker \in WorkerState
  /\ run \in 0 .. MaxCrashes
  /\ buildRoot \subseteq Build
  /\ corpus \in [Version -> Docs]

-----------------------------------------------------------------------------
(* Rows and lookups.                                                       *)

NoSessionRow == [state |-> "none", project |-> CHOOSE p \in Project : TRUE,
                 snapshot |-> 1, docs |-> EmptyDocs,
                 parts |-> "pending", lapsed |-> FALSE]
NoJobRow == [status |-> "none", project |-> CHOOSE p \in Project : TRUE,
             snapshot |-> 1, expected |-> 0, key |-> None, error |-> "none"]
Resting(ph) == [phase |-> ph, build |-> None, docs |-> EmptyDocs,
                error |-> "none"]

(* The rows of d, all at one lifecycle stage.                              *)
AllAt(d, st) == [f \in Name |-> IF d[f] = None THEN "none" ELSE st]

IsDraft_OrActive(p, n) == status[p][n] \in {"editable", "active"}

(* _draft: the newest editable snapshot of the project.                    *)
IsDraft(p, n) ==
  /\ status[p][n] = "editable"
  /\ \A m \in Index : status[p][m] = "editable" => m <= n

(* Rows are inserted with ids later than every id in use.                  *)
IsNextSnapshot(p, n) ==
  /\ status[p][n] = "none"
  /\ \A m \in Index : m < n <=> status[p][m] # "none"
IsNextBuild(b) ==
  /\ job[b].status = "none"
  /\ \A c \in Build : c < b <=> job[c].status # "none"

OpenSessions_IgnoringLapsed(p, n) ==
  {u \in Session : /\ upload[u].state = "open"
                   /\ ~upload[u].lapsed
                   /\ upload[u].project = p
                   /\ upload[u].snapshot = n}

OpenSessions(p, n) ==
  {u \in Session : /\ upload[u].state = "open"
                   /\ upload[u].project = p
                   /\ upload[u].snapshot = n}

(* Finalizing replaces the rows that have the name of an uploaded part.    *)
Merge(old, new) == [f \in Name |-> IF new[f] = None THEN old[f] ELSE new[f]]
MergeStage(old, new) ==
  [f \in Name |-> IF new[f] = None THEN old[f] ELSE "uploaded"]

(* validate_and_store counts the files of the newest snapshot.             *)
WithinFileLimit(p, new) ==
  \E n \in Index :
    /\ status[p][n] # "none"
    /\ \A m \in Index : status[p][m] # "none" => m <= n
    /\ Cardinality(NamesOf(Merge(docs[p][n], new))) <= MaxFiles

GraphVersion(b) == IF Synthetic THEN <<b, 0>> ELSE <<b, run>>

-----------------------------------------------------------------------------
(* The API: one action per handler, but for finalizing.                    *)

NoHandler == [session |-> None, stored |-> FALSE]
Free(r) == finalizing[r] = NoHandler

CreateProject(r, p) ==
  /\ Free(r)
  /\ pstate[p] = "absent"
  /\ pstate' = [pstate EXCEPT ![p] = "draft"]
  /\ status' = [status EXCEPT ![p][1] = "editable"]
  /\ UNCHANGED <<active, version, generation, docs, stage, apiVars, job,
                 worker, run, diskVars>>

CreateUploadSession(r, p, u, d) ==
  /\ Free(r)
  /\ Cardinality(NamesOf(d)) <= MaxFiles
  /\ pstate[p] \notin Frozen
  /\ upload[u].state = "none"
  /\ \E n \in Index :
       /\ IsDraft(p, n)
       /\ upload' = [upload EXCEPT ![u] =
                       [state |-> "open", project |-> p, snapshot |-> n,
                        docs |-> d, parts |-> "pending", lapsed |-> FALSE]]
  /\ UNCHANGED <<projectVars, snapshotVars, finalizing, job, worker, run,
                 diskVars>>

(* receive_part finds the session unexpired and reads the body, the last   *)
(* that the session lacks, into a temporary file.                          *)
StartReceiving(r, u) ==
  /\ Free(r)
  /\ upload[u].state # "none"
  /\ upload[u].parts = "pending"
  /\ ~upload[u].lapsed
  /\ upload' = [upload EXCEPT ![u].parts = "receiving"]
  /\ UNCHANGED <<projectVars, snapshotVars, finalizing, job, worker, run,
                 diskVars>>

(* mark_part_uploaded, however late and whatever became of the session; or *)
(* the body was not what was declared and its file is unlinked.            *)
FinishReceiving(u) ==
  /\ upload[u].parts = "receiving"
  /\ \E outcome \in {"received", "pending"} :
       upload' = [upload EXCEPT ![u].parts = outcome]
  /\ UNCHANGED <<projectVars, snapshotVars, finalizing, job, worker, run,
                 diskVars>>

Usable(u) == upload[u].state = "open" /\ ~upload[u].lapsed

(* validate_and_store reads every temporary file and checks the limits.    *)
FinalizeValidate(r, u) ==
  /\ Free(r)
  /\ Usable(u)
  /\ upload[u].parts = "received"
  /\ WithinFileLimit(upload[u].project, upload[u].docs)
  /\ finalizing' = [finalizing EXCEPT ![r] = [session |-> u, stored |-> FALSE]]
  /\ UNCHANGED <<projectVars, snapshotVars, upload, job, worker, run,
                 diskVars>>

(* It renames them into the blob store, unless another handler has, and    *)
(* finalize_upload reads the session row.                                  *)
FinalizeStore(r) ==
  /\ finalizing[r].session # None
  /\ ~finalizing[r].stored
  /\ LET u == finalizing[r].session
     IN /\ upload[u].parts \in {"received", "moved"}
        /\ upload' = [upload EXCEPT ![u].parts = "moved"]
        /\ Usable(u)
  /\ finalizing' = [finalizing EXCEPT ![r].stored = TRUE]
  /\ UNCHANGED <<projectVars, snapshotVars, job, worker, run, diskVars>>

(* One row per part, replacing the row of the same name; the session row   *)
(* and the snapshot it names are the ones read before the lock.            *)
ApplyFinalize(r) ==
  /\ LET u == finalizing[r].session
         p == upload[u].project
         n == upload[u].snapshot
     IN /\ docs' = [docs EXCEPT ![p][n] = Merge(@, upload[u].docs)]
        /\ stage' = [stage EXCEPT ![p][n] = MergeStage(@, upload[u].docs)]
        /\ upload' = [upload EXCEPT ![u].state = "finalized"]
  /\ finalizing' = [finalizing EXCEPT ![r] = NoHandler]
  /\ UNCHANGED <<projectVars, status, job, worker, run, diskVars>>

FinalizeCommit_Unchecked(r) == finalizing[r].stored /\ ApplyFinalize(r)

(* It then locks the project row and checks its state, not the session's.  *)
FinalizeCommit(r) ==
  /\ finalizing[r].stored
  /\ pstate[upload[finalizing[r].session].project] \notin Frozen
  /\ ApplyFinalize(r)

(* The handler answers a conflict or an invalid document, or its process   *)
(* stops.  Its transaction is rolled back, but the files it has renamed,   *)
(* one part after the other, stay in the blob store.                       *)
FinalizeAbort(r) ==
  /\ finalizing[r].session # None
  /\ LET u == finalizing[r].session
     IN \/ UNCHANGED upload
        \/ /\ ~finalizing[r].stored
           /\ upload[u].parts = "received"
           /\ upload' = [upload EXCEPT ![u].parts = "moved"]
  /\ finalizing' = [finalizing EXCEPT ![r] = NoHandler]
  /\ UNCHANGED <<projectVars, snapshotVars, job, worker, run, diskVars>>

(* The row of f goes from the snapshot n.                                  *)
RemoveRow(p, n, f) ==
  /\ docs[p][n][f] # None
  /\ docs' = [docs EXCEPT ![p][n][f] = None]
  /\ stage' = [stage EXCEPT ![p][n][f] = "none"]
  /\ UNCHANGED <<projectVars, status, apiVars, job, worker, run, diskVars>>

DeleteFile_AnySnapshot(r, p, f) ==
  /\ Free(r)
  /\ pstate[p] \notin Frozen
  /\ \E n \in Index : RemoveRow(p, n, f)

DeleteFile(r, p, f) ==
  /\ Free(r)
  /\ pstate[p] \notin Frozen
  /\ \E n \in Index : IsDraft(p, n) /\ RemoveRow(p, n, f)

(* The unique constraint on the submissions a key was used for.            *)
KeyUnused(p, k) == \A c \in Build : job[c].key = k => job[c].project # p

(* The job is inserted, its rows queued, the draft sealed.                 *)
Enqueue(p, n, b, k, expected) ==
  /\ job' = [job EXCEPT ![b] =
               [status |-> "queued", project |-> p, snapshot |-> n,
                expected |-> expected, key |-> k, error |-> "none"]]
  /\ status' = [status EXCEPT ![p][n] = "sealed"]
  /\ stage' = [stage EXCEPT ![p][n] = AllAt(docs[p][n], "queued")]
  /\ pstate' = [pstate EXCEPT ![p] = "queued"]
  /\ UNCHANGED <<active, version, generation, docs, apiVars, worker, run,
                 diskVars>>

SubmitBuild(r, p, b, k) ==
  /\ Free(r)
  /\ pstate[p] \notin Frozen
  /\ IsNextBuild(b)
  /\ KeyUnused(p, k)
  /\ \E n \in Index :
       /\ IsDraft(p, n)
       /\ OpenSessions(p, n) = {}
       /\ docs[p][n] # EmptyDocs
       /\ Enqueue(p, n, b, k, generation[p])

Archive(r, p) ==
  /\ Free(r)
  /\ pstate[p] \notin Frozen
  /\ pstate' = [pstate EXCEPT ![p] = "archived"]
  /\ UNCHANGED <<active, version, generation, snapshotVars, apiVars, job,
                 worker, run, diskVars>>

RestoredState(p) == IF version[p] # None THEN "ready" ELSE "draft"

Restore(r, p) ==
  /\ Free(r)
  /\ pstate[p] = "archived"
  /\ pstate' = [pstate EXCEPT ![p] = RestoredState(p)]
  /\ UNCHANGED <<active, version, generation, snapshotVars, apiVars, job,
                 worker, run, diskVars>>

-----------------------------------------------------------------------------
(* The clock, and the cleanup loop of the API process.                     *)

SessionLapses(u) ==
  /\ upload[u].state = "open"
  /\ ~upload[u].lapsed
  /\ upload' = [upload EXCEPT ![u].lapsed = TRUE]
  /\ UNCHANGED <<projectVars, snapshotVars, finalizing, job, worker, run,
                 diskVars>>

LapsedSessions_WithFiles ==
  {u \in Session : /\ upload[u].state = "open"
                   /\ upload[u].lapsed
                   /\ upload[u].parts = "received"}

LapsedSessions == {u \in Session : upload[u].state = "open" /\ upload[u].lapsed}

Unlinked(parts) == IF parts = "received" THEN "unlinked" ELSE parts

CleanupExpiredUploads ==
  /\ LapsedSessions # {}
  /\ upload' = [u \in Session |-> IF u \in LapsedSessions
                                  THEN [upload[u] EXCEPT !.state = "expired",
                                                         !.parts = Unlinked(@)]
                                  ELSE upload[u]]
  /\ UNCHANGED <<projectVars, snapshotVars, finalizing, job, worker, run,
                 diskVars>>
-----------------------------------------------------------------------------
(* The worker process.                                                     *)

Jobs(st) == {b \in Build : job[b].status = st}
JobsOf(p, st) == {b \in Jobs(st) : job[b].project = p}

(* A restarted worker first puts back what it was building.                *)
RequeuedSnapshots == {<<job[b].project, job[b].snapshot>> :
                        b \in Jobs("building") \cup Jobs("queued")}

RequeuedState_Kept(p) == pstate[p]

RequeuedState(p) == IF JobsOf(p, "building") # {} THEN "queued" ELSE pstate[p]

RequeuedJob_Kept(b) == job[b]

RequeuedJob(b) == IF job[b].status = "building"
                  THEN [job[b] EXCEPT !.status = "queued"] ELSE job[b]

WorkerStart ==
  /\ worker.phase = "down"
  /\ job' = [b \in Build |-> RequeuedJob(b)]
  /\ pstate' = [p \in Project |-> RequeuedState(p)]
  /\ stage' = [p \in Project |-> [n \in Index |->
                 IF <<p, n>> \in RequeuedSnapshots
                 THEN AllAt(docs[p][n], "queued") ELSE stage[p][n]]]
  /\ worker' = Resting("polling")
  /\ UNCHANGED <<active, version, generation, status, docs, apiVars, run,
                 diskVars>>

(* claim_build: the oldest queued job, while no job is building.           *)
Claim(b) ==
  /\ worker.phase = "polling"
  /\ Jobs("building") = {}
  /\ b \in Jobs("queued")
  /\ \A c \in Jobs("queued") : b <= c
  /\ LET p == job[b].project
         n == job[b].snapshot
     IN /\ job' = [job EXCEPT ![b].status = "building"]
        /\ pstate' = [pstate EXCEPT ![p] = "building"]
        /\ stage' = [stage EXCEPT ![p][n] = AllAt(docs[p][n], "processing")]
  /\ worker' = [Resting("claimed") EXCEPT !.build = b]
  /\ UNCHANGED <<active, version, generation, status, docs, apiVars, run,
                 diskVars>>

SourceDocs == docs[job[worker.build].project][job[worker.build].snapshot]
FailWith(code) == [worker EXCEPT !.phase = "failing", !.error = code]

(* _build reads the sealed rows and makes the build's source directory,    *)
(* which must not exist.                                                   *)
MakeBuildRoot ==
  /\ worker.phase = "claimed"
  /\ \/ /\ SourceDocs = EmptyDocs
        /\ worker' = FailWith("empty_snapshot")
        /\ UNCHANGED buildRoot
     \/ /\ SourceDocs # EmptyDocs
        /\ worker.build \in buildRoot
        /\ worker' = FailWith("build_root_exists")
        /\ UNCHANGED buildRoot
     \/ /\ SourceDocs # EmptyDocs
        /\ worker.build \notin buildRoot
        /\ worker' = [worker EXCEPT !.phase = "staging", !.docs = SourceDocs]
        /\ buildRoot' = buildRoot \cup {worker.build}
  /\ UNCHANGED <<projectVars, snapshotVars, apiVars, job, run, corpus>>

(* Conversion, graph build and indexing, reporting progress on the rows.   *)
StageVersion ==
  /\ worker.phase = "staging"
  /\ LET p == job[worker.build].project
         n == job[worker.build].snapshot
     IN stage' = [stage EXCEPT ![p][n] = AllAt(docs[p][n], "processing")]
  /\ worker' = [worker EXCEPT !.phase = "staged"]
  /\ UNCHANGED <<projectVars, status, docs, apiVars, job, run, diskVars>>

(* The staged directory is renamed to versions/<graph version>.            *)
Publish ==
  /\ worker.phase = "staged"
  /\ LET v == GraphVersion(worker.build)
     IN \/ /\ corpus[v] # EmptyDocs
           /\ worker' = FailWith("version_collision")
           /\ UNCHANGED corpus
        \/ /\ corpus[v] = EmptyDocs
           /\ worker' = [worker EXCEPT !.phase = "published"]
           /\ corpus' = [corpus EXCEPT ![v] = worker.docs]
  /\ UNCHANGED <<projectVars, snapshotVars, apiVars, job, run, buildRoot>>

RemoveBuildRoot ==
  /\ worker.phase = "published"
  /\ buildRoot' = buildRoot \ {worker.build}
  /\ worker' = [worker EXCEPT !.phase = "completing"]
  /\ UNCHANGED <<projectVars, snapshotVars, apiVars, job, run, corpus>>

(* Any step of the build may raise: bad input, Graphify, disk, database.   *)
BuildRaises ==
  /\ worker.phase \in {"claimed", "staging", "staged", "published",
                       "completing"}
  /\ worker' = FailWith("build_error")
  /\ UNCHANGED <<projectVars, snapshotVars, apiVars, job, run, diskVars>>

(* complete_build: the generation compare-and-set that activates.          *)
MayActivate_AnyGeneration(b) == job[b].status = "building"

MayActivate(b) ==
  /\ generation[job[b].project] = job[b].expected
  /\ job[b].status = "building"

(* What was active is validated.                                           *)
Superseded_Kept(p) == status[p]

Superseded(p) == [i \in Index |-> IF status[p][i] = "active" THEN "validated"
                                 ELSE status[p][i]]

(* Under row locks the compare-and-set never fails (ActivationUnopposed in *)
(* ProjectBuildsProofs); ProjectBuildsAutocommit has its other branch.     *)
Complete ==
  /\ worker.phase = "completing"
  /\ MayActivate(worker.build)
  /\ LET b == worker.build
         p == job[b].project
         n == job[b].snapshot
     IN /\ \E m \in Index :
             /\ IsNextSnapshot(p, m)
             /\ status' = [status EXCEPT ![p] =
                  [Superseded(p) EXCEPT ![n] = "active", ![m] = "editable"]]
             /\ docs' = [docs EXCEPT ![p][m] = docs[p][n]]
             /\ stage' = [stage EXCEPT ![p][m] = AllAt(docs[p][n], "ready"),
                                      ![p][n] = AllAt(docs[p][n], "ready")]
        /\ active' = [active EXCEPT ![p] = n]
        /\ version' = [version EXCEPT ![p] = GraphVersion(b)]
        /\ generation' = [generation EXCEPT ![p] = @ + 1]
        /\ pstate' = [pstate EXCEPT ![p] = "ready"]
        /\ job' = [job EXCEPT ![b].status = "ready"]
  /\ worker' = Resting("polling")
  /\ UNCHANGED <<apiVars, run, diskVars>>

FailedJob_OnlyError(b) == [job[b] EXCEPT !.error = worker.error]
FailedSnapshot_Kept(p, n) == status[p][n]
FailedStage_Kept(p, n) == stage[p][n]

(* The rows fail_build writes.                                             *)
FailedJob(b) == [job[b] EXCEPT !.status = "failed", !.error = worker.error]
FailedSnapshot(p, n) == "editable"
FailedStage(p, n) == AllAt(docs[p][n], "failed")

(* fail_build: unconditional, whatever the job's status is by now.         *)
Fail ==
  /\ worker.phase = "failing"
  /\ LET b == worker.build
         p == job[b].project
         n == job[b].snapshot
     IN /\ job' = [job EXCEPT ![b] = FailedJob(b)]
        /\ status' = [status EXCEPT ![p][n] = FailedSnapshot(p, n)]
        /\ stage' = [stage EXCEPT ![p][n] = FailedStage(p, n)]
        /\ pstate' = [pstate EXCEPT ![p] =
                        IF version[p] # None THEN "ready" ELSE "failed"]
  /\ worker' = [worker EXCEPT !.phase = "cleaning"]
  /\ UNCHANGED <<active, version, generation, docs, apiVars, run, diskVars>>

CleanFailedRoot ==
  /\ worker.phase = "cleaning"
  /\ buildRoot' = buildRoot \ {worker.build}
  /\ worker' = Resting("polling")
  /\ UNCHANGED <<projectVars, snapshotVars, apiVars, job, run, corpus>>

(* The process dies: its local state is gone, rows and directories stay.   *)
Crash ==
  /\ worker.phase # "down"
  /\ run < MaxCrashes
  /\ run' = run + 1
  /\ worker' = Resting("down")
  /\ UNCHANGED <<projectVars, snapshotVars, apiVars, job, diskVars>>

-----------------------------------------------------------------------------

Init ==
  /\ pstate = [p \in Project |-> "absent"]
  /\ active = [p \in Project |-> None]
  /\ version = [p \in Project |-> None]
  /\ generation = [p \in Project |-> 0]
  /\ status = [p \in Project |-> [n \in Index |-> "none"]]
  /\ docs = [p \in Project |-> [n \in Index |-> EmptyDocs]]
  /\ stage = [p \in Project |-> [n \in Index |-> [f \in Name |-> "none"]]]
  /\ upload = [u \in Session |-> NoSessionRow]
  /\ job = [b \in Build |-> NoJobRow]
  /\ finalizing = [r \in Request |-> NoHandler]
  /\ worker = Resting("down")
  /\ run = 0
  /\ buildRoot = {}
  /\ corpus = [v \in Version |-> EmptyDocs]

ApiStep(r) ==
  \/ \E p \in Project :
       \/ CreateProject(r, p)
       \/ \E u \in Session, d \in Docs \ {EmptyDocs} :
            CreateUploadSession(r, p, u, d)
       \/ \E f \in Name : DeleteFile(r, p, f)
       \/ \E b \in Build, k \in Key : SubmitBuild(r, p, b, k)
       \/ Archive(r, p)
       \/ Restore(r, p)
  \/ \E u \in Session : StartReceiving(r, u) \/ FinalizeValidate(r, u)
  \/ FinalizeStore(r)
  \/ FinalizeCommit(r)
  \/ FinalizeAbort(r)

BackgroundStep ==
  \/ CleanupExpiredUploads
  \/ \E u \in Session : SessionLapses(u) \/ FinishReceiving(u)

WorkerStep ==
  \/ WorkerStart
  \/ \E b \in Build : Claim(b)
  \/ MakeBuildRoot
  \/ StageVersion
  \/ Publish
  \/ RemoveBuildRoot
  \/ Complete
  \/ Fail
  \/ CleanFailedRoot

Next ==
  \/ \E r \in Request : ApiStep(r)
  \/ BackgroundStep
  \/ WorkerStep
  \/ BuildRaises
  \/ Crash

Spec == Init /\ [][Next]_vars

(* The container restarts the worker and its loop always takes its next    *)
(* step; time passes.  Nothing obliges a client to send a request, a build *)
(* to raise or the worker to crash, and nothing brings the cleanup loop    *)
(* back once an exception has ended it.                                    *)
Fairness ==
  /\ WF_vars(WorkerStep)
  /\ \A u \in Session : WF_vars(SessionLapses(u))

FairSpec == Spec /\ Fairness
-----------------------------------------------------------------------------
(* Safety.                                                                 *)

BuildsInFlight(p) == JobsOf(p, "queued") \cup JobsOf(p, "building")

(* submit_build refuses a project whose build is queued or building, and   *)
(* claim_build waits for the one that is building: a project has at most   *)
(* one build in flight and the worker's queue at most one that is          *)
(* building, over crashes and recover_builds.                              *)
OneBuildInFlight ==
  /\ \A p \in Project : \A b, c \in BuildsInFlight(p) : b = c
  /\ \A b, c \in Jobs("building") : b = c

(* ProjectRow.state is written by seven handlers and by recover_builds: it *)
(* says queued, or building, exactly when a job of the project is.         *)
ProjectStateMatchesJobs ==
  \A p \in Project :
    /\ pstate[p] = "queued" <=> JobsOf(p, "queued") # {}
    /\ pstate[p] = "building" <=> JobsOf(p, "building") # {}

(* Every created project has one snapshot the next build is made of: an    *)
(* editable draft, or the sealed snapshot of the build in flight, which    *)
(* expects the generation the project still has (so the compare-and-set of *)
(* complete_build succeeds).                                               *)
OneDraftOrSealed ==
  \A p \in Project :
    /\ pstate[p] # "absent" =>
         \E n \in Index : \A m \in Index :
            status[p][m] \in {"editable", "sealed"} <=> m = n
    /\ \A b \in BuildsInFlight(p) : /\ status[p][job[b].snapshot] = "sealed"
                                    /\ job[b].expected = generation[p]
    /\ \A n \in Index : status[p][n] = "sealed" =>
         \E b \in BuildsInFlight(p) : job[b].snapshot = n

(* The version a project serves is one the worker published, and the       *)
(* snapshot it points to is the only active one.                           *)
ActiveIsPublished ==
  \A p \in Project :
    /\ version[p] = None <=> active[p] = None
    /\ version[p] # None => corpus[version[p]] # EmptyDocs
    /\ \A n \in Index : status[p][n] = "active" <=> n = active[p]

(* An open session pins the snapshot its files will go to: that snapshot   *)
(* stays the editable draft for as long as the session is open.            *)
OpenSessionsTargetDraft ==
  \A u \in Session : upload[u].state = "open" =>
    status[upload[u].project][upload[u].snapshot] = "editable"

(* A lifecycle stage of a running build is shown only on the rows of a     *)
(* build in flight: no file is left queued or processing by a failure, a   *)
(* crash or a completion.                                                  *)
RowsSettle ==
  \A p \in Project, n \in Index, f \in Name :
    stage[p][n][f] \in {"queued", "processing"} =>
      \E b \in BuildsInFlight(p) : job[b].snapshot = n

(* A job is building only while the worker is building it, or while the    *)
(* process is down; what the worker converts, and publishes, are the files *)
(* its sealed snapshot still has.                                          *)
WorkerHoldsItsBuild ==
  /\ \A b \in Jobs("building") :
       worker.phase # "down" => worker.phase \in Busy /\ worker.build = b
  /\ worker.phase \in Busy => worker.build \in Jobs("building")
  /\ worker.phase \in {"staging", "staged", "published", "completing"} =>
       worker.docs = SourceDocs /\ worker.docs # EmptyDocs
  /\ worker.phase \in {"published", "completing"} =>
       corpus[GraphVersion(worker.build)] = worker.docs

(* What the served graph was built of is what the active snapshot lists.   *)
ActiveMatchesGraph ==
  \A p \in Project : version[p] # None => docs[p][active[p]] = corpus[version[p]]

(* A build that fails leaves the snapshot that is served as it is: still    *)
(* active, with the same files at the same stages.                         *)
FailedBuildsLeaveActive ==
  [][\A p \in Project :
       /\ active[p] # None
       /\ \E b \in Build : /\ job[b].project = p
                          /\ job[b].status # "failed"
                          /\ job'[b].status = "failed"
       => LET n == active[p]
          IN /\ active'[p] = n
             /\ status'[p][n] = status[p][n]
             /\ docs'[p][n] = docs[p][n]
             /\ stage'[p][n] = stage[p][n]]_vars

(* The compare-and-set of complete_build: builds of the same draft may be   *)
(* queued twice where submissions interleave, but no two of them activate  *)
(* on top of the same generation, and each generation was made by one.     *)
OneActivationPerGeneration ==
  \A p \in Project :
    /\ \A b, c \in JobsOf(p, "ready") : job[b].expected = job[c].expected => b = c
    /\ generation[p] = Cardinality(JobsOf(p, "ready"))

-----------------------------------------------------------------------------
(* Liveness.                                                               *)

(* Every build that is queued becomes ready or failed, whatever raises and *)
(* however often (finitely) the worker crashes.                            *)
BuildsSettle ==
  \A b \in Build : job[b].status \in InFlight ~> job[b].status \in {"ready", "failed"}

(* As long as no exception has ended the cleanup loop, an upload session   *)
(* does not block submissions for ever.                                    *)
CleanupClosesSessions ==
  WF_vars(CleanupExpiredUploads) =>
    \A u \in Session : upload[u].state = "open" ~> upload[u].state # "open"
-----------------------------------------------------------------------------
(* The abstract specification this module implements.                      *)

Pending == [p \in Project |->
  IF BuildsInFlight(p) = {} THEN None
  ELSE docs[p][job[CHOOSE b \in BuildsInFlight(p) : TRUE].snapshot]]
Serving == [p \in Project |->
  IF version[p] = None THEN None ELSE corpus[version[p]]]

Abstract == INSTANCE CorpusActivation
  WITH Corpus <- Docs \ {EmptyDocs}, pending <- Pending, serving <- Serving

(* The lifecycle implements CorpusActivation: a build activates exactly    *)
(* the files that were sealed when it was submitted, whatever is uploaded, *)
(* deleted, retried or restarted meanwhile, and a failed build leaves the  *)
(* served corpus alone.                                                    *)
ImplementsActivation == Abstract!Spec

============================================================================
