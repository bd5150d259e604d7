------------------------ MODULE ProjectBuildsProofs ------------------------
(***************************************************************************)
(* Proofs about ProjectBuilds, for every set of projects, requests,        *)
(* snapshots, sessions, jobs, keys, names and contents, and every bound.   *)
(***************************************************************************)
EXTENDS ProjectBuilds, FiniteSetTheorems, TLAPS

(* Outside its two resting phases the worker has a build, and a handler    *)
(* that has stored the files of a session has a session: what a step has   *)
(* to know to keep the types.                                              *)
HoldersOK ==
  /\ worker.phase \notin {"down", "polling"} => worker.build \in Build
  /\ \A r \in Request : finalizing[r].stored => finalizing[r].session \in Session

TypeInv == TypeOK /\ HoldersOK

-----------------------------------------------------------------------------
(* Helpers.                                                                *)

LEMMA EmptyDocsType == EmptyDocs \in Docs
  BY DEF EmptyDocs, Docs

LEMMA AllAtType ==
  ASSUME NEW d \in Docs, NEW st \in Stage
  PROVE  AllAt(d, st) \in [Name -> Stage]
  BY DEF AllAt, Stage

LEMMA MergeType ==
  ASSUME NEW old \in Docs, NEW new \in Docs
  PROVE  Merge(old, new) \in Docs
  BY DEF Merge, Docs

LEMMA MergeStageType ==
  ASSUME NEW old \in [Name -> Stage], NEW new \in Docs
  PROVE  MergeStage(old, new) \in [Name -> Stage]
  BY DEF MergeStage, Docs, Stage

LEMMA GraphVersionType ==
  ASSUME NEW b \in Build, run \in 0 .. MaxCrashes
  PROVE  GraphVersion(b) \in Version
  BY BoundsAssumption DEF GraphVersion, Version

LEMMA RestingType ==
  ASSUME NEW ph \in Phase
  PROVE  Resting(ph) \in WorkerState
  BY EmptyDocsType DEF Resting, WorkerState, ErrorCode

(* One field of a session row is changed.                                  *)
LEMMA SessionRowType ==
  ASSUME upload \in [Session -> SessionRow], NEW u \in Session
  PROVE  /\ \A st \in {"open", "finalized", "expired"} :
              [upload EXCEPT ![u].state = st] \in [Session -> SessionRow]
         /\ \A parts \in PartsState :
              [upload EXCEPT ![u].parts = parts] \in [Session -> SessionRow]
  BY DEF SessionRow, PartsState

LEMMA NullRowsType ==
  /\ NoSessionRow \in SessionRow
  /\ NoJobRow \in JobRow
  /\ NoHandler \in Handler
<1>1. (CHOOSE p \in Project : TRUE) \in Project
  BY IdsAssumption
<1>2. NoSessionRow \in SessionRow
  BY <1>1, IdsAssumption, EmptyDocsType DEF NoSessionRow, SessionRow, PartsState
<1>3. NoJobRow \in JobRow
  BY <1>1, IdsAssumption DEF NoJobRow, JobRow, JobStatus, ErrorCode
<1>4. NoHandler \in Handler
  BY DEF NoHandler, Handler
<1> QED BY <1>2, <1>3, <1>4

-----------------------------------------------------------------------------
(* Type correctness.                                                       *)

LEMMA InitType == Init => TypeInv
<1> SUFFICES ASSUME Init PROVE TypeInv
  OBVIOUS
<1>1. TypeOK
  BY NullRowsType, EmptyDocsType, RestingType, BoundsAssumption, IdsAssumption
     DEF Init, TypeOK, ProjectState, SnapshotStatus, Stage, Phase
<1>2. HoldersOK
  BY DEF Init, HoldersOK, Resting, NoHandler
<1> QED BY <1>1, <1>2 DEF TypeInv

(* The transactions that two variants of a handler share.                  *)
LEMMA ApplyFinalizeType ==
  ASSUME TypeInv, NEW r \in Request, finalizing[r].stored, ApplyFinalize(r)
  PROVE  TypeInv'
<1> USE DEF TypeInv, HoldersOK, TypeOK
<1> DEFINE u == finalizing[r].session
           p == upload[u].project
           n == upload[u].snapshot
<1>1. u \in Session /\ p \in Project /\ n \in Index /\ upload[u].docs \in Docs
  BY DEF SessionRow
<1>2. Merge(docs[p][n], upload[u].docs) \in Docs
  BY <1>1, MergeType
<1>3. MergeStage(stage[p][n], upload[u].docs) \in [Name -> Stage]
  BY <1>1, MergeStageType
<1>4. /\ docs' = [docs EXCEPT ![p][n] = Merge(docs[p][n], upload[u].docs)]
      /\ stage' = [stage EXCEPT ![p][n] = MergeStage(stage[p][n], upload[u].docs)]
      /\ upload' = [upload EXCEPT ![u].state = "finalized"]
      /\ finalizing' = [finalizing EXCEPT ![r] = NoHandler]
      /\ UNCHANGED <<projectVars, status, job, worker, run, diskVars>>
  BY <1>1 DEF ApplyFinalize
<1> HIDE DEF u, p, n
<1>5. docs' \in [Project -> [Index -> Docs]]
  BY <1>1, <1>2, <1>4
<1>6. stage' \in [Project -> [Index -> [Name -> Stage]]]
  BY <1>1, <1>3, <1>4
<1>7. upload' \in [Session -> SessionRow]
  BY <1>1, <1>4, SessionRowType
<1> QED
  BY <1>4, <1>5, <1>6, <1>7, NullRowsType DEF projectVars, diskVars, NoHandler

LEMMA EnqueueType ==
  ASSUME TypeInv, NEW p \in Project, NEW n \in Index, NEW b \in Build,
         NEW k \in Key, NEW expected \in Nat, Enqueue(p, n, b, k, expected)
  PROVE  TypeInv'
<1> USE DEF TypeInv, HoldersOK, TypeOK
<1>1. AllAt(docs[p][n], "queued") \in [Name -> Stage]
  BY AllAtType DEF Stage
<1>2. job' \in [Build -> JobRow]
  BY DEF Enqueue, JobRow, JobStatus, ErrorCode
<1> QED
  BY <1>1, <1>2 DEF Enqueue, apiVars, diskVars, ProjectState, SnapshotStatus

LEMMA RemoveRowType ==
  ASSUME TypeInv, NEW p \in Project, NEW n \in Index, NEW f \in Name,
         RemoveRow(p, n, f)
  PROVE  TypeInv'
  BY DEF TypeInv, HoldersOK, TypeOK, RemoveRow, projectVars, apiVars, diskVars,
         Docs, Stage

(* Every step keeps the types.                                             *)
LEMMA StepType == TypeInv /\ [Next]_vars => TypeInv'
<1> SUFFICES ASSUME TypeInv, [Next]_vars
             PROVE  TypeInv'
  OBVIOUS
<1> USE DEF TypeInv, HoldersOK, TypeOK
<1>1. ASSUME NEW r \in Request, NEW p \in Project, CreateProject(r, p)
      PROVE  TypeInv'
  BY <1>1 DEF CreateProject, apiVars, diskVars, ProjectState, SnapshotStatus
<1>2. ASSUME NEW r \in Request, NEW p \in Project, NEW u \in Session,
             NEW d \in Docs, CreateUploadSession(r, p, u, d)
      PROVE  TypeInv'
  BY <1>2 DEF CreateUploadSession, projectVars, snapshotVars, diskVars,
              SessionRow, PartsState
<1>3. ASSUME NEW r \in Request, NEW u \in Session, StartReceiving(r, u)
      PROVE  TypeInv'
  BY <1>3 DEF StartReceiving, projectVars, snapshotVars, diskVars, SessionRow,
              PartsState
<1>4. ASSUME NEW u \in Session, FinishReceiving(u)
      PROVE  TypeInv'
  <2>1. PICK outcome \in PartsState :
          upload' = [upload EXCEPT ![u].parts = outcome]
    BY <1>4 DEF FinishReceiving, PartsState
  <2>2. upload' \in [Session -> SessionRow]
    BY <2>1, SessionRowType
  <2> QED
    BY <1>4, <2>2 DEF FinishReceiving, projectVars, snapshotVars, diskVars
<1>5. ASSUME NEW r \in Request, NEW u \in Session, FinalizeValidate(r, u)
      PROVE  TypeInv'
  BY <1>5 DEF FinalizeValidate, projectVars, snapshotVars, diskVars, Handler
<1>6. ASSUME NEW r \in Request, FinalizeStore(r)
      PROVE  TypeInv'
  <2>1. finalizing[r].session \in Session
    BY <1>6 DEF FinalizeStore, Handler
  <2>2. upload' \in [Session -> SessionRow]
    BY <1>6, <2>1, SessionRowType DEF FinalizeStore, PartsState
  <2>3. finalizing' \in [Request -> Handler]
    BY <1>6 DEF FinalizeStore, Handler
  <2> QED
    BY <1>6, <2>1, <2>2, <2>3
       DEF FinalizeStore, projectVars, snapshotVars, diskVars
<1>7. ASSUME NEW r \in Request, FinalizeCommit(r)
      PROVE  TypeInv'
  BY <1>7, ApplyFinalizeType DEF FinalizeCommit
<1>8. ASSUME NEW r \in Request, FinalizeAbort(r)
      PROVE  TypeInv'
  <2>1. finalizing[r].session \in Session
    BY <1>8 DEF FinalizeAbort, Handler
  <2>2. upload' \in [Session -> SessionRow]
    <3>1. PICK u \in Session : u = finalizing[r].session
      BY <2>1
    <3>2. [upload EXCEPT ![u].parts = "moved"] \in [Session -> SessionRow]
      BY SessionRowType DEF PartsState
    <3>3. upload' = upload \/ upload' = [upload EXCEPT ![u].parts = "moved"]
      BY <1>8, <3>1 DEF FinalizeAbort
    <3> QED
      BY <3>2, <3>3
  <2> QED
    BY <1>8, <2>2, NullRowsType
       DEF FinalizeAbort, projectVars, snapshotVars, diskVars, NoHandler
<1>9. ASSUME NEW r \in Request, NEW p \in Project, NEW f \in Name,
             DeleteFile(r, p, f)
      PROVE  TypeInv'
  BY <1>9, RemoveRowType DEF DeleteFile
<1>10. ASSUME NEW r \in Request, NEW p \in Project, NEW b \in Build,
              NEW k \in Key, SubmitBuild(r, p, b, k)
       PROVE  TypeInv'
  BY <1>10, EnqueueType DEF SubmitBuild
<1>11. ASSUME NEW r \in Request, NEW p \in Project, Archive(r, p) \/ Restore(r, p)
       PROVE  TypeInv'
  BY <1>11 DEF Archive, Restore, RestoredState, snapshotVars, apiVars, diskVars,
               ProjectState
<1>12. ASSUME NEW u \in Session, SessionLapses(u)
       PROVE  TypeInv'
  BY <1>12 DEF SessionLapses, projectVars, snapshotVars, diskVars, SessionRow
<1>13. CASE CleanupExpiredUploads
  BY <1>13 DEF CleanupExpiredUploads, Unlinked, projectVars, snapshotVars,
               diskVars, SessionRow, PartsState
<1>14. CASE WorkerStart
  <2>1. job' \in [Build -> JobRow]
    BY <1>14 DEF WorkerStart, RequeuedJob, JobRow, JobStatus
  <2>2. pstate' \in [Project -> ProjectState]
    BY <1>14 DEF WorkerStart, RequeuedState, ProjectState
  <2>3. stage' \in [Project -> [Index -> [Name -> Stage]]]
    BY <1>14, AllAtType DEF WorkerStart, Stage
  <2>4. worker' \in WorkerState
    BY <1>14, RestingType DEF WorkerStart, Phase
  <2> QED
    BY <1>14, <2>1, <2>2, <2>3, <2>4 DEF WorkerStart, Resting, apiVars, diskVars
<1>15. ASSUME NEW b \in Build, Claim(b)
       PROVE  TypeInv'
  <2>1. job[b].project \in Project /\ job[b].snapshot \in Index
    BY DEF JobRow
  <2>2. AllAt(docs[job[b].project][job[b].snapshot], "processing")
          \in [Name -> Stage]
    BY <2>1, AllAtType DEF Stage
  <2>3. worker' \in WorkerState /\ worker'.build = b
    BY <1>15, EmptyDocsType DEF Claim, Resting, WorkerState, Phase, ErrorCode
  <2>4. job' \in [Build -> JobRow]
    BY <1>15 DEF Claim, JobRow, JobStatus
  <2> QED
    BY <1>15, <2>1, <2>2, <2>3, <2>4 DEF Claim, apiVars, diskVars, ProjectState
<1>16. CASE MakeBuildRoot
  <2>1. worker.build \in Build /\ SourceDocs \in Docs
    BY <1>16 DEF MakeBuildRoot, SourceDocs, JobRow
  <2> QED
    BY <1>16, <2>1 DEF MakeBuildRoot, FailWith, projectVars, snapshotVars,
                       apiVars, WorkerState, Phase, ErrorCode
<1>17. CASE StageVersion
  <2>1. /\ job[worker.build].project \in Project
        /\ job[worker.build].snapshot \in Index
    BY <1>17 DEF StageVersion, JobRow
  <2>2. AllAt(docs[job[worker.build].project][job[worker.build].snapshot],
              "processing") \in [Name -> Stage]
    BY <2>1, AllAtType DEF Stage
  <2> QED
    BY <1>17, <2>1, <2>2 DEF StageVersion, projectVars, apiVars, diskVars,
                             WorkerState, Phase
<1>18. CASE Publish
  <2>1. worker.build \in Build /\ worker.docs \in Docs
    BY <1>18 DEF Publish, WorkerState
  <2> QED
    BY <1>18, <2>1 DEF Publish, FailWith, projectVars, snapshotVars, apiVars,
                       WorkerState, Phase, ErrorCode
<1>19. CASE RemoveBuildRoot \/ BuildRaises
  BY <1>19 DEF RemoveBuildRoot, BuildRaises, FailWith,
               projectVars, snapshotVars, apiVars, diskVars, WorkerState, Phase,
               ErrorCode
<1>20. CASE Complete
  <2> DEFINE b == worker.build
             p == job[b].project
             n == job[b].snapshot
  <2>1. b \in Build /\ p \in Project /\ n \in Index
    BY <1>20 DEF Complete, JobRow
  <2>2. PICK m \in Index :
          /\ status' = [status EXCEPT ![p] =
               [Superseded(p) EXCEPT ![n] = "active", ![m] = "editable"]]
          /\ docs' = [docs EXCEPT ![p][m] = docs[p][n]]
          /\ stage' = [stage EXCEPT ![p][m] = AllAt(docs[p][n], "ready"),
                                   ![p][n] = AllAt(docs[p][n], "ready")]
    BY <1>20 DEF Complete
  <2>3. /\ active' = [active EXCEPT ![p] = n]
        /\ version' = [version EXCEPT ![p] = GraphVersion(b)]
        /\ generation' = [generation EXCEPT ![p] = @ + 1]
        /\ pstate' = [pstate EXCEPT ![p] = "ready"]
        /\ job' = [job EXCEPT ![b].status = "ready"]
        /\ worker' = Resting("polling")
        /\ UNCHANGED <<apiVars, run, diskVars>>
    BY <1>20 DEF Complete
  <2>4. GraphVersion(b) \in Version
    BY <2>1, GraphVersionType
  <2> HIDE DEF b, p, n
  <2>5. docs[p][n] \in Docs /\ AllAt(docs[p][n], "ready") \in [Name -> Stage]
    BY <2>1, AllAtType DEF Stage
  <2>6. Superseded(p) \in [Index -> SnapshotStatus]
    BY <2>1 DEF Superseded, SnapshotStatus
  <2>7. status' \in [Project -> [Index -> SnapshotStatus]]
    BY <2>1, <2>2, <2>6 DEF SnapshotStatus
  <2>8. docs' \in [Project -> [Index -> Docs]]
    BY <2>1, <2>2, <2>5
  <2>9. stage' \in [Project -> [Index -> [Name -> Stage]]]
    BY <2>1, <2>2, <2>5
  <2>10. worker' \in WorkerState /\ worker'.phase = "polling"
    BY <2>3, RestingType DEF Resting, Phase
  <2>11. job' \in [Build -> JobRow]
    BY <2>1, <2>3 DEF JobRow, JobStatus
  <2> QED
    <3>1. /\ pstate' \in [Project -> ProjectState]
          /\ active' \in [Project -> Index \cup {None}]
          /\ generation' \in [Project -> Nat]
      BY <2>1, <2>3 DEF ProjectState
    <3>2. version' \in [Project -> Version \cup {None}]
      BY <2>1, <2>3, <2>4
    <3> QED
      BY <2>3, <2>7, <2>8, <2>9, <2>10, <2>11, <3>1, <3>2 DEF apiVars, diskVars
<1>21. CASE Fail
  <2> DEFINE b == worker.build
             p == job[b].project
             n == job[b].snapshot
  <2>1. b \in Build /\ p \in Project /\ n \in Index
    BY <1>21 DEF Fail, JobRow
  <2>2. FailedStage(p, n) \in [Name -> Stage]
    BY <2>1, AllAtType DEF FailedStage, Stage
  <2>3. FailedJob(b) \in JobRow
    BY <2>1 DEF FailedJob, JobRow, JobStatus, WorkerState
  <2>4. FailedSnapshot(p, n) \in SnapshotStatus
    BY DEF FailedSnapshot, SnapshotStatus
  <2>5. /\ job' = [job EXCEPT ![b] = FailedJob(b)]
        /\ status' = [status EXCEPT ![p][n] = FailedSnapshot(p, n)]
        /\ stage' = [stage EXCEPT ![p][n] = FailedStage(p, n)]
        /\ pstate' = [pstate EXCEPT ![p] =
                        IF version[p] # None THEN "ready" ELSE "failed"]
        /\ worker' = [worker EXCEPT !.phase = "cleaning"]
        /\ UNCHANGED <<active, version, generation, docs, apiVars, run, diskVars>>
    BY <1>21 DEF Fail
  <2> HIDE DEF b, p, n
  <2>6. worker' \in WorkerState /\ worker'.build = worker.build
    BY <2>5 DEF WorkerState, Phase
  <2>7. /\ pstate' \in [Project -> ProjectState]
        /\ status' \in [Project -> [Index -> SnapshotStatus]]
    BY <2>1, <2>4, <2>5 DEF ProjectState
  <2>8. stage' \in [Project -> [Index -> [Name -> Stage]]]
    BY <2>1, <2>2, <2>5
  <2>9. job' \in [Build -> JobRow]
    BY <2>1, <2>3, <2>5
  <2>10. worker'.phase = "cleaning" /\ worker.build \in Build
    BY <1>21, <2>5 DEF Fail, WorkerState
  <2> QED
    BY <2>5, <2>6, <2>7, <2>8, <2>9, <2>10 DEF apiVars, diskVars
<1>22. CASE CleanFailedRoot \/ Crash
  BY <1>22, RestingType, BoundsAssumption
     DEF CleanFailedRoot, Crash, Resting, projectVars, snapshotVars, apiVars,
         diskVars, Phase
<1>23. CASE UNCHANGED vars
  BY <1>23 DEF vars, projectVars, snapshotVars, diskVars
<1> QED
  BY <1>1, <1>2, <1>3, <1>4, <1>5, <1>6, <1>7, <1>8, <1>9, <1>10, <1>11, <1>12,
     <1>13, <1>14, <1>15, <1>16, <1>17, <1>18, <1>19, <1>20, <1>21, <1>22, <1>23
     DEF Next, ApiStep, BackgroundStep, WorkerStep

(* Every variable keeps its type in every behaviour of the lifecycle.      *)
THEOREM TypeCorrect == Spec => []TypeOK
<1>1. Init => TypeInv
  BY InitType
<1>2. TypeInv /\ [Next]_vars => TypeInv'
  BY StepType
<1>3. TypeInv => TypeOK
  BY DEF TypeInv
<1> QED BY <1>1, <1>2, <1>3, PTL DEF Spec

-----------------------------------------------------------------------------
(* The inductive invariant.                                                *)

(* A project that was not created has no snapshot.                         *)
AbsentIsEmpty ==
  \A p \in Project : pstate[p] = "absent" => \A n \in Index : status[p][n] = "none"

(* The safety invariants are inductive only together: what a job is        *)
(* follows from the project's state, what a snapshot is from the job, what *)
(* the worker may write from the phase it is in.                           *)
IInv ==
  /\ TypeInv
  /\ AbsentIsEmpty
  /\ OneBuildInFlight
  /\ ProjectStateMatchesJobs
  /\ OneDraftOrSealed
  /\ ActiveIsPublished
  /\ OpenSessionsTargetDraft
  /\ RowsSettle
  /\ WorkerHoldsItsBuild

LEMMA InitInv == Init => IInv
<1> SUFFICES ASSUME Init PROVE IInv
  OBVIOUS
<1>1. TypeInv
  BY InitType
<1>2. \A b \in Build : job[b].status = "none"
  BY DEF Init, NoJobRow
<1>3. \A p \in Project : BuildsInFlight(p) = {}
  BY <1>2 DEF BuildsInFlight, JobsOf, Jobs
<1>4. AbsentIsEmpty /\ OneDraftOrSealed
  BY <1>3 DEF Init, AbsentIsEmpty, OneDraftOrSealed
<1>5. OneBuildInFlight /\ ProjectStateMatchesJobs
  BY <1>2 DEF Init, OneBuildInFlight, ProjectStateMatchesJobs, BuildsInFlight,
              JobsOf, Jobs
<1>6. ActiveIsPublished
  BY IdsAssumption DEF Init, ActiveIsPublished
<1>7. OpenSessionsTargetDraft
  BY DEF Init, OpenSessionsTargetDraft, NoSessionRow
<1>8. RowsSettle
  BY DEF Init, RowsSettle
<1>9. WorkerHoldsItsBuild
  BY <1>2 DEF Init, WorkerHoldsItsBuild, Resting, Busy, Jobs
<1> QED
  BY <1>1, <1>4, <1>5, <1>6, <1>7, <1>8, <1>9 DEF IInv

(* What the invariant says of a project that takes requests.               *)
LEMMA NotFrozenIdle ==
  ASSUME IInv, NEW p \in Project, pstate[p] \notin Frozen
  PROVE  BuildsInFlight(p) = {}
  BY DEF IInv, ProjectStateMatchesJobs, BuildsInFlight, Frozen

(* A step that only moves uploads along, without opening a session.        *)
LEMMA UploadStep ==
  ASSUME IInv, TypeInv',
         UNCHANGED <<projectVars, snapshotVars, job, worker, run, diskVars>>,
         \A u \in Session : upload'[u].state = "open" =>
            /\ upload[u].state = "open"
            /\ upload'[u].project = upload[u].project
            /\ upload'[u].snapshot = upload[u].snapshot
  PROVE  IInv'
<1> USE DEF IInv, projectVars, snapshotVars, diskVars
<1>1. OpenSessionsTargetDraft'
  BY DEF OpenSessionsTargetDraft
<1>2. /\ AbsentIsEmpty'
      /\ OneBuildInFlight'
      /\ ProjectStateMatchesJobs'
      /\ OneDraftOrSealed'
      /\ ActiveIsPublished'
      /\ RowsSettle'
  BY DEF AbsentIsEmpty, OneBuildInFlight, ProjectStateMatchesJobs,
         OneDraftOrSealed, ActiveIsPublished, RowsSettle, BuildsInFlight,
         JobsOf, Jobs
<1>3. WorkerHoldsItsBuild'
  BY DEF WorkerHoldsItsBuild, SourceDocs, GraphVersion, Jobs
<1> QED BY <1>1, <1>2, <1>3

LEMMA CreateProjectInv ==
  ASSUME IInv, TypeInv', NEW r \in Request, NEW p \in Project, CreateProject(r, p)
  PROVE  IInv'
<1> USE DEF IInv
<1>1. /\ pstate[p] = "absent"
      /\ pstate' = [pstate EXCEPT ![p] = "draft"]
      /\ status' = [status EXCEPT ![p][1] = "editable"]
      /\ UNCHANGED <<active, version, generation, docs, stage, upload,
                     job, worker, run, diskVars>>
  BY DEF CreateProject, apiVars
<1>2. \A n \in Index : status[p][n] = "none"
  BY <1>1 DEF AbsentIsEmpty
<1>3. BuildsInFlight(p) = {}
  BY <1>1 DEF ProjectStateMatchesJobs, BuildsInFlight
<1>4. \A q \in Project : BuildsInFlight(q)' = BuildsInFlight(q)
  BY <1>1 DEF BuildsInFlight, JobsOf, Jobs
<1>5. AbsentIsEmpty'
  BY <1>1 DEF AbsentIsEmpty, TypeInv, TypeOK
<1>6. OneBuildInFlight'
  BY <1>1, <1>4 DEF OneBuildInFlight, Jobs
<1>7. ProjectStateMatchesJobs'
  BY <1>1, <1>3 DEF ProjectStateMatchesJobs, BuildsInFlight, JobsOf, Jobs,
                    TypeInv, TypeOK
<1>8. OneDraftOrSealed'
  <2> SUFFICES ASSUME NEW q \in Project
               PROVE  /\ pstate'[q] # "absent" =>
                           \E n \in Index : \A m \in Index :
                             status'[q][m] \in {"editable", "sealed"} <=> m = n
                      /\ \A b \in BuildsInFlight(q)' :
                           /\ status'[q][job'[b].snapshot] = "sealed"
                           /\ job'[b].expected = generation'[q]
                      /\ \A n \in Index : status'[q][n] = "sealed" =>
                           \E b \in BuildsInFlight(q)' : job'[b].snapshot = n
    BY DEF OneDraftOrSealed
  <2>1. CASE q # p
    <3>1. status'[q] = status[q] /\ pstate'[q] = pstate[q]
      BY <1>1, <2>1 DEF TypeInv, TypeOK
    <3> QED BY <1>1, <1>4, <3>1 DEF OneDraftOrSealed
  <2>2. CASE q = p
    <3>1. \A m \in Index : status'[p][m] = IF m = 1 THEN "editable" ELSE "none"
      BY <1>1, <1>2, IdsAssumption DEF TypeInv, TypeOK
    <3>2. 1 \in Index
      BY IdsAssumption
    <3> QED BY <1>3, <1>4, <2>2, <3>1, <3>2
  <2> QED BY <2>1, <2>2
<1>9. ActiveIsPublished'
  BY <1>1, <1>2 DEF ActiveIsPublished, TypeInv, TypeOK, diskVars
<1>10. OpenSessionsTargetDraft'
  BY <1>1, <1>2 DEF OpenSessionsTargetDraft, TypeInv, TypeOK, SessionRow
<1>11. RowsSettle'
  BY <1>1, <1>4 DEF RowsSettle
<1>12. WorkerHoldsItsBuild'
  BY <1>1 DEF WorkerHoldsItsBuild, SourceDocs, GraphVersion, Jobs, diskVars
<1> QED
  BY <1>5, <1>6, <1>7, <1>8, <1>9, <1>10, <1>11, <1>12

LEMMA CreateUploadSessionInv ==
  ASSUME IInv, TypeInv', NEW r \in Request, NEW p \in Project,
         NEW u \in Session, NEW d \in Docs, CreateUploadSession(r, p, u, d)
  PROVE  IInv'
<1> USE DEF IInv, projectVars, snapshotVars, diskVars
<1>1. PICK n \in Index :
        /\ status[p][n] = "editable"
        /\ upload' = [upload EXCEPT ![u] =
                        [state |-> "open", project |-> p, snapshot |-> n,
                         docs |-> d, parts |-> "pending", lapsed |-> FALSE]]
  BY DEF CreateUploadSession, IsDraft
<1>2. UNCHANGED <<projectVars, snapshotVars, job, worker, run, diskVars>>
  BY DEF CreateUploadSession
<1>3. OpenSessionsTargetDraft'
  BY <1>1, <1>2 DEF OpenSessionsTargetDraft, TypeInv, TypeOK
<1>4. /\ AbsentIsEmpty'
      /\ OneBuildInFlight'
      /\ ProjectStateMatchesJobs'
      /\ OneDraftOrSealed'
      /\ ActiveIsPublished'
      /\ RowsSettle'
  BY <1>2 DEF AbsentIsEmpty, OneBuildInFlight, ProjectStateMatchesJobs,
         OneDraftOrSealed, ActiveIsPublished, RowsSettle, BuildsInFlight,
         JobsOf, Jobs
<1>5. WorkerHoldsItsBuild'
  BY <1>2 DEF WorkerHoldsItsBuild, SourceDocs, GraphVersion, Jobs
<1> QED BY <1>3, <1>4, <1>5

(* A step that changes rows of a snapshot of a project no build of which   *)
(* is in flight, and no row to queued or processing.                       *)
LEMMA RowsStep ==
  ASSUME IInv, TypeInv', NEW p \in Project, BuildsInFlight(p) = {},
         UNCHANGED <<projectVars, status, job, worker, run, diskVars>>,
         \A q \in Project \ {p} : docs'[q] = docs[q] /\ stage'[q] = stage[q],
         \A n \in Index, f \in Name :
            stage'[p][n][f] \in {"queued", "processing"} =>
              stage[p][n][f] \in {"queued", "processing"},
         \A u \in Session : upload'[u].state = "open" =>
            /\ upload[u].state = "open"
            /\ upload'[u].project = upload[u].project
            /\ upload'[u].snapshot = upload[u].snapshot
  PROVE  IInv'
<1> USE DEF IInv, projectVars, diskVars
<1>1. \A q \in Project : BuildsInFlight(q)' = BuildsInFlight(q)
  BY DEF BuildsInFlight, JobsOf, Jobs
<1>2. /\ AbsentIsEmpty'
      /\ OneBuildInFlight'
      /\ ProjectStateMatchesJobs'
      /\ OneDraftOrSealed'
      /\ ActiveIsPublished'
  BY DEF AbsentIsEmpty, OneBuildInFlight, ProjectStateMatchesJobs,
         OneDraftOrSealed, ActiveIsPublished, BuildsInFlight, JobsOf, Jobs
<1>3. OpenSessionsTargetDraft'
  BY DEF OpenSessionsTargetDraft
<1>4. RowsSettle'
  BY <1>1 DEF RowsSettle
<1>5. WorkerHoldsItsBuild'
  <2>1. worker.phase \in Busy => job[worker.build].project \in Project \ {p}
    BY DEF WorkerHoldsItsBuild, BuildsInFlight, JobsOf, Jobs, TypeInv, TypeOK,
           JobRow
  <2>2. worker.phase \in Busy => SourceDocs' = SourceDocs
    BY <2>1 DEF SourceDocs
  <2> QED
    BY <2>2 DEF WorkerHoldsItsBuild, GraphVersion, Jobs, Busy
<1> QED BY <1>2, <1>3, <1>4, <1>5

LEMMA FinalizeCommitInv ==
  ASSUME IInv, TypeInv', NEW r \in Request, FinalizeCommit(r)
  PROVE  IInv'
<1> DEFINE u == finalizing[r].session
           p == upload[u].project
           n == upload[u].snapshot
<1> USE DEF IInv, TypeInv, TypeOK
<1>1. u \in Session /\ p \in Project /\ n \in Index
  BY DEF FinalizeCommit, HoldersOK, SessionRow
<1>2. /\ pstate[p] \notin Frozen
      /\ docs' = [docs EXCEPT ![p][n] = Merge(docs[p][n], upload[u].docs)]
      /\ stage' = [stage EXCEPT ![p][n] = MergeStage(stage[p][n], upload[u].docs)]
      /\ upload' = [upload EXCEPT ![u].state = "finalized"]
      /\ UNCHANGED <<projectVars, status, job, worker, run, diskVars>>
  BY <1>1 DEF FinalizeCommit, ApplyFinalize
<1> HIDE DEF u, p, n
<1>3. BuildsInFlight(p) = {}
  BY <1>1, <1>2, NotFrozenIdle
<1>4. \A q \in Project \ {p} : docs'[q] = docs[q] /\ stage'[q] = stage[q]
  BY <1>1, <1>2
<1>5. \A m \in Index : m # n => stage'[p][m] = stage[p][m]
  BY <1>1, <1>2
<1>6. \A f \in Name : stage'[p][n][f] \in {stage[p][n][f], "uploaded"}
  BY <1>1, <1>2 DEF MergeStage
<1>7. \A m \in Index, f \in Name :
        stage'[p][m][f] \in {"queued", "processing"} =>
          stage[p][m][f] \in {"queued", "processing"}
  BY <1>5, <1>6
<1>8. \A v \in Session : upload'[v].state = "open" =>
        /\ upload[v].state = "open"
        /\ upload'[v].project = upload[v].project
        /\ upload'[v].snapshot = upload[v].snapshot
  BY <1>1, <1>2 DEF SessionRow
<1> QED
  BY <1>1, <1>2, <1>3, <1>4, <1>7, <1>8, RowsStep

LEMMA DeleteFileInv ==
  ASSUME IInv, TypeInv', NEW r \in Request, NEW p \in Project, NEW f \in Name,
         DeleteFile(r, p, f)
  PROVE  IInv'
<1> USE DEF IInv, TypeInv, TypeOK
<1>1. PICK n \in Index : RemoveRow(p, n, f)
  BY DEF DeleteFile
<1>2. /\ pstate[p] \notin Frozen
      /\ docs' = [docs EXCEPT ![p][n][f] = None]
      /\ stage' = [stage EXCEPT ![p][n][f] = "none"]
      /\ UNCHANGED <<projectVars, status, upload, job, worker, run, diskVars>>
  BY <1>1 DEF DeleteFile, RemoveRow, apiVars
<1>3. BuildsInFlight(p) = {}
  BY <1>2, NotFrozenIdle
<1>4. \A q \in Project \ {p} : docs'[q] = docs[q] /\ stage'[q] = stage[q]
  BY <1>2
<1>5. \A m \in Index, g \in Name :
        stage'[p][m][g] \in {"queued", "processing"} =>
          stage[p][m][g] \in {"queued", "processing"}
  BY <1>2
<1> QED
  BY <1>2, <1>3, <1>4, <1>5, RowsStep

(* Nothing but the worker's own state and the directories change: the rows *)
(* stay, and what is published stays published.                            *)
LEMMA WorkerOnlyStep ==
  ASSUME IInv, TypeInv', UNCHANGED <<projectVars, snapshotVars, upload, job>>,
         \A v \in Version : corpus[v] # EmptyDocs => corpus'[v] # EmptyDocs,
         WorkerHoldsItsBuild'
  PROVE  IInv'
<1> USE DEF IInv, projectVars, snapshotVars
<1>1. /\ AbsentIsEmpty'
      /\ OneBuildInFlight'
      /\ ProjectStateMatchesJobs'
      /\ OneDraftOrSealed'
      /\ OpenSessionsTargetDraft'
      /\ RowsSettle'
  BY DEF AbsentIsEmpty, OneBuildInFlight, ProjectStateMatchesJobs,
         OneDraftOrSealed, OpenSessionsTargetDraft, RowsSettle, BuildsInFlight,
         JobsOf, Jobs
<1>2. \A p \in Project : version[p] # None => version[p] \in Version
  BY DEF TypeInv, TypeOK
<1>3. ActiveIsPublished'
  BY <1>2 DEF ActiveIsPublished
<1> QED BY <1>1, <1>3

LEMMA MakeBuildRootInv ==
  ASSUME IInv, TypeInv', MakeBuildRoot
  PROVE  IInv'
<1> USE DEF IInv
<1>1. /\ worker.phase = "claimed"
      /\ UNCHANGED <<projectVars, snapshotVars, upload, job, run, corpus>>
  BY DEF MakeBuildRoot, apiVars
<1>2. \/ worker'.phase = "failing" /\ worker'.build = worker.build
      \/ /\ worker'.phase = "staging" /\ worker'.build = worker.build
         /\ worker'.docs = SourceDocs /\ SourceDocs # EmptyDocs
  BY DEF MakeBuildRoot, FailWith, TypeInv, TypeOK, WorkerState
<1>3. SourceDocs' = SourceDocs
  BY <1>1, <1>2 DEF SourceDocs, snapshotVars
<1>4. WorkerHoldsItsBuild'
  BY <1>1, <1>2, <1>3 DEF WorkerHoldsItsBuild, Busy, Jobs
<1> QED
  BY <1>1, <1>4, WorkerOnlyStep

LEMMA PublishInv ==
  ASSUME IInv, TypeInv', Publish
  PROVE  IInv'
<1> USE DEF IInv, TypeInv, TypeOK
<1>1. /\ worker.phase = "staged"
      /\ UNCHANGED <<projectVars, snapshotVars, upload, job, run>>
  BY DEF Publish, apiVars
<1>2. worker.build \in Build
  BY <1>1 DEF HoldersOK
<1>3. GraphVersion(worker.build) \in Version
  BY <1>2, GraphVersionType
<1>4. \/ /\ worker'.phase = "failing" /\ worker'.build = worker.build
         /\ corpus' = corpus
      \/ /\ worker'.phase = "published" /\ worker'.build = worker.build
         /\ worker'.docs = worker.docs
         /\ corpus[GraphVersion(worker.build)] = EmptyDocs
         /\ corpus' = [corpus EXCEPT ![GraphVersion(worker.build)] = worker.docs]
  BY DEF Publish, FailWith, WorkerState
<1>5. worker.docs = SourceDocs /\ worker.docs # EmptyDocs
  BY <1>1 DEF WorkerHoldsItsBuild
<1>6. \A v \in Version : corpus[v] # EmptyDocs => corpus'[v] # EmptyDocs
  BY <1>3, <1>4, <1>5
<1>7. SourceDocs' = SourceDocs /\ GraphVersion(worker.build)' = GraphVersion(worker.build)
  BY <1>1, <1>4 DEF SourceDocs, GraphVersion, snapshotVars
<1>8. worker'.phase = "published" =>
        corpus'[GraphVersion(worker.build)] = worker.docs
  BY <1>3, <1>4
<1>9. WorkerHoldsItsBuild'
  BY <1>1, <1>4, <1>5, <1>7, <1>8 DEF WorkerHoldsItsBuild, Busy, Jobs
<1> QED
  BY <1>1, <1>6, <1>9, WorkerOnlyStep

LEMMA WorkerLocalInv ==
  ASSUME IInv, TypeInv', RemoveBuildRoot \/ BuildRaises
  PROVE  IInv'
<1> USE DEF IInv
<1>1. UNCHANGED <<projectVars, snapshotVars, upload, job, run, corpus>>
  BY DEF RemoveBuildRoot, BuildRaises, apiVars, diskVars
<1>2. /\ worker.phase \in Busy
      /\ worker'.build = worker.build
      /\ worker'.docs = worker.docs
      /\ \/ worker'.phase = "failing"
         \/ worker.phase = "published" /\ worker'.phase = "completing"
  BY DEF RemoveBuildRoot, BuildRaises, FailWith, Busy,
         TypeInv, TypeOK, WorkerState
<1>3. /\ SourceDocs' = SourceDocs
      /\ GraphVersion(worker.build)' = GraphVersion(worker.build)
  BY <1>1, <1>2 DEF SourceDocs, GraphVersion, snapshotVars
<1>4. WorkerHoldsItsBuild'
  BY <1>1, <1>2, <1>3 DEF WorkerHoldsItsBuild, Busy, Jobs
<1> QED
  BY <1>1, <1>4, WorkerOnlyStep

LEMMA WorkerRestsInv ==
  ASSUME IInv, TypeInv', CleanFailedRoot \/ Crash
  PROVE  IInv'
<1> USE DEF IInv
<1>1. UNCHANGED <<projectVars, snapshotVars, upload, job, corpus>>
  BY DEF CleanFailedRoot, Crash, apiVars, diskVars
<1>2. \/ worker'.phase = "down"
      \/ worker.phase = "cleaning" /\ worker'.phase = "polling"
  BY DEF CleanFailedRoot, Crash, Resting
<1>3. worker.phase = "cleaning" => Jobs("building") = {}
  BY DEF WorkerHoldsItsBuild, Busy
<1>4. Jobs("building")' = Jobs("building")
  BY <1>1 DEF Jobs
<1>5. WorkerHoldsItsBuild'
  BY <1>2, <1>3, <1>4 DEF WorkerHoldsItsBuild, Busy
<1> QED
  BY <1>1, <1>5, WorkerOnlyStep

(* The builds in flight of a project, read off the job rows.               *)
LEMMA InFlightJobs ==
  ASSUME NEW p \in Project
  PROVE  \A c : c \in BuildsInFlight(p) <=> /\ c \in Build
                                            /\ job[c].status \in InFlight
                                            /\ job[c].project = p
  BY DEF BuildsInFlight, JobsOf, Jobs, InFlight

LEMMA SubmitBuildInv ==
  ASSUME IInv, TypeInv', NEW r \in Request, NEW p \in Project,
         NEW b \in Build, NEW k \in Key, SubmitBuild(r, p, b, k)
  PROVE  IInv'
<1> USE DEF IInv
<1>1. PICK n \in Index : /\ IsDraft(p, n)
                         /\ OpenSessions(p, n) = {}
                         /\ Enqueue(p, n, b, k, generation[p])
  BY DEF SubmitBuild
<1>2. /\ status' = [status EXCEPT ![p][n] = "sealed"]
      /\ stage' = [stage EXCEPT ![p][n] = AllAt(docs[p][n], "queued")]
      /\ pstate' = [pstate EXCEPT ![p] = "queued"]
      /\ UNCHANGED <<active, version, generation, docs, upload, worker, run, diskVars>>
  BY <1>1 DEF Enqueue, apiVars
<1>3. /\ job'[b].status = "queued"
      /\ job'[b].project = p
      /\ job'[b].snapshot = n
      /\ job'[b].expected = generation[p]
      /\ \A c \in Build \ {b} : job'[c] = job[c]
  BY <1>1 DEF Enqueue, TypeInv, TypeOK
<1>4. job[b].status = "none" /\ pstate[p] \notin Frozen
  BY DEF SubmitBuild, IsNextBuild
<1>5. BuildsInFlight(p) = {}
  BY <1>4, NotFrozenIdle
<1>6. /\ BuildsInFlight(p)' = {b}
      /\ JobsOf(p, "queued")' = {b}
      /\ JobsOf(p, "building")' = {}
  <2>1. \A c \in Build : job[c].status \in InFlight => job[c].project # p
    BY <1>5, InFlightJobs
  <2>2. \A c \in Build : job'[c].status \in InFlight /\ job'[c].project = p => c = b
    BY <1>3, <2>1
  <2>3. b \in JobsOf(p, "queued")' /\ b \notin Jobs("building")'
    BY <1>3 DEF JobsOf, Jobs
  <2>4. \A c \in JobsOf(p, "queued")' \cup JobsOf(p, "building")' : c = b
    BY <2>2 DEF JobsOf, Jobs, InFlight
  <2> QED
    BY <2>3, <2>4 DEF BuildsInFlight, JobsOf
<1>7. /\ Jobs("building")' = Jobs("building")
      /\ \A q \in Project \ {p} :
           /\ BuildsInFlight(q)' = BuildsInFlight(q)
           /\ JobsOf(q, "queued")' = JobsOf(q, "queued")
           /\ JobsOf(q, "building")' = JobsOf(q, "building")
           /\ b \notin BuildsInFlight(q)
  <2>1. Jobs("building")' = Jobs("building")
    BY <1>3, <1>4 DEF Jobs
  <2>2. \A q \in Project \ {p} :
          /\ JobsOf(q, "queued")' = JobsOf(q, "queued")
          /\ JobsOf(q, "building")' = JobsOf(q, "building")
    BY <1>3, <1>4 DEF JobsOf, Jobs
  <2>3. \A q \in Project : b \notin BuildsInFlight(q)
    BY <1>4, InFlightJobs DEF InFlight
  <2> QED
    BY <2>1, <2>2, <2>3 DEF BuildsInFlight
<1>8. \A m \in Index : status[p][m] \in {"editable", "sealed"} <=> m = n
  BY <1>1, <1>4 DEF IsDraft, OneDraftOrSealed, Frozen
<1>9. /\ \A m \in Index : status'[p][m] = IF m = n THEN "sealed" ELSE status[p][m]
      /\ \A q \in Project \ {p} : /\ status'[q] = status[q]
                                  /\ stage'[q] = stage[q]
                                  /\ pstate'[q] = pstate[q]
      /\ pstate'[p] = "queued"
      /\ \A m \in Index : m # n => stage'[p][m] = stage[p][m]
  BY <1>2 DEF TypeInv, TypeOK
<1>10. AbsentIsEmpty'
  BY <1>9 DEF AbsentIsEmpty
<1>11. OneBuildInFlight'
  BY <1>6, <1>7 DEF OneBuildInFlight
<1>12. ProjectStateMatchesJobs'
  BY <1>6, <1>7, <1>9 DEF ProjectStateMatchesJobs
<1>13. OneDraftOrSealed'
  <2> SUFFICES ASSUME NEW q \in Project
               PROVE  /\ pstate'[q] # "absent" =>
                           \E i \in Index : \A m \in Index :
                             status'[q][m] \in {"editable", "sealed"} <=> m = i
                      /\ \A c \in BuildsInFlight(q)' :
                           /\ status'[q][job'[c].snapshot] = "sealed"
                           /\ job'[c].expected = generation'[q]
                      /\ \A i \in Index : status'[q][i] = "sealed" =>
                           \E c \in BuildsInFlight(q)' : job'[c].snapshot = i
    BY DEF OneDraftOrSealed
  <2>1. CASE q = p
    BY <1>2, <1>3, <1>6, <1>8, <1>9, <2>1
  <2>2. CASE q # p
    <3>1. \A c \in BuildsInFlight(q) : c \in Build \ {b}
      BY <1>7, <2>2, InFlightJobs
    <3> QED BY <1>2, <1>3, <1>7, <1>9, <2>2, <3>1 DEF OneDraftOrSealed
  <2> QED BY <2>1, <2>2
<1>14. ActiveIsPublished'
  BY <1>1, <1>2, <1>9 DEF ActiveIsPublished, IsDraft, diskVars
<1>15. OpenSessionsTargetDraft'
  <2>1. \A u \in Session : upload[u].state = "open" =>
          ~(upload[u].project = p /\ upload[u].snapshot = n)
    BY <1>1 DEF OpenSessions
  <2> QED
    BY <1>2, <1>9, <2>1 DEF OpenSessionsTargetDraft, SessionRow, TypeInv, TypeOK
<1>16. RowsSettle'
  <2> SUFFICES ASSUME NEW q \in Project, NEW i \in Index, NEW f \in Name,
                      stage'[q][i][f] \in {"queued", "processing"}
               PROVE  \E c \in BuildsInFlight(q)' : job'[c].snapshot = i
    BY DEF RowsSettle
  <2>1. CASE q = p
    <3>1. CASE i = n
      BY <1>3, <1>6, <2>1, <3>1
    <3>2. CASE i # n
      BY <1>5, <1>9, <2>1, <3>2 DEF RowsSettle
    <3> QED BY <3>1, <3>2
  <2>2. CASE q # p
    <3>1. PICK c \in BuildsInFlight(q) : job[c].snapshot = i
      BY <1>9, <2>2 DEF RowsSettle
    <3>2. c \in Build \ {b}
      BY <1>7, <2>2, InFlightJobs
    <3> QED BY <1>3, <1>7, <2>2, <3>1, <3>2
  <2> QED BY <2>1, <2>2
<1>17. WorkerHoldsItsBuild'
  <2>1. worker.phase \in Busy => worker.build \in Build \ {b}
    BY <1>4 DEF WorkerHoldsItsBuild, Jobs
  <2>2. worker.phase \in Busy => SourceDocs' = SourceDocs
    BY <1>2, <1>3, <2>1 DEF SourceDocs
  <2>3. {"staging", "staged", "published", "completing"} \subseteq Busy
    BY DEF Busy
  <2> QED
    BY <1>2, <1>7, <2>2, <2>3 DEF WorkerHoldsItsBuild, GraphVersion, diskVars
<1> QED
  BY <1>10, <1>11, <1>12, <1>13, <1>14, <1>15, <1>16, <1>17

LEMMA ArchiveRestoreInv ==
  ASSUME IInv, TypeInv', NEW r \in Request, NEW p \in Project,
         Archive(r, p) \/ Restore(r, p)
  PROVE  IInv'
<1> USE DEF IInv
<1>1. UNCHANGED <<active, version, generation, status, docs, stage, upload, job,
                  worker, run, buildRoot, corpus>>
  BY DEF Archive, Restore, snapshotVars, apiVars, diskVars
<1>2. /\ pstate[p] \notin {"absent", "queued", "building"}
      /\ pstate'[p] \notin {"absent", "queued", "building"}
      /\ \A q \in Project \ {p} : pstate'[q] = pstate[q]
  BY DEF Archive, Restore, RestoredState, Frozen, TypeInv, TypeOK
<1>3. \A q \in Project : /\ BuildsInFlight(q)' = BuildsInFlight(q)
                         /\ JobsOf(q, "queued")' = JobsOf(q, "queued")
                         /\ JobsOf(q, "building")' = JobsOf(q, "building")
  BY <1>1 DEF BuildsInFlight, JobsOf, Jobs
<1>4. AbsentIsEmpty' /\ ProjectStateMatchesJobs'
  BY <1>1, <1>2, <1>3 DEF AbsentIsEmpty, ProjectStateMatchesJobs
<1>5. OneDraftOrSealed'
  BY <1>1, <1>2, <1>3 DEF OneDraftOrSealed
<1>6. OneBuildInFlight' /\ ActiveIsPublished' /\ OpenSessionsTargetDraft' /\ RowsSettle'
  BY <1>1, <1>3 DEF OneBuildInFlight, Jobs, ActiveIsPublished,
                    OpenSessionsTargetDraft, RowsSettle
<1>7. WorkerHoldsItsBuild'
  BY <1>1 DEF WorkerHoldsItsBuild, SourceDocs, GraphVersion, Jobs
<1> QED BY <1>4, <1>5, <1>6, <1>7

LEMMA WorkerStartInv ==
  ASSUME IInv, TypeInv', WorkerStart
  PROVE  IInv'
<1> USE DEF IInv
<1>1. /\ UNCHANGED <<active, version, generation, status, docs, upload, run,
                     buildRoot, corpus>>
      /\ worker'.phase = "polling"
  BY DEF WorkerStart, apiVars, diskVars, Resting
<1>2. \A c \in Build :
        /\ job'[c].project = job[c].project
        /\ job'[c].snapshot = job[c].snapshot
        /\ job'[c].expected = job[c].expected
        /\ job'[c].status = IF job[c].status = "building" THEN "queued"
                            ELSE job[c].status
  BY DEF WorkerStart, RequeuedJob, JobRow, TypeInv, TypeOK
<1>3. \A q \in Project : /\ BuildsInFlight(q)' = BuildsInFlight(q)
                         /\ JobsOf(q, "queued")' = BuildsInFlight(q)
                         /\ JobsOf(q, "building")' = {}
                         /\ BuildsInFlight(q) \subseteq Build
  BY <1>2 DEF BuildsInFlight, JobsOf, Jobs
<1>4. Jobs("building")' = {}
  BY <1>2 DEF Jobs
<1>5. \A q \in Project :
        pstate'[q] = IF JobsOf(q, "building") # {} THEN "queued" ELSE pstate[q]
  BY DEF WorkerStart, RequeuedState
<1>6. ProjectStateMatchesJobs'
  BY <1>3, <1>5 DEF ProjectStateMatchesJobs, BuildsInFlight
<1>7. \A q \in Project : pstate'[q] = "absent" <=> pstate[q] = "absent"
  BY <1>5 DEF ProjectStateMatchesJobs
<1>8. AbsentIsEmpty'
  BY <1>1, <1>7 DEF AbsentIsEmpty
<1>9. OneBuildInFlight'
  BY <1>3, <1>4 DEF OneBuildInFlight
<1>10. OneDraftOrSealed'
  <2> SUFFICES ASSUME NEW q \in Project
               PROVE  /\ pstate'[q] # "absent" =>
                           \E i \in Index : \A m \in Index :
                             status[q][m] \in {"editable", "sealed"} <=> m = i
                      /\ \A c \in BuildsInFlight(q) :
                           /\ status[q][job'[c].snapshot] = "sealed"
                           /\ job'[c].expected = generation[q]
                      /\ \A i \in Index : status[q][i] = "sealed" =>
                           \E c \in BuildsInFlight(q) : job'[c].snapshot = i
    BY <1>1, <1>3 DEF OneDraftOrSealed
  <2> QED
    BY <1>2, <1>3, <1>7 DEF OneDraftOrSealed
<1>11. ActiveIsPublished' /\ OpenSessionsTargetDraft'
  BY <1>1 DEF ActiveIsPublished, OpenSessionsTargetDraft
<1>12. RowsSettle'
  <2> SUFFICES ASSUME NEW q \in Project, NEW i \in Index, NEW f \in Name,
                      stage'[q][i][f] \in {"queued", "processing"}
               PROVE  \E c \in BuildsInFlight(q) : job'[c].snapshot = i
    BY <1>3 DEF RowsSettle
  <2>1. stage'[q][i] = IF <<q, i>> \in RequeuedSnapshots
                       THEN AllAt(docs[q][i], "queued") ELSE stage[q][i]
    BY DEF WorkerStart
  <2>2. CASE <<q, i>> \in RequeuedSnapshots
    <3>1. PICK c \in Jobs("building") \cup Jobs("queued") :
            <<q, i>> = <<job[c].project, job[c].snapshot>>
      BY <2>2 DEF RequeuedSnapshots
    <3>2. c \in BuildsInFlight(q) /\ job[c].snapshot = i
      BY <3>1 DEF BuildsInFlight, JobsOf
    <3> QED BY <1>2, <1>3, <3>2
  <2>3. CASE <<q, i>> \notin RequeuedSnapshots
    <3>1. PICK c \in BuildsInFlight(q) : job[c].snapshot = i
      BY <2>1, <2>3 DEF RowsSettle
    <3> QED BY <1>2, <1>3, <3>1
  <2> QED BY <2>2, <2>3
<1>13. WorkerHoldsItsBuild'
  BY <1>1, <1>4 DEF WorkerHoldsItsBuild, Busy
<1> QED
  BY <1>6, <1>8, <1>9, <1>10, <1>11, <1>12, <1>13

LEMMA ClaimInv ==
  ASSUME IInv, TypeInv', NEW b \in Build, Claim(b)
  PROVE  IInv'
<1> USE DEF IInv
<1>1. PICK p \in Project, n \in Index :
        job[b].project = p /\ job[b].snapshot = n
  BY DEF TypeInv, TypeOK, JobRow
<1>2. /\ job[b].status = "queued"
      /\ Jobs("building") = {}
      /\ job' = [job EXCEPT ![b].status = "building"]
      /\ pstate' = [pstate EXCEPT ![p] = "building"]
      /\ stage' = [stage EXCEPT ![p][n] = AllAt(docs[p][n], "processing")]
      /\ worker'.phase = "claimed"
      /\ worker'.build = b
      /\ UNCHANGED <<active, version, generation, status, docs, upload, run,
                     buildRoot, corpus>>
  BY <1>1 DEF Claim, Jobs, Resting, apiVars, diskVars
<1>3. /\ job'[b].status = "building"
      /\ \A c \in Build : /\ job'[c].project = job[c].project
                          /\ job'[c].snapshot = job[c].snapshot
                          /\ job'[c].expected = job[c].expected
      /\ \A c \in Build \ {b} : job'[c].status = job[c].status
  BY <1>2 DEF TypeInv, TypeOK, JobRow
<1>5. \A q \in Project : BuildsInFlight(q)' = BuildsInFlight(q)
  <2> SUFFICES ASSUME NEW q \in Project
               PROVE  \A c : c \in BuildsInFlight(q)' <=> c \in BuildsInFlight(q)
    OBVIOUS
  <2> QED BY <1>2, <1>3 DEF BuildsInFlight, JobsOf, Jobs
<1>6. b \in BuildsInFlight(p) /\ \A c \in BuildsInFlight(p) : c = b
  BY <1>1, <1>2 DEF OneBuildInFlight, BuildsInFlight, JobsOf, Jobs
<1>7. Jobs("building")' = {b}
  BY <1>2, <1>3 DEF Jobs
<1>8. JobsOf(p, "building")' = {b} /\ JobsOf(p, "queued")' = {}
  <2>1. b \in JobsOf(p, "building")' /\ b \notin JobsOf(p, "queued")'
    BY <1>1, <1>3 DEF JobsOf, Jobs
  <2>2. \A c \in JobsOf(p, "building")' \cup JobsOf(p, "queued")' : c = b
    BY <1>1, <1>5, <1>6 DEF BuildsInFlight
  <2> QED BY <2>1, <2>2
<1>9. \A q \in Project \ {p} :
        /\ JobsOf(q, "queued")' = JobsOf(q, "queued")
        /\ JobsOf(q, "building")' = {}
        /\ JobsOf(q, "building") = {}
  BY <1>2, <1>1, <1>3 DEF JobsOf, Jobs
<1>10. /\ pstate'[p] = "building"
       /\ \A q \in Project \ {p} : pstate'[q] = pstate[q] /\ stage'[q] = stage[q]
       /\ \A i \in Index : i # n => stage'[p][i] = stage[p][i]
  BY <1>1, <1>2 DEF TypeInv, TypeOK
<1>11. pstate[p] = "queued"
  <2>1. b \in JobsOf(p, "queued")
    BY <1>1, <1>2 DEF JobsOf, Jobs
  <2> QED BY <1>1, <2>1 DEF ProjectStateMatchesJobs
<1>12. AbsentIsEmpty'
  BY <1>2, <1>10 DEF AbsentIsEmpty
<1>13. OneBuildInFlight'
  BY <1>5, <1>7 DEF OneBuildInFlight
<1>14. ProjectStateMatchesJobs'
  BY <1>8, <1>9, <1>10 DEF ProjectStateMatchesJobs
<1>15. OneDraftOrSealed'
  <2>1. \A q \in Project : pstate'[q] # "absent" => pstate[q] # "absent"
    BY <1>10, <1>11
  <2>2. \A q \in Project : BuildsInFlight(q) \subseteq Build
    BY InFlightJobs
  <2> QED
    BY <1>2, <1>3, <1>5, <2>1, <2>2 DEF OneDraftOrSealed
<1>16. ActiveIsPublished' /\ OpenSessionsTargetDraft'
  BY <1>2 DEF ActiveIsPublished, OpenSessionsTargetDraft
<1>17. RowsSettle'
  <2> SUFFICES ASSUME NEW q \in Project, NEW i \in Index, NEW f \in Name,
                      stage'[q][i][f] \in {"queued", "processing"}
               PROVE  \E c \in BuildsInFlight(q) : job'[c].snapshot = i
    BY <1>5 DEF RowsSettle
  <2>1. CASE q = p /\ i = n
    BY <1>1, <1>3, <1>6, <2>1
  <2>2. CASE ~(q = p /\ i = n)
    <3>1. PICK c \in BuildsInFlight(q) : job[c].snapshot = i
      BY <1>10, <2>2 DEF RowsSettle
    <3> QED BY <1>3, <3>1, InFlightJobs
  <2> QED BY <2>1, <2>2
<1>18. WorkerHoldsItsBuild'
  BY <1>2, <1>7 DEF WorkerHoldsItsBuild, Busy
<1> QED
  BY <1>12, <1>13, <1>14, <1>15, <1>16, <1>17, <1>18

(* What the invariant says of a worker that holds a build.                 *)
LEMMA BusyBuild ==
  ASSUME IInv, worker.phase \in Busy
  PROVE  LET b == worker.build
             p == job[b].project
             n == job[b].snapshot
         IN /\ b \in Build /\ p \in Project /\ n \in Index
            /\ job[b].status = "building"
            /\ Jobs("building") = {b}
            /\ BuildsInFlight(p) = {b}
            /\ pstate[p] = "building"
            /\ \A m \in Index : status[p][m] \in {"editable", "sealed"} <=> m = n
            /\ status[p][n] = "sealed"
            /\ job[b].expected = generation[p]
<1> DEFINE b == worker.build
           p == job[b].project
           n == job[b].snapshot
<1> USE DEF IInv
<1>1. b \in Jobs("building")
  BY DEF WorkerHoldsItsBuild
<1>2. b \in Build /\ job[b].status = "building"
  BY <1>1 DEF Jobs
<1>3. p \in Project /\ n \in Index
  BY <1>2 DEF TypeInv, TypeOK, JobRow
<1>4. b \in JobsOf(p, "building")
  BY <1>1 DEF JobsOf
<1>5. Jobs("building") = {b} /\ BuildsInFlight(p) = {b}
  BY <1>1, <1>3, <1>4 DEF OneBuildInFlight, BuildsInFlight
<1>6. pstate[p] = "building"
  BY <1>3, <1>4 DEF ProjectStateMatchesJobs
<1>7. status[p][n] = "sealed" /\ job[b].expected = generation[p]
  BY <1>3, <1>5 DEF OneDraftOrSealed
<1>8. \A m \in Index : status[p][m] \in {"editable", "sealed"} <=> m = n
  BY <1>3, <1>6, <1>7 DEF OneDraftOrSealed
<1> QED BY <1>2, <1>3, <1>5, <1>6, <1>7, <1>8

LEMMA StageVersionInv ==
  ASSUME IInv, TypeInv', StageVersion
  PROVE  IInv'
<1> DEFINE b == worker.build
           p == job[b].project
           n == job[b].snapshot
<1> USE DEF IInv
<1>1. worker.phase \in Busy /\ worker.phase = "staging"
  BY DEF StageVersion, Busy
<1>2. b \in Build /\ p \in Project /\ n \in Index /\ BuildsInFlight(p) = {b}
  BY <1>1, BusyBuild
<1>3. /\ stage' = [stage EXCEPT ![p][n] = AllAt(docs[p][n], "processing")]
      /\ UNCHANGED <<pstate, active, version, generation, status, docs, upload,
                     job, run, buildRoot, corpus>>
  BY DEF StageVersion, projectVars, apiVars, diskVars
<1>4. /\ worker'.phase = "staged"
      /\ worker'.build = worker.build
      /\ worker'.docs = worker.docs
  BY DEF StageVersion, TypeInv, TypeOK, WorkerState
<1>5. WorkerHoldsItsBuild'
  BY <1>1, <1>3, <1>4 DEF WorkerHoldsItsBuild, SourceDocs, GraphVersion, Busy, Jobs
<1>6. job[b].snapshot = n
  BY DEF n
<1> HIDE DEF b, p, n
<1>7. \A q \in Project, i \in Index :
        ~(q = p /\ i = n) => stage'[q][i] = stage[q][i]
  BY <1>2, <1>3 DEF TypeInv, TypeOK
<1>8. \A q \in Project : BuildsInFlight(q)' = BuildsInFlight(q)
  BY <1>3 DEF BuildsInFlight, JobsOf, Jobs
<1>9. RowsSettle'
  BY <1>2, <1>3, <1>6, <1>7, <1>8 DEF RowsSettle
<1>10. /\ AbsentIsEmpty'
       /\ OneBuildInFlight'
       /\ ProjectStateMatchesJobs'
       /\ OneDraftOrSealed'
       /\ ActiveIsPublished'
       /\ OpenSessionsTargetDraft'
  BY <1>3 DEF AbsentIsEmpty, OneBuildInFlight, ProjectStateMatchesJobs,
         OneDraftOrSealed, ActiveIsPublished, OpenSessionsTargetDraft,
         BuildsInFlight, JobsOf, Jobs
<1> QED BY <1>5, <1>9, <1>10

(* The build the worker holds is settled: the jobs of every other project  *)
(* are as they were, and this project has no build in flight.              *)
LEMMA SettledJobs ==
  ASSUME IInv, worker.phase \in Busy,
         NEW b, b = worker.build,
         NEW p, p = job[b].project,
         job'[b].status \notin InFlight,
         \A c \in Build \ {b} : job'[c] = job[c]
  PROVE  /\ Jobs("building")' = {}
         /\ BuildsInFlight(p)' = {}
         /\ \A q \in Project \ {p} :
              /\ BuildsInFlight(q)' = BuildsInFlight(q)
              /\ JobsOf(q, "queued")' = JobsOf(q, "queued")
              /\ JobsOf(q, "building")' = JobsOf(q, "building")
              /\ BuildsInFlight(q) \subseteq Build \ {b}
<1>1. /\ b \in Build
      /\ p \in Project
      /\ Jobs("building") = {b}
      /\ BuildsInFlight(p) = {b}
  BY BusyBuild
<1>2. \A c \in Build \ {b} : job[c].status # "building"
  BY <1>1 DEF Jobs
<1>3. Jobs("building")' = {}
  BY <1>2 DEF Jobs, InFlight
<1>4. BuildsInFlight(p)' = {}
  <2>1. \A c \in Build \ {b} :
          job[c].status \in InFlight => job[c].project # p
    BY <1>1, InFlightJobs
  <2> QED
    BY <2>1 DEF BuildsInFlight, JobsOf, Jobs, InFlight
<1>5. ASSUME NEW q \in Project \ {p}
      PROVE  /\ JobsOf(q, "queued")' = JobsOf(q, "queued")
             /\ JobsOf(q, "building")' = JobsOf(q, "building")
             /\ BuildsInFlight(q) \subseteq Build \ {b}
  <2>1. JobsOf(q, "queued")' = JobsOf(q, "queued")
    BY <1>1 DEF JobsOf, Jobs, InFlight, BuildsInFlight
  <2>2. JobsOf(q, "building")' = {} /\ JobsOf(q, "building") = {}
    BY <1>1, <1>3 DEF JobsOf, Jobs
  <2>3. BuildsInFlight(q) \subseteq Build \ {b}
    BY <1>5, InFlightJobs
  <2> QED BY <2>1, <2>2, <2>3
<1> QED
  BY <1>3, <1>4, <1>5 DEF BuildsInFlight

LEMMA CompleteInv ==
  ASSUME IInv, TypeInv', Complete
  PROVE  IInv'
<1> USE DEF IInv
<1>1. worker.phase \in Busy /\ worker.phase = "completing"
  BY DEF Complete, Busy
<1>2. PICK b \in Build, p \in Project, n \in Index :
        /\ b = worker.build /\ p = job[b].project /\ n = job[b].snapshot
        /\ job[b].status = "building"
        /\ BuildsInFlight(p) = {b}
        /\ pstate[p] = "building"
        /\ \A i \in Index : status[p][i] \in {"editable", "sealed"} <=> i = n
  BY <1>1, BusyBuild
<1>3. PICK m \in Index :
        /\ status[p][m] = "none"
        /\ status' = [status EXCEPT ![p] =
             [Superseded(p) EXCEPT ![n] = "active", ![m] = "editable"]]
        /\ stage' = [stage EXCEPT ![p][m] = AllAt(docs[p][n], "ready"),
                                 ![p][n] = AllAt(docs[p][n], "ready")]
  <2> DEFINE B == worker.build
             P == job[B].project
             N == job[B].snapshot
  <2>1. \E m \in Index :
          /\ IsNextSnapshot(P, m)
          /\ status' = [status EXCEPT ![P] =
               [Superseded(P) EXCEPT ![N] = "active", ![m] = "editable"]]
          /\ stage' = [stage EXCEPT ![P][m] = AllAt(docs[P][N], "ready"),
                                   ![P][N] = AllAt(docs[P][N], "ready")]
    BY DEF Complete
  <2>2. B = b /\ P = p /\ N = n
    BY <1>2
  <2> HIDE DEF B, P, N
  <2> QED
    BY <2>1, <2>2 DEF IsNextSnapshot
<1>4. /\ active' = [active EXCEPT ![p] = n]
      /\ version' = [version EXCEPT ![p] = GraphVersion(b)]
      /\ generation' = [generation EXCEPT ![p] = @ + 1]
      /\ pstate' = [pstate EXCEPT ![p] = "ready"]
      /\ job' = [job EXCEPT ![b].status = "ready"]
      /\ worker'.phase = "polling"
      /\ UNCHANGED <<upload, run, buildRoot, corpus>>
  BY <1>2 DEF Complete, Resting, apiVars, diskVars
<1>5. m # n
  BY <1>2, <1>3
<1>6. GraphVersion(b) \in Version /\ GraphVersion(b) # None /\ n # None
  BY GraphVersionType, IdsAssumption DEF TypeInv, TypeOK
<1>7. corpus[GraphVersion(b)] # EmptyDocs
  BY <1>1, <1>2 DEF WorkerHoldsItsBuild
<1>8. /\ \A i \in Index : status'[p][i] = IF i = n THEN "active"
                                          ELSE IF i = m THEN "editable"
                                          ELSE Superseded(p)[i]
      /\ \A q \in Project \ {p} : /\ status'[q] = status[q]
                                  /\ stage'[q] = stage[q]
                                  /\ pstate'[q] = pstate[q]
                                  /\ active'[q] = active[q]
                                  /\ version'[q] = version[q]
                                  /\ generation'[q] = generation[q]
      /\ pstate'[p] = "ready"
      /\ active'[p] = n
      /\ version'[p] = GraphVersion(b)
  <2>1. Superseded(p) \in [Index -> SnapshotStatus]
    BY DEF Superseded, SnapshotStatus, TypeInv, TypeOK
  <2>2. status'[p] = [Superseded(p) EXCEPT ![n] = "active", ![m] = "editable"]
    BY <1>3 DEF TypeInv, TypeOK
  <2>3. \A i \in Index : status'[p][i] = IF i = n THEN "active"
                                         ELSE IF i = m THEN "editable"
                                         ELSE Superseded(p)[i]
    BY <1>5, <2>1, <2>2
  <2> QED
    BY <1>3, <1>4, <2>3 DEF TypeInv, TypeOK
<1>9. \A i \in Index :
        Superseded(p)[i] # "active" /\ (Superseded(p)[i] \in {"editable", "sealed"} => i = n)
  BY <1>2 DEF Superseded
<1>10. /\ job'[b].status = "ready"
       /\ \A c \in Build \ {b} : job'[c] = job[c]
  BY <1>4 DEF TypeInv, TypeOK, JobRow
<1>11. /\ Jobs("building")' = {}
       /\ BuildsInFlight(p)' = {}
       /\ \A q \in Project \ {p} :
            /\ BuildsInFlight(q)' = BuildsInFlight(q)
            /\ JobsOf(q, "queued")' = JobsOf(q, "queued")
            /\ JobsOf(q, "building")' = JobsOf(q, "building")
            /\ BuildsInFlight(q) \subseteq Build \ {b}
  BY <1>1, <1>2, <1>10, SettledJobs DEF InFlight
<1>12. AbsentIsEmpty'
  BY <1>8 DEF AbsentIsEmpty
<1>13. OneBuildInFlight'
  BY <1>11 DEF OneBuildInFlight
<1>14. ProjectStateMatchesJobs'
  BY <1>8, <1>11 DEF ProjectStateMatchesJobs, BuildsInFlight
<1>15. OneDraftOrSealed'
  <2> SUFFICES ASSUME NEW q \in Project
               PROVE  /\ pstate'[q] # "absent" =>
                           \E i \in Index : \A j \in Index :
                             status'[q][j] \in {"editable", "sealed"} <=> j = i
                      /\ \A c \in BuildsInFlight(q)' :
                           /\ status'[q][job'[c].snapshot] = "sealed"
                           /\ job'[c].expected = generation'[q]
                      /\ \A i \in Index : status'[q][i] = "sealed" =>
                           \E c \in BuildsInFlight(q)' : job'[c].snapshot = i
    BY DEF OneDraftOrSealed
  <2>1. CASE q = p
    <3>1. \A i \in Index : status'[p][i] \in {"editable", "sealed"} <=> i = m
      BY <1>5, <1>8, <1>9
    <3>2. \A i \in Index : status'[p][i] # "sealed"
      BY <1>5, <1>8, <1>9
    <3> QED BY <1>11, <2>1, <3>1, <3>2
  <2>2. CASE q # p
    BY <1>8, <1>10, <1>11, <2>2 DEF OneDraftOrSealed
  <2> QED BY <2>1, <2>2
<1>16. ActiveIsPublished'
  <2>1. \A i \in Index : status'[p][i] = "active" <=> i = n
    BY <1>5, <1>8, <1>9
  <2> QED
    BY <1>4, <1>6, <1>7, <1>8, <2>1 DEF ActiveIsPublished
<1>17. OpenSessionsTargetDraft'
  <2>1. \A u \in Session : upload[u].project \in Project /\ upload[u].snapshot \in Index
    BY DEF TypeInv, TypeOK, SessionRow
  <2>2. \A u \in Session : upload[u].state = "open" => upload[u].project # p
    <3>1. \A i \in Index : status[p][i] # "editable"
      <4>1. status[p][n] = "sealed"
        BY <1>1, <1>2, BusyBuild
      <4> QED BY <1>2, <4>1
    <3> QED BY <2>1, <3>1 DEF OpenSessionsTargetDraft
  <2> QED
    BY <1>4, <1>8, <2>1, <2>2 DEF OpenSessionsTargetDraft
<1>18. RowsSettle'
  <2> SUFFICES ASSUME NEW q \in Project, NEW i \in Index, NEW f \in Name,
                      stage'[q][i][f] \in {"queued", "processing"}
               PROVE  \E c \in BuildsInFlight(q)' : job'[c].snapshot = i
    BY DEF RowsSettle
  <2>1. CASE q = p /\ i \in {n, m}
    <3>1. stage'[p][i] = AllAt(docs[p][n], "ready")
      BY <1>3, <1>5, <2>1 DEF TypeInv, TypeOK
    <3> QED BY <2>1, <3>1 DEF AllAt
  <2>2. CASE q = p /\ i \notin {n, m}
    <3>1. stage'[p][i] = stage[p][i]
      BY <1>3, <2>2 DEF TypeInv, TypeOK
    <3> QED BY <1>2, <2>2, <3>1 DEF RowsSettle
  <2>3. CASE q # p
    <3>1. PICK c \in BuildsInFlight(q) : job[c].snapshot = i
      BY <1>8, <2>3 DEF RowsSettle
    <3> QED BY <1>10, <1>11, <2>3, <3>1
  <2> QED BY <2>1, <2>2, <2>3
<1>19. WorkerHoldsItsBuild'
  BY <1>4, <1>11 DEF WorkerHoldsItsBuild, Busy
<1> QED
  BY <1>12, <1>13, <1>14, <1>15, <1>16, <1>17, <1>18, <1>19

LEMMA FailInv ==
  ASSUME IInv, TypeInv', Fail
  PROVE  IInv'
<1> USE DEF IInv
<1>1. worker.phase \in Busy /\ worker.phase = "failing"
  BY DEF Fail, Busy
<1>2. PICK b \in Build, p \in Project, n \in Index :
        /\ b = worker.build /\ p = job[b].project /\ n = job[b].snapshot
        /\ BuildsInFlight(p) = {b}
        /\ pstate[p] = "building"
        /\ \A i \in Index : status[p][i] \in {"editable", "sealed"} <=> i = n
        /\ status[p][n] = "sealed"
  BY <1>1, BusyBuild
<1>3. /\ job' = [job EXCEPT ![b] = FailedJob(b)]
      /\ status' = [status EXCEPT ![p][n] = "editable"]
      /\ stage' = [stage EXCEPT ![p][n] = AllAt(docs[p][n], "failed")]
      /\ pstate' = [pstate EXCEPT ![p] =
                      IF version[p] # None THEN "ready" ELSE "failed"]
      /\ worker'.phase = "cleaning"
      /\ UNCHANGED <<active, version, generation, docs, upload, run, buildRoot,
                     corpus>>
  BY <1>2 DEF Fail, FailedSnapshot, FailedStage, apiVars, diskVars, TypeInv,
              TypeOK, WorkerState
<1>4. job'[b].status = "failed" /\ \A c \in Build \ {b} : job'[c] = job[c]
  BY <1>3 DEF FailedJob, TypeInv, TypeOK, JobRow
<1>5. /\ Jobs("building")' = {}
      /\ BuildsInFlight(p)' = {}
      /\ \A q \in Project \ {p} :
           /\ BuildsInFlight(q)' = BuildsInFlight(q)
           /\ JobsOf(q, "queued")' = JobsOf(q, "queued")
           /\ JobsOf(q, "building")' = JobsOf(q, "building")
           /\ BuildsInFlight(q) \subseteq Build \ {b}
  BY <1>1, <1>2, <1>4, SettledJobs DEF InFlight
<1>6. /\ \A i \in Index : status'[p][i] = IF i = n THEN "editable" ELSE status[p][i]
      /\ \A q \in Project \ {p} : /\ status'[q] = status[q]
                                  /\ stage'[q] = stage[q]
                                  /\ pstate'[q] = pstate[q]
      /\ \A i \in Index : i # n => stage'[p][i] = stage[p][i]
      /\ stage'[p][n] = AllAt(docs[p][n], "failed")
      /\ pstate'[p] \in {"ready", "failed"}
  BY <1>3 DEF TypeInv, TypeOK
<1>7. AbsentIsEmpty'
  BY <1>6 DEF AbsentIsEmpty
<1>8. OneBuildInFlight'
  BY <1>5 DEF OneBuildInFlight
<1>9. ProjectStateMatchesJobs'
  BY <1>5, <1>6 DEF ProjectStateMatchesJobs, BuildsInFlight
<1>10. OneDraftOrSealed'
  <2> SUFFICES ASSUME NEW q \in Project
               PROVE  /\ pstate'[q] # "absent" =>
                           \E i \in Index : \A j \in Index :
                             status'[q][j] \in {"editable", "sealed"} <=> j = i
                      /\ \A c \in BuildsInFlight(q)' :
                           /\ status'[q][job'[c].snapshot] = "sealed"
                           /\ job'[c].expected = generation'[q]
                      /\ \A i \in Index : status'[q][i] = "sealed" =>
                           \E c \in BuildsInFlight(q)' : job'[c].snapshot = i
    BY DEF OneDraftOrSealed
  <2>1. CASE q = p
    <3>1. \A i \in Index : status'[p][i] \in {"editable", "sealed"} <=> i = n
      BY <1>2, <1>6
    <3>2. \A i \in Index : status'[p][i] # "sealed"
      BY <1>2, <1>6
    <3> QED BY <1>5, <2>1, <3>1, <3>2
  <2>2. CASE q # p
    BY <1>3, <1>4, <1>5, <1>6, <2>2 DEF OneDraftOrSealed
  <2> QED BY <2>1, <2>2
<1>11. ActiveIsPublished'
  <2>1. \A q \in Project, i \in Index :
          status'[q][i] = "active" <=> status[q][i] = "active"
    BY <1>2, <1>6
  <2> QED BY <1>3, <2>1 DEF ActiveIsPublished
<1>12. OpenSessionsTargetDraft'
  <2>1. \A u \in Session : upload[u].project \in Project /\ upload[u].snapshot \in Index
    BY DEF TypeInv, TypeOK, SessionRow
  <2> QED
    BY <1>3, <1>6, <2>1 DEF OpenSessionsTargetDraft
<1>13. RowsSettle'
  <2> SUFFICES ASSUME NEW q \in Project, NEW i \in Index, NEW f \in Name,
                      stage'[q][i][f] \in {"queued", "processing"}
               PROVE  \E c \in BuildsInFlight(q)' : job'[c].snapshot = i
    BY DEF RowsSettle
  <2>1. CASE q = p /\ i = n
    BY <1>6, <2>1 DEF AllAt
  <2>2. CASE q = p /\ i # n
    BY <1>2, <1>6, <2>2 DEF RowsSettle
  <2>3. CASE q # p
    <3>1. PICK c \in BuildsInFlight(q) : job[c].snapshot = i
      BY <1>6, <2>3 DEF RowsSettle
    <3> QED BY <1>4, <1>5, <2>3, <3>1
  <2> QED BY <2>1, <2>2, <2>3
<1>14. WorkerHoldsItsBuild'
  BY <1>3, <1>5 DEF WorkerHoldsItsBuild, Busy
<1> QED
  BY <1>7, <1>8, <1>9, <1>10, <1>11, <1>12, <1>13, <1>14

LEMMA UploadActionsInv ==
  ASSUME IInv, TypeInv',
         \/ \E r \in Request, u \in Session : StartReceiving(r, u)
         \/ \E u \in Session : FinishReceiving(u) \/ SessionLapses(u)
         \/ \E r \in Request, u \in Session : FinalizeValidate(r, u)
         \/ \E r \in Request : FinalizeStore(r) \/ FinalizeAbort(r)
         \/ CleanupExpiredUploads
         \/ UNCHANGED vars
  PROVE  IInv'
<1>1. UNCHANGED <<projectVars, snapshotVars, job, worker, run, diskVars>>
  BY DEF StartReceiving, FinishReceiving, SessionLapses, FinalizeValidate,
         FinalizeStore, FinalizeAbort, CleanupExpiredUploads, vars,
         projectVars, snapshotVars, diskVars
<1>2. upload \in [Session -> SessionRow]
  BY DEF IInv, TypeInv, TypeOK
<1>3. \A u \in Session : upload'[u].state = "open" =>
        /\ upload[u].state = "open"
        /\ upload'[u].project = upload[u].project
        /\ upload'[u].snapshot = upload[u].snapshot
  <2>1. CASE \E r \in Request, u \in Session : StartReceiving(r, u)
    BY <1>2, <2>1 DEF StartReceiving, SessionRow
  <2>2. CASE \E u \in Session : FinishReceiving(u)
    BY <1>2, <2>2 DEF FinishReceiving, SessionRow
  <2>3. CASE \E u \in Session : SessionLapses(u)
    BY <1>2, <2>3 DEF SessionLapses, SessionRow
  <2>4. CASE \E r \in Request, u \in Session : FinalizeValidate(r, u)
    BY <1>2, <2>4 DEF FinalizeValidate, SessionRow
  <2>5. CASE \E r \in Request : FinalizeStore(r)
    BY <1>2, <2>5 DEF FinalizeStore, SessionRow
  <2>6. CASE \E r \in Request : FinalizeAbort(r)
    BY <1>2, <2>6 DEF FinalizeAbort, SessionRow
  <2>7. CASE CleanupExpiredUploads
    BY <1>2, <2>7 DEF CleanupExpiredUploads, SessionRow
  <2>8. CASE UNCHANGED vars
    BY <1>2, <2>8 DEF vars, SessionRow
  <2> QED BY <2>1, <2>2, <2>3, <2>4, <2>5, <2>6, <2>7, <2>8
<1> QED BY <1>1, <1>3, UploadStep

-----------------------------------------------------------------------------

(* The conjunction is inductive.                                           *)
LEMMA StepInv == IInv /\ [Next]_vars => IInv'
<1> SUFFICES ASSUME IInv, [Next]_vars
             PROVE  IInv'
  OBVIOUS
<1>1. TypeInv'
  BY StepType DEF IInv
<1>2. ASSUME NEW r \in Request, ApiStep(r)
      PROVE  IInv'
  BY <1>1, <1>2, CreateProjectInv, CreateUploadSessionInv, DeleteFileInv,
     SubmitBuildInv, ArchiveRestoreInv, FinalizeCommitInv, UploadActionsInv
     DEF ApiStep
<1>3. CASE BackgroundStep
  BY <1>1, <1>3, UploadActionsInv DEF BackgroundStep
<1>4. CASE WorkerStep
  BY <1>1, <1>4, WorkerStartInv, ClaimInv, MakeBuildRootInv, StageVersionInv,
     PublishInv, WorkerLocalInv, CompleteInv, FailInv, WorkerRestsInv
     DEF WorkerStep
<1>5. CASE BuildRaises \/ Crash
  BY <1>1, <1>5, WorkerLocalInv, WorkerRestsInv
<1>6. CASE UNCHANGED vars
  BY <1>1, <1>6, UploadActionsInv
<1> QED
  BY <1>2, <1>3, <1>4, <1>5, <1>6 DEF Next

LEMMA InvCorrect == Spec => []IInv
<1> QED BY InitInv, StepInv, PTL DEF Spec

(* A project has at most one build queued or building, and the worker      *)
(* builds at most one: submit_build, claim_build and recover_builds keep   *)
(* it for any number of projects, handlers and crashes.                    *)
THEOREM AtMostOneBuild == Spec => []OneBuildInFlight
<1>1. IInv => OneBuildInFlight
  BY DEF IInv
<1> QED BY <1>1, InvCorrect, PTL

(* The state a project shows follows its jobs, though seven handlers and   *)
(* the recovery of a restarted worker write it.                            *)
THEOREM StateFollowsJobs == Spec => []ProjectStateMatchesJobs
<1>1. IInv => ProjectStateMatchesJobs
  BY DEF IInv
<1> QED BY <1>1, InvCorrect, PTL

(* A project always has exactly one snapshot the next build is made of,    *)
(* and a build in flight expects the generation the project has: the       *)
(* compare-and-set of complete_build succeeds.                             *)
THEOREM DraftOrBuild == Spec => []OneDraftOrSealed
<1>1. IInv => OneDraftOrSealed
  BY DEF IInv
<1> QED BY <1>1, InvCorrect, PTL

(* What complete_build activates was published before, and stays so over   *)
(* crashes, failures and later builds; one snapshot is active.             *)
THEOREM ServedIsPublished == Spec => []ActiveIsPublished
<1>1. IInv => ActiveIsPublished
  BY DEF IInv
<1> QED BY <1>1, InvCorrect, PTL

(* The snapshot an open upload session names is the editable draft:        *)
(* submit_build refuses to seal it, so no upload finishes into a snapshot  *)
(* that is being built or served, unless its session closes meanwhile.     *)
THEOREM UploadsPinTheDraft == Spec => []OpenSessionsTargetDraft
<1>1. IInv => OpenSessionsTargetDraft
  BY DEF IInv
<1> QED BY <1>1, InvCorrect, PTL

(* No row is left queued or processing when no build of its snapshot is in *)
(* flight: fail_build, complete_build and recover_builds rewrite them all. *)
THEOREM NoRowLeftRunning == Spec => []RowsSettle
<1>1. IInv => RowsSettle
  BY DEF IInv
<1> QED BY <1>1, InvCorrect, PTL

(* No job is building that the worker does not hold, and what it holds is  *)
(* what the sealed snapshot lists, although handlers and the cleanup run   *)
(* all the time and the worker may crash anywhere.                         *)
THEOREM BuildsAreHeld == Spec => []WorkerHoldsItsBuild
<1>1. IInv => WorkerHoldsItsBuild
  BY DEF IInv
<1> QED BY <1>1, InvCorrect, PTL

(* Only fail_build makes a job fail.                                       *)
LEMMA OnlyFailFails ==
  ASSUME IInv, [Next]_vars, NEW b \in Build,
         job[b].status # "failed", job'[b].status = "failed"
  PROVE  Fail
<1> job \in [Build -> JobRow]
  BY DEF IInv, TypeInv, TypeOK
<1>1. ASSUME NEW r \in Request, ApiStep(r)
      PROVE  FALSE
  <2>1. ASSUME NEW p \in Project, NEW c \in Build, NEW k \in Key,
               SubmitBuild(r, p, c, k)
        PROVE  FALSE
    BY <2>1 DEF SubmitBuild, Enqueue
  <2>2. job' # job
    OBVIOUS
  <2> QED
    BY <1>1, <2>1, <2>2
       DEF ApiStep, CreateProject, CreateUploadSession, DeleteFile, RemoveRow,
           Archive, Restore, StartReceiving, FinalizeValidate, FinalizeStore,
           FinalizeCommit, ApplyFinalize, FinalizeAbort
<1>2. CASE BackgroundStep \/ UNCHANGED vars
  BY <1>2 DEF BackgroundStep, CleanupExpiredUploads, SessionLapses,
              FinishReceiving, vars
<1>3. CASE WorkerStart
  BY <1>3 DEF WorkerStart, RequeuedJob, JobRow
<1>4. ASSUME NEW c \in Build, Claim(c)
      PROVE  FALSE
  BY <1>4 DEF Claim, JobRow
<1>5. CASE Complete
  BY <1>5 DEF Complete, JobRow
<1>6. CASE \/ MakeBuildRoot \/ StageVersion \/ Publish \/ RemoveBuildRoot
           \/ CleanFailedRoot \/ BuildRaises \/ Crash
  BY <1>6 DEF MakeBuildRoot, StageVersion, Publish, RemoveBuildRoot,
              CleanFailedRoot, BuildRaises, Crash
<1> QED
  BY <1>1, <1>2, <1>3, <1>4, <1>5, <1>6 DEF Next, WorkerStep

(* A build that is ready to be activated is never refused by the           *)
(* generation compare-and-set of complete_build: submit_build and the row  *)
(* lock leave no other build that could have moved the generation.         *)
THEOREM ActivationUnopposed ==
  Spec => [](worker.phase = "completing" => MayActivate(worker.build))
<1>1. IInv => (worker.phase = "completing" => MayActivate(worker.build))
  BY BusyBuild DEF Busy, MayActivate
<1> QED
  BY <1>1, InvCorrect, PTL

(* Whenever fail_build fails a job of a project that serves a version, the *)
(* snapshot that version was built of is left as it is.                    *)
THEOREM FailuresLeaveActive == Spec => FailedBuildsLeaveActive
<1> DEFINE Left(p) == LET n == active[p]
                      IN /\ active'[p] = n
                         /\ status'[p][n] = status[p][n]
                         /\ docs'[p][n] = docs[p][n]
                         /\ stage'[p][n] = stage[p][n]
           FailsOne(p) == /\ active[p] # None
                          /\ \E b \in Build : /\ job[b].project = p
                                             /\ job[b].status # "failed"
                                             /\ job'[b].status = "failed"
<1>1. ASSUME IInv, [Next]_vars
      PROVE  \A p \in Project : FailsOne(p) => Left(p)
  <2> SUFFICES ASSUME NEW p \in Project, FailsOne(p)
               PROVE  Left(p)
    OBVIOUS
  <2>1. Fail
    BY <1>1, OnlyFailFails
  <2>2. /\ active' = active
        /\ docs' = docs
    BY <2>1 DEF Fail
  <2> DEFINE B == worker.build
             P == job[B].project
             N == job[B].snapshot
  <2>3. /\ status' = [status EXCEPT ![P][N] = FailedSnapshot(P, N)]
        /\ stage' = [stage EXCEPT ![P][N] = FailedStage(P, N)]
    BY <2>1 DEF Fail
  <2>4. worker.phase \in Busy
    BY <2>1 DEF Fail, Busy
  <2>5. P \in Project /\ N \in Index /\ status[P][N] = "sealed"
    BY <1>1, <2>4, BusyBuild
  <2>6. active[p] \in Index /\ status[p][active[p]] = "active"
    BY <1>1 DEF IInv, TypeInv, TypeOK, ActiveIsPublished
  <2>7. ~(p = P /\ active[p] = N)
    BY <2>5, <2>6
  <2> HIDE DEF B, P, N
  <2>8. /\ status'[p][active[p]] = status[p][active[p]]
        /\ stage'[p][active[p]] = stage[p][active[p]]
    BY <1>1, <2>3, <2>5, <2>6, <2>7 DEF IInv, TypeInv, TypeOK
  <2> QED BY <2>2, <2>8
<1> HIDE DEF Left, FailsOne
<1>2. IInv /\ [Next]_vars => [\A p \in Project : FailsOne(p) => Left(p)]_vars
  BY <1>1
<1>3. Spec => [][\A p \in Project : FailsOne(p) => Left(p)]_vars
  BY <1>2, InvCorrect, PTL DEF Spec
<1> QED BY <1>3 DEF FailedBuildsLeaveActive, Left, FailsOne


-----------------------------------------------------------------------------
(* What is served is what is listed, while one handler runs at a time.     *)

OneHandler == \A q, r \in Request : q = r

(* A handler that has stored the files of a session, and goes on to commit *)
(* even when the session has expired, writes to a snapshot that still is   *)
(* the draft.                                                              *)
StoredOnDraft ==
  \A r \in Request : finalizing[r].stored =>
    LET u == finalizing[r].session
    IN  status[upload[u].project][upload[u].snapshot] = "editable"

LEMMA StoredKept ==
  ASSUME StoredOnDraft, TypeInv, UNCHANGED finalizing,
         \A u \in Session : /\ upload'[u].project = upload[u].project
                            /\ upload'[u].snapshot = upload[u].snapshot,
         \A p \in Project, n \in Index :
           status[p][n] = "editable" => status'[p][n] = "editable"
  PROVE  StoredOnDraft'
<1> SUFFICES ASSUME NEW r \in Request, finalizing[r].stored
             PROVE  LET u == finalizing[r].session
                    IN  status'[upload'[u].project][upload'[u].snapshot] = "editable"
  BY DEF StoredOnDraft
<1>1. PICK u \in Session : u = finalizing[r].session
  BY DEF TypeInv, HoldersOK
<1>2. upload[u].project \in Project /\ upload[u].snapshot \in Index
  BY DEF TypeInv, TypeOK, SessionRow
<1> QED BY <1>1, <1>2 DEF StoredOnDraft

LEMMA StoredStep ==
  ASSUME OneHandler, IInv, StoredOnDraft, [Next]_vars
  PROVE  StoredOnDraft'
<1> USE DEF IInv, TypeInv
<1> TypeOK
  OBVIOUS
<1>1. ASSUME NEW r \in Request, ApiStep(r)
      PROVE  StoredOnDraft'
  <2>1. \A q \in Request : q = r
    BY DEF OneHandler
  <2>2. CASE finalizing'[r].stored = FALSE
    BY <2>1, <2>2 DEF StoredOnDraft
  <2>3. CASE FinalizeStore(r)
    <3>1. PICK u \in Session : u = finalizing[r].session
      BY <2>3 DEF FinalizeStore, TypeOK, Handler
    <3>2. /\ upload' = [upload EXCEPT ![u].parts = "moved"]
          /\ finalizing' = [finalizing EXCEPT ![r].stored = TRUE]
          /\ status' = status
          /\ upload'[u].state = "open" \/ upload[u].state = "open"
      BY <2>3, <3>1 DEF FinalizeStore, Usable, snapshotVars
    <3>3. /\ upload[u].state = "open"
          /\ upload'[u].project = upload[u].project
          /\ upload'[u].snapshot = upload[u].snapshot
          /\ finalizing'[r].session = u
      BY <3>1, <3>2 DEF TypeOK, SessionRow, Handler
    <3>4. status[upload[u].project][upload[u].snapshot] = "editable"
      BY <3>3 DEF OpenSessionsTargetDraft
    <3> QED BY <2>1, <3>2, <3>3, <3>4 DEF StoredOnDraft
  <2>4. ASSUME Free(r), UNCHANGED finalizing
        PROVE  finalizing'[r].stored = FALSE
    BY <2>4 DEF Free, NoHandler
  <2>5. CASE FinalizeCommit(r) \/ FinalizeAbort(r)
    <3>1. finalizing' = [finalizing EXCEPT ![r] = NoHandler]
      BY <2>5 DEF FinalizeCommit, ApplyFinalize, FinalizeAbort
    <3> QED BY <2>2, <3>1 DEF TypeOK, NoHandler
  <2>6. CASE \E u \in Session : FinalizeValidate(r, u)
    <3>1. finalizing'[r].stored = FALSE
      BY <2>6 DEF FinalizeValidate, TypeOK
    <3> QED BY <2>2, <3>1
  <2>7. CASE \/ \E p \in Project :
                  \/ CreateProject(r, p)
                  \/ \E u \in Session, d \in Docs \ {EmptyDocs} :
                       CreateUploadSession(r, p, u, d)
                  \/ \E f \in Name : DeleteFile(r, p, f)
                  \/ \E b \in Build, k \in Key : SubmitBuild(r, p, b, k)
                  \/ Archive(r, p)
                  \/ Restore(r, p)
             \/ \E u \in Session : StartReceiving(r, u)
    <3>1. Free(r) /\ UNCHANGED finalizing
      BY <2>7 DEF CreateProject, CreateUploadSession, DeleteFile, RemoveRow,
                  SubmitBuild, Enqueue, Archive, Restore, StartReceiving, apiVars
    <3> QED BY <2>2, <2>4, <3>1
  <2> QED BY <1>1, <2>3, <2>5, <2>6, <2>7 DEF ApiStep
<1>2. CASE BackgroundStep \/ UNCHANGED vars
  <2>1. UNCHANGED <<finalizing, status>>
    BY <1>2 DEF BackgroundStep, CleanupExpiredUploads, SessionLapses,
                FinishReceiving, vars, snapshotVars
  <2>2. ASSUME NEW u \in Session
        PROVE  /\ upload'[u].project = upload[u].project
               /\ upload'[u].snapshot = upload[u].snapshot
    <3>1. CASE CleanupExpiredUploads
      BY <3>1 DEF CleanupExpiredUploads, TypeOK, SessionRow
    <3>2. CASE \E s \in Session : SessionLapses(s) \/ FinishReceiving(s)
      <4>1. PICK s \in Session : SessionLapses(s) \/ FinishReceiving(s)
        BY <3>2
      <4>2. CASE SessionLapses(s)
        BY <4>2 DEF SessionLapses, TypeOK, SessionRow
      <4>3. CASE FinishReceiving(s)
        BY <4>3 DEF FinishReceiving, TypeOK, SessionRow
      <4> QED BY <4>1, <4>2, <4>3
    <3>3. CASE UNCHANGED vars
      BY <3>3 DEF vars
    <3> QED BY <1>2, <3>1, <3>2, <3>3 DEF BackgroundStep
  <2> QED BY <2>1, <2>2, StoredKept
<1>3. CASE Complete
  <2>1. PICK b \in Build, p \in Project, n \in Index :
          /\ b = worker.build /\ p = job[b].project /\ n = job[b].snapshot
          /\ status[p][n] = "sealed"
    BY <1>3, BusyBuild DEF Complete, Busy
  <2>2. PICK m \in Index :
          status' = [status EXCEPT ![p] =
             [Superseded(p) EXCEPT ![n] = "active", ![m] = "editable"]]
    BY <1>3, <2>1 DEF Complete
  <2>3. UNCHANGED <<upload, finalizing>>
    BY <1>3 DEF Complete, apiVars
  <2>4. \A q \in Project, i \in Index :
          status[q][i] = "editable" => status'[q][i] = "editable"
    BY <2>1, <2>2 DEF TypeOK, Superseded
  <2> QED BY <2>3, <2>4, StoredKept
<1>4. CASE Fail
  <2>1. PICK b \in Build, p \in Project, n \in Index :
          /\ b = worker.build /\ p = job[b].project /\ n = job[b].snapshot
    BY <1>4, BusyBuild DEF Fail, Busy
  <2>2. /\ status' = [status EXCEPT ![p][n] = "editable"]
        /\ UNCHANGED <<upload, finalizing>>
    BY <1>4, <2>1 DEF Fail, apiVars, FailedSnapshot
  <2>3. \A q \in Project, i \in Index :
          status[q][i] = "editable" => status'[q][i] = "editable"
    BY <2>1, <2>2 DEF TypeOK
  <2> QED BY <2>2, <2>3, StoredKept
<1>5. CASE \/ WorkerStart
           \/ \E b \in Build : Claim(b)
           \/ MakeBuildRoot \/ StageVersion \/ Publish \/ RemoveBuildRoot
           \/ CleanFailedRoot \/ BuildRaises \/ Crash
  <2>1. UNCHANGED <<upload, finalizing, status>>
    BY <1>5 DEF WorkerStart, Claim, MakeBuildRoot, StageVersion, Publish,
                RemoveBuildRoot, CleanFailedRoot, BuildRaises, Crash, apiVars,
                snapshotVars
  <2> QED BY <2>1, StoredKept
<1> QED
  BY <1>1, <1>2, <1>3, <1>4, <1>5 DEF Next, WorkerStep

LEMMA GraphKept ==
  ASSUME IInv, ActiveMatchesGraph, UNCHANGED <<active, version>>,
         \A v \in Version : corpus[v] # EmptyDocs => corpus'[v] = corpus[v],
         \A p \in Project, n \in Index :
           status[p][n] = "active" => docs'[p][n] = docs[p][n]
  PROVE  ActiveMatchesGraph'
<1> SUFFICES ASSUME NEW p \in Project, version[p] # None
             PROVE  docs'[p][active[p]] = corpus'[version[p]]
  BY DEF ActiveMatchesGraph
<1>1. /\ version[p] \in Version /\ corpus[version[p]] # EmptyDocs
      /\ active[p] \in Index /\ status[p][active[p]] = "active"
  BY DEF IInv, TypeInv, TypeOK, ActiveIsPublished
<1> QED BY <1>1 DEF ActiveMatchesGraph

(* Files are written to, and deleted from, snapshots that are not served;  *)
(* complete_build activates the files that the version was built of.       *)
LEMMA GraphStep ==
  ASSUME IInv, StoredOnDraft, ActiveMatchesGraph, [Next]_vars
  PROVE  ActiveMatchesGraph'
<1> USE DEF IInv, TypeInv
<1> TypeOK
  OBVIOUS
<1>1. ASSUME NEW r \in Request, FinalizeCommit(r)
      PROVE  ActiveMatchesGraph'
  <2>1. PICK u \in Session, p \in Project, n \in Index :
          /\ u = finalizing[r].session
          /\ p = upload[u].project /\ n = upload[u].snapshot
    BY <1>1 DEF FinalizeCommit, HoldersOK, TypeOK, SessionRow
  <2>2. status[p][n] = "editable"
    BY <1>1, <2>1 DEF FinalizeCommit, StoredOnDraft
  <2>3. /\ docs' = [docs EXCEPT ![p][n] = Merge(docs[p][n], upload[u].docs)]
        /\ UNCHANGED <<active, version, corpus>>
    BY <1>1, <2>1 DEF FinalizeCommit, ApplyFinalize, projectVars, diskVars, TypeOK
  <2>4. \A q \in Project, i \in Index :
          status[q][i] = "active" => docs'[q][i] = docs[q][i]
    BY <2>1, <2>2, <2>3 DEF TypeOK
  <2> QED BY <2>3, <2>4, GraphKept
<1>2. ASSUME NEW r \in Request, NEW p \in Project, NEW f \in Name,
             DeleteFile(r, p, f)
      PROVE  ActiveMatchesGraph'
  <2>1. PICK n \in Index :
          /\ status[p][n] = "editable"
          /\ docs' = [docs EXCEPT ![p][n][f] = None]
          /\ UNCHANGED <<active, version, corpus>>
    BY <1>2 DEF DeleteFile, IsDraft, RemoveRow, projectVars, diskVars
  <2>2. \A q \in Project, i \in Index :
          status[q][i] = "active" => docs'[q][i] = docs[q][i]
    BY <2>1 DEF TypeOK
  <2> QED BY <2>1, <2>2, GraphKept
<1>3. ASSUME NEW r \in Request, ApiStep(r), ~FinalizeCommit(r),
             \A p \in Project, f \in Name : ~DeleteFile(r, p, f)
      PROVE  ActiveMatchesGraph'
  <2>1. UNCHANGED <<active, version, corpus, docs>>
    BY <1>3 DEF ApiStep, CreateProject, CreateUploadSession, SubmitBuild,
                Enqueue, Archive, Restore, StartReceiving, FinalizeValidate,
                FinalizeStore, FinalizeAbort, projectVars, snapshotVars, diskVars
  <2> QED BY <2>1, GraphKept
<1>4. CASE BackgroundStep \/ UNCHANGED vars
  <2>1. UNCHANGED <<active, version, corpus, docs>>
    BY <1>4 DEF BackgroundStep, CleanupExpiredUploads, SessionLapses,
                FinishReceiving, vars, projectVars, snapshotVars, diskVars
  <2> QED BY <2>1, GraphKept
<1>5. CASE Publish
  <2>1. UNCHANGED <<active, version, docs>>
    BY <1>5 DEF Publish, projectVars, snapshotVars
  <2>2. \A v \in Version : corpus[v] # EmptyDocs => corpus'[v] = corpus[v]
    BY <1>5 DEF Publish, TypeOK
  <2> QED BY <2>1, <2>2, GraphKept
<1>6. CASE Complete
  <2>1. PICK b \in Build, p \in Project, n \in Index :
          /\ b = worker.build /\ p = job[b].project /\ n = job[b].snapshot
          /\ status[p][n] = "sealed"
    BY <1>6, BusyBuild DEF Complete, Busy
  <2>2. PICK m \in Index :
          /\ status[p][m] = "none"
          /\ docs' = [docs EXCEPT ![p][m] = docs[p][n]]
    BY <1>6, <2>1 DEF Complete, IsNextSnapshot
  <2>3. /\ active' = [active EXCEPT ![p] = n]
        /\ version' = [version EXCEPT ![p] = GraphVersion(b)]
        /\ corpus' = corpus
    BY <1>6, <2>1 DEF Complete, diskVars
  <2>4. corpus[GraphVersion(b)] = docs[p][n]
    BY <1>6, <2>1 DEF Complete, WorkerHoldsItsBuild, SourceDocs
  <2>5. docs'[p][active'[p]] = corpus'[version'[p]]
    BY <2>1, <2>2, <2>3, <2>4 DEF TypeOK
  <2>6. ASSUME NEW q \in Project, q # p, version'[q] # None
        PROVE  docs'[q][active'[q]] = corpus'[version'[q]]
    BY <2>1, <2>2, <2>3, <2>6 DEF TypeOK, ActiveMatchesGraph
  <2> QED BY <2>5, <2>6 DEF ActiveMatchesGraph
<1>7. CASE \/ WorkerStart
           \/ \E b \in Build : Claim(b)
           \/ MakeBuildRoot \/ StageVersion \/ RemoveBuildRoot \/ Fail
           \/ CleanFailedRoot \/ BuildRaises \/ Crash
  <2>1. UNCHANGED <<active, version, docs, corpus>>
    BY <1>7 DEF WorkerStart, Claim, MakeBuildRoot, StageVersion, Fail,
                RemoveBuildRoot, CleanFailedRoot, BuildRaises, Crash, projectVars,
                snapshotVars, diskVars
  <2> QED BY <2>1, GraphKept
<1> QED
  BY <1>1, <1>2, <1>3, <1>4, <1>5, <1>6, <1>7 DEF Next, WorkerStep, ApiStep

(* While one handler runs at a time, the files of the active snapshot are  *)
(* those the served version was built of: uploads, deletions, expiries,    *)
(* failed builds and crashes reach only the draft.                         *)
THEOREM ServedIsListed ==
  ASSUME OneHandler
  PROVE  Spec => []ActiveMatchesGraph
<1>1. Init => StoredOnDraft /\ ActiveMatchesGraph
  BY DEF Init, StoredOnDraft, ActiveMatchesGraph, NoHandler
<1>2. /\ IInv /\ StoredOnDraft /\ ActiveMatchesGraph /\ [Next]_vars
      => StoredOnDraft' /\ ActiveMatchesGraph'
  BY StoredStep, GraphStep
<1> QED BY <1>1, <1>2, InvCorrect, PTL DEF Spec


-----------------------------------------------------------------------------
(* One activation per generation.                                          *)

(* What the compare-and-set needs, and no more: the job the worker is busy *)
(* with is building, and every job that was activated expected a           *)
(* generation of the past.  Row locks are not needed for it.               *)
BusyHolds == worker.phase \in Busy => worker.build \in Jobs("building")

ReadyOK(p) ==
  /\ IsFiniteSet(JobsOf(p, "ready"))
  /\ generation[p] = Cardinality(JobsOf(p, "ready"))
  /\ \A b \in JobsOf(p, "ready") : job[b].expected < generation[p]
  /\ \A b, c \in JobsOf(p, "ready") : job[b].expected = job[c].expected => b = c

CountInv == TypeInv /\ BusyHolds /\ \A p \in Project : ReadyOK(p)

(* A step that activates nothing.                                          *)
LEMMA ReadyKept ==
  ASSUME NEW p \in Project, ReadyOK(p), generation'[p] = generation[p],
         \A b \in Build :
           /\ job'[b].status = "ready" <=> job[b].status = "ready"
           /\ job[b].status = "ready" => /\ job'[b].project = job[b].project
                                         /\ job'[b].expected = job[b].expected
  PROVE  ReadyOK(p)'
<1>1. JobsOf(p, "ready")' = JobsOf(p, "ready")
  BY DEF JobsOf, Jobs
<1>2. \A b \in JobsOf(p, "ready") : job'[b].expected = job[b].expected
  BY DEF JobsOf, Jobs
<1>3. Cardinality(JobsOf(p, "ready")') = Cardinality(JobsOf(p, "ready"))
  BY <1>1
<1> QED BY <1>1, <1>2, <1>3 DEF ReadyOK

LEMMA JobsLeftAlone ==
  ASSUME CountInv, TypeInv', UNCHANGED <<job, generation>>,
         worker'.phase \in Busy => worker.phase \in Busy /\ worker'.build = worker.build
  PROVE  CountInv'
<1>1. BusyHolds'
  BY DEF CountInv, BusyHolds, Jobs
<1>2. \A p \in Project : ReadyOK(p)'
  BY ReadyKept DEF CountInv
<1> QED BY <1>1, <1>2 DEF CountInv

LEMMA EnqueueCounts ==
  ASSUME CountInv, TypeInv', NEW p \in Project, NEW n \in Index, NEW b \in Build,
         NEW k \in Key, NEW expected \in Nat, IsNextBuild(b),
         Enqueue(p, n, b, k, expected)
  PROVE  CountInv'
<1>1. /\ job[b].status = "none"
      /\ job \in [Build -> JobRow]
  BY DEF IsNextBuild, CountInv, TypeInv, TypeOK
<1>2. /\ job' = [job EXCEPT ![b] =
               [status |-> "queued", project |-> p, snapshot |-> n,
                expected |-> expected, key |-> k, error |-> "none"]]
      /\ UNCHANGED <<generation, worker>>
  BY DEF Enqueue
<1>3. BusyHolds'
  BY <1>1, <1>2 DEF CountInv, BusyHolds, Jobs
<1>4. \A c \in Build :
        /\ job'[c].status = "ready" <=> job[c].status = "ready"
        /\ job[c].status = "ready" => job'[c] = job[c]
  BY <1>1, <1>2
<1>5. \A q \in Project : ReadyOK(q)'
  BY <1>2, <1>4, ReadyKept DEF CountInv
<1> QED BY <1>3, <1>5 DEF CountInv

LEMMA CompleteCounts ==
  ASSUME CountInv, TypeInv', Complete
  PROVE  CountInv'
<1>1. PICK b \in Build : b = worker.build
  BY DEF Complete, CountInv, TypeInv, HoldersOK
<1>2. job \in [Build -> JobRow] /\ generation \in [Project -> Nat]
  BY DEF CountInv, TypeInv, TypeOK
<1>3. PICK p \in Project : p = job[b].project
  BY <1>2 DEF JobRow
<1>4. /\ job[b].status = "building"
      /\ job[b].expected = generation[p]
      /\ generation' = [generation EXCEPT ![p] = @ + 1]
      /\ job' = [job EXCEPT ![b].status = "ready"]
      /\ worker' = Resting("polling")
  BY <1>1, <1>3 DEF Complete, MayActivate
<1>5. BusyHolds'
  BY <1>4 DEF BusyHolds, Resting, Busy
<1>6. \A c \in Build \ {b} : job'[c] = job[c]
  BY <1>2, <1>4
<1>7. /\ job'[b].status = "ready" /\ job'[b].project = p
      /\ job'[b].expected = generation[p]
      /\ generation'[p] = generation[p] + 1 /\ generation[p] \in Nat
  BY <1>2, <1>3, <1>4 DEF JobRow
<1>8. ReadyOK(p)'
  <2> DEFINE S == JobsOf(p, "ready")
  <2>1. S' = S \cup {b} /\ b \notin S
    BY <1>1, <1>3, <1>4, <1>6, <1>7 DEF JobsOf, Jobs
  <2>2. /\ IsFiniteSet(S) /\ generation[p] = Cardinality(S)
        /\ \A c \in S : job[c].expected < generation[p]
        /\ \A c, d \in S : job[c].expected = job[d].expected => c = d
    BY DEF CountInv, ReadyOK
  <2>3. /\ IsFiniteSet(S \cup {b})
        /\ Cardinality(S \cup {b}) = Cardinality(S) + 1
    BY <2>1, <2>2, FS_AddElement
  <2>4. S \subseteq Build \ {b}
    BY <2>1 DEF JobsOf, Jobs
  <2>5. \A c \in S : job'[c].expected = job[c].expected /\ job[c].expected \in Nat
    BY <1>2, <1>6, <2>4 DEF JobRow
  <2> HIDE DEF S
  <2>6. \A c \in S \cup {b} : job'[c].expected < generation'[p]
    BY <1>7, <2>2, <2>5
  <2>7. \A c, d \in S \cup {b} : job'[c].expected = job'[d].expected => c = d
    BY <1>7, <2>2, <2>5
  <2>8. IsFiniteSet(S') /\ generation'[p] = Cardinality(S')
    BY <1>7, <2>1, <2>2, <2>3
  <2> QED BY <2>1, <2>6, <2>7, <2>8 DEF ReadyOK, S
<1>9. ASSUME NEW q \in Project, q # p
      PROVE  ReadyOK(q)'
  <2>1. JobsOf(q, "ready")' = JobsOf(q, "ready")
    BY <1>3, <1>6, <1>7, <1>9 DEF JobsOf, Jobs
  <2>2. \A c \in JobsOf(q, "ready") : job'[c].expected = job[c].expected
    BY <1>3, <1>4, <1>6, <1>9 DEF JobsOf, Jobs
  <2>3. generation'[q] = generation[q]
    BY <1>2, <1>4, <1>9
  <2>4. Cardinality(JobsOf(q, "ready")') = Cardinality(JobsOf(q, "ready"))
    BY <2>1
  <2> QED BY <2>1, <2>2, <2>3, <2>4 DEF CountInv, ReadyOK
<1> QED BY <1>5, <1>8, <1>9 DEF CountInv

LEMMA WorkerCounts ==
  ASSUME CountInv, TypeInv', WorkerStep \/ BuildRaises \/ Crash
  PROVE  CountInv'
<1> job \in [Build -> JobRow]
  BY DEF CountInv, TypeInv, TypeOK
<1>1. CASE WorkerStart
  <2>1. BusyHolds'
    BY <1>1 DEF WorkerStart, Resting, BusyHolds, Busy
  <2>2. \A b \in Build :
          /\ job'[b].status = "ready" <=> job[b].status = "ready"
          /\ job'[b].project = job[b].project
          /\ job'[b].expected = job[b].expected
    BY <1>1 DEF WorkerStart, RequeuedJob, JobRow
  <2>3. \A p \in Project : ReadyOK(p)'
    BY <1>1, <2>2, ReadyKept DEF WorkerStart, CountInv
  <2> QED BY <2>1, <2>3 DEF CountInv
<1>2. ASSUME NEW b \in Build, Claim(b)
      PROVE  CountInv'
  <2>1. /\ job' = [job EXCEPT ![b].status = "building"]
        /\ worker'.build = b
        /\ generation' = generation
        /\ job[b].status = "queued"
    BY <1>2 DEF Claim, Resting, Jobs
  <2>2. BusyHolds'
    BY <2>1 DEF BusyHolds, Jobs, JobRow
  <2>3. \A c \in Build :
          /\ job'[c].status = "ready" <=> job[c].status = "ready"
          /\ job'[c].project = job[c].project
          /\ job'[c].expected = job[c].expected
    BY <2>1 DEF JobRow
  <2>4. \A p \in Project : ReadyOK(p)'
    BY <2>1, <2>3, ReadyKept DEF CountInv
  <2> QED BY <2>2, <2>4 DEF CountInv
<1>3. CASE Complete
  BY <1>3, CompleteCounts
<1>4. CASE Fail
  <2>1. PICK b \in Build : b = worker.build /\ job[b].status = "building"
    BY <1>4 DEF Fail, CountInv, BusyHolds, Busy, Jobs
  <2>2. /\ job' = [job EXCEPT ![b] =
                     [job[b] EXCEPT !.status = "failed", !.error = worker.error]]
        /\ worker' = [worker EXCEPT !.phase = "cleaning"]
        /\ generation' = generation
    BY <1>4, <2>1 DEF Fail, FailedJob
  <2>3. BusyHolds'
    BY <2>2 DEF BusyHolds, Busy, CountInv, TypeInv, TypeOK, WorkerState
  <2>4. \A c \in Build :
          /\ job'[c].status = "ready" <=> job[c].status = "ready"
          /\ job'[c].project = job[c].project
          /\ job'[c].expected = job[c].expected
    BY <2>1, <2>2 DEF JobRow
  <2>5. \A p \in Project : ReadyOK(p)'
    BY <2>2, <2>4, ReadyKept DEF CountInv
  <2> QED BY <2>3, <2>5 DEF CountInv
<1>5. CASE \/ MakeBuildRoot \/ StageVersion \/ Publish \/ RemoveBuildRoot
           \/ CleanFailedRoot \/ BuildRaises \/ Crash
  <2>1. UNCHANGED <<job, generation>>
    BY <1>5 DEF MakeBuildRoot, StageVersion, Publish, RemoveBuildRoot,
                CleanFailedRoot, BuildRaises, Crash, projectVars
  <2>2. worker \in WorkerState
    BY DEF CountInv, TypeInv, TypeOK
  <2>3. worker'.phase \in Busy =>
          worker.phase \in Busy /\ worker'.build = worker.build
    <3>1. CASE MakeBuildRoot
      BY <2>2, <3>1 DEF MakeBuildRoot, FailWith, Busy, WorkerState
    <3>2. CASE Publish
      BY <2>2, <3>2 DEF Publish, FailWith, Busy, WorkerState
    <3>3. CASE StageVersion \/ RemoveBuildRoot \/ BuildRaises
      BY <2>2, <3>3
         DEF StageVersion, RemoveBuildRoot, BuildRaises, FailWith, Busy,
             WorkerState
    <3>4. CASE CleanFailedRoot \/ Crash
      BY <3>4 DEF CleanFailedRoot, Crash, Resting, Busy
    <3> QED BY <1>5, <3>1, <3>2, <3>3, <3>4
  <2> QED BY <2>1, <2>3, JobsLeftAlone
<1> QED BY <1>1, <1>2, <1>3, <1>4, <1>5 DEF WorkerStep

LEMMA CountStep == CountInv /\ [Next]_vars => CountInv'
<1> SUFFICES ASSUME CountInv, [Next]_vars
             PROVE  CountInv'
  OBVIOUS
<1>1. TypeInv'
  BY StepType DEF CountInv
<1>2. ASSUME NEW r \in Request, ApiStep(r)
      PROVE  CountInv'
  <2>1. ASSUME NEW p \in Project, NEW b \in Build, NEW k \in Key,
               SubmitBuild(r, p, b, k)
        PROVE  CountInv'
    BY <1>1, <2>1, EnqueueCounts DEF SubmitBuild, CountInv, TypeInv, TypeOK
  <2>2. CASE UNCHANGED <<job, generation, worker>>
    BY <1>1, <2>2, JobsLeftAlone
  <2> QED
    BY <1>2, <2>1, <2>2
       DEF ApiStep, CreateProject, CreateUploadSession, DeleteFile, RemoveRow,
           Archive, Restore, StartReceiving, FinalizeValidate, FinalizeStore,
           FinalizeCommit, ApplyFinalize, FinalizeAbort, projectVars
<1>3. CASE BackgroundStep \/ UNCHANGED vars
  <2>1. UNCHANGED <<job, generation, worker>>
    BY <1>3 DEF BackgroundStep, CleanupExpiredUploads, SessionLapses,
                FinishReceiving, vars, projectVars
  <2> QED BY <1>1, <2>1, JobsLeftAlone
<1> QED
  BY <1>1, <1>2, <1>3, WorkerCounts DEF Next

LEMMA InitCounts == Init => CountInv
<1> SUFFICES ASSUME Init PROVE CountInv
  OBVIOUS
<1>1. TypeInv /\ BusyHolds
  BY InitType DEF Init, BusyHolds, Resting, Busy
<1>2. ASSUME NEW p \in Project
      PROVE  ReadyOK(p)
  <2>1. JobsOf(p, "ready") = {}
    BY DEF Init, NoJobRow, JobsOf, Jobs
  <2>2. generation[p] = 0
    BY DEF Init
  <2> QED BY <2>1, <2>2, FS_EmptySet DEF ReadyOK
<1> QED BY <1>1, <1>2 DEF CountInv

(* No two builds activate on top of the same generation, and each          *)
(* generation was made by one: the compare-and-set of complete_build.      *)
THEOREM ActivationsCount == Spec => []OneActivationPerGeneration
<1>1. CountInv => OneActivationPerGeneration
  BY DEF CountInv, ReadyOK, OneActivationPerGeneration
<1> QED BY <1>1, InitCounts, CountStep, PTL DEF Spec

-----------------------------------------------------------------------------
(* ProjectBuilds implements CorpusActivation.  The corpus that is pending  *)
(* is what the sealed snapshot of the build in flight lists, the one that  *)
(* is served what the active version was built of.  submit_build,          *)
(* complete_build and fail_build are the abstract steps; every other step  *)
(* leaves both corpora alone.                                              *)

LEMMA PendingIdle ==
  ASSUME NEW p \in Project, BuildsInFlight(p) = {}
  PROVE  Pending[p] = None
  BY DEF Pending

LEMMA PendingBuild ==
  ASSUME NEW p \in Project, NEW b, BuildsInFlight(p) = {b}
  PROVE  Pending[p] = docs[p][job[b].snapshot]
<1>1. (CHOOSE c \in BuildsInFlight(p) : TRUE) = b
  OBVIOUS
<1> QED BY <1>1 DEF Pending

(* What is served changes only with the active version: nothing overwrites *)
(* the directory of a published one.                                       *)
LEMMA ServingKept ==
  ASSUME IInv, UNCHANGED version,
         \A v \in Version : corpus[v] # EmptyDocs => corpus'[v] = corpus[v]
  PROVE  Serving' = Serving
<1>1. \A p \in Project : version[p] # None => corpus'[version[p]] = corpus[version[p]]
  BY DEF IInv, TypeInv, TypeOK, ActiveIsPublished
<1> QED BY <1>1 DEF Serving

(* What is pending changes only with the builds in flight and the files of *)
(* their snapshots.                                                        *)
LEMMA PendingKept ==
  ASSUME IInv, NEW p \in Project, BuildsInFlight(p)' = BuildsInFlight(p),
         \A b \in BuildsInFlight(p) :
           /\ job'[b].snapshot = job[b].snapshot
           /\ docs'[p][job[b].snapshot] = docs[p][job[b].snapshot]
  PROVE  Pending'[p] = Pending[p]
<1>1. CASE BuildsInFlight(p) = {}
  BY <1>1 DEF Pending
<1>2. CASE BuildsInFlight(p) # {}
  <2>1. (CHOOSE b \in BuildsInFlight(p) : TRUE) \in BuildsInFlight(p)
    BY <1>2
  <2> QED BY <1>2, <2>1 DEF Pending
<1> QED BY <1>1, <1>2

(* A step that keeps the jobs, the served versions and the files of every  *)
(* snapshot that is being built keeps both corpora.                        *)
LEMMA CorporaKept ==
  ASSUME IInv, UNCHANGED <<version, generation>>,
         \A v \in Version : corpus[v] # EmptyDocs => corpus'[v] = corpus[v],
         \A p \in Project :
           /\ BuildsInFlight(p)' = BuildsInFlight(p)
           /\ \A b \in BuildsInFlight(p) :
                /\ job'[b].snapshot = job[b].snapshot
                /\ docs'[p][job[b].snapshot] = docs[p][job[b].snapshot]
  PROVE  UNCHANGED <<Pending, Serving, generation>>
<1>1. Serving' = Serving
  BY ServingKept
<1>2. \A p \in Project : Pending'[p] = Pending[p]
  BY PendingKept
<1>3. Pending' = Pending
  BY <1>2 DEF Pending
<1> QED BY <1>1, <1>3

-----------------------------------------------------------------------------
(* The three steps that change a corpus.                                   *)

LEMMA SubmitImplements ==
  ASSUME IInv, NEW r \in Request, NEW p \in Project, NEW b \in Build,
         NEW k \in Key, SubmitBuild(r, p, b, k)
  PROVE  \E c \in Docs \ {EmptyDocs} : Abstract!Submit(p, c)
<1>1. PICK n \in Index : docs[p][n] # EmptyDocs /\ Enqueue(p, n, b, k, generation[p])
  BY DEF SubmitBuild
<1>2. UNCHANGED <<version, generation, docs, corpus>>
  BY <1>1 DEF Enqueue, diskVars
<1>3. /\ job'[b].status = "queued"
      /\ job'[b].project = p
      /\ job'[b].snapshot = n
      /\ \A c \in Build \ {b} : job'[c] = job[c]
  BY <1>1 DEF Enqueue, IInv, TypeInv, TypeOK
<1>4. job[b].status = "none" /\ pstate[p] \notin Frozen
  BY DEF SubmitBuild, IsNextBuild
<1>5. BuildsInFlight(p) = {}
  BY <1>4, NotFrozenIdle
<1>6. BuildsInFlight(p)' = {b}
  <2>1. \A c \in Build \ {b} : job[c].status \in InFlight => job[c].project # p
    BY <1>5, InFlightJobs
  <2>2. \A c : c \in BuildsInFlight(p)' <=> c = b
    BY <1>3, <2>1 DEF BuildsInFlight, JobsOf, Jobs, InFlight
  <2> QED BY <2>2
<1>7. Pending'[p] = docs[p][n]
  <2>1. (CHOOSE c \in BuildsInFlight(p)' : TRUE) = b
    BY <1>6
  <2> QED BY <1>2, <1>3, <1>6, <2>1 DEF Pending
<1>8. \A q \in Project \ {p} : Pending'[q] = Pending[q]
  <2> SUFFICES ASSUME NEW q \in Project \ {p}
               PROVE  Pending'[q] = Pending[q]
    OBVIOUS
  <2>1. b \notin BuildsInFlight(q)
    BY <1>4, InFlightJobs DEF InFlight
  <2>2. \A c : c \in BuildsInFlight(q)' <=> c \in BuildsInFlight(q)
    BY <1>3, <1>4 DEF BuildsInFlight, JobsOf, Jobs
  <2>3. BuildsInFlight(q)' = BuildsInFlight(q)
    BY <2>2
  <2>4. \A c \in BuildsInFlight(q) : job'[c] = job[c]
    BY <1>3, <2>1, InFlightJobs
  <2> QED
    BY <1>2, <2>3, <2>4, PendingKept
<1>9. Pending' = [Pending EXCEPT ![p] = docs[p][n]]
  BY <1>7, <1>8 DEF Pending
<1>10. Serving' = Serving
  BY <1>2, ServingKept
<1>11. docs[p][n] \in Docs \ {EmptyDocs}
  BY <1>1 DEF IInv, TypeInv, TypeOK
<1>12. Pending[p] = None
  BY <1>5, PendingIdle
<1> QED
  BY <1>2, <1>9, <1>10, <1>11, <1>12 DEF Abstract!Submit

(* The build of p that was in flight is settled; other projects' pending   *)
(* corpora stay.                                                           *)
LEMMA SettledPending ==
  ASSUME IInv, worker.phase \in Busy,
         NEW b, b = worker.build,
         NEW p \in Project, p = job[b].project,
         job'[b].status \notin InFlight,
         \A c \in Build \ {b} : job'[c] = job[c],
         \A q \in Project \ {p} : docs'[q] = docs[q]
  PROVE  /\ Pending[p] = docs[p][job[b].snapshot]
         /\ Pending[p] # None
         /\ Pending' = [Pending EXCEPT ![p] = None]
<1>1. BuildsInFlight(p) = {b} /\ job[b].snapshot \in Index
  BY BusyBuild
<1>2. Pending[p] = docs[p][job[b].snapshot]
  BY <1>1, PendingBuild
<1>3. Pending[p] # None
  BY <1>1, <1>2, IdsAssumption DEF IInv, TypeInv, TypeOK
<1>4. /\ BuildsInFlight(p)' = {}
      /\ \A q \in Project \ {p} : /\ BuildsInFlight(q)' = BuildsInFlight(q)
                                  /\ BuildsInFlight(q) \subseteq Build \ {b}
  BY SettledJobs
<1>5. Pending'[p] = None
  BY <1>4 DEF Pending
<1>6. \A q \in Project \ {p} : Pending'[q] = Pending[q]
  BY <1>4, PendingKept
<1>7. Pending' = [Pending EXCEPT ![p] = None]
  <2>1. /\ Pending = [q \in Project |-> Pending[q]]
        /\ Pending' = [q \in Project |-> Pending'[q]]
    BY DEF Pending
  <2> QED BY <1>5, <1>6, <2>1
<1> QED BY <1>2, <1>3, <1>7

LEMMA CompleteImplements ==
  ASSUME IInv, Complete
  PROVE  \E p \in Project : Abstract!Activate(p)
<1>1. worker.phase \in Busy /\ worker.phase = "completing"
  BY DEF Complete, Busy
<1>2. PICK b \in Build, p \in Project, n \in Index :
        b = worker.build /\ p = job[b].project /\ n = job[b].snapshot
  BY <1>1, BusyBuild
<1>3. /\ version' = [version EXCEPT ![p] = GraphVersion(b)]
      /\ generation' = [generation EXCEPT ![p] = @ + 1]
      /\ job' = [job EXCEPT ![b].status = "ready"]
      /\ UNCHANGED corpus
  BY <1>2 DEF Complete, diskVars
<1>4. \A q \in Project \ {p} : docs'[q] = docs[q]
  <2>1. PICK m \in Index : docs' = [docs EXCEPT ![job[worker.build].project][m] =
                docs[job[worker.build].project][job[worker.build].snapshot]]
    BY DEF Complete
  <2> QED BY <1>2, <2>1 DEF IInv, TypeInv, TypeOK
<1>5. job'[b].status = "ready" /\ \A c \in Build \ {b} : job'[c] = job[c]
  BY <1>3 DEF IInv, TypeInv, TypeOK, JobRow
<1>6. /\ Pending[p] = docs[p][n]
      /\ Pending[p] # None
      /\ Pending' = [Pending EXCEPT ![p] = None]
  BY <1>1, <1>2, <1>4, <1>5, SettledPending DEF InFlight
<1>7. corpus[GraphVersion(b)] = docs[p][n]
  BY <1>1, <1>2 DEF IInv, WorkerHoldsItsBuild, SourceDocs
<1>8. GraphVersion(b) \in Version /\ GraphVersion(b) # None
  BY GraphVersionType, IdsAssumption DEF IInv, TypeInv, TypeOK
<1>9. /\ version'[p] = GraphVersion(b)
      /\ \A q \in Project \ {p} : version'[q] = version[q]
  BY <1>3 DEF IInv, TypeInv, TypeOK
<1>10. Serving'[p] = docs[p][n]
  BY <1>3, <1>7, <1>8, <1>9 DEF Serving
<1>11. \A q \in Project \ {p} : Serving'[q] = Serving[q]
  BY <1>3, <1>9 DEF Serving
<1>12. Serving' = [Serving EXCEPT ![p] = Pending[p]]
  BY <1>6, <1>10, <1>11 DEF Serving
<1> QED
  BY <1>3, <1>6, <1>12 DEF Abstract!Activate

LEMMA FailImplements ==
  ASSUME IInv, Fail
  PROVE  \E p \in Project : Abstract!GiveUp(p)
<1>1. worker.phase \in Busy
  BY DEF Fail, Busy
<1>2. PICK b \in Build, p \in Project :
        b = worker.build /\ p = job[b].project
  BY <1>1, BusyBuild
<1>3. /\ job' = [job EXCEPT ![b] = FailedJob(b)]
      /\ UNCHANGED <<version, generation, docs, corpus>>
  BY <1>2 DEF Fail, diskVars
<1>4. job'[b].status = "failed" /\ \A c \in Build \ {b} : job'[c] = job[c]
  BY <1>3 DEF FailedJob, IInv, TypeInv, TypeOK, JobRow
<1>5. Pending[p] # None /\ Pending' = [Pending EXCEPT ![p] = None]
  BY <1>1, <1>2, <1>3, <1>4, SettledPending DEF InFlight
<1>6. Serving' = Serving
  BY <1>3, ServingKept
<1> QED
  BY <1>3, <1>5, <1>6 DEF Abstract!GiveUp
-----------------------------------------------------------------------------
(* The other steps stutter.                                                *)

(* The files of a project that takes requests are not being built.         *)
LEMMA IdleRowsStutter ==
  ASSUME IInv, NEW p \in Project, pstate[p] \notin Frozen,
         UNCHANGED <<version, generation, job, corpus>>,
         \A q \in Project \ {p} : docs'[q] = docs[q]
  PROVE  UNCHANGED <<Pending, Serving, generation>>
<1>1. BuildsInFlight(p) = {}
  BY NotFrozenIdle
<1>2. \A q \in Project : BuildsInFlight(q)' = BuildsInFlight(q)
  BY DEF BuildsInFlight, JobsOf, Jobs
<1> QED BY <1>1, <1>2, CorporaKept

LEMMA ApiStutters ==
  ASSUME IInv, NEW r \in Request, ApiStep(r),
         ~ \E p \in Project, b \in Build, k \in Key : SubmitBuild(r, p, b, k)
  PROVE  UNCHANGED <<Pending, Serving, generation>>
<1> DEFINE Quiet == UNCHANGED <<version, generation, docs, job, corpus>>
<1>1. Quiet => UNCHANGED <<Pending, Serving, generation>>
  BY DEF Pending, Serving, BuildsInFlight, JobsOf, Jobs
<1>2. ASSUME NEW p \in Project, CreateProject(r, p) \/ Archive(r, p) \/ Restore(r, p)
      PROVE  Quiet
  BY <1>2 DEF CreateProject, Archive, Restore, snapshotVars, diskVars
<1>3. ASSUME NEW p \in Project, NEW u \in Session, NEW d \in Docs,
             CreateUploadSession(r, p, u, d)
      PROVE  Quiet
  BY <1>3 DEF CreateUploadSession, projectVars, snapshotVars, diskVars
<1>4. ASSUME NEW u \in Session, StartReceiving(r, u) \/ FinalizeValidate(r, u)
      PROVE  Quiet
  BY <1>4 DEF StartReceiving, FinalizeValidate, projectVars, snapshotVars, diskVars
<1>5. ASSUME FinalizeStore(r) \/ FinalizeAbort(r)
      PROVE  Quiet
  BY <1>5 DEF FinalizeStore, FinalizeAbort, projectVars, snapshotVars, diskVars
<1>6. CASE FinalizeCommit(r)
  <2>1. finalizing[r].session \in Session
    BY <1>6 DEF FinalizeCommit, IInv, TypeInv, HoldersOK
  <2>2. PICK p \in Project : p = upload[finalizing[r].session].project
    BY <2>1 DEF IInv, TypeInv, TypeOK, SessionRow
  <2>3. /\ pstate[p] \notin Frozen
        /\ UNCHANGED <<version, generation, job, corpus>>
        /\ \A q \in Project \ {p} : docs'[q] = docs[q]
    BY <1>6, <2>2 DEF FinalizeCommit, ApplyFinalize, projectVars, diskVars, IInv,
                      TypeInv, TypeOK
  <2> QED BY <2>3, IdleRowsStutter
<1>7. ASSUME NEW p \in Project, NEW f \in Name, DeleteFile(r, p, f)
      PROVE  UNCHANGED <<Pending, Serving, generation>>
  <2>1. /\ pstate[p] \notin Frozen
        /\ UNCHANGED <<version, generation, job, corpus>>
        /\ \A q \in Project \ {p} : docs'[q] = docs[q]
    BY <1>7 DEF DeleteFile, RemoveRow, projectVars, diskVars, IInv, TypeInv, TypeOK
  <2> QED BY <2>1, IdleRowsStutter
<1> HIDE DEF Quiet
<1> QED
  BY <1>1, <1>2, <1>3, <1>4, <1>5, <1>6, <1>7 DEF ApiStep

LEMMA WorkerStutters ==
  ASSUME IInv,
         \/ WorkerStart
         \/ \E b \in Build : Claim(b)
         \/ MakeBuildRoot \/ StageVersion \/ Publish \/ RemoveBuildRoot
         \/ CleanFailedRoot \/ BuildRaises \/ Crash
  PROVE  UNCHANGED <<Pending, Serving, generation>>
<1>1. \A p \in Project : BuildsInFlight(p) \subseteq Build
  BY InFlightJobs
<1>2. CASE WorkerStart
  <2>1. UNCHANGED <<version, generation, docs, corpus>>
    BY <1>2 DEF WorkerStart, diskVars
  <2>2. \A c \in Build :
          /\ job'[c].project = job[c].project
          /\ job'[c].snapshot = job[c].snapshot
          /\ job'[c].status \in InFlight <=> job[c].status \in InFlight
    BY <1>2 DEF WorkerStart, RequeuedJob, InFlight, IInv, TypeInv, TypeOK, JobRow
  <2>3. \A p \in Project : BuildsInFlight(p)' = BuildsInFlight(p)
    BY <2>2 DEF BuildsInFlight, JobsOf, Jobs, InFlight
  <2> QED BY <1>1, <2>1, <2>2, <2>3, CorporaKept
<1>3. ASSUME NEW b \in Build, Claim(b)
      PROVE  UNCHANGED <<Pending, Serving, generation>>
  <2>1. UNCHANGED <<version, generation, docs, corpus>>
    BY <1>3 DEF Claim, diskVars
  <2>2. \A c \in Build :
          /\ job'[c].project = job[c].project
          /\ job'[c].snapshot = job[c].snapshot
          /\ job'[c].status \in InFlight <=> job[c].status \in InFlight
    BY <1>3 DEF Claim, Jobs, InFlight, IInv, TypeInv, TypeOK, JobRow
  <2>3. \A p \in Project : BuildsInFlight(p)' = BuildsInFlight(p)
    BY <2>2 DEF BuildsInFlight, JobsOf, Jobs, InFlight
  <2> QED BY <1>1, <2>1, <2>2, <2>3, CorporaKept
<1>4. CASE Publish
  <2>1. UNCHANGED <<version, generation, docs, job>>
    BY <1>4 DEF Publish, projectVars, snapshotVars
  <2>2. \A v \in Version : corpus[v] # EmptyDocs => corpus'[v] = corpus[v]
    BY <1>4 DEF Publish, IInv, TypeInv, TypeOK
  <2>3. \A p \in Project : BuildsInFlight(p)' = BuildsInFlight(p)
    BY <2>1 DEF BuildsInFlight, JobsOf, Jobs
  <2> QED BY <2>1, <2>2, <2>3, CorporaKept
<1>5. CASE \/ MakeBuildRoot \/ StageVersion \/ RemoveBuildRoot
           \/ CleanFailedRoot \/ BuildRaises \/ Crash
  <2>1. UNCHANGED <<version, generation, docs, job, corpus>>
    BY <1>5 DEF MakeBuildRoot, StageVersion, RemoveBuildRoot,
                CleanFailedRoot, BuildRaises, Crash, projectVars, snapshotVars,
                diskVars
  <2> QED BY <2>1 DEF Pending, Serving, BuildsInFlight, JobsOf, Jobs
<1> QED BY <1>2, <1>3, <1>4, <1>5

LEMMA BackgroundStutters ==
  ASSUME BackgroundStep \/ UNCHANGED vars
  PROVE  UNCHANGED <<Pending, Serving, generation>>
<1>1. UNCHANGED <<version, generation, docs, job, corpus>>
  BY DEF BackgroundStep, CleanupExpiredUploads, SessionLapses, FinishReceiving,
         vars, projectVars, snapshotVars, diskVars
<1> QED BY <1>1 DEF Pending, Serving, BuildsInFlight, JobsOf, Jobs

-----------------------------------------------------------------------------

LEMMA InitImplements == Init => Abstract!Init
<1> SUFFICES ASSUME Init PROVE Abstract!Init
  OBVIOUS
<1>1. \A p \in Project : BuildsInFlight(p) = {}
  BY DEF Init, NoJobRow, BuildsInFlight, JobsOf, Jobs
<1>2. Pending = [p \in Project |-> None]
  BY <1>1 DEF Pending
<1>3. Serving = [p \in Project |-> None]
  BY DEF Init, Serving
<1> QED BY <1>2, <1>3 DEF Init, Abstract!Init

LEMMA StepImplements ==
  IInv /\ [Next]_vars => [Abstract!Next]_<<Pending, Serving, generation>>
<1> SUFFICES ASSUME IInv, [Next]_vars
             PROVE  \/ Abstract!Next
                    \/ UNCHANGED <<Pending, Serving, generation>>
  OBVIOUS
<1>1. ASSUME NEW r \in Request, ApiStep(r)
      PROVE  \/ Abstract!Next
             \/ UNCHANGED <<Pending, Serving, generation>>
  BY <1>1, SubmitImplements, ApiStutters DEF Abstract!Next
<1>2. CASE BackgroundStep \/ UNCHANGED vars
  BY <1>2, BackgroundStutters
<1>3. CASE Complete
  BY <1>3, CompleteImplements DEF Abstract!Next
<1>4. CASE Fail
  BY <1>4, FailImplements DEF Abstract!Next
<1>5. CASE \/ WorkerStart
           \/ \E b \in Build : Claim(b)
           \/ MakeBuildRoot \/ StageVersion \/ Publish \/ RemoveBuildRoot
           \/ CleanFailedRoot \/ BuildRaises \/ Crash
  BY <1>5, WorkerStutters
<1> QED
  BY <1>1, <1>2, <1>3, <1>4, <1>5 DEF Next, WorkerStep

(* A build activates exactly the files that were sealed when it was        *)
(* submitted, in one step, or is given up and leaves what is served as it  *)
(* is: with row locks, for every number of projects, overlapping handlers, *)
(* retries and crashes, the lifecycle implements CorpusActivation.         *)
THEOREM ActivationImplemented == Spec => ImplementsActivation
<1>1. Init => Abstract!Init
  BY InitImplements
<1>2. IInv /\ [Next]_vars => [Abstract!Next]_<<Pending, Serving, generation>>
  BY StepImplements
<1>3. Spec => Abstract!Init /\ [][Abstract!Next]_<<Pending, Serving, generation>>
  BY <1>1, <1>2, InvCorrect, PTL DEF Spec
<1> QED
  BY <1>3 DEF ImplementsActivation, Abstract!Spec, Abstract!corpusVars

============================================================================
