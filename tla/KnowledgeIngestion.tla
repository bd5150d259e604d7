------------------------- MODULE KnowledgeIngestion -------------------------
(***************************************************************************)
(* The knowledge ingestion service (apps/api/app/knowledge/service/        *)
(* ingestion.py): graph versions on disk, the "active" symlink, the        *)
(* manifest, the source index, and the process lock that serializes        *)
(* ingestions and rollbacks of the API process and of the command line.    *)
(*                                                                         *)
(* Steps.  The service makes several durable writes in a row, each of them *)
(* atomic by itself (a rename or a SQLite transaction).  Every write is an *)
(* action, so that a process may crash, and a reader may look, between any *)
(* two.  What a run reads and does without a durable effect belongs to the *)
(* action of the write that follows.                                       *)
(*                                                                         *)
(* Failures.  Discovery, Graphify and indexing may fail at any time.  An   *)
(* I/O fault is a write that raises: before its rename or, when the fsync  *)
(* of the directory raises, after it.                                      *)
(*                                                                         *)
(* Data.  A set of source documents is its sourceVersion (Source); a graph *)
(* is the documents it was built from.  The processing fingerprint stands  *)
(* for the Graphify version too: the skip test compares both.              *)
(***************************************************************************)
EXTENDS Naturals, FiniteSets

CONSTANTS
  Process,         \* processes that run the service on one knowledge volume
  Source,          \* sets of source documents
  Fingerprint,     \* document processing configurations
  MaxIngestions,   \* bound: ingestion ids handed out
  VersionsToKeep,  \* settings.knowledge_graph_versions_to_keep
  MaxCrashes,      \* bound: crashes of a process in the middle of a run
  MaxFaults,       \* bound: writes that raise
  None             \* no value

(* settings.py: knowledge_graph_versions_to_keep is at least 2.            *)
ASSUME IngestionAssumption ==
  /\ MaxIngestions \in Nat
  /\ VersionsToKeep \in Nat \ {0, 1}
  /\ MaxCrashes \in Nat
  /\ MaxFaults \in Nat
  /\ None \notin Process \cup Source \cup Fingerprint \cup Nat

-----------------------------------------------------------------------------

(* Versions are named by the ingestion that built them; the names begin    *)
(* with its start time, so they sort in the order of the ingestions.       *)
Version == 1 .. MaxIngestions

(* The text "None": what str() makes of a manifest's missing version.      *)
Unnamed == 0
VersionName == Version \cup {Unnamed}

(* manifest.json, with "source" for sourceVersion and the documents.       *)
ManifestRow ==
  [source : Source \cup {None}, fingerprint : Fingerprint \cup {None},
   active : VersionName \cup {None}, previous : VersionName \cup {None},
   status : {"running", "completed", "failed"}]

Phase == {"idle", "discovered", "building", "indexed", "published",
          "activated", "completed", "failing", "rolling", "rolled"}

(* The passages of one version: all of one set of documents.               *)
PassageRow == [source : Source, fingerprint : Fingerprint]

ASSUME RowAssumption == None \notin PassageRow \cup ManifestRow

(* The local variables of _execute and of rollback.                        *)
RunState ==
  [phase : Phase, id : VersionName, force : BOOLEAN,
   old : ManifestRow \cup {None}, source : Source \cup {None},
   prior : Version \cup {None}]

Idle == [phase |-> "idle", id |-> Unnamed, force |-> FALSE, old |-> None,
         source |-> None, prior |-> None]

VARIABLES
  input,        \* the documents of the input directory
  fingerprint,  \* settings.knowledge_processing_fingerprint
  versions,     \* versions/<id>: the documents its graph was built from
  link,         \* the version the active symlink names
  manifest,     \* manifest.json
  rows,         \* the passages of a version name in the source index
  lock,         \* the holder of manifest.lock
  proc,         \* what each process is doing
  lastId,       \* ingestion ids handed out
  crashes,      \* crashes so far
  faults        \* writes that raised so far

envVars == <<input, fingerprint>>
diskVars == <<versions, link, manifest, rows>>
runVars == <<lock, proc, lastId>>
vars == <<envVars, diskVars, runVars, crashes, faults>>

TypeOK ==
  /\ input \in Source
  /\ fingerprint \in Fingerprint
  /\ versions \in [Version -> Source \cup {None}]
  /\ link \in Version \cup {None}
  /\ manifest \in ManifestRow \cup {None}
  /\ rows \in [VersionName -> PassageRow \cup {None}]
  /\ lock \in Process \cup {None}
  /\ proc \in [Process -> RunState]
  /\ lastId \in 0 .. MaxIngestions
  /\ crashes \in 0 .. MaxCrashes
  /\ faults \in 0 .. MaxFaults

-----------------------------------------------------------------------------
(* What the service reads.                                                 *)

Published == {v \in Version : versions[v] # None}

(* _active_target, _has_valid_active_graph: the link, if its graph exists. *)
ActiveTarget == IF link \in Published THEN link ELSE None

HasRows(n) == rows[n] # None /\ rows[n].fingerprint = fingerprint

(* The name under which the skip path looks its version up.                *)
NameOf(m) == IF m.active = None THEN Unnamed ELSE m.active

Unchanged(p) ==
  /\ ~proc[p].force
  /\ proc[p].old # None
  /\ proc[p].old.source = proc[p].source
  /\ proc[p].old.fingerprint = fingerprint
  /\ ActiveTarget # None

(* _prune_versions: all but the newest by name.                            *)
Surplus_Oldest ==
  {v \in Published : Cardinality({w \in Published : w < v}) >= VersionsToKeep}

Surplus_OneLess ==
  {v \in Published : Cardinality({w \in Published : w > v}) + 1 >= VersionsToKeep}

Surplus ==
  {v \in Published : Cardinality({w \in Published : w > v}) >= VersionsToKeep}

-----------------------------------------------------------------------------
(* The manifests a run writes.                                             *)

ManifestWithout(p, st) ==
  LET old == proc[p].old
  IN [source |-> proc[p].source, fingerprint |-> fingerprint,
      active |-> IF old = None THEN None ELSE old.active,
      previous |-> IF old = None THEN None ELSE old.previous,
      status |-> st]

CompletedManifest(p) ==
  LET old == proc[p].old
  IN [source |-> proc[p].source, fingerprint |-> fingerprint,
      active |-> proc[p].id,
      previous |-> IF old = None THEN None ELSE old.active,
      status |-> "completed"]

SkippedManifest(p) ==
  [ManifestWithout(p, "completed") EXCEPT !.active = NameOf(proc[p].old)]

(* _source_failure_manifest                                                *)
RejectedManifest(p) ==
  IF proc[p].old = None
  THEN [source |-> None, fingerprint |-> None, active |-> None,
        previous |-> None, status |-> "failed"]
  ELSE [proc[p].old EXCEPT !.status = "failed"]

RolledBackManifest(p) ==
  [proc[p].old EXCEPT !.active = proc[p].old.previous,
                      !.previous = proc[p].old.active]

-----------------------------------------------------------------------------
(* Outcomes of a write.                                                    *)

Raises == faults < MaxFaults /\ faults' = faults + 1

Writes(m) == manifest' = m /\ UNCHANGED faults
WriteRaises(m) == manifest' \in {manifest, m} /\ Raises

Enter(p, ph) == proc' = [proc EXCEPT ![p].phase = ph]
Release(p) == lock' = None /\ proc' = [proc EXCEPT ![p] = Idle]

EndsWith_LockKept(p, m) ==
  /\ Writes(m) \/ WriteRaises(m)
  /\ proc' = [proc EXCEPT ![p] = Idle]
  /\ UNCHANGED <<envVars, versions, link, rows, lock, lastId, crashes>>

(* The run ends with the manifest m; an exception from here is not caught. *)
EndsWith(p, m) ==
  /\ Writes(m) \/ WriteRaises(m)
  /\ Release(p)
  /\ UNCHANGED <<envVars, versions, link, rows, lastId, crashes>>

-----------------------------------------------------------------------------

Init ==
  /\ input \in Source
  /\ fingerprint \in Fingerprint
  /\ versions = [v \in Version |-> None]
  /\ link = None
  /\ manifest = None
  /\ rows = [n \in VersionName |-> None]
  /\ lock = None
  /\ proc = [p \in Process |-> Idle]
  /\ lastId = 0
  /\ crashes = 0
  /\ faults = 0

MayTakeLock_Busy(p) == proc[p].phase = "idle"

MayTakeLock(p) == proc[p].phase = "idle" /\ lock = None

(* start, run_now, maybe_startup: take the process lock without waiting,   *)
(* then read the manifest and the documents.                               *)
Begin(p, force) ==
  /\ MayTakeLock(p)
  /\ lastId < MaxIngestions
  /\ lock' = p
  /\ lastId' = lastId + 1
  /\ proc' = [proc EXCEPT ![p] =
                [phase |-> "discovered", id |-> lastId + 1, force |-> force,
                 old |-> manifest, source |-> input, prior |-> None]]
  /\ UNCHANGED <<envVars, diskVars, crashes, faults>>

(* The documents cannot be read.                                           *)
Reject(p) ==
  /\ proc[p].phase = "discovered"
  /\ EndsWith(p, RejectedManifest(p))

(* Nothing changed, but the active version has no passages of this         *)
(* fingerprint: they are indexed again, from the documents just read.      *)
Reconcile(p) ==
  /\ proc[p].phase = "discovered"
  /\ Unchanged(p)
  /\ ~HasRows(NameOf(proc[p].old))
  /\ rows' = [rows EXCEPT ![NameOf(proc[p].old)] =
                [source |-> proc[p].source, fingerprint |-> fingerprint]]
  /\ UNCHANGED <<envVars, versions, link, manifest, runVars, crashes, faults>>

ReconcileFails(p) ==
  /\ proc[p].phase = "discovered"
  /\ Unchanged(p)
  /\ ~HasRows(NameOf(proc[p].old))
  /\ EndsWith(p, ManifestWithout(p, "failed"))

Skip(p) ==
  /\ proc[p].phase = "discovered"
  /\ Unchanged(p)
  /\ HasRows(NameOf(proc[p].old))
  /\ EndsWith(p, SkippedManifest(p))

StartBuild(p) ==
  /\ proc[p].phase = "discovered"
  /\ ~Unchanged(p)
  /\ \/ Writes(ManifestWithout(p, "running")) /\ Enter(p, "building")
        /\ UNCHANGED lock
     \/ WriteRaises(ManifestWithout(p, "running")) /\ Release(p)
  /\ UNCHANGED <<envVars, versions, link, rows, lastId, crashes>>

IndexRows_Dropped(p) ==
  /\ proc[p].phase = "building"
  /\ Enter(p, "indexed")
  /\ UNCHANGED <<envVars, diskVars, lock, lastId, crashes, faults>>

IndexRows_ReadAgain(p) ==
  /\ proc[p].phase = "building"
  /\ rows' = [rows EXCEPT ![proc[p].id] =
                [source |-> input, fingerprint |-> fingerprint]]
  /\ Enter(p, "indexed")
  /\ UNCHANGED <<envVars, versions, link, manifest, lock, lastId, crashes, faults>>

(* Graphify has returned a valid graph; the passages of the new version    *)
(* are indexed in one transaction.                                         *)
IndexRows(p) ==
  /\ proc[p].phase = "building"
  /\ rows' = [rows EXCEPT ![proc[p].id] =
                [source |-> proc[p].source, fingerprint |-> fingerprint]]
  /\ Enter(p, "indexed")
  /\ UNCHANGED <<envVars, versions, link, manifest, lock, lastId, crashes, faults>>

(* Graphify fails, times out or returns no valid graph; indexing or        *)
(* writing the directory to publish raises.                                *)
BuildFails(p) ==
  /\ proc[p].phase \in {"building", "indexed"}
  /\ Enter(p, "failing")
  /\ UNCHANGED <<envVars, diskVars, lock, lastId, crashes, faults>>

(* os.replace(publish, target)                                             *)
Publish(p) ==
  /\ proc[p].phase = "indexed"
  /\ versions[proc[p].id] = None
  /\ versions' = [versions EXCEPT ![proc[p].id] = proc[p].source]
  /\ Enter(p, "published")
  /\ UNCHANGED <<envVars, link, manifest, rows, lock, lastId, crashes, faults>>

(* _activate, with the link it replaces remembered; an exception from here *)
(* is not caught where the link would be restored.                         *)
Relink(p, v, ph) ==
  /\ proc' = [proc EXCEPT ![p].phase = ph, ![p].prior = ActiveTarget]
  /\ link' = v

Activate(p) ==
  /\ proc[p].phase = "published"
  /\ proc[p].id \in Published
  /\ Relink(p, proc[p].id, "activated")
  /\ UNCHANGED <<envVars, versions, manifest, rows, lock, lastId, crashes, faults>>

ActivateRaises(p) ==
  /\ proc[p].phase = "published"
  /\ Raises
  /\ link' \in {link, proc[p].id}
  /\ Enter(p, "failing")
  /\ UNCHANGED <<envVars, versions, manifest, rows, lock, lastId, crashes>>

Complete(p) ==
  /\ proc[p].phase = "activated"
  /\ Writes(CompletedManifest(p))
  /\ Enter(p, "completed")
  /\ UNCHANGED <<envVars, versions, link, rows, lock, lastId, crashes>>

(* _restore_active(prior_target)                                           *)
CompleteRaises(p) ==
  /\ proc[p].phase = "activated"
  /\ WriteRaises(CompletedManifest(p))
  /\ link' = proc[p].prior
  /\ Enter(p, "failing")
  /\ UNCHANGED <<envVars, versions, rows, lock, lastId, crashes>>

(* _prune_versions removes the surplus directories, the newest first.      *)
IsNextSurplus(v) == v \in Surplus /\ \A w \in Surplus : w <= v

Prune_WithRows(p) ==
  /\ proc[p].phase = "completed"
  /\ \E v \in Version :
       /\ IsNextSurplus(v)
       /\ versions' = [versions EXCEPT ![v] = None]
       /\ rows' = [rows EXCEPT ![v] = None]
  /\ UNCHANGED <<envVars, link, manifest, runVars, crashes, faults>>

Prune(p) ==
  /\ proc[p].phase = "completed"
  /\ \E v \in Version : IsNextSurplus(v) /\ versions' = [versions EXCEPT ![v] = None]
  /\ UNCHANGED <<envVars, link, manifest, rows, runVars, crashes, faults>>

PruneRaises(p) ==
  /\ proc[p].phase = "completed"
  /\ \E v \in Version :
       IsNextSurplus(v) /\ versions' \in {versions, [versions EXCEPT ![v] = None]}
  /\ Raises
  /\ Enter(p, "failing")
  /\ UNCHANGED <<envVars, link, manifest, rows, lock, lastId, crashes>>

EndOfRun(p) ==
  /\ proc[p].phase = "completed"
  /\ Surplus = {}
  /\ Release(p)
  /\ UNCHANGED <<envVars, diskVars, lastId, crashes, faults>>

Fail_Silent(p) ==
  /\ proc[p].phase = "failing"
  /\ EndsWith(p, manifest)

(* The except branch of _execute: the failed manifest, made from the old   *)
(* one.                                                                    *)
Fail(p) ==
  /\ proc[p].phase = "failing"
  /\ EndsWith(p, ManifestWithout(p, "failed"))

-----------------------------------------------------------------------------
(* rollback, and what happens around the service.                          *)

BeginRollback(p) ==
  /\ MayTakeLock(p)
  /\ manifest # None
  /\ manifest.previous \in Published
  /\ lock' = p
  /\ proc' = [proc EXCEPT ![p] = [Idle EXCEPT !.phase = "rolling",
                                              !.old = manifest]]
  /\ UNCHANGED <<envVars, diskVars, lastId, crashes, faults>>

RollbackActivate(p) ==
  /\ proc[p].phase = "rolling"
  /\ proc[p].old.previous \in Published
  /\ Relink(p, proc[p].old.previous, "rolled")
  /\ UNCHANGED <<envVars, versions, manifest, rows, lock, lastId, crashes, faults>>

RollbackActivateRaises(p) ==
  /\ proc[p].phase = "rolling"
  /\ proc[p].old.previous \in Published
  /\ Raises
  /\ link' \in {link, proc[p].old.previous}
  /\ Release(p)
  /\ UNCHANGED <<envVars, versions, manifest, rows, lastId, crashes>>

RollbackComplete(p) ==
  /\ proc[p].phase = "rolled"
  /\ Writes(RolledBackManifest(p))
  /\ Release(p)
  /\ UNCHANGED <<envVars, versions, link, rows, lastId, crashes>>

RollbackCompleteRaises(p) ==
  /\ proc[p].phase = "rolled"
  /\ WriteRaises(RolledBackManifest(p))
  /\ link' = proc[p].prior
  /\ Release(p)
  /\ UNCHANGED <<envVars, versions, rows, lastId, crashes>>

(* A process dies; the operating system frees its lock.                    *)
Crash(p) ==
  /\ proc[p].phase # "idle"
  /\ crashes < MaxCrashes
  /\ crashes' = crashes + 1
  /\ lock' = IF lock = p THEN None ELSE lock
  /\ proc' = [proc EXCEPT ![p] = Idle]
  /\ UNCHANGED <<envVars, diskVars, lastId, faults>>

(* The operator edits the documents.                                       *)
ChangeInput ==
  /\ input' \in Source \ {input}
  /\ UNCHANGED <<fingerprint, diskVars, runVars, crashes, faults>>

(* The operator changes the document profiles and restarts the containers. *)
Redeploy ==
  /\ \A p \in Process : proc[p].phase = "idle"
  /\ fingerprint' \in Fingerprint \ {fingerprint}
  /\ UNCHANGED <<input, diskVars, runVars, crashes, faults>>

(* The steps of a run that has the lock.                                   *)
RunStep(p) ==
  \/ Reject(p) \/ Reconcile(p) \/ ReconcileFails(p) \/ Skip(p) \/ StartBuild(p)
  \/ IndexRows(p) \/ BuildFails(p) \/ Publish(p)
  \/ Activate(p) \/ ActivateRaises(p) \/ Complete(p) \/ CompleteRaises(p)
  \/ Prune(p) \/ PruneRaises(p) \/ EndOfRun(p) \/ Fail(p)
  \/ RollbackActivate(p) \/ RollbackActivateRaises(p)
  \/ RollbackComplete(p) \/ RollbackCompleteRaises(p)

Next ==
  \/ \E p \in Process : \/ \E force \in BOOLEAN : Begin(p, force)
                        \/ BeginRollback(p)
                        \/ RunStep(p)
                        \/ Crash(p)
  \/ ChangeInput
  \/ Redeploy

Spec == Init /\ [][Next]_vars

(* A run that has the lock goes on: the builder is stopped after its       *)
(* timeout, and every other step is local work.  Nothing obliges anyone to *)
(* begin a run, to edit documents or to crash.                             *)
Fairness == \A p \in Process : WF_vars(RunStep(p))

FairSpec == Spec /\ Fairness

-----------------------------------------------------------------------------
(* Properties.                                                             *)

NoRun == \A p \in Process : proc[p].phase = "idle"

(* The active symlink always names a version whose graph exists, whatever  *)
(* crashes or raises: _activate links published versions only,             *)
(* _restore_active a version that was active under the same lock, and      *)
(* _prune_versions runs when the newest version is the active one.         *)
LinkNeverDangles == link # None => link \in Published

(* The version the manifest names has passages in the source index, since  *)
(* they are indexed before a version is published (ingestion.py:455) and   *)
(* no run removes them: retrieval never meets an active version without    *)
(* evidence, not even after a crash or a rollback.                         *)
ActiveHasRows ==
  manifest # None => (manifest.active # None => rows[manifest.active] # None)

(* Passages and graph of a version come from the same documents, so that   *)
(* the manifest's version selects matching ones.  It takes that the        *)
(* fingerprint stays the same: the skip path indexes the active version    *)
(* again when it changed (ingestion.py:313).                               *)
RowsMatchGraph ==
  \A v \in Published : rows[v] # None /\ rows[v].source = versions[v]

(* The passages of a version, once indexed, neither change nor go, even    *)
(* when it is replaced, rolled back or pruned: a chat request bound to the *)
(* version finishes on it (api/dependencies.py, get_workflow).  Pruning    *)
(* leaves rows alone, and only a changed fingerprint makes the skip path   *)
(* write rows that are in use (ingestion.py:313).                          *)
PassagesStayPut ==
  [][\A n \in VersionName : rows[n] # None => rows'[n] = rows[n]]_vars

Undisturbed == crashes = 0 /\ faults = 0

(* But for the instant between the two writes of an activation, the        *)
(* symlink that graph queries follow names the version that the manifest   *)
(* gives to retrieval.  A failed build, index or discovery changes neither *)
(* (_execute's except branch), whether it failed before or after indexing; *)
(* only crashes and I/O faults part the two.                               *)
LinkMatchesManifest ==
  Undisturbed /\ (\A p \in Process : proc[p].phase \notin {"activated", "rolled"})
    => link = (IF manifest = None THEN None ELSE manifest.active)

(* Graph versions, seen as complete graphs one of which is served, behave  *)
(* as GraphVersions says over crashes, faults and rollbacks: published     *)
(* complete and once, replaced in one step, the newest kept (_activate,    *)
(* _prune_versions, os.replace at ingestion.py:481).                       *)
Versions == INSTANCE GraphVersions
              WITH Content <- Source, graphs <- versions, serving <- link

ImplementsGraphVersions == Versions!Spec

(* The lock is never kept by a run that is over: every path of             *)
(* _run_locked, of rollback and of a crash frees it, and every run ends.   *)
LockIsFreed == \A p \in Process : lock = p ~> lock # p

(* The status that clients poll does not stay "running": without a crash   *)
(* or a fault the run writes that it completed or failed.                  *)
Reporting == manifest # None /\ manifest.status = "running"
RunsReport == Reporting ~> (~Reporting \/ ~Undisturbed)

=============================================================================
