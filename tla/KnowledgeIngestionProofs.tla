---------------------- MODULE KnowledgeIngestionProofs ----------------------
(***************************************************************************)
(* Proofs about KnowledgeIngestion, for any number of processes, documents *)
(* and configurations, and every bound on ingestions, crashes and faults.  *)
(***************************************************************************)
EXTENDS KnowledgeIngestion, TLAPS, FiniteSetTheorems

(* One process has the lock, and only that one is in the middle of a run.  *)
HolderOK == \A p \in Process : proc[p].phase # "idle" <=> lock = p

(* Published versions are older than the ids to come, and indexed.         *)
PublishedOK == \A v \in Published : v <= lastId /\ rows[v] # None

(* The version names in a manifest have passages.                          *)
RowsOf(m) ==
  m # None => /\ m.active # None => rows[m.active] # None
              /\ m.previous # None => rows[m.previous] # None

Ingesting == {"discovered", "building", "indexed", "published", "activated",
              "completed", "failing"}

(* What a run knows of the disk at each of its phases.                     *)
RunOK(p) ==
  /\ proc[p].phase \in Ingesting =>
       proc[p].id = lastId /\ proc[p].id \in Version /\ proc[p].source \in Source
  /\ proc[p].phase \in {"discovered", "building", "indexed"} =>
       versions[proc[p].id] = None
  /\ proc[p].phase \in {"indexed", "published", "activated", "completed"} =>
       rows[proc[p].id] # None
  /\ proc[p].phase \in {"published", "activated", "completed"} =>
       proc[p].id \in Published
  /\ proc[p].phase \in {"activated", "completed"} => link = proc[p].id
  /\ proc[p].prior # None => proc[p].prior \in Published
                              \/ proc[p].phase \notin {"activated", "rolled"}
  /\ proc[p].phase \in {"rolling", "rolled"} =>
       proc[p].old # None /\ proc[p].old.previous \in Published
  /\ RowsOf(proc[p].old)

IInv ==
  /\ TypeOK
  /\ HolderOK
  /\ PublishedOK
  /\ LinkNeverDangles
  /\ RowsOf(manifest)
  /\ \A p \in Process : RunOK(p)

-----------------------------------------------------------------------------
(* The manifests that a run writes are well formed.                        *)

LEMMA ManifestTypes ==
  ASSUME TypeOK, NEW p \in Process
  PROVE  /\ proc[p].source \in Source =>
              \A st \in {"running", "completed", "failed"} :
                ManifestWithout(p, st) \in ManifestRow
         /\ proc[p].source \in Source /\ proc[p].id \in Version =>
              CompletedManifest(p) \in ManifestRow
         /\ proc[p].source \in Source /\ proc[p].old # None =>
              SkippedManifest(p) \in ManifestRow
         /\ RejectedManifest(p) \in ManifestRow
         /\ proc[p].old # None => RolledBackManifest(p) \in ManifestRow
<1> DEFINE old == proc[p].old
<1>1. /\ old \in ManifestRow \cup {None}
      /\ proc[p].source \in Source \cup {None}
      /\ fingerprint \in Fingerprint
  BY DEF TypeOK, RunState
<1>2. old # None => /\ old.active \in VersionName \cup {None}
                    /\ old.previous \in VersionName \cup {None}
  BY <1>1 DEF ManifestRow
<1>3. ASSUME proc[p].source \in Source, NEW st \in {"running", "completed", "failed"}
      PROVE  ManifestWithout(p, st) \in ManifestRow
  BY <1>1, <1>2, <1>3 DEF ManifestWithout, ManifestRow
<1>4. proc[p].source \in Source /\ proc[p].id \in Version =>
        CompletedManifest(p) \in ManifestRow
  BY <1>1, <1>2 DEF CompletedManifest, ManifestRow, VersionName
<1>5. ASSUME proc[p].source \in Source, old # None
      PROVE  SkippedManifest(p) \in ManifestRow
  <2>1. NameOf(old) \in VersionName
    BY <1>2, <1>5 DEF NameOf, VersionName
  <2> QED
    BY <1>3, <1>5, <2>1 DEF SkippedManifest, ManifestRow
<1>6. RejectedManifest(p) \in ManifestRow
  BY <1>1 DEF RejectedManifest, ManifestRow
<1>7. old # None => RolledBackManifest(p) \in ManifestRow
  BY <1>1, <1>2 DEF RolledBackManifest, ManifestRow
<1> QED
  BY <1>3, <1>4, <1>5, <1>6, <1>7

(* The newest version is never surplus.                                    *)
LEMMA NewestIsKept ==
  ASSUME NEW n \in Version, \A v \in Published : v <= n
  PROVE  n \notin Surplus
<1>1. {w \in Published : w > n} = {}
  BY DEF Published, Version
<1>2. Cardinality({w \in Published : w > n}) = 0
  BY <1>1, FS_EmptySet
<1> QED
  BY <1>2, IngestionAssumption DEF Surplus

-----------------------------------------------------------------------------
(* A run that goes on, and a run that ends.                                *)

LEMMA OthersIdle ==
  ASSUME HolderOK, NEW p \in Process, proc[p].phase # "idle"
  PROVE  \A q \in Process : q # p => proc[q].phase = "idle"
BY DEF HolderOK

(* A process outside of a run has nothing to know but that its rows stay.  *)
LEMMA IdleRunOK ==
  ASSUME NEW q \in Process, proc[q].phase = "idle", RowsOf(proc[q].old)
  PROVE  RunOK(q)
BY DEF RunOK, Ingesting

LEMMA RunGoesOn ==
  ASSUME IInv, NEW p \in Process, proc[p].phase # "idle",
         TypeOK', PublishedOK', LinkNeverDangles', RowsOf(manifest)', RunOK(p)',
         proc'[p].phase # "idle", lock' = lock,
         \A q \in Process : q # p => proc'[q] = proc[q],
         \A n \in VersionName : rows[n] # None => rows'[n] # None
  PROVE  IInv'
<1>1. \A q \in Process : q # p => proc'[q].phase = "idle" /\ proc[q].phase = "idle"
  BY OthersIdle DEF IInv
<1>2. HolderOK'
  BY <1>1 DEF HolderOK, IInv
<1>3. ASSUME NEW q \in Process, q # p
      PROVE  RunOK(q)'
  <2>1. RowsOf(proc[q].old) /\ proc[q].old \in ManifestRow \cup {None}
    BY DEF IInv, RunOK, TypeOK, RunState
  <2>2. RowsOf(proc[q].old)'
    BY <2>1, <1>3 DEF RowsOf, ManifestRow
  <2> QED
    BY <1>1, <1>3, <2>2 DEF RunOK, Ingesting
<1> QED
  BY <1>2, <1>3 DEF IInv

LEMMA RunEnds ==
  ASSUME IInv, NEW p \in Process, proc[p].phase # "idle", Release(p),
         UNCHANGED <<envVars, versions, rows, lastId>>,
         link' \in Version \cup {None}, link' # None => link' \in Published,
         manifest' \in ManifestRow \cup {None}, RowsOf(manifest'),
         crashes' \in 0 .. MaxCrashes, faults' \in 0 .. MaxFaults
  PROVE  IInv'
<1>1. \A q \in Process : q # p => proc[q].phase = "idle" /\ proc'[q] = proc[q]
  BY OthersIdle DEF IInv, TypeOK, Release
<1>2. proc'[p] = Idle
  BY DEF Release, IInv, TypeOK
<1>3. Idle \in RunState
  BY DEF Idle, RunState, Phase, VersionName
<1>4. TypeOK'
  BY <1>3 DEF IInv, TypeOK, Release, envVars
<1>5. HolderOK'
  BY <1>1, <1>2, IngestionAssumption DEF HolderOK, Release, Idle
<1>6. PublishedOK' /\ LinkNeverDangles' /\ RowsOf(manifest)'
  BY DEF IInv, PublishedOK, LinkNeverDangles, RowsOf, Published
<1>7. ASSUME NEW q \in Process
      PROVE  RunOK(q)'
  <2>1. CASE q = p
    BY <1>2, <2>1 DEF RunOK, RowsOf, Idle, Ingesting
  <2>2. CASE q # p
    BY <1>1, <2>2 DEF IInv, RunOK, RowsOf, Ingesting
  <2> QED
    BY <2>1, <2>2
<1> QED
  BY <1>4, <1>5, <1>6, <1>7 DEF IInv

LEMMA RunEndsWith ==
  ASSUME IInv, NEW p \in Process, proc[p].phase # "idle",
         NEW m \in ManifestRow, RowsOf(m), EndsWith(p, m)
  PROVE  IInv'
<1>1. manifest' \in {manifest, m}
  BY DEF EndsWith, Writes, WriteRaises
<1>2. faults' \in 0 .. MaxFaults
  BY IngestionAssumption DEF EndsWith, Writes, WriteRaises, Raises, IInv, TypeOK
<1>3. /\ Release(p)
      /\ UNCHANGED <<envVars, versions, rows, lastId>>
      /\ link' = link /\ crashes' = crashes
  BY DEF EndsWith
<1>4. /\ link' \in Version \cup {None}
      /\ link' # None => link' \in Published
      /\ manifest' \in ManifestRow \cup {None}
      /\ RowsOf(manifest')
      /\ crashes' \in 0 .. MaxCrashes
  BY <1>1, <1>3 DEF IInv, TypeOK, LinkNeverDangles
<1> QED
  BY <1>2, <1>3, <1>4, RunEnds

-----------------------------------------------------------------------------
(* The steps of a run.                                                     *)

(* What the manifests name has passages, if what the old one names has.    *)
LEMMA ManifestRows ==
  ASSUME IInv, NEW p \in Process
  PROVE  /\ \A st \in {"running", "failed"} : RowsOf(ManifestWithout(p, st))
         /\ rows[proc[p].id] # None => RowsOf(CompletedManifest(p))
         /\ proc[p].old # None /\ HasRows(NameOf(proc[p].old)) =>
              RowsOf(SkippedManifest(p))
         /\ RowsOf(RejectedManifest(p))
         /\ proc[p].old # None => RowsOf(RolledBackManifest(p))
<1>1. /\ RowsOf(proc[p].old)
      /\ proc[p].old \in ManifestRow \cup {None}
  BY DEF IInv, RunOK, TypeOK, RunState
<1>2. \A st \in {"running", "completed", "failed"} : RowsOf(ManifestWithout(p, st))
  BY <1>1 DEF RowsOf, ManifestWithout
<1>3. rows[proc[p].id] # None => RowsOf(CompletedManifest(p))
  BY <1>1 DEF RowsOf, CompletedManifest
<1>4. ASSUME proc[p].old # None, HasRows(NameOf(proc[p].old))
      PROVE  RowsOf(SkippedManifest(p))
  <2>1. /\ SkippedManifest(p).active = NameOf(proc[p].old)
        /\ SkippedManifest(p).previous = proc[p].old.previous
    BY <1>4 DEF SkippedManifest, ManifestWithout
  <2> QED
    BY <1>1, <1>4, <2>1 DEF RowsOf, HasRows
<1>5. RowsOf(RejectedManifest(p))
  BY <1>1 DEF RowsOf, RejectedManifest, ManifestRow
<1>6. proc[p].old # None => RowsOf(RolledBackManifest(p))
  BY <1>1 DEF RowsOf, RolledBackManifest, ManifestRow
<1> QED
  BY <1>2, <1>3, <1>4, <1>5, <1>6

LEMMA BeginStep ==
  ASSUME IInv, NEW p \in Process, NEW force \in BOOLEAN, Begin(p, force)
  PROVE  IInv'
<1> USE DEF Begin, MayTakeLock
<1>1. /\ lastId \in Nat /\ lastId < MaxIngestions /\ lastId + 1 \in Version
      /\ lastId + 1 \in 0 .. MaxIngestions
  BY IngestionAssumption DEF IInv, TypeOK, Version
<1>2. TypeOK'
  BY <1>1 DEF IInv, TypeOK, RunState, Phase, VersionName, envVars, diskVars
<1>3. /\ proc'[p].phase = "discovered" /\ proc'[p].id = lastId + 1
      /\ proc'[p].source = input /\ proc'[p].prior = None
      /\ proc'[p].old = manifest
      /\ \A q \in Process : q # p => proc'[q] = proc[q]
  BY DEF IInv, TypeOK
<1>4. \A q \in Process : proc[q].phase = "idle"
  BY IngestionAssumption DEF IInv, HolderOK
<1>5. HolderOK'
  BY <1>3, <1>4 DEF HolderOK
<1>6. PublishedOK' /\ LinkNeverDangles' /\ RowsOf(manifest)'
  BY <1>1 DEF IInv, PublishedOK, LinkNeverDangles, RowsOf, Published, diskVars, Version
<1>7. versions[lastId + 1] = None
  BY <1>1 DEF IInv, PublishedOK, Published
<1>8. ASSUME NEW q \in Process
      PROVE  RunOK(q)'
  <2>1. CASE q = p
    BY <1>1, <1>3, <1>7, <2>1 DEF RunOK, RowsOf, Ingesting, IInv, TypeOK, diskVars, envVars
  <2>2. CASE q # p
    BY <1>3, <1>4, <2>2 DEF RunOK, RowsOf, Ingesting, IInv, diskVars
  <2> QED
    BY <2>1, <2>2
<1> QED
  BY <1>2, <1>5, <1>6, <1>8 DEF IInv

LEMMA BeginRollbackStep ==
  ASSUME IInv, NEW p \in Process, BeginRollback(p)
  PROVE  IInv'
<1> USE DEF BeginRollback, MayTakeLock
<1>1. [Idle EXCEPT !.phase = "rolling", !.old = manifest] \in RunState
  BY DEF IInv, TypeOK, RunState, Idle, Phase, VersionName
<1>2. TypeOK'
  BY <1>1 DEF IInv, TypeOK, envVars, diskVars
<1>3. /\ proc'[p].phase = "rolling" /\ proc'[p].prior = None
      /\ proc'[p].old = manifest
      /\ \A q \in Process : q # p => proc'[q] = proc[q]
  BY DEF IInv, TypeOK, Idle
<1>4. \A q \in Process : proc[q].phase = "idle"
  BY IngestionAssumption DEF IInv, HolderOK
<1>5. HolderOK'
  BY <1>3, <1>4 DEF HolderOK
<1>6. PublishedOK' /\ LinkNeverDangles' /\ RowsOf(manifest)'
  BY DEF IInv, PublishedOK, LinkNeverDangles, RowsOf, Published, diskVars
<1>7. ASSUME NEW q \in Process
      PROVE  RunOK(q)'
  <2>1. CASE q = p
    BY <1>3, <2>1 DEF RunOK, RowsOf, Ingesting, IInv, diskVars, Published
  <2>2. CASE q # p
    BY <1>3, <1>4, <2>2 DEF RunOK, RowsOf, Ingesting, IInv, diskVars
  <2> QED
    BY <2>1, <2>2
<1> QED
  BY <1>2, <1>5, <1>6, <1>7 DEF IInv

(* The ends of a run.                                                      *)
LEMMA EndSteps ==
  ASSUME IInv, NEW p \in Process,
         \/ Reject(p) \/ ReconcileFails(p) \/ Skip(p) \/ EndOfRun(p) \/ Fail(p)
         \/ RollbackActivateRaises(p) \/ RollbackComplete(p)
         \/ RollbackCompleteRaises(p) \/ Crash(p)
  PROVE  IInv'
<1> USE ManifestTypes, ManifestRows
<1>t. /\ TypeOK /\ RunOK(p) /\ LinkNeverDangles /\ RowsOf(manifest)
      /\ manifest \in ManifestRow \cup {None} /\ link \in Version \cup {None}
      /\ crashes \in 0 .. MaxCrashes /\ faults \in 0 .. MaxFaults
      /\ proc[p] \in RunState
  BY DEF IInv, TypeOK
<1>1. CASE Reject(p)
  BY <1>1, <1>t, RunEndsWith DEF Reject
<1>2. CASE ReconcileFails(p)
  <2>1. proc[p].source \in Source
    BY <1>2, <1>t DEF ReconcileFails, RunOK, Ingesting
  <2> QED
    BY <1>2, <1>t, <2>1, RunEndsWith DEF ReconcileFails
<1>3. CASE Skip(p)
  <2>1. proc[p].source \in Source /\ proc[p].old # None
    BY <1>3, <1>t DEF Skip, RunOK, Ingesting, Unchanged
  <2> QED
    BY <1>3, <1>t, <2>1, RunEndsWith DEF Skip
<1>4. CASE EndOfRun(p)
  BY <1>4, <1>t, RunEnds DEF EndOfRun, diskVars, LinkNeverDangles, Published
<1>5. CASE Fail(p)
  <2>1. proc[p].source \in Source
    BY <1>5, <1>t DEF Fail, RunOK, Ingesting
  <2> QED
    BY <1>5, <1>t, <2>1, RunEndsWith DEF Fail
<1>6. CASE RollbackActivateRaises(p)
  <2>1. link' \in Version \cup {None} /\ (link' # None => link' \in Published)
    BY <1>6, <1>t DEF RollbackActivateRaises, LinkNeverDangles, Published
  <2>2. faults' \in 0 .. MaxFaults
    BY <1>6, <1>t, IngestionAssumption DEF RollbackActivateRaises, Raises
  <2> QED
    BY <1>6, <1>t, <2>1, <2>2, RunEnds DEF RollbackActivateRaises, Published
<1>7. CASE RollbackComplete(p)
  <2>1. proc[p].old # None
    BY <1>7, <1>t DEF RollbackComplete, RunOK
  <2>2. EndsWith(p, RolledBackManifest(p))
    BY <1>7 DEF RollbackComplete, EndsWith
  <2> QED
    BY <1>7, <1>t, <2>1, <2>2, RunEndsWith DEF RollbackComplete
<1>8. CASE RollbackCompleteRaises(p)
  <2>1. proc[p].old # None
    BY <1>8, <1>t DEF RollbackCompleteRaises, RunOK
  <2>2. link' \in Version \cup {None} /\ (link' # None => link' \in Published)
    BY <1>8, <1>t DEF RollbackCompleteRaises, RunOK, RunState
  <2>3. faults' \in 0 .. MaxFaults /\ manifest' \in {manifest, RolledBackManifest(p)}
    BY <1>8, <1>t, IngestionAssumption DEF RollbackCompleteRaises, WriteRaises, Raises
  <2>4. manifest' \in ManifestRow \cup {None} /\ RowsOf(manifest')
    BY <1>t, <2>1, <2>3
  <2> QED
    BY <1>8, <1>t, <2>2, <2>3, <2>4, RunEnds DEF RollbackCompleteRaises, Published
<1>9. CASE Crash(p)
  <2>1. lock = p
    BY <1>9 DEF Crash, IInv, HolderOK
  <2>2. Release(p)
    BY <1>9, <2>1 DEF Crash, Release
  <2>3. crashes' \in 0 .. MaxCrashes
    BY <1>9, <1>t, IngestionAssumption DEF Crash
  <2> QED
    BY <1>9, <1>t, <2>2, <2>3, RunEnds DEF Crash, diskVars, LinkNeverDangles, Published
<1> QED
  BY <1>1, <1>2, <1>3, <1>4, <1>5, <1>6, <1>7, <1>8, <1>9

(* Facts about a run in progress, from the invariant.                      *)
LEMMA RunFacts ==
  ASSUME IInv, NEW p \in Process
  PROVE  /\ TypeOK /\ RunOK(p) /\ PublishedOK /\ LinkNeverDangles
         /\ RowsOf(manifest) /\ RowsOf(proc[p].old)
         /\ proc[p] \in RunState
         /\ proc[p].old \in ManifestRow \cup {None}
         /\ proc[p].phase \in Ingesting => proc[p].id = lastId
         /\ \A v \in Published : proc[p].phase \in Ingesting => v <= proc[p].id
BY DEF IInv, RunOK, PublishedOK, TypeOK, RunState

(* Steps after which the same run goes on in another phase, or the same.   *)
LEMMA EnterFacts ==
  ASSUME TypeOK, NEW p \in Process, NEW ph \in Phase, Enter(p, ph)
  PROVE  /\ proc' \in [Process -> RunState]
         /\ proc'[p].phase = ph /\ proc'[p].id = proc[p].id
         /\ proc'[p].source = proc[p].source /\ proc'[p].old = proc[p].old
         /\ proc'[p].prior = proc[p].prior
         /\ \A q \in Process : q # p => proc'[q] = proc[q]
BY DEF Enter, TypeOK, RunState

LEMMA ReconcileStep ==
  ASSUME IInv, NEW p \in Process, Reconcile(p)
  PROVE  IInv'
<1> DEFINE n == NameOf(proc[p].old)
           row == [source |-> proc[p].source, fingerprint |-> fingerprint]
<1>1. proc[p].source \in Source /\ proc[p].old \in ManifestRow
  BY RunFacts DEF Reconcile, Unchanged, RunOK, Ingesting
<1>2. n \in VersionName
  BY <1>1 DEF NameOf, ManifestRow, VersionName
<1>3. row \in PassageRow
  BY <1>1, RunFacts DEF PassageRow, TypeOK
<1>4. rows' = [rows EXCEPT ![n] = row] /\ UNCHANGED <<envVars, versions, link, manifest, runVars, crashes, faults>>
  BY DEF Reconcile
<1> HIDE DEF n, row
<1>5. rows' \in [VersionName -> PassageRow \cup {None}]
  BY <1>2, <1>3, <1>4, RunFacts DEF TypeOK
<1>6. \A m \in VersionName : rows[m] # None => rows'[m] # None
  BY <1>2, <1>3, <1>4, RowAssumption, RunFacts DEF TypeOK
<1>7. TypeOK'
  BY <1>4, <1>5, RunFacts DEF TypeOK, envVars, runVars
<1>8. PublishedOK' /\ LinkNeverDangles' /\ RowsOf(manifest)'
  BY <1>4, <1>6, RunFacts DEF PublishedOK, LinkNeverDangles, RowsOf, Published,
       runVars, TypeOK, ManifestRow, VersionName
<1>9. RunOK(p)'
  <2>1. RowsOf(proc[p].old)'
    BY <1>4, <1>6, RunFacts DEF RowsOf, runVars, ManifestRow
  <2> QED
    BY <1>4, <2>1, RunFacts DEF RunOK, Reconcile, runVars, Ingesting, Published
<1> QED
  BY <1>4, <1>6, <1>7, <1>8, <1>9, RunGoesOn DEF Reconcile, runVars

LEMMA StartBuildStep ==
  ASSUME IInv, NEW p \in Process, StartBuild(p)
  PROVE  IInv'
<1>1. proc[p].source \in Source
  BY RunFacts DEF StartBuild, RunOK, Ingesting
<1>2. /\ ManifestWithout(p, "running") \in ManifestRow
      /\ RowsOf(ManifestWithout(p, "running"))
  BY <1>1, ManifestTypes, ManifestRows, RunFacts
<1>3. CASE WriteRaises(ManifestWithout(p, "running")) /\ Release(p)
  BY <1>2, <1>3, RunEndsWith DEF StartBuild, EndsWith
<1>4. CASE /\ Writes(ManifestWithout(p, "running")) /\ Enter(p, "building")
           /\ UNCHANGED lock
  <2>1. TypeOK'
    BY <1>2, <1>4, EnterFacts, RunFacts DEF StartBuild, Writes, TypeOK, envVars, Phase
  <2>2. PublishedOK' /\ LinkNeverDangles' /\ RowsOf(manifest)'
    BY <1>2, <1>4, RunFacts DEF StartBuild, Writes, PublishedOK, LinkNeverDangles,
         RowsOf, Published
  <2>3. RunOK(p)'
    BY <1>4, EnterFacts, RunFacts DEF StartBuild, RunOK, RowsOf, Ingesting, Phase
  <2> QED
    BY <1>4, <2>1, <2>2, <2>3, EnterFacts, RunFacts, RunGoesOn DEF StartBuild, Phase
<1> QED
  BY <1>3, <1>4 DEF StartBuild

LEMMA IndexRowsStep ==
  ASSUME IInv, NEW p \in Process, IndexRows(p)
  PROVE  IInv'
<1> DEFINE n == proc[p].id
           row == [source |-> proc[p].source, fingerprint |-> fingerprint]
<1>1. /\ proc[p].source \in Source /\ n \in VersionName /\ versions[n] = None
      /\ proc[p].phase = "building"
  BY RunFacts DEF IndexRows, RunOK, Ingesting, VersionName
<1>2. row \in PassageRow
  BY <1>1, RunFacts DEF PassageRow, TypeOK
<1>3. /\ rows' = [rows EXCEPT ![n] = row] /\ Enter(p, "indexed")
      /\ UNCHANGED <<envVars, versions, link, manifest, lock, lastId, crashes, faults>>
  BY DEF IndexRows
<1> HIDE DEF row
<1>4. \A m \in VersionName : rows[m] # None => rows'[m] # None
  BY <1>1, <1>2, <1>3, RowAssumption, RunFacts DEF TypeOK
<1>5. rows'[n] # None
  BY <1>1, <1>2, <1>3, RowAssumption, RunFacts DEF TypeOK
<1>6. TypeOK'
  BY <1>1, <1>2, <1>3, EnterFacts, RunFacts DEF TypeOK, envVars, Phase
<1>7. PublishedOK' /\ LinkNeverDangles' /\ RowsOf(manifest)'
  BY <1>3, <1>4, RunFacts DEF PublishedOK, LinkNeverDangles, RowsOf, Published,
       TypeOK, ManifestRow, VersionName
<1>8. RunOK(p)'
  <2>1. RowsOf(proc[p].old)'
    BY <1>3, <1>4, EnterFacts, RunFacts DEF RowsOf, ManifestRow, Phase
  <2> QED
    BY <1>1, <1>3, <1>5, <2>1, EnterFacts, RunFacts DEF RunOK, Ingesting, Published, Phase
<1> QED
  BY <1>1, <1>3, <1>4, <1>6, <1>7, <1>8, EnterFacts, RunFacts, RunGoesOn DEF Phase

LEMMA FailingStep ==
  ASSUME IInv, NEW p \in Process, BuildFails(p) \/ ActivateRaises(p)
  PROVE  IInv'
<1>1. /\ proc[p].phase \in Ingesting \ {"idle"} /\ Enter(p, "failing")
      /\ UNCHANGED <<envVars, versions, manifest, rows, lock, lastId, crashes>>
  BY DEF BuildFails, ActivateRaises, Ingesting, diskVars
<1>2. link' \in Version \cup {None} /\ (link' # None => link' \in Published)
  BY RunFacts DEF BuildFails, ActivateRaises, diskVars, RunOK, Ingesting,
       LinkNeverDangles, TypeOK
<1>3. faults' \in 0 .. MaxFaults
  BY RunFacts, IngestionAssumption DEF BuildFails, ActivateRaises, Raises, TypeOK
<1>4. TypeOK'
  BY <1>1, <1>2, <1>3, EnterFacts, RunFacts DEF TypeOK, envVars, Phase
<1>5. PublishedOK' /\ LinkNeverDangles' /\ RowsOf(manifest)'
  BY <1>1, <1>2, RunFacts DEF PublishedOK, LinkNeverDangles, RowsOf, Published
<1>6. RunOK(p)'
  BY <1>1, EnterFacts, RunFacts DEF RunOK, RowsOf, Ingesting, Phase
<1> QED
  BY <1>1, <1>4, <1>5, <1>6, EnterFacts, RunFacts, RunGoesOn DEF Phase

LEMMA PublishStep ==
  ASSUME IInv, NEW p \in Process, Publish(p)
  PROVE  IInv'
<1> DEFINE n == proc[p].id
<1>1. /\ proc[p].source \in Source /\ n \in Version /\ n = lastId
      /\ rows[n] # None /\ proc[p].phase = "indexed"
  BY RunFacts DEF Publish, RunOK, Ingesting
<1>2. /\ versions' = [versions EXCEPT ![n] = proc[p].source] /\ Enter(p, "published")
      /\ UNCHANGED <<envVars, link, manifest, rows, lock, lastId, crashes, faults>>
  BY DEF Publish
<1>3. Published' = Published \cup {n}
  BY <1>1, <1>2, RunFacts, IngestionAssumption DEF Published, TypeOK
<1>4. TypeOK'
  BY <1>1, <1>2, EnterFacts, RunFacts DEF TypeOK, envVars, Phase
<1>5. PublishedOK' /\ LinkNeverDangles' /\ RowsOf(manifest)'
  BY <1>1, <1>2, <1>3, RunFacts DEF PublishedOK, LinkNeverDangles, RowsOf, Version
<1>6. RunOK(p)'
  BY <1>1, <1>2, <1>3, EnterFacts, RunFacts DEF RunOK, RowsOf, Ingesting, Phase
<1> QED
  BY <1>1, <1>2, <1>4, <1>5, <1>6, EnterFacts, RunFacts, RunGoesOn DEF Phase

(* _activate, of an ingestion or of a rollback.                            *)
LEMMA ActivateSteps ==
  ASSUME IInv, NEW p \in Process, Activate(p) \/ RollbackActivate(p)
  PROVE  IInv'
<1>1. PICK v \in Version, ph \in {"activated", "rolled"} :
        /\ v \in Published /\ Relink(p, v, ph)
        /\ ph = "activated" => proc[p].phase = "published" /\ v = proc[p].id
        /\ ph = "rolled" => proc[p].phase = "rolling" /\ v = proc[p].old.previous
  BY RunFacts DEF Activate, RollbackActivate, RunOK, Published
<1>2. UNCHANGED <<envVars, versions, manifest, rows, lock, lastId, crashes, faults>>
  BY DEF Activate, RollbackActivate
<1>3. ActiveTarget \in Version \cup {None} /\ (ActiveTarget # None => ActiveTarget \in Published)
  BY RunFacts DEF ActiveTarget, TypeOK
<1>4. /\ proc' \in [Process -> RunState]
      /\ proc'[p].phase = ph /\ proc'[p].id = proc[p].id
      /\ proc'[p].source = proc[p].source /\ proc'[p].old = proc[p].old
      /\ proc'[p].prior = ActiveTarget
      /\ \A q \in Process : q # p => proc'[q] = proc[q]
  BY <1>1, <1>3, RunFacts DEF Relink, TypeOK, RunState, Phase
<1>5. TypeOK'
  BY <1>1, <1>2, <1>4, RunFacts DEF TypeOK, Relink, envVars
<1>6. PublishedOK' /\ LinkNeverDangles' /\ RowsOf(manifest)'
  BY <1>1, <1>2, RunFacts DEF PublishedOK, LinkNeverDangles, RowsOf, Published, Relink
<1>7. RunOK(p)'
  <2>1. CASE ph = "activated"
    BY <1>1, <1>2, <1>3, <1>4, <2>1, RunFacts DEF RunOK, RowsOf, Ingesting, Relink, Published
  <2>2. CASE ph = "rolled"
    BY <1>1, <1>2, <1>3, <1>4, <2>2, RunFacts DEF RunOK, RowsOf, Ingesting, Relink, Published
  <2> QED
    BY <2>1, <2>2, <1>1
<1> QED
  BY <1>1, <1>2, <1>4, <1>5, <1>6, <1>7, RunGoesOn

LEMMA CompleteSteps ==
  ASSUME IInv, NEW p \in Process, Complete(p) \/ CompleteRaises(p)
  PROVE  IInv'
<1>1. /\ proc[p].phase = "activated" /\ proc[p].source \in Source
      /\ proc[p].id \in Version /\ proc[p].id \in Published /\ rows[proc[p].id] # None
      /\ link = proc[p].id
  BY RunFacts DEF Complete, CompleteRaises, RunOK, Ingesting
<1>2. CompletedManifest(p) \in ManifestRow /\ RowsOf(CompletedManifest(p))
  BY <1>1, ManifestTypes, ManifestRows, RunFacts
<1>3. manifest' \in {manifest, CompletedManifest(p)} /\ faults' \in 0 .. MaxFaults
  BY RunFacts, IngestionAssumption DEF Complete, CompleteRaises, Writes, WriteRaises,
       Raises, TypeOK
<1>4. PICK ph \in {"completed", "failing"} :
        Enter(p, ph) /\ (ph = "completed" => link' = link)
  BY DEF Complete, CompleteRaises
<1>5. UNCHANGED <<envVars, versions, rows, lock, lastId, crashes>>
  BY DEF Complete, CompleteRaises
<1>6. link' \in Version \cup {None} /\ (link' # None => link' \in Published)
  BY <1>1, RunFacts DEF Complete, CompleteRaises, RunOK, RunState
<1>7. TypeOK'
  BY <1>2, <1>3, <1>4, <1>5, <1>6, EnterFacts, RunFacts DEF TypeOK, envVars, Phase
<1>8. PublishedOK' /\ LinkNeverDangles' /\ RowsOf(manifest)'
  BY <1>2, <1>3, <1>5, <1>6, RunFacts DEF PublishedOK, LinkNeverDangles, RowsOf, Published
<1>9. RunOK(p)'
  BY <1>1, <1>4, <1>5, EnterFacts, RunFacts DEF RunOK, RowsOf, Ingesting, Phase, Published
<1> QED
  BY <1>1, <1>4, <1>5, <1>7, <1>8, <1>9, EnterFacts, RunFacts, RunGoesOn DEF Phase

(* Pruning takes neither the served version nor any that is not published. *)
LEMMA PruneSteps ==
  ASSUME IInv, NEW p \in Process, Prune(p) \/ PruneRaises(p)
  PROVE  IInv'
<1>1. /\ proc[p].phase = "completed" /\ proc[p].id \in Version
      /\ link = proc[p].id /\ rows[proc[p].id] # None
      /\ \A v \in Published : v <= proc[p].id
  BY RunFacts DEF Prune, PruneRaises, RunOK, Ingesting
<1>2. link \notin Surplus
  BY <1>1, NewestIsKept
<1>3. PICK v \in Version : /\ v \in Surplus
                           /\ versions' \in {versions, [versions EXCEPT ![v] = None]}
  BY DEF Prune, PruneRaises, IsNextSurplus
<1>4. /\ versions' \in [Version -> Source \cup {None}]
      /\ Published' \subseteq Published
      /\ link \in Published => link \in Published'
      /\ \A w \in Version : versions[w] = None => versions'[w] = None
  BY <1>2, <1>3, RunFacts DEF TypeOK, Published
<1>5. faults' \in 0 .. MaxFaults /\ UNCHANGED <<envVars, link, manifest, rows, lock, lastId, crashes>>
  BY RunFacts, IngestionAssumption DEF Prune, PruneRaises, Raises, TypeOK, runVars
<1>6. /\ proc' \in [Process -> RunState]
      /\ proc'[p].phase \in {"completed", "failing"} /\ proc'[p].id = proc[p].id
      /\ proc'[p].source = proc[p].source /\ proc'[p].old = proc[p].old
      /\ proc'[p].prior = proc[p].prior
      /\ \A q \in Process : q # p => proc'[q] = proc[q]
  BY <1>1, EnterFacts, RunFacts DEF Prune, PruneRaises, runVars, TypeOK, Phase
<1>7. TypeOK'
  BY <1>4, <1>5, <1>6, RunFacts DEF TypeOK, envVars
<1>8. PublishedOK' /\ LinkNeverDangles' /\ RowsOf(manifest)'
  BY <1>1, <1>4, <1>5, RunFacts DEF PublishedOK, LinkNeverDangles, RowsOf
<1>9. RunOK(p)'
  BY <1>1, <1>4, <1>5, <1>6, RunFacts DEF RunOK, RowsOf, Ingesting, LinkNeverDangles
<1> QED
  BY <1>1, <1>5, <1>6, <1>7, <1>8, <1>9, RunGoesOn

LEMMA EnvironmentSteps ==
  ASSUME IInv, ChangeInput \/ Redeploy \/ UNCHANGED vars
  PROVE  IInv'
<1>1. UNCHANGED <<diskVars, runVars, crashes, faults>>
  BY DEF ChangeInput, Redeploy, vars
<1>2. input' \in Source /\ fingerprint' \in Fingerprint
  BY DEF ChangeInput, Redeploy, vars, envVars, IInv, TypeOK
<1>3. TypeOK'
  BY <1>1, <1>2 DEF IInv, TypeOK, diskVars, runVars
<1>4. HolderOK' /\ PublishedOK' /\ LinkNeverDangles' /\ RowsOf(manifest)'
  BY <1>1 DEF IInv, HolderOK, PublishedOK, LinkNeverDangles, RowsOf, Published,
       diskVars, runVars
<1>5. \A p \in Process : RunOK(p)'
  BY <1>1 DEF IInv, RunOK, RowsOf, Published, diskVars, runVars
<1> QED
  BY <1>3, <1>4, <1>5 DEF IInv

-----------------------------------------------------------------------------
(* The invariant of the specification.                                     *)

LEMMA InitInvariant == Init => IInv
<1> SUFFICES ASSUME Init
             PROVE  IInv
  OBVIOUS
<1> USE DEF Init
<1>1. Idle \in RunState
  BY DEF Idle, RunState, Phase, VersionName
<1>2. TypeOK
  BY <1>1, IngestionAssumption DEF TypeOK
<1>3. HolderOK
  BY IngestionAssumption DEF HolderOK, Idle
<1>4. PublishedOK /\ LinkNeverDangles /\ RowsOf(manifest)
  BY DEF PublishedOK, Published, LinkNeverDangles, RowsOf
<1>5. \A p \in Process : RunOK(p)
  BY DEF RunOK, RowsOf, Idle, Ingesting
<1> QED
  BY <1>2, <1>3, <1>4, <1>5 DEF IInv

LEMMA NextInvariant == IInv /\ [Next]_vars => IInv'
<1> SUFFICES ASSUME IInv, [Next]_vars
             PROVE  IInv'
  OBVIOUS
<1>1. CASE ChangeInput \/ Redeploy \/ UNCHANGED vars
  BY <1>1, EnvironmentSteps
<1>2. ASSUME NEW p \in Process, NEW force \in BOOLEAN, Begin(p, force)
      PROVE  IInv'
  BY <1>2, BeginStep
<1>3. ASSUME NEW p \in Process, BeginRollback(p)
      PROVE  IInv'
  BY <1>3, BeginRollbackStep
<1>4. ASSUME NEW p \in Process, RunStep(p)
      PROVE  IInv'
  BY <1>4, EndSteps, ReconcileStep, StartBuildStep, IndexRowsStep, FailingStep,
     PublishStep, ActivateSteps, CompleteSteps, PruneSteps DEF RunStep
<1>5. ASSUME NEW p \in Process, Crash(p)
      PROVE  IInv'
  BY <1>5, EndSteps
<1> QED
  BY <1>1, <1>2, <1>3, <1>4, <1>5 DEF Next

LEMMA Invariant == Spec => []IInv
BY InitInvariant, NextInvariant, PTL DEF Spec

(* Every variable of the service keeps its type.                           *)
THEOREM IngestionTypeCorrect == Spec => []TypeOK
<1>1. IInv => TypeOK
  BY DEF IInv
<1> QED
  BY <1>1, Invariant, PTL

(* No crash, fault, rollback or pruning leaves the active symlink on a     *)
(* version whose graph is not there (_activate, _restore_active,           *)
(* _prune_versions).                                                       *)
THEOREM LinkIsValid == Spec => []LinkNeverDangles
<1>1. IInv => LinkNeverDangles
  BY DEF IInv
<1> QED
  BY <1>1, Invariant, PTL

(* The version that the manifest gives to retrieval always has passages.   *)
THEOREM ActiveIsIndexed == Spec => []ActiveHasRows
<1>1. IInv => ActiveHasRows
  BY DEF IInv, RowsOf, ActiveHasRows
<1> QED
  BY <1>1, Invariant, PTL

(* flock: at any time at most one process is in the middle of an ingestion *)
(* or a rollback, and it is the one that holds the lock.                   *)
THEOREM RunsExclude ==
  Spec => [](\A p, q \in Process :
               proc[p].phase # "idle" /\ proc[q].phase # "idle" => p = q)
<1>1. IInv => (\A p, q \in Process :
                 proc[p].phase # "idle" /\ proc[q].phase # "idle" => p = q)
  BY DEF IInv, HolderOK
<1> QED
  BY <1>1, Invariant, PTL

-----------------------------------------------------------------------------
(* Graph versions behave as GraphVersions says.                            *)

LEMMA VersionsInit == Init => Versions!Init
BY DEF Init, Versions!Init

LEMMA VersionsNext == IInv /\ [Next]_vars => [Versions!Next]_(Versions!graphVars)
<1> SUFFICES ASSUME IInv, [Next]_vars
             PROVE  [Versions!Next]_(Versions!graphVars)
  OBVIOUS
<1>1. IInv'
  BY NextInvariant
<1>2. Versions!Kept = Published
  BY DEF Versions!Kept, Published
<1>3. CASE versions' = versions
  <2>1. link' \in Version \cup {None} /\ (link' # None => link' \in Published)
    BY <1>1, <1>3 DEF IInv, TypeOK, LinkNeverDangles, Published
  <2>2. CASE link' = None
    BY <1>3, <2>2 DEF Versions!Next, Versions!ServeNothing
  <2>3. CASE link' # None
    <3>1. link' \in Version /\ Versions!Serve(link')
      BY <1>2, <1>3, <2>1, <2>3 DEF Versions!Serve
    <3> QED
      BY <3>1 DEF Versions!Next
  <2> QED
    BY <2>2, <2>3
<1>4. ASSUME NEW p \in Process, Publish(p)
      PROVE  Versions!Next
  <2>1. /\ proc[p].source \in Source /\ proc[p].id \in Version
        /\ versions[proc[p].id] = None
        /\ \A v \in Published : v <= proc[p].id
    BY <1>4, RunFacts DEF Publish, RunOK, Ingesting
  <2>2. \A w \in Published : w < proc[p].id
    BY <2>1 DEF Published, Version
  <2>3. Versions!Publish(proc[p].id, proc[p].source)
    BY <1>2, <1>4, <2>2 DEF Publish, Versions!Publish
  <2> QED
    BY <2>1, <2>3 DEF Versions!Next
<1>5. ASSUME NEW p \in Process, Prune(p) \/ PruneRaises(p)
      PROVE  Versions!Next \/ versions' = versions
  <2>1. /\ proc[p].id \in Version /\ link = proc[p].id
        /\ \A v \in Published : v <= proc[p].id
    BY <1>5, RunFacts DEF Prune, PruneRaises, RunOK, Ingesting
  <2>2. link \notin Surplus
    BY <2>1, NewestIsKept
  <2>3. PICK v \in Version : /\ v \in Surplus
                             /\ versions' \in {versions, [versions EXCEPT ![v] = None]}
    BY <1>5 DEF Prune, PruneRaises, IsNextSurplus
  <2>4. link' = link
    BY <1>5 DEF Prune, PruneRaises
  <2>5. v \in Published /\ Cardinality({w \in Published : w > v}) >= VersionsToKeep
    BY <2>3 DEF Surplus
  <2>6. CASE versions' = [versions EXCEPT ![v] = None]
    <3>1. {w \in Versions!Kept : w > v} = {w \in Published : w > v}
      BY <1>2
    <3>2. Cardinality({w \in Versions!Kept : w > v}) >= VersionsToKeep
      BY <2>5, <3>1
    <3>3. v \in Versions!Kept \ {link}
      BY <1>2, <2>2, <2>3, <2>5
    <3>4. versions' = [versions EXCEPT ![v] = None] /\ link' = link
      BY <2>4, <2>6
    <3>5. Versions!Cardinality({w \in Versions!Kept : w > v}) >= VersionsToKeep
      BY <3>2, Zenon DEF Cardinality, Versions!Cardinality
    <3>6. Versions!Retire(v)
      BY <3>3, <3>4, <3>5, Zenon DEF Versions!Retire
    <3> QED
      BY <3>6 DEF Versions!Next
  <2> QED
    BY <2>3, <2>6
<1>6. \/ versions' = versions
      \/ \E p \in Process : Publish(p) \/ Prune(p) \/ PruneRaises(p)
  BY DEF Next, RunStep, Begin, BeginRollback, Reject, Reconcile, ReconcileFails, Skip,
     StartBuild, IndexRows, BuildFails, Activate, ActivateRaises, Complete,
     CompleteRaises, EndOfRun, Fail, RollbackActivate, RollbackActivateRaises,
     RollbackComplete, RollbackCompleteRaises, Crash, ChangeInput, Redeploy,
     EndsWith, diskVars, vars
<1> QED
  BY <1>3, <1>4, <1>5, <1>6

(* Over crashes, faults and rollbacks, versions are published complete and *)
(* once, one complete version is served at a time, and only old ones that  *)
(* are not served are retired: what adr/0005 decides.                      *)
THEOREM VersionsImplemented == Spec => ImplementsGraphVersions
<1>1. Init => Versions!Init
  BY VersionsInit
<1>2. IInv /\ [Next]_vars => [Versions!Next]_(Versions!graphVars)
  BY VersionsNext
<1> QED
  BY <1>1, <1>2, Invariant, PTL DEF Spec, ImplementsGraphVersions, Versions!Spec

-----------------------------------------------------------------------------
(* Passages and graph of a version come from the same documents.           *)

OneProfile == \A f, g \in Fingerprint : f = g

(* A run that has indexed has indexed the documents of its graph.          *)
IndexedOK(p) ==
  proc[p].phase \in {"indexed", "published", "activated", "completed"} =>
    rows[proc[p].id].source = proc[p].source

MatchInv == RowsMatchGraph /\ \A p \in Process : IndexedOK(p)

LEMMA MatchNext ==
  ASSUME OneProfile, IInv, MatchInv, [Next]_vars
  PROVE  MatchInv'
<1>0. /\ TypeOK /\ \A p \in Process : RunOK(p) /\ RowsOf(proc[p].old)
      /\ \A v \in Published : rows[v] # None /\ rows[v].source = versions[v]
      /\ \A p \in Process : IndexedOK(p)
  BY RunFacts DEF IInv, MatchInv, RowsMatchGraph
<1>1. ASSUME NEW p \in Process, Reconcile(p)
      PROVE  MatchInv'
  <2>1. proc[p].old \in ManifestRow
    BY <1>1, RunFacts DEF Reconcile, Unchanged
  <2>2. NameOf(proc[p].old) \notin Version
    <3> SUFFICES ASSUME NameOf(proc[p].old) \in Version
                 PROVE  FALSE
      OBVIOUS
    <3>1. NameOf(proc[p].old) = proc[p].old.active /\ proc[p].old.active # None
      BY <2>1 DEF NameOf, Version, Unnamed
    <3>2. rows[NameOf(proc[p].old)] # None
      BY <1>0, <1>1, <3>1 DEF RowsOf, Reconcile, Unchanged
    <3>3. rows[NameOf(proc[p].old)] \in PassageRow
      BY <1>0, <3>2 DEF TypeOK, VersionName
    <3>4. HasRows(NameOf(proc[p].old))
      BY <1>0, <3>2, <3>3 DEF HasRows, PassageRow, TypeOK, OneProfile
    <3> QED
      BY <1>1, <3>4 DEF Reconcile
  <2>3. /\ \A v \in Version : rows'[v] = rows[v]
        /\ UNCHANGED <<versions, proc>>
    BY <1>0, <1>1, <2>2 DEF Reconcile, TypeOK, VersionName, runVars
  <2> QED
    BY <1>0, <2>3 DEF MatchInv, RowsMatchGraph, IndexedOK, Published, RunOK, Ingesting
<1>2. ASSUME NEW p \in Process, IndexRows(p)
      PROVE  MatchInv'
  <2>1. /\ proc[p].id \in Version /\ versions[proc[p].id] = None
        /\ proc[p].source \in Source /\ proc[p].phase # "idle"
    BY <1>0, <1>2 DEF IndexRows, RunOK, Ingesting
  <2>2. /\ rows'[proc[p].id].source = proc[p].source
        /\ \A v \in Version : v # proc[p].id => rows'[v] = rows[v]
        /\ versions' = versions
    BY <1>0, <1>2, <2>1 DEF IndexRows, TypeOK, VersionName
  <2>3. /\ proc'[p].id = proc[p].id /\ proc'[p].source = proc[p].source
        /\ \A q \in Process : q # p => proc'[q] = proc[q] /\ proc[q].phase = "idle"
    BY <1>0, <1>2, <2>1, EnterFacts, OthersIdle DEF IndexRows, Phase, IInv
  <2> QED
    BY <1>0, <2>1, <2>2, <2>3 DEF MatchInv, RowsMatchGraph, IndexedOK, Published
<1>3. ASSUME NEW p \in Process, Publish(p)
      PROVE  MatchInv'
  <2>1. /\ proc[p].id \in Version /\ proc[p].phase = "indexed"
        /\ proc[p].source \in Source
        /\ rows[proc[p].id] # None /\ rows[proc[p].id].source = proc[p].source
    BY <1>0, <1>3 DEF Publish, RunOK, Ingesting, IndexedOK
  <2>2. /\ rows' = rows /\ versions'[proc[p].id] = proc[p].source
        /\ \A v \in Version : v # proc[p].id => versions'[v] = versions[v]
    BY <1>0, <1>3, <2>1 DEF Publish, TypeOK
  <2>3. /\ proc'[p].id = proc[p].id /\ proc'[p].source = proc[p].source
        /\ \A q \in Process : q # p => proc'[q] = proc[q]
    BY <1>0, <1>3, EnterFacts DEF Publish, Phase
  <2> QED
    BY <1>0, <2>1, <2>2, <2>3 DEF MatchInv, RowsMatchGraph, IndexedOK, Published
<1>4. CASE /\ rows' = rows
           /\ Published' \subseteq Published
           /\ \A v \in Published' : versions'[v] = versions[v]
           /\ \A p \in Process :
                \/ proc'[p].phase \notin {"indexed", "published", "activated", "completed"}
                \/ /\ proc[p].phase \in {"indexed", "published", "activated", "completed"}
                   /\ proc'[p].id = proc[p].id /\ proc'[p].source = proc[p].source
  BY <1>0, <1>4 DEF MatchInv, RowsMatchGraph, IndexedOK
<1>5. ASSUME NEW p \in Process,
             \/ \E force \in BOOLEAN : Begin(p, force)
             \/ BeginRollback(p) \/ Reject(p) \/ ReconcileFails(p) \/ Skip(p)
             \/ StartBuild(p) \/ BuildFails(p) \/ Activate(p) \/ ActivateRaises(p)
             \/ Complete(p) \/ CompleteRaises(p) \/ EndOfRun(p) \/ Fail(p)
             \/ RollbackActivate(p) \/ RollbackActivateRaises(p)
             \/ RollbackComplete(p) \/ RollbackCompleteRaises(p) \/ Crash(p)
      PROVE  MatchInv'
  <2>1. UNCHANGED <<rows, versions>>
    BY <1>5 DEF Begin, BeginRollback, Reject, ReconcileFails, Skip, StartBuild,
       BuildFails, Activate, ActivateRaises, Complete, CompleteRaises, EndOfRun, Fail,
       RollbackActivate, RollbackActivateRaises, RollbackComplete,
       RollbackCompleteRaises, Crash, EndsWith, diskVars
  <2>2. \A q \in Process : q # p => proc'[q] = proc[q]
    BY <1>0, <1>5 DEF Begin, BeginRollback, Reject, ReconcileFails, Skip, StartBuild,
       BuildFails, Activate, ActivateRaises, Complete, CompleteRaises, EndOfRun, Fail,
       RollbackActivate, RollbackActivateRaises, RollbackComplete,
       RollbackCompleteRaises, Crash, EndsWith, Enter, Release, Relink, TypeOK
  <2>3. \/ proc'[p].phase \notin {"indexed", "published", "activated", "completed"}
        \/ /\ proc[p].phase \in {"indexed", "published", "activated", "completed"}
           /\ proc'[p].id = proc[p].id /\ proc'[p].source = proc[p].source
    <3>1. CASE proc' = [proc EXCEPT ![p] = Idle]
      BY <1>0, <3>1 DEF TypeOK, Idle
    <3>2. CASE \E force \in BOOLEAN : Begin(p, force)
      BY <1>0, <3>2 DEF Begin, TypeOK
    <3>3. CASE BeginRollback(p)
      <4>1. proc'[p] = [Idle EXCEPT !.phase = "rolling", !.old = manifest]
        BY <1>0, <3>3 DEF BeginRollback, TypeOK
      <4> QED
        BY <4>1 DEF Idle
    <3>4. CASE Enter(p, "building") \/ Enter(p, "failing")
      BY <1>0, <3>4, EnterFacts DEF Phase
    <3>5. CASE Activate(p) \/ RollbackActivate(p)
      BY <1>0, <3>5 DEF Activate, RollbackActivate, Relink, TypeOK, RunState
    <3>6. CASE Complete(p)
      BY <1>0, <3>6, EnterFacts DEF Complete, Phase
    <3>7. \/ proc' = [proc EXCEPT ![p] = Idle]
          \/ \E force \in BOOLEAN : Begin(p, force)
          \/ BeginRollback(p)
          \/ Enter(p, "building") \/ Enter(p, "failing")
          \/ Activate(p) \/ RollbackActivate(p)
          \/ Complete(p)
      BY <1>5, Zenon DEF Reject, ReconcileFails, Skip, StartBuild, BuildFails,
         ActivateRaises, CompleteRaises, EndOfRun, Fail, RollbackActivateRaises,
         RollbackComplete, RollbackCompleteRaises, EndsWith, Crash, Release
    <3> QED
      BY <3>1, <3>2, <3>3, <3>4, <3>5, <3>6, <3>7
  <2> QED
    BY <1>4, <2>1, <2>2, <2>3 DEF Published
<1>6. ASSUME NEW p \in Process, Prune(p) \/ PruneRaises(p)
      PROVE  MatchInv'
  <2>1. PICK v \in Version : versions' \in {versions, [versions EXCEPT ![v] = None]}
    BY <1>6 DEF Prune, PruneRaises
  <2>2. rows' = rows /\ \/ proc' = proc
                        \/ Enter(p, "failing")
    BY <1>6 DEF Prune, PruneRaises, runVars
  <2>3. /\ Published' \subseteq Published
        /\ \A w \in Published' : versions'[w] = versions[w]
    BY <1>0, <2>1 DEF Published, TypeOK
  <2>4. \A q \in Process :
          \/ proc'[q].phase \notin {"indexed", "published", "activated", "completed"}
          \/ /\ proc[q].phase \in {"indexed", "published", "activated", "completed"}
             /\ proc'[q].id = proc[q].id /\ proc'[q].source = proc[q].source
    BY <1>0, <2>2, EnterFacts DEF Phase
  <2> QED
    BY <1>4, <2>2, <2>3, <2>4
<1>7. CASE ChangeInput \/ Redeploy \/ UNCHANGED vars
  <2>1. UNCHANGED <<rows, versions, proc>>
    BY <1>7 DEF ChangeInput, Redeploy, vars, diskVars, runVars
  <2> QED
    BY <1>0, <2>1 DEF MatchInv, RowsMatchGraph, IndexedOK, Published
<1> QED
  BY <1>1, <1>2, <1>3, <1>5, <1>6, <1>7 DEF Next, RunStep

(* As long as the document profiles stay the same, what retrieval finds    *)
(* under a version and what the graph of that version says come from the   *)
(* same documents, over crashes, faults, rollbacks and skipped builds.     *)
THEOREM PassagesMatchGraph ==
  ASSUME OneProfile
  PROVE  Spec => []RowsMatchGraph
<1>1. Init => MatchInv
  BY DEF Init, MatchInv, RowsMatchGraph, IndexedOK, Published, Idle
<1>2. IInv /\ MatchInv /\ [Next]_vars => MatchInv'
  BY MatchNext
<1>3. MatchInv => RowsMatchGraph
  BY DEF MatchInv
<1> QED
  BY <1>1, <1>2, <1>3, Invariant, PTL DEF Spec

-----------------------------------------------------------------------------
(* Without crashes and faults, the symlink and the manifest agree.         *)

ActiveOf(m) == IF m = None THEN None ELSE m.active

(* Between its read of the manifest and its activation, a run leaves the   *)
(* link on the version that it read; a rollback relinks the previous one.  *)
RunLink(p) ==
  /\ proc[p].phase \in {"discovered", "building", "indexed", "published",
                        "failing", "rolling"} => link = ActiveOf(proc[p].old)
  /\ proc[p].phase = "rolled" => link = proc[p].old.previous

LinkInv ==
  Undisturbed => /\ LinkMatchesManifest
                 /\ \A p \in Process : RunLink(p)

(* The steps that crash or raise end the premise.                          *)
Disturbs(p) ==
  \/ ActivateRaises(p) \/ CompleteRaises(p) \/ PruneRaises(p)
  \/ RollbackActivateRaises(p) \/ RollbackCompleteRaises(p) \/ Crash(p)

LEMMA QuietSteps ==
  ASSUME IInv, [Next]_vars, Undisturbed'
  PROVE  /\ Undisturbed
         /\ \A p \in Process : ~Disturbs(p)
<1>1. crashes \in Nat /\ faults \in Nat
  BY IngestionAssumption DEF IInv, TypeOK
<1>2. \A p \in Process : ~Disturbs(p)
  BY <1>1 DEF Undisturbed, Disturbs, ActivateRaises, CompleteRaises, PruneRaises,
     RollbackActivateRaises, RollbackCompleteRaises, Crash, WriteRaises, Raises
<1>3. crashes' \in {crashes, crashes + 1} /\ faults' \in {faults, faults + 1}
  BY DEF Next, RunStep, Begin, BeginRollback, Reject, Reconcile, ReconcileFails, Skip,
     StartBuild, IndexRows, BuildFails, Publish, Activate, ActivateRaises, Complete,
     CompleteRaises, Prune, PruneRaises, EndOfRun, Fail, RollbackActivate,
     RollbackActivateRaises, RollbackComplete, RollbackCompleteRaises, Crash,
     ChangeInput, Redeploy, EndsWith, Writes, WriteRaises, Raises, vars
<1> QED
  BY <1>1, <1>2, <1>3 DEF Undisturbed

LEMMA LinkNext == IInv /\ LinkInv /\ [Next]_vars => LinkInv'
<1> SUFFICES ASSUME IInv, LinkInv, [Next]_vars, Undisturbed'
             PROVE  LinkMatchesManifest' /\ \A p \in Process : RunLink(p)'
  BY DEF LinkInv
<1>0. /\ TypeOK /\ HolderOK /\ Undisturbed
      /\ \A p \in Process : ~Disturbs(p) /\ RunLink(p) /\ RunOK(p)
      /\ (\A p \in Process : proc[p].phase \notin {"activated", "rolled"})
           => link = ActiveOf(manifest)
  BY QuietSteps DEF IInv, LinkInv, LinkMatchesManifest, ActiveOf
<1> DEFINE Fits == (\A p \in Process : proc[p].phase \notin {"activated", "rolled"})
                     => link = ActiveOf(manifest)
<1>a. ASSUME NEW p \in Process, proc[p].phase \notin {"idle", "activated", "rolled"}
      PROVE  link = ActiveOf(manifest)
  BY <1>0, <1>a, OthersIdle
<1>b. ASSUME Fits', \A p \in Process : RunLink(p)'
      PROVE  LinkMatchesManifest' /\ \A p \in Process : RunLink(p)'
  BY <1>b DEF LinkMatchesManifest, ActiveOf
(* A run ends: it suffices that its last manifest names the link.          *)
<1>c. ASSUME NEW p \in Process, proc[p].phase # "idle",
             proc' = [proc EXCEPT ![p] = Idle], link' = ActiveOf(manifest')
      PROVE  LinkMatchesManifest' /\ \A q \in Process : RunLink(q)'
  <2>1. \A q \in Process : proc'[q].phase = "idle"
    BY <1>0, <1>c, OthersIdle DEF TypeOK, Idle
  <2> QED
    BY <1>b, <1>c, <2>1 DEF RunLink
(* A run goes on, and what it knows of the link fits its next phase.       *)
<1>d. ASSUME NEW p \in Process, proc[p].phase # "idle",
             \A q \in Process : q # p => proc'[q] = proc[q],
             RunLink(p)',
             proc'[p].phase \in {"activated", "rolled"} \/ link' = ActiveOf(manifest')
      PROVE  LinkMatchesManifest' /\ \A q \in Process : RunLink(q)'
  <2>1. \A q \in Process : q # p => proc'[q].phase = "idle"
    BY <1>0, <1>d, OthersIdle
  <2> QED
    BY <1>b, <1>d, <2>1 DEF RunLink
<1>1. ASSUME NEW p \in Process, (\E force \in BOOLEAN : Begin(p, force)) \/ BeginRollback(p)
      PROVE  LinkMatchesManifest' /\ \A q \in Process : RunLink(q)'
  <2>1. /\ link' = link /\ manifest' = manifest
        /\ lock = None
    BY <1>1 DEF Begin, BeginRollback, MayTakeLock, diskVars
  <2>2. \A q \in Process : proc[q].phase = "idle"
    BY <1>0, <2>1, IngestionAssumption DEF HolderOK
  <2>3. link = ActiveOf(manifest)
    BY <1>0, <2>2
  <2>4. /\ proc'[p].phase \in {"discovered", "rolling"} /\ proc'[p].old = manifest
        /\ \A q \in Process : q # p => proc'[q] = proc[q]
    <3>1. CASE \E force \in BOOLEAN : Begin(p, force)
      BY <1>0, <3>1 DEF Begin, TypeOK
    <3>2. CASE BeginRollback(p)
      <4>1. /\ proc'[p] = [Idle EXCEPT !.phase = "rolling", !.old = manifest]
            /\ \A q \in Process : q # p => proc'[q] = proc[q]
        BY <1>0, <3>2 DEF BeginRollback, TypeOK
      <4> QED
        BY <4>1 DEF Idle
    <3> QED
      BY <1>1, <3>1, <3>2
  <2>5. \A q \in Process : RunLink(q)'
    BY <2>1, <2>2, <2>3, <2>4 DEF RunLink
  <2> QED
    BY <1>b, <2>1, <2>3, <2>5
<1>2. ASSUME NEW p \in Process, Reject(p) \/ ReconcileFails(p) \/ Fail(p)
      PROVE  LinkMatchesManifest' /\ \A q \in Process : RunLink(q)'
  <2>1. /\ proc[p].phase \in {"discovered", "failing"}
        /\ proc' = [proc EXCEPT ![p] = Idle] /\ link' = link
        /\ link = ActiveOf(proc[p].old)
    BY <1>0, <1>2 DEF Reject, ReconcileFails, Fail, EndsWith, Release, RunLink
  <2>2. manifest' \in {manifest, RejectedManifest(p), ManifestWithout(p, "failed")}
    BY <1>2 DEF Reject, ReconcileFails, Fail, EndsWith, Writes, WriteRaises
  <2>3. proc[p].old \in ManifestRow \cup {None}
    BY <1>0 DEF TypeOK, RunState
  <2>4. /\ RejectedManifest(p) \in ManifestRow
        /\ ManifestWithout(p, "failed").active = ActiveOf(proc[p].old)
        /\ RejectedManifest(p).active = ActiveOf(proc[p].old)
    BY <1>0, <2>3, ManifestTypes DEF RejectedManifest, ManifestWithout, ActiveOf, ManifestRow
  <2>5. proc[p].phase \in {"discovered", "failing"} => proc[p].source \in Source
    BY <1>0 DEF RunOK, Ingesting
  <2>6. ManifestWithout(p, "failed") \in ManifestRow
    BY <1>0, <2>1, <2>5, ManifestTypes
  <2>7. link' = ActiveOf(manifest')
    BY <1>a, <2>1, <2>2, <2>4, <2>6, RowAssumption DEF ActiveOf
  <2> QED
    BY <1>c, <2>1, <2>7
<1>3. ASSUME NEW p \in Process, Skip(p)
      PROVE  LinkMatchesManifest' /\ \A q \in Process : RunLink(q)'
  <2>1. /\ proc[p].phase = "discovered" /\ proc[p].old # None
        /\ proc' = [proc EXCEPT ![p] = Idle] /\ link' = link
        /\ link = ActiveOf(proc[p].old) /\ link # None
        /\ proc[p].source \in Source
    BY <1>0, <1>3 DEF Skip, EndsWith, Release, RunLink, Unchanged, ActiveTarget,
       RunOK, Ingesting
  <2>2. manifest' \in {manifest, SkippedManifest(p)}
    BY <1>3 DEF Skip, EndsWith, Writes, WriteRaises
  <2>3. SkippedManifest(p) \in ManifestRow /\ SkippedManifest(p).active = link
    BY <1>0, <2>1, ManifestTypes DEF SkippedManifest, ManifestWithout, NameOf, ActiveOf
  <2>4. link' = ActiveOf(manifest')
    BY <1>a, <2>1, <2>2, <2>3, RowAssumption DEF ActiveOf
  <2> QED
    BY <1>c, <2>1, <2>4
<1>4. ASSUME NEW p \in Process, StartBuild(p)
      PROVE  LinkMatchesManifest' /\ \A q \in Process : RunLink(q)'
  <2>1. /\ proc[p].phase = "discovered" /\ link' = link
        /\ link = ActiveOf(proc[p].old) /\ link = ActiveOf(manifest)
        /\ proc[p].source \in Source
        /\ manifest' \in {manifest, ManifestWithout(p, "running")}
    BY <1>0, <1>4, <1>a DEF StartBuild, RunLink, RunOK, Ingesting, Writes, WriteRaises
  <2>2. /\ ManifestWithout(p, "running") \in ManifestRow
        /\ ManifestWithout(p, "running").active = ActiveOf(proc[p].old)
    BY <1>0, <2>1, ManifestTypes DEF ManifestWithout, ActiveOf
  <2>3. link' = ActiveOf(manifest')
    BY <2>1, <2>2, RowAssumption DEF ActiveOf
  <2>4. CASE Release(p)
    BY <1>c, <2>1, <2>3, <2>4 DEF Release
  <2>5. CASE Enter(p, "building")
    BY <1>0, <1>d, <2>1, <2>3, <2>5, EnterFacts DEF Phase, RunLink
  <2> QED
    BY <1>4, <2>4, <2>5 DEF StartBuild
<1>5. ASSUME NEW p \in Process, IndexRows(p) \/ BuildFails(p) \/ Publish(p)
      PROVE  LinkMatchesManifest' /\ \A q \in Process : RunLink(q)'
  <2>1. /\ proc[p].phase \in {"building", "indexed"}
        /\ link' = link /\ manifest' = manifest
        /\ Enter(p, "indexed") \/ Enter(p, "failing") \/ Enter(p, "published")
    BY <1>5 DEF IndexRows, BuildFails, Publish, diskVars
  <2>2. link = ActiveOf(manifest) /\ link = ActiveOf(proc[p].old)
    BY <1>0, <1>a, <2>1 DEF RunLink
  <2> QED
    BY <1>0, <1>d, <2>1, <2>2, EnterFacts DEF Phase, RunLink
<1>6. ASSUME NEW p \in Process, Activate(p) \/ RollbackActivate(p)
      PROVE  LinkMatchesManifest' /\ \A q \in Process : RunLink(q)'
  <2>1. CASE Activate(p)
    <3>1. /\ proc[p].phase = "published" /\ proc'[p].phase = "activated"
          /\ \A q \in Process : q # p => proc'[q] = proc[q]
      BY <1>0, <2>1 DEF Activate, Relink, TypeOK, RunState
    <3> QED
      BY <1>d, <3>1 DEF RunLink
  <2>2. CASE RollbackActivate(p)
    <3>1. /\ proc[p].phase = "rolling" /\ proc'[p].phase = "rolled"
          /\ proc'[p].old = proc[p].old /\ link' = proc[p].old.previous
          /\ \A q \in Process : q # p => proc'[q] = proc[q]
      BY <1>0, <2>2 DEF RollbackActivate, Relink, TypeOK, RunState
    <3> QED
      BY <1>d, <3>1 DEF RunLink
  <2> QED
    BY <1>6, <2>1, <2>2
<1>7. ASSUME NEW p \in Process, Complete(p)
      PROVE  LinkMatchesManifest' /\ \A q \in Process : RunLink(q)'
  <2>1. /\ proc[p].phase = "activated" /\ link' = link /\ link = proc[p].id
        /\ manifest' = CompletedManifest(p)
        /\ proc[p].source \in Source /\ proc[p].id \in Version
    BY <1>0, <1>7 DEF Complete, Writes, RunOK, Ingesting
  <2>2. /\ CompletedManifest(p) \in ManifestRow
        /\ CompletedManifest(p).active = proc[p].id
    BY <1>0, <2>1, ManifestTypes DEF CompletedManifest
  <2>3. link' = ActiveOf(manifest')
    BY <2>1, <2>2, RowAssumption DEF ActiveOf
  <2>4. /\ proc'[p].phase = "completed"
        /\ \A q \in Process : q # p => proc'[q] = proc[q]
    BY <1>0, <1>7, EnterFacts DEF Complete, Phase
  <2> QED
    BY <1>d, <2>1, <2>3, <2>4 DEF RunLink
<1>8. ASSUME NEW p \in Process, Reconcile(p) \/ Prune(p)
      PROVE  LinkMatchesManifest' /\ \A q \in Process : RunLink(q)'
  <2>1. UNCHANGED <<link, manifest, proc>>
    BY <1>8 DEF Reconcile, Prune, runVars
  <2> QED
    BY <1>0, <1>b, <2>1 DEF RunLink, ActiveOf
<1>9. ASSUME NEW p \in Process, EndOfRun(p)
      PROVE  LinkMatchesManifest' /\ \A q \in Process : RunLink(q)'
  <2>1. /\ proc[p].phase = "completed" /\ link' = link /\ manifest' = manifest
        /\ proc' = [proc EXCEPT ![p] = Idle]
    BY <1>9 DEF EndOfRun, Release, diskVars
  <2> QED
    BY <1>a, <1>c, <2>1
<1>10. ASSUME NEW p \in Process, RollbackComplete(p)
       PROVE  LinkMatchesManifest' /\ \A q \in Process : RunLink(q)'
  <2>1. /\ proc[p].phase = "rolled" /\ link' = link
        /\ link = proc[p].old.previous /\ proc[p].old # None
        /\ manifest' = RolledBackManifest(p)
        /\ proc' = [proc EXCEPT ![p] = Idle]
    BY <1>0, <1>10 DEF RollbackComplete, Release, Writes, RunOK, RunLink
  <2>2. RolledBackManifest(p) \in ManifestRow
    BY <1>0, <2>1, ManifestTypes
  <2>3. proc[p].old \in ManifestRow
    BY <1>0, <2>1 DEF TypeOK, RunState
  <2>4. RolledBackManifest(p).active = proc[p].old.previous
    BY <2>3 DEF RolledBackManifest, ManifestRow
  <2>5. link' = ActiveOf(manifest')
    BY <2>1, <2>2, <2>4, RowAssumption DEF ActiveOf
  <2> QED
    BY <1>c, <2>1, <2>5
<1>11. CASE ChangeInput \/ Redeploy \/ UNCHANGED vars
  <2>1. UNCHANGED <<link, manifest, proc>>
    BY <1>11 DEF ChangeInput, Redeploy, vars, diskVars, runVars
  <2> QED
    BY <1>0, <1>b, <2>1 DEF RunLink, ActiveOf
<1> QED
  BY <1>0, <1>1, <1>2, <1>3, <1>4, <1>5, <1>6, <1>7, <1>8, <1>9, <1>10, <1>11
  DEF Next, RunStep, Disturbs

(* As long as nothing crashes and no write raises, graph queries, which    *)
(* follow the symlink, and retrieval, which asks the manifest, use the     *)
(* same version, however builds, failures and rollbacks follow each other. *)
THEOREM LinkFollowsManifest == Spec => []LinkMatchesManifest
<1>1. Init => LinkInv
  BY DEF Init, LinkInv, LinkMatchesManifest, RunLink, Idle
<1>2. IInv /\ LinkInv /\ [Next]_vars => LinkInv'
  BY LinkNext
<1>3. LinkInv => LinkMatchesManifest
  BY DEF LinkInv, LinkMatchesManifest
<1> QED
  BY <1>1, <1>2, <1>3, Invariant, PTL DEF Spec

-----------------------------------------------------------------------------
(* The passages of a version stay as they were indexed.                    *)

(* Nothing is indexed yet under the ids to come, nor under that of a run   *)
(* which has not indexed.                                                  *)
FreshOK ==
  /\ \A v \in Version : v > lastId => rows[v] = None
  /\ \A p \in Process : proc[p].phase \in {"discovered", "building"} =>
       rows[proc[p].id] = None

(* With one profile, the skip path only indexes what has no passages.      *)
LEMMA ReconciledWereMissing ==
  ASSUME OneProfile, IInv, NEW p \in Process, Reconcile(p)
  PROVE  /\ NameOf(proc[p].old) \in VersionName \ Version
         /\ rows[NameOf(proc[p].old)] = None
<1> DEFINE n == NameOf(proc[p].old)
<1>1. /\ TypeOK /\ RowsOf(proc[p].old) /\ ~HasRows(n)
      /\ proc[p].old \in ManifestRow /\ proc[p].old # None
  BY RunFacts DEF Reconcile, Unchanged
<1>2. n \in VersionName
  BY <1>1 DEF NameOf, VersionName, ManifestRow
<1>3. rows[n] = None
  <2>1. rows[n] # None => rows[n] \in PassageRow
    BY <1>1, <1>2 DEF TypeOK
  <2> QED
    BY <1>1, <2>1 DEF HasRows, PassageRow, TypeOK, OneProfile
<1>4. n \notin Version
  BY <1>1, <1>3 DEF NameOf, RowsOf, Version, Unnamed
<1> QED
  BY <1>2, <1>3, <1>4

(* The writes to the index, step by step.                                  *)
LEMMA RowsWritten ==
  ASSUME IInv, [Next]_vars
  PROVE  \/ rows' = rows
         \/ \E p \in Process : Reconcile(p) \/ IndexRows(p)
BY DEF Next, RunStep, Begin, BeginRollback, Reject, ReconcileFails, Skip,
   StartBuild, BuildFails, Publish, Activate, ActivateRaises, Complete,
   CompleteRaises, Prune, PruneRaises, EndOfRun, Fail, RollbackActivate,
   RollbackActivateRaises, RollbackComplete, RollbackCompleteRaises, Crash,
   ChangeInput, Redeploy, EndsWith, diskVars, vars

LEMMA FreshNext ==
  ASSUME OneProfile, IInv, FreshOK, [Next]_vars
  PROVE  /\ FreshOK'
         /\ \A n \in VersionName : rows[n] # None => rows'[n] = rows[n]
<1>0. /\ TypeOK /\ HolderOK /\ IInv'
      /\ \A p \in Process : RunOK(p)
      /\ lastId \in Nat
  BY NextInvariant, IngestionAssumption DEF IInv, TypeOK
<1>1. ASSUME NEW p \in Process, Reconcile(p)
      PROVE  /\ FreshOK'
             /\ \A n \in VersionName : rows[n] # None => rows'[n] = rows[n]
  <2>1. /\ \A n \in VersionName : n # NameOf(proc[p].old) => rows'[n] = rows[n]
        /\ rows[NameOf(proc[p].old)] = None
        /\ \A v \in Version : rows'[v] = rows[v]
        /\ UNCHANGED <<proc, lastId>>
    BY <1>0, <1>1, ReconciledWereMissing DEF Reconcile, TypeOK, VersionName, runVars
  <2>2. \A q \in Process : proc[q].phase \in {"discovered", "building"} =>
          proc[q].id \in Version
    BY <1>0 DEF RunOK, Ingesting
  <2> QED
    BY <2>1, <2>2 DEF FreshOK
<1>2. ASSUME NEW p \in Process, IndexRows(p)
      PROVE  /\ FreshOK'
             /\ \A n \in VersionName : rows[n] # None => rows'[n] = rows[n]
  <2>1. /\ proc[p].id = lastId /\ proc[p].id \in Version
        /\ proc[p].phase # "idle" /\ rows[proc[p].id] = None
    BY <1>0, <1>2 DEF IndexRows, RunOK, Ingesting, FreshOK
  <2>2. /\ \A n \in VersionName : n # proc[p].id => rows'[n] = rows[n]
        /\ lastId' = lastId
    BY <1>0, <1>2 DEF IndexRows, TypeOK
  <2>3. /\ proc'[p].phase = "indexed"
        /\ \A q \in Process : q # p => proc'[q].phase = "idle"
    BY <1>0, <1>2, <2>1, EnterFacts, OthersIdle DEF IndexRows, Phase
  <2>4. \A v \in Version : v > lastId => v # proc[p].id /\ v \in VersionName
    BY <1>0, <2>1 DEF Version, VersionName
  <2>5. \A q \in Process : proc'[q].phase \notin {"discovered", "building"}
    BY <2>3
  <2> QED
    BY <2>1, <2>2, <2>4, <2>5 DEF FreshOK
<1>3. CASE rows' = rows
  <2>1. ASSUME NEW p \in Process, NEW force \in BOOLEAN, Begin(p, force)
        PROVE  FreshOK'
    <3>1. /\ lastId' = lastId + 1 /\ lastId + 1 \in Version
          /\ proc'[p].id = lastId + 1
          /\ \A q \in Process : q # p => proc'[q] = proc[q]
      BY <1>0, <2>1, IngestionAssumption DEF Begin, TypeOK, Version
    <3> QED
      BY <1>0, <1>3, <3>1 DEF FreshOK, Version
  <2>2. ASSUME lastId' = lastId,
               \A q \in Process :
                 proc'[q].phase \in {"discovered", "building"} =>
                   /\ proc[q].phase \in {"discovered", "building"}
                   /\ proc'[q].id = proc[q].id
        PROVE  FreshOK'
    BY <1>3, <2>2 DEF FreshOK
  <2>3. ASSUME NEW p \in Process, BeginRollback(p) \/ RunStep(p) \/ Crash(p),
               ~IndexRows(p), ~Reconcile(p)
        PROVE  FreshOK'
    <3>1. lastId' = lastId
      BY <2>3 DEF BeginRollback, RunStep, Reject, ReconcileFails, Skip, StartBuild,
         BuildFails, Publish, Activate, ActivateRaises, Complete, CompleteRaises,
         Prune, PruneRaises, EndOfRun, Fail, RollbackActivate,
         RollbackActivateRaises, RollbackComplete, RollbackCompleteRaises, Crash,
         EndsWith, runVars
    <3>2. \/ proc' = proc
          \/ proc' = [proc EXCEPT ![p] = Idle]
          \/ BeginRollback(p)
          \/ proc[p].phase = "discovered" /\ Enter(p, "building")
          \/ \E ph \in Phase \ {"discovered", "building"} : Enter(p, ph)
          \/ Activate(p) \/ RollbackActivate(p)
      BY <2>3, Zenon DEF RunStep, Reject, ReconcileFails, Skip, StartBuild,
         BuildFails, Publish, ActivateRaises, Complete, CompleteRaises,
         Prune, PruneRaises, EndOfRun, Fail,
         RollbackActivateRaises, RollbackComplete, RollbackCompleteRaises, Crash,
         EndsWith, Release, runVars, Phase
    <3>3. \A q \in Process : q # p => proc'[q] = proc[q]
      BY <1>0, <3>2 DEF BeginRollback, Enter, Activate, RollbackActivate, Relink, TypeOK
    <3>4. proc'[p].phase \in {"discovered", "building"} =>
            /\ proc[p].phase \in {"discovered", "building"}
            /\ proc'[p].id = proc[p].id
      <4>1. CASE proc' = proc
        BY <4>1
      <4>2. CASE proc' = [proc EXCEPT ![p] = Idle]
        BY <1>0, <4>2 DEF TypeOK, Idle
      <4>3. CASE BeginRollback(p)
        <5>1. proc'[p] = [Idle EXCEPT !.phase = "rolling", !.old = manifest]
          BY <1>0, <4>3 DEF BeginRollback, TypeOK
        <5> QED
          BY <5>1 DEF Idle
      <4>4. CASE proc[p].phase = "discovered" /\ Enter(p, "building")
        BY <1>0, <4>4, EnterFacts DEF Phase
      <4>5. CASE \E ph \in Phase \ {"discovered", "building"} : Enter(p, ph)
        BY <1>0, <4>5, EnterFacts
      <4>6. CASE Activate(p) \/ RollbackActivate(p)
        BY <1>0, <4>6 DEF Activate, RollbackActivate, Relink, TypeOK, RunState
      <4> QED
        BY <3>2, <4>1, <4>2, <4>3, <4>4, <4>5, <4>6
    <3> QED
      BY <2>2, <3>1, <3>3, <3>4
  <2>4. ASSUME ChangeInput \/ Redeploy \/ UNCHANGED vars
        PROVE  FreshOK'
    <3>1. UNCHANGED <<proc, lastId>>
      BY <2>4 DEF ChangeInput, Redeploy, vars, runVars
    <3> QED
      BY <2>2, <3>1
  <2>5. \/ \E p \in Process, force \in BOOLEAN : Begin(p, force)
        \/ \E p \in Process : BeginRollback(p) \/ RunStep(p) \/ Crash(p)
        \/ ChangeInput \/ Redeploy \/ UNCHANGED vars
    BY DEF Next
  <2>6. FreshOK'
    BY <1>1, <1>2, <2>1, <2>3, <2>4, <2>5
  <2> QED
    BY <1>3, <2>6
<1> QED
  BY <1>1, <1>2, <1>3, RowsWritten

(* As long as the document profiles stay the same, an indexed version      *)
(* keeps its passages: replacing, rolling back and pruning versions leave  *)
(* those that a chat request in progress is bound to.                      *)
THEOREM PassagesStay ==
  ASSUME OneProfile
  PROVE  Spec => PassagesStayPut
<1>1. Init => FreshOK
  BY DEF Init, FreshOK, VersionName, Idle
<1>2. IInv /\ FreshOK /\ [Next]_vars => FreshOK'
  BY FreshNext
<1>3. IInv /\ FreshOK /\ [Next]_vars =>
        [\A n \in VersionName : rows[n] # None => rows'[n] = rows[n]]_vars
  BY FreshNext
<1> QED
  BY <1>1, <1>2, <1>3, Invariant, PTL DEF Spec, PassagesStayPut

=============================================================================
