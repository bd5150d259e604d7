------------------- MODULE ProjectBuildsAutocommitProofs -------------------
(***************************************************************************)
(* Proofs about ProjectBuildsAutocommit, for every instance.  The types    *)
(* and the compare-and-set of complete_build need no lock.  The rest is    *)
(* shown to need one only between handlers: up to the moment one writes to *)
(* a project that another has read and not yet written, each step of the   *)
(* SQLite variant is a step of ProjectBuilds.                              *)
(***************************************************************************)
EXTENDS ProjectBuildsAutocommit, ProjectBuildsProofs

-----------------------------------------------------------------------------
(* Types.                                                                  *)

CheckedRow == [op : {"none", "session", "finalize", "delete", "submit"} \cup Target,
               project : Project, snapshot : Index, expected : Nat,
               state : ProjectState]

(* What a handler has checked fits what it is in the middle of.            *)
CheckedOK ==
  \A r \in Request :
    LET c == checked[r]
        s == finalizing[r].session
    IN  /\ c.op = "finalize" => finalizing[r].stored /\ upload[s].project = c.project
        /\ c.op \notin {"none", "finalize"} => Free(r)
        /\ c.op \in {"session", "finalize", "delete", "submit", "archived"} =>
             c.state \notin Frozen
        /\ c.op \in {"ready", "draft"} => c.state = "archived"

(* The session a handler finalizes has a row, which no other overwrites.   *)
FinalizedHasRow ==
  \A r \in Request : finalizing[r].session # None =>
    upload[finalizing[r].session].state # "none"

AutoTypeInv ==
  /\ TypeInv
  /\ checked \in [Request -> CheckedRow]
  /\ CheckedOK
  /\ FinalizedHasRow

LEMMA NothingType == Nothing \in CheckedRow /\ Nothing.op = "none"
<1>1. (CHOOSE p \in Project : TRUE) \in Project
  BY IdsAssumption
<1> QED BY <1>1, IdsAssumption DEF Nothing, CheckedRow, ProjectState

LEMMA ReadType ==
  ASSUME AutoTypeInv, NEW r \in Request, ReadStep(r)
  PROVE  /\ UNCHANGED vars
         /\ checked' \in [Request -> CheckedRow]
         /\ overtaken' = overtaken
         /\ \A q \in Request \ {r} : checked'[q] = checked[q]
         /\ checked[r] = Nothing
         /\ LET c == checked'[r]
                p == c.project
                n == c.snapshot
            IN  /\ c.state = pstate[p]
                /\ c.op # "none"
                /\ c.op \in {"session", "finalize", "delete", "submit", "archived"} =>
                     c.state \notin Frozen
                /\ c.op \in {"ready", "draft"} => c.state = "archived" /\ c.op = RestoredState(p)
                /\ c.op \in {"session", "delete", "submit"} => IsDraft(p, n)
                /\ c.op = "submit" => /\ OpenSessions(p, n) = {}
                                      /\ docs[p][n] # EmptyDocs
                                      /\ generation[p] = c.expected
                /\ c.op = "finalize" =>
                     /\ finalizing[r].stored
                     /\ upload[finalizing[r].session].project = p
                /\ c.op # "finalize" => Free(r)
<1> USE DEF AutoTypeInv, TypeInv, TypeOK
<1> DEFINE Row(op, p, n) == [op |-> op, project |-> p, snapshot |-> n,
                             expected |-> generation[p], state |-> pstate[p]]
<1>1. ASSUME NEW op \in {"session", "finalize", "delete", "submit"} \cup Target,
             NEW p \in Project, NEW n \in Index, Read(r, op, p, n)
      PROVE  /\ checked' \in [Request -> CheckedRow]
             /\ checked'[r] = Row(op, p, n)
             /\ \A q \in Request \ {r} : checked'[q] = checked[q]
  <2>1. Row(op, p, n) \in CheckedRow
    BY DEF CheckedRow
  <2>2. checked' = [checked EXCEPT ![r] = Row(op, p, n)]
    BY <1>1 DEF Read
  <2> HIDE DEF Row
  <2> QED BY <2>1, <2>2
<1>2. CASE \E p \in Project : ReadForSession(r, p)
  <2>1. PICK p \in Project, n \in Index :
          /\ Idle(r) /\ pstate[p] \notin Frozen /\ IsDraft(p, n)
          /\ Read(r, "session", p, n)
          /\ UNCHANGED <<vars, overtaken>>
    BY <1>2 DEF ReadForSession
  <2>2. /\ checked'[r] = Row("session", p, n)
        /\ checked' \in [Request -> CheckedRow]
        /\ \A q \in Request \ {r} : checked'[q] = checked[q]
    BY <1>1, <2>1
  <2> QED BY <2>1, <2>2 DEF Idle
<1>3. CASE \E p \in Project : ReadForDelete(r, p)
  <2>1. PICK p \in Project, n \in Index :
          /\ Idle(r) /\ pstate[p] \notin Frozen /\ IsDraft(p, n)
          /\ Read(r, "delete", p, n)
          /\ UNCHANGED <<vars, overtaken>>
    BY <1>3 DEF ReadForDelete
  <2>2. /\ checked'[r] = Row("delete", p, n)
        /\ checked' \in [Request -> CheckedRow]
        /\ \A q \in Request \ {r} : checked'[q] = checked[q]
    BY <1>1, <2>1
  <2> QED BY <2>1, <2>2 DEF Idle
<1>4. CASE \E p \in Project : ReadForSubmit(r, p)
  <2>1. PICK p \in Project, n \in Index :
          /\ Idle(r) /\ pstate[p] \notin Frozen /\ IsDraft(p, n)
          /\ OpenSessions(p, n) = {} /\ docs[p][n] # EmptyDocs
          /\ Read(r, "submit", p, n)
          /\ UNCHANGED <<vars, overtaken>>
    BY <1>4 DEF ReadForSubmit
  <2>2. /\ checked'[r] = Row("submit", p, n)
        /\ checked' \in [Request -> CheckedRow]
        /\ \A q \in Request \ {r} : checked'[q] = checked[q]
    BY <1>1, <2>1
  <2> QED BY <2>1, <2>2 DEF Idle
<1>5. CASE \E p \in Project : ReadForState(r, p)
  <2>1. PICK p \in Project, op \in Target :
          /\ Idle(r) /\ Read(r, op, p, 1)
          /\ UNCHANGED <<vars, overtaken>>
          /\ \/ op = "archived" /\ pstate[p] \notin Frozen
             \/ /\ pstate[p] = "archived" /\ op = RestoredState(p)
                /\ op \in {"ready", "draft"}
    BY <1>5 DEF ReadForState, Target, RestoredState
  <2>2. /\ checked'[r] = Row(op, p, 1)
        /\ checked' \in [Request -> CheckedRow]
        /\ \A q \in Request \ {r} : checked'[q] = checked[q]
    BY <1>1, <2>1, IdsAssumption
  <2> QED BY <2>1, <2>2 DEF Idle, Target
<1>6. CASE ReadForFinalize(r)
  <2>1. PICK u \in Session : u = finalizing[r].session
    BY <1>6 DEF ReadForFinalize, HoldersOK
  <2>2. PICK p \in Project, n \in Index :
          /\ p = upload[u].project /\ n = upload[u].snapshot
    BY DEF SessionRow
  <2>3. /\ finalizing[r].stored /\ checked[r] = Nothing
        /\ pstate[p] \notin Frozen
        /\ Read(r, "finalize", p, n)
        /\ UNCHANGED <<vars, overtaken>>
    BY <1>6, <2>1, <2>2 DEF ReadForFinalize
  <2>4. /\ checked'[r] = Row("finalize", p, n)
        /\ checked' \in [Request -> CheckedRow]
        /\ \A q \in Request \ {r} : checked'[q] = checked[q]
    BY <1>1, <2>3
  <2> QED BY <2>1, <2>2, <2>3, <2>4
<1> QED BY <1>2, <1>3, <1>4, <1>5, <1>6 DEF ReadStep

(* What every step has in common: no handler loses what it is in the       *)
(* middle of, and no session row goes away.                                *)
LEMMA HandlersGoOn ==
  ASSUME AutoTypeInv, TypeInv', checked' \in [Request -> CheckedRow],
         \A q \in Request :
           /\ \/ checked'[q] = checked[q] /\ (checked[q].op # "none" =>
                                                 finalizing'[q] = finalizing[q])
              \/ checked'[q] = Nothing
           /\ \/ finalizing'[q].session \in {None, finalizing[q].session}
              \/ upload[finalizing'[q].session].state # "none",
         \A u \in Session : upload[u].state # "none" =>
           /\ upload'[u].state # "none"
           /\ upload'[u].project = upload[u].project
  PROVE  AutoTypeInv'
<1> USE DEF AutoTypeInv
<1>1. \A q \in Request : finalizing'[q].session \in Session \cup {None}
  BY DEF TypeInv, TypeOK, Handler
<1>2. \A q \in Request : finalizing[q].session \in Session \cup {None}
  BY DEF TypeInv, TypeOK, Handler
<1>3. FinalizedHasRow'
  BY <1>1, <1>2 DEF FinalizedHasRow
<1>4. ASSUME NEW q \in Request
      PROVE  LET c == checked'[q]
                 s == finalizing'[q].session
             IN  /\ c.op = "finalize" => finalizing'[q].stored /\ upload'[s].project = c.project
                 /\ c.op \notin {"none", "finalize"} => finalizing'[q] = NoHandler
                 /\ c.op \in {"session", "finalize", "delete", "submit", "archived"} =>
                      c.state \notin Frozen
                 /\ c.op \in {"ready", "draft"} => c.state = "archived"
  <2>1. CASE checked'[q] = Nothing
    BY <2>1, NothingType
  <2>2. CASE checked'[q] = checked[q] /\ (checked[q].op # "none" =>
                                            finalizing'[q] = finalizing[q])
    <3>1. CASE checked[q].op = "finalize"
      <4>1. /\ finalizing[q].stored
            /\ upload[finalizing[q].session].project = checked[q].project
            /\ checked[q].state \notin Frozen
        BY <3>1 DEF CheckedOK
      <4>2. PICK u \in Session : u = finalizing[q].session
        BY <4>1 DEF TypeInv, HoldersOK
      <4>3. upload[u].state # "none"
        BY <4>2, IdsAssumption DEF FinalizedHasRow
      <4> QED BY <2>2, <3>1, <4>1, <4>2, <4>3
    <3>2. CASE checked[q].op # "finalize"
      BY <2>2, <3>2 DEF CheckedOK, Free
    <3> QED BY <3>1, <3>2
  <2> QED BY <2>1, <2>2
<1>5. CheckedOK'
  BY <1>4 DEF CheckedOK, Free
<1> QED BY <1>3, <1>5

LEMMA WriteType ==
  ASSUME AutoTypeInv, NEW r \in Request, WriteStep(r)
  PROVE  /\ TypeInv'
         /\ Written(r)
         /\ UNCHANGED <<worker, run, diskVars, active, version, generation>>
         /\ \A q \in Request \ {r} : finalizing'[q] = finalizing[q]
         /\ finalizing'[r].session \in {None, finalizing[r].session}
         /\ \A u \in Session : upload[u].state # "none" =>
              /\ upload'[u].state # "none"
              /\ upload'[u].project = upload[u].project
<1> USE DEF AutoTypeInv
<1> TypeInv
  OBVIOUS
<1> DEFINE c == checked[r]
<1>1. /\ c.project \in Project /\ c.snapshot \in Index /\ c.expected \in Nat
      /\ c.op \in {"none", "session", "finalize", "delete", "submit"} \cup Target
  BY DEF CheckedRow
<1>2. CASE \E u \in Session, d \in Docs \ {EmptyDocs} : WriteSession(r, u, d)
  <2>1. PICK u \in Session, d \in Docs : WriteSession(r, u, d)
    BY <1>2
  <2> DEFINE row == [state |-> "open", project |-> c.project,
                     snapshot |-> c.snapshot, docs |-> d,
                     parts |-> "pending", lapsed |-> FALSE]
  <2>2. row \in SessionRow
    BY <1>1 DEF SessionRow, PartsState
  <2>3. /\ upload[u].state = "none"
        /\ upload' = [upload EXCEPT ![u] = row]
        /\ Written(r)
        /\ UNCHANGED <<projectVars, snapshotVars, finalizing, job, worker, run,
                       diskVars>>
    BY <2>1 DEF WriteSession
  <2> HIDE DEF row, c
  <2>4. TypeInv'
    BY <2>2, <2>3 DEF TypeInv, HoldersOK, TypeOK, projectVars, snapshotVars, diskVars
  <2> QED BY <2>3, <2>4 DEF TypeInv, TypeOK, projectVars
<1>3. CASE WriteFinalize(r)
  <2>1. /\ finalizing[r].stored /\ ApplyFinalize(r) /\ Written(r)
    BY <1>3 DEF WriteFinalize, CheckedOK
  <2>2. TypeInv'
    BY <2>1, ApplyFinalizeType
  <2>3. PICK u \in Session : u = finalizing[r].session
    BY <2>1 DEF TypeInv, HoldersOK
  <2>4. /\ upload' = [upload EXCEPT ![u].state = "finalized"]
        /\ finalizing' = [finalizing EXCEPT ![r] = NoHandler]
        /\ UNCHANGED <<worker, run, diskVars, projectVars>>
    BY <2>1, <2>3 DEF ApplyFinalize
  <2> QED
    BY <2>1, <2>2, <2>4 DEF TypeInv, TypeOK, SessionRow, NoHandler, projectVars
<1>4. CASE \E f \in Name : WriteDelete(r, f)
  <2>1. PICK f \in Name : RemoveRow(c.project, c.snapshot, f) /\ Written(r)
    BY <1>4 DEF WriteDelete
  <2>2. TypeInv'
    BY <1>1, <2>1, RemoveRowType
  <2> QED BY <2>1, <2>2 DEF RemoveRow, apiVars, projectVars
<1>5. CASE \E b \in Build, k \in Key : WriteSubmit(r, b, k)
  <2>1. PICK b \in Build, k \in Key :
          Enqueue(c.project, c.snapshot, b, k, c.expected) /\ Written(r)
    BY <1>5 DEF WriteSubmit
  <2>2. TypeInv'
    BY <1>1, <2>1, EnqueueType
  <2> QED BY <2>1, <2>2 DEF Enqueue, apiVars
<1>6. CASE WriteState(r)
  <2>1. /\ c.op \in ProjectState
        /\ pstate' = [pstate EXCEPT ![c.project] = c.op]
        /\ Written(r)
        /\ UNCHANGED <<active, version, generation, snapshotVars, apiVars, job,
                       worker, run, diskVars>>
    BY <1>6 DEF WriteState, Target, ProjectState
  <2> HIDE DEF c
  <2>2. TypeInv'
    BY <1>1, <2>1 DEF TypeInv, HoldersOK, TypeOK, snapshotVars, apiVars, diskVars
  <2> QED BY <2>1, <2>2 DEF apiVars
<1> QED BY <1>2, <1>3, <1>4, <1>5, <1>6 DEF WriteStep

(* The steps that touch neither what was checked nor a handler that has    *)
(* checked something.                                                      *)
OtherStep ==
  \/ \E r \in Request : UncheckedStep(r)
  \/ BackgroundStep \/ WorkerStep \/ BuildRaises \/ Crash

LEMMA OtherIsNext == OtherStep => Next
  BY DEF OtherStep, UncheckedStep, Next, ApiStep

LEMMA OtherType ==
  ASSUME AutoTypeInv, OtherStep \/ CompleteConflict
  PROVE  /\ TypeInv'
         /\ \A q \in Request :
              /\ checked[q] # Nothing => finalizing'[q] = finalizing[q]
              /\ \/ finalizing'[q].session \in {None, finalizing[q].session}
                 \/ upload[finalizing'[q].session].state # "none"
         /\ \A u \in Session : upload[u].state # "none" =>
              /\ upload'[u].state # "none"
              /\ upload'[u].project = upload[u].project
<1> USE DEF AutoTypeInv
<1> TypeInv
  OBVIOUS
<1>1. TypeInv'
  <2>1. CASE OtherStep
    BY <2>1, OtherIsNext, StepType
  <2>2. CASE CompleteConflict
    BY <2>2 DEF CompleteConflict, FailWith, TypeInv, HoldersOK, TypeOK,
                projectVars, snapshotVars, apiVars, diskVars, WorkerState, Phase,
                ErrorCode
  <2> QED BY <2>1, <2>2
<1>2. ASSUME NEW r \in Request, UncheckedStep(r)
      PROVE  /\ \A q \in Request :
                  /\ checked[q] # Nothing => finalizing'[q] = finalizing[q]
                  /\ \/ finalizing'[q].session \in {None, finalizing[q].session}
                     \/ upload[finalizing'[q].session].state # "none"
             /\ \A u \in Session : upload[u].state # "none" =>
                  /\ upload'[u].state # "none"
                  /\ upload'[u].project = upload[u].project
  <2>1. checked[r] = Nothing
    BY <1>2 DEF UncheckedStep
  <2>2. CASE \/ \E p \in Project : CreateProject(r, p)
             \/ \E u \in Session : StartReceiving(r, u)
    <3>1. finalizing' = finalizing
      BY <2>2 DEF CreateProject, StartReceiving, apiVars
    <3>2. \A u \in Session : /\ upload'[u].state = upload[u].state
                             /\ upload'[u].project = upload[u].project
      <4>1. ASSUME NEW s \in Session, StartReceiving(r, s)
            PROVE  \A u \in Session : /\ upload'[u].state = upload[u].state
                                       /\ upload'[u].project = upload[u].project
        BY <4>1 DEF StartReceiving, TypeInv, TypeOK, SessionRow
      <4>2. ASSUME NEW p \in Project, CreateProject(r, p)
            PROVE  upload' = upload
        BY <4>2 DEF CreateProject, apiVars
      <4> QED BY <2>2, <4>1, <4>2
    <3> QED BY <3>1, <3>2
  <2>3. CASE \E u \in Session : FinalizeValidate(r, u)
    <3>1. PICK u \in Session :
            /\ upload[u].state = "open"
            /\ finalizing' = [finalizing EXCEPT ![r] = [session |-> u, stored |-> FALSE]]
            /\ upload' = upload
      BY <2>3 DEF FinalizeValidate, Usable
    <3> QED BY <2>1, <3>1 DEF TypeInv, TypeOK
  <2>4. CASE FinalizeStore(r)
    <3>1. PICK u \in Session :
            /\ upload' = [upload EXCEPT ![u].parts = "moved"]
            /\ finalizing' = [finalizing EXCEPT ![r].stored = TRUE]
      BY <2>4 DEF FinalizeStore, TypeInv, TypeOK, Handler
    <3> QED BY <2>1, <3>1 DEF TypeInv, TypeOK, SessionRow, Handler
  <2>5. CASE FinalizeAbort(r)
    <3>1. PICK u \in Session :
            /\ upload' = upload \/ upload' = [upload EXCEPT ![u].parts = "moved"]
            /\ finalizing' = [finalizing EXCEPT ![r] = NoHandler]
      BY <2>5 DEF FinalizeAbort, TypeInv, TypeOK, Handler
    <3>2. \A q \in Request :
            /\ checked[q] # Nothing => finalizing'[q] = finalizing[q]
            /\ finalizing'[q].session \in {None, finalizing[q].session}
      BY <2>1, <3>1 DEF TypeInv, TypeOK, NoHandler
    <3>3. \A s \in Session : /\ upload'[s].state = upload[s].state
                             /\ upload'[s].project = upload[s].project
      <4>1. CASE upload' = upload
        BY <4>1
      <4>2. CASE upload' = [upload EXCEPT ![u].parts = "moved"]
        BY <4>2 DEF TypeInv, TypeOK, SessionRow
      <4> QED BY <3>1, <4>1, <4>2
    <3> QED BY <3>2, <3>3
  <2> QED BY <1>2, <2>2, <2>3, <2>4, <2>5 DEF UncheckedStep
<1>3. CASE WorkerStep \/ BuildRaises \/ Crash \/ CompleteConflict
  <2>1. UNCHANGED <<upload, finalizing>>
    BY <1>3 DEF WorkerStep, WorkerStart, Claim, MakeBuildRoot, StageVersion,
                Publish, RemoveBuildRoot, Complete, Fail, CleanFailedRoot,
                BuildRaises, Crash, CompleteConflict, apiVars
  <2> QED BY <1>1, <2>1
<1>4. CASE BackgroundStep
  <2>1. finalizing' = finalizing
    BY <1>4 DEF BackgroundStep, CleanupExpiredUploads, SessionLapses, FinishReceiving
  <2>2. ASSUME NEW u \in Session, upload[u].state # "none"
        PROVE  /\ upload'[u].state # "none"
               /\ upload'[u].project = upload[u].project
    <3>1. CASE CleanupExpiredUploads
      BY <2>2, <3>1 DEF CleanupExpiredUploads, TypeInv, TypeOK, SessionRow
    <3>2. ASSUME NEW s \in Session, SessionLapses(s)
          PROVE  /\ upload'[u].state # "none"
                 /\ upload'[u].project = upload[u].project
      BY <2>2, <3>2 DEF SessionLapses, TypeInv, TypeOK, SessionRow
    <3>3. ASSUME NEW s \in Session, FinishReceiving(s)
          PROVE  /\ upload'[u].state # "none"
                 /\ upload'[u].project = upload[u].project
      BY <2>2, <3>3 DEF FinishReceiving, TypeInv, TypeOK, SessionRow
    <3> QED BY <1>4, <3>1, <3>2, <3>3 DEF BackgroundStep
  <2> QED BY <1>1, <2>1, <2>2
<1> QED BY <1>1, <1>2, <1>3, <1>4 DEF OtherStep

LEMMA AutoType == AutoTypeInv /\ [AutoNext]_autoVars => AutoTypeInv'
<1> SUFFICES ASSUME AutoTypeInv, [AutoNext]_autoVars
             PROVE  AutoTypeInv'
  OBVIOUS
<1> USE DEF AutoTypeInv
<1>1. ASSUME NEW r \in Request, ReadStep(r)
      PROVE  AutoTypeInv'
  <2>1. /\ UNCHANGED vars
        /\ checked' \in [Request -> CheckedRow]
        /\ \A q \in Request \ {r} : checked'[q] = checked[q]
    BY <1>1, ReadType
  <2>2. UNCHANGED <<upload, finalizing>>
    BY <2>1 DEF vars
  <2>3. TypeInv'
    BY <2>1, StepType
  <2>4. FinalizedHasRow'
    BY <2>2 DEF FinalizedHasRow
  <2>5. LET c == checked'[r]
            s == finalizing[r].session
        IN  /\ c.op = "finalize" => finalizing[r].stored /\ upload[s].project = c.project
            /\ c.op \notin {"none", "finalize"} => Free(r)
            /\ c.op \in {"session", "finalize", "delete", "submit", "archived"} =>
                 c.state \notin Frozen
            /\ c.op \in {"ready", "draft"} => c.state = "archived"
    BY <1>1, ReadType
  <2>6. CheckedOK'
    BY <2>1, <2>2, <2>5 DEF CheckedOK, Free
  <2> QED BY <2>1, <2>3, <2>4, <2>6
<1>2. ASSUME NEW r \in Request, WriteStep(r)
      PROVE  AutoTypeInv'
  <2>1. checked' = [checked EXCEPT ![r] = Nothing]
    BY <1>2, WriteType DEF Written, Dropped
  <2>2. checked' \in [Request -> CheckedRow]
    BY <2>1, NothingType
  <2>3. \A q \in Request :
          /\ \/ checked'[q] = checked[q] /\ (checked[q].op # "none" =>
                                               finalizing'[q] = finalizing[q])
             \/ checked'[q] = Nothing
          /\ \/ finalizing'[q].session \in {None, finalizing[q].session}
             \/ upload[finalizing'[q].session].state # "none"
    BY <1>2, <2>1, WriteType
  <2> QED BY <1>2, <2>2, <2>3, WriteType, HandlersGoOn
<1>3. ASSUME NEW r \in Request, RollBack(r)
      PROVE  AutoTypeInv'
  <2>1. checked' = [checked EXCEPT ![r] = Nothing] /\ UNCHANGED vars
    BY <1>3 DEF RollBack, Dropped
  <2>2. checked' \in [Request -> CheckedRow]
    BY <2>1, NothingType
  <2>3. TypeInv'
    BY <2>1, StepType
  <2>4. UNCHANGED <<upload, finalizing>>
    BY <2>1 DEF vars
  <2>5. \A q \in Request : checked'[q] = checked[q] \/ checked'[q] = Nothing
    BY <2>1
  <2> QED BY <2>2, <2>3, <2>4, <2>5, HandlersGoOn
<1>4. CASE (OtherStep \/ CompleteConflict) /\ checked' = checked
  BY <1>4, OtherType, HandlersGoOn, NothingType
<1>5. CASE UNCHANGED autoVars
  <2>1. UNCHANGED vars /\ checked' = checked /\ UNCHANGED <<upload, finalizing>>
    BY <1>5 DEF autoVars, vars
  <2>2. TypeInv'
    BY <2>1, StepType
  <2> QED BY <2>1, <2>2, HandlersGoOn
<1> QED BY <1>1, <1>2, <1>3, <1>4, <1>5 DEF AutoNext, OtherStep

-----------------------------------------------------------------------------
(* What was checked still holds.                                           *)

(* A step that leaves alone what a handler checks of a project.            *)
ProjectKept(p) ==
  /\ pstate'[p] = pstate[p]
  /\ version'[p] = version[p]
  /\ generation'[p] = generation[p]
  /\ \A n \in Index : status'[p][n] = status[p][n] /\ docs'[p][n] = docs[p][n]
  /\ \A u \in Session : upload'[u].state = "open" /\ upload'[u].project = p =>
       /\ upload[u].state = "open" /\ upload[u].project = p
       /\ upload'[u].snapshot = upload[u].snapshot

LEMMA StillHoldsKept ==
  ASSUME AutoTypeInv, NEW r \in Request, StillHolds(r), checked'[r] = checked[r],
         checked[r].op # "none" => ProjectKept(checked[r].project)
  PROVE  StillHolds(r)'
<1>1. PICK p \in Project, n \in Index :
        p = checked[r].project /\ n = checked[r].snapshot
  BY DEF AutoTypeInv, CheckedRow
<1> DEFINE c == checked[r]
<1> SUFFICES ASSUME c.op # "none"
             PROVE  /\ pstate'[p] = c.state
                    /\ c.op \in {"session", "delete", "submit"} => IsDraft(p, n)'
                    /\ c.op \in {"ready", "draft"} => c.op = RestoredState(p)'
                    /\ c.op = "submit" => /\ OpenSessions(p, n)' = {}
                                          /\ docs'[p][n] # EmptyDocs
                                          /\ generation'[p] = c.expected
  BY <1>1 DEF StillHolds, IsDraft, RestoredState, OpenSessions
<1>2. ProjectKept(p)
  BY <1>1
<1>3. /\ pstate[p] = c.state
      /\ c.op \in {"session", "delete", "submit"} => IsDraft(p, n)
      /\ c.op \in {"ready", "draft"} => c.op = RestoredState(p)
      /\ c.op = "submit" => /\ OpenSessions(p, n) = {}
                            /\ docs[p][n] # EmptyDocs
                            /\ generation[p] = c.expected
  BY <1>1 DEF StillHolds
<1> HIDE DEF c
<1>4. IsDraft(p, n) => IsDraft(p, n)'
  BY <1>2 DEF ProjectKept, IsDraft
<1>5. RestoredState(p)' = RestoredState(p)
  BY <1>2 DEF ProjectKept, RestoredState
<1>6. /\ pstate'[p] = pstate[p]
      /\ docs'[p][n] = docs[p][n]
      /\ generation'[p] = generation[p]
  BY <1>2 DEF ProjectKept
<1>7. OpenSessions(p, n) = {} => OpenSessions(p, n)' = {}
  BY <1>2 DEF ProjectKept, OpenSessions
<1> QED BY <1>3, <1>4, <1>5, <1>6, <1>7

(* The handlers that check nothing, the cleanup and the worker leave alone *)
(* a project no build of which is in flight.                               *)
LEMMA OtherKeeps ==
  ASSUME IInv, OtherStep, NEW p \in Project,
         pstate[p] \notin {"absent", "queued", "building"}
  PROVE  ProjectKept(p)
<1> USE DEF IInv, TypeInv
<1> TypeOK
  OBVIOUS
<1>1. ASSUME UNCHANGED <<projectVars, snapshotVars>>,
             \A u \in Session :
               /\ upload'[u].state = "open" => upload[u].state = "open"
               /\ upload'[u].project = upload[u].project
               /\ upload'[u].snapshot = upload[u].snapshot
      PROVE  ProjectKept(p)
  BY <1>1 DEF ProjectKept, projectVars, snapshotVars
<1>2. ASSUME NEW r \in Request, UncheckedStep(r)
      PROVE  ProjectKept(p)
  <2>1. ASSUME NEW q \in Project, CreateProject(r, q)
        PROVE  ProjectKept(p)
    BY <2>1 DEF CreateProject, TypeOK, ProjectKept, apiVars
  <2>2. ASSUME NEW u \in Session, StartReceiving(r, u)
        PROVE  ProjectKept(p)
    BY <1>1, <2>2 DEF StartReceiving, TypeOK, SessionRow
  <2>3. ASSUME NEW u \in Session, FinalizeValidate(r, u)
        PROVE  ProjectKept(p)
    BY <1>1, <2>3 DEF FinalizeValidate
  <2>4. CASE FinalizeStore(r)
    BY <1>1, <2>4 DEF FinalizeStore, TypeOK, SessionRow
  <2>5. CASE FinalizeAbort(r)
    <3>1. UNCHANGED <<projectVars, snapshotVars>>
      BY <2>5 DEF FinalizeAbort
    <3>2. PICK s \in Session :
            upload' = upload \/ upload' = [upload EXCEPT ![s].parts = "moved"]
      BY <2>5 DEF FinalizeAbort, TypeOK, Handler
    <3>3. CASE upload' = upload
      BY <1>1, <3>1, <3>3
    <3>4. CASE upload' = [upload EXCEPT ![s].parts = "moved"]
      BY <1>1, <3>1, <3>4 DEF TypeOK, SessionRow
    <3> QED BY <3>2, <3>3, <3>4
  <2> QED BY <1>2, <2>1, <2>2, <2>3, <2>4, <2>5 DEF UncheckedStep
<1>3. CASE BackgroundStep
  <2>1. CASE CleanupExpiredUploads
    BY <1>1, <2>1 DEF CleanupExpiredUploads, TypeOK, SessionRow
  <2>2. ASSUME NEW u \in Session, SessionLapses(u)
        PROVE  ProjectKept(p)
    BY <1>1, <2>2 DEF SessionLapses, TypeOK, SessionRow
  <2>3. ASSUME NEW u \in Session, FinishReceiving(u)
        PROVE  ProjectKept(p)
    BY <1>1, <2>3 DEF FinishReceiving, TypeOK, SessionRow
  <2> QED BY <1>3, <2>1, <2>2, <2>3 DEF BackgroundStep
<1>4. ASSUME upload' = upload, UNCHANGED <<version, generation, status, docs>>,
             pstate'[p] = pstate[p]
      PROVE  ProjectKept(p)
  BY <1>4 DEF ProjectKept
<1>5. JobsOf(p, "building") = {} /\ JobsOf(p, "queued") = {}
  BY DEF ProjectStateMatchesJobs
<1>6. CASE WorkerStart
  BY <1>4, <1>5, <1>6 DEF WorkerStart, RequeuedState, apiVars
<1>7. ASSUME NEW b \in Build, Claim(b)
      PROVE  ProjectKept(p)
  <2>1. job[b].project # p /\ job[b].project \in Project
    BY <1>5, <1>7 DEF Claim, JobsOf, Jobs, TypeOK, JobRow
  <2> QED BY <1>4, <1>7, <2>1 DEF Claim, apiVars, TypeOK
<1>8. CASE Complete
  <2>1. PICK q \in Project :
          q = job[worker.build].project /\ pstate[q] = "building"
    BY <1>8, BusyBuild DEF Complete, Busy
  <2>2. PICK n \in Index : n = job[worker.build].snapshot
    BY <1>8, BusyBuild DEF Complete, Busy
  <2>3. PICK m \in Index :
          /\ status' = [status EXCEPT ![q] =
               [Superseded(q) EXCEPT ![n] = "active", ![m] = "editable"]]
          /\ docs' = [docs EXCEPT ![q][m] = docs[q][n]]
    BY <1>8, <2>1, <2>2 DEF Complete
  <2>4. /\ version' = [version EXCEPT ![q] = GraphVersion(worker.build)]
        /\ generation' = [generation EXCEPT ![q] = @ + 1]
        /\ pstate' = [pstate EXCEPT ![q] = "ready"]
        /\ upload' = upload
    BY <1>8, <2>1 DEF Complete, apiVars
  <2> QED BY <2>1, <2>3, <2>4 DEF TypeOK, ProjectKept
<1>9. CASE Fail
  <2>1. PICK q \in Project, n \in Index :
          /\ q = job[worker.build].project /\ pstate[q] = "building"
          /\ n = job[worker.build].snapshot
    BY <1>9, BusyBuild DEF Fail, Busy
  <2>2. /\ status' = [status EXCEPT ![q][n] = FailedSnapshot(q, n)]
        /\ pstate' = [pstate EXCEPT ![q] =
                        IF version[q] # None THEN "ready" ELSE "failed"]
        /\ UNCHANGED <<version, generation, docs, upload>>
    BY <1>9, <2>1 DEF Fail, apiVars
  <2> QED BY <2>1, <2>2 DEF TypeOK, ProjectKept
<1>10. CASE \/ MakeBuildRoot \/ StageVersion \/ Publish \/ RemoveBuildRoot
            \/ CleanFailedRoot \/ BuildRaises \/ Crash
  BY <1>4, <1>10 DEF MakeBuildRoot, StageVersion, Publish, RemoveBuildRoot,
              CleanFailedRoot, BuildRaises, Crash, projectVars, snapshotVars, apiVars
<1> QED
  BY <1>2, <1>3, <1>6, <1>7, <1>8, <1>9, <1>10 DEF OtherStep, WorkerStep

(* A handler writes to the project it has checked.                         *)
LEMMA WriteKeeps ==
  ASSUME AutoTypeInv, NEW r \in Request, WriteStep(r), NEW p \in Project,
         p # checked[r].project
  PROVE  ProjectKept(p)
<1> USE DEF AutoTypeInv, TypeInv
<1> TypeOK
  OBVIOUS
<1> DEFINE c == checked[r]
<1>1. c.project \in Project /\ c.snapshot \in Index
  BY DEF CheckedRow
<1>2. UNCHANGED <<version, generation>>
  BY WriteType
<1>3. CASE \E u \in Session, d \in Docs \ {EmptyDocs} : WriteSession(r, u, d)
  <2>1. PICK u \in Session, d \in Docs :
          /\ upload' = [upload EXCEPT ![u] =
               [state |-> "open", project |-> c.project, snapshot |-> c.snapshot,
                docs |-> d, parts |-> "pending", lapsed |-> FALSE]]
          /\ UNCHANGED <<pstate, status, docs>>
    BY <1>3 DEF WriteSession, projectVars, snapshotVars
  <2> HIDE DEF c
  <2>2. \A s \in Session : upload'[s].project = p => upload'[s] = upload[s]
    BY <2>1 DEF TypeOK, c
  <2> QED BY <1>2, <2>1, <2>2 DEF ProjectKept
<1>4. CASE WriteFinalize(r)
  <2>1. PICK u \in Session, n \in Index :
          /\ u = finalizing[r].session /\ upload[u].project = c.project
          /\ n = upload[u].snapshot
    BY <1>4 DEF WriteFinalize, CheckedOK, HoldersOK, TypeOK, SessionRow
  <2>2. /\ docs' = [docs EXCEPT ![c.project][n] = Merge(@, upload[u].docs)]
        /\ upload' = [upload EXCEPT ![u].state = "finalized"]
        /\ UNCHANGED <<pstate, status>>
    BY <1>4, <2>1 DEF WriteFinalize, ApplyFinalize, projectVars
  <2>3. \A s \in Session : upload'[s].state = "open" => upload'[s] = upload[s]
    BY <2>2 DEF TypeOK, SessionRow
  <2>4. \A i \in Index : docs'[p][i] = docs[p][i]
    BY <1>1, <2>1, <2>2 DEF TypeOK
  <2> QED BY <1>2, <2>2, <2>3, <2>4 DEF ProjectKept
<1>5. CASE \E f \in Name : WriteDelete(r, f)
  <2>1. PICK f \in Name :
          /\ docs' = [docs EXCEPT ![c.project][c.snapshot][f] = None]
          /\ UNCHANGED <<pstate, status, upload>>
    BY <1>5 DEF WriteDelete, RemoveRow, projectVars, apiVars
  <2> QED BY <1>1, <1>2, <2>1 DEF ProjectKept, TypeOK
<1>6. CASE \E b \in Build, k \in Key : WriteSubmit(r, b, k)
  <2>1. /\ status' = [status EXCEPT ![c.project][c.snapshot] = "sealed"]
        /\ pstate' = [pstate EXCEPT ![c.project] = "queued"]
        /\ UNCHANGED <<docs, upload>>
    BY <1>6 DEF WriteSubmit, Enqueue, apiVars
  <2> QED BY <1>1, <1>2, <2>1 DEF ProjectKept, TypeOK
<1>7. CASE WriteState(r)
  <2>1. /\ pstate' = [pstate EXCEPT ![c.project] = c.op]
        /\ UNCHANGED <<docs, status, upload>>
    BY <1>7 DEF WriteState, apiVars, snapshotVars
  <2> QED BY <1>1, <1>2, <2>1 DEF ProjectKept, TypeOK
<1> QED BY <1>3, <1>4, <1>5, <1>6, <1>7 DEF WriteStep

(* While what it has checked holds, a handler that writes does what the    *)
(* handler that locks the project row does in one step.                    *)
LEMMA WriteIsLocked ==
  ASSUME AutoTypeInv, NEW r \in Request, StillHolds(r), WriteStep(r)
  PROVE  ApiStep(r)
<1> USE DEF AutoTypeInv
<1> DEFINE c == checked[r]
<1>1. c.project \in Project /\ c.snapshot \in Index
  BY DEF CheckedRow
<1>2. CASE \E u \in Session, d \in Docs \ {EmptyDocs} : WriteSession(r, u, d)
  <2>1. PICK u \in Session, d \in Docs \ {EmptyDocs} : WriteSession(r, u, d)
    BY <1>2
  <2>2. /\ Free(r) /\ pstate[c.project] \notin Frozen
        /\ IsDraft(c.project, c.snapshot)
    BY <2>1 DEF WriteSession, CheckedOK, StillHolds
  <2>3. CreateUploadSession(r, c.project, u, d)
    BY <1>1, <2>1, <2>2 DEF WriteSession, CreateUploadSession
  <2> QED BY <1>1, <2>1, <2>3 DEF ApiStep
<1>3. CASE WriteFinalize(r)
  <2>1. /\ finalizing[r].stored /\ ApplyFinalize(r)
        /\ upload[finalizing[r].session].project = c.project
        /\ pstate[c.project] \notin Frozen
    BY <1>3 DEF WriteFinalize, CheckedOK, StillHolds
  <2> QED BY <2>1 DEF FinalizeCommit, ApiStep
<1>4. CASE \E f \in Name : WriteDelete(r, f)
  <2>1. PICK f \in Name : WriteDelete(r, f)
    BY <1>4
  <2>2. /\ Free(r) /\ pstate[c.project] \notin Frozen
        /\ IsDraft(c.project, c.snapshot)
        /\ RemoveRow(c.project, c.snapshot, f)
    BY <2>1 DEF WriteDelete, CheckedOK, StillHolds
  <2>3. DeleteFile(r, c.project, f)
    BY <1>1, <2>2 DEF DeleteFile
  <2> QED BY <1>1, <2>3 DEF ApiStep
<1>5. CASE \E b \in Build, k \in Key : WriteSubmit(r, b, k)
  <2>1. PICK b \in Build, k \in Key : WriteSubmit(r, b, k)
    BY <1>5
  <2>2. /\ Free(r) /\ pstate[c.project] \notin Frozen
        /\ IsDraft(c.project, c.snapshot)
        /\ OpenSessions(c.project, c.snapshot) = {}
        /\ docs[c.project][c.snapshot] # EmptyDocs
        /\ generation[c.project] = c.expected
    BY <2>1 DEF WriteSubmit, CheckedOK, StillHolds
  <2>3. SubmitBuild(r, c.project, b, k)
    BY <1>1, <2>1, <2>2 DEF WriteSubmit, SubmitBuild
  <2> QED BY <1>1, <2>3 DEF ApiStep
<1>6. CASE WriteState(r)
  <2>1. /\ c.op \in Target /\ Free(r)
        /\ pstate' = [pstate EXCEPT ![c.project] = c.op]
        /\ UNCHANGED <<active, version, generation, snapshotVars, apiVars, job,
                       worker, run, diskVars>>
        /\ c.op = "archived" => pstate[c.project] \notin Frozen
        /\ c.op \in {"ready", "draft"} => /\ pstate[c.project] = "archived"
                                          /\ c.op = RestoredState(c.project)
    BY <1>6 DEF WriteState, Target, CheckedOK, StillHolds
  <2>2. Archive(r, c.project) \/ Restore(r, c.project)
    BY <2>1 DEF Archive, Restore, Target
  <2> QED BY <1>1, <2>2 DEF ApiStep
<1> QED BY <1>2, <1>3, <1>4, <1>5, <1>6 DEF WriteStep

-----------------------------------------------------------------------------

AutoInv ==
  /\ AutoTypeInv
  /\ ~overtaken => IInv
  /\ CheckedStillHolds

(* The compare-and-set fails only where a handler was overtaken.           *)
LEMMA NoConflict == IInv => ~CompleteConflict
  BY BusyBuild DEF CompleteConflict, MayActivate, Busy

(* As long as none was, the variant does what ProjectBuilds does.          *)
LEMMA AutoIsLocked ==
  ASSUME AutoInv, [AutoNext]_autoVars, ~overtaken
  PROVE  [Next]_vars
<1> USE DEF AutoInv
<1>1. ASSUME NEW r \in Request, ReadStep(r)
      PROVE  [Next]_vars
  BY <1>1, ReadType
<1>2. ASSUME NEW r \in Request, WriteStep(r)
      PROVE  [Next]_vars
  BY <1>2, WriteIsLocked DEF CheckedStillHolds, Next
<1>3. ASSUME NEW r \in Request, RollBack(r)
      PROVE  [Next]_vars
  BY <1>3 DEF RollBack
<1>4. CASE OtherStep
  BY <1>4, OtherIsNext
<1>5. CASE CompleteConflict
  BY <1>5, NoConflict
<1>6. CASE UNCHANGED autoVars
  BY <1>6 DEF autoVars
<1> QED BY <1>1, <1>2, <1>3, <1>4, <1>5, <1>6 DEF AutoNext, OtherStep

LEMMA CheckedStep ==
  ASSUME AutoInv, [AutoNext]_autoVars
  PROVE  CheckedStillHolds'
<1> USE DEF AutoInv
<1>1. SUFFICES ASSUME ~overtaken', NEW q \in Request
               PROVE  StillHolds(q)'
  BY DEF CheckedStillHolds
<1>2. ~overtaken
  BY <1>1 DEF AutoNext, autoVars, ReadStep, ReadForSession, ReadForDelete,
              ReadForSubmit, ReadForState, ReadForFinalize, WriteStep,
              WriteSession, WriteFinalize, WriteDelete, WriteSubmit, WriteState,
              Written, RollBack
<1>3. IInv /\ StillHolds(q)
  BY <1>2 DEF CheckedStillHolds
<1>4. checked[q].project \in Project
  BY DEF AutoTypeInv, CheckedRow
<1>5. ASSUME checked'[q] = Nothing
      PROVE  StillHolds(q)'
  BY <1>5, NothingType DEF StillHolds
<1>6. ASSUME NEW r \in Request, ReadStep(r)
      PROVE  StillHolds(q)'
  <2>1. /\ UNCHANGED <<pstate, version, generation, status, docs, upload>>
        /\ q # r => checked'[q] = checked[q]
    BY <1>6, ReadType DEF vars, projectVars, snapshotVars
  <2>2. CASE q # r
    <3>1. ProjectKept(checked[q].project)
      BY <2>1 DEF ProjectKept
    <3> QED BY <1>3, <2>1, <2>2, <3>1, StillHoldsKept
  <2>3. CASE q = r
    BY <1>6, <2>1, <2>3, ReadType DEF StillHolds, IsDraft, RestoredState, OpenSessions
  <2> QED BY <2>2, <2>3
<1>7. ASSUME NEW r \in Request, WriteStep(r)
      PROVE  StillHolds(q)'
  <2>1. Written(r)
    BY <1>7, WriteType
  <2>2. checked' = [checked EXCEPT ![r] = Nothing]
    BY <2>1 DEF Written, Dropped
  <2>3. CASE q = r
    BY <1>5, <2>2, <2>3 DEF AutoTypeInv
  <2>4. CASE q # r
    <3>1. checked[q].op # "none" => checked[q].project # checked[r].project
      BY <1>1, <2>1, <2>4 DEF Written
    <3>2. checked[q].op # "none" => ProjectKept(checked[q].project)
      BY <1>4, <1>7, <3>1, WriteKeeps
    <3>3. checked'[q] = checked[q]
      BY <2>2, <2>4
    <3> QED BY <1>3, <3>2, <3>3, StillHoldsKept
  <2> QED BY <2>3, <2>4
<1>8. ASSUME NEW r \in Request, RollBack(r)
      PROVE  StillHolds(q)'
  <2>1. /\ checked' = [checked EXCEPT ![r] = Nothing]
        /\ UNCHANGED <<pstate, version, generation, status, docs, upload>>
    BY <1>8 DEF RollBack, Dropped, vars, projectVars, snapshotVars
  <2>2. ProjectKept(checked[q].project)
    BY <2>1 DEF ProjectKept
  <2>3. checked'[q] = checked[q] \/ checked'[q] = Nothing
    BY <2>1 DEF AutoTypeInv
  <2> QED BY <1>3, <1>5, <2>2, <2>3, StillHoldsKept
<1>9. CASE OtherStep /\ checked' = checked
  <2>1. ASSUME checked[q].op # "none"
        PROVE  ProjectKept(checked[q].project)
    <3>1. checked[q].state = pstate[checked[q].project]
      BY <1>3, <2>1 DEF StillHolds
    <3>2. checked[q].state \notin {"absent", "queued", "building"}
      BY <2>1 DEF AutoTypeInv, CheckedOK, CheckedRow, Frozen, Target
    <3> QED BY <1>3, <1>4, <1>9, <3>1, <3>2, OtherKeeps
  <2> QED BY <1>3, <1>9, <2>1, StillHoldsKept
<1>10. CASE CompleteConflict
  BY <1>3, <1>10, NoConflict
<1>11. CASE UNCHANGED autoVars
  <2>1. /\ checked' = checked
        /\ UNCHANGED <<pstate, version, generation, status, docs, upload>>
    BY <1>11 DEF autoVars, vars, projectVars, snapshotVars
  <2>2. ProjectKept(checked[q].project)
    BY <2>1 DEF ProjectKept
  <2> QED BY <1>3, <2>1, <2>2, StillHoldsKept
<1> QED
  BY <1>6, <1>7, <1>8, <1>9, <1>10, <1>11 DEF AutoNext, OtherStep

LEMMA AutoStep == AutoInv /\ [AutoNext]_autoVars => AutoInv'
<1> SUFFICES ASSUME AutoInv, [AutoNext]_autoVars
             PROVE  AutoInv'
  OBVIOUS
<1>1. AutoTypeInv'
  BY AutoType DEF AutoInv
<1>2. overtaken => overtaken'
  BY DEF AutoNext, autoVars, ReadStep, ReadForSession, ReadForDelete,
         ReadForSubmit, ReadForState, ReadForFinalize, WriteStep,
         WriteSession, WriteFinalize, WriteDelete, WriteSubmit, WriteState,
         Written, RollBack
<1>3. ~overtaken => IInv'
  BY AutoIsLocked, StepInv DEF AutoInv
<1> QED BY <1>1, <1>2, <1>3, CheckedStep DEF AutoInv

LEMMA AutoStart == AutoInit => AutoInv
<1> SUFFICES ASSUME AutoInit PROVE AutoInv
  OBVIOUS
<1>1. TypeInv /\ IInv
  BY InitType, InitInv DEF AutoInit
<1>2. checked \in [Request -> CheckedRow] /\ \A r \in Request : checked[r].op = "none"
  BY NothingType DEF AutoInit
<1>3. CheckedOK /\ FinalizedHasRow
  BY <1>2 DEF AutoInit, Init, NoHandler, CheckedOK, FinalizedHasRow
<1>4. CheckedStillHolds
  BY <1>2 DEF CheckedStillHolds, StillHolds
<1> QED BY <1>1, <1>2, <1>3, <1>4 DEF AutoInv, AutoTypeInv

LEMMA AutoInvCorrect == AutoSpec => []AutoInv
<1> QED BY AutoStart, AutoStep, PTL DEF AutoSpec

(* As long as no handler writes to a project that another has read and not *)
(* yet written, what each has checked still holds when it writes: the      *)
(* worker, the cleanup and the other handlers make no check stale.         *)
THEOREM ChecksHold == AutoSpec => []CheckedStillHolds
<1>1. AutoInv => CheckedStillHolds
  BY DEF AutoInv
<1> QED BY <1>1, AutoInvCorrect, PTL

(* Up to then every step is one that ProjectBuilds takes under its locks,  *)
(* from an initial state of it: splitting the handlers adds no behaviour.  *)
THEOREM LockedUntilOvertaken == AutoSpec => Init /\ [][overtaken \/ Next]_vars
<1>1. AutoInit => Init
  BY DEF AutoInit
<1>2. AutoInv /\ [AutoNext]_autoVars => [overtaken \/ Next]_vars
  BY AutoIsLocked
<1> QED BY <1>1, <1>2, AutoInvCorrect, PTL DEF AutoSpec

(* Up to then the invariants that row locks give hold without them.        *)
THEOREM SafeUntilOvertaken ==
  AutoSpec => [](~overtaken => /\ OneBuildInFlight
                               /\ ProjectStateMatchesJobs
                               /\ OneDraftOrSealed
                               /\ ActiveIsPublished
                               /\ OpenSessionsTargetDraft
                               /\ RowsSettle
                               /\ WorkerHoldsItsBuild)
<1>1. AutoInv => (~overtaken => /\ OneBuildInFlight
                                /\ ProjectStateMatchesJobs
                                /\ OneDraftOrSealed
                                /\ ActiveIsPublished
                                /\ OpenSessionsTargetDraft
                                /\ RowsSettle
                                /\ WorkerHoldsItsBuild)
  BY DEF AutoInv, IInv
<1> QED BY <1>1, AutoInvCorrect, PTL

-----------------------------------------------------------------------------
(* The compare-and-set.                                                    *)

LEMMA AutoCounts ==
  ASSUME AutoTypeInv, CountInv, [AutoNext]_autoVars
  PROVE  CountInv'
<1>1. TypeInv'
  BY AutoType DEF AutoTypeInv
<1>2. ASSUME NEW r \in Request, WriteStep(r)
      PROVE  CountInv'
  <2>1. UNCHANGED <<worker, generation>>
    BY <1>2, WriteType
  <2>2. ASSUME NEW b \in Build, NEW k \in Key, WriteSubmit(r, b, k)
        PROVE  CountInv'
    <3>1. /\ checked[r].project \in Project /\ checked[r].snapshot \in Index
          /\ checked[r].expected \in Nat
      BY DEF AutoTypeInv, CheckedRow
    <3> QED BY <1>1, <2>2, <3>1, EnqueueCounts DEF WriteSubmit
  <2>3. CASE UNCHANGED job
    BY <1>1, <2>1, <2>3, JobsLeftAlone
  <2> QED
    BY <1>2, <2>2, <2>3 DEF WriteStep, WriteSession, WriteFinalize, ApplyFinalize,
                            WriteDelete, RemoveRow, WriteState
<1>3. CASE OtherStep
  BY <1>3, OtherIsNext, CountStep
<1>4. CASE CompleteConflict
  <2>1. UNCHANGED <<job, generation>> /\ worker'.build = worker.build
        /\ worker.phase \in Busy
    BY <1>4 DEF CompleteConflict, FailWith, projectVars, Busy, CountInv, TypeInv,
                TypeOK, WorkerState
  <2> QED BY <1>1, <2>1, JobsLeftAlone
<1>5. CASE UNCHANGED vars
  BY <1>5, CountStep
<1> QED
  BY <1>2, <1>3, <1>4, <1>5, ReadType DEF AutoNext, OtherStep, RollBack, autoVars

(* Even where handlers are overtaken, and builds of one draft are queued   *)
(* twice: no two builds activate on top of the same generation, and each   *)
(* generation was made by one.                                             *)
THEOREM ActivationsCountUnlocked == AutoSpec => []OneActivationPerGeneration
<1>1. AutoInit => CountInv
  BY InitCounts DEF AutoInit
<1>2. CountInv => OneActivationPerGeneration
  BY DEF CountInv, ReadyOK, OneActivationPerGeneration
<1>3. AutoInv => AutoTypeInv
  BY DEF AutoInv
<1> QED BY <1>1, <1>2, <1>3, AutoCounts, AutoInvCorrect, PTL DEF AutoSpec

============================================================================
