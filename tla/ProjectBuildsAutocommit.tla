---------------------- MODULE ProjectBuildsAutocommit ----------------------
(***************************************************************************)
(* ProjectBuilds on SQLite, the default database.  SELECT ... FOR UPDATE   *)
(* locks nothing there, and the driver opens a transaction only at the     *)
(* first INSERT, UPDATE or DELETE: a handler's reads are one step (what it *)
(* has read stays in its session) and its writes, up to the commit, are    *)
(* another.  The worker's transactions stay one step: the rows they read   *)
(* before they write (the job, its snapshot, the generation, the active    *)
(* version) are written by no one but the worker.                          *)
(***************************************************************************)
EXTENDS ProjectBuilds

VARIABLES
  checked,   \* what a handler has read and checked, not yet written
  overtaken  \* history: one wrote while another had read and not yet written

autoVars == <<vars, checked, overtaken>>

(* The states archive and restore write.                                   *)
Target == {"archived", "ready", "draft"}

Nothing == [op |-> "none", project |-> CHOOSE p \in Project : TRUE,
            snapshot |-> 1, expected |-> 0, state |-> "absent"]

Idle(r) == Free(r) /\ checked[r] = Nothing

(* The handler keeps the project, the snapshot and the generation it read. *)
Read(r, op, p, n) ==
  checked' = [checked EXCEPT ![r] =
    [op |-> op, project |-> p, snapshot |-> n, expected |-> generation[p],
     state |-> pstate[p]]]

Dropped(r) == checked' = [checked EXCEPT ![r] = Nothing]

Written(r) ==
  /\ Dropped(r)
  /\ overtaken' = (overtaken \/ \E q \in Request \ {r} :
                     checked[q].op # "none" /\ checked[q].project = checked[r].project)

-----------------------------------------------------------------------------

ReadForSession(r, p) ==
  /\ Idle(r)
  /\ pstate[p] \notin Frozen
  /\ \E n \in Index : IsDraft(p, n) /\ Read(r, "session", p, n)
  /\ UNCHANGED <<vars, overtaken>>

WriteSession(r, u, d) ==
  /\ checked[r].op = "session"
  /\ Cardinality(NamesOf(d)) <= MaxFiles
  /\ upload[u].state = "none"
  /\ upload' = [upload EXCEPT ![u] =
       [state |-> "open", project |-> checked[r].project,
        snapshot |-> checked[r].snapshot, docs |-> d,
        parts |-> "pending", lapsed |-> FALSE]]
  /\ Written(r)
  /\ UNCHANGED <<projectVars, snapshotVars, finalizing, job, worker, run,
                 diskVars>>

ReadForFinalize(r) ==
  /\ finalizing[r].stored
  /\ checked[r] = Nothing
  /\ LET u == finalizing[r].session
     IN /\ pstate[upload[u].project] \notin Frozen
        /\ Read(r, "finalize", upload[u].project, upload[u].snapshot)
  /\ UNCHANGED <<vars, overtaken>>

WriteFinalize(r) ==
  /\ checked[r].op = "finalize"
  /\ ApplyFinalize(r)
  /\ Written(r)

ReadForDelete_Unchecked(r, p) ==
  /\ Idle(r)
  /\ \E n \in Index : Read(r, "delete", p, n)
  /\ UNCHANGED <<vars, overtaken>>

ReadForDelete(r, p) ==
  /\ Idle(r)
  /\ pstate[p] \notin Frozen
  /\ \E n \in Index : IsDraft(p, n) /\ Read(r, "delete", p, n)
  /\ UNCHANGED <<vars, overtaken>>

WriteDelete(r, f) ==
  /\ checked[r].op = "delete"
  /\ RemoveRow(checked[r].project, checked[r].snapshot, f)
  /\ Written(r)

ReadForSubmit(r, p) ==
  /\ Idle(r)
  /\ pstate[p] \notin Frozen
  /\ \E n \in Index :
       /\ IsDraft(p, n)
       /\ OpenSessions(p, n) = {}
       /\ docs[p][n] # EmptyDocs
       /\ Read(r, "submit", p, n)
  /\ UNCHANGED <<vars, overtaken>>

WriteSubmit(r, b, k) ==
  /\ checked[r].op = "submit"
  /\ IsNextBuild(b)
  /\ KeyUnused(checked[r].project, k)
  /\ Enqueue(checked[r].project, checked[r].snapshot, b, k, checked[r].expected)
  /\ Written(r)

(* archive and restore write the state they chose when they read.          *)
ReadForState(r, p) ==
  /\ Idle(r)
  /\ \/ pstate[p] \notin Frozen /\ Read(r, "archived", p, 1)
     \/ pstate[p] = "archived" /\ Read(r, RestoredState(p), p, 1)
  /\ UNCHANGED <<vars, overtaken>>

WriteState(r) ==
  /\ checked[r].op \in Target
  /\ pstate' = [pstate EXCEPT ![checked[r].project] = checked[r].op]
  /\ Written(r)
  /\ UNCHANGED <<active, version, generation, snapshotVars, apiVars, job,
                 worker, run, diskVars>>

(* A handler that finds no row to write, violates the unique key, or whose *)
(* process stops, is rolled back.                                          *)
RollBack(r) ==
  /\ checked[r] # Nothing
  /\ Dropped(r)
  /\ UNCHANGED <<vars, overtaken>>

(* complete_build, when another build was activated since this one was     *)
(* submitted.                                                              *)
CompleteConflict ==
  /\ worker.phase = "completing"
  /\ ~MayActivate(worker.build)
  /\ worker' = FailWith("stale_generation")
  /\ UNCHANGED <<projectVars, snapshotVars, apiVars, job, run, diskVars>>

-----------------------------------------------------------------------------

AutoInit ==
  /\ Init
  /\ checked = [r \in Request |-> Nothing]
  /\ overtaken = FALSE

ReadStep(r) ==
  \/ \E p \in Project : \/ ReadForSession(r, p)
                        \/ ReadForDelete(r, p)
                        \/ ReadForSubmit(r, p)
                        \/ ReadForState(r, p)
  \/ ReadForFinalize(r)

WriteStep(r) ==
  \/ \E u \in Session, d \in Docs \ {EmptyDocs} : WriteSession(r, u, d)
  \/ WriteFinalize(r)
  \/ \E f \in Name : WriteDelete(r, f)
  \/ \E b \in Build, k \in Key : WriteSubmit(r, b, k)
  \/ WriteState(r)

(* The handlers that do not check a project before they write.             *)
UncheckedStep(r) ==
  /\ checked[r] = Nothing
  /\ \/ \E p \in Project : CreateProject(r, p)
     \/ \E u \in Session : StartReceiving(r, u) \/ FinalizeValidate(r, u)
     \/ FinalizeStore(r)
     \/ FinalizeAbort(r)

AutoNext ==
  \/ \E r \in Request : ReadStep(r) \/ WriteStep(r) \/ RollBack(r)
  \/ /\ \/ \E r \in Request : UncheckedStep(r)
        \/ BackgroundStep \/ WorkerStep \/ CompleteConflict \/ BuildRaises \/ Crash
     /\ UNCHANGED <<checked, overtaken>>

AutoSpec == AutoInit /\ [][AutoNext]_autoVars

-----------------------------------------------------------------------------

StillHolds(r) ==
  LET c == checked[r]
      p == c.project
      n == c.snapshot
  IN  c.op # "none" =>
        /\ pstate[p] = c.state
        /\ c.op \in {"session", "delete", "submit"} => IsDraft(p, n)
        /\ c.op \in {"ready", "draft"} => c.op = RestoredState(p)
        /\ c.op = "submit" => /\ OpenSessions(p, n) = {}
                              /\ docs[p][n] # EmptyDocs
                              /\ generation[p] = c.expected

(* As long as no handler writes to a project between the reading and the   *)
(* writing of another, what one has checked still holds when it writes:    *)
(* the state of the project, the draft it will write to, whether a version *)
(* was active, and, for a submission, that the draft has files, no open    *)
(* session and the generation it was read with.  So nothing else makes a   *)
(* check stale: not the worker, which claims, completes, fails and         *)
(* requeues meanwhile, nor the cleanup, nor an upload that is received.    *)
CheckedStillHolds == ~overtaken => \A r \in Request : StillHolds(r)

============================================================================
