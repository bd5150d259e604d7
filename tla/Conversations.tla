---------------------------- MODULE Conversations ----------------------------
(***************************************************************************)
(* The SQL conversation store and the message endpoint over it: a request  *)
(* takes the lease of its conversation, appends the question, streams the  *)
(* answer of the agent, appends it and gives the lease back.  A handler    *)
(* that reads a row, decides and then writes is two steps; a conditional   *)
(* UPDATE or DELETE is one.  Leases lapse, deadlines strike, clients go,   *)
(* the database raises and the process dies at any point in between.       *)
(***************************************************************************)
EXTENDS Naturals, Sequences, FiniteSets

CONSTANTS
  Conversation, Request, RequestId, \* RequestId: values of X-Request-ID
  Editor,        \* handlers that rename, archive, restore or purge
  None,
  MaxTurns,      \* exchanges that are kept
  ForeignKeys    \* every connection to the database enforces them

ASSUME ConversationAssumption ==
  /\ None \notin Conversation \cup Request \cup RequestId
  /\ MaxTurns \in Nat \ {0} /\ ForeignKeys \in BOOLEAN

VARIABLES
  conv,      \* ConversationRow: state, name and lease of each conversation
  rows,      \* MessageRows of each conversation, by ordinal, then row id
  req,       \* what the handler of each request is doing
  edit,      \* what the handler of each editor has checked
  disturbed  \* history: which things that void a lease have happened

vars == <<conv, rows, req, edit, disturbed>>

(* A conversation that is deleted is gone, with its messages or with some  *)
(* of them left behind.                                                    *)
ConversationRow == [state: {"none", "active", "archived", "gone", "left"},
                    name: {"new", "derived", "given"},
                    holder: RequestId \cup {None}, live: BOOLEAN]

MessageRow == [by: Request, role: {"user", "assistant"},
               status: {"completed", "failed"}, ordinal: Nat \ {0}]

(* The handler is in a phase of send_message, of _append or of events().   *)
Opening == {"idle", "scoped", "held"}
Appending == {"reading", "writing", "pruning"}
Phase == Opening \cup Appending \cup {"streaming", "releasing", "done"}

Handler ==
  [phase: Phase, conv: Conversation \cup {None}, id: RequestId \cup {None},
   task: {"none", "user", "answer", "interrupted"}, \* the message to append
   last: Nat, fresh: BOOLEAN,                 \* what _append has read
   event: {"none", "completed", "failed"},    \* the latest terminal event
   terminal: BOOLEAN]                         \* events() has persisted it

Operation == {"none", "rename", "archive", "restore", "purge"}

IdleHandler ==
  [phase |-> "idle", conv |-> None, id |-> None, task |-> "none",
   last |-> 0, fresh |-> FALSE, event |-> "none", terminal |-> FALSE]

NoEdit == [op |-> "none", conv |-> None, loaded |-> {}]

(* From the acquisition of the lease to its release.                       *)
Holding(r) == req[r].phase \notin {"idle", "scoped", "done"}

Exists(c) == conv[c].state \in {"active", "archived"}

(* _aware(lease_expires_at) > now, for a lease that has a holder.          *)
LiveLease(c) == conv[c].live

LastOrdinal_Count(c) == Len(rows[c])

LastOrdinal(c) ==
  LET ordinals == {rows[c][i].ordinal : i \in DOMAIN rows[c]}
  IN  IF ordinals = {} THEN 0
      ELSE CHOOSE n \in ordinals : \A k \in ordinals : k <= n

(* ORDER BY ordinal: a row goes behind those of its own ordinal.           *)
Inserted(s, m) ==
  LET k == Cardinality({i \in DOMAIN s : s[i].ordinal <= m.ordinal})
  IN  SubSeq(s, 1, k) \o <<m>> \o SubSeq(s, k + 1, Len(s))

Store == INSTANCE ConversationStore WITH
  Author <- Request,
  item <- [c \in Conversation |->
    [state |-> IF conv[c].state = "left" THEN "gone" ELSE conv[c].state,
     name |-> conv[c].name,
     messages |-> IF ~Exists(c) THEN <<>>
                  ELSE [i \in DOMAIN rows[c] |->
                          [by |-> rows[c][i].by, role |-> rows[c][i].role,
                           status |-> rows[c][i].status]]]],
  lease <- [c \in Conversation |->
    [holder |-> conv[c].holder, live |-> conv[c].live]]

------------------------------------------------------------------------------

NewRow(state) ==
  [state |-> state, name |-> "new", holder |-> None, live |-> FALSE]

Init ==
  /\ conv = [c \in Conversation |-> NewRow("none")]
  /\ rows = [c \in Conversation |-> <<>>]
  /\ req = [r \in Request |-> IdleHandler]
  /\ edit = [e \in Editor |-> NoEdit]
  /\ disturbed = {}

Create(c) ==
  /\ conv[c].state = "none"
  /\ conv' = [conv EXCEPT ![c] = NewRow("active")]
  /\ UNCHANGED <<rows, req, edit, disturbed>>

(***************************************************************************)
(* A conversation is deleted, and with it the messages that have been      *)
(* loaded.  The others go by the cascade of their foreign key, which       *)
(* SQLite leaves out on a connection without PRAGMA foreign_keys, and      *)
(* initialize() sets it on one connection of the pool.                     *)
(***************************************************************************)
Without(s, gone) == Store!Kept(s, {i \in 1..Len(s) : s[i] \notin gone})

Delete(c, loaded) ==
  \E cascades \in {TRUE, ForeignKeys} :
    /\ conv' = [conv EXCEPT ![c] = NewRow(IF cascades THEN "gone" ELSE "left")]
    /\ rows' = [rows EXCEPT ![c] = IF cascades THEN <<>> ELSE Without(@, loaded)]

(***************************************************************************)
(* rename, archive, restore and purge: the row is selected and checked ... *)
(***************************************************************************)
CheckHolds_IgnoringLease(op, c) ==
  conv[c].state = IF op \in {"rename", "archive"} THEN "active" ELSE "archived"

CheckHolds(op, c) ==
  /\ conv[c].state = IF op \in {"rename", "archive"} THEN "active"
                                                    ELSE "archived"
  /\ ~LiveLease(c)

CheckEdit(e, op, c) ==
  /\ edit[e] = NoEdit /\ op # "none"
  /\ CheckHolds(op, c)
  /\ edit' = [edit EXCEPT ![e] =
       [op |-> op, conv |-> c,
        loaded |-> IF op = "purge" THEN {rows[c][i] : i \in DOMAIN rows[c]} ELSE {}]]
  /\ UNCHANGED <<conv, rows, req, disturbed>>

(* ... and written by its primary key, whatever has become of the check.   *)
WriteEdit(e) ==
  LET op == edit[e].op
      c == edit[e].conv
  IN
  /\ op # "none"
  /\ edit' = [edit EXCEPT ![e] = NoEdit]
  /\ IF ~Exists(c) THEN UNCHANGED <<conv, rows, disturbed>> \* StaleDataError
     ELSE
     /\ IF op = "purge" THEN Delete(c, edit[e].loaded)
        ELSE /\ conv' = [conv EXCEPT ![c] =
                  CASE op = "rename" -> [@ EXCEPT !.name = "given"]
                    [] op = "archive" -> [@ EXCEPT !.state = "archived"]
                    [] op = "restore" -> [@ EXCEPT !.state = "active"]]
             /\ UNCHANGED rows
     /\ disturbed' = IF CheckHolds(op, c) THEN disturbed
                     ELSE disturbed \cup {"overtaken"}
  /\ UNCHANGED req

(* DELETE ... WHERE archived_at < cutoff, or of a project.                 *)
Remove_KeepingMessages(c) ==
  /\ conv' = [conv EXCEPT ![c] = NewRow("gone")]
  /\ UNCHANGED <<rows, req, edit, disturbed>>

Remove(c) == Delete(c, {}) /\ UNCHANGED <<req, edit, disturbed>>

Cleanup(c) == conv[c].state = "archived" /\ Remove(c)

DeleteProject(c) == Exists(c) /\ Remove(c)

(* The clock passes lease_expires_at.                                      *)
LeaseLapses(c) ==
  /\ conv[c].live
  /\ conv' = [conv EXCEPT ![c].live = FALSE]
  /\ disturbed' =
       IF \E r \in Request : Holding(r) /\ req[r].conv = c
       THEN disturbed \cup {"lapsed"} ELSE disturbed
  /\ UNCHANGED <<rows, req, edit>>

------------------------------------------------------------------------------
(* The handler of a request.                                               *)

Step(r, h) == req' = [req EXCEPT ![r] = h]

(* The locals die with the handler.                                        *)
Done == [IdleHandler EXCEPT !.phase = "done"]

(* get_scope finds the conversation active.                                *)
GetScope(r, c, id) ==
  /\ req[r].phase = "idle" /\ conv[c].state = "active"
  /\ Step(r, [req[r] EXCEPT !.phase = "scoped", !.conv = c, !.id = id])
  /\ UNCHANGED <<conv, rows, edit, disturbed>>

(* access_decision denies the project, or the project is archived.         *)
DenyAccess(r) ==
  /\ req[r].phase = "scoped"
  /\ Step(r, Done)
  /\ UNCHANGED <<conv, rows, edit, disturbed>>

(* One UPDATE: the lease is free, lapsed, or carries the request's own id, *)
(* which another request may have sent as well.                            *)
MayAcquire_IgnoringLease(c, id) == conv[c].state = "active"

MayAcquire(c, id) ==
  /\ conv[c].state = "active"
  /\ conv[c].holder = id \/ ~LiveLease(c)

AcquireRequest(r) ==
  LET c == req[r].conv
      id == req[r].id
      sharing == \E q \in Request \ {r} :
                   Holding(q) /\ req[q].conv = c /\ req[q].id = id
  IN
  /\ req[r].phase = "scoped"
  /\ IF MayAcquire(c, id)
     THEN /\ conv' = [conv EXCEPT ![c].holder = id, ![c].live = TRUE]
          /\ Step(r, [req[r] EXCEPT !.phase = "held"])
          /\ disturbed' = IF sharing THEN disturbed \cup {"shared"}
                          ELSE disturbed
     ELSE /\ Step(r, Done)
          /\ UNCHANGED <<conv, disturbed>>
  /\ UNCHANGED <<rows, edit>>

(* get_history, or ConversationNotFound and the lease given back.          *)
GetHistory(r) ==
  /\ req[r].phase = "held"
  /\ Step(r, IF conv[req[r].conv].state = "active"
             THEN [req[r] EXCEPT !.phase = "reading", !.task = "user"]
             ELSE [req[r] EXCEPT !.phase = "releasing"])
  /\ UNCHANGED <<conv, rows, edit, disturbed>>

(* The finally block of events(): unless the end of the answer has been    *)
(* persisted, "The response stream was interrupted." is appended.          *)
Finally(h) ==
  LET left == [h EXCEPT !.last = 0, !.fresh = FALSE, !.event = "none",
                        !.terminal = FALSE]
  IN  IF h.terminal THEN [left EXCEPT !.phase = "releasing", !.task = "none"]
                    ELSE [left EXCEPT !.phase = "reading", !.task = "interrupted"]

(* Where an exception of the store takes a handler: the question is given  *)
(* up, the stream is ended, and in the finally block what follows is lost, *)
(* the release of the lease included.                                      *)
Raised(h) ==
  CASE h.task = "answer" /\ h.phase \in Appending -> Finally(h)
    [] h.task = "user" /\ h.phase \in Appending ->
         [h EXCEPT !.phase = "releasing", !.last = 0, !.fresh = FALSE]
    [] OTHER -> Done

(* _append selects the conversation and the greatest ordinal ...           *)
ReadForAppend(r) ==
  LET c == req[r].conv IN
  /\ req[r].phase = "reading"
  /\ Step(r, IF conv[c].state = "active"
             THEN [req[r] EXCEPT !.phase = "writing", !.last = LastOrdinal(c),
                                 !.fresh = conv[c].name = "new"]
             ELSE Raised(req[r]))
  /\ UNCHANGED <<conv, rows, edit, disturbed>>

(* ... and inserts the next ordinal; the update of a conversation that is  *)
(* gone raises StaleDataError and takes the insertion back.                *)
NewMessage(h, r) ==
  [by |-> r, role |-> IF h.task = "user" THEN "user" ELSE "assistant",
   status |-> IF h.task = "interrupted" \/ (h.task = "answer" /\ h.event = "failed")
              THEN "failed" ELSE "completed",
   ordinal |-> h.last + 1]

Appended(h) ==
  LET read == [h EXCEPT !.last = 0, !.fresh = FALSE] IN
  IF h.task = "user" THEN [read EXCEPT !.phase = "streaming", !.task = "none"]
                     ELSE [read EXCEPT !.phase = "pruning"]

WriteForAppend(r) ==
  LET c == req[r].conv
      derives == req[r].task = "user" /\ req[r].fresh
      overtaken == \/ conv[c].state # "active" \/ LastOrdinal(c) # req[r].last
                   \/ (derives /\ conv[c].name # "new")
  IN
  /\ req[r].phase = "writing"
  /\ IF Exists(c)
     THEN /\ rows' = [rows EXCEPT ![c] = Inserted(@, NewMessage(req[r], r))]
          /\ conv' = IF derives THEN [conv EXCEPT ![c].name = "derived"] ELSE conv
          /\ disturbed' = IF overtaken THEN disturbed \cup {"overtaken"}
                          ELSE disturbed
          /\ Step(r, Appended(req[r]))
     ELSE /\ Step(r, Raised(req[r]))
          /\ UNCHANGED <<conv, rows, disturbed>>
  /\ UNCHANGED edit

(* add_assistant_message prunes; an answer that got here is the stream's.  *)
Prune(r) ==
  /\ req[r].phase = "pruning"
  /\ rows' = [rows EXCEPT ![req[r].conv] = Store!Pruned(@)]
  /\ Step(r, IF req[r].task = "answer"
             THEN [req[r] EXCEPT !.phase = "streaming", !.terminal = TRUE,
                                 !.task = "none"]
             ELSE [req[r] EXCEPT !.phase = "releasing", !.task = "none"])
  /\ UNCHANGED <<conv, edit, disturbed>>

(* The agent yields a terminal event and _persist_terminal appends it; the *)
(* events before it change nothing here.  Only its deadline makes an agent *)
(* that has completed yield another one.                                   *)
Receive(h, event) ==
  [h EXCEPT !.phase = "reading", !.task = "answer", !.event = event]

Generate(r, event) ==
  /\ req[r].phase = "streaming" /\ req[r].event = "none"
  /\ Step(r, Receive(req[r], event))
  /\ UNCHANGED <<conv, rows, edit, disturbed>>

EndStream(r) ==
  /\ req[r].phase = "streaming" /\ req[r].event # "none"
  /\ Step(r, Finally(req[r]))
  /\ UNCHANGED <<conv, rows, edit, disturbed>>

InStream(r) ==
  \/ req[r].phase = "streaming"
  \/ req[r].phase \in Appending /\ req[r].task = "answer"

(* asyncio.timeout cancels the task wherever it is.  While the agent runs, *)
(* the agent turns that into message.failed; while events() appends or the *)
(* response is sending, it ends the stream.                                *)
Deadline(r) ==
  /\ InStream(r) /\ req[r].event # "failed"
  /\ \/ /\ req[r].phase = "streaming"
        /\ Step(r, Receive(req[r], "failed"))
     \/ Step(r, Finally(req[r]))
  /\ UNCHANGED <<conv, rows, edit, disturbed>>

(* The client goes: is_disconnected, or the response's scope is cancelled. *)
Disconnect(r) ==
  /\ InStream(r)
  /\ Step(r, Finally(req[r]))
  /\ UNCHANGED <<conv, rows, edit, disturbed>>

(* A database error, or an await in a scope that is already cancelled: the *)
(* finally block of a client that has gone runs in one.                    *)
StoreRaises(r) ==
  /\ req[r].phase \in Appending \cup {"releasing"}
  /\ Step(r, Raised(req[r]))
  /\ UNCHANGED <<conv, rows, edit, disturbed>>

(* One UPDATE: only the holder's own lease is given back.                  *)
ReleaseRequest_AnyHolder(r) ==
  LET c == req[r].conv IN
  /\ req[r].phase = "releasing"
  /\ conv' = IF Exists(c)
             THEN [conv EXCEPT ![c].holder = None, ![c].live = FALSE] ELSE conv
  /\ Step(r, Done)
  /\ UNCHANGED <<rows, edit, disturbed>>

ReleaseRequest(r) ==
  LET c == req[r].conv IN
  /\ req[r].phase = "releasing"
  /\ conv' = IF Exists(c) /\ conv[c].holder = req[r].id
             THEN [conv EXCEPT ![c].holder = None, ![c].live = FALSE] ELSE conv
  /\ Step(r, Done)
  /\ UNCHANGED <<rows, edit, disturbed>>

(* The process dies; rows and leases stay.                                 *)
Crash ==
  /\ req' = [r \in Request |-> IF Holding(r) \/ req[r].phase = "scoped"
                               THEN Done ELSE req[r]]
  /\ edit' = [e \in Editor |-> NoEdit]
  /\ UNCHANGED <<conv, rows, disturbed>>

Proceed(r) ==
  \/ AcquireRequest(r) \/ GetHistory(r) \/ ReadForAppend(r)
  \/ WriteForAppend(r) \/ Prune(r) \/ EndStream(r) \/ ReleaseRequest(r)

Next ==
  \/ \E c \in Conversation :
       \/ Create(c) \/ Cleanup(c) \/ DeleteProject(c) \/ LeaseLapses(c)
       \/ \E r \in Request, id \in RequestId : GetScope(r, c, id)
       \/ \E e \in Editor, op \in Operation : CheckEdit(e, op, c)
  \/ \E e \in Editor : WriteEdit(e)
  \/ \E r \in Request :
       \/ Proceed(r) \/ DenyAccess(r) \/ Deadline(r) \/ Disconnect(r)
       \/ StoreRaises(r)
       \/ \E event \in {"completed", "failed"} : Generate(r, event)
  \/ Crash

Spec == Init /\ [][Next]_vars

------------------------------------------------------------------------------
(* Properties.                                                             *)

(* The types of the rows and of the handlers' locals.                      *)
TypeOK ==
  /\ conv \in [Conversation -> ConversationRow]
  /\ rows \in [Conversation -> Seq(MessageRow)]
  /\ req \in [Request -> Handler]
  /\ edit \in [Editor -> [op: Operation, conv: Conversation \cup {None},
                          loaded: SUBSET MessageRow]]
  /\ disturbed \subseteq {"lapsed", "shared", "overtaken"}

Undisturbed == disturbed \cap {"lapsed", "shared"} = {}

(* Between acquire_request and release_request a request is alone with its *)
(* conversation, unless a lease lapsed under a request that was running or *)
(* two requests came with the same X-Request-ID.                           *)
OneWriter ==
  Undisturbed =>
    \A r, q \in Request :
      Holding(r) /\ Holding(q) /\ req[r].conv = req[q].conv => r = q

(* Without those two, no ordinal is used twice, although _append locks     *)
(* nothing, and every exchange that get_history hands to the agent and     *)
(* _prune drops is a question and the answer to that question.             *)
ExchangesWhole ==
  Undisturbed =>
    \A c \in Conversation : Exists(c) =>
      /\ \A i, j \in DOMAIN rows[c] :
           rows[c][i].ordinal = rows[c][j].ordinal => i = j
      /\ \A x \in Store!CompleteExchanges(rows[c]) :
           rows[c][x[1]].by = rows[c][x[2]].by

(* No message outlives a conversation whose deletion took the messages     *)
(* along, which every deletion does where foreign keys are enforced: an    *)
(* append that was decided before a cleanup, a purge or the deletion of    *)
(* the project is taken back.                                              *)
NoOrphans ==
  \A c \in Conversation :
    ~Exists(c) /\ (ForeignKeys \/ conv[c].state # "left") => rows[c] = <<>>

(* A live lease ends by lapsing, with its conversation, or by the release  *)
(* of a request that carries its id: a late request that has lost its own  *)
(* lease does not give back that of its successor.                         *)
ReleaseFreesOwn ==
  [][\A c \in Conversation :
       LiveLease(c) /\ Exists(c)' /\ conv'[c].holder # conv[c].holder =>
         \E r \in Request :
           /\ req[r].phase = "releasing" /\ req'[r].phase = "done"
           /\ req[r].conv = c /\ req[r].id = conv[c].holder]_vars

(* Every step of the SQL store is an operation of the store that runs them *)
(* one at a time, unless a decision was overtaken before it was written.   *)
ImplementsStore ==
  /\ Store!Init
  /\ [][UNCHANGED <<conv, rows>> \/ "overtaken" \in disturbed' \/ Store!Next
       ]_(Store!vars)

==============================================================================
