---------------------------- MODULE ProjectAccess ----------------------------
(***************************************************************************)
(* Who may do what with a project: memberships, access requests, and the   *)
(* end of an archived project.  A handler authorizes its caller in one     *)
(* transaction and acts in another, which reads, decides and then writes;  *)
(* each is a step here.  With RowLocks (PostgreSQL) SELECT ... FOR UPDATE  *)
(* keeps others from a row between the reading and the writing; without    *)
(* (SQLite, the default) it does nothing.  One project, of one tenant.     *)
(***************************************************************************)
EXTENDS Naturals

CONSTANTS
  User, Group,   \* principals of the project's tenant
  GroupsOf,      \* the directory groups of each user
  Admin,         \* users with the realm role admin
  Handler,       \* HTTP handlers
  Request,       \* ids of access requests
  Granted,       \* the roles that adding and approving may give
  RowLocks,      \* with_for_update() locks the row
  None

Principal == User \cup Group

ASSUME AccessAssumption ==
  /\ GroupsOf \in [User -> SUBSET Group] /\ Admin \subseteq User
  /\ User \cap Group = {} /\ None \notin Principal \cup Request
  /\ Granted \subseteq {"viewer", "contributor", "manager"}
  /\ RowLocks \in BOOLEAN

VARIABLES
  project,   \* ProjectRow, and how long it has been archived
  member,    \* ProjectMembershipRows: the role of each principal
  request,   \* AccessRequestRows
  op,        \* what each handler is doing, and what it has read
  content,   \* what the project keeps elsewhere: conversations and files
  purge,     \* where the retention loop and an administrator's purge are
  crossed    \* history: what two transactions at once have brought about

vars == <<project, member, request, op, content, purge, crossed>>

Role == {"viewer", "contributor", "manager", "owner"}

Rank ==
  [none |-> 0, viewer |-> 1, contributor |-> 2, manager |-> 3, owner |-> 4]

AtLeast(role, minimum) == Rank[role] >= Rank[minimum]

AccessRequestRow == [by: User \cup {None},
                     status: {"none", "pending", "approved", "denied", "cancelled"}]

(* A handler is authorized, then has looked (remove_member lists the       *)
(* members), then has checked what it is about to write.                   *)
Operation ==
  [kind: {"none", "add", "update", "remove", "request", "decide", "cancel",
          "archive", "restore"},
   phase: {"idle", "authorized", "looked", "checked"},
   who: Principal \cup {None}, q: Request \cup {None},
   role: Role \cup {"none", "denied"}, \* the role, or the decision, asked for
   owner: BOOLEAN,                     \* the caller's effective role is owner
   read: Role \cup {"none"}]           \* the role that the row had when read

Idle == [kind |-> "none", phase |-> "idle", who |-> None, q |-> None,
         role |-> "none", owner |-> FALSE, read |-> "none"]

Purger == {"loop", "admin"}

Owners == {p \in Principal : member[p] = "owner"}

Exists == project \in {"open", "archived", "expired"}

(* access_decision: the highest of the user's own and the groups' roles.   *)
EffectiveAtLeast(u, minimum) ==
  \E p \in {u} \cup GroupsOf[u] : AtLeast(member[p], minimum)

(* _govern_access: an administrator of the tenant counts as an owner.      *)
MayGovern(u) == u \in Admin \/ EffectiveAtLeast(u, "manager")

ActsAsOwner(u) == u \in Admin \/ EffectiveAtLeast(u, "owner")

At(h, kind, phase) == op[h].kind = kind /\ op[h].phase = phase

(* The handler has read the request and is about to write it.              *)
Deciding(h, q) ==
  op[h].q = q /\ (At(h, "decide", "checked") \/ At(h, "cancel", "checked"))

(* Rows that a transaction in progress has locked.                         *)
RowFree(p, h) ==
  RowLocks => \A k \in Handler \ {h} :
                ~(op[k].who = p /\ op[k].phase = "checked"
                    /\ op[k].kind \in {"update", "remove"})

RequestFree(q, h) ==
  RowLocks => \A k \in Handler \ {h} :
                ~Deciding(k, q)

------------------------------------------------------------------------------

Init ==
  /\ project = "none"
  /\ member = [p \in Principal |-> "none"]
  /\ request = [q \in Request |-> [by |-> None, status |-> "none"]]
  /\ op = [h \in Handler |-> Idle]
  /\ content = {}
  /\ purge = [x \in Purger |-> "waiting"]
  /\ crossed = {}

(* create_project; documents and conversations follow.                     *)
CreateProject(u) ==
  /\ project = "none"
  /\ project' = "open"
  /\ member' = [member EXCEPT ![u] = "owner"]
  /\ content' = {"conversations", "files"}
  /\ UNCHANGED <<request, op, purge>>

Start(h, u, o) ==
  /\ op[h] = Idle /\ Exists
  /\ op' = [op EXCEPT ![h] = o]
  /\ UNCHANGED <<project, member, request, content, purge>>

StartAdd(h, u, p, role) ==
  /\ MayGovern(u) /\ role \in Granted
  /\ Start(h, u, [Idle EXCEPT !.kind = "add", !.phase = "authorized",
                              !.who = p, !.role = role])

(* Only owners appoint owners.                                             *)
StartUpdate(h, u, p, role) ==
  /\ MayGovern(u) /\ role \in Granted \cup {"owner"}
  /\ role = "owner" => ActsAsOwner(u)
  /\ member[p] # "none"
  /\ Start(h, u, [Idle EXCEPT !.kind = "update", !.phase = "authorized",
                              !.who = p, !.role = role])

StartRemove(h, u, p) ==
  /\ MayGovern(u) /\ member[p] # "none"
  /\ Start(h, u, [Idle EXCEPT !.kind = "remove", !.phase = "authorized",
                              !.who = p, !.owner = ActsAsOwner(u)])

(* Members cannot request access.                                          *)
StartRequest(h, u) ==
  /\ ~EffectiveAtLeast(u, "viewer")
  /\ Start(h, u, [Idle EXCEPT !.kind = "request", !.phase = "authorized",
                              !.who = u])

StartDecide(h, u, q, decision) ==
  /\ MayGovern(u) /\ decision \in Granted \cup {"denied"}
  /\ request[q].status # "none"
  /\ Start(h, u, [Idle EXCEPT !.kind = "decide", !.phase = "authorized",
                              !.who = request[q].by, !.q = q,
                              !.role = decision])

StartRetention(h, u, kind) ==
  /\ ActsAsOwner(u) /\ kind \in {"archive", "restore"}
  /\ Start(h, u, [Idle EXCEPT !.kind = kind, !.phase = "authorized"])

(* The handler ends; operations on the rows in gone, by id, find them no   *)
(* more (not found, or StaleDataError when they were read before).         *)
Reads(o, gone) ==
  o.who \in gone /\ (o.kind \in {"update", "remove"}
                       \/ (o.kind = "decide" /\ o.read # "none"
                             /\ o.read \notin {"owner", o.role}))

Finish(h, gone) ==
  op' = [k \in Handler |-> IF k = h \/ Reads(op[k], gone) THEN Idle ELSE op[k]]

Refuse(h) ==
  /\ Finish(h, {})
  /\ UNCHANGED <<project, member, request, content, purge>>

Continue(h, phase, read) ==
  /\ op' = [op EXCEPT ![h].phase = phase, ![h].read = read, ![h].owner = FALSE]
  /\ UNCHANGED <<project, member, request, content, purge>>

(* One transaction behind the project's row lock; the row of a principal   *)
(* that has a role keeps it.                                               *)
AddMembership(h) ==
  LET p == op[h].who IN
  /\ At(h, "add", "authorized")
  /\ Finish(h, {})
  /\ member' = IF Exists /\ member[p] = "none"
               THEN [member EXCEPT ![p] = op[h].role] ELSE member
  /\ UNCHANGED <<project, request, content, purge>>

(* remove_member: only owners remove owners, by what the list says.        *)
ListMembers(h) ==
  /\ At(h, "remove", "authorized")
  /\ IF member[op[h].who] = "owner" /\ ~op[h].owner
     THEN Refuse(h) ELSE Continue(h, "looked", "none")

(* The final owner is neither demoted nor removed.                         *)
TakesFinalOwner_Never(o) == FALSE

TakesFinalOwner(o) == Owners = {o.who} /\ o.role # "owner"

CheckMembership(h) ==
  LET p == op[h].who IN
  /\ At(h, "update", "authorized") \/ At(h, "remove", "looked")
  /\ RowFree(p, h)
  /\ IF (op[h].role = "owner" /\ p \in Group) \/ TakesFinalOwner(op[h])
     THEN Refuse(h) ELSE Continue(h, "checked", member[p])

(* row.role = role writes only what differs from what was read.            *)
WriteRole(h) ==
  /\ At(h, "update", "checked")
  /\ member' = IF op[h].read = op[h].role THEN member
               ELSE [member EXCEPT ![op[h].who] = op[h].role]
  /\ Finish(h, {})
  /\ UNCHANGED <<project, request, content, purge>>

DeleteRow(h) ==
  /\ At(h, "remove", "checked")
  /\ member' = [member EXCEPT ![op[h].who] = "none"]
  /\ Finish(h, {op[h].who})
  /\ UNCHANGED <<project, request, content, purge>>

(* create_access_request looks for a pending one, and inserts.             *)
FindPending(h) ==
  /\ At(h, "request", "authorized")
  /\ IF project # "open" \/ (\E q \in Request :
          request[q] = [by |-> op[h].who, status |-> "pending"])
     THEN Refuse(h) ELSE Continue(h, "checked", "none")

CreateAccessRequest(h, q) ==
  /\ At(h, "request", "checked") /\ request[q].status = "none" /\ Exists
  /\ request' = [request EXCEPT ![q] = [by |-> op[h].who, status |-> "pending"]]
  /\ Finish(h, {})
  /\ UNCHANGED <<project, member, content, purge>>

(* decide_access_request reads the request and the requester's row ...     *)
CheckPending_Always(q) == request[q].status # "none"

CheckPending(q) == request[q].status = "pending"

ReadRequest(h) ==
  /\ At(h, "decide", "authorized")
  /\ RequestFree(op[h].q, h)
  /\ IF CheckPending(op[h].q) THEN Continue(h, "checked", member[op[h].who])
                              ELSE Refuse(h)

(* An approval changes the role that was read: an owner keeps it.          *)
ChangesRole(o) == o.role # "denied" /\ o.read \notin {"none", "owner", o.role}

(* ... and writes both: a new row fails on the unique constraint when      *)
(* another was inserted.                                                   *)
Decide(h) ==
  LET o == op[h]
      granted == o.role # "denied"
      inserts == granted /\ o.read = "none"
      updates == ChangesRole(o)
  IN
  /\ At(h, "decide", "checked")
  /\ updates => RowFree(o.who, h)
  /\ IF inserts /\ member[o.who] # "none" THEN UNCHANGED <<member, request>>
     ELSE
     /\ request' = [request EXCEPT ![o.q].status =
                      IF granted THEN "approved" ELSE "denied"]
     /\ member' = IF inserts \/ updates THEN [member EXCEPT ![o.who] = o.role]
                  ELSE member
  /\ Finish(h, {})
  /\ UNCHANGED <<project, content, purge>>

(* cancel_access_request is one transaction for its caller's own request,  *)
(* which it reads ...                                                      *)
ReadOwnRequest(h, q) ==
  /\ op[h] = Idle /\ Exists
  /\ CheckPending(q) /\ RequestFree(q, h)
  /\ op' = [op EXCEPT ![h] = [Idle EXCEPT !.kind = "cancel", !.phase = "checked",
                                         !.who = request[q].by, !.q = q]]
  /\ UNCHANGED <<project, member, request, content, purge>>

(* ... and writes, by its primary key.                                     *)
CancelAccessRequest(h) ==
  /\ At(h, "cancel", "checked")
  /\ request' = [request EXCEPT ![op[h].q].status = "cancelled"]
  /\ Finish(h, {})
  /\ UNCHANGED <<project, member, content, purge>>

------------------------------------------------------------------------------
(* Archive, restore and the end of the retention period.                   *)

(* What is archived again is retained from then on.                        *)
Archive(h) ==
  /\ At(h, "archive", "authorized")
  /\ Finish(h, {})
  /\ project' = IF Exists THEN "archived" ELSE project
  /\ UNCHANGED <<member, request, content, purge>>

Restore(h) ==
  /\ At(h, "restore", "authorized")
  /\ Finish(h, {})
  /\ project' = IF project = "archived" THEN "open" ELSE project
  /\ UNCHANGED <<member, request, content, purge>>

RetentionEnds ==
  /\ project = "archived" /\ project' = "expired"
  /\ UNCHANGED <<member, request, op, content, purge>>

(* The loop lists the expired archives before it purges them; what the     *)
(* administrator's call reads first, the existence, is read again below.   *)
ListExpired ==
  /\ purge["loop"] = "waiting" /\ project = "expired"
  /\ purge' = [purge EXCEPT !["loop"] = "rows"]
  /\ UNCHANGED <<project, member, request, op, content>>

(* An exception ends the administrator's call, and the loop for ever.      *)
Raised(x) ==
  purge' = [purge EXCEPT ![x] = IF x = "loop" THEN "dead" ELSE "waiting"]

(* purge_expired deletes the rows, behind the locks of others, ...  (The   *)
(* memberships and requests follow the project by a cascade, which SQLite  *)
(* leaves out on a connection without PRAGMA foreign_keys; rows of a       *)
(* project that has gone are not looked at here.)                          *)
PurgeRows(x) ==
  /\ purge[x] = IF x = "loop" THEN "rows" ELSE "waiting"
  /\ project # "none"
  /\ IF project = "expired"
     THEN /\ RowLocks => \A h \in Handler : op[h].phase # "checked"
          /\ project' = "gone"
          /\ member' = [p \in Principal |-> "none"]
          /\ request' = [q \in Request |-> [by |-> None, status |-> "none"]]
          /\ op' = [h \in Handler |-> Idle] \* what follows finds no rows
          /\ purge' = [purge EXCEPT ![x] = "conversations"]
     ELSE Raised(x) /\ UNCHANGED <<project, member, request, op>>
  /\ UNCHANGED content

(* ... then conversations and files go, each in its own way.               *)
PurgeConversations_Skipped(x) ==
  /\ purge[x] = "conversations"
  /\ purge' = [purge EXCEPT ![x] = "files"]
  /\ UNCHANGED <<project, member, request, op, content>>

PurgeConversations(x) ==
  /\ purge[x] = "conversations"
  /\ content' = content \ {"conversations"}
  /\ purge' = [purge EXCEPT ![x] = "files"]
  /\ UNCHANGED <<project, member, request, op>>

PurgeFiles(x) ==
  /\ purge[x] = "files"
  /\ content' = content \ {"files"}
  /\ purge' = [purge EXCEPT ![x] = "waiting"]
  /\ UNCHANGED <<project, member, request, op>>

PurgeFails(x) ==
  /\ purge[x] \in {"rows", "conversations", "files"}
  /\ Raised(x)
  /\ UNCHANGED <<project, member, request, op, content>>

(* The process dies and is started again, its loop with it.                *)
Crash ==
  /\ op' = [h \in Handler |-> Idle]
  /\ purge' = [x \in Purger |-> "waiting"]
  /\ UNCHANGED <<project, member, request, content>>

------------------------------------------------------------------------------
(* Transactions that are at odds: h is about to take ownership from a row  *)
(* that it did not read as an owner's, or while another takes it from      *)
(* another owner; two have read one request and are about to decide or to  *)
(* cancel it; what a decision has read of the member holds no more.        *)

Takes(h) ==
  /\ op[h].phase = "checked" /\ member[op[h].who] = "owner"
  /\ \/ op[h].kind = "remove"
     \/ op[h].kind = "update" /\ op[h].role \notin {"owner", op[h].read}
     \/ /\ op[h].kind = "decide"
        /\ op[h].role # "denied" /\ op[h].read \notin {"none", "owner", op[h].role}

OwnersCross ==
  \E h \in Handler :
    /\ Takes(h)
    /\ \/ op[h].read # "owner"
       \/ \E k \in Handler : Takes(k) /\ op[k].who # op[h].who

DecisionsCross ==
  \E h \in Handler :
    \/ \E k \in Handler \ {h}, q \in Request : Deciding(h, q) /\ Deciding(k, q)
    \/ At(h, "decide", "checked") /\ member[op[h].who] # op[h].read

Crossings ==
  {x \in {"owners", "decisions"} :
     \/ x = "owners" /\ OwnersCross
     \/ x = "decisions" /\ DecisionsCross}

------------------------------------------------------------------------------

Act(h) ==
  \/ AddMembership(h) \/ ListMembers(h) \/ CheckMembership(h) \/ WriteRole(h)
  \/ DeleteRow(h) \/ FindPending(h) \/ ReadRequest(h) \/ Decide(h)
  \/ Archive(h) \/ Restore(h)
  \/ CancelAccessRequest(h)
  \/ \E q \in Request : CreateAccessRequest(h, q) \/ ReadOwnRequest(h, q)

Begin(h, u) ==
  \/ \E p \in Principal, role \in Role : StartAdd(h, u, p, role)
  \/ \E p \in Principal, role \in Role : StartUpdate(h, u, p, role)
  \/ \E p \in Principal : StartRemove(h, u, p)
  \/ StartRequest(h, u)
  \/ \E q \in Request, d \in Role \cup {"denied"} : StartDecide(h, u, q, d)
  \/ \E kind \in {"archive", "restore"} : StartRetention(h, u, kind)

Purge(x) == PurgeRows(x) \/ PurgeConversations(x) \/ PurgeFiles(x)

Step ==
  \/ \E u \in User : CreateProject(u) \/ \E h \in Handler : Begin(h, u)
  \/ \E h \in Handler : Act(h)
  \/ RetentionEnds \/ ListExpired
  \/ \E x \in Purger : Purge(x)

Fault == Crash \/ \E x \in Purger : PurgeFails(x)

(* A fault leaves a purge whose rows are deleted where it is.              *)
PurgeCut ==
  IF \E x \in Purger : purge[x] \in {"conversations", "files"} /\ purge'[x] # purge[x]
  THEN {"purge"} ELSE {}

Next ==
  \/ Step /\ crossed' = crossed \cup Crossings'
  \/ Fault /\ crossed' = crossed \cup Crossings' \cup PurgeCut

Spec == Init /\ [][Next]_vars

------------------------------------------------------------------------------
(* Properties.                                                             *)

(* The types of the rows and of what the handlers have read.               *)
TypeOK ==
  /\ project \in {"none", "open", "archived", "expired", "gone"}
  /\ member \in [Principal -> Role \cup {"none"}]
  /\ request \in [Request -> AccessRequestRow]
  /\ op \in [Handler -> Operation]
  /\ content \subseteq {"conversations", "files"}
  /\ purge \in [Purger -> {"waiting", "rows", "conversations", "files", "dead"}]
  /\ crossed \subseteq {"owners", "decisions", "purge"}

(* A project that exists has an owner, and its owners are users: no order  *)
(* of appointments, demotions, removals, additions and approvals takes the *)
(* last one, as long as no two transactions take owners at once.           *)
OwnerRemains ==
  /\ \A g \in Group : member[g] # "owner"
  /\ Exists /\ "owners" \notin crossed => \E u \in User : member[u] = "owner"

(* The same without the exception: "the final owner cannot be demoted or   *)
(* removed" (docs/adr/0010).                                               *)
FinalOwnerStays == Exists => \E u \in User : member[u] = "owner"

(* An access request is decided or cancelled once, and when it is approved *)
(* its requester is a member from the same step on, and still an owner if  *)
(* one before, as long as no two decisions or cancellations of one request *)
(* are under way at once (without row locks one of them then overwrites    *)
(* the other) and none finds the requester's row no more as it was read.   *)
DecisionsStand ==
  [][\A q \in Request :
       LET before == request[q] after == request'[q] IN
       Exists' /\ crossed' \cap {"decisions"} = {} /\ before # after =>
         /\ before.status \in {"none", "pending"}
         /\ after.status = "approved" =>
              /\ member'[before.by] # "none"
              /\ member[before.by] = "owner" => member'[before.by] = "owner"]_vars

(* When the rows of a project are gone, its conversations and files follow *)
(* unless the purge is cut short: nothing lists a project without a row.   *)
PurgeLeavesNothing ==
  project = "gone" /\ content # {} =>
    \/ "purge" \in crossed
    \/ \E x \in Purger : purge[x] \in {"conversations", "files"}

==============================================================================
