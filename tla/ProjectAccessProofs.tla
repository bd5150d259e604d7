------------------------- MODULE ProjectAccessProofs -------------------------
(***************************************************************************)
(* Proofs about ProjectAccess, for any users, groups, administrators,      *)
(* handlers and access requests, with row locks and without.               *)
(*                                                                         *)
(* That an owner remains is not inductive: a handler that has checked      *)
(* writes later.  What makes it hold is OwnersSafe: as long as no two      *)
(* transactions take owners at once, whoever is about to take one leaves   *)
(* another.                                                                *)
(***************************************************************************)
EXTENDS ProjectAccess, TLAPS

USE DEF Principal, Exists

------------------------------------------------------------------------------
(* The inductive invariant.                                                *)

(* What a handler was started with.                                        *)
LocalOK(h) ==
  /\ op[h].kind \in {"add", "update", "remove", "request"} => op[h].who \in Principal
  /\ op[h].kind = "add" => op[h].role \in Granted
  /\ op[h].kind = "update" =>
       /\ op[h].role \in Granted \cup {"owner"}
       /\ op[h].phase = "checked" /\ op[h].role = "owner" => op[h].who \notin Group
  /\ op[h].kind = "remove" => op[h].role = "none"
  /\ op[h].kind = "request" => op[h].who \in User
  /\ op[h].kind = "decide" => op[h].role \in Granted \cup {"denied"}
  /\ op[h].kind \in {"decide", "cancel"} =>
       /\ op[h].q \in Request
       /\ request[op[h].q].status # "none" /\ request[op[h].q].by = op[h].who

(* A request has a requester.                                              *)
RequesterOK == \A q \in Request : request[q].status # "none" => request[q].by \in User

(* Nobody works on a project that is not there yet.                        *)
NotYet == project = "none" => \A h \in Handler : op[h] = Idle

GroupsOwnNothing == \A g \in Group : member[g] # "owner"

(* What the history says.                                                  *)
CrossOK ==
  /\ OwnersCross => "owners" \in crossed
  /\ DecisionsCross => "decisions" \in crossed

OwnersSafe ==
  Exists /\ "owners" \notin crossed =>
    /\ \E p \in Principal : member[p] = "owner"
    /\ \A h \in Handler : Takes(h) =>
         \E p \in Principal : member[p] = "owner" /\ p # op[h].who

(* While no two are at it at once, what is decided or cancelled is pending *)
(* until it is written.                                                    *)
PendingOK ==
  "decisions" \notin crossed =>
    \A h \in Handler, q \in Request : Deciding(h, q) => request[q].status = "pending"

(* Who is to remove what is left of a project that is gone.                *)
LeftToPurge ==
  project = "gone" /\ "purge" \notin crossed =>
    /\ "conversations" \in content => \E x \in Purger : purge[x] = "conversations"
    /\ "files" \in content => \E x \in Purger : purge[x] \in {"conversations", "files"}

IInv ==
  /\ TypeOK
  /\ \A h \in Handler : LocalOK(h)
  /\ RequesterOK
  /\ NotYet
  /\ GroupsOwnNothing
  /\ CrossOK
  /\ OwnersSafe
  /\ PendingOK
  /\ LeftToPurge

------------------------------------------------------------------------------
(* Types and locals.                                                       *)

LEMMA IdleType ==
  Idle \in Operation /\ Idle.kind = "none" /\ Idle.phase = "idle"
BY DEF Idle, Operation

(* Where a handler ends, the others go on as they are or end with it.      *)
LEMMA FinishFacts ==
  ASSUME TypeOK, NEW h \in Handler, NEW gone, Finish(h, gone)
  PROVE  /\ op' \in [Handler -> Operation]
         /\ op'[h] = Idle
         /\ \A k \in Handler : op'[k] = op[k] \/ op'[k] = Idle
BY IdleType DEF Finish, TypeOK

LEMMA ContinueFacts ==
  ASSUME TypeOK, NEW h \in Handler, NEW phase \in {"looked", "checked"},
         NEW read \in Role \cup {"none"}, Continue(h, phase, read)
  PROVE  /\ op' \in [Handler -> Operation]
         /\ op'[h].kind = op[h].kind /\ op'[h].phase = phase
         /\ op'[h].who = op[h].who /\ op'[h].q = op[h].q
         /\ op'[h].role = op[h].role /\ op'[h].read = read
         /\ \A k \in Handler : k # h => op'[k] = op[k]
<1> DEFINE o == [[[op[h] EXCEPT !.phase = phase] EXCEPT !.read = read] EXCEPT !.owner = FALSE]
<1>1. op[h] \in Operation
  BY DEF TypeOK
<1>2. /\ o \in Operation
      /\ o.kind = op[h].kind /\ o.phase = phase /\ o.who = op[h].who /\ o.q = op[h].q
      /\ o.role = op[h].role /\ o.read = read
  BY <1>1 DEF Operation
<1>3. op' = [op EXCEPT ![h] = o]
  BY DEF Continue, TypeOK
<1> HIDE DEF o
<1> QED
  BY <1>2, <1>3 DEF TypeOK

(* The roles that handlers write.                                          *)
LEMMA GrantedRoles == Granted \subseteq Role /\ "owner" \notin Granted /\ "denied" \notin Granted
                        /\ "none" \notin Granted
BY AccessAssumption DEF Role

(* Requests that have been made stay those of their requesters.            *)
RequestsKept ==
  \A q \in Request : request[q].status # "none" =>
    request'[q].status # "none" /\ request'[q].by = request[q].by

(* What every handler was started with holds if it goes on as it is.       *)
LEMMA LocalsKept ==
  ASSUME NEW k \in Handler, LocalOK(k), RequestsKept, op'[k] = op[k] \/ op'[k] = Idle
  PROVE  LocalOK(k)'
<1>1. CASE op'[k] = op[k]
  BY <1>1 DEF LocalOK, RequestsKept
<1>2. CASE op'[k] = Idle
  BY <1>2, IdleType DEF LocalOK
<1> QED
  BY <1>1, <1>2

Base ==
  /\ project \in {"none", "open", "archived", "expired", "gone"}
  /\ member \in [Principal -> Role \cup {"none"}]
  /\ request \in [Request -> AccessRequestRow]
  /\ op \in [Handler -> Operation]
  /\ \A h \in Handler : LocalOK(h)
  /\ RequesterOK
  /\ NotYet
  /\ GroupsOwnNothing

(* A handler is started.                                                   *)
LEMMA StartBase ==
  ASSUME IInv, NEW h \in Handler, NEW u, NEW o \in Operation, Start(h, u, o),
         /\ o.kind \in {"add", "update", "remove", "request"} => o.who \in Principal
         /\ o.kind = "add" => o.role \in Granted
         /\ o.kind = "update" => o.role \in Granted \cup {"owner"}
         /\ o.kind = "remove" => o.role = "none"
         /\ o.kind = "request" => o.who \in User
         /\ o.kind = "decide" =>
              /\ o.role \in Granted \cup {"denied"}
              /\ o.q \in Request
              /\ request[o.q].status # "none" /\ request[o.q].by = o.who,
         o.phase = "authorized", o.kind # "cancel"
  PROVE  Base'
<1>1. TypeOK /\ (\A k \in Handler : LocalOK(k)) /\ RequesterOK /\ NotYet /\ GroupsOwnNothing
  BY DEF IInv
<1>2. /\ op' = [op EXCEPT ![h] = o]
      /\ UNCHANGED <<project, member, request>> /\ project # "none"
  BY DEF Start
<1>3. op' \in [Handler -> Operation] /\ op'[h] = o
  BY <1>1, <1>2 DEF TypeOK
<1>4. RequestsKept
  BY <1>2 DEF RequestsKept
<1>5. ASSUME NEW k \in Handler PROVE LocalOK(k)'
  <2>1. CASE k = h
    BY <1>2, <1>3, <2>1 DEF LocalOK
  <2>2. CASE k # h
    <3>1. op'[k] = op[k]
      BY <1>1, <1>2, <2>2 DEF TypeOK
    <3> QED
      BY <1>1, <1>4, <3>1, LocalsKept
  <2> QED
    BY <2>1, <2>2
<1> QED
  BY <1>1, <1>2, <1>3, <1>5 DEF Base, TypeOK, RequesterOK, NotYet, GroupsOwnNothing

LEMMA BeginBase ==
  ASSUME IInv, NEW h \in Handler, NEW u \in User, Begin(h, u)
  PROVE  Base'
<1>1. TypeOK /\ RequesterOK
  BY DEF IInv
<1>2. Idle \in Operation /\ Idle.kind = "none" /\ Idle.who = None /\ Idle.q = None
  BY DEF Idle, Operation
<1>3. ASSUME NEW p \in Principal, NEW role \in Role, StartAdd(h, u, p, role) PROVE Base'
  <2> DEFINE o == [[[[Idle EXCEPT !.kind = "add"] EXCEPT !.phase = "authorized"]
                       EXCEPT !.who = p] EXCEPT !.role = role]
  <2>1. o \in Operation /\ o.kind = "add" /\ o.phase = "authorized" /\ o.who = p /\ o.role = role
    BY DEF Idle, Operation
  <2>2. Start(h, u, o) /\ role \in Granted
    BY <1>3 DEF StartAdd
  <2> HIDE DEF o
  <2> QED
    BY <2>1, <2>2, StartBase
<1>4. ASSUME NEW p \in Principal, NEW role \in Role, StartUpdate(h, u, p, role) PROVE Base'
  <2> DEFINE o == [[[[Idle EXCEPT !.kind = "update"] EXCEPT !.phase = "authorized"]
                       EXCEPT !.who = p] EXCEPT !.role = role]
  <2>1. o \in Operation /\ o.kind = "update" /\ o.phase = "authorized" /\ o.who = p /\ o.role = role
    BY DEF Idle, Operation
  <2>2. Start(h, u, o) /\ role \in Granted \cup {"owner"}
    BY <1>4 DEF StartUpdate
  <2> HIDE DEF o
  <2> QED
    BY <2>1, <2>2, StartBase
<1>5. ASSUME NEW p \in Principal, StartRemove(h, u, p) PROVE Base'
  <2> DEFINE o == [[[[Idle EXCEPT !.kind = "remove"] EXCEPT !.phase = "authorized"]
                       EXCEPT !.who = p] EXCEPT !.owner = ActsAsOwner(u)]
  <2>1. ActsAsOwner(u) \in BOOLEAN
    BY DEF ActsAsOwner, EffectiveAtLeast
  <2>2. o \in Operation /\ o.kind = "remove" /\ o.phase = "authorized" /\ o.who = p /\ o.role = "none"
    BY <2>1 DEF Idle, Operation
  <2>3. Start(h, u, o)
    BY <1>5 DEF StartRemove
  <2> HIDE DEF o
  <2> QED
    BY <2>2, <2>3, StartBase
<1>6. CASE StartRequest(h, u)
  <2> DEFINE o == [[[Idle EXCEPT !.kind = "request"] EXCEPT !.phase = "authorized"]
                       EXCEPT !.who = u]
  <2>1. o \in Operation /\ o.kind = "request" /\ o.phase = "authorized" /\ o.who = u
    BY DEF Idle, Operation
  <2>2. Start(h, u, o)
    BY <1>6 DEF StartRequest
  <2> HIDE DEF o
  <2> QED
    BY <2>1, <2>2, StartBase
<1>7. ASSUME NEW q \in Request, NEW d \in Role \cup {"denied"}, StartDecide(h, u, q, d)
      PROVE  Base'
  <2> DEFINE o == [[[[[Idle EXCEPT !.kind = "decide"] EXCEPT !.phase = "authorized"]
                       EXCEPT !.who = request[q].by] EXCEPT !.q = q] EXCEPT !.role = d]
  <2>1. request[q].by \in Principal /\ request[q].status # "none" /\ d \in Granted \cup {"denied"}
    BY <1>1, <1>7 DEF RequesterOK, StartDecide
  <2>2. /\ o \in Operation /\ o.kind = "decide" /\ o.phase = "authorized"
        /\ o.who = request[q].by /\ o.q = q /\ o.role = d
    BY <2>1 DEF Idle, Operation
  <2>3. Start(h, u, o)
    BY <1>7 DEF StartDecide
  <2> HIDE DEF o
  <2> QED
    BY <2>1, <2>2, <2>3, StartBase
<1>8. ASSUME NEW kind \in {"archive", "restore"}, StartRetention(h, u, kind) PROVE Base'
  <2> DEFINE o == [[Idle EXCEPT !.kind = kind] EXCEPT !.phase = "authorized"]
  <2>1. o \in Operation /\ o.kind = kind /\ o.phase = "authorized"
    BY DEF Idle, Operation
  <2>2. Start(h, u, o)
    BY <1>8 DEF StartRetention
  <2> HIDE DEF o
  <2> QED
    BY <2>1, <2>2, StartBase
<1> QED
  BY <1>3, <1>4, <1>5, <1>6, <1>7, <1>8 DEF Begin

(* A handler that ends or goes on, and leaves the rows as they are but for *)
(* the role of one principal.                                              *)
LEMMA ActBase ==
  ASSUME IInv, NEW h \in Handler, Act(h)
  PROVE  Base'
<1>1. /\ TypeOK /\ (\A k \in Handler : LocalOK(k)) /\ RequesterOK
      /\ NotYet /\ GroupsOwnNothing
  BY DEF IInv
<1>2. op[h] \in Operation /\ LocalOK(h) /\ None \notin Principal
  BY <1>1, AccessAssumption DEF TypeOK
<1>3. op[h].phase # "idle" => project # "none"
  BY <1>1, IdleType DEF NotYet
<1>4. ASSUME RequestsKept, \A k \in Handler : op'[k] = op[k] \/ op'[k] = Idle
      PROVE  \A k \in Handler : LocalOK(k)'
  BY <1>1, <1>4, LocalsKept
<1>5. ASSUME NEW p \in Principal, NEW role \in Role, role # "owner" \/ p \notin Group,
             member' = [member EXCEPT ![p] = role]
      PROVE  member' \in [Principal -> Role \cup {"none"}] /\ GroupsOwnNothing'
  BY <1>1, <1>5 DEF TypeOK, GroupsOwnNothing
<1>6. ASSUME UNCHANGED <<project, member, request>>, NEW gone, Finish(h, gone)
      PROVE  Base'
  <2>1. op' \in [Handler -> Operation] /\ \A k \in Handler : op'[k] = op[k] \/ op'[k] = Idle
    BY <1>1, <1>6, FinishFacts
  <2>2. RequestsKept
    BY <1>6 DEF RequestsKept
  <2>3. NotYet'
    BY <1>1, <1>6, <2>1 DEF NotYet
  <2> QED
    BY <1>1, <1>4, <1>6, <2>1, <2>2, <2>3 DEF Base, TypeOK, RequesterOK, GroupsOwnNothing
<1>7. ASSUME UNCHANGED <<project, member, request>>, project # "none",
             NEW phase \in {"looked", "checked"}, NEW read \in Role \cup {"none"},
             Continue(h, phase, read),
             op[h].kind = "update" /\ op[h].role = "owner" => op[h].who \notin Group
      PROVE  Base'
  <2>1. /\ op' \in [Handler -> Operation]
        /\ op'[h].kind = op[h].kind /\ op'[h].phase = phase
        /\ op'[h].who = op[h].who /\ op'[h].q = op[h].q
        /\ op'[h].role = op[h].role /\ op'[h].read = read
        /\ \A k \in Handler : k # h => op'[k] = op[k]
    BY <1>1, <1>7, ContinueFacts
  <2>2. RequestsKept
    BY <1>7 DEF RequestsKept
  <2>3. LocalOK(h)'
    BY <1>2, <1>7, <2>1 DEF LocalOK
  <2>4. ASSUME NEW k \in Handler \ {h} PROVE LocalOK(k)'
    BY <1>1, <2>1, <2>2, LocalsKept
  <2> QED
    BY <1>1, <1>7, <2>1, <2>3, <2>4 DEF Base, TypeOK, RequesterOK, NotYet, GroupsOwnNothing
<1>8. CASE Refuse(h)
  BY <1>6, <1>8 DEF Refuse
<1>9. CASE AddMembership(h)
  <2>1. op[h].who \in Principal /\ op[h].role \in Role /\ op[h].role # "owner"
    BY <1>2, <1>9, GrantedRoles DEF AddMembership, At, LocalOK
  <2>2. /\ Finish(h, {}) /\ UNCHANGED <<project, request>>
        /\ member' = member \/ member' = [member EXCEPT ![op[h].who] = op[h].role]
    BY <1>9 DEF AddMembership
  <2>3. op' \in [Handler -> Operation] /\ \A k \in Handler : op'[k] = op[k] \/ op'[k] = Idle
    BY <1>1, <2>2, FinishFacts
  <2>4. RequestsKept /\ NotYet'
    BY <1>1, <2>2, <2>3 DEF RequestsKept, NotYet
  <2>5. member' \in [Principal -> Role \cup {"none"}] /\ GroupsOwnNothing'
    BY <1>1, <1>5, <2>1, <2>2 DEF TypeOK, GroupsOwnNothing
  <2> QED
    BY <1>1, <1>4, <2>2, <2>3, <2>4, <2>5 DEF Base, TypeOK, RequesterOK
<1>10. CASE ListMembers(h)
  <2>1. op[h].kind = "remove" /\ op[h].phase = "authorized"
    BY <1>10 DEF ListMembers, At
  <2>2. CASE Continue(h, "looked", "none")
    BY <1>3, <1>7, <2>1, <2>2 DEF Continue
  <2> QED
    BY <1>8, <1>10, <2>2 DEF ListMembers
<1>11. CASE CheckMembership(h)
  <2>1. op[h].kind \in {"update", "remove"} /\ op[h].phase \in {"authorized", "looked"}
    BY <1>11 DEF CheckMembership, At
  <2>2. member[op[h].who] \in Role \cup {"none"}
    BY <1>1, <1>2, <2>1 DEF LocalOK, TypeOK
  <2>3. CASE ~Refuse(h)
    <3>1. /\ Continue(h, "checked", member[op[h].who])
          /\ ~(op[h].role = "owner" /\ op[h].who \in Group)
      BY <1>11, <2>3 DEF CheckMembership
    <3> QED
      BY <1>3, <1>7, <2>1, <2>2, <3>1 DEF Continue
  <2> QED
    BY <1>8, <2>3
<1>12. CASE WriteRole(h)
  <2>1. /\ op[h].kind = "update" /\ op[h].phase = "checked"
        /\ op[h].who \in Principal /\ op[h].role \in Role
        /\ op[h].role # "owner" \/ op[h].who \notin Group
    BY <1>2, <1>12, GrantedRoles DEF WriteRole, At, LocalOK, Role
  <2>2. /\ Finish(h, {}) /\ UNCHANGED <<project, request>>
        /\ member' = member \/ member' = [member EXCEPT ![op[h].who] = op[h].role]
    BY <1>12 DEF WriteRole
  <2>3. op' \in [Handler -> Operation] /\ \A k \in Handler : op'[k] = op[k] \/ op'[k] = Idle
    BY <1>1, <2>2, FinishFacts
  <2>4. RequestsKept /\ NotYet'
    BY <1>1, <2>2, <2>3 DEF RequestsKept, NotYet
  <2>5. member' \in [Principal -> Role \cup {"none"}] /\ GroupsOwnNothing'
    BY <1>1, <1>5, <2>1, <2>2 DEF TypeOK, GroupsOwnNothing
  <2> QED
    BY <1>1, <1>4, <2>2, <2>3, <2>4, <2>5 DEF Base, TypeOK, RequesterOK
<1>13. CASE DeleteRow(h)
  <2>1. /\ Finish(h, {op[h].who}) /\ UNCHANGED <<project, request>>
        /\ member' = [member EXCEPT ![op[h].who] = "none"]
    BY <1>13 DEF DeleteRow
  <2>2. op' \in [Handler -> Operation] /\ \A k \in Handler : op'[k] = op[k] \/ op'[k] = Idle
    BY <1>1, <2>1, FinishFacts
  <2>3. RequestsKept /\ NotYet'
    BY <1>1, <2>1, <2>2 DEF RequestsKept, NotYet
  <2>4. member' \in [Principal -> Role \cup {"none"}] /\ GroupsOwnNothing'
    BY <1>1, <2>1 DEF TypeOK, GroupsOwnNothing
  <2> QED
    BY <1>1, <1>4, <2>1, <2>2, <2>3, <2>4 DEF Base, TypeOK, RequesterOK
<1>14. CASE FindPending(h)
  <2>1. op[h].kind = "request" /\ op[h].phase = "authorized"
    BY <1>14 DEF FindPending, At
  <2>2. CASE Continue(h, "checked", "none")
    BY <1>3, <1>7, <2>1, <2>2 DEF Continue
  <2> QED
    BY <1>8, <1>14, <2>2 DEF FindPending
<1>15. CASE ReadRequest(h)
  <2>1. op[h].kind = "decide" /\ op[h].phase = "authorized"
    BY <1>15 DEF ReadRequest, At
  <2>2. member[op[h].who] \in Role \cup {"none"}
    BY <1>1, <1>2, <2>1 DEF LocalOK, TypeOK, RequesterOK
  <2>3. CASE Continue(h, "checked", member[op[h].who])
    BY <1>3, <1>7, <2>1, <2>2, <2>3 DEF Continue
  <2> QED
    BY <1>8, <1>15, <2>3 DEF ReadRequest
<1>16. CASE Decide(h)
  <2> DEFINE o == op[h]
  <2>1. /\ o.kind = "decide" /\ o.phase = "checked" /\ o.q \in Request
        /\ o.role \in Granted \cup {"denied"}
        /\ request[o.q].by = o.who /\ request[o.q].status # "none" /\ o.who \in Principal
    BY <1>1, <1>2, <1>16 DEF Decide, ChangesRole, At, LocalOK, RequesterOK
  <2>2. /\ Finish(h, {}) /\ UNCHANGED project
        /\ \/ UNCHANGED <<member, request>>
           \/ /\ \E st \in {"approved", "denied"} :
                    request' = [request EXCEPT ![o.q] = [@ EXCEPT !.status = st]]
              /\ \/ member' = member
                 \/ o.role # "denied" /\ member' = [member EXCEPT ![o.who] = o.role]
    BY <1>16 DEF Decide, ChangesRole
  <2>3. CASE UNCHANGED <<member, request>>
    BY <1>6, <2>2, <2>3
  <2>4. CASE ~UNCHANGED <<member, request>>
    <3>1. PICK st \in {"approved", "denied"} :
            request' = [request EXCEPT ![o.q] = [@ EXCEPT !.status = st]]
      BY <2>2, <2>4
    <3>2. /\ request' \in [Request -> AccessRequestRow]
          /\ request'[o.q].status = st /\ request'[o.q].by = request[o.q].by
          /\ \A q \in Request \ {o.q} : request'[q] = request[q]
      <4>1. request[o.q] \in AccessRequestRow
        BY <1>1, <2>1 DEF TypeOK
      <4>2. /\ [request[o.q] EXCEPT !.status = st] \in AccessRequestRow
            /\ [request[o.q] EXCEPT !.status = st].status = st
            /\ [request[o.q] EXCEPT !.status = st].by = request[o.q].by
        BY <4>1 DEF AccessRequestRow
      <4> QED
        BY <1>1, <2>1, <3>1, <4>2 DEF TypeOK
    <3>3. op' \in [Handler -> Operation] /\ \A k \in Handler : op'[k] = op[k] \/ op'[k] = Idle
      BY <1>1, <2>2, FinishFacts
    <3> HIDE DEF o
    <3>4. RequestsKept /\ RequesterOK'
      BY <1>1, <2>1, <3>2 DEF RequestsKept, RequesterOK
    <3>5. member' \in [Principal -> Role \cup {"none"}] /\ GroupsOwnNothing'
      BY <1>1, <1>5, <2>1, <2>2, <2>4, GrantedRoles DEF TypeOK, GroupsOwnNothing
    <3>6. NotYet'
      BY <1>1, <2>2, <3>3 DEF NotYet
    <3> QED
      BY <1>1, <1>4, <2>2, <3>2, <3>3, <3>4, <3>5, <3>6 DEF Base, TypeOK
  <2> QED
    BY <2>3, <2>4
<1>17. CASE Archive(h) \/ Restore(h)
  <2>1. /\ Finish(h, {}) /\ UNCHANGED <<member, request>>
        /\ project' = project \/ (project' \in {"archived", "open"} /\ project # "none")
    BY <1>17 DEF Archive, Restore
  <2>2. op' \in [Handler -> Operation] /\ \A k \in Handler : op'[k] = op[k] \/ op'[k] = Idle
    BY <1>1, <2>1, FinishFacts
  <2>3. RequestsKept /\ NotYet'
    BY <1>1, <2>1, <2>2 DEF RequestsKept, NotYet
  <2> QED
    BY <1>1, <1>4, <2>1, <2>2, <2>3 DEF Base, TypeOK, RequesterOK, GroupsOwnNothing
<1>18. ASSUME NEW q \in Request, CreateAccessRequest(h, q) PROVE Base'
  <2> DEFINE row == [by |-> op[h].who, status |-> "pending"]
  <2>1. op[h].who \in User /\ row \in AccessRequestRow /\ row.status # "none" /\ row.by \in User
    BY <1>2, <1>18 DEF CreateAccessRequest, At, LocalOK, AccessRequestRow
  <2>2. /\ Finish(h, {}) /\ UNCHANGED <<project, member>> /\ request[q].status = "none"
        /\ request' = [request EXCEPT ![q] = row]
    BY <1>18 DEF CreateAccessRequest
  <2> HIDE DEF row
  <2>3. op' \in [Handler -> Operation] /\ \A k \in Handler : op'[k] = op[k] \/ op'[k] = Idle
    BY <1>1, <2>2, FinishFacts
  <2>4. RequestsKept /\ RequesterOK' /\ NotYet' /\ request' \in [Request -> AccessRequestRow]
    BY <1>1, <2>1, <2>2, <2>3 DEF RequestsKept, RequesterOK, NotYet, TypeOK
  <2> QED
    BY <1>1, <1>4, <2>2, <2>3, <2>4 DEF Base, TypeOK, GroupsOwnNothing
<1>19. ASSUME NEW q \in Request, ReadOwnRequest(h, q) PROVE Base'
  <2> DEFINE o == [Idle EXCEPT !.kind = "cancel", !.phase = "checked",
                               !.who = request[q].by, !.q = q]
  <2>1. /\ op' = [op EXCEPT ![h] = o] /\ UNCHANGED <<project, member, request>>
        /\ request[q].status # "none" /\ project # "none"
    BY <1>19 DEF ReadOwnRequest, CheckPending, Exists
  <2>2. request[q].by \in User
    BY <1>1, <2>1 DEF RequesterOK
  <2>3. /\ o \in Operation /\ o.kind = "cancel" /\ o.phase = "checked"
        /\ o.q = q /\ o.who = request[q].by
    BY <2>2 DEF Idle, Operation, Principal
  <2> HIDE DEF o
  <2>4. op' \in [Handler -> Operation] /\ op'[h] = o /\ \A k \in Handler : k # h => op'[k] = op[k]
    BY <1>1, <2>1, <2>3 DEF TypeOK
  <2>5. LocalOK(h)'
    BY <2>1, <2>2, <2>3, <2>4 DEF LocalOK, Principal
  <2>6. \A k \in Handler \ {h} : LocalOK(k)'
    BY <1>1, <2>1, <2>4 DEF LocalOK
  <2> QED
    BY <1>1, <2>1, <2>4, <2>5, <2>6 DEF Base, TypeOK, RequesterOK, NotYet, GroupsOwnNothing
<1>20. CASE CancelAccessRequest(h)
  <2>1. /\ op[h].kind = "cancel" /\ op[h].q \in Request /\ request[op[h].q].status # "none"
    BY <1>1, <1>2, <1>20 DEF CancelAccessRequest, At, LocalOK
  <2> DEFINE q == op[h].q
  <2>2. /\ request' = [request EXCEPT ![q] = [@ EXCEPT !.status = "cancelled"]]
        /\ Finish(h, {}) /\ UNCHANGED <<project, member>>
    BY <1>20 DEF CancelAccessRequest
  <2> HIDE DEF q
  <2>3. q \in Request /\ request[q].status # "none"
    BY <2>1 DEF q
  <2>4. request[q] \in AccessRequestRow
    BY <1>1, <2>3 DEF TypeOK
  <2>5. /\ request' \in [Request -> AccessRequestRow]
        /\ request'[q].status # "none" /\ request'[q].by = request[q].by
        /\ \A r \in Request \ {q} : request'[r] = request[r]
    BY <1>1, <2>2, <2>3, <2>4 DEF TypeOK, AccessRequestRow
  <2>6. op' \in [Handler -> Operation] /\ \A k \in Handler : op'[k] = op[k] \/ op'[k] = Idle
    BY <1>1, <2>2, FinishFacts
  <2>7. RequestsKept /\ RequesterOK' /\ NotYet'
    BY <1>1, <2>2, <2>3, <2>5, <2>6 DEF RequestsKept, RequesterOK, NotYet
  <2> QED
    BY <1>1, <1>4, <2>2, <2>5, <2>6, <2>7 DEF Base, TypeOK, GroupsOwnNothing
<1> QED
  BY <1>9, <1>10, <1>11, <1>12, <1>13, <1>14, <1>15, <1>16, <1>17, <1>18, <1>19, <1>20 DEF Act

(* Every step.                                                             *)
LEMMA BaseNext ==
  ASSUME IInv, [Next]_vars
  PROVE  Base' /\ TypeOK'
<1>1. /\ TypeOK /\ (\A k \in Handler : LocalOK(k)) /\ RequesterOK
      /\ NotYet /\ GroupsOwnNothing
  BY DEF IInv
<1>2. Base
  BY <1>1 DEF Base, TypeOK
<1>3. ASSUME UNCHANGED <<member, request, op>>, project' = "none" => project = "none",
             project' \in {"none", "open", "archived", "expired", "gone"}
      PROVE  Base'
  <2>1. member' = member /\ request' = request /\ op' = op
    BY <1>3
  <2>2. \A k \in Handler : LocalOK(k)'
    BY <1>1, <2>1, LocalsKept DEF RequestsKept
  <2>3. NotYet'
    BY <1>1, <1>3, <2>1 DEF NotYet
  <2>4. RequesterOK' /\ GroupsOwnNothing'
    BY <1>1, <2>1 DEF RequesterOK, GroupsOwnNothing
  <2>5. /\ member' \in [Principal -> Role \cup {"none"}]
        /\ request' \in [Request -> AccessRequestRow] /\ op' \in [Handler -> Operation]
    BY <1>1, <2>1 DEF TypeOK
  <2> QED
    BY <1>3, <2>2, <2>3, <2>4, <2>5 DEF Base
<1>4. ASSUME op' = [h \in Handler |-> Idle], UNCHANGED <<project, member, request>>
      PROVE  Base'
  <2>1. \A k \in Handler : op'[k] = Idle /\ LocalOK(k)'
    BY <1>1, <1>4, LocalsKept DEF RequestsKept
  <2> QED
    BY <1>1, <1>4, <2>1, IdleType DEF Base, TypeOK, RequesterOK, NotYet, GroupsOwnNothing
<1>5. ASSUME NEW u \in User, CreateProject(u) PROVE Base'
  <2>1. /\ member' = [member EXCEPT ![u] = "owner"] /\ project' = "open"
        /\ UNCHANGED <<request, op>> /\ u \notin Group
    BY <1>5, AccessAssumption DEF CreateProject
  <2>2. \A k \in Handler : LocalOK(k)'
    BY <1>1, <2>1, LocalsKept DEF RequestsKept
  <2>3. member' \in [Principal -> Role \cup {"none"}] /\ GroupsOwnNothing'
    BY <1>1, <2>1 DEF TypeOK, GroupsOwnNothing, Role
  <2> QED
    BY <1>1, <2>1, <2>2, <2>3 DEF Base, TypeOK, RequesterOK, NotYet
<1>7. ASSUME UNCHANGED <<project, member, request, op>> PROVE Base'
  BY <1>1, <1>3, <1>7 DEF TypeOK
<1>8. ASSUME NEW x \in Purger, PurgeRows(x) PROVE Base'
  <2>1. CASE project = "expired"
    <3>1. /\ project' = "gone" /\ member' = [p \in Principal |-> "none"]
          /\ request' = [q \in Request |-> [by |-> None, status |-> "none"]]
          /\ op' = [h \in Handler |-> Idle]
      BY <1>8, <2>1 DEF PurgeRows
    <3>2. \A k \in Handler : LocalOK(k)'
      BY <3>1, IdleType DEF LocalOK
    <3> QED
      BY <1>1, <3>1, <3>2, IdleType
      DEF Base, TypeOK, RequesterOK, NotYet, GroupsOwnNothing, AccessRequestRow
  <2>2. CASE project # "expired"
    BY <1>7, <1>8, <2>2 DEF PurgeRows
  <2> QED
    BY <2>1, <2>2
<1>9. ASSUME Step PROVE Base'
  <2>1. ASSUME NEW h \in Handler, NEW u \in User, Begin(h, u) PROVE Base'
    BY <2>1, BeginBase
  <2>2. ASSUME NEW h \in Handler, Act(h) PROVE Base'
    BY <2>2, ActBase
  <2>3. ASSUME RetentionEnds PROVE Base'
    BY <1>3, <2>3 DEF RetentionEnds
  <2>4. ASSUME ListExpired \/ \E x \in Purger : PurgeConversations(x) \/ PurgeFiles(x)
        PROVE  Base'
    BY <1>7, <2>4 DEF ListExpired, PurgeConversations, PurgeFiles
  <2> QED
    BY <1>5, <1>8, <1>9, <2>1, <2>2, <2>3, <2>4 DEF Step, Purge
<1>10. ASSUME Fault PROVE Base'
  <2>1. ASSUME Crash PROVE Base'
    BY <1>4, <2>1 DEF Crash
  <2>2. ASSUME NEW x \in Purger, PurgeFails(x) PROVE Base'
    BY <1>7, <2>2 DEF PurgeFails
  <2> QED
    BY <1>10, <2>1, <2>2 DEF Fault
<1>11. ASSUME UNCHANGED vars PROVE Base'
  BY <1>7, <1>11 DEF vars
<1>12. Base'
  BY <1>9, <1>10, <1>11 DEF Next
<1>13. crossed' \subseteq {"owners", "decisions", "purge"}
  <2>1. Crossings' \subseteq {"owners", "decisions"} /\ PurgeCut \subseteq {"purge"}
    BY DEF Crossings, PurgeCut
  <2> QED
    BY <1>1, <2>1 DEF Next, vars, TypeOK
<1>14. /\ content' \subseteq {"conversations", "files"}
       /\ purge' \in [Purger -> {"waiting", "rows", "conversations", "files", "dead"}]
  <2>1. content' = content \/ content' \subseteq {"conversations", "files"}
    BY <1>1 DEF Next, vars, Step, Fault, Crash, PurgeFails, Purge, PurgeRows, PurgeFiles,
       PurgeConversations, RetentionEnds, ListExpired, CreateProject,
       Begin, StartAdd, StartUpdate, StartRemove, StartRequest, StartDecide,
       StartRetention, Start, Act, AddMembership, ListMembers, CheckMembership, WriteRole,
       DeleteRow, FindPending, ReadRequest, Decide, ChangesRole, Archive, Restore, CreateAccessRequest,
       ReadOwnRequest, CancelAccessRequest,
       Refuse, Continue, TypeOK
  <2>2. \/ UNCHANGED purge
        \/ \E x \in Purger, s \in {"waiting", "rows", "conversations", "files", "dead"} :
             purge' = [purge EXCEPT ![x] = s]
        \/ purge' = [x \in Purger |-> "waiting"]
    BY DEF Next, vars, Step, Fault, Crash, PurgeFails, Purge, PurgeRows, PurgeFiles,
       PurgeConversations, RetentionEnds, ListExpired, CreateProject,
       Begin, StartAdd, StartUpdate, StartRemove, StartRequest, StartDecide,
       StartRetention, Start, Act, AddMembership, ListMembers, CheckMembership, WriteRole,
       DeleteRow, FindPending, ReadRequest, Decide, ChangesRole, Archive, Restore, CreateAccessRequest,
       ReadOwnRequest, CancelAccessRequest,
       Refuse, Continue, Raised, Purger
  <2> QED
    BY <1>1, <2>1, <2>2 DEF TypeOK
<1> QED
  BY <1>12, <1>13, <1>14 DEF Base, TypeOK

------------------------------------------------------------------------------
(* An owner remains.                                                       *)

LEMMA CrossNext ==
  ASSUME IInv, [Next]_vars
  PROVE  CrossOK' /\ crossed \subseteq crossed'
<1>1. CASE Next
  <2>1. Crossings' \subseteq crossed' /\ crossed \subseteq crossed'
    BY <1>1 DEF Next
  <2>2. /\ OwnersCross' => "owners" \in Crossings'
        /\ DecisionsCross' => "decisions" \in Crossings'
    BY DEF Crossings
  <2> QED
    BY <2>1, <2>2 DEF CrossOK
<1>2. CASE UNCHANGED vars
  BY <1>2 DEF IInv, vars, CrossOK, OwnersCross, DecisionsCross, Deciding, Takes, At
<1> QED
  BY <1>1, <1>2

(* Where the owners stay and nobody sets about taking one, all is well.    *)
LEMMA OwnersKept ==
  ASSUME IInv, crossed \subseteq crossed', Exists' => Exists,
         \A p \in Principal : member'[p] = "owner" <=> member[p] = "owner",
         \A k \in Handler : Takes(k)' => Takes(k) /\ op'[k].who = op[k].who
  PROVE  OwnersSafe'
BY DEF IInv, OwnersSafe

(* A handler that ends, and others with it, takes no owner.                *)
LEMMA FinishTakes ==
  ASSUME IInv, NEW h \in Handler, NEW gone, Finish(h, gone)
  PROVE  \A k \in Handler : Takes(k)' =>
           /\ op'[k] = op[k] /\ op[k].phase = "checked" /\ k # h
           /\ member'[op[k].who] = "owner"
           /\ (member[op[k].who] = "owner" => Takes(k))
BY FinishFacts, IdleType DEF IInv, Takes

LEMMA OwnersNext ==
  ASSUME IInv, [Next]_vars
  PROVE  OwnersSafe'
<1>1. /\ TypeOK /\ (\A k \in Handler : LocalOK(k)) /\ RequesterOK
      /\ NotYet /\ CrossOK /\ OwnersSafe
  BY DEF IInv
<1>2. crossed \subseteq crossed' /\ CrossOK'
  BY CrossNext
<1>3. member \in [Principal -> Role \cup {"none"}] /\ op \in [Handler -> Operation]
  BY <1>1 DEF TypeOK
<1>4. ASSUME UNCHANGED member, \A k \in Handler : op'[k] = op[k] \/ op'[k] = Idle,
             Exists' => Exists
      PROVE  OwnersSafe'
  <2>1. \A k \in Handler : Takes(k)' => Takes(k) /\ op'[k].who = op[k].who
    BY <1>4, IdleType DEF Takes
  <2> QED
    BY <1>2, <1>4, <2>1, OwnersKept
<1>5. CASE UNCHANGED vars
  BY <1>4, <1>5 DEF vars
<1>6. ASSUME NEW u \in User, CreateProject(u) PROVE OwnersSafe'
  <2>1. /\ member' = [member EXCEPT ![u] = "owner"]
        /\ \A k \in Handler : op'[k] = Idle
    BY <1>1, <1>6 DEF CreateProject, NotYet
  <2> QED
    BY <1>3, <2>1, IdleType DEF OwnersSafe, Takes
<1>7. ASSUME NEW h \in Handler, NEW u \in User, Begin(h, u) PROVE OwnersSafe'
  <2>1. \E o : o.phase = "authorized" /\ Start(h, u, o)
    BY <1>7 DEF Begin, StartAdd, StartUpdate, StartRemove, StartRequest, StartDecide,
                StartRetention, Idle
  <2>2. PICK o : o.phase = "authorized" /\ Start(h, u, o)
    BY <2>1
  <2>3. /\ op' = [op EXCEPT ![h] = o] /\ UNCHANGED <<project, member>>
    BY <2>2 DEF Start
  <2>4. \A k \in Handler : Takes(k)' => Takes(k) /\ op'[k].who = op[k].who
    BY <1>3, <2>2, <2>3 DEF Takes
  <2> QED
    BY <1>2, <2>3, <2>4, OwnersKept
<1>8. ASSUME NEW h \in Handler, Refuse(h) PROVE OwnersSafe'
  BY <1>1, <1>4, <1>8, FinishFacts DEF Refuse
<1>9. ASSUME NEW h \in Handler, AddMembership(h) PROVE OwnersSafe'
  <2>1. op[h].who \in Principal /\ op[h].role # "owner" /\ UNCHANGED project
    BY <1>1, <1>9, GrantedRoles DEF AddMembership, At, LocalOK
  <2>2. \/ member' = member
        \/ member[op[h].who] = "none" /\ member' = [member EXCEPT ![op[h].who] = op[h].role]
    BY <1>9 DEF AddMembership
  <2>3. \A p \in Principal : member'[p] = "owner" <=> member[p] = "owner"
    BY <1>3, <2>1, <2>2
  <2>4. \A k \in Handler : op'[k] = op[k] \/ op'[k] = Idle
    BY <1>1, <1>9, FinishFacts DEF AddMembership
  <2>5. \A k \in Handler : Takes(k) \/ Takes(k)' => op[k].kind \in {"update", "remove", "decide"}
    BY <2>4, IdleType DEF Takes
  <2>6. \A k \in Handler : op[k].kind \in {"update", "remove", "decide"} => op[k].who \in Principal
    BY <1>1 DEF LocalOK, RequesterOK
  <2>7. \A k \in Handler : Takes(k)' => Takes(k) /\ op'[k].who = op[k].who
    BY <2>3, <2>4, <2>6, IdleType DEF Takes
  <2> QED
    BY <1>2, <2>1, <2>3, <2>7, OwnersKept
<1>10. \A k \in Handler : Takes(k) => op[k].who \in Principal
  BY <1>1 DEF Takes, LocalOK, RequesterOK
<1>11. \A k \in Handler : op[k].kind \in {"update", "remove", "decide"} => op[k].who \in Principal
  BY <1>1 DEF LocalOK, RequesterOK
<1>12. ASSUME NEW h \in Handler, NEW phase \in {"looked", "checked"},
              NEW read \in Role \cup {"none"}, Continue(h, phase, read),
              phase = "checked" /\ op[h].kind \in {"update", "remove", "decide"} =>
                read = member[op[h].who],
              phase = "checked" /\ op[h].kind \in {"update", "remove"} =>
                ~TakesFinalOwner(op[h])
       PROVE  OwnersSafe'
  <2>1. /\ op'[h].kind = op[h].kind /\ op'[h].phase = phase
        /\ op'[h].who = op[h].who /\ op'[h].role = op[h].role /\ op'[h].read = read
        /\ \A k \in Handler : k # h => op'[k] = op[k]
        /\ UNCHANGED <<project, member>>
    BY <1>1, <1>12, ContinueFacts DEF Continue
  <2>2. \A k \in Handler : k # h => (Takes(k)' <=> Takes(k))
    BY <2>1 DEF Takes
  <2>3. Takes(h)' => \E p \in Principal : member[p] = "owner" /\ p # op[h].who
    <3> SUFFICES ASSUME Takes(h)'
                 PROVE  \E p \in Principal : member[p] = "owner" /\ p # op[h].who
      OBVIOUS
    <3>1. /\ phase = "checked" /\ member[op[h].who] = "owner"
          /\ op[h].kind \in {"update", "remove", "decide"}
      BY <2>1 DEF Takes
    <3>2. op[h].kind \in {"update", "remove"}
      BY <1>12, <2>1, <3>1 DEF Takes
    <3>3. op[h].role # "owner" /\ op[h].who \in Principal
      BY <1>1, <1>11, <2>1, <3>2 DEF Takes, LocalOK
    <3>4. Owners # {op[h].who} /\ op[h].who \in Owners
      BY <1>12, <3>1, <3>2, <3>3 DEF TakesFinalOwner, Owners
    <3> QED
      BY <3>4 DEF Owners
  <2> QED
    BY <1>1, <1>2, <2>1, <2>2, <2>3 DEF OwnersSafe
<1>13. ASSUME NEW h \in Handler, ListMembers(h) PROVE OwnersSafe'
  BY <1>8, <1>12, <1>13 DEF ListMembers
<1>14. ASSUME NEW h \in Handler, CheckMembership(h) PROVE OwnersSafe'
  <2>1. op[h].kind \in {"update", "remove"} /\ op[h].who \in Principal
    BY <1>11, <1>14 DEF CheckMembership, At
  <2>2. \/ Refuse(h)
        \/ ~TakesFinalOwner(op[h]) /\ Continue(h, "checked", member[op[h].who])
    BY <1>14 DEF CheckMembership
  <2>3. member[op[h].who] \in Role \cup {"none"}
    BY <1>3, <2>1
  <2> QED
    BY <1>8, <1>12, <2>2, <2>3
<1>15. ASSUME NEW h \in Handler, FindPending(h) PROVE OwnersSafe'
  <2>1. op[h].kind = "request"
    BY <1>15 DEF FindPending, At
  <2> QED
    BY <1>8, <1>12, <1>15, <2>1 DEF FindPending
<1>16. ASSUME NEW h \in Handler, ReadRequest(h) PROVE OwnersSafe'
  <2>1. op[h].kind = "decide" /\ op[h].who \in Principal
    BY <1>11, <1>16 DEF ReadRequest, At
  <2>2. member[op[h].who] \in Role \cup {"none"}
    BY <1>3, <2>1
  <2> QED
    BY <1>8, <1>12, <1>16, <2>1, <2>2 DEF ReadRequest
<1>17. ASSUME NEW h \in Handler, NEW p \in Principal, NEW gone, Finish(h, gone), UNCHANGED project,
              NEW role \in Role \cup {"none"}, member' = [member EXCEPT ![p] = role],
              op[h].who = p,
              role # "owner" /\ member[p] = "owner" => Takes(h)
       PROVE  OwnersSafe'
  <2> SUFFICES ASSUME Exists', "owners" \notin crossed'
               PROVE  /\ \E o \in Principal : member'[o] = "owner"
                      /\ \A k \in Handler : Takes(k)' =>
                           \E o \in Principal : member'[o] = "owner" /\ o # op'[k].who
    BY DEF OwnersSafe
  <2>1. /\ Exists /\ "owners" \notin crossed /\ ~OwnersCross
        /\ \E o \in Principal : member[o] = "owner"
        /\ \A k \in Handler : Takes(k) =>
             \E o \in Principal : member[o] = "owner" /\ o # op[k].who
    BY <1>1, <1>2, <1>17 DEF OwnersSafe, CrossOK
  <2>2. \A k \in Handler : Takes(k)' =>
           /\ op'[k] = op[k] /\ k # h
           /\ member'[op[k].who] = "owner" /\ (member[op[k].who] = "owner" => Takes(k))
    BY <1>17, FinishTakes
  <2>3. member'[p] = role /\ \A o \in Principal \ {p} : member'[o] = member[o]
    BY <1>3, <1>17
  <2>4. CASE role = "owner"
    <3>1. ASSUME NEW k \in Handler, Takes(k)'
          PROVE  \E o \in Principal : member'[o] = "owner" /\ o # op'[k].who
      <4>1. CASE member[op[k].who] = "owner"
        BY <2>1, <2>2, <2>3, <2>4, <3>1, <4>1
      <4>2. CASE member[op[k].who] # "owner"
        BY <2>1, <2>2, <2>3, <2>4, <3>1, <4>2
      <4> QED
        BY <4>1, <4>2
    <3> QED
      BY <2>3, <2>4, <3>1
  <2>5. CASE role # "owner" /\ member[p] # "owner"
    BY <2>1, <2>2, <2>3, <2>5
  <2>6. CASE role # "owner" /\ member[p] = "owner"
    <3>1. Takes(h)
      BY <1>17, <2>6
    <3>2. ASSUME NEW k \in Handler, Takes(k)' PROVE FALSE
      <4>1. op'[k] = op[k] /\ member'[op[k].who] = "owner" /\ op[k].who # p
        BY <2>2, <2>3, <2>6, <3>2
      <4>2. op'[k].who \in Principal
        <5>1. op[k].kind \in {"update", "remove", "decide"}
          BY <3>2, <4>1 DEF Takes
        <5> QED
          BY <1>11, <4>1, <5>1
      <4>3. Takes(k)
        BY <2>2, <2>3, <3>2, <4>1, <4>2
      <4> QED
        BY <1>17, <2>1, <3>1, <4>1, <4>3 DEF OwnersCross
    <3> QED
      BY <1>17, <2>1, <2>3, <3>1, <3>2
  <2> QED
    BY <2>4, <2>5, <2>6
<1>18. ASSUME NEW h \in Handler, WriteRole(h) PROVE OwnersSafe'
  <2>1. /\ op[h].kind = "update" /\ op[h].phase = "checked"
        /\ op[h].who \in Principal /\ op[h].role \in Role
        /\ Finish(h, {}) /\ UNCHANGED project
    BY <1>1, <1>18, GrantedRoles DEF WriteRole, At, LocalOK, Role
  <2>2. CASE op[h].read = op[h].role
    BY <1>1, <1>4, <1>18, <2>1, <2>2, FinishFacts DEF WriteRole
  <2>3. CASE op[h].read # op[h].role
    <3>1. member' = [member EXCEPT ![op[h].who] = op[h].role]
      BY <1>18, <2>3 DEF WriteRole
    <3>2. op[h].role # "owner" /\ member[op[h].who] = "owner" => Takes(h)
      BY <2>1, <2>3 DEF Takes
    <3> QED
      BY <1>17, <2>1, <3>1, <3>2
  <2> QED
    BY <2>2, <2>3
<1>19. ASSUME NEW h \in Handler, DeleteRow(h) PROVE OwnersSafe'
  <2>1. /\ op[h].kind = "remove" /\ op[h].phase = "checked" /\ op[h].who \in Principal
        /\ Finish(h, {op[h].who}) /\ UNCHANGED project
        /\ member' = [member EXCEPT ![op[h].who] = "none"]
    BY <1>1, <1>19 DEF DeleteRow, At, LocalOK
  <2>2. member[op[h].who] = "owner" => Takes(h)
    BY <2>1 DEF Takes
  <2> QED
    BY <1>17, <2>1, <2>2
<1>20. ASSUME NEW h \in Handler, Decide(h) PROVE OwnersSafe'
  <2>1. /\ op[h].kind = "decide" /\ op[h].phase = "checked" /\ op[h].who \in Principal
        /\ Finish(h, {}) /\ UNCHANGED project
        /\ op[h].role \in Granted \cup {"denied"}
    BY <1>1, <1>11, <1>20 DEF Decide, ChangesRole, At, LocalOK
  <2>2. CASE UNCHANGED member
    BY <1>1, <1>4, <2>1, <2>2, FinishFacts
  <2>3. CASE ~UNCHANGED member
    <3>1. /\ member' = [member EXCEPT ![op[h].who] = op[h].role]
          /\ op[h].role # "denied"
          /\ \/ member[op[h].who] = "none"
             \/ op[h].read \notin {"none", "owner", op[h].role}
      BY <1>20, <2>3 DEF Decide, ChangesRole
    <3>2. op[h].role \in Role
      BY <2>1, <3>1, GrantedRoles
    <3>3. member[op[h].who] = "owner" => Takes(h)
      BY <2>1, <3>1 DEF Takes
    <3> QED
      BY <1>17, <2>1, <3>1, <3>2, <3>3
  <2> QED
    BY <2>2, <2>3
<1>21. ASSUME NEW h \in Handler,
              \/ Archive(h) \/ Restore(h) \/ CancelAccessRequest(h)
              \/ \E q \in Request : CreateAccessRequest(h, q)
       PROVE  OwnersSafe'
  <2>1. UNCHANGED member /\ Finish(h, {}) /\ (Exists' => Exists)
    BY <1>21 DEF Archive, Restore, CreateAccessRequest, CancelAccessRequest, Exists
  <2> QED
    BY <1>1, <1>4, <2>1, FinishFacts
<1>22. CASE \/ RetentionEnds \/ ListExpired \/ Crash
            \/ \E x \in Purger : PurgeConversations(x) \/ PurgeFiles(x) \/ PurgeFails(x)
  BY <1>4, <1>22 DEF RetentionEnds, ListExpired, Crash,
                     PurgeConversations, PurgeFiles, PurgeFails
<1>23. ASSUME NEW x \in Purger, PurgeRows(x) PROVE OwnersSafe'
  <2>1. CASE project = "expired"
    BY <1>23, <2>1 DEF PurgeRows, OwnersSafe
  <2>2. CASE project # "expired"
    BY <1>4, <1>23, <2>2 DEF PurgeRows
  <2> QED
    BY <2>1, <2>2
<1>24. ASSUME NEW h \in Handler, NEW q \in Request, ReadOwnRequest(h, q) PROVE OwnersSafe'
  <2>1. /\ op' = [op EXCEPT ![h] = [Idle EXCEPT !.kind = "cancel", !.phase = "checked",
                                              !.who = request[q].by, !.q = q]]
        /\ UNCHANGED <<project, member>>
    BY <1>24 DEF ReadOwnRequest
  <2>2. op'[h].kind = "cancel" /\ \A k \in Handler : k # h => op'[k] = op[k]
    BY <1>1, <2>1 DEF TypeOK, Idle
  <2>3. \A k \in Handler : Takes(k)' => Takes(k) /\ op'[k].who = op[k].who
    BY <2>1, <2>2 DEF Takes
  <2> QED
    BY <1>2, <2>1, <2>3, OwnersKept DEF Exists
<1> QED
  BY <1>5, <1>6, <1>7, <1>9, <1>13, <1>14, <1>15, <1>16, <1>18, <1>19, <1>20, <1>21, <1>22, <1>23,
     <1>24
  DEF Next, Step, Fault, Act, Purge

------------------------------------------------------------------------------
(* A request that is being decided is pending.                             *)

LEMMA PendingNext ==
  ASSUME IInv, [Next]_vars
  PROVE  PendingOK'
<1>1. TypeOK /\ (\A k \in Handler : LocalOK(k)) /\ CrossOK /\ PendingOK
  BY DEF IInv
<1>2. /\ op \in [Handler -> Operation] /\ request \in [Request -> AccessRequestRow]
      /\ member \in [Principal -> Role \cup {"none"}]
  BY <1>1 DEF TypeOK
<1> SUFFICES ASSUME "decisions" \notin crossed', NEW h \in Handler, NEW q \in Request,
                    Deciding(h, q)'
             PROVE  request'[q].status = "pending"
  BY DEF PendingOK
<1>3. /\ ~DecisionsCross
      /\ \A k \in Handler, r \in Request : Deciding(k, r) => request[r].status = "pending"
  BY <1>1, CrossNext DEF CrossOK, PendingOK
<1>4. /\ op'[h].phase = "checked" /\ op'[h].kind \in {"decide", "cancel"} /\ op'[h].q = q
      /\ op'[h] # Idle
  BY IdleType DEF Deciding, At
(* What h is about to write it has been about to write before.             *)
<1>5. ASSUME op'[h] = op[h], request'[q] = request[q]
      PROVE  request'[q].status = "pending"
  BY <1>3, <1>4, <1>5 DEF Deciding, At
<1>6. ASSUME UNCHANGED <<op, request>> PROVE request'[q].status = "pending"
  BY <1>5, <1>6
<1>7. ASSUME NEW k \in Handler, NEW gone, Finish(k, gone), UNCHANGED request
      PROVE  request'[q].status = "pending"
  BY <1>1, <1>4, <1>5, <1>7, FinishFacts
<1>8. ASSUME NEW k \in Handler, NEW phase \in {"looked", "checked"},
             NEW read \in Role \cup {"none"}, Continue(k, phase, read),
             op[k].kind \notin {"decide", "cancel"}
      PROVE  request'[q].status = "pending"
  <2>1. h # k /\ op'[h] = op[h]
    BY <1>1, <1>4, <1>8, ContinueFacts
  <2> QED
    BY <1>5, <1>8, <2>1 DEF Continue
<1>9. ASSUME NEW k \in Handler, NEW u \in User, Begin(k, u)
      PROVE  request'[q].status = "pending"
  <2>1. PICK o : o.phase = "authorized" /\ op' = [op EXCEPT ![k] = o] /\ UNCHANGED request
    BY <1>9 DEF Begin, StartAdd, StartUpdate, StartRemove, StartRequest, StartDecide,
                StartRetention, Start, Idle
  <2> QED
    BY <1>2, <1>4, <1>5, <2>1
<1>10. ASSUME NEW k \in Handler,
              \/ AddMembership(k) \/ WriteRole(k) \/ DeleteRow(k) \/ Archive(k) \/ Restore(k)
       PROVE  request'[q].status = "pending"
  BY <1>7, <1>10 DEF AddMembership, WriteRole, DeleteRow, Archive, Restore
<1>11. ASSUME NEW k \in Handler, Refuse(k) PROVE request'[q].status = "pending"
  BY <1>7, <1>11 DEF Refuse
<1>12. ASSUME NEW k \in Handler, ListMembers(k) \/ CheckMembership(k) \/ FindPending(k)
       PROVE  request'[q].status = "pending"
  <2>1. op[k].kind \in {"remove", "update", "request"}
    BY <1>12 DEF ListMembers, CheckMembership, FindPending, At
  <2>2. \/ Refuse(k) \/ Continue(k, "looked", "none") \/ Continue(k, "checked", "none")
        \/ Continue(k, "checked", member[op[k].who]) /\ op[k].kind \in {"remove", "update"}
    BY <1>12 DEF ListMembers, CheckMembership, FindPending, At
  <2>3. op[k].kind \in {"remove", "update"} => member[op[k].who] \in Role \cup {"none"}
    BY <1>1, <1>2 DEF LocalOK
  <2> QED
    BY <1>8, <1>11, <2>1, <2>2, <2>3
<1>13. ASSUME NEW k \in Handler, ReadRequest(k) PROVE request'[q].status = "pending"
  <2>1. CASE Refuse(k)
    BY <1>11, <2>1
  <2>2. CASE ~Refuse(k)
    <3>1. /\ request[op[k].q].status = "pending" /\ UNCHANGED request
          /\ op'[k].q = op[k].q /\ \A j \in Handler : j # k => op'[j] = op[j]
      <4>1. Continue(k, "checked", member[op[k].who]) /\ request[op[k].q].status = "pending"
        BY <1>13, <2>2 DEF ReadRequest, CheckPending
      <4>2. op[k].kind = "decide" /\ op[k].phase = "authorized"
        BY <1>13 DEF ReadRequest, At
      <4>3. member[op[k].who] \in Role \cup {"none"}
        BY <1>1, <1>2, <4>2 DEF LocalOK, IInv, RequesterOK, TypeOK
      <4> QED
        BY <1>1, <4>1, <4>3, ContinueFacts DEF Continue
    <3> QED
      BY <1>4, <1>5, <3>1
  <2> QED
    BY <2>1, <2>2
<1>14. ASSUME NEW k \in Handler, NEW r \in Request, ReadOwnRequest(k, r)
       PROVE  request'[q].status = "pending"
  <2>1. /\ request[r].status = "pending" /\ UNCHANGED request
        /\ op'[k].q = r /\ \A j \in Handler : j # k => op'[j] = op[j]
    BY <1>2, <1>14 DEF ReadOwnRequest, CheckPending, Idle
  <2> QED
    BY <1>4, <1>5, <2>1
<1>15. ASSUME NEW k \in Handler, NEW r \in Request, CreateAccessRequest(k, r)
       PROVE  request'[q].status = "pending"
  <2>1. /\ request' = [request EXCEPT ![r] = [by |-> op[k].who, status |-> "pending"]]
        /\ Finish(k, {})
    BY <1>15 DEF CreateAccessRequest
  <2>2. op'[h] = op[h]
    BY <1>1, <1>4, <2>1, FinishFacts
  <2> QED
    BY <1>2, <1>5, <2>1, <2>2
<1>16. ASSUME NEW k \in Handler, Decide(k) \/ CancelAccessRequest(k)
       PROVE  request'[q].status = "pending"
  <2>1. /\ Finish(k, {})
        /\ op[k].phase = "checked" /\ op[k].kind \in {"decide", "cancel"}
        /\ \/ UNCHANGED request
           \/ \E s : request' = [request EXCEPT ![op[k].q] = [@ EXCEPT !.status = s]]
    BY <1>16 DEF Decide, ChangesRole, CancelAccessRequest, At
  <2>2. op'[h] = op[h] /\ h # k
    BY <1>1, <1>4, <2>1, FinishFacts
  <2>3. op[k].q # q
    <3>1. Deciding(h, q)
      BY <1>4, <2>2 DEF Deciding, At
    <3>2. ~Deciding(k, q)
      BY <1>3, <2>2, <3>1 DEF DecisionsCross
    <3> QED
      BY <2>1, <3>2 DEF Deciding, At
  <2>4. request'[q] = request[q]
    BY <1>2, <2>1, <2>3
  <2> QED
    BY <1>5, <2>2, <2>4
<1>17. ASSUME NEW x \in Purger, Purge(x) PROVE request'[q].status = "pending"
  <2>1. UNCHANGED <<op, request>> \/ op' = [k \in Handler |-> Idle]
    BY <1>17 DEF Purge, PurgeRows, PurgeConversations, PurgeFiles
  <2> QED
    BY <1>4, <1>6, <2>1
<1>18. ASSUME Fault PROVE request'[q].status = "pending"
  <2>1. UNCHANGED <<op, request>> \/ op' = [k \in Handler |-> Idle]
    BY <1>18 DEF Fault, Crash, PurgeFails
  <2> QED
    BY <1>4, <1>6, <2>1
<1>19. ASSUME \/ \E u \in User : CreateProject(u)
              \/ RetentionEnds \/ ListExpired \/ UNCHANGED vars
       PROVE  request'[q].status = "pending"
  BY <1>6, <1>19 DEF CreateProject, RetentionEnds, ListExpired, vars
<1> QED
  BY <1>9, <1>10, <1>12, <1>13, <1>14, <1>15, <1>16, <1>17, <1>18, <1>19
  DEF Next, Step, Act

------------------------------------------------------------------------------
(* What is left of a project.                                              *)

LEMMA PurgeNext ==
  ASSUME IInv, [Next]_vars
  PROVE  LeftToPurge'
<1>1. /\ TypeOK /\ LeftToPurge
  BY DEF IInv
<1>2. content \subseteq {"conversations", "files"} /\ purge \in [Purger -> {"waiting", "rows", "conversations", "files", "dead"}]
  BY <1>1 DEF TypeOK
<1>3. crossed \subseteq crossed'
  BY CrossNext
<1>4. ASSUME UNCHANGED <<content, purge>>, project' = "gone" => project = "gone"
      PROVE  LeftToPurge'
  BY <1>1, <1>3, <1>4 DEF LeftToPurge
<1>5. CASE UNCHANGED vars
  BY <1>4, <1>5 DEF vars
<1>6. ASSUME NEW u \in User, CreateProject(u) PROVE LeftToPurge'
  BY <1>6 DEF CreateProject, LeftToPurge
<1>7. ASSUME NEW h \in Handler, NEW u \in User, Begin(h, u) PROVE LeftToPurge'
  <2>1. UNCHANGED <<project, content, purge>>
    BY <1>7 DEF Begin, StartAdd, StartUpdate, StartRemove, StartRequest, StartDecide,
                StartRetention, Start
  <2> QED
    BY <1>4, <2>1
<1>8. ASSUME NEW h \in Handler, Act(h) PROVE LeftToPurge'
  <2>1. UNCHANGED <<content, purge>>
    BY <1>8 DEF Act, AddMembership, ListMembers, CheckMembership, WriteRole, DeleteRow,
                FindPending, ReadRequest, Decide, ChangesRole, Archive, Restore, CreateAccessRequest,
                ReadOwnRequest, CancelAccessRequest,
                Refuse, Continue
  <2>2. project' = "gone" => project = "gone"
    BY <1>8 DEF Act, AddMembership, ListMembers, CheckMembership, WriteRole, DeleteRow,
                FindPending, ReadRequest, Decide, ChangesRole, Archive, Restore, CreateAccessRequest,
                ReadOwnRequest, CancelAccessRequest,
                Refuse, Continue
  <2> QED
    BY <1>4, <2>1, <2>2
<1>9. ASSUME RetentionEnds PROVE LeftToPurge'
  BY <1>4, <1>9 DEF RetentionEnds
<1>10. ASSUME ListExpired PROVE LeftToPurge'
  BY <1>10 DEF ListExpired, LeftToPurge
<1>11. ASSUME NEW x \in Purger, PurgeRows(x) PROVE LeftToPurge'
  <2>1. CASE project = "expired"
    <3>1. project' = "gone" /\ purge' = [purge EXCEPT ![x] = "conversations"]
      BY <1>11, <2>1 DEF PurgeRows
    <3>2. purge'[x] = "conversations"
      BY <1>2, <3>1
    <3> QED
      BY <1>11, <3>2 DEF LeftToPurge
  <2>2. CASE project # "expired"
    <3>1. UNCHANGED <<project, content>>
      BY <1>11, <2>2 DEF PurgeRows
    <3>2. purge[x] \in {"rows", "waiting"}
      BY <1>11 DEF PurgeRows
    <3>3. \A y \in Purger : y # x => purge'[y] = purge[y]
      BY <1>2, <1>11, <2>2 DEF PurgeRows, Raised
    <3> QED
      BY <1>1, <1>3, <3>1, <3>2, <3>3 DEF LeftToPurge
  <2> QED
    BY <2>1, <2>2
<1>12. ASSUME NEW x \in Purger, PurgeConversations(x) PROVE LeftToPurge'
  <2>1. /\ UNCHANGED project /\ content' = content \ {"conversations"}
        /\ purge'[x] = "files"
    BY <1>2, <1>12 DEF PurgeConversations
  <2> QED
    BY <1>12, <2>1 DEF LeftToPurge
<1>13. ASSUME NEW x \in Purger, PurgeFiles(x) PROVE LeftToPurge'
  <2>1. /\ UNCHANGED project /\ content' = content \ {"files"}
        /\ purge[x] = "files" /\ \A y \in Purger : y # x => purge'[y] = purge[y]
    BY <1>2, <1>13 DEF PurgeFiles
  <2> QED
    BY <1>1, <1>3, <2>1 DEF LeftToPurge
<1>14. ASSUME Fault, crossed' = crossed \cup Crossings' \cup PurgeCut PROVE LeftToPurge'
  <2>1. UNCHANGED <<project, content>>
    BY <1>14 DEF Fault, Crash, PurgeFails
  <2>2. CASE \E x \in Purger : purge[x] \in {"conversations", "files"} /\ purge'[x] # purge[x]
    BY <1>14, <2>2 DEF PurgeCut, LeftToPurge
  <2>3. CASE \A x \in Purger : purge[x] \in {"conversations", "files"} => purge'[x] = purge[x]
    BY <1>1, <1>3, <2>1, <2>3 DEF LeftToPurge
  <2> QED
    BY <2>2, <2>3
<1> QED
  BY <1>5, <1>6, <1>7, <1>8, <1>9, <1>10, <1>11, <1>12, <1>13, <1>14 DEF Next, Step, Purge

------------------------------------------------------------------------------
(* The invariant.                                                          *)

LEMMA InitIInv ==
  ASSUME Init
  PROVE  IInv
<1>1. \A h \in Handler : op[h] = Idle
  BY DEF Init
<1>2. TypeOK
  BY IdleType DEF Init, TypeOK, AccessRequestRow, Purger
<1>3. \A h \in Handler : /\ LocalOK(h) /\ ~Takes(h)
                        /\ ~At(h, "decide", "checked") /\ ~At(h, "cancel", "checked")
  BY <1>1, IdleType DEF LocalOK, Takes, At
<1>4. RequesterOK /\ NotYet /\ GroupsOwnNothing /\ OwnersSafe /\ LeftToPurge
  BY <1>1 DEF Init, RequesterOK, NotYet, GroupsOwnNothing, OwnersSafe, LeftToPurge
<1>5. CrossOK /\ PendingOK
  BY <1>3 DEF CrossOK, PendingOK, OwnersCross, DecisionsCross, Deciding
<1> QED
  BY <1>2, <1>3, <1>4, <1>5 DEF IInv

LEMMA NextIInv ==
  ASSUME IInv, [Next]_vars
  PROVE  IInv'
BY BaseNext, CrossNext, OwnersNext, PendingNext, PurgeNext DEF Base, IInv

(* The inductive invariant holds of every reachable state.                 *)
THEOREM Invariant == Spec => []IInv
<1>1. Init => IInv
  BY InitIInv
<1>2. IInv /\ [Next]_vars => IInv'
  BY NextIInv
<1> QED
  BY <1>1, <1>2, PTL DEF Spec

(* The rows, what the handlers have read and where the purges are keep     *)
(* their types.                                                            *)
THEOREM TypeCorrect == Spec => []TypeOK
<1>1. IInv => TypeOK
  BY DEF IInv
<1> QED
  BY <1>1, Invariant, PTL

(* The project has an owner, a user, for as long as no two transactions    *)
(* take ownership at once (set_member, remove_member).                     *)
THEOREM AnOwnerRemains == Spec => []OwnerRemains
<1>1. IInv => OwnerRemains
  <2> SUFFICES ASSUME IInv PROVE OwnerRemains
    OBVIOUS
  <2>1. GroupsOwnNothing /\ OwnersSafe
    BY DEF IInv
  <2> QED
    BY <2>1 DEF OwnerRemains, OwnersSafe, GroupsOwnNothing
<1> QED
  BY <1>1, Invariant, PTL

(* What purge_expired has begun it ends, or a fault is on record.          *)
THEOREM NothingIsLeft == Spec => []PurgeLeavesNothing
<1>1. IInv => PurgeLeavesNothing
  <2> SUFFICES ASSUME IInv PROVE PurgeLeavesNothing
    OBVIOUS
  <2>1. content \subseteq {"conversations", "files"} /\ LeftToPurge
    BY DEF IInv, TypeOK
  <2> QED
    BY <2>1 DEF PurgeLeavesNothing, LeftToPurge
<1> QED
  BY <1>1, Invariant, PTL

(* A step that changes a request, while no decision and no cancellation is *)
(* at odds with another transaction, finds it undecided, and an approval   *)
(* makes who asked a member.                                               *)
LEMMA DecisionStands ==
  ASSUME IInv, [Next]_vars, NEW q \in Request, Exists',
         crossed' \cap {"decisions"} = {}, request[q] # request'[q]
  PROVE  /\ request[q].status \in {"none", "pending"}
         /\ request'[q].status = "approved" =>
              /\ member'[request[q].by] # "none"
              /\ member[request[q].by] = "owner" => member'[request[q].by] = "owner"
<1>1. /\ TypeOK /\ (\A k \in Handler : LocalOK(k)) /\ RequesterOK /\ CrossOK
  BY DEF IInv
<1>2. /\ ~DecisionsCross
      /\ \A h \in Handler, r \in Request : Deciding(h, r) => request[r].status = "pending"
  BY <1>1, CrossNext DEF CrossOK, PendingOK, IInv
<1>3. /\ request \in [Request -> AccessRequestRow] /\ member \in [Principal -> Role \cup {"none"}]
  BY <1>1 DEF TypeOK
<1>4. ASSUME NEW h \in Handler, NEW r \in Request, CreateAccessRequest(h, r)
      PROVE  request[q].status = "none" /\ request'[q].status # "approved"
  <2>1. /\ request[r].status = "none"
        /\ request' = [request EXCEPT ![r] = [by |-> op[h].who, status |-> "pending"]]
    BY <1>4 DEF CreateAccessRequest
  <2> QED
    BY <1>3, <2>1
<1>5. ASSUME NEW h \in Handler, CancelAccessRequest(h)
      PROVE  request[q].status = "pending" /\ request'[q].status # "approved"
  <2>1. At(h, "cancel", "checked")
    BY <1>5 DEF CancelAccessRequest
  <2>2. request[op[h].q].status = "pending" /\ op[h].q \in Request
    BY <1>1, <1>2, <2>1 DEF Deciding, LocalOK, At
  <2>3. request' = [request EXCEPT ![op[h].q] = [@ EXCEPT !.status = "cancelled"]]
    BY <1>5 DEF CancelAccessRequest
  <2>4. op[h].q = q
    BY <1>3, <2>3
  <2>5. request'[q].status = "cancelled"
    BY <1>3, <2>3, <2>4 DEF AccessRequestRow
  <2> QED
    BY <2>2, <2>4, <2>5
<1>6. ASSUME NEW h \in Handler, Decide(h)
      PROVE  /\ request[q].status = "pending"
             /\ request'[q].status = "approved" =>
                  /\ member'[request[q].by] # "none"
                  /\ member[request[q].by] = "owner" => member'[request[q].by] = "owner"
  <2> DEFINE o == op[h]
             granted == o.role # "denied"
             inserts == granted /\ o.read = "none"
             updates == granted /\ o.read \notin {"none", "owner", o.role}
  <2>1. At(h, "decide", "checked")
    BY <1>6 DEF Decide, ChangesRole
  <2>2. request[o.q].status = "pending" /\ member[o.who] = o.read
    BY <1>1, <1>2, <2>1 DEF DecisionsCross, Deciding, LocalOK, At
  <2>3. o.q \in Request /\ request[o.q].by = o.who /\ o.role \in Granted \cup {"denied"}
        /\ o.who \in Principal
    BY <1>1, <2>1, <2>2 DEF LocalOK, At, RequesterOK
  <2>4. /\ request' = [request EXCEPT ![o.q] =
                         [@ EXCEPT !.status = IF granted THEN "approved" ELSE "denied"]]
        /\ member' = IF inserts \/ updates THEN [member EXCEPT ![o.who] = o.role]
                     ELSE member
    BY <1>6, <2>2 DEF Decide, ChangesRole
  <2>5. q = o.q
    BY <1>3, <2>3, <2>4
  <2>6. granted <=> request'[q].status = "approved"
    BY <1>3, <2>3, <2>4, <2>5 DEF AccessRequestRow
  <2>7. granted => o.role # "none"
    BY <2>3, GrantedRoles
  <2>8. granted => member'[o.who] # "none"
    BY <1>3, <2>2, <2>3, <2>4, <2>7
  <2>9. member[o.who] = "owner" => member'[o.who] = "owner"
    BY <1>3, <2>2, <2>3, <2>4
  <2> QED
    BY <2>2, <2>3, <2>5, <2>6, <2>8, <2>9
<1>7. \/ \E h \in Handler, r \in Request : CreateAccessRequest(h, r)
      \/ \E h \in Handler : Decide(h) \/ CancelAccessRequest(h)
  <2>1. request' # request
    OBVIOUS
  <2>2. ~(\E u \in User : CreateProject(u) \/ \E h \in Handler : Begin(h, u))
    BY <2>1 DEF CreateProject, Begin, StartAdd, StartUpdate, StartRemove, StartRequest,
                StartDecide, StartRetention, Start
  <2>3. ~(RetentionEnds \/ ListExpired \/ Fault \/ UNCHANGED vars)
    BY <2>1 DEF RetentionEnds, ListExpired, Fault, Crash, PurgeFails, vars
  <2>4. ~(\E x \in Purger : Purge(x))
    BY <2>1 DEF Purge, PurgeRows, PurgeConversations, PurgeFiles
  <2>5. \A h \in Handler : Act(h) => \/ Decide(h) \/ CancelAccessRequest(h)
                                    \/ \E r \in Request : CreateAccessRequest(h, r)
    BY <2>1 DEF Act, AddMembership, ListMembers, CheckMembership, WriteRole, DeleteRow,
                FindPending, ReadRequest, ReadOwnRequest, Archive, Restore, Refuse, Continue
  <2> QED
    BY <2>2, <2>3, <2>4, <2>5 DEF Next, Step
<1> QED
  BY <1>4, <1>5, <1>6, <1>7

(* Requests are decided or cancelled once, and by what is so, unless one   *)
(* of the two overtakes the other (decide_access_request,                  *)
(* cancel_access_request).                                                 *)
THEOREM DecisionsHold == Spec => DecisionsStand
<1> DEFINE Stands(q) ==
      LET before == request[q] after == request'[q] IN
      Exists' /\ crossed' \cap {"decisions"} = {} /\ before # after =>
        /\ before.status \in {"none", "pending"}
        /\ after.status = "approved" =>
             /\ member'[before.by] # "none"
             /\ member[before.by] = "owner" => member'[before.by] = "owner"
<1>1. IInv /\ [Next]_vars => [\A q \in Request : Stands(q)]_vars
  <2> SUFFICES ASSUME IInv, [Next]_vars PROVE \A q \in Request : Stands(q)
    OBVIOUS
  <2> QED
    BY DecisionStands
<1> QED
  BY <1>1, Invariant, PTL DEF Spec, DecisionsStand

==============================================================================
