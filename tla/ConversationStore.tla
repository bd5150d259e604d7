-------------------------- MODULE ConversationStore --------------------------
(***************************************************************************)
(* What a conversation store promises: every operation happens at once.    *)
(* This is the store that keeps its conversations in memory, each of whose *)
(* operations runs under one lock; the SQL store implements it except      *)
(* where a decision was overtaken before it was written (Conversations).   *)
(* Times are abstracted: a lease is live until it lapses, and any archived *)
(* conversation may be old enough to be cleaned up.                        *)
(***************************************************************************)
EXTENDS Naturals, Sequences, FiniteSets

CONSTANTS Conversation, RequestId, Author, MaxTurns, None

VARIABLES
  item,  \* state, name and messages of each conversation
  lease  \* of each conversation: whose it is and whether it is live

vars == <<item, lease>>

Message == [by: Author, role: {"user", "assistant"},
            status: {"completed", "failed"}]

NoLease == [holder |-> None, live |-> FALSE]

NoItem(state) == [state |-> state, name |-> "new", messages |-> <<>>]

Completed(m, role) == m.role = role /\ m.status = "completed"

(***************************************************************************)
(* The index pairs of a question and its answer: an answer closes the last *)
(* question before it, unless an earlier answer did.                       *)
(***************************************************************************)
CompleteExchanges(s) ==
  {x \in (1..Len(s)) \X (1..Len(s)) :
     /\ x[1] < x[2]
     /\ Completed(s[x[1]], "user") /\ Completed(s[x[2]], "assistant")
     /\ \A k \in (x[1] + 1)..(x[2] - 1) :
          ~Completed(s[k], "user") /\ ~Completed(s[k], "assistant")}

(* What stands in s at the indices kept, in its order.                     *)
Kept(s, kept) ==
  LET nth(i) == CHOOSE j \in kept : Cardinality({k \in kept : k <= j}) = i
  IN  [i \in 1..Cardinality(kept) |-> s[nth(i)]]

(* The messages of all but the newest MaxTurns exchanges are dropped.      *)
Pruned(s) ==
  LET later(x) == {y \in CompleteExchanges(s) : y[1] > x[1]}
      old == {x \in CompleteExchanges(s) : Cardinality(later(x)) >= MaxTurns}
  IN  Kept(s, (1..Len(s)) \ UNION {{x[1], x[2]} : x \in old})

Owned(c) == item[c].state = "active"

RejectLease(c) == lease[c].live

------------------------------------------------------------------------------

Init ==
  /\ item = [c \in Conversation |-> NoItem("none")]
  /\ lease = [c \in Conversation |-> NoLease]

Create(c) ==
  /\ item[c].state = "none"
  /\ item' = [item EXCEPT ![c] = NoItem("active")]
  /\ UNCHANGED lease

Rename(c) ==
  /\ Owned(c) /\ ~RejectLease(c)
  /\ item' = [item EXCEPT ![c].name = "given"]
  /\ UNCHANGED lease

Archive(c) ==
  /\ Owned(c) /\ ~RejectLease(c)
  /\ item' = [item EXCEPT ![c].state = "archived"]
  /\ UNCHANGED lease

Restore(c) ==
  /\ item[c].state = "archived" /\ ~RejectLease(c)
  /\ item' = [item EXCEPT ![c].state = "active"]
  /\ UNCHANGED lease

Remove(c) ==
  /\ item' = [item EXCEPT ![c] = NoItem("gone")]
  /\ lease' = [lease EXCEPT ![c] = NoLease]

Purge(c) == item[c].state = "archived" /\ ~RejectLease(c) /\ Remove(c)

Cleanup(c) == item[c].state = "archived" /\ Remove(c)

DeleteProject(c) == item[c].state \in {"active", "archived"} /\ Remove(c)

AppendMessage(c, m) ==
  /\ Owned(c)
  /\ item' = [item EXCEPT
       ![c].messages = Append(@, m),
       ![c].name = IF m.role = "user" /\ @ = "new" THEN "derived" ELSE @]
  /\ UNCHANGED lease

Prune(c) ==
  /\ item[c].state \in {"active", "archived"}
  /\ item' = [item EXCEPT ![c].messages = Pruned(@)]
  /\ UNCHANGED lease

AcquireRequest(c, id) ==
  /\ Owned(c)
  /\ lease[c].holder = id \/ ~lease[c].live
  /\ lease' = [lease EXCEPT ![c] = [holder |-> id, live |-> TRUE]]
  /\ UNCHANGED item

ReleaseRequest(c, id) ==
  /\ lease[c].holder = id
  /\ lease' = [lease EXCEPT ![c] = NoLease]
  /\ UNCHANGED item

LeaseLapses(c) ==
  /\ lease[c].live
  /\ lease' = [lease EXCEPT ![c].live = FALSE]
  /\ UNCHANGED item

Next ==
  \E c \in Conversation :
    \/ Create(c) \/ Rename(c) \/ Archive(c) \/ Restore(c) \/ Purge(c)
    \/ Cleanup(c) \/ DeleteProject(c) \/ Prune(c) \/ LeaseLapses(c)
    \/ \E m \in Message : AppendMessage(c, m)
    \/ \E id \in RequestId : AcquireRequest(c, id) \/ ReleaseRequest(c, id)

Spec == Init /\ [][Next]_vars

==============================================================================
