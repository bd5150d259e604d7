---------------------------- MODULE AnswerStream ----------------------------
(***************************************************************************)
(* What the client of one question may rely on: the order of the events    *)
(* of its stream, and that the graph is only asked between the two tool    *)
(* events and a bounded number of times.  An answer that has completed may *)
(* still be followed by the failure of a deadline, so that a stream may    *)
(* have two terminal events.                                               *)
(***************************************************************************)
EXTENDS Naturals, Sequences

CONSTANT MaxToolCalls

VARIABLES sent, open, used

vars == <<sent, open, used>>

Event == {"message.started", "tool.started", "tool.completed", "answer.delta",
          "citation.available", "message.completed", "message.failed"}

Sent(e) == \E i \in DOMAIN sent : sent[i] = e

(* A tool has been started and its completion is still to come.            *)
ToolRuns == Sent("tool.started") /\ ~Sent("tool.completed")

MayFollow(e) ==
  /\ ~Sent("message.failed")
  /\ CASE e = "message.started" -> sent = <<>>
       [] e = "tool.started" ->
            sent # <<>> /\ ~Sent("tool.started") /\ ~Sent("answer.delta")
       [] e = "tool.completed" -> ToolRuns
       [] e \in {"answer.delta", "citation.available", "message.completed"} ->
            sent # <<>> /\ ~ToolRuns /\ ~Sent("message.completed")
       [] e = "message.failed" -> sent # <<>>

------------------------------------------------------------------------------

Init == sent = <<>> /\ open = TRUE /\ used = 0

Send(e) ==
  /\ open /\ MayFollow(e)
  /\ sent' = Append(sent, e)
  /\ UNCHANGED <<open, used>>

Call ==
  /\ open /\ ToolRuns /\ used < MaxToolCalls
  /\ used' = used + 1
  /\ UNCHANGED <<sent, open>>

Close == open /\ open' = FALSE /\ UNCHANGED <<sent, used>>

Next == Call \/ Close \/ \E e \in Event : Send(e)

Spec == Init /\ [][Next]_vars

==============================================================================
