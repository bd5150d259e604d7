------------------------- MODULE AgentWorkflowProofs -------------------------
(***************************************************************************)
(* Proofs about AgentWorkflow, for any services, limits and questions.     *)
(*                                                                         *)
(* Events are sent one by one after the node that emitted them, so the     *)
(* order the client sees is stated of Emitted, what has been sent and what *)
(* is still to be: sending does not change it, and a node only adds to it  *)
(* when all of it has been sent.                                           *)
(***************************************************************************)
EXTENDS AgentWorkflow, SequenceTheorems, FiniteSetTheorems, WellFoundedInduction, TLAPS

Event == Stream!Event

(* The nodes before the tool is started, while it runs and after it.       *)
Before == {"validate_request", "resolve_follow_up", "classify_question"}
Searching == {"query_graphify", "retrieve_source_passages", "expand_graph_evidence"}
Answering == {"generate_answer", "validate_grounding", "format_response"}
Step == {"stream", "timeout"} \cup Before \cup Searching \cup Answering
          \cup {"end", "failed"}

USE DEF Event, Stream!Event, Before, Searching, Answering, Step

------------------------------------------------------------------------------
(* The inductive invariant.                                                *)

Emitted == sent \o outbox

Holds(e) == \E i \in 1 .. Len(Emitted) : Emitted[i] = e

(* Every event may follow those before it.                                 *)
MayStand(E, i) ==
  LET Earlier(e) == \E j \in 1 .. (i - 1) : E[j] = e IN
  /\ ~Earlier("message.failed")
  /\ E[i] = "message.started" <=> i = 1
  /\ E[i] = "tool.started" => ~Earlier("tool.started") /\ ~Earlier("answer.delta")
  /\ E[i] = "tool.completed" => Earlier("tool.started") /\ ~Earlier("tool.completed")
  /\ E[i] \in {"answer.delta", "citation.available", "message.completed"} =>
       /\ Earlier("tool.started") => Earlier("tool.completed")
       /\ ~Earlier("message.completed")

Ordered(E) == \A i \in 1 .. Len(E) : MayStand(E, i)

(* What has been emitted by the time a node runs.                          *)
EventsOK ==
  /\ pc = "stream" => Emitted = <<>>
  /\ pc # "stream" => Emitted # <<>>
  /\ pc # "failed" => ~Holds("message.failed")
  /\ pc \notin {"end", "failed"} => ~Holds("message.completed") /\ ~Holds("answer.delta")
  /\ pc \in {"stream", "timeout"} \cup Before =>
       ~Holds("tool.started") /\ ~Holds("tool.completed")
  /\ pc \in Searching => Holds("tool.started") /\ ~Holds("tool.completed")
  /\ pc \in Answering => (Holds("tool.started") => Holds("tool.completed"))

TimedOK == timed => pc \notin {"stream", "timeout", "failed"}

(* The calls that are counted are those that were made.                    *)
CallsOK ==
  /\ pc \in {"stream", "timeout"} \cup Before => made = 0 /\ results = <<>>
  /\ pc = "query_graphify" => made < MaxToolCalls /\ Len(results) <= 1
  /\ pc = "retrieve_source_passages" =>
       made = calls /\ made <= MaxToolCalls /\ Len(results) = 1
  /\ pc = "expand_graph_evidence" =>
       made = calls + Len(results) - 1 /\ made <= MaxToolCalls /\ Len(results) >= 1

(* What is shown may be cited, and what may be cited is about it.          *)
ShownOK ==
  /\ pc \in {"stream", "timeout"} \cup Before =>
       passages = {} /\ evidence = NoEvidence /\ citable = {}
  /\ pc \in Answering \cup {"end"} =>
       /\ ContextIds \subseteq citable
       /\ \A id \in citable : AboutShown(id) /\ (id[1] = "source" => id \in SourceIds)

GroundedOK ==
  pc \in {"format_response", "end"} /\ answer.type = "answer" => Grounded

IInv ==
  /\ TypeOK
  /\ pc \in Step
  /\ TimedOK
  /\ EventsOK
  /\ Ordered(Emitted)
  /\ CallsOK
  /\ ShownOK
  /\ GroundedOK

------------------------------------------------------------------------------
(* Emitting and sending.                                                   *)

LEMMA EmittedType ==
  ASSUME TypeOK
  PROVE  /\ Emitted \in Seq(Event) /\ Len(Emitted) = Len(sent) + Len(outbox)
         /\ \A i \in 1 .. Len(sent) : Emitted[i] = sent[i]
         /\ outbox = <<>> => Emitted = sent
<1>1. sent \in Seq(Event) /\ outbox \in Seq(Event)
  BY DEF TypeOK
<1>2. /\ Emitted \in Seq(Event) /\ Len(Emitted) = Len(sent) + Len(outbox)
      /\ \A i \in 1 .. Len(sent) : Emitted[i] = sent[i]
  BY <1>1, ConcatProperties DEF Emitted
<1>3. outbox = <<>> => Emitted = sent
  BY <1>1, ConcatEmptySeq DEF Emitted
<1> QED
  BY <1>2, <1>3

(* Sending the next event leaves what has been emitted as it is.           *)
LEMMA SendKeeps ==
  ASSUME TypeOK, Send
  PROVE  /\ sent' \in Seq(Event) /\ outbox' \in Seq(Event) /\ Emitted' = Emitted
         /\ sent' = Append(sent, Emitted[Len(sent) + 1])
         /\ Len(sent) + 1 \in 1 .. Len(Emitted)
<1>1. /\ sent \in Seq(Event) /\ outbox \in Seq(Event) /\ outbox # <<>>
      /\ sent' = Append(sent, Head(outbox)) /\ outbox' = Tail(outbox)
  BY DEF Send, TypeOK
<1>2. Head(outbox) \in Event /\ Tail(outbox) \in Seq(Event) /\ Len(outbox) \in Nat \ {0}
  BY <1>1, HeadTailProperties, EmptySeq, LenProperties
<1>3. sent' \in Seq(Event) /\ outbox' \in Seq(Event)
  BY <1>1, <1>2, AppendProperties
<1>4. outbox[1] = Head(outbox) /\ Emitted[Len(sent) + 1] = outbox[1]
  BY <1>1, <1>2, ConcatProperties, LenProperties DEF Emitted
<1>5. Emitted' = Emitted
  <2>1. Emitted' \in Seq(Event) /\ Emitted \in Seq(Event)
    BY <1>1, <1>3, ConcatProperties DEF Emitted
  <2>2. Len(sent') = Len(sent) + 1 /\ Len(outbox') = Len(outbox) - 1
    BY <1>1, <1>2, AppendProperties, HeadTailProperties
  <2>3. Len(Emitted') = Len(Emitted)
    BY <1>1, <1>2, <1>3, <2>2, ConcatProperties, LenProperties DEF Emitted
  <2>4. ASSUME NEW i \in 1 .. Len(Emitted) PROVE Emitted'[i] = Emitted[i]
    <3>1. CASE i <= Len(sent)
      BY <1>1, <1>2, <1>3, <2>2, <3>1, ConcatProperties, AppendProperties, LenProperties DEF Emitted
    <3>2. CASE i = Len(sent) + 1
      BY <1>1, <1>2, <1>3, <1>4, <2>2, <3>2, ConcatProperties, AppendProperties, LenProperties DEF Emitted
    <3>3. CASE i > Len(sent) + 1
      <4>1. i - Len(sent') \in 1 .. Len(outbox')
        BY <1>1, <1>2, <2>2, <2>4, <3>3, ConcatProperties, LenProperties DEF Emitted
      <4>2. Emitted'[i] = outbox'[i - Len(sent')] /\ Emitted[i] = outbox[i - Len(sent)]
        BY <1>1, <1>2, <1>3, <2>2, <2>4, <3>3, <4>1, ConcatProperties, LenProperties DEF Emitted
      <4>3. outbox'[i - Len(sent')] = outbox[i - Len(sent') + 1]
        BY <1>1, <1>2, <2>2, <4>1, LenProperties
      <4>4. i \in Nat /\ Len(sent) \in Nat /\ Len(sent') = Len(sent) + 1
        BY <1>1, <2>1, <2>2, <2>4, LenProperties
      <4>5. i - Len(sent') + 1 = i - Len(sent)
        BY <4>4
      <4> QED
        BY <4>2, <4>3, <4>5
    <3> QED
      BY <1>1, <2>1, <3>1, <3>2, <3>3, LenProperties
  <2> QED
    BY <2>1, <2>3, <2>4, SeqEqual
<1> QED
  BY <1>1, <1>2, <1>3, <1>4, <1>5, ConcatProperties, LenProperties DEF Emitted

(* A node that emits one event when everything before it has been sent.    *)
LEMMA EmitOne ==
  ASSUME TypeOK, outbox = <<>>, UNCHANGED sent, NEW e \in Event, outbox' = <<e>>
  PROVE  /\ outbox' \in Seq(Event)
         /\ Len(Emitted') = Len(Emitted) + 1
         /\ Emitted'[Len(Emitted) + 1] = e
         /\ \A i \in 1 .. Len(Emitted) : Emitted'[i] = Emitted[i]
<1>1. sent \in Seq(Event) /\ Emitted = sent
  BY EmittedType DEF TypeOK
<1>2. outbox' \in Seq(Event) /\ Len(outbox') = 1 /\ outbox'[1] = e
  OBVIOUS
<1> QED
  BY <1>1, <1>2, ConcatProperties, LenProperties DEF Emitted

(* format_response emits the text, its citations and the answer.           *)
LEMMA EmitAnswer ==
  ASSUME TypeOK, outbox = <<>>, UNCHANGED sent, NEW k \in Nat,
         outbox' = <<"answer.delta">> \o [i \in 1 .. k |-> "citation.available"]
                     \o <<"message.completed">>
  PROVE  /\ outbox' \in Seq(Event)
         /\ Len(Emitted') = Len(Emitted) + k + 2
         /\ Emitted'[Len(Emitted) + 1] = "answer.delta"
         /\ \A i \in (Len(Emitted) + 2) .. (Len(Emitted) + k + 1) :
              Emitted'[i] = "citation.available"
         /\ Emitted'[Len(Emitted) + k + 2] = "message.completed"
         /\ \A i \in 1 .. Len(Emitted) : Emitted'[i] = Emitted[i]
<1> DEFINE c == [i \in 1 .. k |-> "citation.available"]
           a == <<"answer.delta">> \o c
<1>1. sent \in Seq(Event) /\ Emitted = sent
  BY EmittedType DEF TypeOK
<1>2. c \in Seq(Event) /\ Len(c) = k /\ \A i \in 1 .. k : c[i] = "citation.available"
  BY IsASeq
<1>3. /\ a \in Seq(Event) /\ Len(a) = k + 1 /\ a[1] = "answer.delta"
      /\ \A i \in 2 .. (k + 1) : a[i] = "citation.available"
  <2> HIDE DEF c
  <2>1. <<"answer.delta">> \in Seq(Event) /\ Len(<<"answer.delta">>) = 1
    OBVIOUS
  <2> QED
    BY <1>2, <2>1, ConcatProperties
<1>4. <<"message.completed">> \in Seq(Event) /\ Len(<<"message.completed">>) = 1
  OBVIOUS
<1>5. /\ outbox' \in Seq(Event) /\ Len(outbox') = k + 2 /\ outbox'[1] = "answer.delta"
      /\ \A i \in 2 .. (k + 1) : outbox'[i] = "citation.available"
      /\ outbox'[k + 2] = "message.completed"
  <2>1. outbox' = a \o <<"message.completed">>
    OBVIOUS
  <2> HIDE DEF a
  <2> QED
    BY <1>3, <1>4, <2>1, ConcatProperties
<1> QED
  BY <1>1, <1>5, ConcatProperties, LenProperties DEF Emitted

------------------------------------------------------------------------------
(* The order of the events.                                                *)

(* One more event, behind all that have been sent.                         *)
LEMMA OneMore ==
  ASSUME TypeOK, Ordered(Emitted), outbox = <<>>, UNCHANGED sent,
         NEW e \in {"message.started", "tool.started", "tool.completed", "message.failed"},
         outbox' = <<e>>,
         ~Holds("message.failed"),
         e = "message.started" <=> Emitted = <<>>,
         e = "tool.started" => ~Holds("tool.started") /\ ~Holds("answer.delta"),
         e = "tool.completed" => Holds("tool.started") /\ ~Holds("tool.completed")
  PROVE  /\ outbox' \in Seq(Event)
         /\ Ordered(Emitted)' /\ Emitted' # <<>>
         /\ \A f : Holds(f)' <=> (Holds(f) \/ f = e)
<1>1. Emitted \in Seq(Event) /\ Len(Emitted) \in Nat
  BY EmittedType, LenProperties
<1>2. /\ outbox' \in Seq(Event)
      /\ Len(Emitted') = Len(Emitted) + 1 /\ Emitted'[Len(Emitted) + 1] = e
      /\ \A i \in 1 .. Len(Emitted) : Emitted'[i] = Emitted[i]
  BY EmitOne
<1> DEFINE n == Len(Emitted)
           E == Emitted
           F == Emitted'
<1>3. ASSUME NEW i \in 1 .. n PROVE MayStand(F, i)
  <2>1. MayStand(E, i)
    BY DEF Ordered
  <2>2. F[i] = E[i] /\ \A j \in 1 .. (i - 1) : F[j] = E[j]
    BY <1>1, <1>2
  <2> HIDE DEF E, F, n
  <2> QED
    BY <2>1, <2>2 DEF MayStand
<1>4. MayStand(F, n + 1)
  <2>1. \A f : (\E j \in 1 .. ((n + 1) - 1) : F[j] = f) <=> Holds(f)
    BY <1>1, <1>2 DEF Holds
  <2>2. e = "message.started" <=> n + 1 = 1
    BY <1>1, EmptySeq
  <2>3. F[n + 1] = e
    BY <1>2
  <2> HIDE DEF E, F, n
  <2> QED
    BY <2>1, <2>2, <2>3 DEF MayStand
<1>5. \A i \in 1 .. (n + 1) : i \in 1 .. n \/ i = n + 1
  BY <1>1
<1>6. Ordered(F)
  BY <1>2, <1>3, <1>4, <1>5 DEF Ordered
<1>7. \A f : Holds(f)' <=> (Holds(f) \/ f = e)
  <2>1. \A f : Holds(f)' <=> \E i \in 1 .. (n + 1) : F[i] = f
    BY <1>2 DEF Holds
  <2>2. \A f : (\E i \in 1 .. n : F[i] = f) <=> Holds(f)
    BY <1>2 DEF Holds
  <2>3. n + 1 \in 1 .. (n + 1) /\ 1 .. n \subseteq 1 .. (n + 1)
    BY <1>1
  <2> HIDE DEF E, F, n
  <2> QED
    BY <1>2, <1>5, <2>1, <2>2, <2>3 DEF E, F, n
<1>8. Emitted' # <<>>
  BY <1>1, <1>2
<1> QED
  BY <1>2, <1>6, <1>7, <1>8 DEF Ordered

(* The whole answer.                                                       *)
LEMMA AnswerMore ==
  ASSUME TypeOK, Ordered(Emitted), outbox = <<>>, UNCHANGED sent, NEW k \in Nat,
         outbox' = <<"answer.delta">> \o [i \in 1 .. k |-> "citation.available"]
                     \o <<"message.completed">>,
         Emitted # <<>>, ~Holds("message.failed"), ~Holds("message.completed"),
         Holds("tool.started") => Holds("tool.completed")
  PROVE  /\ outbox' \in Seq(Event)
         /\ Ordered(Emitted)' /\ Emitted' # <<>> /\ ~Holds("message.failed")'
<1> DEFINE n == Len(Emitted)
           E == Emitted
           F == Emitted'
<1>1. E \in Seq(Event) /\ n \in Nat /\ n > 0
  BY EmittedType, LenProperties, EmptySeq
<1>2. /\ outbox' \in Seq(Event)
      /\ Len(F) = n + k + 2 /\ F[n + 1] = "answer.delta"
      /\ \A i \in (n + 2) .. (n + k + 1) : F[i] = "citation.available"
      /\ F[n + k + 2] = "message.completed"
      /\ \A i \in 1 .. n : F[i] = E[i]
  BY EmitAnswer
<1>3. \A i \in 1 .. n : MayStand(E, i)
  BY DEF Ordered
<1>4. \A f : Holds(f) <=> \E j \in 1 .. n : E[j] = f
  BY DEF Holds
<1> HIDE DEF E, F, n
<1>5. ASSUME NEW i \in 1 .. n PROVE MayStand(F, i)
  <2>1. F[i] = E[i] /\ \A j \in 1 .. (i - 1) : F[j] = E[j]
    BY <1>1, <1>2
  <2> QED
    BY <1>3, <2>1 DEF MayStand
<1>6. \A i \in (n + 1) .. (n + k + 2) :
        F[i] \in {"answer.delta", "citation.available", "message.completed"}
  <2>1. \A i \in (n + 1) .. (n + k + 2) :
          i = n + 1 \/ i = n + k + 2 \/ i \in (n + 2) .. (n + k + 1)
    BY <1>1
  <2> QED
    BY <1>2, <2>1
<1>7. \A i \in (n + 1) .. (n + k + 1) : F[i] # "message.completed"
  <2>1. \A i \in (n + 1) .. (n + k + 1) : i = n + 1 \/ i \in (n + 2) .. (n + k + 1)
    BY <1>1
  <2> QED
    BY <1>2, <2>1
<1>8. ASSUME NEW i \in (n + 1) .. (n + k + 2) PROVE MayStand(F, i)
  <2>1. \A j \in 1 .. (i - 1) :
          \/ j \in 1 .. n /\ F[j] = E[j]
          \/ j \in (n + 1) .. (n + k + 1)
    BY <1>1, <1>2
  <2>2. \A j \in 1 .. n : j \in 1 .. (i - 1) /\ F[j] = E[j]
    BY <1>1, <1>2
  <2>3. (n + 1) .. (n + k + 1) \subseteq (n + 1) .. (n + k + 2) /\ i # 1
    BY <1>1
  <2>4. ~\E j \in 1 .. (i - 1) : F[j] = "message.failed"
    BY <1>4, <1>6, <2>1, <2>3
  <2>5. ~\E j \in 1 .. (i - 1) : F[j] = "message.completed"
    BY <1>4, <1>7, <2>1
  <2>6. (\E j \in 1 .. (i - 1) : F[j] = "tool.started") => \E j \in 1 .. (i - 1) : F[j] = "tool.completed"
    <3>1. (\E j \in 1 .. (i - 1) : F[j] = "tool.started") => Holds("tool.started")
      BY <1>4, <1>6, <2>1, <2>3
    <3> QED
      BY <1>4, <2>2, <3>1
  <2> QED
    BY <1>6, <2>3, <2>4, <2>5, <2>6 DEF MayStand
<1>9. \A i \in 1 .. Len(F) : i \in 1 .. n \/ i \in (n + 1) .. (n + k + 2)
  BY <1>1, <1>2
<1>10. Ordered(F)
  BY <1>5, <1>8, <1>9 DEF Ordered
<1>11. \A i \in 1 .. Len(F) : F[i] # "message.failed"
  BY <1>2, <1>4, <1>6, <1>9
<1>12. F # <<>>
  BY <1>1, <1>2
<1> QED
  BY <1>2, <1>10, <1>11, <1>12 DEF F, Holds

(* Steps that emit nothing.                                                *)
LEMMA Quiet ==
  ASSUME UNCHANGED <<sent, outbox>>, Ordered(Emitted)
  PROVE  /\ Ordered(Emitted)' /\ Emitted' = Emitted
         /\ \A f : Holds(f)' <=> Holds(f)
BY DEF Emitted, Holds, Ordered

(* There are finitely many ids that can be cited.                          *)
LEMMA AnyIdFinite == IsFiniteSet(AnyId)
<1>1. /\ IsFiniteSet(Node) /\ IsFiniteSet(Edge) /\ IsFiniteSet(Path) /\ IsFiniteSet(Passage)
      /\ IsFiniteSet(CitationId)
  BY AgentAssumption
<1>2. \A x : IsFiniteSet({x})
  BY FS_Singleton
<1>3. /\ IsFiniteSet({"node"} \X Node) /\ IsFiniteSet({"given"} \X CitationId)
      /\ IsFiniteSet({"edge"} \X Edge) /\ IsFiniteSet({"path"} \X Path)
      /\ IsFiniteSet({"source"} \X Passage)
  BY <1>1, <1>2, FS_Product
<1> QED
  BY <1>2, <1>3, FS_Union DEF AnyId

LEMMA EventsNext ==
  ASSUME IInv, [Next]_vars
  PROVE  /\ sent' \in Seq(Event) /\ outbox' \in Seq(Event)
         /\ EventsOK' /\ Ordered(Emitted)' /\ pc' \in Step
<1>1. /\ TypeOK /\ pc \in Step /\ TimedOK /\ EventsOK /\ Ordered(Emitted)
      /\ sent \in Seq(Event) /\ outbox \in Seq(Event)
  BY DEF IInv, TypeOK
<1> DEFINE Goal == /\ sent' \in Seq(Event) /\ outbox' \in Seq(Event)
                   /\ EventsOK' /\ Ordered(Emitted)' /\ pc' \in Step
<1>2. ASSUME UNCHANGED <<sent, outbox>>, pc' \in Step,
             \/ pc' = pc
             \/ pc = "timeout" /\ pc' = "validate_request"
             \/ pc \in Before /\ pc' \in Before
             \/ pc \in Before /\ pc' = "format_response"
             \/ pc \in Searching /\ pc' \in Searching
             \/ pc \in Answering /\ pc' \in Answering
      PROVE  Goal
  BY <1>1, <1>2, Quiet DEF EventsOK
<1>3. ASSUME outbox = <<>>, UNCHANGED sent,
             NEW e \in {"message.started", "tool.started", "tool.completed", "message.failed"},
             outbox' = <<e>>,
             \/ e = "message.started" /\ pc = "stream" /\ pc' = "timeout"
             \/ e = "tool.started" /\ pc = "classify_question" /\ pc' = "query_graphify"
             \/ e = "tool.completed" /\ pc = "expand_graph_evidence" /\ pc' = "generate_answer"
             \/ e = "message.failed" /\ pc \notin {"stream", "failed"} /\ pc' = "failed"
      PROVE  Goal
  <2>1. /\ ~Holds("message.failed")
        /\ e = "message.started" <=> Emitted = <<>>
        /\ e = "tool.started" => ~Holds("tool.started") /\ ~Holds("answer.delta")
        /\ e = "tool.completed" => Holds("tool.started") /\ ~Holds("tool.completed")
    BY <1>1, <1>3 DEF EventsOK
  <2>2. /\ outbox' \in Seq(Event) /\ Ordered(Emitted)' /\ Emitted' # <<>>
        /\ \A f : Holds(f)' <=> (Holds(f) \/ f = e)
    BY <1>1, <1>3, <2>1, OneMore
  <2>3. EventsOK'
    <3>1. /\ Holds("message.failed")' <=> e = "message.failed"
          /\ Holds("message.completed")' <=> Holds("message.completed")
          /\ Holds("answer.delta")' <=> Holds("answer.delta")
          /\ Holds("tool.started")' <=> Holds("tool.started") \/ e = "tool.started"
          /\ Holds("tool.completed")' <=> Holds("tool.completed") \/ e = "tool.completed"
      BY <1>3, <2>1, <2>2
    <3>2. CASE e = "message.started" /\ pc = "stream" /\ pc' = "timeout"
      BY <1>1, <2>2, <3>1, <3>2 DEF EventsOK
    <3>3. CASE e = "tool.started" /\ pc = "classify_question" /\ pc' = "query_graphify"
      BY <1>1, <2>2, <3>1, <3>3 DEF EventsOK
    <3>4. CASE e = "tool.completed" /\ pc' = "generate_answer"
      BY <1>1, <1>3, <2>2, <3>1, <3>4 DEF EventsOK
    <3>5. CASE e = "message.failed" /\ pc' = "failed"
      BY <1>1, <1>3, <2>2, <3>1, <3>5 DEF EventsOK
    <3> QED
      BY <1>3, <3>2, <3>3, <3>4, <3>5
  <2>4. pc' \in Step
    BY <1>3
  <2> QED
    BY <1>1, <1>3, <2>2, <2>3, <2>4
<1>4. CASE Start
  BY <1>3, <1>4 DEF Start, Runs, Goes
<1>5. CASE PlanGraphQuery
  BY <1>3, <1>5 DEF PlanGraphQuery, Runs, Goes
<1>6. CASE MergeEvidence
  BY <1>3, <1>6 DEF MergeEvidence, Runs, Goes
<1>7. CASE Raise
  BY <1>3, <1>7 DEF Raise
<1>8. CASE Deadline
  <2>1. CASE outbox = <<>>
    BY <1>1, <1>3, <1>8, <2>1 DEF Deadline, TimedOK
  <2>2. CASE outbox # <<>>
    BY <1>1, <1>2, <1>8, <2>2 DEF Deadline
  <2> QED
    BY <2>1, <2>2
<1>9. CASE SetDeadline
  BY <1>2, <1>9 DEF SetDeadline, Runs
<1>10. CASE ValidateRequest \/ ResolveFollowUp \/ PrepareClarification
  BY <1>2, <1>10 DEF ValidateRequest, ResolveFollowUp, PrepareClarification, Runs, Goes
<1>11. ASSUME NEW r \in Result, QueryGraphify(r) PROVE Goal
  BY <1>2, <1>11 DEF QueryGraphify, Runs, Goes
<1>12. ASSUME NEW r \in Result, GetNeighbors(r) PROVE Goal
  BY <1>2, <1>12 DEF GetNeighbors, Runs, Goes
<1>13. ASSUME NEW found \in SUBSET Passage, RetrieveSourcePassages(found) PROVE Goal
  BY <1>2, <1>13 DEF RetrieveSourcePassages, Runs, Goes
<1>14. ASSUME NEW draft \in Drafts, GenerateAnswer(draft) PROVE Goal
  BY <1>2, <1>14 DEF GenerateAnswer, Runs, Goes
<1>15. CASE ValidateGrounding
  BY <1>2, <1>15 DEF ValidateGrounding, Runs, Goes
<1>16. CASE EndStream \/ Disconnect \/ UNCHANGED vars
  BY <1>1, <1>2, <1>16 DEF EndStream, Disconnect, vars
<1>17. CASE FormatResponse
  <2> DEFINE k == Cardinality(answer.cites \cap citable)
  <2>1. /\ pc = "format_response" /\ pc' = "end" /\ outbox = <<>> /\ UNCHANGED sent
        /\ outbox' = <<"answer.delta">> \o [i \in 1 .. k |-> "citation.available"]
                       \o <<"message.completed">>
    BY <1>17 DEF FormatResponse, Runs, Goes
  <2>2. k \in Nat
    <3>1. answer.cites \subseteq AnyId
      BY <1>1 DEF TypeOK
    <3>2. IsFiniteSet(AnyId)
      BY AnyIdFinite
    <3> QED
      BY <3>1, <3>2, FS_Subset, FS_CardinalityType
  <2>3. /\ Emitted # <<>> /\ ~Holds("message.failed") /\ ~Holds("message.completed")
        /\ Holds("tool.started") => Holds("tool.completed")
    BY <1>1, <2>1 DEF EventsOK
  <2> HIDE DEF k
  <2>4. /\ outbox' \in Seq(Event)
        /\ Ordered(Emitted)' /\ Emitted' # <<>> /\ ~Holds("message.failed")'
    BY <1>1, <2>1, <2>2, <2>3, AnswerMore
  <2>5. EventsOK' /\ sent' \in Seq(Event) /\ pc' \in Step
    BY <1>1, <2>1, <2>4 DEF EventsOK
  <2> QED
    BY <2>4, <2>5
<1>18. CASE Send
  <2>1. sent' \in Seq(Event) /\ outbox' \in Seq(Event) /\ Emitted' = Emitted /\ UNCHANGED pc
    BY <1>1, <1>18, SendKeeps DEF Send
  <2>2. Ordered(Emitted)' /\ \A f : Holds(f)' <=> Holds(f)
    BY <1>1, <2>1 DEF Ordered, Holds
  <2> QED
    BY <1>1, <2>1, <2>2 DEF EventsOK
<1> QED
  BY <1>4, <1>5, <1>6, <1>7, <1>8, <1>9, <1>10, <1>11, <1>12, <1>13, <1>14, <1>15, <1>16, <1>17,
     <1>18 DEF Next, Compute, Answered

------------------------------------------------------------------------------
(* Types, calls and evidence.                                              *)

LEMMA TimedNext ==
  ASSUME IInv, [Next]_vars
  PROVE  TimedOK'
BY DEF IInv, TimedOK, Next, Compute, Answered, Start, SetDeadline, PlanGraphQuery,
   MergeEvidence, ValidateGrounding, FormatResponse, EndStream, ValidateRequest,
   ResolveFollowUp, PrepareClarification, QueryGraphify, GetNeighbors,
   RetrieveSourcePassages, GenerateAnswer, Raise, Send, Deadline, Disconnect, vars, Runs, Goes

(* The nodes that call Graphify.                                           *)
LEMMA CallsNext ==
  ASSUME IInv, [Next]_vars
  PROVE  /\ CallsOK' /\ calls' \in Nat /\ made' \in Nat /\ results' \in Seq(Result)
<1>1. /\ calls \in Nat /\ made \in Nat /\ results \in Seq(Result) /\ CallsOK
      /\ MaxToolCalls \in Nat \ {0}
  BY AgentAssumption DEF IInv, TypeOK
<1> DEFINE Goal == CallsOK' /\ calls' \in Nat /\ made' \in Nat /\ results' \in Seq(Result)
<1>2. ASSUME UNCHANGED searching,
             \/ pc' = pc
             \/ pc \in {"stream", "timeout"} \cup Before /\ pc' \in {"timeout"} \cup Before
             \/ pc = "classify_question" /\ pc' = "query_graphify"
             \/ pc = "retrieve_source_passages" /\ pc' = "expand_graph_evidence"
             \/ pc' \in Answering \cup {"end", "failed"}
      PROVE  Goal
  <2>1. made' = made /\ calls' = calls /\ results' = results
    BY <1>2 DEF searching
  <2>2. Len(<<>>) = 0
    OBVIOUS
  <2>3. CASE pc' = pc
    BY <1>1, <2>1, <2>3 DEF CallsOK
  <2>4. CASE pc \in {"stream", "timeout"} \cup Before /\ pc' \in {"timeout"} \cup Before
    BY <1>1, <2>1, <2>4 DEF CallsOK
  <2>5. CASE pc = "classify_question" /\ pc' = "query_graphify"
    <3>1. made = 0 /\ results = <<>>
      BY <1>1, <2>5 DEF CallsOK
    <3>2. made' < MaxToolCalls /\ Len(results') <= 1
      BY <1>1, <2>1, <2>2, <3>1
    <3> QED
      BY <1>1, <2>1, <2>5, <3>2 DEF CallsOK
  <2>6. CASE pc = "retrieve_source_passages" /\ pc' = "expand_graph_evidence"
    <3>1. made = calls /\ made <= MaxToolCalls /\ Len(results) = 1
      BY <1>1, <2>6 DEF CallsOK
    <3>2. made' = calls' + Len(results') - 1 /\ made' <= MaxToolCalls /\ Len(results') >= 1
      BY <1>1, <2>1, <3>1
    <3> QED
      BY <1>1, <2>1, <2>6, <3>2 DEF CallsOK
  <2>7. CASE pc' \in Answering \cup {"end", "failed"}
    BY <1>1, <2>1, <2>7 DEF CallsOK
  <2> QED
    BY <1>2, <2>3, <2>4, <2>5, <2>6, <2>7
<1>3. ASSUME NEW r \in Result, QueryGraphify(r) PROVE Goal
  <2>1. /\ pc = "query_graphify" /\ made' = made + 1
        /\ made < MaxToolCalls /\ Len(results) <= 1
        /\ results' = IF results = <<>> \/ r.nodes # <<>> THEN <<r>> ELSE results
        /\ \/ pc' = "retrieve_source_passages" /\ calls' = made + 1
           \/ pc' = pc /\ calls' = calls /\ made + 1 < MaxToolCalls
    BY <1>1, <1>3 DEF QueryGraphify, Runs, Goes, CallsOK
  <2>2. results' \in Seq(Result) /\ Len(results') = 1
    <3>1. <<r>> \in Seq(Result) /\ Len(<<r>>) = 1
      OBVIOUS
    <3>2. results # <<>> => Len(results) = 1
      <4>1. Len(results) \in Nat
        BY <1>1, LenProperties
      <4>2. Len(results) = 0 => results = <<>>
        BY <1>1, EmptySeq
      <4>3. Len(results) <= 1
        BY <2>1
      <4>4. Len(results) = 0 \/ Len(results) = 1
        <5>1. \A n \in Nat : n <= 1 => n = 0 \/ n = 1
          OBVIOUS
        <5> QED
          BY <4>1, <4>3, <5>1
      <4> QED
        BY <4>2, <4>4
    <3> QED
      BY <1>1, <2>1, <3>1, <3>2
  <2> QED
    BY <1>1, <2>1, <2>2 DEF CallsOK
<1>4. ASSUME NEW r \in Result, GetNeighbors(r) PROVE Goal
  <2>1. /\ pc = "expand_graph_evidence" /\ pc' = pc
        /\ calls + (Len(results) - 1) < MaxToolCalls
        /\ made' = made + 1 /\ UNCHANGED calls /\ results' = Append(results, r)
    BY <1>4 DEF GetNeighbors, Runs, Goes, MoreToExpand, Expanded
  <2>2. results' \in Seq(Result) /\ Len(results') = Len(results) + 1 /\ Len(results) \in Nat
    BY <1>1, <2>1, AppendProperties, LenProperties
  <2> QED
    BY <1>1, <2>1, <2>2 DEF CallsOK
<1>5. CASE MergeEvidence
  <2>1. /\ pc = "expand_graph_evidence" /\ pc' = "generate_answer"
        /\ calls' = calls + (Len(results) - 1) /\ UNCHANGED <<made, results>>
    BY <1>5 DEF MergeEvidence, Runs, Goes, Expanded
  <2>2. Len(results) \in Nat /\ Len(results) >= 1
    BY <1>1, <2>1, LenProperties DEF CallsOK
  <2>3. calls' \in Nat
    BY <1>1, <2>1, <2>2
  <2> QED
    BY <1>1, <2>1, <2>3 DEF CallsOK
<1>6. CASE Start \/ SetDeadline \/ ValidateRequest \/ ResolveFollowUp
  BY <1>2, <1>6 DEF Start, SetDeadline, ValidateRequest, ResolveFollowUp, Runs, Goes
<1>7. CASE PrepareClarification \/ PlanGraphQuery \/ ValidateGrounding \/ FormatResponse \/ Raise
  BY <1>2, <1>7 DEF PrepareClarification, PlanGraphQuery, ValidateGrounding, FormatResponse,
                    Raise, Runs, Goes
<1>8. ASSUME NEW found \in SUBSET Passage, RetrieveSourcePassages(found) PROVE Goal
  BY <1>2, <1>8 DEF RetrieveSourcePassages, Runs, Goes
<1>9. ASSUME NEW draft \in Drafts, GenerateAnswer(draft) PROVE Goal
  BY <1>2, <1>9 DEF GenerateAnswer, Runs, Goes
<1>10. CASE Deadline
  BY <1>2, <1>10 DEF Deadline
<1>11. CASE EndStream \/ Send \/ Disconnect \/ UNCHANGED vars
  BY <1>2, <1>11 DEF EndStream, Send, Disconnect, vars, searching
<1> QED
  BY <1>3, <1>4, <1>5, <1>6, <1>7, <1>8, <1>9, <1>10, <1>11 DEF Next, Compute, Answered

LEMMA TypeNext ==
  ASSUME IInv, [Next]_vars
  PROVE  TypeOK'
<1>1. /\ sent' \in Seq(Event) /\ outbox' \in Seq(Event)
      /\ calls' \in Nat /\ made' \in Nat /\ results' \in Seq(Result)
  BY EventsNext, CallsNext
<1>2. TypeOK
  BY DEF IInv
<1>3. /\ query' \in Query \cup {None}
      /\ timed' \in BOOLEAN /\ stream' \in {"open", "ended", "cut", "left"}
  BY <1>2 DEF TypeOK, Next, Compute, Answered, Start, SetDeadline, PlanGraphQuery,
     MergeEvidence, ValidateGrounding, FormatResponse, EndStream, ValidateRequest,
     ResolveFollowUp, PrepareClarification, QueryGraphify, GetNeighbors,
     RetrieveSourcePassages, GenerateAnswer, Raise, Send, Deadline, Disconnect, vars, Runs, Goes
<1>4. passages' \subseteq Passage
  BY <1>2 DEF TypeOK, Next, Compute, Answered, Start, SetDeadline, PlanGraphQuery,
     MergeEvidence, ValidateGrounding, FormatResponse, EndStream, ValidateRequest,
     ResolveFollowUp, PrepareClarification, QueryGraphify, GetNeighbors, answering,
     RetrieveSourcePassages, GenerateAnswer, Raise, Send, Deadline, Disconnect, vars
<1>5. answer' \in [type: {"answer", "clarification", "insufficient"}, cites: SUBSET AnyId]
  <2> DEFINE A == [type: {"answer", "clarification", "insufficient"}, cites: SUBSET AnyId]
  <2>1. /\ answer \in A /\ Insufficient \in A /\ [type |-> "clarification", cites |-> {}] \in A
        /\ Drafts \subseteq A
    BY <1>2 DEF TypeOK, Insufficient, Drafts
  <2>2. [answer EXCEPT !.cites = answer.cites \cap citable] \in A
    BY <2>1
  <2>3. ASSUME PrepareClarification \/ ValidateGrounding \/ FormatResponse PROVE answer' \in A
    BY <2>1, <2>2, <2>3 DEF PrepareClarification, ValidateGrounding, FormatResponse
  <2>4. ASSUME NEW draft \in Drafts, GenerateAnswer(draft) PROVE answer' \in A
    BY <2>1, <2>4 DEF GenerateAnswer
  <2>5. ASSUME UNCHANGED answer PROVE answer' \in A
    BY <2>1, <2>5
  <2>6. ASSUME \/ Start \/ SetDeadline \/ PlanGraphQuery \/ MergeEvidence \/ EndStream
               \/ ValidateRequest \/ ResolveFollowUp \/ Raise \/ Send \/ Deadline \/ Disconnect
               \/ UNCHANGED vars
        PROVE  answer' \in A
    BY <2>5, <2>6 DEF Start, SetDeadline, PlanGraphQuery, MergeEvidence, EndStream,
       ValidateRequest, ResolveFollowUp, Raise, Send, Deadline, Disconnect, vars, answering
  <2>7. ASSUME \/ \E r \in Result : QueryGraphify(r) \/ GetNeighbors(r)
               \/ \E found \in SUBSET Passage : RetrieveSourcePassages(found)
        PROVE  answer' \in A
    BY <2>5, <2>7 DEF QueryGraphify, GetNeighbors, RetrieveSourcePassages, answering
  <2> QED
    <3>1. CASE Compute
      BY <2>3, <2>6, <3>1 DEF Compute
    <3>2. CASE Answered
      BY <2>3, <2>4, <2>6, <2>7, <3>2 DEF Answered
    <3>3. CASE Raise \/ Send \/ Deadline \/ Disconnect \/ UNCHANGED vars
      BY <2>6, <3>3
    <3> QED
      BY <3>1, <3>2, <3>3 DEF Next
<1> QED
  BY <1>1, <1>3, <1>4, <1>5 DEF TypeOK

(* the finite sets are well ordered by inclusion.                          *)
LEMMA LeastNat ==
  ASSUME NEW T \in SUBSET Nat, T # {}
  PROVE  \E m \in T : \A n \in T : m <= n
<1> DEFINE D == {0 .. (n - 1) : n \in T}
<1>1. D # {} /\ D \subseteq FiniteSubsetsOf(Nat)
  <2>1. \A n \in T : 0 .. (n - 1) \subseteq Nat /\ IsFiniteSet(0 .. (n - 1))
    BY FS_Interval
  <2> QED
    BY <2>1 DEF FiniteSubsetsOf
<1>2. PICK x \in D : \A y \in D : <<y, x>> \notin StrictSubsetOrdering(Nat)
  BY <1>1, FS_StrictSubsetOrderingWellFounded, WFMin
<1>3. PICK m \in T : x = 0 .. (m - 1)
  OBVIOUS
<1>4. ASSUME NEW n \in T, n < m PROVE FALSE
  <2>1. 0 .. (n - 1) \in D
    OBVIOUS
  <2>2. /\ 0 .. (n - 1) \subseteq 0 .. (m - 1) /\ 0 .. (m - 1) \subseteq Nat
        /\ n \in 0 .. (m - 1) /\ n \notin 0 .. (n - 1)
    BY <1>4
  <2>3. <<0 .. (n - 1), x>> \in StrictSubsetOrdering(Nat)
    BY <1>3, <2>2 DEF StrictSubsetOrdering
  <2> QED
    BY <1>2, <2>1, <2>3
<1> QED
  BY <1>4

LEMMA GreatestNat ==
  ASSUME NEW T \in SUBSET Nat, T # {}, NEW b \in Nat, \A n \in T : n <= b
  PROVE  \E m \in T : \A n \in T : n <= m
<1> DEFINE D == {b - n : n \in T}
<1>1. D # {} /\ D \in SUBSET Nat
  <2>1. \A n \in T : n \in Nat /\ b - n \in Nat
    OBVIOUS
  <2> QED
    BY <2>1
<1>2. PICK d \in D : \A e \in D : d <= e
  BY <1>1, LeastNat
<1>3. PICK m \in T : d = b - m
  OBVIOUS
<1>4. ASSUME NEW n \in T PROVE n <= m
  <2>1. b - n \in D /\ n \in Nat /\ m \in Nat
    OBVIOUS
  <2>2. b - m <= b - n
    BY <1>2, <1>3, <2>1
  <2> QED
    BY <2>1, <2>2
<1> QED
  BY <1>4

(* Every node that is shown is shown by an id of its own: the last of the  *)
(* citations that the search has for it, or that of the node itself.       *)
LEMMA OwnIds ==
  ASSUME NEW cs \in Seq([id: CitationId, of: Node \cup {None}]), NEW N
  PROVE  /\ \A i \in Own(cs, N) : cs[i] \in ToSet(cs) /\ cs[i].of \in N
         /\ \A n \in N : Own(cs, {n}) \subseteq Own(cs, N)
         /\ \A T \in SUBSET Own(cs, N) : T # {} => Max(T) \in T
<1>1. DOMAIN cs = 1 .. Len(cs) /\ Len(cs) \in Nat
  BY LenProperties
<1>2. \A i \in Own(cs, N) : cs[i] \in ToSet(cs) /\ cs[i].of \in N
  BY DEF Own, ToSet
<1>3. \A n \in N : Own(cs, {n}) \subseteq Own(cs, N)
  BY DEF Own
<1>4. ASSUME NEW T \in SUBSET Own(cs, N), T # {} PROVE Max(T) \in T
  <2>1. T \in SUBSET Nat /\ \A i \in T : i <= Len(cs)
    BY <1>1 DEF Own
  <2>2. PICK m \in T : \A i \in T : i <= m
    BY <1>1, <1>4, <2>1, GreatestNat
  <2>3. m \in T /\ \A i \in T : m >= i
    BY <2>1, <2>2
  <2> QED
    BY <2>3 DEF Max
<1> QED
  BY <1>2, <1>3, <1>4

(* Whichever nodes the citations of the search stand for, all that is      *)
(* shown of merged evidence can be cited, and all that can be cited is     *)
(* about it.                                                               *)
LEMMA SameEvidence ==
  ASSUME results \in Seq(Result), Len(results) >= 1, evidence' = Merged(results),
         citable' = CitableIds, UNCHANGED <<results, passages>>
  PROVE  /\ (ContextIds \subseteq citable)'
         /\ \A id \in citable' : AboutShown(id)' /\ (id[1] = "source" => id \in SourceIds')
<1> DEFINE ev == Merged(results)
           N == ToSet(ev.nodes)
           cs == results[1].citations
           Others == {<<"edge", e>> : e \in ToSet(ev.edges)}
                       \cup {<<"path", p>> : p \in ev.paths} \cup SourceIds
           OfNodes == {<<"node", n>> : n \in {m \in N : Own(cs, {m}) = {}}}
<1>1. cs \in Seq([id: CitationId, of: Node \cup {None}])
  <2>1. results[1] \in Result
    BY ElementOfSeq
  <2> QED
    BY <2>1, AgentAssumption
<1>2. /\ \A i \in Own(cs, N) : cs[i] \in ToSet(cs) /\ cs[i].of \in N
      /\ \A n \in N : Own(cs, {n}) \subseteq Own(cs, N)
      /\ \A T \in SUBSET Own(cs, N) : T # {} => Max(T) \in T
  BY <1>1, OwnIds
<1>3. SourceIds' = SourceIds
  BY DEF SourceIds
<1>4. citable' = GivenIds(cs, N) \cup OfNodes \cup Others
  BY DEF CitableIds, MergedIds, GraphIds
<1>5. ContextIds' = {NodeId(n)' : n \in N} \cup Others
  BY <1>3 DEF ContextIds
<1>6. ASSUME NEW n \in N
      PROVE  /\ NodeId(n)' \in citable'
             /\ Own(cs, {n}) = {} => NodeId(n)' = <<"node", n>>
  <2>1. \A i \in Own(cs, {n}) : <<"given", cs[i].id>> \in citable'
    BY <1>2, <1>4, <1>6 DEF GivenIds
  <2> DEFINE own == {i \in Own(cs, {n}) : <<"given", cs[i].id>> \in citable'}
  <2>2. own = Own(cs, {n})
    BY <2>1
  <2>3. NodeId(n)' = IF own = {} THEN <<"node", n>> ELSE <<"given", cs[Max(own)].id>>
    BY DEF NodeId
  <2> HIDE DEF own, cs, N, Others
  <2>4. CASE Own(cs, {n}) = {}
    BY <1>4, <1>6, <2>2, <2>3, <2>4
  <2>5. CASE Own(cs, {n}) # {}
    <3>1. Max(own) \in Own(cs, {n})
      BY <1>2, <1>6, <2>2, <2>5
    <3> QED
      BY <2>1, <2>2, <2>3, <2>5, <3>1
  <2> QED
    BY <2>4, <2>5
<1>7. ContextIds' \subseteq citable'
  <2> HIDE DEF N, Others
  <2> QED
    BY <1>4, <1>5, <1>6
<1>8. ASSUME NEW id \in citable' PROVE AboutShown(id)'
  <2>1. AboutShown(id)' <=> \/ id \in ContextIds'
                            \/ \E c \in ToSet(cs) : c.of \in N /\ id = <<"given", c.id>>
    BY DEF AboutShown
  <2> HIDE DEF N, Others, cs
  <2>2. CASE id \in GivenIds(cs, N)
    BY <1>2, <2>1, <2>2 DEF GivenIds
  <2>3. CASE id \in OfNodes
    <3>1. PICK n \in N : Own(cs, {n}) = {} /\ id = <<"node", n>>
      BY <2>3
    <3> QED
      BY <1>5, <1>6, <2>1, <3>1
  <2>4. CASE id \in Others
    BY <1>5, <2>1, <2>4
  <2> QED
    BY <1>4, <2>2, <2>3, <2>4
<1>9. ASSUME NEW id \in citable', id[1] = "source" PROVE id \in SourceIds'
  <2>1. \A k \in GivenIds(cs, N) : k[1] = "given"
    BY DEF GivenIds
  <2>2. \A k \in OfNodes : \E n \in N : k = <<"node", n>>
    OBVIOUS
  <2>3. \A k \in {<<"edge", e>> : e \in ToSet(ev.edges)} : k[1] = "edge"
    OBVIOUS
  <2>4. \A k \in {<<"path", p>> : p \in ev.paths} : k[1] = "path"
    OBVIOUS
  <2> HIDE DEF ev, N, cs, OfNodes
  <2>5. \A k \in OfNodes : k[1] = "node"
    BY <2>2
  <2> QED
    BY <1>3, <1>4, <1>9, <2>1, <2>3, <2>4, <2>5
<1> QED
  BY <1>7, <1>8, <1>9

(* Evidence that stands is shown as before.                                *)
LEMMA SameShown ==
  ASSUME UNCHANGED <<results, passages, evidence, citable>>
  PROVE  /\ ContextIds' = ContextIds /\ SourceIds' = SourceIds
         /\ \A id : AboutShown(id)' = AboutShown(id)
<1>1. SourceIds' = SourceIds
  BY DEF SourceIds
<1>2. \A n : NodeId(n)' = NodeId(n)
  BY DEF NodeId
<1>3. ContextIds' = ContextIds
  BY <1>1, <1>2 DEF ContextIds
<1> QED
  BY <1>1, <1>3 DEF AboutShown

LEMMA AnswerNext ==
  ASSUME IInv, [Next]_vars
  PROVE  ShownOK' /\ GroundedOK'
<1>1. pc \in Step /\ ShownOK /\ GroundedOK
  BY DEF IInv
<1> DEFINE Goal == ShownOK' /\ GroundedOK'
           Early == {"stream", "timeout"} \cup Before
           Kept == /\ ContextIds' = ContextIds /\ SourceIds' = SourceIds
                   /\ UNCHANGED citable /\ \A id : AboutShown(id)' = AboutShown(id)
<1>2. ASSUME UNCHANGED <<query, answering>>,
             \/ pc' = pc /\ (UNCHANGED results \/ pc \in Searching)
             \/ pc \in Early /\ pc' \in Early
             \/ pc' \in Searching \cup {"failed"}
      PROVE  Goal
  <2>1. /\ UNCHANGED <<query, passages, evidence, citable, answer>>
        /\ Grounded' = Grounded
    BY <1>2 DEF answering, Grounded, CitesSource
  <2>2. pc' \in Answering \cup {"end"} => pc' = pc /\ UNCHANGED results
    BY <1>2
  <2>3. pc' \in Answering \cup {"end"} => Kept
    BY <2>1, <2>2, SameShown
  <2> QED
    BY <1>1, <1>2, <2>1, <2>3 DEF ShownOK, GroundedOK
<1>3. CASE Start \/ SetDeadline \/ PlanGraphQuery \/ Raise
  BY <1>2, <1>3 DEF Start, SetDeadline, PlanGraphQuery, Raise, Runs, Goes
<1>4. CASE ValidateRequest \/ ResolveFollowUp
  <2>1. /\ pc \in Early /\ pc' \in Early /\ UNCHANGED <<passages, evidence, citable>>
    BY <1>4 DEF ValidateRequest, ResolveFollowUp, Runs, Goes, answering
  <2> QED
    BY <1>1, <2>1 DEF ShownOK, GroundedOK
<1>5. CASE PrepareClarification
  <2>1. /\ pc \in Early /\ pc' = "format_response" /\ answer'.type # "answer"
        /\ UNCHANGED <<passages, evidence, citable>>
    BY <1>5 DEF PrepareClarification, Runs, Goes
  <2>2. passages = {} /\ evidence = NoEvidence /\ citable = {}
    BY <1>1, <2>1 DEF ShownOK
  <2>3. ToSet(evidence.nodes) = {} /\ ToSet(evidence.edges) = {} /\ evidence.paths = {}
    BY <2>2 DEF NoEvidence, ToSet
  <2>4. ContextIds' = {} /\ citable' = {}
    BY <2>1, <2>2, <2>3 DEF ContextIds, SourceIds
  <2> QED
    BY <2>1, <2>4 DEF ShownOK, GroundedOK
<1>6. ASSUME NEW r \in Result, QueryGraphify(r) \/ GetNeighbors(r) PROVE Goal
  BY <1>2, <1>6 DEF QueryGraphify, GetNeighbors, Runs, Goes
<1>7. ASSUME NEW found \in SUBSET Passage, RetrieveSourcePassages(found) PROVE Goal
  BY <1>7 DEF RetrieveSourcePassages, Runs, Goes, ShownOK, GroundedOK
<1>8. CASE MergeEvidence
  <2>1. /\ pc = "expand_graph_evidence" /\ pc' = "generate_answer"
        /\ evidence' = Merged(results) /\ citable' = CitableIds
        /\ UNCHANGED <<results, passages>>
    BY <1>8 DEF MergeEvidence, Runs, Goes
  <2>2. results \in Seq(Result) /\ Len(results) >= 1
    BY <2>1 DEF IInv, TypeOK, CallsOK
  <2>3. /\ ContextIds' \subseteq citable'
        /\ \A id \in citable' : AboutShown(id)' /\ (id[1] = "source" => id \in SourceIds')
    BY <2>1, <2>2, SameEvidence
  <2> QED
    BY <2>1, <2>3 DEF ShownOK, GroundedOK
<1>9. ASSUME NEW draft \in Drafts, GenerateAnswer(draft) PROVE Goal
  <2>1. /\ pc = "generate_answer" /\ pc' = "validate_grounding"
        /\ UNCHANGED <<results, passages, evidence, citable>>
    BY <1>9 DEF GenerateAnswer, Runs, Goes, searching
  <2>2. Kept
    BY <2>1, SameShown
  <2> QED
    BY <1>1, <2>1, <2>2 DEF ShownOK, GroundedOK
<1>10. CASE ValidateGrounding
  <2>1. /\ pc = "validate_grounding" /\ pc' = "format_response"
        /\ UNCHANGED <<query, results, passages, evidence, citable>>
        /\ answer' = IF Grounded THEN answer ELSE Insufficient
    BY <1>10 DEF ValidateGrounding, Runs, Goes, searching
  <2>2. Kept
    BY <2>1, SameShown
  <2>3. answer'.type = "answer" => Grounded'
    BY <2>1 DEF Grounded, CitesSource, Insufficient
  <2> QED
    BY <1>1, <2>1, <2>2, <2>3 DEF ShownOK, GroundedOK
<1>11. CASE FormatResponse
  <2>1. /\ pc = "format_response" /\ pc' = "end"
        /\ UNCHANGED <<query, results, passages, evidence, citable>>
        /\ answer' = [answer EXCEPT !.cites = answer.cites \cap citable]
    BY <1>11 DEF FormatResponse, Runs, Goes, searching
  <2>2. Kept
    BY <2>1, SameShown
  <2>3. answer \in [type: {"answer", "clarification", "insufficient"}, cites: SUBSET AnyId]
    BY DEF IInv, TypeOK
  <2>4. answer'.type = answer.type /\ (Grounded => answer'.cites = answer.cites)
    BY <2>1, <2>3 DEF Grounded
  <2>5. answer'.type = "answer" => Grounded'
    BY <1>1, <2>1, <2>4 DEF Grounded, CitesSource, GroundedOK
  <2> QED
    BY <1>1, <2>1, <2>2, <2>5 DEF ShownOK, GroundedOK
<1>12. CASE EndStream \/ Send \/ Disconnect \/ UNCHANGED vars
  BY <1>2, <1>12 DEF EndStream, Send, Disconnect, vars, answering, searching
<1>13. CASE Deadline
  BY <1>2, <1>13 DEF Deadline, searching
<1> QED
  BY <1>3, <1>4, <1>5, <1>6, <1>7, <1>8, <1>9, <1>10, <1>11, <1>12, <1>13
     DEF Next, Compute, Answered

------------------------------------------------------------------------------
(* The theorems.                                                           *)

LEMMA InitInvariant == Init => IInv
<1> SUFFICES ASSUME Init PROVE IInv
  OBVIOUS
<1>1. Emitted = <<>> /\ Len(Emitted) = 0
  <2>1. <<>> \in Seq(Event) /\ <<>> \o <<>> = <<>> /\ Len(<<>>) = 0
    BY ConcatEmptySeq, EmptySeq
  <2> QED
    BY <2>1 DEF Emitted, Init
<1>2. TypeOK
  BY EmptySeq DEF Init, TypeOK, NoAnswer
<1>3. EventsOK /\ Ordered(Emitted)
  BY <1>1 DEF Init, EventsOK, Ordered, Holds
<1>4. TimedOK /\ CallsOK /\ ShownOK /\ GroundedOK /\ pc \in Step
  BY DEF Init, TimedOK, CallsOK, ShownOK, GroundedOK
<1> QED
  BY <1>2, <1>3, <1>4 DEF IInv

LEMMA StepInvariant == IInv /\ [Next]_vars => IInv'
BY EventsNext, TimedNext, CallsNext, TypeNext, AnswerNext DEF IInv

(* The inductive invariant holds.                                          *)
THEOREM Invariant == Spec => []IInv
BY InitInvariant, StepInvariant, PTL DEF Spec

(* The workflow's state keeps its types.                                   *)
THEOREM TypeCorrect == Spec => []TypeOK
<1>1. IInv => TypeOK
  BY DEF IInv
<1> QED
  BY <1>1, Invariant, PTL

(* Whatever the services answer and the limits cut off, the model may cite *)
(* all that prepare_context shows it, and nothing else than ids of that    *)
(* evidence, of which a node may have several.                             *)
THEOREM ShownIsCitable == Spec => []OnlyShownIsCitable
<1>1. IInv => OnlyShownIsCitable
  BY DEF IInv, ShownOK, OnlyShownIsCitable
<1> QED
  BY <1>1, Invariant, PTL

(* An answer the client gets is grounded, whatever the model drafted.      *)
THEOREM AnswersAreGrounded == Spec => []AnswersGrounded
<1>1. ASSUME IInv, pc = "end", answer.type = "answer"
      PROVE  /\ answer.cites # {} /\ \A id \in answer.cites : AboutShown(id)
             /\ CitesSource => answer.cites \cap SourceIds # {}
             /\ Retrieves /\ query.article => CitesSource
             /\ ~query.relationship /\ passages # {} => CitesSource
  <2>1. Grounded /\ \A id \in citable : AboutShown(id) /\ (id[1] = "source" => id \in SourceIds)
    BY <1>1 DEF IInv, ShownOK, GroundedOK
  <2> QED
    BY <2>1 DEF Grounded, CitesSource
<1>2. IInv => AnswersGrounded
  BY <1>1 DEF AnswersGrounded
<1> QED
  BY <1>2, Invariant, PTL

------------------------------------------------------------------------------
(* The stream that the client sees implements AnswerStream.                *)

LEMMA SendImplements ==
  ASSUME IInv, Send
  PROVE  Stream!Next
<1>1. TypeOK /\ Ordered(Emitted)
  BY DEF IInv
<1> DEFINE n == Len(sent)
           e == Emitted[n + 1]
<1>2. /\ sent' = Append(sent, e) /\ n + 1 \in 1 .. Len(Emitted)
      /\ Emitted \in Seq(Event) /\ sent \in Seq(Event) /\ n \in Nat
  BY <1>1, SendKeeps, EmittedType, LenProperties DEF TypeOK
<1>3. MayStand(Emitted, n + 1)
  BY <1>1, <1>2 DEF Ordered
<1>4. \A f : Stream!Sent(f) <=> \E j \in 1 .. ((n + 1) - 1) : Emitted[j] = f
  <2>1. DOMAIN sent = 1 .. n /\ (n + 1) - 1 = n
    BY <1>2, LenProperties
  <2>2. \A j \in 1 .. n : Emitted[j] = sent[j]
    BY <1>1, EmittedType
  <2> HIDE DEF n
  <2> QED
    BY <2>1, <2>2 DEF Stream!Sent
<1>5. sent = <<>> <=> n + 1 = 1
  BY <1>2, EmptySeq
<1>6. e \in Event
  BY <1>2
<1> HIDE DEF e, n
<1>7. Stream!MayFollow(e)
  <2>1. /\ ~Stream!Sent("message.failed")
        /\ e = "message.started" <=> sent = <<>>
        /\ e = "tool.started" => ~Stream!Sent("tool.started") /\ ~Stream!Sent("answer.delta")
        /\ e = "tool.completed" => Stream!Sent("tool.started") /\ ~Stream!Sent("tool.completed")
        /\ e \in {"answer.delta", "citation.available", "message.completed"} =>
             /\ Stream!Sent("tool.started") => Stream!Sent("tool.completed")
             /\ ~Stream!Sent("message.completed")
    BY <1>3, <1>4, <1>5 DEF MayStand, e
  <2> QED
    BY <1>6, <2>1 DEF Stream!MayFollow, Stream!ToolRuns
<1>8. stream = "open" /\ UNCHANGED <<stream, made>>
  BY DEF Send, searching
<1>9. Stream!Send(e)
  BY <1>2, <1>7, <1>8 DEF Stream!Send
<1> QED
  BY <1>6, <1>9 DEF Stream!Next

LEMMA StepImplements ==
  ASSUME IInv, [Next]_vars
  PROVE  [Stream!Next]_(Stream!vars)
<1>1. /\ TypeOK /\ EventsOK /\ CallsOK /\ made \in Nat /\ sent \in Seq(Event)
      /\ MaxToolCalls \in Nat
  BY AgentAssumption DEF IInv, TypeOK
<1> DEFINE Goal == [Stream!Next]_(Stream!vars)
<1>2. ASSUME UNCHANGED <<sent, stream, made>> PROVE Goal
  BY <1>2 DEF Stream!vars
<1>3. CASE Send
  BY <1>3, SendImplements
<1>4. ASSUME NEW r \in Result, QueryGraphify(r) \/ GetNeighbors(r) PROVE Goal
  <2>1. /\ pc \in Searching /\ outbox = <<>> /\ stream = "open"
        /\ made' = made + 1 /\ UNCHANGED <<sent, stream>>
    BY <1>4 DEF QueryGraphify, GetNeighbors, Runs, Goes
  <2>2. made < MaxToolCalls
    <3>1. CASE QueryGraphify(r)
      BY <1>1, <3>1 DEF QueryGraphify, Runs, CallsOK
    <3>2. CASE GetNeighbors(r)
      <4>1. /\ made = calls + Len(results) - 1 /\ calls + (Len(results) - 1) < MaxToolCalls
        BY <1>1, <3>2 DEF GetNeighbors, Runs, MoreToExpand, Expanded, CallsOK
      <4>2. calls \in Nat /\ Len(results) \in Nat
        BY <1>1, LenProperties DEF TypeOK
      <4> QED
        BY <4>1, <4>2
    <3> QED
      BY <1>4, <3>1, <3>2
  <2>3. Stream!ToolRuns
    <3>1. Holds("tool.started") /\ ~Holds("tool.completed") /\ Emitted = sent
      BY <1>1, <2>1, EmittedType DEF EventsOK
    <3>2. DOMAIN sent = 1 .. Len(sent)
      BY <1>1, LenProperties
    <3> QED
      BY <3>1, <3>2 DEF Holds, Stream!ToolRuns, Stream!Sent
  <2> QED
    BY <2>1, <2>2, <2>3 DEF Stream!Next, Stream!Call
<1>5. ASSUME stream = "open", stream' # "open", UNCHANGED <<sent, made>> PROVE Goal
  BY <1>5 DEF Stream!Next, Stream!Close
<1>6. CASE EndStream \/ Disconnect
  BY <1>5, <1>6 DEF EndStream, Disconnect, Runs, searching
<1>7. CASE Deadline
  <2>1. CASE outbox = <<>>
    BY <1>2, <1>7, <2>1 DEF Deadline, searching
  <2>2. CASE outbox # <<>>
    BY <1>5, <1>7, <2>2 DEF Deadline, searching
  <2> QED
    BY <2>1, <2>2
<1>8. ASSUME NEW found \in SUBSET Passage, RetrieveSourcePassages(found) PROVE Goal
  BY <1>2, <1>8 DEF RetrieveSourcePassages, Goes, searching
<1>9. ASSUME NEW draft \in Drafts, GenerateAnswer(draft) PROVE Goal
  BY <1>2, <1>9 DEF GenerateAnswer, Goes, searching
<1>10. CASE \/ Start \/ SetDeadline \/ PlanGraphQuery \/ MergeEvidence \/ ValidateGrounding
            \/ FormatResponse \/ ValidateRequest \/ ResolveFollowUp \/ PrepareClarification
            \/ Raise \/ UNCHANGED vars
  BY <1>2, <1>10 DEF Start, SetDeadline, PlanGraphQuery, MergeEvidence, ValidateGrounding,
     FormatResponse, ValidateRequest, ResolveFollowUp, PrepareClarification, Raise, Goes,
     searching, vars
<1> QED
  BY <1>3, <1>4, <1>6, <1>7, <1>8, <1>9, <1>10 DEF Next, Compute, Answered

(* The client's stream keeps AnswerStream's order, and Graphify is asked   *)
(* only while the tool is shown to run and at most max_tool_calls times.   *)
THEOREM StreamImplemented == Spec => ImplementsAnswerStream
<1>1. Init => Stream!Init
  BY DEF Init, Stream!Init
<1> QED
  BY <1>1, Invariant, StepImplements, PTL DEF Spec, ImplementsAnswerStream, Stream!Spec
==============================================================================
