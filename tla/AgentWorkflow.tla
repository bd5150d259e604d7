---------------------------- MODULE AgentWorkflow ----------------------------
(***************************************************************************)
(* One question: the nodes of the agent's graph, the stream of events they *)
(* lead to and the consumer that sends those events.  The agent and its    *)
(* consumer are one task: while an event is being persisted and sent the   *)
(* agent stands still at its yield.  Graphify, the retriever and the model *)
(* may give any answer, raise, or never answer; the deadline may strike    *)
(* and the client may go at any point.                                     *)
(***************************************************************************)
EXTENDS Naturals, Sequences, FiniteSets, SequencesExt

CONSTANTS
  Node, Edge, Path, Passage,  \* what the services know
  Ends,          \* the nodes of each edge
  PathNodes, PathEdges,
  CitationId,    \* ids that the adapter gives its own citations
  Documented,    \* nodes and citations whose source is a Markdown document
  OfArticle,     \* nodes that name the requested article
  Query,         \* [article, relationship: BOOLEAN, variants: 1..3]
  Result,        \* what Graphify may answer
  MaxToolCalls, MaxNodes, MaxEdges, MaxEvidence,
  MaxCites,      \* bound: the citations of a draft
  Retrieves,     \* there is a source retriever
  None

ASSUME AgentAssumption ==
  /\ MaxToolCalls \in Nat \ {0} /\ MaxNodes \in Nat \ {0}
  /\ MaxEdges \in Nat /\ MaxEvidence \in Nat
  /\ \A S \in {Node, Edge, Path, Passage, CitationId} : IsFiniteSet(S)
  /\ Retrieves \in BOOLEAN
  /\ Ends \in [Edge -> SUBSET Node]
  /\ PathNodes \in [Path -> SUBSET Node]
  /\ PathEdges \in [Path -> SUBSET Edge]
  /\ Query \subseteq [article: BOOLEAN, relationship: BOOLEAN, variants: 1..3]
  /\ Result \subseteq [nodes: Seq(Node), edges: Seq(Edge), paths: SUBSET Path,
                       citations: Seq([id: CitationId, of: Node \cup {None}])]
  /\ None \notin Query

VARIABLES
  pc,        \* the node that runs, or what stream() does around them
  query,     \* the resolved question
  calls,     \* tool_calls of the workflow's state
  made,      \* calls to Graphify that were really made
  results,   \* what Graphify has answered: the search, then neighbours
  passages,  \* source_passages
  evidence,  \* the graph evidence of the answer
  citable,   \* ids of evidence_citations
  answer,    \* the draft, then the answer
  outbox,    \* events that are still to be sent
  sent,      \* events the client has got
  timed,     \* asyncio.timeout has been entered
  stream     \* how the stream has ended

vars == <<pc, query, calls, made, results, passages, evidence, citable,
          answer, outbox, sent, timed, stream>>

(* The locals of the nodes that search and of those that answer.           *)
searching == <<calls, made, results>>
answering == <<passages, evidence, citable, answer>>

(***************************************************************************)
(* Citations.  Of several with one id the first counts, and of those that  *)
(* count the ones for a node of the evidence.  Only a search has citations *)
(* (a GraphSubgraph has none).  An id that the adapter gives is never one  *)
(* of the workflow's own "node:", "edge:", "path:" and "source:" ids; the  *)
(* citation "node:<id>" of a node itself is the one it gets anyway.        *)
(***************************************************************************)
Own(cs, N) ==
  {i \in DOMAIN cs : cs[i].of \in N /\ \A j \in 1..(i - 1) : cs[j].id # cs[i].id}

GivenIds(cs, N) == {<<"given", cs[i].id>> : i \in Own(cs, N)}

GraphIds(ev, cs) ==
  GivenIds(cs, ToSet(ev.nodes))
    \cup {<<"node", n>> : n \in {m \in ToSet(ev.nodes) : Own(cs, {m}) = {}}}
    \cup {<<"edge", e>> : e \in ToSet(ev.edges)}
    \cup {<<"path", p>> : p \in ev.paths}

SourceIds == {<<"source", s>> : s \in passages}

(* The model may cite anything.                                            *)
AnyId ==
  ({"node"} \X Node) \cup ({"given"} \X CitationId) \cup ({"edge"} \X Edge)
    \cup ({"path"} \X Path) \cup ({"source"} \X Passage) \cup {<<"unknown", None>>}

NoEvidence == [nodes |-> <<>>, edges |-> <<>>, paths |-> {}]

NoAnswer == [type |-> "answer", cites |-> {}]

Insufficient == [type |-> "insufficient", cites |-> {}]

(***************************************************************************)
(* _merge_evidence: nodes and edges in the order in which they were first  *)
(* seen, within the limits, and nothing that refers to a node left out.    *)
(***************************************************************************)
Seen(s, x) == IF x \in ToSet(s) THEN s ELSE Append(s, x)

Distinct(seqs) == FoldLeft(LAMBDA s, t : FoldLeft(Seen, s, t), <<>>, seqs)

AtMost(s, n) == SubSeq(s, 1, IF Len(s) < n THEN Len(s) ELSE n)

(* What is left of the evidence when only its first k nodes are.           *)
Trimmed(ev, k) ==
  LET nodes == SubSeq(ev.nodes, 1, k) IN
  [nodes |-> nodes,
   edges |-> SelectSeq(ev.edges, LAMBDA e : Ends[e] \subseteq ToSet(nodes)),
   paths |-> {p \in ev.paths : PathNodes[p] \subseteq ToSet(nodes)}]

Size(ev) == Len(ev.nodes) + Len(ev.edges) + Cardinality(ev.paths)

(* Nodes are popped until the evidence fits.                               *)
Fitted(ev) ==
  LET fits == {k \in 0..Len(ev.nodes) : Size(Trimmed(ev, k)) <= MaxEvidence}
  IN  IF fits = {} THEN NoEvidence
      ELSE Trimmed(ev, CHOOSE k \in fits : \A j \in fits : j <= k)

Limited(rs) ==
  LET nodes == AtMost(Distinct([i \in DOMAIN rs |-> rs[i].nodes]),
                      MaxNodes)
      edges == AtMost(
        SelectSeq(Distinct([i \in DOMAIN rs |-> rs[i].edges]),
                  LAMBDA e : Ends[e] \subseteq ToSet(nodes)), MaxEdges)
      paths == {p \in UNION {rs[i].paths : i \in DOMAIN rs} :
                  /\ PathNodes[p] \subseteq ToSet(nodes)
                  /\ PathEdges[p] \subseteq ToSet(edges)}
  IN  [nodes |-> nodes, edges |-> edges, paths |-> paths]

Merged(rs) == Fitted(Limited(rs))

MergedIds_BeforeFitting(rs) == GraphIds(Limited(rs), rs[1].citations)

MergedIds(rs) == GraphIds(Merged(rs), rs[1].citations)

(* _source_scope of the search result, which its own limits do not cut.    *)
DocumentsInScope ==
  LET nodes == ToSet(results[1].nodes)
      cs == results[1].citations
  IN  \/ nodes \cap Documented # {}
      \/ {cs[i].id : i \in Own(cs, nodes)} \cap Documented # {}

ArticlesInScope == ToSet(results[1].nodes) \cap OfArticle # {}

------------------------------------------------------------------------------

Init ==
  /\ pc = "stream" /\ query = None
  /\ calls = 0 /\ made = 0 /\ results = <<>>
  /\ passages = {} /\ evidence = NoEvidence /\ citable = {} /\ answer = NoAnswer
  /\ outbox = <<>> /\ sent = <<>>
  /\ timed = FALSE /\ stream = "open"

(* A node runs when the consumer has taken all events of the ones before.  *)
Runs(node) == stream = "open" /\ outbox = <<>> /\ pc = node

Goes(node, events) ==
  /\ pc' = node /\ outbox' = events
  /\ UNCHANGED <<sent, timed, stream>>

(* stream() yields message.started before the deadline is set.             *)
Start ==
  /\ Runs("stream")
  /\ Goes("timeout", <<"message.started">>)
  /\ UNCHANGED <<query, searching, answering>>

SetDeadline ==
  /\ Runs("timeout")
  /\ pc' = "validate_request" /\ timed' = TRUE
  /\ UNCHANGED <<query, searching, answering, outbox, sent, stream>>

(* A node raises: "except Exception" of stream(), outside the deadline.    *)
Raise ==
  /\ stream = "open" /\ outbox = <<>>
  /\ pc \in {"validate_request", "resolve_follow_up", "query_graphify",
             "expand_graph_evidence", "generate_answer"}
  /\ pc' = "failed" /\ outbox' = <<"message.failed">> /\ timed' = FALSE
  /\ UNCHANGED <<query, searching, answering, sent, stream>>

ValidateRequest ==
  /\ Runs("validate_request")
  /\ \E q \in Query : query' = q
  /\ Goes("resolve_follow_up", <<>>)
  /\ UNCHANGED <<searching, answering>>

(* Without history the question stands; with history the model may replace *)
(* it, or have the user asked what was meant.                              *)
ResolveFollowUp ==
  /\ Runs("resolve_follow_up")
  /\ \E q \in Query : query' = q
  /\ Goes("classify_question", <<>>)
  /\ UNCHANGED <<searching, answering>>

PrepareClarification ==
  /\ Runs("resolve_follow_up")
  /\ answer' = [type |-> "clarification", cites |-> {}]
  /\ Goes("format_response", <<>>)
  /\ UNCHANGED <<query, searching, passages, evidence, citable>>

(* classify_question and plan_graph_query, of which the client hears.      *)
PlanGraphQuery ==
  /\ Runs("classify_question")
  /\ Goes("query_graphify", <<"tool.started">>)
  /\ UNCHANGED <<query, searching, answering>>

(* One call of search: a search without nodes is tried again in the other  *)
(* variants of the query, and only an answer with nodes replaces it.       *)
QueryGraphify(r) ==
  LET last == \/ r.nodes # <<>> \/ made + 1 >= query.variants
              \/ made + 1 >= MaxToolCalls
  IN
  /\ Runs("query_graphify")
  /\ made' = made + 1
  /\ results' = IF results = <<>> \/ r.nodes # <<>> THEN <<r>> ELSE results
  /\ calls' = IF last THEN made + 1 ELSE calls
  /\ Goes(IF last THEN "retrieve_source_passages" ELSE pc, <<>>)
  /\ UNCHANGED <<query, answering>>

(* scope_text_retrieval and the retriever, whose exceptions are swallowed. *)
InScope == DocumentsInScope /\ (query.article => ArticlesInScope)

RetrieveSourcePassages(found) ==
  /\ Runs("retrieve_source_passages")
  /\ ~(Retrieves /\ InScope) => found = {}
  /\ passages' = found
  /\ Goes("expand_graph_evidence", <<>>)
  /\ UNCHANGED <<query, searching, evidence, citable, answer>>

(* The top hits are expanded as far as calls are left ...                  *)
Expanded == Len(results) - 1

TopHits == Merged(<<results[1]>>).nodes

MoreToExpand_AfterOneSearch == Expanded < Len(TopHits) /\ 1 + Expanded < MaxToolCalls

MoreToExpand == Expanded < Len(TopHits) /\ calls + Expanded < MaxToolCalls

GetNeighbors(r) ==
  /\ Runs("expand_graph_evidence")
  /\ MoreToExpand
  /\ made' = made + 1
  /\ results' = Append(results, r)
  /\ Goes(pc, <<>>)
  /\ UNCHANGED <<query, calls, answering>>

(* ... and everything is merged; the source passages join the citations in *)
(* merge_graph_and_text_evidence.                                          *)
CitableIds == MergedIds(results) \cup SourceIds

MergeEvidence ==
  /\ Runs("expand_graph_evidence")
  /\ ~MoreToExpand
  /\ evidence' = Merged(results)
  /\ citable' = CitableIds
  /\ calls' = calls + Expanded
  /\ Goes("generate_answer", <<"tool.completed">>)
  /\ UNCHANGED <<query, made, results, passages, answer>>

(* prepare_context: the ids by which the model is shown the evidence.  Of  *)
(* a node's own citations it sees the last, though all are citable.        *)
NodeId(n) ==
  LET cs == results[1].citations
      own == {i \in Own(cs, {n}) : <<"given", cs[i].id>> \in citable}
  IN  IF own = {} THEN <<"node", n>> ELSE <<"given", cs[Max(own)].id>>

ContextIds ==
  {NodeId(n) : n \in ToSet(evidence.nodes)}
    \cup {<<"edge", e>> : e \in ToSet(evidence.edges)}
    \cup {<<"path", p>> : p \in evidence.paths}
    \cup SourceIds

NothingToSay ==
  \/ evidence.nodes = <<>> \/ citable = {}
  \/ Retrieves /\ query.article /\ passages = {}

GenerateAnswer(draft) ==
  /\ Runs("generate_answer")
  /\ NothingToSay => draft = Insufficient
  /\ answer' = draft
  /\ Goes("validate_grounding", <<>>)
  /\ UNCHANGED <<query, searching, passages, evidence, citable>>

CitesSource == \E id \in answer.cites : id[1] = "source"

Grounded_AnyCitation ==
  /\ answer.type = "answer" /\ answer.cites # {}
  /\ Retrieves /\ query.article => CitesSource
  /\ ~query.relationship /\ passages # {} => CitesSource

Grounded ==
  /\ answer.type = "answer"
  /\ answer.cites # {} /\ answer.cites \subseteq citable
  /\ Retrieves /\ query.article => CitesSource
  /\ ~query.relationship /\ passages # {} => CitesSource

ValidateGrounding ==
  /\ Runs("validate_grounding")
  /\ answer' = IF Grounded THEN answer ELSE Insufficient
  /\ Goes("format_response", <<>>)
  /\ UNCHANGED <<query, searching, passages, evidence, citable>>

(* The text in pieces, the citations that were selected, and the answer.   *)
FormatResponse ==
  LET shown == answer.cites \cap citable IN
  /\ Runs("format_response")
  /\ answer' = [answer EXCEPT !.cites = shown]
  /\ Goes("end", <<"answer.delta">>
            \o [i \in 1..Cardinality(shown) |-> "citation.available"]
            \o <<"message.completed">>)
  /\ UNCHANGED <<query, searching, passages, evidence, citable>>

(* The graph has ended, and with it the stream.                            *)
EndStream ==
  /\ pc \in {"end", "failed"} /\ Runs(pc)
  /\ stream' = "ended" /\ timed' = FALSE
  /\ UNCHANGED <<pc, query, searching, answering, outbox, sent>>

(* events() of the endpoint: the event is persisted, sent and the agent    *)
(* resumed.                                                                *)
Send ==
  /\ stream = "open" /\ outbox # <<>>
  /\ sent' = Append(sent, Head(outbox))
  /\ outbox' = Tail(outbox)
  /\ UNCHANGED <<pc, query, searching, answering, timed, stream>>

(* The deadline cancels the task.  In the agent that becomes TimeoutError  *)
(* and a message.failed; in the consumer it is a cancellation like others. *)
Deadline_OfTheAgent ==
  /\ stream = "open" /\ timed /\ outbox = <<>>
  /\ timed' = FALSE
  /\ pc' = "failed" /\ outbox' = <<"message.failed">>
  /\ UNCHANGED <<query, searching, answering, sent, stream>>

Deadline ==
  /\ stream = "open" /\ timed
  /\ timed' = FALSE
  /\ IF outbox = <<>>
     THEN pc' = "failed" /\ outbox' = <<"message.failed">> /\ UNCHANGED stream
     ELSE stream' = "cut" /\ UNCHANGED <<pc, outbox>>
  /\ UNCHANGED <<query, searching, answering, sent>>

Disconnect ==
  /\ stream = "open"
  /\ stream' = "left"
  /\ UNCHANGED <<pc, query, searching, answering, outbox, sent, timed>>

Drafts ==
  {Insufficient}
    \cup [type: {"answer"}, cites: {ids \in SUBSET AnyId : Cardinality(ids) <= MaxCites}]

(* What waits for nobody outside.                                          *)
Compute ==
  \/ Start \/ SetDeadline \/ PlanGraphQuery \/ MergeEvidence
  \/ ValidateGrounding \/ FormatResponse \/ EndStream

Answered ==
  \/ ValidateRequest \/ ResolveFollowUp \/ PrepareClarification
  \/ \E r \in Result : QueryGraphify(r) \/ GetNeighbors(r)
  \/ \E found \in SUBSET Passage : RetrieveSourcePassages(found)
  \/ \E draft \in Drafts : GenerateAnswer(draft)

Next == Compute \/ Answered \/ Raise \/ Send \/ Deadline \/ Disconnect

Spec == Init /\ [][Next]_vars

(* The event loop runs the stream, time passes, and while no deadline runs *)
(* an event is sent or the connection given up.  No node of the agent need *)
(* ever come to an end.                                                    *)
Fairness ==
  /\ WF_vars(Start \/ SetDeadline \/ EndStream) /\ WF_vars(Deadline)
  /\ WF_vars(~timed /\ (Send \/ Disconnect))

FairSpec == Spec /\ Fairness

------------------------------------------------------------------------------
(* Properties.                                                             *)

Stream == INSTANCE AnswerStream WITH open <- (stream = "open"), used <- made

(* The types of the workflow's state (evidence and citable are what        *)
(* _merge_evidence makes of the results).                                  *)
TypeOK ==
  /\ query \in Query \cup {None}
  /\ calls \in Nat /\ made \in Nat
  /\ results \in Seq(Result)
  /\ passages \subseteq Passage
  /\ answer \in [type: {"answer", "clarification", "insufficient"},
                 cites: SUBSET AnyId]
  /\ sent \in Seq(Stream!Event) /\ outbox \in Seq(Stream!Event)
  /\ timed \in BOOLEAN /\ stream \in {"open", "ended", "cut", "left"}

(* An id by which the evidence is shown, or that of another citation which *)
(* the search gave for a node that is shown.                               *)
AboutShown(id) ==
  \/ id \in ContextIds
  \/ \E c \in ToSet(results[1].citations) :
       c.of \in ToSet(evidence.nodes) /\ id = <<"given", c.id>>

(* Whatever the limits cut off, the model may cite all it is shown, and    *)
(* nothing about evidence it is not shown: there is none in the context    *)
(* that an answer is rejected for citing, and the allowlist has only ids   *)
(* of the evidence of the context.                                         *)
OnlyShownIsCitable ==
  pc = "generate_answer" =>
    ContextIds \subseteq citable /\ \A id \in citable : AboutShown(id)

(* An answer that the client gets as one cites evidence, only evidence     *)
(* that the model was shown, and a passage that was retrieved when an      *)
(* article was asked for or source text was found for a question of        *)
(* knowledge.                                                              *)
AnswersGrounded ==
  pc = "end" /\ answer.type = "answer" =>
    /\ answer.cites # {} /\ \A id \in answer.cites : AboutShown(id)
    /\ Retrieves /\ query.article => answer.cites \cap SourceIds # {}
    /\ ~query.relationship /\ passages # {} => answer.cites \cap SourceIds # {}

(* The events come in the order of AnswerStream (which, unlike the         *)
(* contract, lets a failure follow an answer that has completed), and      *)
(* Graphify is asked only between the tool events, never more often than   *)
(* allowed.                                                                *)
ImplementsAnswerStream == Stream!Spec

(* "The terminal event is exactly one of message.completed or              *)
(* message.failed" (docs/architecture/contracts.md:46): a deadline that    *)
(* strikes when message.completed has been sent adds the other.            *)
OneTerminalEvent ==
  Cardinality({i \in DOMAIN sent : sent[i] \in {"message.completed", "message.failed"}}) <= 1

(* Every stream ends, even if Graphify, the retriever or the model never   *)
(* answers or the client reads nothing more while the deadline runs.       *)
StreamEnds == <>(stream # "open")

==============================================================================
