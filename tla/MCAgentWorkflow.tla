--------------------------- MODULE MCAgentWorkflow ---------------------------
(* Instances of AgentWorkflow for TLC.                                      *)
EXTENDS AgentWorkflow

CONSTANTS n1, n2, n3, n4, e1, e2, p1, s1

FourNodes == {n1, n2, n3, n4}
TwoEdges == {e1, e2}
OnePath == {p1}
OnePassage == {s1}

(* n1 -- n2 -- n3, and the path over n1 and n2.                             *)
EndsOfEdges == (e1 :> {n1, n2}) @@ (e2 :> {n2, n3})
NodesOfPath == (p1 :> {n1, n2})
EdgesOfPath == (p1 :> {e1})

TwoIds == {1, 2}

(* Nodes, and the citations of n2.                                          *)
MostDocumented == {n1, 2}
OneOfArticle == {n1}

Queries ==
  {[article |-> TRUE, relationship |-> FALSE, variants |-> 3],
   [article |-> FALSE, relationship |-> FALSE, variants |-> 1],
   [article |-> FALSE, relationship |-> TRUE, variants |-> 2]}

(* Two citations for n1, and one for n2 by an id that has been used; one    *)
(* for n2, one for a node that the answer does not have and one for none.   *)
Answers ==
  {[nodes |-> <<>>, edges |-> <<>>, paths |-> {}, citations |-> <<>>],
   [nodes |-> <<n1, n2>>, edges |-> <<e1>>, paths |-> {p1},
    citations |-> <<[id |-> 1, of |-> n1], [id |-> 2, of |-> n1], [id |-> 1, of |-> n2]>>],
   [nodes |-> <<n3, n2, n4>>, edges |-> <<e2>>, paths |-> {},
    citations |-> <<[id |-> 2, of |-> n2], [id |-> 1, of |-> n1], [id |-> 2, of |-> None]>>],
   [nodes |-> <<n2, n1>>, edges |-> <<e2, e1>>, paths |-> {p1}, citations |-> <<>>]}
==============================================================================
