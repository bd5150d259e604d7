---------------------------- MODULE GraphVersions ----------------------------
(***************************************************************************)
(* What the knowledge ingestion service promises about graph versions.     *)
(* A graph appears complete, under a name later than every name in use,    *)
(* and never changes.  The served version is always one of the complete    *)
(* ones; it is replaced in one step.  A version is retired only when       *)
(* enough later ones are kept, and never while it is served.               *)
(***************************************************************************)
EXTENDS Naturals, FiniteSets

CONSTANTS Version, Content, VersionsToKeep, None

VARIABLES
  graphs,   \* the content of every version
  serving   \* the version that queries read, or None

graphVars == <<graphs, serving>>

Kept == {v \in Version : graphs[v] # None}

Init ==
  /\ graphs = [v \in Version |-> None]
  /\ serving = None

Publish(v, c) ==
  /\ \A w \in Kept : w < v
  /\ graphs' = [graphs EXCEPT ![v] = c]
  /\ UNCHANGED serving

Serve(v) ==
  /\ v \in Kept
  /\ serving' = v
  /\ UNCHANGED graphs

(* The first activation is undone: there is no version to go back to.      *)
ServeNothing ==
  /\ serving' = None
  /\ UNCHANGED graphs

Retire(v) ==
  /\ v \in Kept \ {serving}
  /\ Cardinality({w \in Kept : w > v}) >= VersionsToKeep
  /\ graphs' = [graphs EXCEPT ![v] = None]
  /\ UNCHANGED serving

Next ==
  \/ \E v \in Version : \/ \E c \in Content : Publish(v, c)
                        \/ Serve(v)
                        \/ Retire(v)
  \/ ServeNothing

Spec == Init /\ [][Next]_graphVars

=============================================================================
