----------------------- MODULE MCDependencyTraversal -----------------------
(* Instances of DependencyTraversal for TLC: all graphs of four objects, of *)
(* which one is a package with two of the others as its routines.           *)
EXTENDS DependencyTraversal

Four == {"a", "b", "c", "p"}

(* One of the routines may call itself.                                    *)
Edges == {e \in [from : Four, to : Four] : e.from # e.to \/ e.from = "b"}

AnyGraph == SUBSET Edges

Ring == {[from |-> "a", to |-> "b"], [from |-> "b", to |-> "c"],
         [from |-> "c", to |-> "p"], [from |-> "p", to |-> "a"]}

OneRing == {Ring}

Routines == [o \in Four |-> IF o = "p" THEN {"b", "c"} ELSE {}]
==============================================================================
