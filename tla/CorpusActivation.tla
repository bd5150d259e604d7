-------------------------- MODULE CorpusActivation --------------------------
(***************************************************************************)
(* What the project lifecycle promises about the corpus a project serves.  *)
(* A corpus is submitted as a whole.  What is submitted is, unchanged, what *)
(* replaces the served corpus in one step, or it is given up and the       *)
(* served corpus stays as it was.                                          *)
(***************************************************************************)
EXTENDS Naturals

CONSTANTS Project, Corpus, None

VARIABLES
  pending,     \* the corpus submitted and not yet activated or given up
  serving,     \* the corpus that answers are grounded in
  generation   \* how many times the served corpus was replaced

corpusVars == <<pending, serving, generation>>

Init ==
  /\ pending = [p \in Project |-> None]
  /\ serving = [p \in Project |-> None]
  /\ generation = [p \in Project |-> 0]

Submit(p, c) ==
  /\ pending[p] = None
  /\ pending' = [pending EXCEPT ![p] = c]
  /\ UNCHANGED <<serving, generation>>

Activate(p) ==
  /\ pending[p] # None
  /\ serving' = [serving EXCEPT ![p] = pending[p]]
  /\ generation' = [generation EXCEPT ![p] = @ + 1]
  /\ pending' = [pending EXCEPT ![p] = None]

GiveUp(p) ==
  /\ pending[p] # None
  /\ pending' = [pending EXCEPT ![p] = None]
  /\ UNCHANGED <<serving, generation>>

Next == \E p \in Project :
  \/ \E c \in Corpus : Submit(p, c)
  \/ Activate(p)
  \/ GiveUp(p)

Spec == Init /\ [][Next]_corpusVars

============================================================================
