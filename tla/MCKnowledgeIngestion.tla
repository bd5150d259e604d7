------------------------ MODULE MCKnowledgeIngestion ------------------------
(***************************************************************************)
(* Small instances of KnowledgeIngestion for the model checker.            *)
(***************************************************************************)
EXTENDS KnowledgeIngestion, TLC

CONSTANTS api, cli, s1, s2, f1, f2

TwoProcesses == {api, cli}
TwoSources == {s1, s2}
OneFingerprint == {f1}
TwoFingerprints == {f1, f2}

(* Processes, sets of documents and configurations are interchangeable.    *)
Symmetry ==
  Permutations({api, cli}) \cup Permutations({s1, s2}) \cup Permutations(Fingerprint)

=============================================================================
