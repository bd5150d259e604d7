--------------------------- MODULE MCProjectAccess ---------------------------
(* Instances of ProjectAccess for TLC: the second user is an administrator  *)
(* of the tenant and, where there is a group, in the group.                 *)
EXTENDS ProjectAccess, TLC

CONSTANTS u1, u2, g1, h1, h2, q1

TwoUsers == {u1, u2}
OneGroup == {g1}
SecondInGroup == [u \in User |-> IF u = u2 THEN {g1} ELSE {}]
OneAdmin == {u2}
NoGroups == [u \in User |-> {}]
TwoHandlers == {h1, h2}
OneAccessRequest == {q1}
OnlyManager == {"manager"}

Symmetry == Permutations(Handler)
==============================================================================
