--------------------- MODULE MCProjectBuildsAutocommit ---------------------
(***************************************************************************)
(* Small instances of ProjectBuildsAutocommit for the model checker.       *)
(***************************************************************************)
EXTENDS ProjectBuildsAutocommit, TLC

CONSTANTS p1, p2, r1, r2, u1, u2, k1, k2, f1, f2, c1, c2

OneProject == {p1}
TwoProjects == {p1, p2}
OneRequest == {r1}
TwoRequests == {r1, r2}
ThreeIndexes == 1 .. 3
OneSession == {u1}
TwoSessions == {u1, u2}
TwoBuilds == 1 .. 2
OneKey == {k1}
TwoKeys == {k1, k2}
OneName == {f1}
TwoNames == {f1, f2}
OneContent == {c1}
TwoContents == {c1, c2}

(* Sessions, keys, names and handlers are interchangeable; projects are    *)
(* not (an unused row points to a chosen one), nor are ids kept in order.  *)
Symmetry == Permutations(Session) \cup Permutations(Key) \cup Permutations(Name)
              \cup Permutations(Content) \cup Permutations(Request)

============================================================================
