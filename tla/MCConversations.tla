--------------------------- MODULE MCConversations ---------------------------
(* Instances of Conversations for TLC.                                      *)
EXTENDS Conversations, TLC

CONSTANTS c1, r1, r2, i1, i2, e1

OneConversation == {c1}
TwoRequests == {r1, r2}
TwoIds == {i1, i2}
OneEditor == {e1}
Symmetry == Permutations({r1, r2}) \cup Permutations({i1, i2})
==============================================================================
