------------------------- MODULE ConversationsProofs -------------------------
(***************************************************************************)
(* Proofs about Conversations, for any numbers of conversations, requests, *)
(* request ids and editors.                                                *)
(*                                                                         *)
(* OneWriter is not inductive: nothing in it says why a second request is  *)
(* turned away.  The reason is the row: as long as no lease lapsed under a *)
(* request and no id is shared, the row of a conversation that a request   *)
(* holds carries the id of that request and is live (LeaseHeld).           *)
(* ExchangesWhole needs what the handlers know of the rows (ExchangeInv).  *)
(*                                                                         *)
(* The last part proves that the SQL store implements ConversationStore,   *)
(* the store in memory (StoreImplemented).                                 *)
(***************************************************************************)
EXTENDS Conversations, TLAPS, FiniteSetTheorems, SequenceTheorems,
        WellFoundedInduction

------------------------------------------------------------------------------
(* Natural numbers and messages.                                           *)

(* The natural numbers are well ordered: n stands for 0 .. (n - 1), and    *)
(* the finite sets are well ordered by inclusion.                          *)
LEMMA LeastNat ==
  ASSUME NEW T \in SUBSET Nat, T # {}
  PROVE  \E m \in T : \A n \in T : m <= n
<1> DEFINE D == {0 .. (n - 1) : n \in T}
<1>1. D # {} /\ D \subseteq FiniteSubsetsOf(Nat)
  <2>1. \A n \in T : 0 .. (n - 1) \subseteq Nat /\ IsFiniteSet(0 .. (n - 1))
    BY FS_Interval
  <2> QED
    BY <2>1 DEF FiniteSubsetsOf
<1>2. PICK x \in D : \A y \in D : <<y, x>> \notin StrictSubsetOrdering(Nat)
  BY <1>1, FS_StrictSubsetOrderingWellFounded, WFMin
<1>3. PICK m \in T : x = 0 .. (m - 1)
  OBVIOUS
<1>4. ASSUME NEW n \in T, n < m PROVE FALSE
  <2>1. 0 .. (n - 1) \in D
    OBVIOUS
  <2>2. /\ 0 .. (n - 1) \subseteq 0 .. (m - 1) /\ 0 .. (m - 1) \subseteq Nat
        /\ n \in 0 .. (m - 1) /\ n \notin 0 .. (n - 1)
    BY <1>4
  <2>3. <<0 .. (n - 1), x>> \in StrictSubsetOrdering(Nat)
    BY <1>3, <2>2 DEF StrictSubsetOrdering
  <2> QED
    BY <1>2, <2>1, <2>3
<1> QED
  BY <1>4

LEMMA GreatestNat ==
  ASSUME NEW T \in SUBSET Nat, T # {}, NEW b \in Nat, \A n \in T : n <= b
  PROVE  \E m \in T : \A n \in T : n <= m
<1> DEFINE D == {b - n : n \in T}
<1>1. D # {} /\ D \in SUBSET Nat
  <2>1. \A n \in T : n \in Nat /\ b - n \in Nat
    OBVIOUS
  <2> QED
    BY <2>1
<1>2. PICK d \in D : \A e \in D : d <= e
  BY <1>1, LeastNat
<1>3. PICK m \in T : d = b - m
  OBVIOUS
<1>4. ASSUME NEW n \in T PROVE n <= m
  <2>1. b - n \in D /\ n \in Nat /\ m \in Nat
    OBVIOUS
  <2>2. b - m <= b - n
    BY <1>2, <1>3, <2>1
  <2> QED
    BY <2>1, <2>2
<1> QED
  BY <1>4

(* Finitely many natural numbers have a bound.                             *)
LEMMA Bounded ==
  ASSUME NEW len \in Nat, NEW f \in [1 .. len -> Nat]
  PROVE  \E b \in Nat : \A i \in 1 .. len : f[i] <= b
<1> DEFINE S == {k \in 0 .. len : \E b \in Nat : \A i \in (k + 1) .. len : f[i] <= b}
<1>1. len \in S /\ S \in SUBSET Nat
  OBVIOUS
<1>2. PICK k \in S : \A j \in S : k <= j
  BY <1>1, LeastNat
<1>3. k \in 0 .. len /\ \E b \in Nat : \A i \in (k + 1) .. len : f[i] <= b
  OBVIOUS
<1>4. PICK b \in Nat : \A i \in (k + 1) .. len : f[i] <= b
  BY <1>3
<1>5. ASSUME k # 0 PROVE FALSE
  <2>1. k \in 1 .. len /\ k - 1 \in 0 .. len /\ f[k] \in Nat
    BY <1>3, <1>5
  <2> DEFINE e == f[k]
  <2> HIDE DEF e
  <2>2. PICK d \in Nat : b <= d /\ f[k] <= d
    <3>1. e \in Nat
      BY <2>1 DEF e
    <3>2. b <= b + e /\ e <= b + e /\ b + e \in Nat
      BY <3>1
    <3> QED
      BY <3>2 DEF e
  <2>3. ASSUME NEW i \in ((k - 1) + 1) .. len PROVE f[i] <= d
    <3>1. i \in 1 .. len /\ f[i] \in Nat
      BY <2>1
    <3> QED
      BY <1>4, <2>1, <2>2, <3>1
  <2>4. k - 1 \in S
    BY <2>1, <2>3
  <2> HIDE DEF S
  <2>5. k <= k - 1
    BY <1>2, <2>4
  <2> QED
    BY <2>1, <2>5
<1> QED
  BY <1>4, <1>5

(* The greatest ordinal of a conversation is a natural number, and no row  *)
(* has a greater one.                                                      *)
LEMMA LastOrdinalGreatest ==
  ASSUME TypeOK, NEW c \in Conversation
  PROVE  /\ LastOrdinal(c) \in Nat
         /\ \A i \in DOMAIN rows[c] : rows[c][i].ordinal <= LastOrdinal(c)
<1> DEFINE ordinals == {rows[c][i].ordinal : i \in DOMAIN rows[c]}
           f == [i \in 1 .. Len(rows[c]) |-> rows[c][i].ordinal]
<1>1. rows[c] \in Seq(MessageRow)
  BY DEF TypeOK
<1>2. Len(rows[c]) \in Nat /\ DOMAIN rows[c] = 1 .. Len(rows[c])
  BY <1>1
<1>3. \A i \in DOMAIN rows[c] : rows[c][i] \in MessageRow
  BY <1>1, <1>2, ElementOfSeq
<1>4. \A i \in DOMAIN rows[c] : rows[c][i].ordinal \in Nat
  BY <1>3 DEF MessageRow
<1>5. f \in [1 .. Len(rows[c]) -> Nat]
  BY <1>2, <1>4
<1>6. PICK b \in Nat : \A i \in 1 .. Len(rows[c]) : f[i] <= b
  BY <1>2, <1>5, Bounded
<1>7. ordinals \in SUBSET Nat /\ \A n \in ordinals : n <= b
  BY <1>2, <1>4, <1>6
<1>8. ordinals # {} => \E m \in ordinals : \A n \in ordinals : n <= m
  BY <1>7, GreatestNat
<1>9. CASE ordinals = {}
  <2>1. DOMAIN rows[c] = {}
    BY <1>9
  <2> QED
    BY <1>9, <2>1 DEF LastOrdinal
<1>10. CASE ordinals # {}
  <2>1. LastOrdinal(c) = CHOOSE n \in ordinals : \A k \in ordinals : k <= n
    BY <1>10 DEF LastOrdinal
  <2> HIDE DEF ordinals
  <2>2. LastOrdinal(c) \in ordinals /\ \A n \in ordinals : n <= LastOrdinal(c)
    BY <1>8, <1>10, <2>1
  <2> QED
    BY <1>7, <2>2 DEF ordinals
<1> QED
  BY <1>9, <1>10

(* A finite set of natural numbers has an i-th element.                    *)
LEMMA NthExists ==
  ASSUME NEW n \in Nat, NEW K \in SUBSET (1 .. n), NEW i \in 1 .. Cardinality(K)
  PROVE  \E j \in K : Cardinality({k \in K : k <= j}) = i
<1> DEFINE below == [j \in Int |-> {k \in K : k <= j}]
           T == {j \in 0 .. n : i <= Cardinality(below[j])}
<1>0. \A j \in Int : below[j] = {k \in K : k <= j}
  OBVIOUS
<1>1. \A j \in Int : below[j] \in SUBSET K /\ \A k \in K : k \in below[j] <=> k <= j
  BY <1>0
<1> HIDE DEF below
<1>2. IsFiniteSet(K) /\ Cardinality(K) \in Nat
  <2>1. IsFiniteSet(1 .. n)
    BY FS_Interval
  <2>2. IsFiniteSet(K)
    BY <2>1, FS_Subset
  <2> QED
    BY <2>2, FS_CardinalityType
<1>3. \A j \in Int : IsFiniteSet(below[j]) /\ Cardinality(below[j]) \in Nat
  <2> TAKE j \in Int
  <2>1. IsFiniteSet(below[j])
    BY <1>1, <1>2, FS_Subset
  <2> QED
    BY <2>1, FS_CardinalityType
<1>4. n \in T
  <2>1. below[n] \subseteq K /\ K \subseteq below[n]
    BY <1>1
  <2>2. below[n] = K
    BY <2>1
  <2> QED
    BY <1>2, <2>2
<1>5. T \in SUBSET Nat /\ T # {}
  BY <1>4
<1>6. PICK j \in T : \A m \in T : j <= m
  <2> HIDE DEF T
  <2> QED
    BY <1>5, LeastNat
<1>7. j \in 0 .. n /\ i <= Cardinality(below[j])
  OBVIOUS
<1>8. j # 0
  <2> SUFFICES ASSUME j = 0 PROVE FALSE
    OBVIOUS
  <2>1. below[0] \in SUBSET K /\ \A k \in K : k \notin below[0]
    BY <1>1
  <2>2. below[0] = {}
    BY <2>1
  <2> QED
    BY <1>2, <1>7, <2>2, FS_EmptySet
<1>9. j \in 1 .. n /\ j - 1 \in 0 .. n /\ j \in Int /\ j - 1 \in Int
  BY <1>7, <1>8
<1>10. j - 1 \notin T
  <2> HIDE DEF T
  <2> SUFFICES ASSUME j - 1 \in T PROVE FALSE
    OBVIOUS
  <2>1. j <= j - 1
    BY <1>6
  <2> QED
    BY <1>9, <2>1
<1>11. Cardinality(below[j - 1]) < i
  <2>1. ~(i <= Cardinality(below[j - 1]))
    BY <1>9, <1>10
  <2>2. i \in Nat /\ Cardinality(below[j - 1]) \in Nat
    BY <1>2, <1>3, <1>9
  <2> QED
    BY <2>1, <2>2
<1> HIDE DEF T
<1>12. j \in K
  <2> SUFFICES ASSUME j \notin K PROVE FALSE
    OBVIOUS
  <2>1. \A k \in K : k \in Int /\ (k <= j <=> k <= j - 1)
    BY <1>9
  <2>2. below[j] = below[j - 1]
    BY <1>1, <1>9, <2>1
  <2> QED
    BY <1>2, <1>3, <1>7, <1>9, <1>11, <2>2
<1>13. Cardinality(below[j]) = Cardinality(below[j - 1]) + 1
  <2>1. \A k \in K : k <= j <=> k <= j - 1 \/ k = j
    BY <1>9
  <2>2. /\ below[j] \in SUBSET K /\ \A k \in K : k \in below[j] <=> k <= j
        /\ below[j - 1] \in SUBSET K /\ \A k \in K : k \in below[j - 1] <=> k <= j - 1
    BY <1>1, <1>9
  <2>3. below[j] = below[j - 1] \cup {j}
    BY <1>12, <2>1, <2>2
  <2>4. j \notin below[j - 1]
    BY <1>9, <1>12, <2>2
  <2> QED
    BY <1>3, <1>9, <2>3, <2>4, FS_AddElement
<1>14. Cardinality(below[j]) = i
  BY <1>2, <1>3, <1>7, <1>9, <1>11, <1>13
<1> QED
  BY <1>0, <1>9, <1>12, <1>14

(* What stands at some of the indices of a sequence is a sequence.         *)
LEMMA KeptType ==
  ASSUME NEW S, NEW t \in Seq(S), NEW K \in SUBSET (1 .. Len(t))
  PROVE  Store!Kept(t, K) \in Seq(S)
<1> DEFINE nth(i) == CHOOSE j \in K : Cardinality({k \in K : k <= j}) = i
<1>1. Len(t) \in Nat /\ IsFiniteSet(1 .. Len(t))
  BY FS_Interval
<1>2. Cardinality(K) \in Nat
  <2>1. IsFiniteSet(K)
    BY <1>1, FS_Subset
  <2> QED
    BY <2>1, FS_CardinalityType
<1>3. Store!Kept(t, K) = [i \in 1 .. Cardinality(K) |-> t[nth(i)]]
  BY DEF Store!Kept, Store!Cardinality, Cardinality
<1>4. ASSUME NEW i \in 1 .. Cardinality(K) PROVE t[nth(i)] \in S
  <2>1. \E j \in K : Cardinality({k \in K : k <= j}) = i
    BY <1>1, NthExists
  <2>2. nth(i) \in K
    BY <2>1
  <2>3. nth(i) \in 1 .. Len(t)
    BY <2>2
  <2> QED
    BY <2>3, ElementOfSeq
<1> HIDE DEF nth
<1> QED
  BY <1>2, <1>3, <1>4

(* Pruning leaves a sequence of the messages, and nothing of nothing.      *)
LEMMA PrunedType ==
  ASSUME NEW M, NEW s \in Seq(M)
  PROVE  Store!Pruned(s) \in Seq(M) /\ Store!Pruned(<<>>) = <<>>
<1>1. ASSUME NEW S, NEW t \in Seq(S)
      PROVE  \E K \in SUBSET (1 .. Len(t)) :
               /\ Cardinality(K) \in Nat
               /\ Store!Pruned(t) \in [1 .. Cardinality(K) -> S]
  <2> DEFINE later(x) == {y \in Store!CompleteExchanges(t) : y[1] > x[1]}
             old == {x \in Store!CompleteExchanges(t) : Cardinality(later(x)) >= MaxTurns}
             kept == (1 .. Len(t)) \ UNION {{x[1], x[2]} : x \in old}
             nth(i) == CHOOSE j \in kept : Cardinality({k \in kept : k <= j}) = i
  <2>1. Len(t) \in Nat /\ kept \in SUBSET (1 .. Len(t))
    BY <1>1
  <2>2. Store!Pruned(t) = [i \in 1 .. Cardinality(kept) |-> t[nth(i)]]
    BY DEF Store!Pruned, Store!Kept, Store!Cardinality, Cardinality
  <2>3. Cardinality(kept) \in Nat
    <3> HIDE DEF kept
    <3>1. IsFiniteSet(1 .. Len(t))
      BY <2>1, FS_Interval
    <3>2. IsFiniteSet(kept)
      BY <2>1, <3>1, FS_Subset
    <3> QED
      BY <3>2, FS_CardinalityType
  <2>4. ASSUME NEW i \in 1 .. Cardinality(kept) PROVE t[nth(i)] \in S
    <3> HIDE DEF kept
    <3>1. \E j \in kept : Cardinality({k \in kept : k <= j}) = i
      BY <2>1, NthExists
    <3>2. nth(i) \in kept
      BY <3>1
    <3>3. nth(i) \in 1 .. Len(t)
      BY <2>1, <3>2
    <3> QED
      BY <1>1, <3>3, ElementOfSeq
  <2> HIDE DEF kept, nth
  <2> QED
    BY <2>1, <2>2, <2>3, <2>4
<1>2. Store!Pruned(s) \in Seq(M)
  BY <1>1
<1>3. Store!Pruned(<<>>) = <<>>
  <2>0. <<>> \in Seq(M) /\ Len(<<>>) = 0
    OBVIOUS
  <2>1. PICK K \in SUBSET (1 .. 0) : Store!Pruned(<<>>) \in [1 .. Cardinality(K) -> M]
    BY <1>1, <2>0
  <2>2. Cardinality(K) = 0
    <3>1. K = {}
      OBVIOUS
    <3> QED
      BY <3>1, FS_EmptySet
  <2>3. Store!Pruned(<<>>) \in [1 .. 0 -> M]
    BY <2>1, <2>2
  <2> QED
    BY <2>3
<1> QED
  BY <1>2, <1>3

(* Inserting a row leaves a sequence of rows.                              *)
LEMMA InsertedType ==
  ASSUME NEW s \in Seq(MessageRow), NEW m \in MessageRow
  PROVE  Inserted(s, m) \in Seq(MessageRow)
<1> DEFINE below == {i \in DOMAIN s : s[i].ordinal <= m.ordinal}
           k == Cardinality(below)
<1>1. Len(s) \in Nat /\ below \in SUBSET (1 .. Len(s))
  OBVIOUS
<1> HIDE DEF below
<1>2. k \in Nat /\ k <= Len(s)
  <2>1. IsFiniteSet(1 .. Len(s)) /\ Cardinality(1 .. Len(s)) = Len(s)
    <3>1. ASSUME NEW n \in Nat PROVE IsFiniteSet(1 .. n) /\ Cardinality(1 .. n) = n
      BY FS_Interval
    <3> QED
      BY <1>1, <3>1
  <2>2. IsFiniteSet(below) /\ Cardinality(below) <= Cardinality(1 .. Len(s))
    BY <1>1, <2>1, FS_Subset
  <2> QED
    BY <2>1, <2>2, FS_CardinalityType
<1> HIDE DEF k
<1>3. SubSeq(s, 1, k) \in Seq(MessageRow) /\ SubSeq(s, k + 1, Len(s)) \in Seq(MessageRow)
  <2>1. \A i \in 1 .. Len(s) : s[i] \in MessageRow
    BY ElementOfSeq
  <2> QED
    BY <1>1, <1>2, <2>1, SubSeqProperties
<1>4. Inserted(s, m) = SubSeq(s, 1, k) \o <<m>> \o SubSeq(s, k + 1, Len(s))
  BY DEF Inserted, k, below
<1> QED
  BY <1>3, <1>4, ConcatProperties

------------------------------------------------------------------------------
(* The inductive invariant.                                                *)

(* A handler at work has a conversation, and the id of its request.        *)
PlaceOK ==
  /\ \A r \in Request : req[r].phase \notin {"idle", "done"} =>
       req[r].conv \in Conversation /\ req[r].id \in RequestId
  /\ \A e \in Editor : edit[e].op # "none" => edit[e].conv \in Conversation

(* A conversation that is not there has no lease, and messages only where   *)
(* they have been left behind.                                             *)
AbsentOK ==
  \A c \in Conversation : ~Exists(c) =>
    /\ conv[c].live = FALSE
    /\ rows[c] = <<>> \/ (conv[c].state = "left" /\ ~ForeignKeys)

(* A handler's conversation has been created.                              *)
KnownOK ==
  \A r \in Request : req[r].phase \notin {"idle", "done"} =>
    conv[req[r].conv].state # "none"

(* A live lease has a holder.                                              *)
LiveOK == \A c \in Conversation : conv[c].live => conv[c].holder \in RequestId

(* The row carries the lease of the request that holds the conversation.   *)
LeaseHeld ==
  Undisturbed =>
    \A r \in Request : Holding(r) /\ Exists(req[r].conv) =>
      conv[req[r].conv].holder = req[r].id /\ conv[req[r].conv].live

IInv == TypeOK /\ PlaceOK /\ AbsentOK /\ KnownOK /\ LiveOK /\ LeaseHeld /\ OneWriter

(* The step of a handler that goes on with its conversation, or is over.   *)
Moves(r) ==
  \E h \in Handler :
    /\ req' = [req EXCEPT ![r] = h]
    /\ \/ h.phase = "done"
       \/ /\ Holding(r)
          /\ h.phase \notin {"idle", "scoped"}
          /\ h.conv = req[r].conv /\ h.id = req[r].id

(* What the finally block and an exception make of a handler.              *)
LEMMA RaisedType ==
  ASSUME NEW h \in Handler
  PROVE  /\ Done \in Handler /\ Done.phase = "done"
         /\ Finally(h) \in Handler
         /\ Finally(h).phase \in {"reading", "releasing"}
         /\ Finally(h).conv = h.conv /\ Finally(h).id = h.id
         /\ Raised(h) \in Handler
         /\ \/ Raised(h).phase = "done"
            \/ /\ Raised(h).phase \in {"reading", "releasing"}
               /\ Raised(h).conv = h.conv /\ Raised(h).id = h.id
<1>1. Done \in Handler /\ Done.phase = "done"
  BY DEF Done, IdleHandler, Handler, Phase, Opening, Appending
<1>2. /\ Finally(h) \in Handler
      /\ Finally(h).phase \in {"reading", "releasing"}
      /\ Finally(h).conv = h.conv /\ Finally(h).id = h.id
  BY DEF Finally, Handler, Phase, Opening, Appending
<1>3. CASE h.task = "answer" /\ h.phase \in Appending
  BY <1>1, <1>2, <1>3 DEF Raised
<1>4. CASE h.task = "user" /\ h.phase \in Appending
  <2>1. Raised(h) = [h EXCEPT !.phase = "releasing", !.last = 0, !.fresh = FALSE]
    BY <1>4 DEF Raised
  <2> DEFINE g == [h EXCEPT !.phase = "releasing", !.last = 0, !.fresh = FALSE]
  <2>2. g \in Handler /\ g.phase = "releasing" /\ g.conv = h.conv /\ g.id = h.id
    BY DEF Handler, Phase, Opening, Appending
  <2> HIDE DEF g
  <2>3. Raised(h) = g
    BY <2>1 DEF g
  <2> QED
    BY <1>1, <1>2, <2>2, <2>3
<1>5. CASE h.phase \notin Appending \/ h.task \notin {"user", "answer"}
  <2>1. Raised(h) = Done
    BY <1>5 DEF Raised
  <2> QED
    BY <1>1, <1>2, <2>1
<1> QED
  BY <1>3, <1>4, <1>5

(* Everything a handler does once it has its lease is such a step, and     *)
(* turning a request away is one.                                          *)
LEMMA HandlerMoves ==
  ASSUME TypeOK, PlaceOK, NEW r \in Request,
         \/ DenyAccess(r) \/ GetHistory(r) \/ ReadForAppend(r) \/ WriteForAppend(r)
         \/ Prune(r) \/ EndStream(r) \/ Deadline(r) \/ Disconnect(r)
         \/ StoreRaises(r) \/ ReleaseRequest(r)
         \/ \E event \in {"completed", "failed"} : Generate(r, event)
  PROVE  Moves(r)
<1>1. req[r] \in Handler
  BY DEF TypeOK
<1>2. /\ Done \in Handler /\ Done.phase = "done"
      /\ Finally(req[r]) \in Handler
      /\ Finally(req[r]).phase \in {"reading", "releasing"}
      /\ Finally(req[r]).conv = req[r].conv /\ Finally(req[r]).id = req[r].id
      /\ Raised(req[r]) \in Handler
      /\ \/ Raised(req[r]).phase = "done"
         \/ /\ Raised(req[r]).phase \in {"reading", "releasing"}
            /\ Raised(req[r]).conv = req[r].conv /\ Raised(req[r]).id = req[r].id
  BY <1>1, RaisedType
<1>3. CASE DenyAccess(r)
  BY <1>2, <1>3 DEF DenyAccess, Step, Moves
<1>4. CASE GetHistory(r)
  <2> DEFINE h == IF conv[req[r].conv].state = "active"
                  THEN [req[r] EXCEPT !.phase = "reading", !.task = "user"]
                  ELSE [req[r] EXCEPT !.phase = "releasing"]
  <2>1. /\ h \in Handler /\ h.phase \in {"reading", "releasing"}
        /\ h.conv = req[r].conv /\ h.id = req[r].id
    BY <1>1 DEF Handler, Phase, Opening, Appending
  <2>2. req' = [req EXCEPT ![r] = h] /\ Holding(r)
    BY <1>4 DEF GetHistory, Step, Holding
  <2> HIDE DEF h
  <2> QED
    BY <2>1, <2>2 DEF Moves
<1>5. CASE ReadForAppend(r)
  <2>1. Holding(r)
    BY <1>5 DEF ReadForAppend, Holding
  <2>2. LastOrdinal(req[r].conv) \in Nat
    BY <1>5, LastOrdinalGreatest DEF PlaceOK, ReadForAppend
  <2> DEFINE h == [req[r] EXCEPT !.phase = "writing", !.last = LastOrdinal(req[r].conv),
                                 !.fresh = conv[req[r].conv].name = "new"]
  <2>3. /\ h \in Handler /\ h.phase = "writing"
        /\ h.conv = req[r].conv /\ h.id = req[r].id
    BY <1>1, <2>2 DEF Handler, Phase, Opening, Appending
  <2>4. req' = [req EXCEPT ![r] = h] \/ req' = [req EXCEPT ![r] = Raised(req[r])]
    BY <1>5 DEF ReadForAppend, Step
  <2> HIDE DEF h
  <2> QED
    BY <1>2, <2>1, <2>3, <2>4 DEF Moves
<1>6. CASE WriteForAppend(r)
  <2>1. Holding(r)
    BY <1>6 DEF WriteForAppend, Holding
  <2>2. /\ Appended(req[r]) \in Handler /\ Appended(req[r]).phase \in {"streaming", "pruning"}
        /\ Appended(req[r]).conv = req[r].conv /\ Appended(req[r]).id = req[r].id
    BY <1>1 DEF Appended, Handler, Phase, Opening, Appending
  <2>3. \/ req' = [req EXCEPT ![r] = Appended(req[r])]
        \/ req' = [req EXCEPT ![r] = Raised(req[r])]
    BY <1>6 DEF WriteForAppend, Step
  <2> QED
    BY <1>2, <2>1, <2>2, <2>3 DEF Moves
<1>7. CASE Prune(r)
  <2> DEFINE h == IF req[r].task = "answer"
                  THEN [req[r] EXCEPT !.phase = "streaming", !.terminal = TRUE,
                                      !.task = "none"]
                  ELSE [req[r] EXCEPT !.phase = "releasing", !.task = "none"]
  <2>1. /\ h \in Handler /\ h.phase \in {"streaming", "releasing"}
        /\ h.conv = req[r].conv /\ h.id = req[r].id
    BY <1>1 DEF Handler, Phase, Opening, Appending
  <2>2. req' = [req EXCEPT ![r] = h] /\ Holding(r)
    BY <1>7 DEF Prune, Step, Holding
  <2> HIDE DEF h
  <2> QED
    BY <2>1, <2>2 DEF Moves
<1>8. ASSUME NEW event \in {"completed", "failed"}
      PROVE  /\ Receive(req[r], event) \in Handler
             /\ Receive(req[r], event).phase = "reading"
             /\ Receive(req[r], event).conv = req[r].conv
             /\ Receive(req[r], event).id = req[r].id
  BY <1>1 DEF Receive, Handler, Phase, Opening, Appending
<1>9. CASE \E event \in {"completed", "failed"} : Generate(r, event)
  BY <1>8, <1>9 DEF Generate, Step, Moves, Holding
<1>10. InStream(r) => Holding(r)
  BY DEF InStream, Holding, Appending
<1>11. CASE Deadline(r)
  <2>1. \/ req' = [req EXCEPT ![r] = Receive(req[r], "failed")]
        \/ req' = [req EXCEPT ![r] = Finally(req[r])]
    BY <1>11 DEF Deadline, Step
  <2>2. Holding(r)
    BY <1>10, <1>11 DEF Deadline
  <2> QED
    BY <1>2, <1>8, <2>1, <2>2 DEF Moves
<1>12. CASE EndStream(r) \/ Disconnect(r)
  <2>1. req' = [req EXCEPT ![r] = Finally(req[r])]
    BY <1>12 DEF EndStream, Disconnect, Step
  <2>2. Holding(r)
    BY <1>10, <1>12 DEF EndStream, Disconnect, Holding
  <2> QED
    BY <1>2, <2>1, <2>2 DEF Moves
<1>13. CASE StoreRaises(r)
  BY <1>2, <1>13 DEF StoreRaises, Step, Moves, Holding, Appending
<1>14. CASE ReleaseRequest(r)
  BY <1>2, <1>14 DEF ReleaseRequest, Step, Moves
<1> QED
  BY <1>3, <1>4, <1>5, <1>6, <1>7, <1>9, <1>11, <1>12, <1>13, <1>14

------------------------------------------------------------------------------
(* What an editor or a deletion does to the rows.                          *)

(* The conversation is gone; its messages are not where they were left.    *)
Deleted(c) ==
  \E state \in {"gone", "left"} : \E t \in Seq(MessageRow) :
    /\ conv' = [conv EXCEPT ![c] = NewRow(state)]
    /\ rows' = [rows EXCEPT ![c] = t]
    /\ t = <<>> \/ (state = "left" /\ ~ForeignKeys)

(* The state or the name changes; messages and lease stay.                 *)
Edited(c) ==
  \E row \in ConversationRow :
    /\ conv' = [conv EXCEPT ![c] = row] /\ UNCHANGED rows
    /\ row.state \in {"active", "archived"}
    /\ row.live = conv[c].live /\ row.holder = conv[c].holder
    /\ conv[c].name # "new" => row.name # "new"

EditRow == [op: Operation, conv: Conversation \cup {None}, loaded: SUBSET MessageRow]

LEMMA NoEditIs == NoEdit \in EditRow /\ NoEdit.op = "none"
BY DEF NoEdit, EditRow, Operation

LEMMA NewRowIs ==
  ASSUME NEW state \in {"none", "active", "gone", "left"}
  PROVE  /\ NewRow(state) \in ConversationRow
         /\ NewRow(state).state = state /\ NewRow(state).name = "new"
         /\ NewRow(state).live = FALSE /\ NewRow(state).holder = None
BY DEF NewRow, ConversationRow

(* What a lapse and a release make of a row.                               *)
LEMMA LapsedRowIs ==
  ASSUME NEW row \in ConversationRow
  PROVE  [row EXCEPT !.live = FALSE] \in ConversationRow
BY DEF ConversationRow

LEMMA ReleasedRowIs ==
  ASSUME NEW row \in ConversationRow
  PROVE  [[row EXCEPT !.holder = None] EXCEPT !.live = FALSE].state = row.state
BY DEF ConversationRow

LEMMA DeleteIs ==
  ASSUME TypeOK, NEW c \in Conversation, NEW loaded, Delete(c, loaded)
  PROVE  Deleted(c)
<1>1. rows[c] \in Seq(MessageRow)
  BY DEF TypeOK
<1>2. <<>> \in Seq(MessageRow) /\ Without(rows[c], loaded) \in Seq(MessageRow)
  <2>1. {i \in 1 .. Len(rows[c]) : rows[c][i] \notin loaded} \in SUBSET (1 .. Len(rows[c]))
    OBVIOUS
  <2> QED
    BY <1>1, <2>1, KeptType DEF Without
<1>3. PICK cascades \in {TRUE, ForeignKeys} :
        /\ conv' = [conv EXCEPT ![c] = NewRow(IF cascades THEN "gone" ELSE "left")]
        /\ rows' = [rows EXCEPT ![c] =
             IF cascades THEN <<>> ELSE Without(rows[c], loaded)]
  BY DEF Delete
<1>4. CASE cascades
  <2>1. conv' = [conv EXCEPT ![c] = NewRow("gone")] /\ rows' = [rows EXCEPT ![c] = <<>>]
    BY <1>3, <1>4
  <2> QED
    BY <1>2, <2>1 DEF Deleted
<1>5. CASE ~cascades
  <2>0. ~ForeignKeys
    BY <1>5
  <2>1. /\ conv' = [conv EXCEPT ![c] = NewRow("left")]
        /\ rows' = [rows EXCEPT ![c] = Without(rows[c], loaded)]
    BY <1>3, <1>5
  <2> HIDE DEF Without
  <2> QED
    BY <1>2, <2>0, <2>1 DEF Deleted
<1> QED
  BY <1>4, <1>5

LEMMA WriteIs ==
  ASSUME TypeOK, PlaceOK, NEW e \in Editor, WriteEdit(e)
  PROVE  /\ edit[e].conv \in Conversation
         /\ disturbed \subseteq disturbed' /\ disturbed' \subseteq disturbed \cup {"overtaken"}
         /\ UNCHANGED req /\ edit' = [edit EXCEPT ![e] = NoEdit]
         /\ \/ UNCHANGED <<conv, rows, disturbed>>
            \/ Exists(edit[e].conv) /\ (Deleted(edit[e].conv) \/ Edited(edit[e].conv))
<1> DEFINE op == edit[e].op
           c == edit[e].conv
<1>1. c \in Conversation /\ op \in {"rename", "archive", "restore", "purge"}
  BY DEF WriteEdit, TypeOK, PlaceOK, Operation
<1>2. /\ disturbed \subseteq disturbed' /\ disturbed' \subseteq disturbed \cup {"overtaken"}
      /\ UNCHANGED req /\ edit' = [edit EXCEPT ![e] = NoEdit]
  BY DEF WriteEdit
<1>3. CASE ~Exists(c)
  BY <1>1, <1>2, <1>3 DEF WriteEdit
<1>4. CASE Exists(c) /\ op = "purge"
  <2>1. Delete(c, edit[e].loaded)
    BY <1>4 DEF WriteEdit
  <2> QED
    BY <1>1, <1>2, <1>4, <2>1, DeleteIs
<1>5. CASE Exists(c) /\ op # "purge"
  <2> DEFINE row == CASE op = "rename" -> [conv[c] EXCEPT !.name = "given"]
                      [] op = "archive" -> [conv[c] EXCEPT !.state = "archived"]
                      [] op = "restore" -> [conv[c] EXCEPT !.state = "active"]
  <2>1. conv' = [conv EXCEPT ![c] = row] /\ UNCHANGED rows
    BY <1>5 DEF WriteEdit
  <2>2. conv[c] \in ConversationRow
    BY <1>1 DEF TypeOK
  <2>3. /\ row \in ConversationRow /\ row.state \in {"active", "archived"}
        /\ row.live = conv[c].live /\ row.holder = conv[c].holder
        /\ conv[c].name # "new" => row.name # "new"
    BY <1>1, <1>5, <2>2 DEF ConversationRow, Exists
  <2> HIDE DEF row
  <2>4. Edited(c)
    BY <2>1, <2>3 DEF Edited
  <2> QED
    BY <1>1, <1>2, <1>5, <2>4
<1> QED
  BY <1>3, <1>4, <1>5

------------------------------------------------------------------------------
(* Type correctness.                                                       *)

LEMMA TypeNext ==
  ASSUME IInv, [Next]_vars
  PROVE  TypeOK' /\ PlaceOK'
<1>0. TypeOK /\ PlaceOK
  BY DEF IInv
<1>1. ASSUME NEW r \in Request, Moves(r), UNCHANGED edit
      PROVE  /\ req' \in [Request -> Handler] /\ PlaceOK'
  BY <1>0, <1>1 DEF Moves, TypeOK, PlaceOK, Holding
<1>2. ASSUME NEW c \in Conversation, Deleted(c)
      PROVE  conv' \in [Conversation -> ConversationRow] /\ rows' \in [Conversation -> Seq(MessageRow)]
  <2>1. PICK state \in {"gone", "left"} : \E t \in Seq(MessageRow) :
          conv' = [conv EXCEPT ![c] = NewRow(state)] /\ rows' = [rows EXCEPT ![c] = t]
    BY <1>2 DEF Deleted
  <2>2. NewRow(state) \in ConversationRow
    BY NewRowIs
  <2> QED
    BY <1>0, <2>1, <2>2 DEF TypeOK
<1>3. ASSUME NEW c \in Conversation, Create(c) PROVE TypeOK' /\ PlaceOK'
  BY <1>0, <1>3, NewRowIs DEF Create, TypeOK, PlaceOK
<1>4. ASSUME NEW c \in Conversation, Cleanup(c) \/ DeleteProject(c)
      PROVE  TypeOK' /\ PlaceOK'
  <2>1. Delete(c, {}) /\ UNCHANGED <<req, edit, disturbed>>
    BY <1>4 DEF Cleanup, DeleteProject, Remove
  <2>2. Deleted(c)
    BY <1>0, <2>1, DeleteIs
  <2> QED
    BY <1>0, <1>2, <2>1, <2>2 DEF TypeOK, PlaceOK
<1>5. ASSUME NEW c \in Conversation, LeaseLapses(c) PROVE TypeOK' /\ PlaceOK'
  <2>0. conv[c] \in ConversationRow
    BY <1>0 DEF TypeOK
  <2>1. [conv[c] EXCEPT !.live = FALSE] \in ConversationRow
    BY <2>0, LapsedRowIs
  <2>2. conv' \in [Conversation -> ConversationRow]
    BY <1>0, <1>5, <2>1 DEF LeaseLapses, TypeOK
  <2> QED
    BY <1>0, <1>5, <2>2 DEF LeaseLapses, TypeOK, PlaceOK
<1>6. ASSUME NEW r \in Request, NEW c \in Conversation, NEW id \in RequestId,
             GetScope(r, c, id)
      PROVE  TypeOK' /\ PlaceOK'
  <2> DEFINE h == [req[r] EXCEPT !.phase = "scoped", !.conv = c, !.id = id]
  <2>0. req[r] \in Handler
    BY <1>0 DEF TypeOK
  <2>2. req' = [req EXCEPT ![r] = h] /\ UNCHANGED <<conv, rows, edit, disturbed>>
    BY <1>6 DEF GetScope, Step
  <2>3. h = [req[r] EXCEPT !.phase = "scoped", !.conv = c, !.id = id]
    OBVIOUS
  <2> HIDE DEF h
  <2>1. h \in Handler /\ h.phase = "scoped" /\ h.conv = c /\ h.id = id
    BY <2>0, <2>3 DEF Handler, Phase, Opening
  <2> QED
    BY <1>0, <2>1, <2>2 DEF TypeOK, PlaceOK
<1>7. ASSUME NEW e \in Editor, NEW op \in Operation, NEW c \in Conversation,
             CheckEdit(e, op, c)
      PROVE  TypeOK' /\ PlaceOK'
  <2> DEFINE loaded == IF op = "purge" THEN {rows[c][i] : i \in DOMAIN rows[c]} ELSE {}
             row == [op |-> op, conv |-> c, loaded |-> loaded]
  <2>1. rows[c] \in Seq(MessageRow) /\ DOMAIN rows[c] = 1 .. Len(rows[c])
    BY <1>0 DEF TypeOK
  <2>2. \A i \in DOMAIN rows[c] : rows[c][i] \in MessageRow
    BY <2>1, ElementOfSeq
  <2>3. loaded \in SUBSET MessageRow
    BY <2>2
  <2>4. edit' = [edit EXCEPT ![e] = row] /\ UNCHANGED <<conv, rows, req, disturbed>>
    BY <1>7 DEF CheckEdit
  <2> HIDE DEF loaded
  <2>5. row \in EditRow /\ row.conv \in Conversation
    BY <2>3 DEF EditRow
  <2> HIDE DEF row
  <2> QED
    BY <1>0, <2>4, <2>5 DEF TypeOK, PlaceOK, EditRow
<1>8. ASSUME NEW e \in Editor, WriteEdit(e) PROVE TypeOK' /\ PlaceOK'
  <2> DEFINE c == edit[e].conv
  <2>1. /\ c \in Conversation /\ UNCHANGED req /\ edit' = [edit EXCEPT ![e] = NoEdit]
        /\ disturbed' \subseteq disturbed \cup {"overtaken"}
        /\ \/ UNCHANGED <<conv, rows>>
           \/ Deleted(c) \/ Edited(c)
    BY <1>0, <1>8, WriteIs
  <2>2. NoEdit \in EditRow /\ NoEdit.op = "none"
    BY NoEditIs
  <2>3. PlaceOK' /\ edit' \in [Editor -> EditRow]
    BY <1>0, <2>1, <2>2 DEF TypeOK, PlaceOK, EditRow
  <2>4. CASE Edited(c)
    <3>1. conv' \in [Conversation -> ConversationRow] /\ rows' = rows
      BY <1>0, <2>1, <2>4 DEF Edited, TypeOK
    <3> QED
      BY <1>0, <2>1, <2>3, <3>1 DEF TypeOK, EditRow
  <2>5. CASE Deleted(c)
    BY <1>0, <1>2, <2>1, <2>3, <2>5 DEF TypeOK, EditRow
  <2>6. CASE UNCHANGED <<conv, rows>>
    BY <1>0, <2>1, <2>3, <2>6 DEF TypeOK, EditRow
  <2> QED
    BY <2>1, <2>4, <2>5, <2>6
<1>9. ASSUME NEW r \in Request, AcquireRequest(r) PROVE TypeOK' /\ PlaceOK'
  <2> DEFINE c == req[r].conv
             id == req[r].id
             h == [req[r] EXCEPT !.phase = "held"]
  <2>1. c \in Conversation /\ id \in RequestId /\ req[r] \in Handler
    BY <1>0, <1>9 DEF AcquireRequest, TypeOK, PlaceOK
  <2>2. /\ h \in Handler /\ h.conv = c /\ h.id = id
        /\ Done \in Handler /\ Done.phase = "done"
    BY <2>1 DEF Handler, Phase, Opening, Done, IdleHandler
  <2>3. req' = [req EXCEPT ![r] = h] \/ req' = [req EXCEPT ![r] = Done]
    BY <1>9 DEF AcquireRequest, Step
  <2>4. UNCHANGED <<rows, edit>> /\ disturbed' \subseteq disturbed \cup {"shared"}
    BY <1>9 DEF AcquireRequest
  <2>5. [[conv[c] EXCEPT !.holder = id] EXCEPT !.live = TRUE] \in ConversationRow
    <3>1. conv[c] \in ConversationRow
      BY <1>0, <2>1 DEF TypeOK
    <3> QED
      BY <2>1, <3>1 DEF ConversationRow
  <2>6. conv' \in [Conversation -> ConversationRow]
    BY <1>0, <1>9, <2>1, <2>5 DEF AcquireRequest, TypeOK
  <2> HIDE DEF c, id, h
  <2>7. req' \in [Request -> Handler] /\ PlaceOK'
    BY <1>0, <2>1, <2>2, <2>3, <2>4 DEF TypeOK, PlaceOK
  <2> QED
    BY <1>0, <2>4, <2>6, <2>7 DEF TypeOK
<1>10. ASSUME NEW r \in Request,
              \/ DenyAccess(r) \/ GetHistory(r) \/ ReadForAppend(r) \/ EndStream(r)
              \/ Deadline(r) \/ Disconnect(r) \/ StoreRaises(r)
              \/ \E event \in {"completed", "failed"} : Generate(r, event)
       PROVE  TypeOK' /\ PlaceOK'
  <2>1. UNCHANGED <<conv, rows, edit, disturbed>>
    BY <1>10 DEF DenyAccess, GetHistory, ReadForAppend, EndStream, Deadline,
                 Disconnect, StoreRaises, Generate
  <2>2. Moves(r)
    BY <1>0, <1>10, HandlerMoves
  <2> QED
    BY <1>0, <1>1, <2>1, <2>2 DEF TypeOK
<1>11. ASSUME NEW r \in Request, WriteForAppend(r) PROVE TypeOK' /\ PlaceOK'
  <2> DEFINE c == req[r].conv
  <2>1. c \in Conversation /\ req[r] \in Handler
    BY <1>0, <1>11 DEF WriteForAppend, TypeOK, PlaceOK
  <2>2. NewMessage(req[r], r) \in MessageRow
    BY <2>1 DEF NewMessage, MessageRow, Handler
  <2>3. Inserted(rows[c], NewMessage(req[r], r)) \in Seq(MessageRow)
    BY <1>0, <2>1, <2>2, InsertedType DEF TypeOK
  <2>4. [conv[c] EXCEPT !.name = "derived"] \in ConversationRow
    <3>1. conv[c] \in ConversationRow
      BY <1>0, <2>1 DEF TypeOK
    <3> QED
      BY <2>1, <3>1 DEF ConversationRow
  <2>5. conv' = conv \/ conv' = [conv EXCEPT ![c] = [conv[c] EXCEPT !.name = "derived"]]
    BY <1>11 DEF WriteForAppend
  <2>6. /\ rows' = rows \/ rows' = [rows EXCEPT ![c] = Inserted(rows[c], NewMessage(req[r], r))]
        /\ disturbed' \subseteq disturbed \cup {"overtaken"}
        /\ UNCHANGED edit
    BY <1>11 DEF WriteForAppend
  <2>7. req' \in [Request -> Handler] /\ PlaceOK'
    BY <1>0, <1>1, <1>11, <2>6, HandlerMoves
  <2> QED
    BY <1>0, <2>1, <2>3, <2>4, <2>5, <2>6, <2>7 DEF TypeOK
<1>12. ASSUME NEW r \in Request, Prune(r) PROVE TypeOK' /\ PlaceOK'
  <2>1. req[r].conv \in Conversation
    BY <1>0, <1>12 DEF Prune, PlaceOK
  <2>2. Store!Pruned(rows[req[r].conv]) \in Seq(MessageRow)
    BY <1>0, <2>1, PrunedType DEF TypeOK
  <2>3. /\ rows' = [rows EXCEPT ![req[r].conv] = Store!Pruned(rows[req[r].conv])]
        /\ UNCHANGED <<conv, edit, disturbed>>
    BY <1>12 DEF Prune
  <2>4. req' \in [Request -> Handler] /\ PlaceOK'
    BY <1>0, <1>1, <1>12, <2>3, HandlerMoves
  <2> QED
    BY <1>0, <2>1, <2>2, <2>3, <2>4 DEF TypeOK
<1>13. ASSUME NEW r \in Request, ReleaseRequest(r) PROVE TypeOK' /\ PlaceOK'
  <2> DEFINE c == req[r].conv
  <2>1. c \in Conversation
    BY <1>0, <1>13 DEF ReleaseRequest, PlaceOK
  <2>2. [[conv[c] EXCEPT !.holder = None] EXCEPT !.live = FALSE] \in ConversationRow
    <3>1. conv[c] \in ConversationRow
      BY <1>0, <2>1 DEF TypeOK
    <3> QED
      BY <2>1, <3>1 DEF ConversationRow
  <2>3. conv' \in [Conversation -> ConversationRow]
    BY <1>0, <1>13, <2>1, <2>2 DEF ReleaseRequest, TypeOK
  <2>4. UNCHANGED <<rows, edit, disturbed>>
    BY <1>13 DEF ReleaseRequest
  <2>5. req' \in [Request -> Handler] /\ PlaceOK'
    BY <1>0, <1>1, <1>13, <2>4, HandlerMoves
  <2> QED
    BY <1>0, <2>3, <2>4, <2>5 DEF TypeOK
<1>14. CASE Crash
  <2>1. Done \in Handler /\ Done.phase = "done"
    BY DEF Done, IdleHandler, Handler, Phase, Opening, Appending
  <2>2. NoEdit \in EditRow /\ NoEdit.op = "none"
    BY NoEditIs
  <2> QED
    BY <1>0, <1>14, <2>1, <2>2 DEF Crash, TypeOK, PlaceOK, EditRow
<1>15. CASE UNCHANGED vars
  BY <1>0, <1>15 DEF vars, TypeOK, PlaceOK
<1> QED
  BY <1>3, <1>4, <1>5, <1>6, <1>7, <1>8, <1>9, <1>10, <1>11, <1>12, <1>13, <1>14, <1>15
  DEF Next, Proceed

------------------------------------------------------------------------------
(* Rows that are not there.                                                *)

LEMMA AbsentNext ==
  ASSUME IInv, [Next]_vars
  PROVE  AbsentOK' /\ LiveOK'
<1>0. TypeOK /\ PlaceOK /\ AbsentOK /\ LiveOK
  BY DEF IInv
<1>1. conv \in [Conversation -> ConversationRow] /\ rows \in [Conversation -> Seq(MessageRow)]
  BY <1>0 DEF TypeOK
<1>2. CASE UNCHANGED <<conv, rows>>
  BY <1>0, <1>2 DEF AbsentOK, LiveOK, Exists
<1>3. ASSUME NEW c \in Conversation, Deleted(c) PROVE AbsentOK' /\ LiveOK'
  <2>1. PICK state \in {"gone", "left"} : \E t \in Seq(MessageRow) :
          /\ conv' = [conv EXCEPT ![c] = NewRow(state)]
          /\ rows' = [rows EXCEPT ![c] = t]
          /\ t = <<>> \/ (state = "left" /\ ~ForeignKeys)
    BY <1>3 DEF Deleted
  <2>2. NewRow(state).state = state /\ NewRow(state).live = FALSE
    BY NewRowIs
  <2>3. /\ conv'[c].state = state /\ conv'[c].live = FALSE
        /\ rows'[c] = <<>> \/ (state = "left" /\ ~ForeignKeys)
        /\ \A d \in Conversation \ {c} : conv'[d] = conv[d] /\ rows'[d] = rows[d]
    BY <1>1, <2>1, <2>2
  <2> QED
    BY <1>0, <2>3 DEF AbsentOK, LiveOK, Exists
<1>4. ASSUME NEW c \in Conversation, Create(c) PROVE AbsentOK' /\ LiveOK'
  <2>1. NewRow("active").state = "active" /\ NewRow("active").live = FALSE
    BY NewRowIs
  <2> QED
    BY <1>0, <1>1, <1>4, <2>1 DEF Create, AbsentOK, LiveOK, Exists
<1>5. ASSUME NEW c \in Conversation, Remove(c) PROVE AbsentOK' /\ LiveOK'
  BY <1>0, <1>3, <1>5, DeleteIs DEF Remove
<1>6. ASSUME NEW c \in Conversation, LeaseLapses(c) PROVE AbsentOK' /\ LiveOK'
  BY <1>0, <1>1, <1>6 DEF LeaseLapses, AbsentOK, LiveOK, Exists, ConversationRow
<1>7. ASSUME NEW e \in Editor, WriteEdit(e) PROVE AbsentOK' /\ LiveOK'
  <2> DEFINE c == edit[e].conv
  <2>1. /\ c \in Conversation
        /\ \/ UNCHANGED <<conv, rows>>
           \/ Exists(c) /\ (Deleted(c) \/ Edited(c))
    BY <1>0, <1>7, WriteIs
  <2>2. CASE Exists(c) /\ Edited(c)
    <3>1. PICK row \in ConversationRow :
            /\ conv' = [conv EXCEPT ![c] = row] /\ rows' = rows
            /\ row.state \in {"active", "archived"}
            /\ row.live = conv[c].live /\ row.holder = conv[c].holder
      BY <2>2 DEF Edited
    <3> HIDE DEF c
    <3> QED
      BY <1>0, <1>1, <2>1, <3>1 DEF AbsentOK, LiveOK, Exists
  <2> QED
    BY <1>2, <1>3, <2>1, <2>2
<1>8. ASSUME NEW r \in Request, AcquireRequest(r) PROVE AbsentOK' /\ LiveOK'
  <2> DEFINE c == req[r].conv
             id == req[r].id
  <2>1. c \in Conversation /\ id \in RequestId /\ conv[c] \in ConversationRow
    BY <1>0, <1>1, <1>8 DEF AcquireRequest, PlaceOK
  <2>2. SUFFICES ASSUME ~UNCHANGED <<conv, rows>> PROVE AbsentOK' /\ LiveOK'
    BY <1>2
  <2>3. /\ conv[c].state = "active"
        /\ conv' = [conv EXCEPT ![c] = [[@ EXCEPT !.holder = id] EXCEPT !.live = TRUE]]
        /\ rows' = rows
    BY <1>1, <1>8, <2>1, <2>2 DEF AcquireRequest, MayAcquire
  <2>4. /\ conv'[c].state = "active" /\ conv'[c].holder = id
        /\ \A d \in Conversation \ {c} : conv'[d] = conv[d]
    BY <1>1, <2>1, <2>3 DEF ConversationRow
  <2> HIDE DEF c, id
  <2> QED
    BY <1>0, <1>1, <2>1, <2>3, <2>4 DEF AbsentOK, LiveOK, Exists
<1>9. ASSUME NEW r \in Request, WriteForAppend(r) PROVE AbsentOK' /\ LiveOK'
  <2> DEFINE c == req[r].conv
  <2>1. c \in Conversation /\ conv[c] \in ConversationRow
    BY <1>0, <1>1, <1>9 DEF WriteForAppend, PlaceOK
  <2>2. SUFFICES ASSUME ~UNCHANGED <<conv, rows>> PROVE AbsentOK' /\ LiveOK'
    BY <1>2
  <2>3. /\ Exists(c)
        /\ conv' = conv \/ conv' = [conv EXCEPT ![c] = [@ EXCEPT !.name = "derived"]]
        /\ \A d \in Conversation \ {c} : rows'[d] = rows[d]
    BY <1>1, <1>9, <2>2 DEF WriteForAppend
  <2>4. \A d \in Conversation :
          /\ conv'[d].state = conv[d].state /\ conv'[d].live = conv[d].live
          /\ conv'[d].holder = conv[d].holder
    <3> DEFINE row == [conv[c] EXCEPT !.name = "derived"]
    <3>1. row.state = conv[c].state /\ row.live = conv[c].live /\ row.holder = conv[c].holder
      BY <2>1 DEF ConversationRow
    <3>2. conv' = conv \/ conv' = [conv EXCEPT ![c] = row]
      BY <2>3
    <3> HIDE DEF row, c
    <3> QED
      BY <1>1, <2>1, <3>1, <3>2
  <2> HIDE DEF c
  <2> QED
    BY <1>0, <2>3, <2>4 DEF AbsentOK, LiveOK, Exists
<1>10. ASSUME NEW r \in Request, Prune(r) PROVE AbsentOK' /\ LiveOK'
  <2> DEFINE c == req[r].conv
  <2>1. c \in Conversation /\ rows[c] \in Seq(MessageRow)
    BY <1>0, <1>1, <1>10 DEF Prune, PlaceOK
  <2>2. Store!Pruned(<<>>) = <<>>
    BY <2>1, PrunedType
  <2>3. conv' = conv /\ rows' = [rows EXCEPT ![c] = Store!Pruned(rows[c])]
    BY <1>10 DEF Prune
  <2> HIDE DEF c
  <2> QED
    BY <1>0, <1>1, <2>1, <2>2, <2>3 DEF AbsentOK, LiveOK, Exists
<1>11. ASSUME NEW r \in Request, ReleaseRequest(r) PROVE AbsentOK' /\ LiveOK'
  <2> DEFINE c == req[r].conv
  <2>1. c \in Conversation /\ conv[c] \in ConversationRow
    BY <1>0, <1>1, <1>11 DEF ReleaseRequest, PlaceOK
  <2>2. SUFFICES ASSUME ~UNCHANGED <<conv, rows>> PROVE AbsentOK' /\ LiveOK'
    BY <1>2
  <2>3. /\ conv' = [conv EXCEPT ![c] = [[@ EXCEPT !.holder = None] EXCEPT !.live = FALSE]]
        /\ rows' = rows
    BY <1>11, <2>2 DEF ReleaseRequest
  <2>4. /\ conv'[c].state = conv[c].state /\ conv'[c].live = FALSE
        /\ \A d \in Conversation \ {c} : conv'[d] = conv[d]
    BY <1>1, <2>1, <2>3 DEF ConversationRow
  <2> HIDE DEF c
  <2> QED
    BY <1>0, <2>1, <2>3, <2>4 DEF AbsentOK, LiveOK, Exists
<1>12. ASSUME NEW r \in Request,
              \/ DenyAccess(r) \/ GetHistory(r) \/ ReadForAppend(r) \/ EndStream(r)
              \/ Deadline(r) \/ Disconnect(r) \/ StoreRaises(r)
              \/ \E event \in {"completed", "failed"} : Generate(r, event)
              \/ \E c \in Conversation, id \in RequestId : GetScope(r, c, id)
       PROVE  AbsentOK' /\ LiveOK'
  BY <1>2, <1>12 DEF DenyAccess, GetHistory, ReadForAppend, EndStream, Deadline,
                     Disconnect, StoreRaises, Generate, GetScope
<1>13. CASE Crash \/ UNCHANGED vars
            \/ \E e \in Editor, op \in Operation, c \in Conversation : CheckEdit(e, op, c)
  BY <1>2, <1>13 DEF Crash, vars, CheckEdit
<1> QED
  BY <1>4, <1>5, <1>6, <1>7, <1>8, <1>9, <1>10, <1>11, <1>12, <1>13
  DEF Next, Proceed, Cleanup, DeleteProject

------------------------------------------------------------------------------
(* One request at a time.                                                  *)

(* The rows keep what the leases say, or a conversation with its row ends. *)
RowsKeep ==
  \A c \in Conversation : conv[c].state # "none" =>
    /\ conv'[c].state # "none"
    /\ Exists(c)' => /\ Exists(c)
                     /\ conv'[c].holder = conv[c].holder /\ conv'[c].live = conv[c].live

(* Those that hold a conversation have held it before.                     *)
HandlersStay ==
  \A q \in Request :
    /\ req'[q].phase \notin {"idle", "done"} =>
         req[q].phase \notin {"idle", "done"} /\ req'[q].conv = req[q].conv
    /\ Holding(q)' => Holding(q) /\ req'[q].id = req[q].id

LEMMA MovesStay ==
  ASSUME TypeOK, NEW r \in Request, Moves(r)
  PROVE  HandlersStay
BY DEF Moves, Holding, TypeOK, HandlersStay

(* Where neither changes, the leases are what they were.                   *)
LEMMA KeepLeases ==
  ASSUME IInv, RowsKeep, HandlersStay, disturbed \subseteq disturbed'
  PROVE  KnownOK' /\ LeaseHeld' /\ OneWriter'
<1>1. PlaceOK /\ KnownOK /\ LeaseHeld /\ OneWriter
  BY DEF IInv
<1>2. \A q \in Request : req[q].phase \notin {"idle", "done"} =>
        req[q].conv \in Conversation /\ conv[req[q].conv].state # "none"
  BY <1>1 DEF PlaceOK, KnownOK
<1>3. \A q \in Request : Holding(q)' =>
        /\ Holding(q) /\ req'[q].id = req[q].id /\ req'[q].conv = req[q].conv
        /\ req[q].conv \in Conversation /\ conv[req[q].conv].state # "none"
  BY <1>2 DEF HandlersStay, Holding
<1>4. Undisturbed' => Undisturbed
  BY DEF Undisturbed
<1>5. KnownOK'
  BY <1>2 DEF KnownOK, RowsKeep, HandlersStay
<1>6. LeaseHeld'
  <2> SUFFICES ASSUME Undisturbed', NEW q \in Request, Holding(q)', Exists(req[q].conv)'
               PROVE  conv'[req[q].conv].holder = req[q].id /\ conv'[req[q].conv].live
    BY <1>3 DEF LeaseHeld, Exists
  <2> QED
    BY <1>1, <1>3, <1>4 DEF LeaseHeld, RowsKeep
<1>7. OneWriter'
  BY <1>1, <1>3, <1>4 DEF OneWriter
<1> QED
  BY <1>5, <1>6, <1>7

LEMMA LeaseNext ==
  ASSUME IInv, [Next]_vars
  PROVE  KnownOK' /\ LeaseHeld' /\ OneWriter'
<1>0. TypeOK /\ PlaceOK /\ AbsentOK /\ KnownOK /\ LiveOK /\ LeaseHeld /\ OneWriter
  BY DEF IInv
<1>1. conv \in [Conversation -> ConversationRow] /\ req \in [Request -> Handler]
  BY <1>0 DEF TypeOK
<1>2. UNCHANGED conv => RowsKeep
  BY DEF RowsKeep, Exists
<1>3. UNCHANGED req => HandlersStay
  BY DEF Holding, HandlersStay
<1>4. ASSUME NEW c \in Conversation, Deleted(c) PROVE RowsKeep
  <2>1. PICK state \in {"gone", "left"} : conv' = [conv EXCEPT ![c] = NewRow(state)]
    BY <1>4 DEF Deleted
  <2>2. NewRow(state).state = state
    BY NewRowIs
  <2> QED
    BY <1>1, <2>1, <2>2 DEF RowsKeep, Exists
<1>5. ASSUME NEW c \in Conversation, Create(c) PROVE KnownOK' /\ LeaseHeld' /\ OneWriter'
  <2>1. RowsKeep
    BY <1>1, <1>5 DEF Create, RowsKeep, Exists
  <2> QED
    BY <1>3, <1>5, <2>1, KeepLeases DEF Create
<1>6. ASSUME NEW c \in Conversation, Cleanup(c) \/ DeleteProject(c)
      PROVE  KnownOK' /\ LeaseHeld' /\ OneWriter'
  <2>1. Delete(c, {}) /\ UNCHANGED <<req, disturbed>>
    BY <1>6 DEF Cleanup, DeleteProject, Remove
  <2>2. RowsKeep
    BY <1>0, <1>4, <2>1, DeleteIs
  <2> QED
    BY <1>3, <2>1, <2>2, KeepLeases
<1>7. ASSUME NEW e \in Editor, WriteEdit(e) PROVE KnownOK' /\ LeaseHeld' /\ OneWriter'
  <2> DEFINE c == edit[e].conv
  <2>1. /\ c \in Conversation /\ disturbed \subseteq disturbed' /\ UNCHANGED req
        /\ \/ UNCHANGED <<conv, rows>>
           \/ Exists(c) /\ (Deleted(c) \/ Edited(c))
    BY <1>0, <1>7, WriteIs
  <2>2. CASE Exists(c) /\ Edited(c)
    <3>1. PICK row \in ConversationRow :
            /\ conv' = [conv EXCEPT ![c] = row]
            /\ row.state \in {"active", "archived"}
            /\ row.live = conv[c].live /\ row.holder = conv[c].holder
      BY <2>2 DEF Edited
    <3> HIDE DEF c
    <3>2. RowsKeep
      BY <1>1, <2>1, <2>2, <3>1 DEF RowsKeep, Exists
    <3> QED
      BY <1>3, <2>1, <3>2, KeepLeases
  <2> QED
    BY <1>2, <1>3, <1>4, <2>1, <2>2, KeepLeases
<1>8. ASSUME NEW c \in Conversation, LeaseLapses(c)
      PROVE  KnownOK' /\ LeaseHeld' /\ OneWriter'
  <2>1. /\ conv' = [conv EXCEPT ![c] = [@ EXCEPT !.live = FALSE]]
        /\ UNCHANGED req
        /\ \A r \in Request : Undisturbed' /\ Holding(r) => req[r].conv # c
        /\ disturbed \subseteq disturbed'
    BY <1>8 DEF LeaseLapses, Undisturbed
  <2>2. /\ \A d \in Conversation : conv'[d].state = conv[d].state
        /\ \A d \in Conversation \ {c} : conv'[d] = conv[d]
    BY <1>1, <2>1 DEF ConversationRow
  <2>3. Undisturbed' => Undisturbed
    BY <2>1 DEF Undisturbed
  <2>4. KnownOK'
    BY <1>0, <2>1, <2>2 DEF KnownOK, PlaceOK
  <2>5. OneWriter'
    BY <1>0, <2>1, <2>3 DEF OneWriter, Holding
  <2>6. LeaseHeld'
    <3> SUFFICES ASSUME Undisturbed', NEW q \in Request, Holding(q), Exists(req[q].conv)'
                 PROVE  conv'[req[q].conv].holder = req[q].id /\ conv'[req[q].conv].live
      BY <2>1 DEF LeaseHeld, Exists, Holding
    <3>1. req[q].conv \in Conversation /\ req[q].conv # c
      BY <1>0, <2>1 DEF PlaceOK, Holding
    <3> QED
      BY <1>0, <2>1, <2>2, <2>3, <3>1 DEF LeaseHeld, Exists
  <2> QED
    BY <2>4, <2>5, <2>6
<1>9. ASSUME NEW r \in Request, NEW c \in Conversation, NEW id \in RequestId,
             GetScope(r, c, id)
      PROVE  KnownOK' /\ LeaseHeld' /\ OneWriter'
  <2> DEFINE h == [req[r] EXCEPT !.phase = "scoped", !.conv = c, !.id = id]
  <2>1. h.phase = "scoped" /\ h.conv = c
    BY <1>1 DEF Handler
  <2>2. /\ req' = [req EXCEPT ![r] = h] /\ UNCHANGED <<conv, disturbed>>
        /\ conv[c].state = "active"
    BY <1>9 DEF GetScope, Step
  <2> HIDE DEF h
  <2>3. \A q \in Request : Holding(q)' => q # r /\ Holding(q) /\ req'[q] = req[q]
    BY <1>1, <2>1, <2>2 DEF Holding
  <2>4. KnownOK'
    BY <1>0, <1>1, <2>1, <2>2 DEF KnownOK
  <2>5. LeaseHeld' /\ OneWriter'
    BY <1>0, <2>2, <2>3 DEF LeaseHeld, OneWriter, Undisturbed, Exists
  <2> QED
    BY <2>4, <2>5
<1>10. ASSUME NEW r \in Request, AcquireRequest(r)
       PROVE  KnownOK' /\ LeaseHeld' /\ OneWriter'
  <2> DEFINE c == req[r].conv
             id == req[r].id
             h == [req[r] EXCEPT !.phase = "held"]
  <2>1. /\ c \in Conversation /\ id \in RequestId
        /\ conv[c] \in ConversationRow /\ req[r] \in Handler /\ ~Holding(r)
    BY <1>0, <1>1, <1>10 DEF AcquireRequest, PlaceOK, Holding
  <2>2. CASE MayAcquire(c, id)
    <3>1. h.phase = "held" /\ h.conv = c /\ h.id = id
      BY <2>1 DEF Handler
    <3>2. /\ conv' = [conv EXCEPT ![c] = [[@ EXCEPT !.holder = id] EXCEPT !.live = TRUE]]
          /\ req' = [req EXCEPT ![r] = h]
          /\ disturbed \subseteq disturbed'
          /\ Undisturbed' => ~\E q \in Request \ {r} :
               Holding(q) /\ req[q].conv = c /\ req[q].id = id
      BY <1>1, <1>10, <2>1, <2>2 DEF AcquireRequest, Step, Undisturbed
    <3>3. /\ conv'[c].state = conv[c].state /\ conv'[c].holder = id /\ conv'[c].live
          /\ \A d \in Conversation \ {c} : conv'[d] = conv[d]
          /\ conv[c].state = "active" /\ (conv[c].holder = id \/ ~conv[c].live)
      BY <1>1, <2>1, <2>2, <3>2 DEF ConversationRow, MayAcquire, LiveLease
    <3>4. /\ req'[r].phase = "held" /\ req'[r].conv = c /\ req'[r].id = id
          /\ \A q \in Request \ {r} : req'[q] = req[q]
      BY <1>1, <3>1, <3>2
    <3>5. Undisturbed' => Undisturbed
      BY <3>2 DEF Undisturbed
    <3> HIDE DEF h, c, id
    <3>6. ASSUME Undisturbed', NEW q \in Request \ {r}, Holding(q) PROVE req[q].conv # c
      <4> SUFFICES ASSUME req[q].conv = c PROVE FALSE
        OBVIOUS
      <4>1. conv[c].holder = req[q].id /\ conv[c].live
        BY <1>0, <3>3, <3>5, <3>6 DEF LeaseHeld, Exists
      <4> QED
        BY <3>2, <3>3, <3>6, <4>1
    <3>7. \A q \in Request \ {r} : Holding(q)' <=> Holding(q)
      BY <3>4 DEF Holding
    <3>8. \A q \in Request : Holding(q) => req[q].conv \in Conversation
      BY <1>0 DEF PlaceOK, Holding
    <3>9. OneWriter'
      BY <1>0, <3>4, <3>5, <3>6, <3>7 DEF OneWriter
    <3>10. LeaseHeld'
      <4> SUFFICES ASSUME Undisturbed', NEW q \in Request, Holding(q)',
                          conv'[req'[q].conv].state \in {"active", "archived"}
                   PROVE  conv'[req'[q].conv].holder = req'[q].id /\ conv'[req'[q].conv].live
        BY DEF LeaseHeld, Exists
      <4>1. CASE q = r
        BY <3>3, <3>4, <4>1
      <4>2. CASE q # r
        <5>1. req'[q] = req[q] /\ req[q].conv \in Conversation \ {c} /\ Holding(q)
          BY <3>4, <3>6, <3>7, <3>8, <4>2
        <5> QED
          BY <1>0, <3>3, <3>5, <5>1 DEF LeaseHeld, Exists
      <4> QED
        BY <4>1, <4>2
    <3>11. KnownOK'
      <4>1. \A d \in Conversation : conv'[d].state = conv[d].state
        BY <2>1, <3>3
      <4> QED
        BY <1>0, <3>3, <3>4, <4>1 DEF KnownOK, PlaceOK
    <3> QED
      BY <3>9, <3>10, <3>11
  <2>3. CASE ~MayAcquire(c, id)
    <3>1. Done.phase = "done"
      BY DEF Done, IdleHandler
    <3>2. UNCHANGED <<conv, disturbed>> /\ req' = [req EXCEPT ![r] = Done]
      BY <1>10, <2>3 DEF AcquireRequest, Step
    <3>3. HandlersStay
      BY <1>1, <3>1, <3>2 DEF HandlersStay, Holding
    <3> QED
      BY <1>2, <3>2, <3>3, KeepLeases
  <2> QED
    BY <2>2, <2>3
<1>11. ASSUME NEW r \in Request,
              \/ DenyAccess(r) \/ GetHistory(r) \/ ReadForAppend(r) \/ EndStream(r)
              \/ Deadline(r) \/ Disconnect(r) \/ StoreRaises(r) \/ Prune(r)
              \/ \E event \in {"completed", "failed"} : Generate(r, event)
       PROVE  KnownOK' /\ LeaseHeld' /\ OneWriter'
  <2>1. UNCHANGED <<conv, disturbed>>
    BY <1>11 DEF DenyAccess, GetHistory, ReadForAppend, EndStream, Deadline,
                 Disconnect, StoreRaises, Prune, Generate
  <2>2. HandlersStay
    BY <1>0, <1>11, HandlerMoves, MovesStay
  <2> QED
    BY <1>2, <2>1, <2>2, KeepLeases
<1>12. ASSUME NEW r \in Request, WriteForAppend(r)
       PROVE  KnownOK' /\ LeaseHeld' /\ OneWriter'
  <2> DEFINE c == req[r].conv
  <2>1. /\ conv' = conv \/ conv' = [conv EXCEPT ![c] = [@ EXCEPT !.name = "derived"]]
        /\ disturbed \subseteq disturbed'
    BY <1>12 DEF WriteForAppend
  <2>2. c \in Conversation
    BY <1>0, <1>12 DEF WriteForAppend, PlaceOK
  <2>3. \A d \in Conversation :
          /\ conv'[d].state = conv[d].state /\ conv'[d].live = conv[d].live
          /\ conv'[d].holder = conv[d].holder
    BY <1>1, <2>1, <2>2 DEF ConversationRow
  <2> HIDE DEF c
  <2>4. RowsKeep
    BY <2>3 DEF RowsKeep, Exists
  <2>5. HandlersStay
    BY <1>0, <1>12, HandlerMoves, MovesStay
  <2> QED
    BY <2>1, <2>4, <2>5, KeepLeases
<1>13. ASSUME NEW r \in Request, ReleaseRequest(r)
       PROVE  KnownOK' /\ LeaseHeld' /\ OneWriter'
  <2> DEFINE c == req[r].conv
  <2>1. c \in Conversation /\ conv[c] \in ConversationRow /\ Holding(r)
    BY <1>0, <1>1, <1>13 DEF ReleaseRequest, PlaceOK, Holding
  <2>2. Done.phase = "done"
    BY DEF Done, IdleHandler
  <2>3. req' = [req EXCEPT ![r] = Done] /\ UNCHANGED disturbed
    BY <1>13 DEF ReleaseRequest, Step
  <2>4. /\ \/ conv' = conv
           \/ conv' = [conv EXCEPT ![c] = [[@ EXCEPT !.holder = None] EXCEPT !.live = FALSE]]
    BY <1>13 DEF ReleaseRequest
  <2>5. /\ \A d \in Conversation : conv'[d].state = conv[d].state
        /\ \A d \in Conversation \ {c} : conv'[d] = conv[d]
    <3>1. conv'[c].state = conv[c].state
      BY <1>1, <2>1, <2>4, ReleasedRowIs
    <3>2. \A d \in Conversation \ {c} : conv'[d] = conv[d]
      BY <1>1, <2>1, <2>4
    <3> QED
      BY <3>1, <3>2
  <2>6. /\ req'[r].phase = "done"
        /\ \A q \in Request \ {r} : req'[q] = req[q] /\ (Holding(q)' <=> Holding(q))
        /\ ~Holding(r)'
    BY <1>1, <2>2, <2>3 DEF Holding
  <2>7. \A q \in Request \ {r} : Undisturbed /\ Holding(q) => req[q].conv # c
    BY <1>0, <2>1 DEF OneWriter
  <2>8. Undisturbed' <=> Undisturbed
    BY <2>3 DEF Undisturbed
  <2> HIDE DEF c
  <2>9. KnownOK'
    BY <1>0, <2>5, <2>6 DEF KnownOK, PlaceOK
  <2>10. OneWriter'
    BY <1>0, <2>6, <2>8 DEF OneWriter
  <2>11. LeaseHeld'
    <3> SUFFICES ASSUME Undisturbed', NEW q \in Request, Holding(q)',
                        conv'[req'[q].conv].state \in {"active", "archived"}
                 PROVE  conv'[req'[q].conv].holder = req'[q].id /\ conv'[req'[q].conv].live
      BY DEF LeaseHeld, Exists
    <3>1. q # r /\ Holding(q) /\ req'[q] = req[q]
      BY <2>6
    <3>2. req[q].conv \in Conversation \ {c}
      BY <1>0, <2>7, <2>8, <3>1 DEF PlaceOK, Holding
    <3> QED
      BY <1>0, <2>5, <2>8, <3>1, <3>2 DEF LeaseHeld, Exists
  <2> QED
    BY <2>9, <2>10, <2>11
<1>14. CASE Crash
  <2>1. Done.phase = "done"
    BY DEF Done, IdleHandler
  <2>2. HandlersStay
    BY <1>14, <2>1 DEF Crash, HandlersStay, Holding
  <2> QED
    BY <1>2, <1>14, <2>2, KeepLeases DEF Crash
<1>15. CASE \/ UNCHANGED vars
            \/ \E e \in Editor, op \in Operation, c \in Conversation : CheckEdit(e, op, c)
  BY <1>2, <1>3, <1>15, KeepLeases DEF vars, CheckEdit
<1> QED
  BY <1>5, <1>6, <1>7, <1>8, <1>9, <1>10, <1>11, <1>12, <1>13, <1>14, <1>15
  DEF Next, Proceed

------------------------------------------------------------------------------
(* Theorems.                                                               *)

THEOREM Invariant == Spec => []IInv
<1>1. Init => IInv
  <2> SUFFICES ASSUME Init PROVE IInv
    OBVIOUS
  <2>1. NewRow("none") \in ConversationRow /\ IdleHandler \in Handler
    BY DEF NewRow, ConversationRow, IdleHandler, Handler, Phase, Opening, Appending
  <2>2. NoEdit \in EditRow
    BY NoEditIs
  <2>3. TypeOK
    BY <2>1, <2>2 DEF Init, TypeOK, EditRow
  <2>4. /\ \A r \in Request : req[r].phase = "idle"
        /\ \A e \in Editor : edit[e].op = "none"
        /\ \A c \in Conversation : conv[c].live = FALSE /\ rows[c] = <<>>
    BY DEF Init, IdleHandler, NoEdit, NewRow
  <2> QED
    BY <2>3, <2>4 DEF IInv, PlaceOK, AbsentOK, KnownOK, LiveOK, LeaseHeld, OneWriter, Holding
<1>2. IInv /\ [Next]_vars => IInv'
  BY TypeNext, AbsentNext, LeaseNext DEF IInv
<1> QED
  BY <1>1, <1>2, PTL DEF Spec

(* The rows and the locals of the handlers keep their types, among them    *)
(* the ordinals that _append computes and the messages _prune leaves.      *)
THEOREM TypeCorrect == Spec => []TypeOK
BY Invariant, PTL DEF IInv

(* Two requests never work on a conversation at once, unless a lease has   *)
(* lapsed under one or two came with the same X-Request-ID.                *)
THEOREM WritersAreAlone == Spec => []OneWriter
BY Invariant, PTL DEF IInv

(* No message outlives its conversation, whoever removes it and whenever,   *)
(* where foreign keys are enforced or the deletion took the messages along. *)
THEOREM MessagesHaveConversations == Spec => []NoOrphans
<1>1. IInv => NoOrphans
  BY DEF IInv, AbsentOK, NoOrphans
<1> QED
  BY <1>1, Invariant, PTL

(* A live lease is given back only by a request that carries its id.       *)
LEMMA ReleaseStep ==
  ASSUME IInv, [Next]_vars, NEW c \in Conversation,
         LiveLease(c), Exists(c)', conv'[c].holder # conv[c].holder
  PROVE  \E r \in Request :
           /\ req[r].phase = "releasing" /\ req'[r].phase = "done"
           /\ req[r].conv = c /\ req[r].id = conv[c].holder
<1>0. TypeOK /\ PlaceOK /\ AbsentOK
  BY DEF IInv
<1>1. conv \in [Conversation -> ConversationRow] /\ req \in [Request -> Handler]
  BY <1>0 DEF TypeOK
<1>2. Exists(c) /\ conv[c].live /\ conv[c] \in ConversationRow
  BY <1>0, <1>1 DEF AbsentOK, LiveLease
<1>3. conv' # conv
  OBVIOUS
<1>4. ASSUME NEW d \in Conversation, Deleted(d) PROVE FALSE
  <2>1. PICK state \in {"gone", "left"} : conv' = [conv EXCEPT ![d] = NewRow(state)]
    BY <1>4 DEF Deleted
  <2>2. NewRow(state).state = state
    BY NewRowIs
  <2> QED
    BY <1>1, <2>1, <2>2 DEF Exists
<1>5. ASSUME NEW d \in Conversation, Create(d) PROVE FALSE
  BY <1>1, <1>2, <1>5 DEF Create, Exists
<1>6. ASSUME NEW d \in Conversation, Cleanup(d) \/ DeleteProject(d) PROVE FALSE
  <2>1. Delete(d, {})
    BY <1>6 DEF Cleanup, DeleteProject, Remove
  <2> QED
    BY <1>0, <1>4, <2>1, DeleteIs
<1>7. ASSUME NEW d \in Conversation, LeaseLapses(d) PROVE FALSE
  <2>1. conv' = [conv EXCEPT ![d] = [@ EXCEPT !.live = FALSE]]
    BY <1>7 DEF LeaseLapses
  <2> QED
    BY <1>1, <2>1 DEF ConversationRow
<1>8. ASSUME NEW e \in Editor, WriteEdit(e) PROVE FALSE
  <2> DEFINE d == edit[e].conv
  <2>1. d \in Conversation /\ (Deleted(d) \/ Edited(d))
    BY <1>0, <1>3, <1>8, WriteIs
  <2>2. CASE Edited(d)
    <3>1. PICK row \in ConversationRow :
            conv' = [conv EXCEPT ![d] = row] /\ row.holder = conv[d].holder
      BY <2>2 DEF Edited
    <3> HIDE DEF d
    <3> QED
      BY <1>1, <2>1, <3>1
  <2> QED
    BY <1>4, <2>1, <2>2
<1>9. ASSUME NEW r \in Request, AcquireRequest(r) PROVE FALSE
  <2> DEFINE d == req[r].conv
             id == req[r].id
  <2>1. d \in Conversation /\ conv[d] \in ConversationRow
    BY <1>0, <1>1, <1>9 DEF AcquireRequest, PlaceOK
  <2>2. /\ conv' = [conv EXCEPT ![d] = [[@ EXCEPT !.holder = id] EXCEPT !.live = TRUE]]
        /\ conv[d].holder = id \/ ~conv[d].live
    BY <1>1, <1>3, <1>9, <2>1 DEF AcquireRequest, MayAcquire, LiveLease
  <2>3. c = d /\ conv'[d].holder = id
    BY <1>1, <2>1, <2>2 DEF ConversationRow
  <2> QED
    BY <1>2, <2>2, <2>3
<1>10. ASSUME NEW r \in Request, WriteForAppend(r) PROVE FALSE
  <2> DEFINE d == req[r].conv
  <2>1. d \in Conversation /\ conv[d] \in ConversationRow
    BY <1>0, <1>1, <1>10 DEF WriteForAppend, PlaceOK
  <2>2. conv' = [conv EXCEPT ![d] = [@ EXCEPT !.name = "derived"]]
    BY <1>3, <1>10 DEF WriteForAppend
  <2> QED
    BY <1>1, <2>1, <2>2 DEF ConversationRow
<1>11. ASSUME NEW r \in Request, ReleaseRequest(r)
       PROVE  /\ req[r].phase = "releasing" /\ req'[r].phase = "done"
              /\ req[r].conv = c /\ req[r].id = conv[c].holder
  <2> DEFINE d == req[r].conv
  <2>1. d \in Conversation /\ conv[d] \in ConversationRow /\ req[r].phase = "releasing"
    BY <1>0, <1>1, <1>11 DEF ReleaseRequest, PlaceOK
  <2>2. /\ conv[d].holder = req[r].id
        /\ conv' = [conv EXCEPT ![d] = [[@ EXCEPT !.holder = None] EXCEPT !.live = FALSE]]
    BY <1>3, <1>11 DEF ReleaseRequest
  <2>3. c = d
    BY <1>1, <2>1, <2>2 DEF ConversationRow
  <2>4. req'[r].phase = "done"
    BY <1>1, <1>11 DEF ReleaseRequest, Step, Done, IdleHandler
  <2> QED
    BY <2>1, <2>2, <2>3, <2>4
<1>12. ASSUME NEW r \in Request,
              \/ DenyAccess(r) \/ GetHistory(r) \/ ReadForAppend(r) \/ EndStream(r)
              \/ Deadline(r) \/ Disconnect(r) \/ StoreRaises(r) \/ Prune(r)
              \/ \E event \in {"completed", "failed"} : Generate(r, event)
              \/ \E d \in Conversation, id \in RequestId : GetScope(r, d, id)
       PROVE  FALSE
  BY <1>3, <1>12 DEF DenyAccess, GetHistory, ReadForAppend, EndStream, Deadline,
                     Disconnect, StoreRaises, Prune, Generate, GetScope
<1>13. CASE \/ Crash \/ UNCHANGED vars
            \/ \E e \in Editor, op \in Operation, d \in Conversation : CheckEdit(e, op, d)
  BY <1>3, <1>13 DEF Crash, vars, CheckEdit
<1> QED
  BY <1>5, <1>6, <1>7, <1>8, <1>9, <1>10, <1>11, <1>12, <1>13 DEF Next, Proceed

(* A late request that has lost its lease does not give back that of its   *)
(* successor.                                                              *)
THEOREM LateReleaseIsHarmless == Spec => ReleaseFreesOwn
<1>1. IInv /\ [Next]_vars =>
        [\A c \in Conversation :
           LiveLease(c) /\ Exists(c)' /\ conv'[c].holder # conv[c].holder =>
             \E r \in Request :
               /\ req[r].phase = "releasing" /\ req'[r].phase = "done"
               /\ req[r].conv = c /\ req[r].id = conv[c].holder]_vars
  BY ReleaseStep
<1> QED
  BY <1>1, Invariant, PTL DEF Spec, ReleaseFreesOwn

------------------------------------------------------------------------------
(* What appending and pruning leave of the order of the rows.              *)

(* A row with a new greatest ordinal comes last.                           *)
LEMMA InsertedLast ==
  ASSUME NEW s \in Seq(MessageRow), NEW m \in MessageRow,
         \A i \in DOMAIN s : s[i].ordinal <= m.ordinal
  PROVE  Inserted(s, m) = Append(s, m)
<1> DEFINE k == Cardinality({i \in DOMAIN s : s[i].ordinal <= m.ordinal})
<1>1. Len(s) \in Nat /\ DOMAIN s = 1 .. Len(s)
  OBVIOUS
<1>2. k = Len(s)
  <2>1. {i \in DOMAIN s : s[i].ordinal <= m.ordinal} = 1 .. Len(s)
    BY <1>1
  <2>2. Cardinality(1 .. Len(s)) = Len(s)
    BY <1>1, FS_Interval
  <2> QED
    BY <2>1, <2>2
<1> HIDE DEF k
<1>3. Inserted(s, m) = SubSeq(s, 1, Len(s)) \o <<m>> \o SubSeq(s, Len(s) + 1, Len(s))
  BY <1>2 DEF Inserted, k
<1>4. SubSeq(s, 1, Len(s)) = s
  BY SubSeqFull
<1>5. SubSeq(s, Len(s) + 1, Len(s)) = <<>>
  BY <1>1, SubSeqEmpty
<1>6. s \o <<m>> \in Seq(MessageRow) /\ s \o <<m>> = Append(s, m)
  BY AppendIsConcat, ConcatProperties
<1> QED
  BY <1>3, <1>4, <1>5, <1>6, ConcatEmptySeq

(* The set is enumerated in order, each element once.                      *)
LEMMA NthOrder ==
  ASSUME NEW n \in Nat, NEW K \in SUBSET (1 .. n)
  PROVE  LET N == Cardinality(K)
             nth(i) == CHOOSE j \in K : Cardinality({k \in K : k <= j}) = i
         IN  /\ N \in Nat /\ \A i \in 1 .. N : nth(i) \in K
             /\ \A i, j \in 1 .. N : i < j => nth(i) < nth(j)
             /\ \A j \in K : \E i \in 1 .. N : nth(i) = j
<1> DEFINE N == Cardinality(K)
           below == [j \in K |-> {k \in K : k <= j}]
           nth(i) == CHOOSE j \in K : Cardinality({k \in K : k <= j}) = i
<1>0. \A k \in K : k \in Nat
  OBVIOUS
<1>1. IsFiniteSet(K) /\ N \in Nat
  <2>1. IsFiniteSet(1 .. n)
    BY FS_Interval
  <2>2. IsFiniteSet(K)
    BY <2>1, FS_Subset
  <2> QED
    BY <2>2, FS_CardinalityType
<1>2. \A j \in K : below[j] \subseteq K /\ \A k \in K : k \in below[j] <=> k <= j
  OBVIOUS
<1>3. \A j \in K : Cardinality({k \in K : k <= j}) = Cardinality(below[j])
  OBVIOUS
<1> HIDE DEF below
<1>4. \A j \in K : /\ IsFiniteSet(below[j]) /\ Cardinality(below[j]) \in Nat
                   /\ Cardinality(below[j]) <= N
  BY <1>1, <1>2, FS_Subset, FS_CardinalityType
<1>5. ASSUME NEW i \in 1 .. N PROVE nth(i) \in K /\ Cardinality(below[nth(i)]) = i
  <2>1. \E j \in K : Cardinality({k \in K : k <= j}) = i
    BY NthExists
  <2>2. nth(i) \in K /\ Cardinality({k \in K : k <= nth(i)}) = i
    BY <2>1
  <2> HIDE DEF nth
  <2> QED
    BY <1>3, <2>2
<1>6. ASSUME NEW i \in K, NEW j \in K, i <= j
      PROVE  Cardinality(below[i]) <= Cardinality(below[j])
  <2>1. \A k \in K : k <= i => k <= j
    BY <1>0, <1>6
  <2>2. below[i] \subseteq below[j]
    BY <1>2, <2>1
  <2> QED
    BY <1>4, <2>2, FS_Subset
<1>7. ASSUME NEW i \in K, NEW j \in K, i < j
      PROVE  Cardinality(below[i]) < Cardinality(below[j])
  <2>1. (\A k \in K : k <= i => k <= j) /\ j <= j /\ ~(j <= i)
    BY <1>0, <1>7
  <2>2. below[i] \subseteq below[j] /\ j \in below[j] /\ j \notin below[i]
    BY <1>2, <2>1
  <2>3. below[i] # below[j]
    BY <2>2
  <2> QED
    BY <1>4, <2>2, <2>3, FS_Subset
<1> HIDE DEF nth
<1>8. ASSUME NEW i \in 1 .. N, NEW j \in 1 .. N, i < j PROVE nth(i) < nth(j)
  <2>1. nth(i) \in K /\ nth(j) \in K /\ nth(i) \in Nat /\ nth(j) \in Nat
    BY <1>0, <1>5
  <2>2. ~(nth(j) <= nth(i))
    <3> SUFFICES ASSUME nth(j) <= nth(i) PROVE FALSE
      OBVIOUS
    <3>1. Cardinality(below[nth(j)]) <= Cardinality(below[nth(i)])
      BY <1>6, <2>1
    <3>2. j <= i
      BY <1>5, <3>1
    <3> QED
      BY <1>1, <1>8, <3>2
  <2> QED
    BY <2>1, <2>2
<1>9. ASSUME NEW j \in K PROVE \E i \in 1 .. N : nth(i) = j
  <2>1. Cardinality(below[j]) \in 1 .. N
    <3>1. j \in below[j]
      BY <1>2
    <3>2. Cardinality(below[j]) # 0
      BY <1>4, <3>1, FS_EmptySet
    <3> QED
      BY <1>1, <1>4, <3>2
  <2>2. PICK i \in 1 .. N : i = Cardinality(below[j])
    BY <2>1
  <2>3. nth(i) \in K /\ Cardinality(below[nth(i)]) = Cardinality(below[j])
    BY <1>5, <2>2
  <2>4. nth(i) \in Nat /\ j \in Nat /\ Cardinality(below[j]) \in Nat
    BY <1>0, <1>4, <2>3
  <2>5. ~(nth(i) < j) /\ ~(j < nth(i))
    BY <1>7, <2>3, <2>4
  <2> QED
    BY <2>4, <2>5
<1> QED
  BY <1>1, <1>5, <1>8, <1>9 DEF nth

(* No message is part of two exchanges.                                    *)
LEMMA ExchangesApart ==
  ASSUME NEW S, NEW s \in Seq(S),
         NEW x \in Store!CompleteExchanges(s), NEW y \in Store!CompleteExchanges(s),
         {x[1], x[2]} \cap {y[1], y[2]} # {}
  PROVE  x = y
<1>1. /\ Len(s) \in Nat
      /\ x \in (1 .. Len(s)) \X (1 .. Len(s)) /\ y \in (1 .. Len(s)) \X (1 .. Len(s))
  BY DEF Store!CompleteExchanges
<1>2. /\ x[1] \in 1 .. Len(s) /\ x[2] \in 1 .. Len(s) /\ x = <<x[1], x[2]>>
      /\ y[1] \in 1 .. Len(s) /\ y[2] \in 1 .. Len(s) /\ y = <<y[1], y[2]>>
  BY <1>1
<1>3. /\ x[1] < x[2]
      /\ Store!Completed(s[x[1]], "user") /\ Store!Completed(s[x[2]], "assistant")
      /\ \A k \in (x[1] + 1) .. (x[2] - 1) :
           ~Store!Completed(s[k], "user") /\ ~Store!Completed(s[k], "assistant")
  BY DEF Store!CompleteExchanges
<1>4. /\ y[1] < y[2]
      /\ Store!Completed(s[y[1]], "user") /\ Store!Completed(s[y[2]], "assistant")
      /\ \A k \in (y[1] + 1) .. (y[2] - 1) :
           ~Store!Completed(s[k], "user") /\ ~Store!Completed(s[k], "assistant")
  BY DEF Store!CompleteExchanges
<1>5. x[1] # y[2] /\ x[2] # y[1]
  BY <1>3, <1>4 DEF Store!Completed
<1>6. x[1] = y[1] \/ x[2] = y[2]
  BY <1>5
<1>7. (~(x[2] < y[2]) /\ ~(y[2] < x[2])) \/ x[2] = y[2]
  BY <1>2, <1>3, <1>4, <1>6
<1>8. (~(x[1] < y[1]) /\ ~(y[1] < x[1])) \/ x[1] = y[1]
  BY <1>2, <1>3, <1>4, <1>6
<1> QED
  BY <1>2, <1>7, <1>8

(* Pruning keeps rows in their order, and exchanges whole.                 *)
LEMMA PrunedRows ==
  ASSUME NEW S, NEW s \in Seq(S)
  PROVE  \E K \in SUBSET (1 .. Len(s)) :
         \E f \in [1 .. Len(Store!Pruned(s)) -> K] :
           /\ DOMAIN Store!Pruned(s) = 1 .. Len(Store!Pruned(s))
           /\ \A i \in 1 .. Len(Store!Pruned(s)) : Store!Pruned(s)[i] = s[f[i]]
           /\ \A i, j \in 1 .. Len(Store!Pruned(s)) : i < j => f[i] < f[j]
           /\ \A j \in K : \E i \in 1 .. Len(Store!Pruned(s)) : f[i] = j
           /\ \A x \in Store!CompleteExchanges(s) : x[1] \in K <=> x[2] \in K
<1> DEFINE exchanges == Store!CompleteExchanges(s)
           later(x) == {y \in exchanges : y[1] > x[1]}
           old == {x \in exchanges : Cardinality(later(x)) >= MaxTurns}
           K == (1 .. Len(s)) \ UNION {{x[1], x[2]} : x \in old}
           nth(i) == CHOOSE j \in K : Cardinality({k \in K : k <= j}) = i
           N == Cardinality(K)
           f == [i \in 1 .. N |-> nth(i)]
<1>1. Len(s) \in Nat /\ K \in SUBSET (1 .. Len(s))
  OBVIOUS
<1>2. Store!Pruned(s) = [i \in 1 .. N |-> s[nth(i)]]
  BY DEF Store!Pruned, Store!Kept, Store!Cardinality, Cardinality
<1>3. \A x \in exchanges : x[1] \in K <=> x[2] \in K
  <2> SUFFICES ASSUME NEW x \in exchanges, x[1] \notin K \/ x[2] \notin K
               PROVE  x[1] \notin K /\ x[2] \notin K
    OBVIOUS
  <2>1. x[1] \in 1 .. Len(s) /\ x[2] \in 1 .. Len(s)
    BY DEF Store!CompleteExchanges
  <2>2. PICK y \in old : {x[1], x[2]} \cap {y[1], y[2]} # {}
    BY <2>1
  <2>3. x = y
    BY <2>2, ExchangesApart
  <2>4. x \in old
    BY <2>2, <2>3
  <2> HIDE DEF old
  <2>5. {x[1], x[2]} \in {{z[1], z[2]} : z \in old}
    BY <2>4
  <2> QED
    BY <2>5
<1> HIDE DEF K
<1>4. /\ N \in Nat /\ \A i \in 1 .. N : nth(i) \in K
      /\ \A i, j \in 1 .. N : i < j => nth(i) < nth(j)
      /\ \A j \in K : \E i \in 1 .. N : nth(i) = j
  BY <1>1, NthOrder
<1> HIDE DEF nth
<1>5. Len(Store!Pruned(s)) = N /\ DOMAIN Store!Pruned(s) = 1 .. N
  <2>1. Store!Pruned(s) \in Seq(S)
    BY PrunedType
  <2>2. /\ DOMAIN Store!Pruned(s) = 1 .. N
        /\ DOMAIN Store!Pruned(s) = 1 .. Len(Store!Pruned(s)) /\ Len(Store!Pruned(s)) \in Nat
    BY <1>2, <2>1, LenProperties
  <2>3. 1 .. N = 1 .. Len(Store!Pruned(s))
    BY <2>2
  <2> QED
    BY <1>4, <2>2, <2>3
<1>6. /\ f \in [1 .. N -> K] /\ \A i \in 1 .. N : f[i] = nth(i)
      /\ \A i \in 1 .. N : Store!Pruned(s)[i] = s[nth(i)]
  BY <1>2, <1>4
<1> HIDE DEF f
<1>7. /\ f \in [1 .. Len(Store!Pruned(s)) -> K]
      /\ \A i \in 1 .. N : Store!Pruned(s)[i] = s[f[i]]
      /\ \A i, j \in 1 .. N : i < j => f[i] < f[j]
      /\ \A j \in K : \E i \in 1 .. N : f[i] = j
  BY <1>4, <1>5, <1>6
<1> DEFINE Keeps(g, k) ==
      /\ DOMAIN Store!Pruned(s) = 1 .. Len(Store!Pruned(s))
      /\ \A i \in 1 .. Len(Store!Pruned(s)) : Store!Pruned(s)[i] = s[g[i]]
      /\ \A i, j \in 1 .. Len(Store!Pruned(s)) : i < j => g[i] < g[j]
      /\ \A j \in k : \E i \in 1 .. Len(Store!Pruned(s)) : g[i] = j
      /\ \A x \in Store!CompleteExchanges(s) : x[1] \in k <=> x[2] \in k
<1>8. Keeps(f, K)
  BY <1>3, <1>5, <1>7
<1> HIDE DEF Keeps
<1>9. \E k \in SUBSET (1 .. Len(s)) :
        \E g \in [1 .. Len(Store!Pruned(s)) -> k] : Keeps(g, k)
  BY <1>1, <1>7, <1>8
<1> QED
  BY <1>9 DEF Keeps

------------------------------------------------------------------------------
(* Questions and their answers.                                            *)

Ordered(s) == \A i, j \in 1 .. Len(s) : i < j => s[i].ordinal < s[j].ordinal

(* The latest completed message before the j-th is its own question.       *)
Asks(s, i, j) ==
  /\ i < j /\ Store!Completed(s[i], "user") /\ s[i].by = s[j].by
  /\ \A k \in (i + 1) .. (j - 1) : s[k].status # "completed"

Answered(s) ==
  \A j \in 1 .. Len(s) : Store!Completed(s[j], "assistant") =>
    \E i \in 1 .. Len(s) : Asks(s, i, j)

(* The latest completed message is the question of r.                      *)
Pending(s, r) ==
  \E i \in 1 .. Len(s) :
    /\ Store!Completed(s[i], "user") /\ s[i].by = r
    /\ \A k \in (i + 1) .. Len(s) : s[k].status # "completed"

(* The completed answer of the handler is still to be written.             *)
Asking(h) ==
  \/ h.phase = "streaming" /\ h.event = "none"
  \/ h.phase \in {"reading", "writing"} /\ h.task = "answer" /\ h.event = "completed"

LocalsOf(h) ==
  /\ h.phase \in Opening => h.event = "none"
  /\ h.phase \in Appending =>
       /\ h.task \in {"user", "answer", "interrupted"}
       /\ h.task = "user" => h.event = "none" /\ h.phase # "pruning"
       /\ h.task = "answer" => h.event # "none"

LocalsOK == \A r \in Request : LocalsOf(req[r])

OrderOK ==
  Undisturbed => \A c \in Conversation :
    Exists(c) => Ordered(rows[c]) /\ Answered(rows[c])

AskedOK ==
  Undisturbed => \A r \in Request :
    Asking(req[r]) /\ Exists(req[r].conv) => Pending(rows[req[r].conv], r)

LastOK ==
  Undisturbed => \A r \in Request :
    req[r].phase = "writing" /\ Exists(req[r].conv) =>
      req[r].last = LastOrdinal(req[r].conv)

ExchangeInv == LocalsOK /\ OrderOK /\ AskedOK /\ LastOK

LEMMA AppendAnswered ==
  ASSUME NEW s \in Seq(MessageRow), NEW m \in MessageRow,
         Ordered(s), Answered(s), \A i \in 1 .. Len(s) : s[i].ordinal < m.ordinal,
         Store!Completed(m, "assistant") => Pending(s, m.by)
  PROVE  /\ Ordered(Append(s, m)) /\ Answered(Append(s, m))
         /\ Store!Completed(m, "user") => Pending(Append(s, m), m.by)
<1> DEFINE t == Append(s, m)
           n == Len(s)
<1>1. /\ n \in Nat /\ t \in Seq(MessageRow) /\ Len(t) = n + 1
      /\ \A i \in 1 .. n : t[i] = s[i]
      /\ t[n + 1] = m
  BY AppendProperties, LenProperties
<1> HIDE DEF t
<1>2. Ordered(t)
  <2> SUFFICES ASSUME NEW i \in 1 .. (n + 1), NEW j \in 1 .. (n + 1), i < j
               PROVE  t[i].ordinal < t[j].ordinal
    BY <1>1 DEF Ordered
  <2>1. i \in 1 .. n /\ (j \in 1 .. n \/ j = n + 1)
    BY <1>1
  <2> QED
    BY <1>1, <2>1 DEF Ordered
<1>3. Answered(t)
  <2> SUFFICES ASSUME NEW j \in 1 .. (n + 1), Store!Completed(t[j], "assistant")
               PROVE  \E i \in 1 .. (n + 1) : Asks(t, i, j)
    BY <1>1 DEF Answered
  <2>1. CASE j \in 1 .. n
    <3>1. PICK i \in 1 .. n : Asks(s, i, j)
      BY <1>1, <2>1 DEF Answered
    <3>2. \A k \in (i + 1) .. (j - 1) : k \in 1 .. n
      BY <1>1, <2>1
    <3>3. Asks(t, i, j)
      BY <1>1, <2>1, <3>1, <3>2 DEF Asks
    <3> QED
      BY <1>1, <3>3
  <2>2. CASE j = n + 1
    <3>1. PICK i \in 1 .. n : /\ Store!Completed(s[i], "user") /\ s[i].by = m.by
                              /\ \A k \in (i + 1) .. n : s[k].status # "completed"
      BY <1>1, <2>2 DEF Pending
    <3>2. i < j /\ (i + 1) .. (j - 1) = (i + 1) .. n /\ \A k \in (i + 1) .. n : k \in 1 .. n
      BY <1>1, <2>2
    <3>3. Asks(t, i, j)
      BY <1>1, <2>2, <3>1, <3>2 DEF Asks
    <3> QED
      BY <1>1, <3>3
  <2> QED
    BY <1>1, <2>1, <2>2
<1>4. Store!Completed(m, "user") => Pending(t, m.by)
  <2>1. n + 1 \in 1 .. (n + 1) /\ (n + 2) .. (n + 1) = {}
    BY <1>1
  <2> QED
    BY <1>1, <2>1 DEF Pending
<1> QED
  BY <1>2, <1>3, <1>4 DEF t

LEMMA PrunedAnswered ==
  ASSUME NEW s \in Seq(MessageRow), Ordered(s), Answered(s)
  PROVE  Ordered(Store!Pruned(s)) /\ Answered(Store!Pruned(s))
<1> DEFINE t == Store!Pruned(s)
<1>1. t \in Seq(MessageRow) /\ Len(t) \in Nat /\ Len(s) \in Nat
  BY PrunedType, LenProperties
<1>2. PICK K \in SUBSET (1 .. Len(s)) : \E f \in [1 .. Len(t) -> K] :
        /\ DOMAIN t = 1 .. Len(t)
        /\ \A i \in 1 .. Len(t) : t[i] = s[f[i]]
        /\ \A i, j \in 1 .. Len(t) : i < j => f[i] < f[j]
        /\ \A j \in K : \E i \in 1 .. Len(t) : f[i] = j
        /\ \A x \in Store!CompleteExchanges(s) : x[1] \in K <=> x[2] \in K
  BY PrunedRows
<1>3. PICK f \in [1 .. Len(t) -> K] :
        /\ \A i \in 1 .. Len(t) : t[i] = s[f[i]]
        /\ \A i, j \in 1 .. Len(t) : i < j => f[i] < f[j]
        /\ \A j \in K : \E i \in 1 .. Len(t) : f[i] = j
        /\ \A x \in Store!CompleteExchanges(s) : x[1] \in K <=> x[2] \in K
  BY <1>2
<1> HIDE DEF t
<1>4. \A i \in 1 .. Len(t) : f[i] \in K /\ f[i] \in 1 .. Len(s) /\ t[i] = s[f[i]]
  BY <1>3
<1>5. Ordered(t)
  BY <1>3, <1>4 DEF Ordered
<1>6. Answered(t)
  <2> SUFFICES ASSUME NEW j \in 1 .. Len(t), Store!Completed(t[j], "assistant")
               PROVE  \E i \in 1 .. Len(t) : Asks(t, i, j)
    BY DEF Answered
  <2>1. PICK a \in 1 .. Len(s) : Asks(s, a, f[j])
    BY <1>4 DEF Answered
  <2>2. <<a, f[j]>> \in Store!CompleteExchanges(s)
    <3>1. /\ a < f[j] /\ Store!Completed(s[a], "user")
          /\ Store!Completed(s[f[j]], "assistant")
          /\ \A k \in (a + 1) .. (f[j] - 1) :
               ~Store!Completed(s[k], "user") /\ ~Store!Completed(s[k], "assistant")
      BY <1>4, <2>1 DEF Asks, Store!Completed
    <3> QED
      BY <1>4, <3>1 DEF Store!CompleteExchanges
  <2>3. a \in K
    BY <1>3, <1>4, <2>2
  <2>4. PICK i \in 1 .. Len(t) : f[i] = a
    BY <1>3, <2>3
  <2>5. i < j
    <3> SUFFICES ASSUME j <= i PROVE FALSE
      BY <1>1
    <3>1. f[j] <= f[i]
      BY <1>1, <1>3, <1>4
    <3> QED
      BY <1>4, <2>1, <2>4, <3>1 DEF Asks
  <2>6. ASSUME NEW k \in (i + 1) .. (j - 1) PROVE t[k].status # "completed"
    <3>1. k \in 1 .. Len(t) /\ i < k /\ k < j
      BY <1>1
    <3>2. f[i] < f[k] /\ f[k] < f[j]
      BY <1>3, <3>1
    <3>3. f[k] \in (a + 1) .. (f[j] - 1)
      BY <1>4, <2>4, <3>1, <3>2
    <3> QED
      BY <1>4, <2>1, <3>1, <3>3 DEF Asks
  <2>7. Asks(t, i, j)
    BY <1>4, <2>1, <2>4, <2>5, <2>6 DEF Asks
  <2> QED
    BY <2>7
<1> QED
  BY <1>5, <1>6 DEF t

(* What a handler goes on with has been its own before.                    *)
GoesOn(h, g) ==
  /\ LocalsOf(g)
  /\ Asking(g) => Asking(h) /\ g.conv = h.conv
  /\ g.phase = "writing" =>
       h.phase = "writing" /\ g.conv = h.conv /\ g.last = h.last

LEMMA HandlersGoOn ==
  ASSUME TypeOK, LocalsOK, NEW r \in Request,
         \/ DenyAccess(r) \/ GetHistory(r) \/ EndStream(r) \/ Deadline(r)
         \/ Disconnect(r) \/ StoreRaises(r) \/ ReleaseRequest(r)
         \/ \E event \in {"completed", "failed"} : Generate(r, event)
         \/ AcquireRequest(r)
         \/ \E c \in Conversation, id \in RequestId : GetScope(r, c, id)
  PROVE  \A q \in Request : GoesOn(req[q], req'[q])
<1> DEFINE h == req[r]
<1>1. h \in Handler /\ LocalsOf(h) /\ req \in [Request -> Handler]
  BY DEF TypeOK, LocalsOK
<1>2. \A q \in Request : GoesOn(req[q], req[q])
  BY DEF GoesOn, LocalsOK
<1>3. ASSUME NEW g, req' = [req EXCEPT ![r] = g], GoesOn(h, g)
      PROVE  \A q \in Request : GoesOn(req[q], req'[q])
  BY <1>1, <1>2, <1>3
<1>4. GoesOn(h, Done)
  BY DEF Done, IdleHandler, GoesOn, LocalsOf, Asking, Opening, Appending
<1>5. GoesOn(h, Finally(h))
  <2>1. Finally(h).phase \in {"reading", "releasing"}
        /\ (Finally(h).phase = "reading" => Finally(h).task = "interrupted")
    BY <1>1 DEF Finally, Handler
  <2> QED
    BY <2>1 DEF GoesOn, LocalsOf, Asking, Opening, Appending
<1>6. GoesOn(h, Raised(h))
  <2>1. CASE h.task = "answer" /\ h.phase \in Appending
    BY <1>5, <2>1 DEF Raised
  <2>2. CASE h.task = "user" /\ h.phase \in Appending
    <3> DEFINE g == [h EXCEPT !.phase = "releasing", !.last = 0, !.fresh = FALSE]
    <3>1. g.phase = "releasing" /\ Raised(h) = g
      BY <1>1, <2>2 DEF Raised, Handler
    <3> HIDE DEF g
    <3> QED
      BY <3>1 DEF GoesOn, LocalsOf, Asking, Opening, Appending
  <2>3. CASE h.phase \notin Appending \/ h.task \notin {"user", "answer"}
    BY <1>4, <2>3 DEF Raised
  <2> QED
    BY <2>1, <2>2, <2>3
<1>7. ASSUME NEW event \in {"completed", "failed"}, h.phase = "streaming",
             event = "completed" => h.event = "none"
      PROVE  GoesOn(h, Receive(h, event))
  <2>1. /\ Receive(h, event).phase = "reading" /\ Receive(h, event).task = "answer"
        /\ Receive(h, event).event = event /\ Receive(h, event).conv = h.conv
    BY <1>1 DEF Receive, Handler
  <2> QED
    BY <1>7, <2>1 DEF GoesOn, LocalsOf, Asking, Opening, Appending
<1> HIDE DEF h
<1>8. CASE DenyAccess(r) \/ ReleaseRequest(r)
  BY <1>3, <1>4, <1>8 DEF DenyAccess, ReleaseRequest, Step
<1>9. CASE EndStream(r) \/ Disconnect(r)
  BY <1>3, <1>5, <1>9 DEF EndStream, Disconnect, Step, h
<1>10. CASE StoreRaises(r)
  BY <1>3, <1>6, <1>10 DEF StoreRaises, Step, h
<1>11. CASE Deadline(r)
  <2>1. CASE h.phase = "streaming" /\ Step(r, Receive(h, "failed"))
    BY <1>3, <1>7, <2>1 DEF Step
  <2>2. CASE Step(r, Finally(h))
    BY <1>3, <1>5, <2>2 DEF Step
  <2> QED
    BY <1>11, <2>1, <2>2 DEF Deadline, h
<1>12. ASSUME NEW event \in {"completed", "failed"}, Generate(r, event)
       PROVE  \A q \in Request : GoesOn(req[q], req'[q])
  BY <1>3, <1>7, <1>12 DEF Generate, Step, h
<1>13. CASE GetHistory(r)
  <2> DEFINE g == IF conv[h.conv].state = "active"
                  THEN [h EXCEPT !.phase = "reading", !.task = "user"]
                  ELSE [h EXCEPT !.phase = "releasing"]
  <2>1. h.event = "none"
    BY <1>1, <1>13 DEF GetHistory, LocalsOf, Opening, h
  <2>2. /\ g.phase \in {"reading", "releasing"} /\ g.event = "none"
        /\ g.phase = "reading" => g.task = "user"
    BY <1>1, <2>1 DEF Handler
  <2>3. req' = [req EXCEPT ![r] = g]
    BY <1>13 DEF GetHistory, Step, h
  <2> HIDE DEF g
  <2>4. GoesOn(h, g)
    BY <2>2 DEF GoesOn, LocalsOf, Asking, Opening, Appending
  <2> QED
    BY <1>3, <2>3, <2>4
<1>14. CASE AcquireRequest(r)
  <2> DEFINE g == [h EXCEPT !.phase = "held"]
  <2>1. h.event = "none"
    BY <1>1, <1>14 DEF AcquireRequest, LocalsOf, Opening, h
  <2>2. g.phase = "held" /\ g.event = "none"
    BY <1>1, <2>1 DEF Handler
  <2>3. req' = [req EXCEPT ![r] = g] \/ req' = [req EXCEPT ![r] = Done]
    BY <1>14 DEF AcquireRequest, Step, h
  <2> HIDE DEF g
  <2>4. GoesOn(h, g)
    BY <2>2 DEF GoesOn, LocalsOf, Asking, Opening, Appending
  <2> QED
    BY <1>3, <1>4, <2>3, <2>4
<1>15. ASSUME NEW c \in Conversation, NEW id \in RequestId, GetScope(r, c, id)
       PROVE  \A q \in Request : GoesOn(req[q], req'[q])
  <2> DEFINE g == [h EXCEPT !.phase = "scoped", !.conv = c, !.id = id]
  <2>1. h.event = "none"
    BY <1>1, <1>15 DEF GetScope, LocalsOf, Opening, h
  <2>2. g.phase = "scoped" /\ g.event = "none"
    BY <1>1, <2>1 DEF Handler
  <2>3. req' = [req EXCEPT ![r] = g]
    BY <1>15 DEF GetScope, Step, h
  <2> HIDE DEF g
  <2>4. GoesOn(h, g)
    BY <2>2 DEF GoesOn, LocalsOf, Asking, Opening, Appending
  <2> QED
    BY <1>3, <2>3, <2>4
<1> QED
  BY <1>8, <1>9, <1>10, <1>11, <1>12, <1>13, <1>14, <1>15

(* A conversation starts without rows, and they stay while it exists.      *)
RowsStay ==
  /\ \A c \in Conversation : Exists(c)' =>
       IF conv[c].state = "none" THEN rows'[c] = <<>>
                                 ELSE Exists(c) /\ rows'[c] = rows[c]
  /\ disturbed \subseteq disturbed'

LEMMA HandlersOf ==
  ASSUME TypeOK, PlaceOK, KnownOK, NEW r \in Request,
         Asking(req[r]) \/ req[r].phase = "writing"
  PROVE  req[r].conv \in Conversation /\ conv[req[r].conv].state # "none" /\ Holding(r)
BY DEF Asking, PlaceOK, KnownOK, Holding

LEMMA QuietStep ==
  ASSUME IInv, ExchangeInv, RowsStay, \A q \in Request : GoesOn(req[q], req'[q])
  PROVE  ExchangeInv'
<1>1. TypeOK /\ PlaceOK /\ KnownOK /\ (Undisturbed' => Undisturbed)
  BY DEF IInv, RowsStay, Undisturbed
<1>2. LocalsOK'
  BY DEF GoesOn, LocalsOK
<1>3. OrderOK'
  <2>1. Ordered(<<>>) /\ Answered(<<>>)
    BY DEF Ordered, Answered
  <2>2. ASSUME Undisturbed', NEW c \in Conversation, Exists(c)'
        PROVE  Ordered(rows'[c]) /\ Answered(rows'[c])
    <3>1. CASE conv[c].state = "none"
      BY <2>1, <2>2, <3>1 DEF RowsStay
    <3>2. CASE conv[c].state # "none"
      <4>1. Exists(c) /\ rows'[c] = rows[c]
        BY <2>2, <3>2 DEF RowsStay
      <4> QED
        BY <1>1, <2>2, <4>1 DEF OrderOK, ExchangeInv
    <3> QED
      BY <3>1, <3>2
  <2> QED
    BY <2>2 DEF OrderOK
<1>4. AskedOK'
  <2> SUFFICES ASSUME Undisturbed', NEW r \in Request, Asking(req'[r]),
                      conv'[req'[r].conv].state \in {"active", "archived"}
               PROVE  Pending(rows'[req'[r].conv], r)
    BY DEF AskedOK, Exists
  <2>1. Asking(req[r]) /\ req'[r].conv = req[r].conv
    BY DEF GoesOn
  <2>2. req[r].conv \in Conversation /\ conv[req[r].conv].state # "none"
    BY <1>1, <2>1, HandlersOf
  <2>3. Exists(req[r].conv) /\ rows'[req[r].conv] = rows[req[r].conv]
    BY <2>1, <2>2 DEF RowsStay, Exists
  <2> QED
    BY <1>1, <2>1, <2>3 DEF ExchangeInv, AskedOK
<1>5. LastOK'
  <2>1. ASSUME NEW d \in Conversation, rows'[d] = rows[d]
        PROVE  LastOrdinal(d)' = LastOrdinal(d)
    BY <2>1 DEF LastOrdinal
  <2>2. ASSUME Undisturbed', NEW r \in Request, req'[r].phase = "writing",
               NEW d, d = req'[r].conv, Exists(d)'
        PROVE  req'[r].last = LastOrdinal(d)'
    <3>1. req[r].phase = "writing" /\ req[r].conv = d /\ req'[r].last = req[r].last
      BY <2>2 DEF GoesOn
    <3>2. d \in Conversation /\ conv[d].state # "none"
      BY <1>1, <3>1, HandlersOf
    <3>3. Exists(d) /\ rows'[d] = rows[d]
      BY <2>2, <3>2 DEF RowsStay
    <3> QED
      BY <1>1, <2>1, <2>2, <3>1, <3>2, <3>3 DEF ExchangeInv, LastOK
  <2> QED
    BY <2>2 DEF LastOK, Exists, LastOrdinal
<1> QED
  BY <1>2, <1>3, <1>4, <1>5 DEF ExchangeInv

LEMMA LastKept ==
  ASSUME \A q \in Request : \A d :
           Undisturbed' /\ req'[q].phase = "writing" /\ d = req'[q].conv /\ Exists(d)' =>
             req'[q].last = LastOrdinal(d)'
  PROVE  LastOK'
BY ZenonT(40) DEF LastOK, Exists, LastOrdinal

LEMMA ReadStep ==
  ASSUME IInv, ExchangeInv, NEW r \in Request, ReadForAppend(r)
  PROVE  ExchangeInv'
<1> DEFINE h == req[r]
           c == h.conv
           g == [h EXCEPT !.phase = "writing", !.last = LastOrdinal(c),
                          !.fresh = conv[c].name = "new"]
<1>1. /\ TypeOK /\ PlaceOK /\ KnownOK /\ LocalsOf(h) /\ h \in Handler /\ h.phase = "reading"
      /\ UNCHANGED <<conv, rows, disturbed>> /\ req \in [Request -> Handler]
      /\ c \in Conversation
  BY DEF IInv, TypeOK, PlaceOK, ExchangeInv, LocalsOK, ReadForAppend
<1>2. \A q \in Request : GoesOn(req[q], req[q])
  BY DEF GoesOn, LocalsOK, ExchangeInv
<1>3. RowsStay
  BY <1>1 DEF RowsStay, Exists
<1>4. CASE req' = [req EXCEPT ![r] = Raised(h)]
  <2>1. StoreRaises(r)
    BY <1>1, <1>4 DEF ReadForAppend, StoreRaises, Step, Appending
  <2>2. \A q \in Request : GoesOn(req[q], req'[q])
    BY <1>1, <2>1, HandlersGoOn DEF ExchangeInv
  <2> QED
    BY <1>3, <2>2, QuietStep
<1>5. CASE req' = [req EXCEPT ![r] = g]
  <2>1. /\ g.phase = "writing" /\ g.last = LastOrdinal(c) /\ g.conv = c
        /\ g.task = h.task /\ g.event = h.event
    BY <1>1 DEF Handler
  <2> HIDE DEF g
  <2>2. LocalsOf(g) /\ (Asking(g) => Asking(h))
    BY <1>1, <2>1 DEF LocalsOf, Asking, Opening, Appending
  <2>3. /\ req'[r] = g /\ \A q \in Request \ {r} : req'[q] = req[q]
    BY <1>1, <1>5
  <2>4. LocalsOK' /\ OrderOK' /\ AskedOK'
    BY <1>1, <2>1, <2>2, <2>3 DEF LocalsOK, OrderOK, AskedOK, ExchangeInv, Undisturbed, Exists
  <2>5. \A d \in Conversation : LastOrdinal(d)' = LastOrdinal(d)
    BY <1>1 DEF LastOrdinal
  <2>6. ASSUME Undisturbed', NEW q \in Request, req'[q].phase = "writing",
               NEW d, d = req'[q].conv, Exists(d)'
        PROVE  req'[q].last = LastOrdinal(d)'
    <3>1. CASE q = r
      BY <1>1, <2>1, <2>3, <2>5, <2>6, <3>1
    <3>2. CASE q # r
      <4>1. req'[q] = req[q] /\ d \in Conversation
        BY <1>1, <2>3, <2>6, <3>2, HandlersOf
      <4> QED
        BY <1>1, <2>5, <2>6, <4>1 DEF ExchangeInv, LastOK, Undisturbed, Exists
    <3> QED
      BY <3>1, <3>2
  <2>7. LastOK'
    BY <2>6, LastKept
  <2> QED
    BY <2>4, <2>7 DEF ExchangeInv
<1> QED
  BY <1>4, <1>5 DEF ReadForAppend, Step

(* A request writes to the rows of the conversation that it holds alone.   *)
LEMMA WriteStep ==
  ASSUME IInv, ExchangeInv, NEW r \in Request, NEW c \in Conversation, NEW g \in Handler,
         c = req[r].conv, Holding(r), Exists(c),
         req' = [req EXCEPT ![r] = g], disturbed \subseteq disturbed',
         \A d \in Conversation \ {c} : rows'[d] = rows[d],
         \A d \in Conversation : conv'[d].state = conv[d].state,
         LocalsOf(g), g.phase # "writing", Asking(g) => g.conv = c,
         Undisturbed => /\ Ordered(rows'[c]) /\ Answered(rows'[c])
                        /\ Asking(g) => Pending(rows'[c], r)
  PROVE  ExchangeInv'
<1>1. /\ TypeOK /\ PlaceOK /\ KnownOK /\ OneWriter /\ (Undisturbed' => Undisturbed)
      /\ req \in [Request -> Handler]
  BY DEF IInv, TypeOK, Undisturbed
<1>2. req'[r] = g /\ \A q \in Request \ {r} : req'[q] = req[q]
  BY <1>1
<1>3. LocalsOK' /\ OrderOK'
  BY <1>1, <1>2 DEF LocalsOK, OrderOK, ExchangeInv, Exists
<1>4. ASSUME Undisturbed', NEW q \in Request \ {r}, Asking(req[q]) \/ req[q].phase = "writing"
      PROVE  req[q].conv \in Conversation \ {c}
  <2>1. Holding(q) /\ req[q].conv \in Conversation
    BY <1>1, <1>4, HandlersOf
  <2> QED
    BY <1>1, <1>4, <2>1 DEF OneWriter
<1>5. ASSUME Undisturbed', NEW q \in Request, Asking(req'[q]), NEW d, d = req'[q].conv, Exists(d)'
      PROVE  Pending(rows'[d], q)
  <2>1. CASE q = r
    BY <1>1, <1>2, <1>5, <2>1
  <2>2. CASE q # r
    <3>1. req'[q] = req[q] /\ d \in Conversation \ {c}
      BY <1>2, <1>4, <1>5, <2>2
    <3>2. Exists(d) /\ rows'[d] = rows[d]
      BY <1>5, <3>1 DEF Exists
    <3> QED
      BY <1>1, <1>5, <3>1, <3>2 DEF ExchangeInv, AskedOK
  <2> QED
    BY <2>1, <2>2
<1>6. ASSUME Undisturbed', NEW q \in Request, req'[q].phase = "writing",
             NEW d, d = req'[q].conv, Exists(d)'
      PROVE  req'[q].last = LastOrdinal(d)'
  <2>1. q # r
    BY <1>2, <1>6
  <2>2. req'[q] = req[q] /\ d \in Conversation \ {c}
    BY <1>2, <1>4, <1>6, <2>1
  <2>3. rows'[d] = rows[d] /\ conv'[d].state = conv[d].state
    BY <2>2
  <2>4. LastOrdinal(d)' = LastOrdinal(d)
    BY <2>3 DEF LastOrdinal
  <2>5. Exists(d)
    BY <1>6, <2>3 DEF Exists
  <2> QED
    BY <1>1, <1>6, <2>2, <2>4, <2>5 DEF ExchangeInv, LastOK
<1>7. AskedOK'
  BY <1>5 DEF AskedOK, Exists
<1>8. LastOK'
  BY <1>6, LastKept
<1> QED
  BY <1>3, <1>7, <1>8 DEF ExchangeInv

LEMMA AppendStep ==
  ASSUME IInv, ExchangeInv, NEW r \in Request, WriteForAppend(r)
  PROVE  ExchangeInv'
<1> DEFINE h == req[r]
           c == h.conv
           m == NewMessage(h, r)
           g == Appended(h)
<1>1. /\ TypeOK /\ PlaceOK /\ KnownOK /\ LocalsOf(h) /\ h \in Handler /\ h.phase = "writing"
      /\ c \in Conversation /\ Holding(r) /\ rows \in [Conversation -> Seq(MessageRow)]
      /\ conv \in [Conversation -> ConversationRow] /\ rows[c] \in Seq(MessageRow)
      /\ DOMAIN rows[c] = 1 .. Len(rows[c])
  BY DEF IInv, TypeOK, PlaceOK, ExchangeInv, LocalsOK, WriteForAppend, Holding
<1>2. CASE ~Exists(c)
  <2>1. StoreRaises(r) /\ UNCHANGED <<rows, conv, disturbed>>
    BY <1>1, <1>2 DEF WriteForAppend, StoreRaises, Appending
  <2>2. RowsStay
    BY <2>1 DEF RowsStay, Exists
  <2>3. \A q \in Request : GoesOn(req[q], req'[q])
    BY <1>1, <2>1, HandlersGoOn DEF ExchangeInv
  <2> QED
    BY <2>2, <2>3, QuietStep
<1>3. CASE Exists(c)
  <2>1. /\ rows' = [rows EXCEPT ![c] = Inserted(rows[c], m)]
        /\ conv' = conv \/ conv' = [conv EXCEPT ![c] = [@ EXCEPT !.name = "derived"]]
        /\ disturbed \subseteq disturbed'
        /\ req' = [req EXCEPT ![r] = g]
    BY <1>3 DEF WriteForAppend, Step
  <2>2. \A d \in Conversation : conv'[d].state = conv[d].state
    <3>1. conv[c] \in ConversationRow
      BY <1>1
    <3>2. [conv[c] EXCEPT !.name = "derived"].state = conv[c].state
      BY <3>1 DEF ConversationRow
    <3> QED
      BY <1>1, <2>1, <3>2
  <2>3. h.task \in {"user", "answer", "interrupted"} /\ (h.task = "user" => h.event = "none")
        /\ (h.task = "answer" => h.event # "none")
    BY <1>1 DEF LocalsOf, Appending
  <2>4. /\ g \in Handler /\ g.conv = c
        /\ IF h.task = "user" THEN g.phase = "streaming" /\ g.event = "none"
           ELSE g.phase = "pruning" /\ g.task = h.task /\ g.event = h.event
    BY <1>1, <2>3 DEF Appended, Handler, Phase, Opening, Appending
  <2>5. /\ LocalsOf(g) /\ g.phase # "writing"
        /\ Asking(g) => h.task = "user"
    BY <2>3, <2>4 DEF LocalsOf, Asking, Opening, Appending
  <2>6. /\ m \in MessageRow /\ m.by = r /\ m.ordinal = h.last + 1 /\ h.last \in Nat
        /\ Store!Completed(m, "assistant") => h.task = "answer" /\ h.event = "completed"
        /\ h.task = "user" => Store!Completed(m, "user")
    BY <1>1, <2>3 DEF NewMessage, MessageRow, Handler, Store!Completed
  <2> HIDE DEF m, g
  <2>7. ASSUME Undisturbed
        PROVE  /\ Ordered(rows'[c]) /\ Answered(rows'[c])
               /\ Asking(g) => Pending(rows'[c], r)
    <3>1. h.last = LastOrdinal(c) /\ Ordered(rows[c]) /\ Answered(rows[c])
      BY <1>1, <1>3, <2>7 DEF ExchangeInv, LastOK, OrderOK
    <3>2. \A i \in 1 .. Len(rows[c]) :
            rows[c][i].ordinal < m.ordinal /\ rows[c][i].ordinal <= m.ordinal
      <4> TAKE i \in 1 .. Len(rows[c])
      <4>1. rows[c][i] \in MessageRow
        BY <1>1, ElementOfSeq
      <4>2. rows[c][i].ordinal \in Nat /\ rows[c][i].ordinal <= h.last
        BY <1>1, <3>1, <4>1, LastOrdinalGreatest DEF MessageRow
      <4> QED
        BY <2>6, <4>2
    <3>3. rows'[c] = Append(rows[c], m)
      BY <1>1, <2>1, <2>6, <3>2, InsertedLast
    <3>4. Store!Completed(m, "assistant") => Pending(rows[c], m.by)
      <4> SUFFICES ASSUME Store!Completed(m, "assistant") PROVE Pending(rows[c], r)
        BY <2>6
      <4>1. Asking(h)
        BY <1>1, <2>6 DEF Asking
      <4> QED
        BY <1>1, <1>3, <2>7, <4>1 DEF ExchangeInv, AskedOK
    <3>5. /\ Ordered(Append(rows[c], m)) /\ Answered(Append(rows[c], m))
          /\ Store!Completed(m, "user") => Pending(Append(rows[c], m), m.by)
      BY <1>1, <2>6, <3>1, <3>2, <3>4, AppendAnswered
    <3> QED
      BY <2>5, <2>6, <3>3, <3>5
  <2>8. \A d \in Conversation \ {c} : rows'[d] = rows[d]
    BY <1>1, <2>1
  <2> HIDE DEF c
  <2> QED
    BY <1>1, <1>3, <2>1, <2>2, <2>4, <2>5, <2>7, <2>8, WriteStep DEF c
<1> QED
  BY <1>2, <1>3

LEMMA PruneStep ==
  ASSUME IInv, ExchangeInv, NEW r \in Request, Prune(r)
  PROVE  ExchangeInv'
<1> DEFINE h == req[r]
           c == h.conv
           g == IF h.task = "answer"
                THEN [h EXCEPT !.phase = "streaming", !.terminal = TRUE, !.task = "none"]
                ELSE [h EXCEPT !.phase = "releasing", !.task = "none"]
<1>1. /\ TypeOK /\ PlaceOK /\ AbsentOK /\ LocalsOf(h) /\ h \in Handler /\ h.phase = "pruning"
      /\ c \in Conversation /\ Holding(r) /\ rows \in [Conversation -> Seq(MessageRow)]
      /\ rows[c] \in Seq(MessageRow)
  BY DEF IInv, TypeOK, PlaceOK, ExchangeInv, LocalsOK, Prune, Holding
<1>2. /\ rows' = [rows EXCEPT ![c] = Store!Pruned(rows[c])]
      /\ req' = [req EXCEPT ![r] = g] /\ UNCHANGED <<conv, disturbed>>
  BY DEF Prune, Step
<1>3. /\ g \in Handler /\ g.conv = c /\ g.event = h.event
      /\ g.phase = "releasing" \/ (g.phase = "streaming" /\ h.task = "answer")
  <2>1. CASE h.task = "answer"
    BY <1>1, <2>1 DEF Handler, Phase, Opening, Appending
  <2>2. CASE h.task # "answer"
    BY <1>1, <2>2 DEF Handler, Phase, Opening, Appending
  <2> QED
    BY <2>1, <2>2
<1>4. h.task = "answer" => h.event # "none"
  BY <1>1 DEF LocalsOf, Appending
<1> HIDE DEF g
<1>5. LocalsOf(g) /\ ~Asking(g) /\ g.phase # "writing"
  BY <1>3, <1>4 DEF LocalsOf, Asking, Opening, Appending
<1>6. \A d \in Conversation \ {c} : rows'[d] = rows[d]
  BY <1>1, <1>2
<1>7. CASE Exists(c)
  <2>1. Undisturbed => Ordered(rows'[c]) /\ Answered(rows'[c])
    BY <1>1, <1>2, <1>7, PrunedAnswered DEF ExchangeInv, OrderOK
  <2> HIDE DEF c
  <2> QED
    BY <1>1, <1>2, <1>3, <1>5, <1>6, <1>7, <2>1, WriteStep DEF c
<1>8. CASE ~Exists(c)
  <2>3. \A d \in Conversation : Exists(d)' => Exists(d) /\ d # c
    BY <1>2, <1>8 DEF Exists
  <2> HIDE DEF c
  <2>4. RowsStay
    BY <1>2, <1>6, <2>3 DEF RowsStay, Exists
  <2>5. \A q \in Request : GoesOn(req[q], req'[q])
    BY <1>1, <1>2, <1>5 DEF GoesOn, ExchangeInv, LocalsOK, TypeOK
  <2> QED
    BY <2>4, <2>5, QuietStep
<1> QED
  BY <1>7, <1>8

LEMMA ExchangeNext ==
  ASSUME IInv, ExchangeInv, [Next]_vars
  PROVE  ExchangeInv'
<1>0. TypeOK /\ PlaceOK /\ AbsentOK /\ KnownOK /\ LocalsOK
  BY DEF IInv, ExchangeInv
<1>1. conv \in [Conversation -> ConversationRow] /\ rows \in [Conversation -> Seq(MessageRow)]
  BY <1>0 DEF TypeOK
<1>2. \A q \in Request : GoesOn(req[q], req[q])
  BY <1>0 DEF GoesOn, LocalsOK
<1>3. UNCHANGED <<rows, disturbed>> /\ (\A c \in Conversation : conv'[c].state = conv[c].state)
        => RowsStay
  BY DEF RowsStay, Exists
<1>4. ASSUME NEW c \in Conversation, Deleted(c), disturbed \subseteq disturbed' PROVE RowsStay
  <2>1. PICK state \in {"gone", "left"} : \E t \in Seq(MessageRow) :
          conv' = [conv EXCEPT ![c] = NewRow(state)] /\ rows' = [rows EXCEPT ![c] = t]
    BY <1>4 DEF Deleted
  <2>2. NewRow(state).state = state
    BY NewRowIs
  <2>3. /\ conv'[c].state \in {"gone", "left"}
        /\ \A d \in Conversation \ {c} : conv'[d] = conv[d] /\ rows'[d] = rows[d]
    BY <1>1, <2>1, <2>2
  <2> QED
    BY <1>4, <2>3 DEF RowsStay, Exists
<1>5. ASSUME NEW c \in Conversation, Create(c) \/ Cleanup(c) \/ DeleteProject(c)
      PROVE  ExchangeInv'
  <2>1. ASSUME Create(c) PROVE RowsStay
    <3>1. /\ conv[c].state = "none" /\ rows[c] = <<>> /\ UNCHANGED <<rows, disturbed>>
          /\ \A d \in Conversation \ {c} : conv'[d] = conv[d]
      BY <1>0, <1>1, <2>1 DEF Create, AbsentOK, Exists
    <3> QED
      BY <3>1 DEF RowsStay, Exists
  <2>2. ASSUME Cleanup(c) \/ DeleteProject(c) PROVE RowsStay
    <3>1. Delete(c, {}) /\ UNCHANGED disturbed
      BY <2>2 DEF Cleanup, DeleteProject, Remove
    <3> QED
      BY <1>0, <1>4, <3>1, DeleteIs
  <2>3. UNCHANGED req
    BY <1>5 DEF Create, Cleanup, DeleteProject, Remove
  <2>4. RowsStay
    BY <1>5, <2>1, <2>2
  <2> QED
    BY <1>2, <2>3, <2>4, QuietStep
<1>6. ASSUME NEW e \in Editor, WriteEdit(e) PROVE ExchangeInv'
  <2> DEFINE c == edit[e].conv
  <2>1. /\ c \in Conversation /\ disturbed \subseteq disturbed' /\ UNCHANGED req
        /\ \/ UNCHANGED <<conv, rows, disturbed>>
           \/ Exists(c) /\ (Deleted(c) \/ Edited(c))
    BY <1>0, <1>6, WriteIs
  <2>2. ASSUME UNCHANGED <<conv, rows, disturbed>> PROVE RowsStay
    BY <1>3, <2>2
  <2>3. ASSUME Exists(c), Edited(c) PROVE RowsStay
    <3>1. PICK row \in ConversationRow : conv' = [conv EXCEPT ![c] = row] /\ rows' = rows
      BY <2>3 DEF Edited
    <3> HIDE DEF c
    <3>2. \A d \in Conversation \ {c} : conv'[d] = conv[d]
      BY <1>1, <2>1, <3>1
    <3> QED
      BY <2>1, <2>3, <3>1, <3>2 DEF RowsStay, Exists
  <2>4. RowsStay
    BY <1>4, <2>1, <2>2, <2>3
  <2> QED
    BY <1>2, <2>1, <2>4, QuietStep
<1>7. ASSUME NEW c \in Conversation, LeaseLapses(c) PROVE ExchangeInv'
  <2>1. \A d \in Conversation : conv'[d].state = conv[d].state
    BY <1>1, <1>7 DEF LeaseLapses, ConversationRow
  <2>2. disturbed \subseteq disturbed' /\ UNCHANGED <<rows, req>>
    BY <1>7 DEF LeaseLapses
  <2>3. RowsStay
    BY <2>1, <2>2 DEF RowsStay, Exists
  <2> QED
    BY <1>2, <2>2, <2>3, QuietStep
<1>8. ASSUME NEW r \in Request, AcquireRequest(r) PROVE ExchangeInv'
  <2>1. req[r].conv \in Conversation
    BY <1>0, <1>8 DEF AcquireRequest, PlaceOK
  <2>2. \A d \in Conversation : conv'[d].state = conv[d].state
    <3> DEFINE c == req[r].conv
               row == [[conv[c] EXCEPT !.holder = req[r].id] EXCEPT !.live = TRUE]
    <3>1. row.state = conv[c].state
      BY <1>1, <2>1 DEF ConversationRow
    <3>2. conv' = conv \/ conv' = [conv EXCEPT ![c] = row]
      BY <1>1, <1>8, <2>1 DEF AcquireRequest
    <3> HIDE DEF row, c
    <3> QED
      BY <1>1, <2>1, <3>1, <3>2 DEF c
  <2>3. disturbed \subseteq disturbed' /\ UNCHANGED rows
    BY <1>8 DEF AcquireRequest
  <2>4. RowsStay
    BY <2>2, <2>3 DEF RowsStay, Exists
  <2> QED
    BY <1>0, <1>8, <2>4, HandlersGoOn, QuietStep
<1>9. ASSUME NEW r \in Request, ReleaseRequest(r) PROVE ExchangeInv'
  <2>1. req[r].conv \in Conversation
    BY <1>0, <1>9 DEF ReleaseRequest, PlaceOK
  <2>2. \A d \in Conversation : conv'[d].state = conv[d].state
    BY <1>1, <1>9, <2>1 DEF ReleaseRequest, ConversationRow
  <2>3. RowsStay
    BY <1>3, <1>9, <2>2 DEF ReleaseRequest
  <2> QED
    BY <1>0, <1>9, <2>3, HandlersGoOn, QuietStep
<1>10. ASSUME NEW r \in Request,
              \/ DenyAccess(r) \/ GetHistory(r) \/ EndStream(r)
              \/ Deadline(r) \/ Disconnect(r) \/ StoreRaises(r)
              \/ \E event \in {"completed", "failed"} : Generate(r, event)
              \/ \E c \in Conversation, id \in RequestId : GetScope(r, c, id)
       PROVE  ExchangeInv'
  <2>1. UNCHANGED <<conv, rows, disturbed>>
    BY <1>10 DEF DenyAccess, GetHistory, EndStream, Deadline, Disconnect, StoreRaises,
                 Generate, GetScope
  <2>2. RowsStay
    BY <1>3, <2>1
  <2>3. \A q \in Request : GoesOn(req[q], req'[q])
    BY <1>0, <1>10, HandlersGoOn
  <2> QED
    BY <2>2, <2>3, QuietStep
<1>11. CASE Crash
  <2>1. \A h : GoesOn(h, Done)
    BY DEF Done, IdleHandler, GoesOn, LocalsOf, Asking, Opening, Appending
  <2>2. \A q \in Request : GoesOn(req[q], req'[q])
    BY <1>2, <1>11, <2>1 DEF Crash
  <2>3. RowsStay
    BY <1>3, <1>11 DEF Crash
  <2> QED
    BY <2>2, <2>3, QuietStep
<1>12. CASE \/ UNCHANGED vars
            \/ \E e \in Editor, op \in Operation, c \in Conversation : CheckEdit(e, op, c)
  <2>1. UNCHANGED <<conv, rows, req, disturbed>>
    BY <1>12 DEF vars, CheckEdit
  <2> QED
    BY <1>2, <1>3, <2>1, QuietStep
<1> QED
  BY <1>5, <1>6, <1>7, <1>8, <1>9, <1>10, <1>11, <1>12, ReadStep, AppendStep, PruneStep
  DEF Next, Proceed

(* Unless a lease lapsed under a request or two came with the same id, the *)
(* ordinals of a conversation are used once, and every exchange that is    *)
(* handed to the agent, counted and pruned is a question and its answer.   *)
THEOREM ExchangesAreWhole == Spec => []ExchangesWhole
<1>1. Init => ExchangeInv
  <2>1. Ordered(<<>>) /\ Answered(<<>>)
    BY DEF Ordered, Answered
  <2>2. LocalsOf(IdleHandler) /\ ~Asking(IdleHandler) /\ IdleHandler.phase = "idle"
    BY DEF IdleHandler, LocalsOf, Asking, Opening, Appending
  <2> QED
    BY <2>1, <2>2 DEF Init, ExchangeInv, LocalsOK, OrderOK, AskedOK, LastOK
<1>2. IInv /\ ExchangeInv /\ [Next]_vars => ExchangeInv'
  BY ExchangeNext
<1>3. IInv /\ ExchangeInv => ExchangesWhole
  <2> SUFFICES ASSUME IInv, ExchangeInv, Undisturbed, NEW c \in Conversation, Exists(c)
               PROVE  /\ \A i, j \in DOMAIN rows[c] :
                           rows[c][i].ordinal = rows[c][j].ordinal => i = j
                      /\ \A x \in Store!CompleteExchanges(rows[c]) :
                           rows[c][x[1]].by = rows[c][x[2]].by
    BY DEF ExchangesWhole
  <2>1. /\ rows[c] \in Seq(MessageRow) /\ Ordered(rows[c]) /\ Answered(rows[c])
        /\ Len(rows[c]) \in Nat /\ DOMAIN rows[c] = 1 .. Len(rows[c])
    BY DEF IInv, TypeOK, ExchangeInv, OrderOK
  <2>2. \A i \in 1 .. Len(rows[c]) : rows[c][i].ordinal \in Nat
    <3> TAKE i \in 1 .. Len(rows[c])
    <3>1. rows[c][i] \in MessageRow
      BY <2>1, ElementOfSeq
    <3> QED
      BY <3>1 DEF MessageRow
  <2>3. \A i, j \in DOMAIN rows[c] : rows[c][i].ordinal = rows[c][j].ordinal => i = j
    BY <2>1, <2>2 DEF Ordered
  <2>4. ASSUME NEW x \in Store!CompleteExchanges(rows[c])
        PROVE  rows[c][x[1]].by = rows[c][x[2]].by
    <3>1. /\ x[1] \in 1 .. Len(rows[c]) /\ x[2] \in 1 .. Len(rows[c]) /\ x[1] < x[2]
          /\ Store!Completed(rows[c][x[1]], "user")
          /\ Store!Completed(rows[c][x[2]], "assistant")
          /\ \A k \in (x[1] + 1) .. (x[2] - 1) :
               ~Store!Completed(rows[c][k], "user") /\ ~Store!Completed(rows[c][k], "assistant")
      BY DEF Store!CompleteExchanges
    <3>2. PICK i \in 1 .. Len(rows[c]) : Asks(rows[c], i, x[2])
      BY <2>1, <3>1 DEF Answered
    <3>3. ~(x[1] < i)
      BY <2>1, <3>1, <3>2 DEF Asks
    <3>4. ~(i < x[1])
      BY <2>1, <3>1, <3>2 DEF Asks, Store!Completed
    <3>5. i = x[1]
      BY <2>1, <3>1, <3>3, <3>4
    <3> QED
      BY <3>2, <3>5 DEF Asks
  <2> QED
    BY <2>3, <2>4
<1> QED
  BY <1>1, <1>2, <1>3, Invariant, PTL DEF Spec

------------------------------------------------------------------------------
(* What the abstract store sees of the rows.                               *)

View(s) == [i \in DOMAIN s |->
              [by |-> s[i].by, role |-> s[i].role, status |-> s[i].status]]

Item(c) == [state |-> IF conv[c].state = "left" THEN "gone" ELSE conv[c].state,
            name |-> conv[c].name,
            messages |-> IF ~Exists(c) THEN <<>> ELSE View(rows[c])]

Lease(c) == [holder |-> conv[c].holder, live |-> conv[c].live]

Items == [c \in Conversation |-> Item(c)]
Leases == [c \in Conversation |-> Lease(c)]

ItemRow == [state: {"none", "active", "archived", "gone"},
            name: {"new", "derived", "given"}, messages: Seq(Store!Message)]
LeaseRow == [holder: RequestId \cup {None}, live: BOOLEAN]

LEMMA ViewType ==
  ASSUME NEW s \in Seq(MessageRow)
  PROVE  /\ View(s) \in Seq(Store!Message)
         /\ Len(View(s)) = Len(s) /\ DOMAIN View(s) = 1 .. Len(s)
         /\ \A i \in 1 .. Len(s) : View(s)[i] =
              [by |-> s[i].by, role |-> s[i].role, status |-> s[i].status]
<1>1. Len(s) \in Nat /\ DOMAIN s = 1 .. Len(s)
  OBVIOUS
<1>2. \A i \in 1 .. Len(s) : s[i] \in MessageRow
  BY ElementOfSeq
<1>3. \A i \in 1 .. Len(s) :
        [by |-> s[i].by, role |-> s[i].role, status |-> s[i].status] \in Store!Message
  BY <1>2 DEF MessageRow, Store!Message
<1>4. View(s) \in [1 .. Len(s) -> Store!Message]
  BY <1>1, <1>3 DEF View
<1>5. View(s) \in Seq(Store!Message)
  BY <1>1, <1>4
<1>6. Len(View(s)) = Len(s)
  BY <1>1, <1>4, <1>5, LenProperties
<1> QED
  BY <1>1, <1>4, <1>5, <1>6 DEF View

ItemsOK ==
  /\ Items \in [Conversation -> ItemRow] /\ Leases \in [Conversation -> LeaseRow]
  /\ \A c \in Conversation : Items[c] = Item(c) /\ Leases[c] = Lease(c)

LEMMA ItemTypes == TypeOK => ItemsOK
<1> SUFFICES ASSUME TypeOK PROVE ItemsOK
  OBVIOUS
<1>1. ASSUME NEW c \in Conversation PROVE Item(c) \in ItemRow /\ Lease(c) \in LeaseRow
  <2>1. conv[c] \in ConversationRow /\ rows[c] \in Seq(MessageRow)
    BY DEF TypeOK
  <2>2. View(rows[c]) \in Seq(Store!Message) /\ <<>> \in Seq(Store!Message)
    BY <2>1, ViewType
  <2> QED
    BY <2>1, <2>2 DEF Item, Lease, ItemRow, LeaseRow, ConversationRow
<1> QED
  BY <1>1 DEF Items, Leases, ItemsOK

LEMMA NextItemTypes == TypeOK' => ItemsOK'
BY ItemTypes, PTL

(* A step on one conversation, and its item becomes a given one.           *)
Becomes(c, state, name, messages) ==
  /\ Item(c)' = [state |-> state, name |-> name, messages |-> messages]
  /\ \A d \in Conversation \ {c} : Item(d)' = Item(d)

LeaseBecomes(c, holder, live) ==
  /\ Lease(c)' = [holder |-> holder, live |-> live]
  /\ \A d \in Conversation \ {c} : Lease(d)' = Lease(d)

LEMMA StepTypes ==
  ASSUME TypeOK, TypeOK'
  PROVE  /\ Items \in [Conversation -> ItemRow] /\ Items' \in [Conversation -> ItemRow]
         /\ Leases \in [Conversation -> LeaseRow] /\ Leases' \in [Conversation -> LeaseRow]
         /\ \A c \in Conversation :
              /\ Items[c] = Item(c) /\ Leases[c] = Lease(c)
              /\ Items'[c] = Item(c)' /\ Leases'[c] = Lease(c)'
BY ItemTypes, NextItemTypes DEF ItemsOK

(* One field of one row is replaced.                                       *)
LEMMA FieldSet ==
  ASSUME NEW F \in [Conversation -> ItemRow], NEW G \in [Conversation -> ItemRow],
         NEW c \in Conversation, \A d \in Conversation \ {c} : G[d] = F[d]
  PROVE  /\ G[c].state = F[c].state /\ G[c].messages = F[c].messages
              => G = [F EXCEPT ![c].name = G[c].name]
         /\ G[c].name = F[c].name /\ G[c].messages = F[c].messages
              => G = [F EXCEPT ![c].state = G[c].state]
         /\ G[c].state = F[c].state /\ G[c].name = F[c].name
              => G = [F EXCEPT ![c].messages = G[c].messages]
<1> DEFINE n == G[c].name
           m == G[c].messages
           s == G[c].state
<1>1. n \in {"new", "derived", "given"} /\ m \in Seq(Store!Message)
      /\ s \in {"none", "active", "archived", "gone"}
      /\ G[c] = [state |-> s, name |-> n, messages |-> m]
  BY DEF ItemRow
<1> HIDE DEF n, m, s
<1>2. s = F[c].state /\ m = F[c].messages => G = [F EXCEPT ![c].name = n]
  BY <1>1 DEF ItemRow
<1>3. n = F[c].name /\ m = F[c].messages => G = [F EXCEPT ![c].state = s]
  BY <1>1 DEF ItemRow
<1>4. s = F[c].state /\ n = F[c].name => G = [F EXCEPT ![c].messages = m]
  BY <1>1 DEF ItemRow
<1> QED
  BY <1>1, <1>2, <1>3, <1>4

LEMMA LiveSet ==
  ASSUME NEW F \in [Conversation -> LeaseRow], NEW G \in [Conversation -> LeaseRow],
         NEW c \in Conversation, \A d \in Conversation \ {c} : G[d] = F[d],
         G[c].holder = F[c].holder
  PROVE  G = [F EXCEPT ![c].live = G[c].live]
BY DEF LeaseRow

LEMMA ItemSteps ==
  ASSUME TypeOK, TypeOK', NEW c \in Conversation,
         \A d \in Conversation \ {c} : Item(d)' = Item(d)
  PROVE  /\ Item(c)'.state = Item(c).state /\ Item(c)'.messages = Item(c).messages
              => Items' = [Items EXCEPT ![c].name = Item(c)'.name]
         /\ Item(c)'.name = Item(c).name /\ Item(c)'.messages = Item(c).messages
              => Items' = [Items EXCEPT ![c].state = Item(c)'.state]
         /\ Item(c)'.state = Item(c).state /\ Item(c)'.name = Item(c).name
              => Items' = [Items EXCEPT ![c].messages = Item(c)'.messages]
         /\ Item(c)'.state = Item(c).state
              => Items' = [Items EXCEPT ![c].messages = Item(c)'.messages,
                                        ![c].name = Item(c)'.name]
         /\ Items' = [Items EXCEPT ![c] = Item(c)']
<1> DEFINE s == Item(c)'.state
           n == Item(c)'.name
           m == Item(c)'.messages
<1>1. /\ Items \in [Conversation -> ItemRow] /\ Items' \in [Conversation -> ItemRow]
      /\ \A d \in Conversation \ {c} : Items'[d] = Items[d]
      /\ Items[c] = Item(c) /\ Items'[c] = Item(c)'
  BY StepTypes
<1>2. /\ Items'[c].state = s /\ Items'[c].name = n /\ Items'[c].messages = m
      /\ m \in Seq(Store!Message)
  BY <1>1 DEF ItemRow
<1>3. Items' = [Items EXCEPT ![c] = Item(c)']
  BY <1>1
<1> HIDE DEF s, n, m
<1>4. s = Item(c).state /\ m = Item(c).messages => Items' = [Items EXCEPT ![c].name = n]
  BY <1>1, <1>2, FieldSet
<1>5. n = Item(c).name /\ m = Item(c).messages => Items' = [Items EXCEPT ![c].state = s]
  BY <1>1, <1>2, FieldSet
<1>6. s = Item(c).state /\ n = Item(c).name => Items' = [Items EXCEPT ![c].messages = m]
  BY <1>1, <1>2, FieldSet
<1>7. ASSUME s = Item(c).state
      PROVE  Items' = [Items EXCEPT ![c].messages = m, ![c].name = n]
  <2> DEFINE H == [Items EXCEPT ![c].messages = m]
  <2>1. /\ H \in [Conversation -> ItemRow]
        /\ \A d \in Conversation \ {c} : H[d] = Items[d]
        /\ H[c].state = s /\ H[c].messages = m
    BY <1>1, <1>2, <1>7 DEF ItemRow
  <2>2. [Items EXCEPT ![c].messages = m, ![c].name = n] = [H EXCEPT ![c].name = n]
    OBVIOUS
  <2> HIDE DEF H
  <2>3. Items' = [H EXCEPT ![c].name = n]
    BY <1>1, <1>2, <2>1, FieldSet
  <2> QED
    BY <2>2, <2>3
<1> QED
  BY <1>3, <1>4, <1>5, <1>6, <1>7 DEF s, n, m

LEMMA LeaseSteps ==
  ASSUME TypeOK, TypeOK', NEW c \in Conversation,
         \A d \in Conversation \ {c} : Lease(d)' = Lease(d)
  PROVE  /\ Leases' = [Leases EXCEPT ![c] = Lease(c)']
         /\ Lease(c)'.holder = Lease(c).holder
              => Leases' = [Leases EXCEPT ![c].live = Lease(c)'.live]
<1> DEFINE l == Lease(c)'.live
<1>1. /\ Leases \in [Conversation -> LeaseRow] /\ Leases' \in [Conversation -> LeaseRow]
      /\ \A d \in Conversation \ {c} : Leases'[d] = Leases[d]
      /\ Leases[c] = Lease(c) /\ Leases'[c] = Lease(c)'
  BY StepTypes
<1>2. /\ Leases'[c].live = l /\ Leases' = [Leases EXCEPT ![c] = Lease(c)']
      /\ Lease(c)'.holder = Lease(c).holder => Leases'[c].holder = Leases[c].holder
  BY <1>1
<1> HIDE DEF l
<1>3. ASSUME Lease(c)'.holder = Lease(c).holder
      PROVE  Leases' = [Leases EXCEPT ![c].live = l]
  <2>1. Leases'[c].holder = Leases[c].holder
    BY <1>2, <1>3
  <2>2. Leases' = [Leases EXCEPT ![c].live = Leases'[c].live]
    BY <1>1, <2>1, LiveSet
  <2> QED
    BY <1>2, <2>2
<1> QED
  BY <1>2, <1>3 DEF l

(* The operations of the abstract store, in those terms.                   *)
LEMMA ItemOperations ==
  ASSUME TypeOK, TypeOK', NEW c \in Conversation, Leases' = Leases
  PROVE  /\ (Item(c).state = "none" /\ Becomes(c, "active", "new", <<>>)) => Store!Create(c)
         /\ (/\ Item(c).state = "active" /\ ~Lease(c).live
             /\ Becomes(c, "active", "given", Item(c).messages)) => Store!Rename(c)
         /\ (/\ Item(c).state = "active" /\ ~Lease(c).live
             /\ Becomes(c, "archived", Item(c).name, Item(c).messages)) => Store!Archive(c)
         /\ (/\ Item(c).state = "archived" /\ ~Lease(c).live
             /\ Becomes(c, "active", Item(c).name, Item(c).messages)) => Store!Restore(c)
         /\ (/\ Item(c).state \in {"active", "archived"}
             /\ Becomes(c, Item(c).state, Item(c).name, Store!Pruned(Item(c).messages)))
               => Store!Prune(c)
         /\ \A m : (/\ Item(c).state = "active"
                    /\ Becomes(c, "active",
                         IF m.role = "user" /\ Item(c).name = "new" THEN "derived"
                                                                   ELSE Item(c).name,
                         Append(Item(c).messages, m))) => Store!AppendMessage(c, m)
<1>0. Items[c] = Item(c) /\ Leases[c] = Lease(c)
  BY StepTypes
<1>1. ASSUME Item(c).state = "none", Becomes(c, "active", "new", <<>>)
      PROVE  Store!Create(c)
  <2>1. Items' = [Items EXCEPT ![c] = Store!NoItem("active")]
    BY <1>1, ItemSteps DEF Becomes, Store!NoItem
  <2> QED
    BY <1>0, <1>1, <2>1 DEF Items, Leases, Item, Lease, View, Store!Create
<1>2. ASSUME Item(c).state = "active", ~Lease(c).live,
             Becomes(c, "active", "given", Item(c).messages)
      PROVE  Store!Rename(c)
  <2>0. /\ Item(c)'.state = Item(c).state /\ Item(c)'.name = "given"
        /\ Item(c)'.messages = Item(c).messages
        /\ \A d \in Conversation \ {c} : Item(d)' = Item(d)
    BY <1>2 DEF Becomes
  <2>1. Items' = [Items EXCEPT ![c].name = "given"]
    BY <1>2, <2>0, ItemSteps
  <2> QED
    BY <1>0, <1>2, <2>1
    DEF Items, Leases, Item, Lease, View, Store!Rename, Store!Owned, Store!RejectLease
<1>3. ASSUME Item(c).state = "active", ~Lease(c).live,
             Becomes(c, "archived", Item(c).name, Item(c).messages)
      PROVE  Store!Archive(c)
  <2>0. /\ Item(c)'.state = "archived" /\ Item(c)'.name = Item(c).name
        /\ Item(c)'.messages = Item(c).messages
        /\ \A d \in Conversation \ {c} : Item(d)' = Item(d)
    BY <1>3 DEF Becomes
  <2>1. Items' = [Items EXCEPT ![c].state = "archived"]
    BY <1>3, <2>0, ItemSteps
  <2> QED
    BY <1>0, <1>3, <2>1
    DEF Items, Leases, Item, Lease, View, Store!Archive, Store!Owned, Store!RejectLease
<1>4. ASSUME Item(c).state = "archived", ~Lease(c).live,
             Becomes(c, "active", Item(c).name, Item(c).messages)
      PROVE  Store!Restore(c)
  <2>0. /\ Item(c)'.state = "active" /\ Item(c)'.name = Item(c).name
        /\ Item(c)'.messages = Item(c).messages
        /\ \A d \in Conversation \ {c} : Item(d)' = Item(d)
    BY <1>4 DEF Becomes
  <2>1. Items' = [Items EXCEPT ![c].state = "active"]
    BY <1>4, <2>0, ItemSteps
  <2> QED
    BY <1>0, <1>4, <2>1
    DEF Items, Leases, Item, Lease, View, Store!Restore, Store!RejectLease
<1>5. ASSUME Item(c).state \in {"active", "archived"},
             Becomes(c, Item(c).state, Item(c).name, Store!Pruned(Item(c).messages))
      PROVE  Store!Prune(c)
  <2>0. /\ Item(c)'.state = Item(c).state /\ Item(c)'.name = Item(c).name
        /\ Item(c)'.messages = Store!Pruned(Item(c).messages)
        /\ \A d \in Conversation \ {c} : Item(d)' = Item(d)
    BY <1>5 DEF Becomes
  <2>1. Items' = [Items EXCEPT ![c].messages = Store!Pruned(Item(c).messages)]
    BY <1>5, <2>0, ItemSteps
  <2>2. Items' = [Items EXCEPT ![c].messages = Store!Pruned(@)]
    BY <1>0, <2>1
  <2> QED
    BY <1>0, <1>5, <2>2 DEF Items, Leases, Item, Lease, View, Store!Prune
<1>6. ASSUME NEW m, Item(c).state = "active",
             Becomes(c, "active",
               IF m.role = "user" /\ Item(c).name = "new" THEN "derived" ELSE Item(c).name,
               Append(Item(c).messages, m))
      PROVE  Store!AppendMessage(c, m)
  <2>1. Items' = [Items EXCEPT ![c].messages = Append(Item(c).messages, m),
                    ![c].name = IF m.role = "user" /\ Item(c).name = "new"
                                THEN "derived" ELSE Item(c).name]
    BY <1>6, ItemSteps DEF Becomes
  <2>2. Items' = [Items EXCEPT ![c].messages = Append(@, m),
                    ![c].name = IF m.role = "user" /\ @ = "new" THEN "derived" ELSE @]
    <3> DEFINE H == [Items EXCEPT ![c].messages = Append(Item(c).messages, m)]
    <3>1. H[c].name = Item(c).name
      BY StepTypes DEF ItemRow
    <3> QED
      BY <1>0, <2>1, <3>1
  <2> QED
    BY <1>0, <1>6, <2>2 DEF Items, Leases, Item, Lease, View, Store!AppendMessage, Store!Owned
<1> QED
  BY <1>1, <1>2, <1>3, <1>4, <1>5, <1>6

LEMMA LeaseOperations ==
  ASSUME TypeOK, TypeOK', NEW c \in Conversation
  PROVE  /\ (/\ \A d \in Conversation \ {c} : Item(d)' = Item(d)
             /\ Item(c)' = Store!NoItem("gone") /\ LeaseBecomes(c, None, FALSE)) => Store!Remove(c)
         /\ \A id : (/\ Item(c).state = "active" /\ (Lease(c).holder = id \/ ~Lease(c).live)
                     /\ Items' = Items /\ LeaseBecomes(c, id, TRUE))
              => Store!AcquireRequest(c, id)
         /\ \A id : (/\ Lease(c).holder = id
                     /\ Items' = Items /\ LeaseBecomes(c, None, FALSE))
              => Store!ReleaseRequest(c, id)
         /\ (/\ Lease(c).live
             /\ Items' = Items /\ LeaseBecomes(c, Lease(c).holder, FALSE))
              => Store!LeaseLapses(c)
<1>0. Items[c] = Item(c) /\ Leases[c] = Lease(c)
  BY StepTypes
<1>1. ASSUME \A d \in Conversation \ {c} : Item(d)' = Item(d),
             Item(c)' = Store!NoItem("gone"), LeaseBecomes(c, None, FALSE)
      PROVE  Store!Remove(c)
  <2>1. Becomes(c, "gone", "new", <<>>)
    BY <1>1 DEF Becomes, Store!NoItem
  <2>2. /\ Items' = [Items EXCEPT ![c] = Store!NoItem("gone")]
        /\ Leases' = [Leases EXCEPT ![c] = Store!NoLease]
    BY <1>1, <2>1, ItemSteps, LeaseSteps DEF Becomes, LeaseBecomes, Store!NoItem, Store!NoLease
  <2> QED
    BY <2>2 DEF Items, Leases, Item, Lease, View, Store!Remove
<1>2. ASSUME NEW id, Item(c).state = "active", Lease(c).holder = id \/ ~Lease(c).live,
             Items' = Items, LeaseBecomes(c, id, TRUE)
      PROVE  Store!AcquireRequest(c, id)
  <2>1. Leases' = [Leases EXCEPT ![c] = [holder |-> id, live |-> TRUE]]
    BY <1>2, LeaseSteps DEF LeaseBecomes
  <2> QED
    BY <1>0, <1>2, <2>1 DEF Items, Leases, Item, Lease, View, Store!AcquireRequest, Store!Owned
<1>3. ASSUME NEW id, Lease(c).holder = id, Items' = Items, LeaseBecomes(c, None, FALSE)
      PROVE  Store!ReleaseRequest(c, id)
  <2>1. Leases' = [Leases EXCEPT ![c] = Store!NoLease]
    BY <1>3, LeaseSteps DEF LeaseBecomes, Store!NoLease
  <2> QED
    BY <1>0, <1>3, <2>1 DEF Items, Leases, Item, Lease, View, Store!ReleaseRequest
<1>4. ASSUME Lease(c).live, Items' = Items, LeaseBecomes(c, Lease(c).holder, FALSE)
      PROVE  Store!LeaseLapses(c)
  <2>1. Leases' = [Leases EXCEPT ![c].live = FALSE]
    BY <1>4, LeaseSteps DEF LeaseBecomes
  <2> QED
    BY <1>0, <1>4, <2>1 DEF Items, Leases, Item, Lease, View, Store!LeaseLapses
<1> QED
  BY <1>1, <1>2, <1>3, <1>4

------------------------------------------------------------------------------
(* What appending and pruning rows do to the messages.                     *)

LEMMA ViewOfEmpty == View(<<>>) = <<>>
<1>1. <<>> \in Seq(MessageRow) /\ Len(<<>>) = 0
  OBVIOUS
<1>2. View(<<>>) \in Seq(Store!Message) /\ Len(View(<<>>)) = 0
  BY <1>1, ViewType
<1> QED
  BY <1>2, EmptySeq

(* Pruning looks at roles and statuses only.                               *)
LEMMA ViewOfPruned ==
  ASSUME NEW s \in Seq(MessageRow)
  PROVE  View(Store!Pruned(s)) = Store!Pruned(View(s))
<1>1. /\ Len(s) \in Nat /\ Len(View(s)) = Len(s)
      /\ \A i \in 1 .. Len(s) :
           /\ View(s)[i] = [by |-> s[i].by, role |-> s[i].role, status |-> s[i].status]
           /\ View(s)[i].role = s[i].role /\ View(s)[i].status = s[i].status
  BY ViewType
<1>2. ASSUME NEW i \in 1 .. Len(s), NEW role
      PROVE  Store!Completed(View(s)[i], role) <=> Store!Completed(s[i], role)
  BY <1>1 DEF Store!Completed
<1>3. Store!CompleteExchanges(View(s)) = Store!CompleteExchanges(s)
  <2> SUFFICES ASSUME NEW x \in (1 .. Len(s)) \X (1 .. Len(s))
               PROVE  x \in Store!CompleteExchanges(View(s))
                        <=> x \in Store!CompleteExchanges(s)
    BY <1>1 DEF Store!CompleteExchanges
  <2>1. /\ x[1] \in 1 .. Len(s) /\ x[2] \in 1 .. Len(s)
        /\ (x[1] + 1) .. (x[2] - 1) \subseteq 1 .. Len(s)
    BY <1>1
  <2> QED
    BY <1>1, <1>2, <2>1 DEF Store!CompleteExchanges
<1> DEFINE exchanges == Store!CompleteExchanges(s)
           later(x) == {y \in exchanges : y[1] > x[1]}
           old == {x \in exchanges : Cardinality(later(x)) >= MaxTurns}
           kept == (1 .. Len(s)) \ UNION {{x[1], x[2]} : x \in old}
           nth(i) == CHOOSE j \in kept : Cardinality({k \in kept : k <= j}) = i
<1>4. /\ Store!Pruned(s) = [i \in 1 .. Cardinality(kept) |-> s[nth(i)]]
      /\ Store!Pruned(View(s)) = [i \in 1 .. Cardinality(kept) |-> View(s)[nth(i)]]
  BY <1>1, <1>3 DEF Store!Pruned, Store!Kept, Store!Cardinality, Cardinality
<1>5. kept \in SUBSET (1 .. Len(s))
  OBVIOUS
<1>6. ASSUME NEW i \in 1 .. Cardinality(kept) PROVE nth(i) \in 1 .. Len(s)
  <2> HIDE DEF kept
  <2>1. \E j \in kept : Cardinality({k \in kept : k <= j}) = i
    BY <1>1, <1>5, NthExists
  <2>2. nth(i) \in kept
    BY <2>1
  <2> QED
    BY <1>5, <2>2
<1> HIDE DEF kept, nth
<1>7. \A i \in 1 .. Cardinality(kept) : View(s)[nth(i)] =
        [by |-> s[nth(i)].by, role |-> s[nth(i)].role, status |-> s[nth(i)].status]
  BY <1>1, <1>6
<1>8. View(Store!Pruned(s)) =
        [i \in 1 .. Cardinality(kept) |->
           [by |-> s[nth(i)].by, role |-> s[nth(i)].role, status |-> s[nth(i)].status]]
  BY <1>4 DEF View
<1> QED
  BY <1>4, <1>7, <1>8

(* A row with a new greatest ordinal is the last message.                  *)
LEMMA ViewOfInserted ==
  ASSUME NEW s \in Seq(MessageRow), NEW m \in MessageRow,
         \A i \in DOMAIN s : s[i].ordinal <= m.ordinal
  PROVE  View(Inserted(s, m)) =
           Append(View(s), [by |-> m.by, role |-> m.role, status |-> m.status])
<1> DEFINE n == [by |-> m.by, role |-> m.role, status |-> m.status]
<1>1. Len(s) \in Nat
  OBVIOUS
<1>2. Inserted(s, m) = Append(s, m)
  BY InsertedLast
<1>3. /\ Append(s, m) \in Seq(MessageRow) /\ Len(Append(s, m)) = Len(s) + 1
      /\ \A i \in 1 .. Len(s) : Append(s, m)[i] = s[i]
      /\ Append(s, m)[Len(s) + 1] = m
  BY AppendProperties
<1>4. /\ View(s) \in Seq(Store!Message) /\ Len(View(s)) = Len(s)
      /\ n \in Store!Message
  BY ViewType DEF MessageRow, Store!Message
<1>5. /\ Append(View(s), n) \in Seq(Store!Message)
      /\ Len(Append(View(s), n)) = Len(s) + 1
      /\ \A i \in 1 .. Len(s) : Append(View(s), n)[i] = View(s)[i]
      /\ Append(View(s), n)[Len(s) + 1] = n
  BY <1>4, AppendProperties
<1>6. /\ View(Append(s, m)) \in Seq(Store!Message)
      /\ Len(View(Append(s, m))) = Len(s) + 1
  BY <1>3, ViewType
<1> HIDE DEF n
<1>7. \A i \in 1 .. (Len(s) + 1) : View(Append(s, m))[i] = Append(View(s), n)[i]
  <2> TAKE i \in 1 .. (Len(s) + 1)
  <2>1. View(Append(s, m))[i] = [by |-> Append(s, m)[i].by, role |-> Append(s, m)[i].role,
                                 status |-> Append(s, m)[i].status]
    BY <1>3, ViewType
  <2>2. CASE i = Len(s) + 1
    BY <1>3, <1>5, <2>1, <2>2 DEF n
  <2>3. CASE i \in 1 .. Len(s)
    BY <1>3, <1>5, <2>1, <2>3, ViewType
  <2>4. i = Len(s) + 1 \/ i \in 1 .. Len(s)
    BY <1>1
  <2> QED
    BY <2>2, <2>3, <2>4
<1>8. View(Append(s, m)) = Append(View(s), n)
  BY <1>5, <1>6, <1>7, SeqEqual
<1> QED
  BY <1>2, <1>8 DEF n


------------------------------------------------------------------------------
(* What _append has read of the name still holds when it writes.           *)

(* A conversation that was not new stays named.                            *)
FreshOK ==
  \A r \in Request :
    req[r].phase = "writing" /\ Exists(req[r].conv) /\ ~req[r].fresh =>
      conv[req[r].conv].name # "new"

(* The steps that write a row of the conversations.                        *)
LEMMA ConvWritten ==
  ASSUME [Next]_vars
  PROVE  \/ conv' = conv
         \/ \E d \in Conversation :
              Create(d) \/ Cleanup(d) \/ DeleteProject(d) \/ LeaseLapses(d)
         \/ \E e \in Editor : WriteEdit(e)
         \/ \E r \in Request : AcquireRequest(r) \/ WriteForAppend(r) \/ ReleaseRequest(r)
BY DEF Next, Proceed, GetScope, CheckEdit, GetHistory, ReadForAppend, Prune, EndStream,
       DenyAccess, Deadline, Disconnect, StoreRaises, Generate, Crash, vars

LEMMA NamesStay ==
  ASSUME IInv, [Next]_vars, NEW c \in Conversation,
         conv[c].state # "none", Exists(c)'
  PROVE  Exists(c) /\ (conv[c].name # "new" => conv'[c].name # "new")
<1>0. TypeOK /\ PlaceOK
  BY DEF IInv
<1>1. conv \in [Conversation -> ConversationRow] /\ conv[c] \in ConversationRow
  BY <1>0 DEF TypeOK
<1>2. ASSUME NEW d \in Conversation, Deleted(d)
      PROVE  Exists(c) /\ (conv[c].name # "new" => conv'[c].name # "new")
  <2>1. PICK state \in {"gone", "left"} : conv' = [conv EXCEPT ![d] = NewRow(state)]
    BY <1>2 DEF Deleted
  <2>2. NewRow(state).state = state
    BY NewRowIs
  <2>3. c # d /\ conv'[c] = conv[c]
    BY <1>1, <2>1, <2>2 DEF Exists
  <2> QED
    BY <2>3 DEF Exists
<1>3. CASE conv' = conv
  BY <1>3 DEF Exists
<1>4. ASSUME NEW d \in Conversation, Create(d)
      PROVE  Exists(c) /\ (conv[c].name # "new" => conv'[c].name # "new")
  BY <1>1, <1>4 DEF Create, Exists
<1>5. ASSUME NEW d \in Conversation, Cleanup(d) \/ DeleteProject(d)
      PROVE  Exists(c) /\ (conv[c].name # "new" => conv'[c].name # "new")
  BY <1>0, <1>2, <1>5, DeleteIs DEF Cleanup, DeleteProject, Remove
<1>6. ASSUME NEW d \in Conversation, NEW row \in ConversationRow,
             conv' = [conv EXCEPT ![d] = row],
             Exists(d), row.state \in {"active", "archived"} =>
                          (conv[d].name # "new" => row.name # "new")
      PROVE  Exists(c) /\ (conv[c].name # "new" => conv'[c].name # "new")
  BY <1>1, <1>6 DEF Exists
<1>6a. ASSUME NEW d \in Conversation, NEW row \in ConversationRow,
             conv' = [conv EXCEPT ![d] = row],
             row.state = conv[d].state, row.name = conv[d].name
      PROVE  Exists(c) /\ (conv[c].name # "new" => conv'[c].name # "new")
  BY <1>1, <1>6a DEF Exists
<1>7. ASSUME NEW d \in Conversation, LeaseLapses(d)
      PROVE  Exists(c) /\ (conv[c].name # "new" => conv'[c].name # "new")
  <2> DEFINE row == [conv[d] EXCEPT !.live = FALSE]
  <2>1. row \in ConversationRow /\ row.state = conv[d].state /\ row.name = conv[d].name
    BY <1>1 DEF ConversationRow
  <2>2. conv' = [conv EXCEPT ![d] = row]
    BY <1>7 DEF LeaseLapses
  <2> HIDE DEF row
  <2> QED
    BY <1>6a, <2>1, <2>2
<1>8. ASSUME NEW e \in Editor, WriteEdit(e), conv' # conv
      PROVE  Exists(c) /\ (conv[c].name # "new" => conv'[c].name # "new")
  <2> DEFINE d == edit[e].conv
  <2>1. d \in Conversation /\ Exists(d) /\ (Deleted(d) \/ Edited(d))
    BY <1>0, <1>8, WriteIs
  <2>2. CASE Edited(d)
    <3>1. PICK row \in ConversationRow :
            /\ conv' = [conv EXCEPT ![d] = row]
            /\ conv[d].name # "new" => row.name # "new"
      BY <2>2 DEF Edited
    <3> HIDE DEF d
    <3> QED
      BY <1>6, <2>1, <3>1
  <2> QED
    BY <1>2, <2>1, <2>2
<1>9. ASSUME NEW r \in Request, AcquireRequest(r), conv' # conv
      PROVE  Exists(c) /\ (conv[c].name # "new" => conv'[c].name # "new")
  <2> DEFINE d == req[r].conv
             row == [[conv[d] EXCEPT !.holder = req[r].id] EXCEPT !.live = TRUE]
  <2>1. d \in Conversation /\ req[r].id \in RequestId /\ conv[d] \in ConversationRow
    BY <1>0, <1>1, <1>9 DEF AcquireRequest, PlaceOK
  <2>2. row \in ConversationRow /\ row.state = conv[d].state /\ row.name = conv[d].name
    BY <2>1 DEF ConversationRow
  <2>3. conv' = [conv EXCEPT ![d] = row]
    BY <1>1, <1>9, <2>1 DEF AcquireRequest
  <2> HIDE DEF row, d
  <2> QED
    BY <1>6a, <2>1, <2>2, <2>3
<1>10. ASSUME NEW r \in Request, WriteForAppend(r), conv' # conv
       PROVE  Exists(c) /\ (conv[c].name # "new" => conv'[c].name # "new")
  <2> DEFINE d == req[r].conv
             row == [conv[d] EXCEPT !.name = "derived"]
  <2>1. d \in Conversation /\ conv[d] \in ConversationRow
    BY <1>0, <1>1, <1>10 DEF WriteForAppend, PlaceOK
  <2>2. row \in ConversationRow /\ row.name = "derived"
    BY <2>1 DEF ConversationRow
  <2>3. conv' = [conv EXCEPT ![d] = row] /\ Exists(d)
    BY <1>10 DEF WriteForAppend
  <2> HIDE DEF row, d
  <2> QED
    BY <1>6, <2>1, <2>2, <2>3
<1>11. ASSUME NEW r \in Request, ReleaseRequest(r), conv' # conv
       PROVE  Exists(c) /\ (conv[c].name # "new" => conv'[c].name # "new")
  <2> DEFINE d == req[r].conv
             row == [[conv[d] EXCEPT !.holder = None] EXCEPT !.live = FALSE]
  <2>1. d \in Conversation /\ conv[d] \in ConversationRow
    BY <1>0, <1>1, <1>11 DEF ReleaseRequest, PlaceOK
  <2>2. row \in ConversationRow /\ row.state = conv[d].state /\ row.name = conv[d].name
    BY <2>1 DEF ConversationRow
  <2>3. conv' = [conv EXCEPT ![d] = row]
    BY <1>1, <1>11, <2>1 DEF ReleaseRequest
  <2> HIDE DEF row, d
  <2> QED
    BY <1>6a, <2>1, <2>2, <2>3
<1>12. \/ conv' = conv
       \/ \E d \in Conversation : Create(d) \/ Cleanup(d) \/ DeleteProject(d) \/ LeaseLapses(d)
       \/ \E e \in Editor : WriteEdit(e)
       \/ \E r \in Request : AcquireRequest(r) \/ WriteForAppend(r) \/ ReleaseRequest(r)
  BY ConvWritten
<1> QED
  BY <1>3, <1>4, <1>5, <1>7, <1>8, <1>9, <1>10, <1>11, <1>12

LEMMA WritersHaveRead ==
  ASSUME TypeOK, [Next]_vars, NEW q \in Request, req'[q].phase = "writing"
  PROVE  \/ req'[q] = req[q]
         \/ /\ conv' = conv /\ req'[q].conv = req[q].conv
            /\ req'[q].fresh = (conv[req[q].conv].name = "new")
<1>1. \A r \in Request : req[r] \in Handler
  BY DEF TypeOK
<1>2. req \in [Request -> Handler]
  BY DEF TypeOK
<1>3. \A r \in Request :
        /\ Done.phase # "writing"
        /\ Finally(req[r]).phase # "writing" /\ Raised(req[r]).phase # "writing"
        /\ Appended(req[r]).phase # "writing"
        /\ \A event \in {"completed", "failed"} : Receive(req[r], event).phase # "writing"
  <2> TAKE r \in Request
  <2>1. Appended(req[r]).phase \in {"streaming", "pruning"}
    BY <1>1 DEF Appended, Handler
  <2>2. \A event \in {"completed", "failed"} : Receive(req[r], event).phase = "reading"
    BY <1>1 DEF Receive, Handler
  <2>3. Done.phase = "done"
    BY DEF Done, IdleHandler
  <2> QED
    BY <1>1, <2>1, <2>2, <2>3, RaisedType
<1>4. ASSUME NEW r \in Request, NEW h, Step(r, h), h.phase # "writing"
      PROVE  req'[q] = req[q]
  BY <1>2, <1>4 DEF Step
<1>5. ASSUME NEW r \in Request, NEW c \in Conversation, NEW id \in RequestId,
             GetScope(r, c, id)
      PROVE  req'[q] = req[q]
  <2>1. [req[r] EXCEPT !.phase = "scoped", !.conv = c, !.id = id].phase # "writing"
    BY <1>1 DEF Handler
  <2> QED
    BY <1>4, <1>5, <2>1 DEF GetScope
<1>6. ASSUME NEW r \in Request, AcquireRequest(r)
      PROVE  req'[q] = req[q]
  <2>1. [req[r] EXCEPT !.phase = "held"].phase # "writing"
    BY <1>1 DEF Handler
  <2>2. Step(r, [req[r] EXCEPT !.phase = "held"]) \/ Step(r, Done)
    BY <1>6 DEF AcquireRequest
  <2> QED
    BY <1>3, <1>4, <2>1, <2>2
<1>7. ASSUME NEW r \in Request, GetHistory(r)
      PROVE  req'[q] = req[q]
  <2>1. /\ [req[r] EXCEPT !.phase = "reading", !.task = "user"].phase # "writing"
        /\ [req[r] EXCEPT !.phase = "releasing"].phase # "writing"
    BY <1>1 DEF Handler
  <2>2. \/ Step(r, [req[r] EXCEPT !.phase = "reading", !.task = "user"])
        \/ Step(r, [req[r] EXCEPT !.phase = "releasing"])
    BY <1>7 DEF GetHistory
  <2> QED
    BY <1>4, <2>1, <2>2
<1>8. ASSUME NEW r \in Request, ReadForAppend(r)
      PROVE  \/ req'[q] = req[q]
             \/ /\ conv' = conv /\ req'[q].conv = req[q].conv
                /\ req'[q].fresh = (conv[req[q].conv].name = "new")
  <2> DEFINE h == [req[r] EXCEPT !.phase = "writing", !.last = LastOrdinal(req[r].conv),
                                 !.fresh = conv[req[r].conv].name = "new"]
  <2>1. h.conv = req[r].conv /\ h.fresh = (conv[req[r].conv].name = "new")
    BY <1>1 DEF Handler
  <2>2. Step(r, h) \/ Step(r, Raised(req[r]))
    BY <1>8 DEF ReadForAppend
  <2>3. conv' = conv
    BY <1>8 DEF ReadForAppend
  <2> HIDE DEF h
  <2>4. CASE Step(r, h)
    BY <1>2, <2>1, <2>3, <2>4 DEF Step
  <2>5. CASE Step(r, Raised(req[r]))
    BY <1>3, <1>4, <2>5
  <2> QED
    BY <2>2, <2>4, <2>5
<1>9. ASSUME NEW r \in Request, WriteForAppend(r) \/ EndStream(r) \/ ReleaseRequest(r)
             \/ DenyAccess(r) \/ Deadline(r) \/ Disconnect(r) \/ StoreRaises(r)
             \/ \E event \in {"completed", "failed"} : Generate(r, event)
      PROVE  req'[q] = req[q]
  <2>1. \/ Step(r, Done) \/ Step(r, Finally(req[r])) \/ Step(r, Raised(req[r]))
        \/ Step(r, Appended(req[r]))
        \/ \E event \in {"completed", "failed"} : Step(r, Receive(req[r], event))
    BY <1>9 DEF WriteForAppend, EndStream, ReleaseRequest, DenyAccess, Deadline,
                Disconnect, StoreRaises, Generate
  <2> QED
    BY <1>3, <1>4, <2>1
<1>10. ASSUME NEW r \in Request, Prune(r)
       PROVE  req'[q] = req[q]
  <2>1. /\ [req[r] EXCEPT !.phase = "streaming", !.terminal = TRUE,
                          !.task = "none"].phase # "writing"
        /\ [req[r] EXCEPT !.phase = "releasing", !.task = "none"].phase # "writing"
    BY <1>1 DEF Handler
  <2>2. \/ Step(r, [req[r] EXCEPT !.phase = "streaming", !.terminal = TRUE, !.task = "none"])
        \/ Step(r, [req[r] EXCEPT !.phase = "releasing", !.task = "none"])
    BY <1>10 DEF Prune
  <2> QED
    BY <1>4, <2>1, <2>2
<1>11. CASE Crash
  BY <1>3, <1>11 DEF Crash
<1>12. CASE req' = req
  BY <1>12
<1>13. \/ req' = req \/ Crash
       \/ \E r \in Request, c \in Conversation, id \in RequestId : GetScope(r, c, id)
       \/ \E r \in Request :
            \/ Proceed(r) \/ DenyAccess(r) \/ Deadline(r) \/ Disconnect(r) \/ StoreRaises(r)
            \/ \E event \in {"completed", "failed"} : Generate(r, event)
  BY DEF Next, vars, Create, Cleanup, DeleteProject, Remove, LeaseLapses, CheckEdit, WriteEdit
<1> QED
  BY <1>5, <1>6, <1>7, <1>8, <1>9, <1>10, <1>11, <1>12, <1>13 DEF Proceed

LEMMA FreshNext ==
  ASSUME IInv, IInv', FreshOK, [Next]_vars
  PROVE  FreshOK'
<1> SUFFICES ASSUME NEW q \in Request, req'[q].phase = "writing",
                    conv'[req'[q].conv].state \in {"active", "archived"}, ~req'[q].fresh
             PROVE  conv'[req'[q].conv].name # "new"
  BY DEF FreshOK, Exists
<1>1. TypeOK /\ PlaceOK /\ KnownOK /\ PlaceOK'
  BY DEF IInv
<1>2. CASE req'[q] = req[q]
  <2>1. /\ req[q].conv \in Conversation /\ conv[req[q].conv].state # "none"
        /\ req[q].phase = "writing" /\ ~req[q].fresh
    BY <1>1, <1>2 DEF PlaceOK, KnownOK
  <2>2. PICK c \in Conversation : c = req[q].conv
    BY <2>1
  <2>3. Exists(c)'
    BY <1>2, <2>2 DEF Exists
  <2>4. Exists(c) /\ (conv[c].name # "new" => conv'[c].name # "new")
    BY <2>1, <2>2, <2>3, NamesStay
  <2> QED
    BY <1>2, <2>1, <2>2, <2>4 DEF FreshOK
<1>3. CASE /\ conv' = conv /\ req'[q].conv = req[q].conv
           /\ req'[q].fresh = (conv[req[q].conv].name = "new")
  BY <1>3
<1> QED
  BY <1>1, <1>2, <1>3, WritersHaveRead


(* A conversation that has not been created has nothing.                   *)
UncreatedOK ==
  \A c \in Conversation : conv[c].state = "none" => conv[c] = NewRow("none")

LEMMA UncreatedNext ==
  ASSUME IInv, UncreatedOK, [Next]_vars
  PROVE  UncreatedOK'
<1> SUFFICES ASSUME NEW c \in Conversation, conv'[c].state = "none"
             PROVE  conv'[c] = conv[c]
  BY DEF UncreatedOK, NewRow
<1>0. TypeOK /\ PlaceOK
  BY DEF IInv
<1>1. conv \in [Conversation -> ConversationRow] /\ conv[c] \in ConversationRow
  BY <1>0 DEF TypeOK
<1>3. ASSUME NEW d \in Conversation, NEW row, conv' = [conv EXCEPT ![d] = row],
             row.state # "none"
      PROVE  conv'[c] = conv[c]
  BY <1>1, <1>3
<1>2. ASSUME NEW d \in Conversation, Deleted(d)
      PROVE  conv'[c] = conv[c]
  <2>1. PICK state \in {"gone", "left"} : conv' = [conv EXCEPT ![d] = NewRow(state)]
    BY <1>2 DEF Deleted
  <2>2. NewRow(state).state # "none"
    BY NewRowIs
  <2> QED
    BY <1>3, <2>1, <2>2
<1>4. ASSUME NEW d \in Conversation, Create(d) \/ Cleanup(d) \/ DeleteProject(d)
      PROVE  conv'[c] = conv[c]
  <2>1. CASE Create(d)
    BY <1>3, <2>1, NewRowIs DEF Create
  <2>2. CASE Cleanup(d) \/ DeleteProject(d)
    BY <1>0, <1>2, <2>2, DeleteIs DEF Cleanup, DeleteProject, Remove
  <2> QED
    BY <1>4, <2>1, <2>2
<1>5. ASSUME NEW d \in Conversation, LeaseLapses(d)
      PROVE  conv'[c] = conv[c]
  <2>1. conv' = [conv EXCEPT ![d] = [conv[d] EXCEPT !.live = FALSE]]
        /\ conv[d] \in ConversationRow /\ conv[d].live
    BY <1>1, <1>5 DEF LeaseLapses
  <2>2. [conv[d] EXCEPT !.live = FALSE].state = conv[d].state
    BY <2>1 DEF ConversationRow
  <2>3. CASE conv[d].state # "none"
    BY <1>3, <2>1, <2>2, <2>3
  <2>4. CASE conv[d].state = "none"
    BY <2>1, <2>4 DEF UncreatedOK, NewRow
  <2> QED
    BY <2>3, <2>4
<1>6. ASSUME NEW e \in Editor, WriteEdit(e), conv' # conv
      PROVE  conv'[c] = conv[c]
  <2> DEFINE d == edit[e].conv
  <2>1. d \in Conversation /\ (Deleted(d) \/ Edited(d))
    BY <1>0, <1>6, WriteIs
  <2>2. CASE Edited(d)
    <3>1. PICK row \in ConversationRow :
            conv' = [conv EXCEPT ![d] = row] /\ row.state # "none"
      BY <2>2 DEF Edited
    <3> HIDE DEF d
    <3> QED
      BY <1>3, <2>1, <3>1
  <2> QED
    BY <1>2, <2>1, <2>2
<1>7. ASSUME NEW r \in Request, AcquireRequest(r) \/ WriteForAppend(r) \/ ReleaseRequest(r),
             conv' # conv
      PROVE  conv'[c] = conv[c]
  <2> DEFINE d == req[r].conv
             acquired == [[conv[d] EXCEPT !.holder = req[r].id] EXCEPT !.live = TRUE]
             named == [conv[d] EXCEPT !.name = "derived"]
             released == [[conv[d] EXCEPT !.holder = None] EXCEPT !.live = FALSE]
  <2>1. d \in Conversation /\ conv[d] \in ConversationRow
    BY <1>0, <1>1, <1>7 DEF AcquireRequest, WriteForAppend, ReleaseRequest, PlaceOK
  <2>2. /\ acquired.state = conv[d].state /\ named.state = conv[d].state
        /\ released.state = conv[d].state
    BY <2>1 DEF ConversationRow
  <2>3. conv[d].state # "none"
    BY <1>7 DEF AcquireRequest, WriteForAppend, ReleaseRequest, Exists, MayAcquire
  <2>4. \/ conv' = [conv EXCEPT ![d] = acquired]
        \/ conv' = [conv EXCEPT ![d] = named]
        \/ conv' = [conv EXCEPT ![d] = released]
    BY <1>1, <1>7, <2>1 DEF AcquireRequest, WriteForAppend, ReleaseRequest
  <2> HIDE DEF acquired, named, released, d
  <2> QED
    BY <1>3, <2>1, <2>2, <2>3, <2>4
<1>8. \/ conv' = conv
      \/ \E d \in Conversation : Create(d) \/ Cleanup(d) \/ DeleteProject(d) \/ LeaseLapses(d)
      \/ \E e \in Editor : WriteEdit(e)
      \/ \E r \in Request : AcquireRequest(r) \/ WriteForAppend(r) \/ ReleaseRequest(r)
  BY ConvWritten
<1> QED
  BY <1>4, <1>5, <1>6, <1>7, <1>8

------------------------------------------------------------------------------
(* Every step is an operation of the abstract store.                       *)

Stays == Items' = Items /\ Leases' = Leases

Overtaken == "overtaken" \in disturbed'

LEMMA Untouched ==
  ASSUME NEW c \in Conversation,
         \A d \in Conversation \ {c} : conv'[d] = conv[d] /\ rows'[d] = rows[d]
  PROVE  \A d \in Conversation \ {c} : Item(d)' = Item(d) /\ Lease(d)' = Lease(d)
BY DEF Item, Lease, View, Exists

(* Where only the lease of a conversation changes, no item does.           *)
LEMMA OnlyLease ==
  ASSUME NEW c \in Conversation, NEW h, NEW l,
         \A d \in Conversation \ {c} : conv'[d] = conv[d],
         rows' = rows, conv'[c].state = conv[c].state, conv'[c].name = conv[c].name,
         conv'[c].holder = h, conv'[c].live = l
  PROVE  Items' = Items /\ LeaseBecomes(c, h, l)
<1>1. \A d \in Conversation : Item(d)' = Item(d)
  BY DEF Item, View, Exists
<1>2. Items' = Items
  BY <1>1 DEF Items
<1>3. LeaseBecomes(c, h, l)
  BY DEF LeaseBecomes, Lease
<1> QED
  BY <1>2, <1>3

(* Where only the item of a conversation changes, no lease does.           *)
LEMMA OnlyItem ==
  ASSUME NEW c \in Conversation,
         \A d \in Conversation \ {c} : conv'[d] = conv[d] /\ rows'[d] = rows[d],
         conv'[c].holder = conv[c].holder, conv'[c].live = conv[c].live
  PROVE  /\ Leases' = Leases
         /\ \A s, n, m : Item(c)' = [state |-> s, name |-> n, messages |-> m]
              => Becomes(c, s, n, m)
<1>1. \A d \in Conversation : Lease(d)' = Lease(d)
  BY DEF Lease
<1>2. Leases' = Leases
  BY <1>1 DEF Leases
<1>3. \A d \in Conversation \ {c} : Item(d)' = Item(d)
  BY Untouched
<1> QED
  BY <1>2, <1>3 DEF Becomes

(* The operations, one by one.                                             *)
LEMMA CreateImplements ==
  ASSUME IInv, IInv', UncreatedOK, NEW c \in Conversation, Create(c)
  PROVE  Store!Create(c)
<1>1. /\ TypeOK /\ TypeOK' /\ conv[c].state = "none" /\ rows[c] = <<>>
      /\ conv \in [Conversation -> ConversationRow] /\ conv[c] = NewRow("none")
  BY DEF IInv, AbsentOK, TypeOK, Create, Exists, UncreatedOK
<1>2. /\ conv'[c] = NewRow("active") /\ rows' = rows
      /\ \A d \in Conversation \ {c} : conv'[d] = conv[d]
  BY <1>1 DEF Create
<1>3. Item(c)' = [state |-> "active", name |-> "new", messages |-> <<>>]
  BY <1>1, <1>2, ViewOfEmpty DEF Item, Exists, NewRow, View
<1>4. conv'[c].holder = conv[c].holder /\ conv'[c].live = conv[c].live
  BY <1>1, <1>2 DEF NewRow
<1>5. Item(c).state = "none"
  BY <1>1 DEF Item
<1> QED
  BY <1>1, <1>2, <1>3, <1>4, <1>5, OnlyItem, ItemOperations

LEMMA RemoveImplements ==
  ASSUME IInv, IInv', NEW c \in Conversation, Deleted(c)
  PROVE  Store!Remove(c)
<1>1. /\ TypeOK /\ TypeOK'
      /\ conv \in [Conversation -> ConversationRow] /\ rows \in [Conversation -> Seq(MessageRow)]
  BY DEF IInv, TypeOK
<1>2. PICK state \in {"gone", "left"} :
        /\ conv'[c] = NewRow(state)
        /\ \A d \in Conversation \ {c} : conv'[d] = conv[d] /\ rows'[d] = rows[d]
  BY <1>1 DEF Deleted
<1>3. Item(c)' = Store!NoItem("gone") /\ Lease(c)' = [holder |-> None, live |-> FALSE]
  <2>1. /\ conv'[c].state = state /\ conv'[c].name = "new"
        /\ conv'[c].holder = None /\ conv'[c].live = FALSE
    BY <1>2, NewRowIs
  <2>2. Lease(c)' = [holder |-> None, live |-> FALSE]
    BY <2>1 DEF Lease
  <2>3. Item(c)' = [state |-> "gone", name |-> "new", messages |-> <<>>]
    BY <2>1 DEF Item, Exists
  <2> QED
    BY <2>2, <2>3 DEF Store!NoItem
<1>4. \A d \in Conversation \ {c} : Item(d)' = Item(d) /\ Lease(d)' = Lease(d)
  BY <1>2, Untouched
<1> QED
  BY <1>1, <1>3, <1>4, LeaseOperations DEF LeaseBecomes

LEMMA LapseImplements ==
  ASSUME IInv, IInv', NEW c \in Conversation, LeaseLapses(c)
  PROVE  Store!LeaseLapses(c)
<1>1. /\ TypeOK /\ TypeOK' /\ conv[c].live /\ rows' = rows
      /\ conv \in [Conversation -> ConversationRow] /\ conv[c] \in ConversationRow
      /\ conv' = [conv EXCEPT ![c] = [@ EXCEPT !.live = FALSE]]
  BY DEF IInv, TypeOK, LeaseLapses
<1>2. /\ \A d \in Conversation \ {c} : conv'[d] = conv[d]
      /\ conv'[c].state = conv[c].state /\ conv'[c].name = conv[c].name
      /\ conv'[c].holder = conv[c].holder /\ conv'[c].live = FALSE
  BY <1>1 DEF ConversationRow
<1>3. Items' = Items /\ LeaseBecomes(c, Lease(c).holder, FALSE) /\ Lease(c).live
  BY <1>1, <1>2, OnlyLease DEF Lease
<1> QED
  BY <1>1, <1>3, LeaseOperations

LEMMA EditImplements ==
  ASSUME IInv, IInv', NEW e \in Editor, WriteEdit(e)
  PROVE  UNCHANGED <<conv, rows>> \/ Overtaken \/ Store!Next
<1> DEFINE op == edit[e].op
           c == edit[e].conv
<1>1. /\ TypeOK /\ TypeOK' /\ c \in Conversation
      /\ op \in {"rename", "archive", "restore", "purge"}
      /\ conv \in [Conversation -> ConversationRow] /\ conv[c] \in ConversationRow
  BY DEF IInv, TypeOK, PlaceOK, WriteEdit, Operation
<1>2. CASE ~Exists(c)
  BY <1>2 DEF WriteEdit
<1>3. CASE Exists(c) /\ ~CheckHolds(op, c)
  BY <1>3 DEF WriteEdit, Overtaken
<1>4. ASSUME Exists(c), CheckHolds(op, c), op = "purge"
      PROVE  Store!Next
  <2>1. Delete(c, edit[e].loaded)
    BY <1>4 DEF WriteEdit
  <2>2. PICK k \in Conversation : k = c
    BY <1>1
  <2>3. Item(k).state = "archived" /\ ~Lease(k).live
    BY <1>4, <2>2 DEF CheckHolds, LiveLease, Item, Lease
  <2> HIDE DEF c
  <2>4. Store!Remove(k)
    BY <1>1, <2>1, <2>2, DeleteIs, RemoveImplements
  <2>5. Store!Purge(k)
    BY <2>3, <2>4 DEF Store!Purge, Store!RejectLease, Item, Lease
  <2> QED
    BY <2>5 DEF Store!Next
<1>5. ASSUME Exists(c), CheckHolds(op, c), op # "purge"
      PROVE  Store!Next
  <2> DEFINE row == CASE op = "rename" -> [conv[c] EXCEPT !.name = "given"]
                      [] op = "archive" -> [conv[c] EXCEPT !.state = "archived"]
                      [] op = "restore" -> [conv[c] EXCEPT !.state = "active"]
  <2>1. conv' = [conv EXCEPT ![c] = row] /\ rows' = rows
    BY <1>5 DEF WriteEdit
  <2>2. /\ row.holder = conv[c].holder /\ row.live = conv[c].live
        /\ op = "rename" => row.state = conv[c].state /\ row.name = "given"
        /\ op = "archive" => row.state = "archived" /\ row.name = conv[c].name
        /\ op = "restore" => row.state = "active" /\ row.name = conv[c].name
    BY <1>1, <1>5 DEF ConversationRow
  <2> HIDE DEF row
  <2>3. /\ conv'[c] = row
        /\ \A d \in Conversation \ {c} : conv'[d] = conv[d] /\ rows'[d] = rows[d]
    BY <1>1, <2>1
  <2>4. PICK k \in Conversation : k = c
    BY <1>1
  <2> HIDE DEF c
  <2>5. /\ ~Lease(k).live /\ Item(k).state = conv[k].state
        /\ Item(k).name = conv[k].name /\ Item(k).messages = View(rows[k])
        /\ conv[k].state = IF op \in {"rename", "archive"} THEN "active" ELSE "archived"
    BY <1>5, <2>4 DEF CheckHolds, LiveLease, Item, Lease
  <2> HIDE DEF op
  <2>6. conv'[k].state \in {"active", "archived"}
    BY <1>1, <1>5, <2>2, <2>3, <2>4, <2>5
  <2>7. Item(k)' = [state |-> conv'[k].state, name |-> conv'[k].name,
                    messages |-> Item(k).messages]
    BY <2>1, <2>5, <2>6 DEF Item, Exists, View
  <2>8. Leases' = Leases /\ Becomes(k, conv'[k].state, conv'[k].name, Item(k).messages)
    BY <2>2, <2>3, <2>4, <2>7, OnlyItem
  <2>9. CASE op = "rename"
    <3>1. Becomes(k, "active", "given", Item(k).messages)
      BY <2>2, <2>3, <2>4, <2>5, <2>8, <2>9
    <3>2. Store!Rename(k)
      BY <1>1, <2>5, <2>8, <2>9, <3>1, ItemOperations
    <3> QED
      BY <3>2 DEF Store!Next
  <2>10. CASE op = "archive"
    <3>1. Becomes(k, "archived", Item(k).name, Item(k).messages)
      BY <2>2, <2>3, <2>4, <2>5, <2>8, <2>10
    <3>2. Store!Archive(k)
      BY <1>1, <2>5, <2>8, <2>10, <3>1, ItemOperations
    <3> QED
      BY <3>2 DEF Store!Next
  <2>11. CASE op = "restore"
    <3>1. Becomes(k, "active", Item(k).name, Item(k).messages)
      BY <2>2, <2>3, <2>4, <2>5, <2>8, <2>11
    <3>2. Store!Restore(k)
      BY <1>1, <2>5, <2>8, <2>11, <3>1, ItemOperations
    <3> QED
      BY <3>2 DEF Store!Next
  <2> QED
    BY <1>1, <1>5, <2>9, <2>10, <2>11
<1> QED
  BY <1>2, <1>3, <1>4, <1>5

LEMMA AcquireImplements ==
  ASSUME IInv, IInv', NEW r \in Request, AcquireRequest(r)
  PROVE  UNCHANGED <<conv, rows>> \/ Store!Next
<1> DEFINE row == [[conv[req[r].conv] EXCEPT !.holder = req[r].id] EXCEPT !.live = TRUE]
<1>1. /\ TypeOK /\ TypeOK' /\ req[r].conv \in Conversation /\ req[r].id \in RequestId
      /\ conv \in [Conversation -> ConversationRow]
  BY DEF IInv, TypeOK, PlaceOK, AcquireRequest
<1>2. PICK c \in Conversation, id \in RequestId : c = req[r].conv /\ id = req[r].id
  BY <1>1
<1>3. CASE ~MayAcquire(c, id)
  BY <1>2, <1>3 DEF AcquireRequest
<1>4. ASSUME MayAcquire(c, id)
      PROVE  Store!Next
  <2>1. conv' = [conv EXCEPT ![c] = row] /\ rows' = rows /\ conv[c] \in ConversationRow
    BY <1>1, <1>2, <1>4 DEF AcquireRequest
  <2>2. /\ row.state = conv[c].state /\ row.name = conv[c].name
        /\ row.holder = id /\ row.live = TRUE
    BY <1>1, <1>2, <2>1 DEF ConversationRow
  <2> HIDE DEF row
  <2>3. conv'[c] = row /\ \A d \in Conversation \ {c} : conv'[d] = conv[d]
    BY <1>1, <2>1
  <2>4. Items' = Items /\ LeaseBecomes(c, id, TRUE)
    BY <2>1, <2>2, <2>3, OnlyLease
  <2>5. Item(c).state = "active" /\ (Lease(c).holder = id \/ ~Lease(c).live)
    BY <1>4 DEF MayAcquire, LiveLease, Item, Lease
  <2>6. Store!AcquireRequest(c, id)
    BY <1>1, <2>4, <2>5, LeaseOperations
  <2> QED
    BY <1>1, <2>6 DEF Store!Next
<1> QED
  BY <1>3, <1>4

LEMMA ReleaseImplements ==
  ASSUME IInv, IInv', NEW r \in Request, ReleaseRequest(r)
  PROVE  UNCHANGED <<conv, rows>> \/ Store!Next
<1> DEFINE row == [[conv[req[r].conv] EXCEPT !.holder = None] EXCEPT !.live = FALSE]
<1>1. /\ TypeOK /\ TypeOK' /\ req[r].conv \in Conversation /\ req[r].id \in RequestId
      /\ conv \in [Conversation -> ConversationRow]
  BY DEF IInv, TypeOK, PlaceOK, ReleaseRequest
<1>2. PICK c \in Conversation, id \in RequestId : c = req[r].conv /\ id = req[r].id
  BY <1>1
<1>3. CASE ~(Exists(c) /\ conv[c].holder = id)
  BY <1>2, <1>3 DEF ReleaseRequest
<1>4. ASSUME Exists(c), conv[c].holder = id
      PROVE  Store!Next
  <2>1. conv' = [conv EXCEPT ![c] = row] /\ rows' = rows /\ conv[c] \in ConversationRow
    BY <1>1, <1>2, <1>4 DEF ReleaseRequest
  <2>2. /\ row.state = conv[c].state /\ row.name = conv[c].name
        /\ row.holder = None /\ row.live = FALSE
    BY <1>1, <1>2, <2>1 DEF ConversationRow
  <2> HIDE DEF row
  <2>3. conv'[c] = row /\ \A d \in Conversation \ {c} : conv'[d] = conv[d]
    BY <1>1, <2>1
  <2>4. Items' = Items /\ LeaseBecomes(c, None, FALSE)
    BY <2>1, <2>2, <2>3, OnlyLease
  <2>5. Lease(c).holder = id
    BY <1>4 DEF Lease
  <2>6. Store!ReleaseRequest(c, id)
    BY <1>1, <2>4, <2>5, LeaseOperations
  <2> QED
    BY <1>1, <2>6 DEF Store!Next
<1> QED
  BY <1>3, <1>4

LEMMA AppendImplements ==
  ASSUME IInv, IInv', FreshOK, NEW r \in Request, WriteForAppend(r)
  PROVE  UNCHANGED <<conv, rows>> \/ Overtaken \/ Store!Next
<1> DEFINE h == req[r]
           m == NewMessage(h, r)
           derives == h.task = "user" /\ h.fresh
<1>1. /\ TypeOK /\ TypeOK' /\ h.conv \in Conversation /\ h \in Handler
      /\ conv \in [Conversation -> ConversationRow]
      /\ rows \in [Conversation -> Seq(MessageRow)]
  BY DEF IInv, TypeOK, PlaceOK, WriteForAppend
<1>2. PICK c \in Conversation : c = h.conv
  BY <1>1
<1>3. CASE ~Exists(c)
  BY <1>2, <1>3 DEF WriteForAppend
<1>4. CASE Exists(c) /\ (\/ conv[c].state # "active" \/ LastOrdinal(c) # h.last
                         \/ (derives /\ conv[c].name # "new"))
  BY <1>2, <1>4 DEF WriteForAppend, Overtaken
<1>5. ASSUME Exists(c), conv[c].state = "active", LastOrdinal(c) = h.last,
             derives => conv[c].name = "new"
      PROVE  Store!Next
  <2>1. /\ rows' = [rows EXCEPT ![c] = Inserted(rows[c], m)]
        /\ conv' = IF derives THEN [conv EXCEPT ![c] = [conv[c] EXCEPT !.name = "derived"]]
                              ELSE conv
    BY <1>2, <1>5 DEF WriteForAppend
  <2>2. /\ m \in MessageRow /\ m.ordinal = h.last + 1 /\ m.by = r
        /\ m.role = "user" <=> h.task = "user"
    BY <1>1 DEF NewMessage, MessageRow, Handler
  <2>3. h.task = "user" /\ ~h.fresh => conv[c].name # "new"
    BY <1>2, <1>5 DEF FreshOK, WriteForAppend
  <2>4. h.last \in Nat /\ h.fresh \in BOOLEAN
    BY <1>1 DEF Handler
  <2>5. PICK n \in Store!Message : n = [by |-> m.by, role |-> m.role, status |-> m.status]
    BY <2>2 DEF MessageRow, Store!Message
  <2> HIDE DEF m
  <2>6. n.role = m.role
    BY <2>5
  <2>7. \A i \in DOMAIN rows[c] : rows[c][i].ordinal <= m.ordinal
    <3> TAKE i \in DOMAIN rows[c]
    <3>1. rows[c][i].ordinal <= LastOrdinal(c) /\ LastOrdinal(c) \in Nat
      BY <1>1, LastOrdinalGreatest
    <3>2. rows[c][i] \in MessageRow
      BY <1>1, ElementOfSeq
    <3>3. rows[c][i].ordinal \in Nat
      BY <3>2 DEF MessageRow
    <3> QED
      BY <1>5, <2>2, <2>4, <3>1, <3>3
  <2>8. View(Inserted(rows[c], m)) = Append(View(rows[c]), n)
    BY <1>1, <2>2, <2>5, <2>7, ViewOfInserted
  <2>9. /\ Item(c).state = "active" /\ Item(c).name = conv[c].name
        /\ Item(c).messages = View(rows[c])
    BY <1>5 DEF Item, Exists
  <2> DEFINE name == IF n.role = "user" /\ Item(c).name = "new" THEN "derived" ELSE Item(c).name
  <2>10. /\ conv'[c].state = conv[c].state /\ conv'[c].holder = conv[c].holder
         /\ conv'[c].live = conv[c].live
         /\ conv'[c].name = IF derives THEN "derived" ELSE conv[c].name
         /\ \A d \in Conversation \ {c} : conv'[d] = conv[d]
    <3>1. conv[c] \in ConversationRow
      BY <1>1
    <3> HIDE DEF derives
    <3>2. CASE derives
      BY <1>1, <2>1, <3>1, <3>2 DEF ConversationRow
    <3>3. CASE ~derives
      BY <2>1, <3>3
    <3> QED
      BY <3>2, <3>3
  <2>11. conv'[c].name = name
    BY <1>5, <2>2, <2>3, <2>4, <2>6, <2>9, <2>10
  <2>12. /\ rows'[c] = Inserted(rows[c], m)
         /\ \A d \in Conversation \ {c} : rows'[d] = rows[d]
    BY <1>1, <2>1
  <2> HIDE DEF name, h
  <2>13. Item(c)' = [state |-> "active", name |-> name,
                     messages |-> Append(Item(c).messages, n)]
    <3>1. Exists(c)' /\ conv'[c].state = "active"
      BY <1>5, <2>10 DEF Exists
    <3>2. View(rows'[c]) = Append(Item(c).messages, n)
      BY <2>8, <2>9, <2>12
    <3> QED
      BY <2>11, <3>1, <3>2 DEF Item, View
  <2>14. Leases' = Leases /\ Becomes(c, "active", name, Append(Item(c).messages, n))
    BY <2>10, <2>12, <2>13, OnlyItem
  <2>15. Store!AppendMessage(c, n)
    BY <1>1, <2>9, <2>14, ItemOperations DEF name
  <2> QED
    BY <2>15 DEF Store!Next
<1> QED
  BY <1>3, <1>4, <1>5

LEMMA PruneImplements ==
  ASSUME IInv, IInv', NEW r \in Request, Prune(r)
  PROVE  Stays \/ Store!Next
<1>1. /\ TypeOK /\ TypeOK' /\ req[r].conv \in Conversation /\ conv' = conv
      /\ rows \in [Conversation -> Seq(MessageRow)]
  BY DEF IInv, TypeOK, PlaceOK, Prune
<1>2. PICK c \in Conversation : c = req[r].conv
  BY <1>1
<1>3. /\ rows'[c] = Store!Pruned(rows[c])
      /\ \A d \in Conversation \ {c} : rows'[d] = rows[d]
  BY <1>1, <1>2 DEF Prune
<1>4. Leases' = Leases
  BY <1>1 DEF Leases, Lease
<1>5. CASE ~Exists(c)
  <2>1. Item(c)' = Item(c)
    BY <1>1, <1>5 DEF Item, Exists
  <2>2. \A d \in Conversation : Item(d)' = Item(d)
    BY <1>1, <1>3, <2>1, Untouched
  <2>3. Items' = Items
    BY <2>2 DEF Items
  <2> QED
    BY <1>4, <2>3 DEF Stays
<1>6. CASE Exists(c)
  <2>1. /\ Item(c).messages = View(rows[c]) /\ Item(c).state \in {"active", "archived"}
        /\ Item(c).state = conv[c].state /\ Item(c).name = conv[c].name
    BY <1>6 DEF Item, Exists
  <2>2. View(rows'[c]) = Store!Pruned(Item(c).messages)
    BY <1>1, <1>3, <2>1, ViewOfPruned
  <2>3. Item(c)' = [state |-> Item(c).state, name |-> Item(c).name,
                    messages |-> Store!Pruned(Item(c).messages)]
    BY <1>1, <1>6, <2>1, <2>2 DEF Item, View, Exists
  <2>4. Becomes(c, Item(c).state, Item(c).name, Store!Pruned(Item(c).messages))
    BY <1>1, <1>3, <2>3, OnlyItem
  <2>5. Store!Prune(c)
    BY <1>1, <1>4, <2>1, <2>4, ItemOperations
  <2> QED
    BY <2>5 DEF Store!Next
<1> QED
  BY <1>5, <1>6

LEMMA StoreNext ==
  ASSUME IInv, IInv', FreshOK, UncreatedOK, [Next]_vars
  PROVE  UNCHANGED <<conv, rows>> \/ Overtaken \/ Store!Next \/ Stays
<1>0. TypeOK
  BY DEF IInv
<1>1. ASSUME NEW c \in Conversation,
             Create(c) \/ Cleanup(c) \/ DeleteProject(c) \/ LeaseLapses(c)
      PROVE  Store!Next
  <2>1. CASE Create(c)
    BY <2>1, CreateImplements DEF Store!Next
  <2>2. CASE LeaseLapses(c)
    BY <2>2, LapseImplements DEF Store!Next
  <2>3. CASE Cleanup(c)
    <3>1. Store!Remove(c) /\ Item(c).state = "archived"
      BY <1>0, <2>3, DeleteIs, RemoveImplements DEF Cleanup, Remove, Item
    <3>2. Store!Cleanup(c)
      BY <3>1 DEF Store!Cleanup, Item
    <3> QED
      BY <3>2 DEF Store!Next
  <2>4. CASE DeleteProject(c)
    <3>1. Store!Remove(c) /\ Item(c).state \in {"active", "archived"}
      BY <1>0, <2>4, DeleteIs, RemoveImplements DEF DeleteProject, Remove, Item, Exists
    <3>2. Store!DeleteProject(c)
      BY <3>1 DEF Store!DeleteProject, Item
    <3> QED
      BY <3>2 DEF Store!Next
  <2> QED
    BY <1>1, <2>1, <2>2, <2>3, <2>4
<1>2. ASSUME NEW r \in Request,
             AcquireRequest(r) \/ WriteForAppend(r) \/ ReleaseRequest(r) \/ Prune(r)
      PROVE  UNCHANGED <<conv, rows>> \/ Overtaken \/ Store!Next \/ Stays
  BY <1>2, AcquireImplements, AppendImplements, ReleaseImplements, PruneImplements
<1>3. ASSUME NEW e \in Editor, WriteEdit(e)
      PROVE  UNCHANGED <<conv, rows>> \/ Overtaken \/ Store!Next
  BY <1>3, EditImplements
<1>4. \/ UNCHANGED <<conv, rows>>
      \/ \E c \in Conversation : Create(c) \/ Cleanup(c) \/ DeleteProject(c) \/ LeaseLapses(c)
      \/ \E e \in Editor : WriteEdit(e)
      \/ \E r \in Request :
           AcquireRequest(r) \/ WriteForAppend(r) \/ ReleaseRequest(r) \/ Prune(r)
  BY DEF Next, Proceed, GetScope, CheckEdit, GetHistory, ReadForAppend, EndStream,
         DenyAccess, Deadline, Disconnect, StoreRaises, Generate, Crash, vars
<1> QED
  BY <1>1, <1>2, <1>3, <1>4

LEMMA StoreInit == Init => Store!Init
<1> SUFFICES ASSUME Init PROVE Store!Init
  OBVIOUS
<1>1. ASSUME NEW c \in Conversation
      PROVE  Item(c) = Store!NoItem("none") /\ Lease(c) = Store!NoLease
  BY DEF Init, Item, Lease, Exists, NewRow, Store!NoItem, Store!NoLease
<1>2. /\ Items = [c \in Conversation |-> Store!NoItem("none")]
      /\ Leases = [c \in Conversation |-> Store!NoLease]
  BY <1>1 DEF Items, Leases
<1> QED
  BY <1>2 DEF Items, Leases, Item, Lease, View, Store!Init

(* Every step of the SQL store, of its handlers and of a crash is one      *)
(* operation of the store that runs them one at a time under a lock,       *)
(* unless a decision was overtaken between its SELECT and its write.       *)
THEOREM StoreImplemented == Spec => ImplementsStore
<1>1. Init => Store!Init /\ FreshOK /\ UncreatedOK
  <2>1. Init => FreshOK /\ UncreatedOK
    BY DEF Init, FreshOK, UncreatedOK, IdleHandler
  <2> QED
    BY <2>1, StoreInit
<1>2. IInv /\ IInv' /\ FreshOK /\ UncreatedOK /\ [Next]_vars => FreshOK' /\ UncreatedOK'
  BY FreshNext, UncreatedNext
<1>3. IInv /\ IInv' /\ FreshOK /\ UncreatedOK /\ [Next]_vars =>
        [UNCHANGED <<conv, rows>> \/ "overtaken" \in disturbed' \/ Store!Next]_(Store!vars)
  <2> SUFFICES ASSUME IInv, IInv', FreshOK, UncreatedOK, [Next]_vars
               PROVE  \/ UNCHANGED <<conv, rows>> \/ "overtaken" \in disturbed' \/ Store!Next
                      \/ (Store!vars)' = Store!vars
    OBVIOUS
  <2>1. Stays => (Store!vars)' = Store!vars
    BY DEF Stays, Store!vars, Items, Leases, Item, Lease, View
  <2> QED
    BY <2>1, StoreNext DEF Overtaken
<1> QED
  BY <1>1, <1>2, <1>3, Invariant, PTL DEF Spec, ImplementsStore

==============================================================================
