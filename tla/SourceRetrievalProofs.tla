------------------------ MODULE SourceRetrievalProofs ------------------------
(***************************************************************************)
(* Proofs about SourceRetrieval, for every text, every set of profiles and *)
(* every number of matches.  First the operators of Chunking: windows and  *)
(* packed pieces tile a range, the scan for headings and pages cuts the    *)
(* text into blocks in order, and the passages of the blocks are sound.    *)
(* Then merging, and the inductive invariant of a question's search.       *)
(***************************************************************************)
EXTENDS SourceRetrieval, FiniteSetTheorems, SequenceTheorems, WellFoundedInduction, TLAPS

-----------------------------------------------------------------------------
(* Natural numbers.                                                        *)

(* The natural numbers are well ordered: n stands for 0 .. (n - 1), and    *)
(* the finite sets are well ordered by inclusion.                          *)
LEMMA LeastNat ==
  ASSUME NEW T \in SUBSET Nat, T # {}
  PROVE  \E m \in T : \A n \in T : m <= n
<1> DEFINE D == {0 .. (n - 1) : n \in T}
<1>1. D # {} /\ D \subseteq FiniteSubsetsOf(Nat)
  <2>1. \A n \in T : 0 .. (n - 1) \subseteq Nat /\ IsFiniteSet(0 .. (n - 1))
    BY FS_Interval
  <2> QED
    BY <2>1 DEF FiniteSubsetsOf
<1>2. PICK x \in D : \A y \in D : <<y, x>> \notin StrictSubsetOrdering(Nat)
  BY <1>1, FS_StrictSubsetOrderingWellFounded, WFMin
<1>3. PICK m \in T : x = 0 .. (m - 1)
  OBVIOUS
<1>4. ASSUME NEW n \in T, n < m PROVE FALSE
  <2>1. 0 .. (n - 1) \in D
    OBVIOUS
  <2>2. /\ 0 .. (n - 1) \subseteq 0 .. (m - 1) /\ 0 .. (m - 1) \subseteq Nat
        /\ n \in 0 .. (m - 1) /\ n \notin 0 .. (n - 1)
    BY <1>4
  <2>3. <<0 .. (n - 1), x>> \in StrictSubsetOrdering(Nat)
    BY <1>3, <2>2 DEF StrictSubsetOrdering
  <2> QED
    BY <1>2, <2>1, <2>3
<1> QED
  BY <1>4

(* A set of numbers with a bound has a greatest one.                       *)
LEMMA GreatestNat ==
  ASSUME NEW T \in SUBSET Nat, T # {}, NEW b \in Nat, \A n \in T : n <= b
  PROVE  \E m \in T : \A n \in T : n <= m
<1> DEFINE D == {b - n : n \in T}
<1>1. D # {} /\ D \in SUBSET Nat
  <2>1. \A n \in T : n \in Nat /\ b - n \in Nat
    OBVIOUS
  <2> QED
    BY <2>1
<1>2. PICK d \in D : \A e \in D : d <= e
  <2> HIDE DEF D
  <2> QED BY <1>1, LeastNat
<1>3. PICK m \in T : d = b - m
  OBVIOUS
<1>4. ASSUME NEW n \in T PROVE n <= m
  <2>1. b - n \in D /\ n \in Nat /\ m \in Nat
    OBVIOUS
  <2>2. b - m <= b - n
    BY <1>2, <1>3, <2>1
  <2> QED
    BY <2>1, <2>2
<1> QED
  BY <1>4

(* So a set that has 0, and with a number below h its successor, has every *)
(* number up to h.                                                         *)
LEMMA CountUp ==
  ASSUME NEW h \in Nat, NEW T, 0 \in T,
         \A n \in 0 .. h : n < h /\ n \in T => n + 1 \in T
  PROVE  0 .. h \subseteq T
<1> DEFINE M == (0 .. h) \ T
<1>1. SUFFICES ASSUME M # {} PROVE FALSE
  OBVIOUS
<1>2. PICK m \in M : \A n \in M : m <= n
  <2>1. M \in SUBSET Nat
    OBVIOUS
  <2> HIDE DEF M
  <2> QED BY <1>1, <2>1, LeastNat
<1>3. m \in 1 .. h /\ m - 1 \in 0 .. h /\ m - 1 < h /\ (m - 1) + 1 = m
  BY <1>2
<1>4. m - 1 \in T
  BY <1>2, <1>3
<1> QED BY <1>2, <1>3, <1>4

-----------------------------------------------------------------------------
(* Flattening.                                                             *)

(* f[k] is the concatenation of the first sequences, as Folds computes it. *)
Flattens(s, n, f) ==
  f = [i \in 1 .. n |-> IF i = 1 THEN s[i] ELSE f[i - 1] \o s[i]]

(* The concatenations of the first sequences exist, as a function.         *)
LEMMA FlattensExist ==
  ASSUME NEW s, NEW n \in Nat
  PROVE  \E f : Flattens(s, n, f)
<1> DEFINE T == {m \in 0 .. n : \E f : Flattens(s, m, f)}
<1>1. 0 \in T
  <2> DEFINE f == [i \in 1 .. 0 |-> s]
  <2>1. Flattens(s, 0, f)
    BY DEF Flattens
  <2> QED BY <2>1
<1>2. ASSUME NEW m \in 0 .. n, m < n, m \in T
      PROVE  m + 1 \in T
  <2>1. PICK f : Flattens(s, m, f)
    BY <1>2
  <2> DEFINE L(i, x) == IF i = 1 THEN s[i] ELSE x \o s[i]
             k == [i \in 1 .. (m + 1) |-> IF i <= m THEN f[i] ELSE L(m + 1, f[m])]
  <2>2. f = [i \in 1 .. m |-> L(i, f[i - 1])]
    BY <2>1 DEF Flattens
  <2>3. \A x, y : L(1, x) = L(1, y)
    OBVIOUS
  <2> HIDE DEF L
  <2>4. ASSUME NEW i \in 1 .. (m + 1)
        PROVE  k[i] = L(i, k[i - 1])
    <3>1. CASE i = 1 /\ m = 0
      <4>1. k[i] = L(1, f[m])
        BY <3>1
      <4> QED BY <2>3, <3>1, <4>1
    <3>2. CASE i = 1 /\ m > 0
      <4>1. k[i] = f[i] /\ f[i] = L(1, f[i - 1])
        BY <2>2, <3>2
      <4> QED BY <2>3, <3>2, <4>1
    <3>3. CASE i \in 2 .. m
      <4>1. k[i] = f[i] /\ f[i] = L(i, f[i - 1]) /\ k[i - 1] = f[i - 1]
        BY <2>2, <3>3
      <4> QED BY <4>1
    <3>4. CASE i = m + 1 /\ m > 0
      <4>1. k[i] = L(m + 1, f[m]) /\ k[i - 1] = f[m]
        BY <3>4
      <4> QED BY <3>4, <4>1
    <3> QED BY <3>1, <3>2, <3>3, <3>4
  <2>5. k = [i \in 1 .. (m + 1) |-> L(i, k[i - 1])]
    BY <2>4
  <2>6. Flattens(s, m + 1, k)
    <3> HIDE DEF k
    <3> QED BY <2>5 DEF Flattens, L
  <2>7. m + 1 \in 0 .. n
    BY <1>2
  <2> QED BY <2>6, <2>7
<1> HIDE DEF T
<1>3. n \in T
  BY <1>1, <1>2, CountUp
<1> QED BY <1>3 DEF T

(* FlattenSeq by the functions that flatten, if there is anything to put   *)
(* together.                                                               *)
LEMMA FlattenAs ==
  ASSUME NEW s
  PROVE  FlattenSeq(s) = IF Len(s) = 0 THEN s
                         ELSE (CHOOSE f : Flattens(s, Len(s), f))[Len(s)]
BY DEF FlattenSeq, Flattens

(* FlattenSeq is the last of them.                                         *)
LEMMA FlattenIs ==
  ASSUME NEW s, Len(s) \in Nat \ {0}
  PROVE  \E f : Flattens(s, Len(s), f) /\ FlattenSeq(s) = f[Len(s)]
<1> DEFINE U == CHOOSE f : Flattens(s, Len(s), f)
<1>1. Flattens(s, Len(s), U)
  BY FlattensExist
<1>2. Len(s) # 0
  OBVIOUS
<1>3. FlattenSeq(s) = U[Len(s)]
  BY <1>2, FlattenAs
<1> QED BY <1>1, <1>3

(* Nothing is put together from no sequences.                              *)
LEMMA FlattenNone ==
  ASSUME NEW s, Len(s) = 0
  PROVE  FlattenSeq(s) = s
BY FlattenAs

(* What has been put together after each of the sequences.                 *)
Run(s, g) ==
  /\ g[0] = <<>>
  /\ \A k \in 1 .. Len(s) : g[k] = g[k - 1] \o s[k]

(* What FlattenSeq gives, sequence by sequence.                            *)
LEMMA RunExists ==
  ASSUME NEW S, NEW s \in Seq(Seq(S))
  PROVE  \E g : /\ Run(s, g) /\ g \in [0 .. Len(s) -> Seq(S)]
                /\ FlattenSeq(s) = g[Len(s)]
<1> DEFINE n == Len(s)
<1>0. n \in Nat /\ DOMAIN s = 1 .. n /\ \A k \in 1 .. n : s[k] \in Seq(S)
  OBVIOUS
<1>1. CASE n = 0
  <2> DEFINE g == [k \in 0 .. n |-> <<>>]
  <2>1. g[0] = <<>> /\ g \in [0 .. n -> Seq(S)] /\ Run(s, g)
    BY <1>0, <1>1, EmptySeq DEF Run
  <2>2. FlattenSeq(s) = s
    BY <1>1, FlattenNone, Zenon
  <2>3. s = <<>>
    BY <1>0, <1>1, EmptySeq
  <2> QED BY <1>1, <2>1, <2>2, <2>3
<1>2. CASE n # 0
  <2>1. PICK f : Flattens(s, n, f) /\ FlattenSeq(s) = f[n]
    BY <1>0, <1>2, FlattenIs
  <2>2. FlattenSeq(s) = f[n]
    BY <2>1
  <2>3. DOMAIN f = 1 .. n /\ \A i \in 1 .. n : f[i] = IF i = 1 THEN s[i] ELSE f[i - 1] \o s[i]
    <3>1. \A e : e = [i \in 1 .. n |-> IF i = 1 THEN s[i] ELSE f[i - 1] \o s[i]]
                   => /\ DOMAIN e = 1 .. n
                      /\ \A i \in 1 .. n : e[i] = IF i = 1 THEN s[i] ELSE f[i - 1] \o s[i]
      OBVIOUS
    <3>2. f = [i \in 1 .. n |-> IF i = 1 THEN s[i] ELSE f[i - 1] \o s[i]]
      BY <2>1 DEF Flattens
    <3> QED BY <3>1, <3>2
  <2> DEFINE g == [k \in 0 .. n |-> IF k = 0 THEN <<>> ELSE f[k]]
  <2>4. ASSUME NEW k \in 1 .. n
        PROVE  g[k] = g[k - 1] \o s[k]
    <3>1. CASE k = 1
      <4>1. g[k] = s[k] /\ g[k - 1] = <<>> /\ s[k] \in Seq(S)
        BY <1>0, <2>3, <3>1
      <4> QED BY <4>1, ConcatEmptySeq
    <3>2. CASE k # 1
      <4>1. f[k] = f[k - 1] \o s[k]
        BY <2>3, <3>2
      <4>2. k - 1 \in 0 .. n /\ k \in 0 .. n /\ k # 0 /\ k - 1 # 0
        BY <1>0, <3>2
      <4>3. g[k] = f[k] /\ g[k - 1] = f[k - 1]
        BY <4>2
      <4> HIDE DEF g
      <4> QED BY <4>1, <4>3
    <3> QED BY <3>1, <3>2
  <2>5. g[0] = <<>> /\ DOMAIN g = 0 .. n /\ g[n] = f[n]
    BY <1>0, <1>2
  <2> HIDE DEF g
  <2>6. \A k \in 0 .. n : g[k] \in Seq(S)
    <3> DEFINE T == {k \in 0 .. n : g[k] \in Seq(S)}
    <3>1. 0 \in T
      <4>1. 0 \in 0 .. n
        BY <1>0
      <4> QED BY <2>5, <4>1, EmptySeq
    <3>2. \A k \in 0 .. n : k < n /\ k \in T => k + 1 \in T
      <4> SUFFICES ASSUME NEW k \in 0 .. n, k < n, k \in T
                   PROVE  k + 1 \in T
        OBVIOUS
      <4>1. k + 1 \in 1 .. n /\ (k + 1) - 1 = k
        BY <1>0
      <4>2. g[k + 1] = g[k] \o s[k + 1]
        BY <2>4, <4>1
      <4>3. g[k] \in Seq(S) /\ s[k + 1] \in Seq(S) /\ k + 1 \in 0 .. n
        BY <1>0, <4>1
      <4>4. g[k] \o s[k + 1] \in Seq(S)
        BY <4>3, ConcatProperties
      <4> QED BY <4>2, <4>3, <4>4
    <3> HIDE DEF T
    <3>3. 0 .. n \subseteq T
      BY <1>0, <3>1, <3>2, CountUp
    <3> QED BY <3>3 DEF T
  <2>7. g \in [0 .. n -> Seq(S)]
    <3>1. g = [k \in 0 .. n |-> IF k = 0 THEN <<>> ELSE f[k]]
      BY DEF g
    <3>2. \A k \in 0 .. n : (IF k = 0 THEN <<>> ELSE f[k]) \in Seq(S)
      BY <2>6, <3>1
    <3> QED BY <3>1, <3>2
  <2> QED BY <2>2, <2>4, <2>5, <2>7 DEF Run
<1> QED BY <1>1, <1>2

(* There is only one such run.                                             *)
LEMMA RunIs ==
  ASSUME NEW S, NEW s \in Seq(Seq(S)), NEW g, Run(s, g)
  PROVE  FlattenSeq(s) = g[Len(s)]
<1> DEFINE n == Len(s)
<1>1. PICK h : Run(s, h) /\ FlattenSeq(s) = h[n]
  BY RunExists
<1> DEFINE T == {k \in 0 .. n : g[k] = h[k]}
<1>2. n \in Nat
  OBVIOUS
<1>3. 0 \in T
  BY <1>1, <1>2 DEF Run
<1>4. \A k \in 0 .. n : k < n /\ k \in T => k + 1 \in T
  <2> SUFFICES ASSUME NEW k \in 0 .. n, k < n, k \in T
               PROVE  k + 1 \in T
    OBVIOUS
  <2>1. k + 1 \in 1 .. n /\ (k + 1) - 1 = k /\ k + 1 \in 0 .. n
    BY <1>2
  <2>2. g[k + 1] = g[k] \o s[k + 1] /\ h[k + 1] = h[k] \o s[k + 1]
    BY <1>1, <2>1 DEF Run
  <2> QED BY <2>1, <2>2
<1> HIDE DEF T, n
<1>5. 0 .. n \subseteq T
  BY <1>2, <1>3, <1>4, CountUp
<1> QED BY <1>1, <1>2, <1>5 DEF T, n

(* Where the elements of a concatenation come from.                        *)
LEMMA ConcatIs ==
  ASSUME NEW S, NEW s \in Seq(S), NEW t \in Seq(S)
  PROVE  /\ s \o t \in Seq(S) /\ Len(s \o t) = Len(s) + Len(t)
         /\ \A i \in 1 .. Len(s) : (s \o t)[i] = s[i]
         /\ \A i \in 1 .. Len(t) : (s \o t)[Len(s) + i] = t[i]
         /\ DOMAIN (s \o t) = 1 .. (Len(s) + Len(t))
         /\ DOMAIN s = 1 .. Len(s) /\ DOMAIN t = 1 .. Len(t)
         /\ Len(s) \in Nat /\ Len(t) \in Nat
         /\ \A i \in 1 .. (Len(s) + Len(t)) :
              \/ i \in 1 .. Len(s)
              \/ i - Len(s) \in 1 .. Len(t) /\ (s \o t)[i] = t[i - Len(s)]
OBVIOUS

(* The elements of a concatenation.                                        *)
LEMMA ConcatSet ==
  ASSUME NEW S, NEW s \in Seq(S), NEW t \in Seq(S)
  PROVE  ToSet(s \o t) = ToSet(s) \cup ToSet(t)
<1>1. ASSUME NEW x \in ToSet(s \o t)
      PROVE  x \in ToSet(s) \cup ToSet(t)
  <2>1. PICK i \in 1 .. (Len(s) + Len(t)) : x = (s \o t)[i]
    BY <1>1, ConcatIs DEF ToSet
  <2>2. CASE i \in 1 .. Len(s)
    <3>1. x = s[i] /\ i \in DOMAIN s
      BY <2>1, <2>2, ConcatIs
    <3> QED BY <3>1 DEF ToSet
  <2>3. CASE i \notin 1 .. Len(s)
    <3>1. i - Len(s) \in DOMAIN t /\ x = t[i - Len(s)]
      BY <2>1, <2>3, ConcatIs
    <3> QED BY <3>1 DEF ToSet
  <2> QED BY <2>2, <2>3
<1>2. ASSUME NEW x \in ToSet(s)
      PROVE  x \in ToSet(s \o t)
  <2>1. PICK i \in DOMAIN s : x = s[i]
    BY <1>2 DEF ToSet
  <2>2. i \in DOMAIN (s \o t) /\ (s \o t)[i] = x
    BY <2>1, ConcatIs
  <2> QED BY <2>2 DEF ToSet
<1>3. ASSUME NEW x \in ToSet(t)
      PROVE  x \in ToSet(s \o t)
  <2>1. PICK i \in DOMAIN t : x = t[i]
    BY <1>3 DEF ToSet
  <2>2. i \in 1 .. Len(t) /\ Len(s) \in Nat /\ Len(t) \in Nat
    BY <2>1, ConcatIs
  <2>3. Len(s) + i \in 1 .. (Len(s) + Len(t))
    BY <2>2
  <2>4. Len(s) + i \in DOMAIN (s \o t) /\ (s \o t)[Len(s) + i] = x
    BY <2>1, <2>2, <2>3, ConcatIs
  <2> QED BY <2>4 DEF ToSet
<1> QED BY <1>1, <1>2, <1>3

(* Flattening keeps exactly the elements.                                  *)
LEMMA FlatMembers ==
  ASSUME NEW S, NEW s \in Seq(Seq(S))
  PROVE  /\ FlattenSeq(s) \in Seq(S)
         /\ \A x : x \in ToSet(FlattenSeq(s)) <=> \E k \in 1 .. Len(s) : x \in ToSet(s[k])
<1>1. PICK g : /\ Run(s, g) /\ g \in [0 .. Len(s) -> Seq(S)]
               /\ FlattenSeq(s) = g[Len(s)]
  BY RunExists
<1>2. Len(s) \in Nat /\ \A k \in 1 .. Len(s) : s[k] \in Seq(S)
  OBVIOUS
<1> DEFINE All(n) == \A x : x \in ToSet(g[n]) <=> \E k \in 1 .. n : x \in ToSet(s[k])
           T == {n \in 0 .. Len(s) : All(n)}
<1>3. 0 \in T
  <2>1. g[0] = <<>>
    BY <1>1 DEF Run
  <2>2. ToSet(g[0]) = {}
    BY <2>1 DEF ToSet
  <2>3. 1 .. 0 = {} /\ 0 \in 0 .. Len(s)
    BY <1>2
  <2> QED BY <2>2, <2>3
<1>4. ASSUME NEW n \in 0 .. Len(s), n < Len(s), n \in T
      PROVE  n + 1 \in T
  <2>1. n + 1 \in 1 .. Len(s) /\ (n + 1) - 1 = n /\ n + 1 \in 0 .. Len(s)
    BY <1>2, <1>4
  <2>2. g[n + 1] = g[n] \o s[n + 1] /\ g[n] \in Seq(S) /\ s[n + 1] \in Seq(S)
    BY <1>1, <1>2, <2>1 DEF Run
  <2>3. ToSet(g[n + 1]) = ToSet(g[n]) \cup ToSet(s[n + 1])
    BY <2>2, ConcatSet
  <2>4. \A k : k \in 1 .. (n + 1) <=> k \in 1 .. n \/ k = n + 1
    OBVIOUS
  <2>5. All(n)
    BY <1>4
  <2>6. All(n + 1)
    BY <2>3, <2>4, <2>5
  <2> QED BY <2>1, <2>6
<1> HIDE DEF T
<1>5. 0 .. Len(s) \subseteq T
  <2>1. \A n \in 0 .. Len(s) : n < Len(s) /\ n \in T => n + 1 \in T
    BY <1>4
  <2> QED BY <1>2, <1>3, <2>1, CountUp
<1>6. Len(s) \in T
  BY <1>2, <1>5
<1> QED BY <1>1, <1>2, <1>6 DEF T

-----------------------------------------------------------------------------
(* Tilings: ranges that follow one another from a to b.                    *)

(* Where the k-th range ends.                                              *)
EndAt(s, a, k) == IF k = 0 THEN a ELSE s[k][2]

Tiles(s, a, b) ==
  /\ s \in Seq(Nat \X Nat) /\ a \in Nat /\ b \in Nat
  /\ \A k \in 1 .. Len(s) : s[k][1] = EndAt(s, a, k - 1) /\ s[k][1] <= s[k][2]
  /\ EndAt(s, a, Len(s)) = b

(* An empty range has an empty tiling.                                     *)
LEMMA NoTiles ==
  ASSUME NEW a \in Nat
  PROVE  Tiles(<<>>, a, a)
BY EmptySeq DEF Tiles, EndAt

(* A range tiles itself.                                                   *)
LEMMA OneTile ==
  ASSUME NEW a \in Nat, NEW b \in Nat, a <= b
  PROVE  Tiles(<<<<a, b>>>>, a, b)
BY DEF Tiles, EndAt

(* Tilings of ranges that meet make one.                                   *)
LEMMA ConcatTiles ==
  ASSUME NEW a, NEW b, NEW c, NEW s, NEW t, Tiles(s, a, b), Tiles(t, b, c)
  PROVE  Tiles(s \o t, a, c)
<1> DEFINE u == s \o t
           m == Len(s)
           n == Len(t)
<1>1. s \in Seq(Nat \X Nat) /\ t \in Seq(Nat \X Nat) /\ a \in Nat /\ b \in Nat /\ c \in Nat
  BY DEF Tiles
<1>2. /\ u \in Seq(Nat \X Nat) /\ Len(u) = m + n /\ m \in Nat /\ n \in Nat
      /\ \A i \in 1 .. m : u[i] = s[i]
      /\ \A i \in 1 .. n : u[m + i] = t[i]
  BY <1>1, ConcatIs, SMTT(30)
<1> HIDE DEF u, m, n
<1>3. EndAt(s, a, m) = b /\ EndAt(t, b, n) = c
  BY DEF Tiles, m, n
<1>4. \A k \in 0 .. m : EndAt(u, a, k) = EndAt(s, a, k)
  BY <1>2 DEF EndAt
<1>5. \A k \in 0 .. n : EndAt(u, a, m + k) = EndAt(t, b, k)
  <2> SUFFICES ASSUME NEW k \in 0 .. n
               PROVE  EndAt(u, a, m + k) = EndAt(t, b, k)
    OBVIOUS
  <2>1. CASE k = 0
    <3>1. m + k = m /\ m \in 0 .. m
      BY <1>2, <2>1
    <3> QED BY <1>3, <1>4, <2>1, <3>1 DEF EndAt
  <2>2. CASE k # 0
    <3>1. k \in 1 .. n /\ m + k # 0
      BY <1>2, <2>2
    <3> QED BY <1>2, <3>1, SMTT(30) DEF EndAt
  <2> QED BY <2>1, <2>2
<1>6. ASSUME NEW k \in 1 .. (m + n)
      PROVE  u[k][1] = EndAt(u, a, k - 1) /\ u[k][1] <= u[k][2]
  <2>1. CASE k \in 1 .. m
    <3>1. k - 1 \in 0 .. m
      BY <1>2, <2>1
    <3>2. s[k][1] = EndAt(s, a, k - 1) /\ s[k][1] <= s[k][2]
      BY <2>1 DEF Tiles, m
    <3> QED BY <1>2, <1>4, <2>1, <3>1, <3>2
  <2>2. CASE k \notin 1 .. m
    <3> DEFINE j == k - m
    <3>1. j \in 1 .. n /\ k = m + j /\ j - 1 \in 0 .. n /\ k - 1 = m + (j - 1)
      BY <1>2, <2>2
    <3>2. t[j][1] = EndAt(t, b, j - 1) /\ t[j][1] <= t[j][2]
      BY <3>1 DEF Tiles, n
    <3> HIDE DEF j
    <3>3. u[k] = t[j] /\ EndAt(u, a, k - 1) = EndAt(t, b, j - 1)
      BY <1>2, <1>5, <3>1
    <3> QED BY <3>2, <3>3
  <2> QED BY <2>1, <2>2
<1>7. EndAt(u, a, m + n) = c
  <2>1. n \in 0 .. n
    BY <1>2
  <2> QED BY <1>3, <1>5, <2>1
<1> QED BY <1>1, <1>2, <1>6, <1>7 DEF Tiles, u

(* Tiling every tile tiles the whole.                                      *)
LEMMA FlatTiles ==
  ASSUME NEW a, NEW b, NEW s, Tiles(s, a, b), NEW t \in Seq(Seq(Nat \X Nat)), Len(t) = Len(s),
         \A k \in 1 .. Len(s) : Tiles(t[k], s[k][1], s[k][2])
  PROVE  Tiles(FlattenSeq(t), a, b)
<1> DEFINE n == Len(s)
<1>1. PICK g : /\ Run(t, g) /\ g \in [0 .. n -> Seq(Nat \X Nat)]
               /\ FlattenSeq(t) = g[n]
  BY RunExists
<1>2. n \in Nat /\ a \in Nat /\ EndAt(s, a, n) = b
  BY DEF Tiles
<1> DEFINE T == {k \in 0 .. n : Tiles(g[k], a, EndAt(s, a, k))}
<1>3. 0 \in T
  <2>1. g[0] = <<>> /\ EndAt(s, a, 0) = a /\ 0 \in 0 .. n
    BY <1>1, <1>2 DEF Run, EndAt
  <2> QED BY <1>2, <2>1, NoTiles
<1>4. ASSUME NEW k \in 0 .. n, k < n, k \in T
      PROVE  k + 1 \in T
  <2>1. k + 1 \in 1 .. n /\ (k + 1) - 1 = k /\ k + 1 \in 0 .. n /\ k + 1 # 0
    BY <1>2, <1>4
  <2>2. g[k + 1] = g[k] \o t[k + 1]
    BY <1>1, <2>1 DEF Run
  <2>3. s[k + 1][1] = EndAt(s, a, k) /\ s[k + 1][2] = EndAt(s, a, k + 1)
    BY <2>1 DEF Tiles, EndAt
  <2>4. Tiles(g[k], a, EndAt(s, a, k)) /\ Tiles(t[k + 1], EndAt(s, a, k), EndAt(s, a, k + 1))
    BY <1>4, <2>1, <2>3
  <2>5. Tiles(g[k + 1], a, EndAt(s, a, k + 1))
    BY <2>2, <2>4, ConcatTiles
  <2> QED BY <2>1, <2>5
<1> HIDE DEF T, n
<1>5. 0 .. n \subseteq T
  <2>1. \A k \in 0 .. n : k < n /\ k \in T => k + 1 \in T
    BY <1>4
  <2> QED BY <1>2, <1>3, <2>1, CountUp
<1>6. n \in T
  BY <1>2, <1>5
<1> QED BY <1>1, <1>2, <1>6 DEF T

(* Tiles lie apart, within the whole.                                      *)
LEMMA TilesApart ==
  ASSUME NEW a, NEW b, NEW s, Tiles(s, a, b)
  PROVE  /\ a <= b
         /\ \A k \in 1 .. Len(s) : /\ s[k] = <<s[k][1], s[k][2]>>
                                   /\ s[k][1] \in Nat /\ s[k][2] \in Nat
                                   /\ a <= s[k][1] /\ s[k][1] <= s[k][2] /\ s[k][2] <= b
         /\ \A j, k \in 1 .. Len(s) : j < k => s[j][2] <= s[k][1]
<1> DEFINE n == Len(s)
           E(k) == EndAt(s, a, k)
<1>1. s \in Seq(Nat \X Nat) /\ n \in Nat /\ a \in Nat /\ b \in Nat /\ E(n) = b /\ E(0) = a
  BY DEF Tiles, EndAt
<1>2. \A k \in 1 .. n : /\ s[k] = <<s[k][1], s[k][2]>>
                        /\ s[k][1] \in Nat /\ s[k][2] \in Nat /\ s[k] \in Nat \X Nat
                        /\ s[k][1] = E(k - 1) /\ s[k][1] <= s[k][2]
                        /\ s[k][2] = E(k)
  <2>1. \A k \in 1 .. n : s[k] \in Nat \X Nat
    BY <1>1
  <2>2. \A k \in 1 .. n : k # 0
    BY <1>1
  <2> QED BY <2>1, <2>2, SMTT(30) DEF Tiles, EndAt
<1> HIDE DEF E, n
<1>3. \A k \in 0 .. n : E(k) \in Nat
  <2>1. \A k \in 0 .. n : k = 0 \/ k \in 1 .. n
    BY <1>1
  <2> QED BY <1>1, <1>2, <2>1
<1>4. ASSUME NEW j \in 0 .. n
      PROVE  \A k \in 0 .. n : j <= k => E(j) <= E(k)
  <2> DEFINE T == {k \in 0 .. n : j <= k => E(j) <= E(k)}
  <2>1. 0 \in T
    BY <1>1, <1>3
  <2>2. ASSUME NEW k \in 0 .. n, k < n, k \in T
        PROVE  k + 1 \in T
    <3>1. k + 1 \in 1 .. n /\ (k + 1) - 1 = k /\ k + 1 \in 0 .. n
      BY <1>1, <2>2
    <3>2. E(k) <= E(k + 1)
      BY <1>2, <3>1
    <3>3. E(k) \in Nat /\ E(k + 1) \in Nat /\ E(j) \in Nat
      BY <1>3, <3>1
    <3>4. j <= k => E(j) <= E(k)
      BY <2>2
    <3>5. j <= k + 1 => E(j) <= E(k + 1)
      <4>1. CASE j <= k
        BY <3>2, <3>3, <3>4, <4>1
      <4>2. CASE j = k + 1
        BY <3>3, <4>2
      <4>3. j <= k + 1 => j <= k \/ j = k + 1
        BY <1>1
      <4> QED BY <4>1, <4>2, <4>3
    <3> QED BY <3>1, <3>5
  <2> HIDE DEF T
  <2>3. 0 .. n \subseteq T
    <3>1. \A k \in 0 .. n : k < n /\ k \in T => k + 1 \in T
      BY <2>2
    <3> QED BY <1>1, <2>1, <3>1, CountUp
  <2> QED BY <2>3 DEF T
<1>5. \A k \in 1 .. n : a <= s[k][1] /\ s[k][2] <= b
  <2> SUFFICES ASSUME NEW k \in 1 .. n
               PROVE  a <= s[k][1] /\ s[k][2] <= b
    OBVIOUS
  <2>1. 0 \in 0 .. n /\ k \in 0 .. n /\ n \in 0 .. n /\ k - 1 \in 0 .. n /\ 0 <= k - 1 /\ k <= n
    BY <1>1
  <2>2. E(0) <= E(k - 1) /\ E(k) <= E(n)
    BY <1>4, <2>1
  <2> QED BY <1>1, <1>2, <2>2
<1>6. ASSUME NEW j \in 1 .. n, NEW k \in 1 .. n, j < k
      PROVE  s[j][2] <= s[k][1]
  <2>1. j \in 0 .. n /\ k - 1 \in 0 .. n /\ j <= k - 1
    BY <1>1, <1>6
  <2> QED BY <1>2, <1>4, <2>1
<1>7. a <= b
  <2>1. 0 \in 0 .. n /\ n \in 0 .. n /\ 0 <= n
    BY <1>1
  <2> QED BY <1>1, <1>4, <2>1
<1> QED BY <1>2, <1>5, <1>6, <1>7 DEF n

(* Ranges that leave no gap from a to b, each going on where the one       *)
(* before has not ended yet, or ends.                                      *)
Covers(s, a, b) ==
  /\ s \in Seq(Nat \X Nat) /\ a \in Nat /\ b \in Nat
  /\ \A k \in 1 .. Len(s) : s[k][1] <= EndAt(s, a, k - 1)
  /\ EndAt(s, a, Len(s)) = b

(* A tiling leaves nothing out.                                            *)
LEMMA TilesAreCover ==
  ASSUME NEW a, NEW b, NEW s, Tiles(s, a, b)
  PROVE  Covers(s, a, b)
<1>1. \A k \in 1 .. Len(s) : s[k][1] = EndAt(s, a, k - 1) /\ s[k][1] \in Nat
  BY TilesApart DEF Tiles
<1>2. \A k \in 1 .. Len(s) : s[k][1] <= EndAt(s, a, k - 1)
  BY <1>1
<1> QED BY <1>2 DEF Tiles, Covers

(* Every place from a to b is in one of them.                              *)
LEMMA CoverAll ==
  ASSUME NEW a, NEW b, NEW s, Covers(s, a, b), NEW i \in Nat, a <= i, i < b
  PROVE  \E k \in 1 .. Len(s) : Within(i, s[k])
<1> DEFINE n == Len(s)
           T == {k \in 0 .. n : EndAt(s, a, k) <= i}
<1>1. n \in Nat /\ a \in Nat /\ b \in Nat /\ EndAt(s, a, n) = b /\ s \in Seq(Nat \X Nat)
  BY DEF Covers
<1>2. SUFFICES ASSUME \A k \in 1 .. n : ~Within(i, s[k])
               PROVE  FALSE
  OBVIOUS
<1>3. 0 \in T
  BY <1>1 DEF EndAt
<1>4. ASSUME NEW k \in 0 .. n, k < n, k \in T
      PROVE  k + 1 \in T
  <2>1. k + 1 \in 1 .. n /\ (k + 1) - 1 = k /\ k + 1 \in 0 .. n /\ k + 1 # 0
    BY <1>1, <1>4
  <2>2. s[k + 1][1] <= EndAt(s, a, k) /\ EndAt(s, a, k + 1) = s[k + 1][2]
    BY <2>1 DEF Covers, EndAt
  <2>3. ~(s[k + 1][1] <= i /\ i < s[k + 1][2])
    BY <1>2, <2>1 DEF Within
  <2>4. s[k + 1] \in Nat \X Nat
    BY <1>1, <2>1
  <2>5. s[k + 1][1] \in Nat /\ s[k + 1][2] \in Nat
    BY <2>4
  <2>6. EndAt(s, a, k) \in Nat
    <3>1. k = 0 \/ k \in 1 .. n
      BY <1>1
    <3> QED BY <1>1, <3>1 DEF EndAt
  <2>7. EndAt(s, a, k + 1) <= i
    BY <1>4, <2>2, <2>3, <2>5, <2>6
  <2> QED BY <2>1, <2>7
<1> HIDE DEF T, n
<1>5. 0 .. n \subseteq T
  <2>1. \A k \in 0 .. n : k < n /\ k \in T => k + 1 \in T
    BY <1>4
  <2> QED BY <1>1, <1>3, <2>1, CountUp
<1>6. n \in T
  BY <1>1, <1>5
<1> QED BY <1>1, <1>6 DEF T

-----------------------------------------------------------------------------
(* Tokens.                                                                 *)

(* The tokens of one symbol.                                               *)
Tokens(t, i) == [k \in 1 .. Weight(t[i]) |-> i]

(* A symbol has one token or two, at its place.                            *)
LEMMA TokensAre ==
  ASSUME NEW t, NEW i \in Nat
  PROVE  /\ Weight(t[i]) \in 1 .. 2
         /\ Tokens(t, i) \in Seq(Nat) /\ Len(Tokens(t, i)) = Weight(t[i])
         /\ \A k \in 1 .. Weight(t[i]) : Tokens(t, i)[k] = i
<1>1. Weight(t[i]) \in 1 .. 2 /\ Weight(t[i]) \in Nat
  BY DEF Weight
<1> QED BY <1>1 DEF Tokens

(* One symbol more adds its tokens.                                        *)
LEMMA OffsetsNext ==
  ASSUME NEW t, NEW a \in Nat, NEW b \in Nat, a <= b
  PROVE  /\ Offsets(t, <<a, a>>) = <<>>
         /\ Offsets(t, <<a, b>>) \in Seq(Nat)
         /\ Offsets(t, <<a, b + 1>>) = Offsets(t, <<a, b>>) \o Tokens(t, b)
<1> DEFINE S(e) == [i \in 1 .. (e - a) |-> Tokens(t, a + i - 1)]
<1>1. \A e \in Nat : a <= e => /\ Offsets(t, <<a, e>>) = FlattenSeq(S(e))
                               /\ S(e) \in Seq(Seq(Nat)) /\ Len(S(e)) = e - a
  <2> SUFFICES ASSUME NEW e \in Nat, a <= e
               PROVE  /\ Offsets(t, <<a, e>>) = FlattenSeq(S(e))
                      /\ S(e) \in Seq(Seq(Nat)) /\ Len(S(e)) = e - a
    OBVIOUS
  <2>1. e - a \in Nat /\ \A i \in 1 .. (e - a) : a + i - 1 \in Nat
    OBVIOUS
  <2>2. \A i \in 1 .. (e - a) : Tokens(t, a + i - 1) \in Seq(Nat)
    BY <2>1, TokensAre
  <2>3. <<a, e>>[1] = a /\ <<a, e>>[2] = e
    OBVIOUS
  <2>4. S(e) \in Seq(Seq(Nat)) /\ Len(S(e)) = e - a
    <3>1. \A u : \A n \in Nat : (\A i \in 1 .. n : u[i] \in Seq(Nat))
                             => /\ [i \in 1 .. n |-> u[i]] \in Seq(Seq(Nat))
                                /\ Len([i \in 1 .. n |-> u[i]]) = n
      OBVIOUS
    <3> DEFINE u == [i \in 1 .. (e - a) |-> Tokens(t, a + i - 1)]
    <3>2. \A i \in 1 .. (e - a) : u[i] \in Seq(Nat)
      BY <2>2
    <3>3. u = [i \in 1 .. (e - a) |-> u[i]]
      OBVIOUS
    <3>4. S(e) = u
      OBVIOUS
    <3> HIDE DEF u, S
    <3> QED BY <2>1, <3>1, <3>2, <3>3, <3>4
  <2>5. Offsets(t, <<a, e>>) = FlattenSeq(S(e))
    BY <2>3, Zenon DEF Offsets, Tokens
  <2> HIDE DEF S
  <2> QED BY <2>4, <2>5
<1>2. Offsets(t, <<a, a>>) = <<>>
  <2>1. FlattenSeq(S(a)) = S(a) /\ S(a) \in Seq(Seq(Nat)) /\ Len(S(a)) = 0
    <3>1. a <= a /\ a - a = 0
      OBVIOUS
    <3>2. Len(S(a)) = 0 /\ S(a) \in Seq(Seq(Nat))
      BY <1>1, <3>1
    <3> HIDE DEF S
    <3> QED BY <3>2, FlattenNone, Zenon
  <2> HIDE DEF S
  <2>2. a <= a
    OBVIOUS
  <2> QED BY <1>1, <2>1, <2>2, EmptySeq
<1>3. Offsets(t, <<a, b>>) \in Seq(Nat)
  <2> HIDE DEF S
  <2> QED BY <1>1, FlatMembers
<1>4. Offsets(t, <<a, b + 1>>) = Offsets(t, <<a, b>>) \o Tokens(t, b)
  <2> DEFINE m == b - a
  <2>1. b + 1 \in Nat /\ a <= b + 1 /\ (b + 1) - a = m + 1 /\ m \in Nat /\ a + (m + 1) - 1 = b
    OBVIOUS
  <2>2. S(b + 1)[m + 1] = Tokens(t, b) /\ \A k \in 1 .. m : S(b + 1)[k] = S(b)[k]
    BY <2>1
  <2> HIDE DEF S, m
  <2>3. /\ Offsets(t, <<a, b + 1>>) = FlattenSeq(S(b + 1)) /\ Offsets(t, <<a, b>>) = FlattenSeq(S(b))
        /\ S(b) \in Seq(Seq(Nat)) /\ S(b + 1) \in Seq(Seq(Nat))
        /\ Len(S(b)) = m /\ Len(S(b + 1)) = m + 1
    BY <1>1, <2>1 DEF m
  <2>4. PICK g : Run(S(b + 1), g) /\ FlattenSeq(S(b + 1)) = g[m + 1]
    BY <2>3, RunExists
  <2>5. Run(S(b), g)
    <3>1. \A k \in 1 .. m : k \in 1 .. (m + 1)
      BY <2>1
    <3> QED BY <2>2, <2>3, <2>4, <3>1 DEF Run
  <2>6. FlattenSeq(S(b)) = g[m]
    BY <2>3, <2>5, RunIs
  <2>7. g[m + 1] = g[m] \o S(b + 1)[m + 1]
    <3>1. m + 1 \in 1 .. (m + 1) /\ (m + 1) - 1 = m
      BY <2>1
    <3> QED BY <2>3, <2>4, <3>1 DEF Run
  <2> QED BY <2>2, <2>3, <2>4, <2>6, <2>7
<1> QED BY <1>2, <1>3, <1>4

(* Every token belongs to the symbol it was counted with.                  *)
LEMMA CountNext ==
  ASSUME NEW t, NEW a \in Nat, NEW b \in Nat, a <= b
  PROVE  /\ TokenCount(t, <<a, a>>) = 0
         /\ TokenCount(t, <<a, b>>) \in Nat
         /\ TokenCount(t, <<a, b + 1>>) = TokenCount(t, <<a, b>>) + Weight(t[b])
         /\ Weight(t[b]) \in 1 .. 2
<1>1. Offsets(t, <<a, b>>) \in Seq(Nat) /\ Tokens(t, b) \in Seq(Nat)
  BY OffsetsNext, TokensAre
<1>2. Len(Offsets(t, <<a, b>>) \o Tokens(t, b)) = Len(Offsets(t, <<a, b>>)) + Len(Tokens(t, b))
  BY <1>1, ConcatIs
<1>3. Len(Offsets(t, <<a, b>>)) \in Nat
  BY <1>1, ConcatIs
<1>4. Len(Offsets(t, <<a, a>>)) = 0
  <2>1. Offsets(t, <<a, a>>) = <<>>
    BY OffsetsNext
  <2> QED BY <2>1, EmptySeq
<1>5. Offsets(t, <<a, b + 1>>) = Offsets(t, <<a, b>>) \o Tokens(t, b)
  BY OffsetsNext
<1>6. Len(Tokens(t, b)) = Weight(t[b]) /\ Weight(t[b]) \in 1 .. 2
  BY TokensAre
<1> QED BY <1>2, <1>3, <1>4, <1>5, <1>6 DEF TokenCount

(* Tokens add up, and there are at least as many as symbols.               *)
LEMMA CountSplit ==
  ASSUME NEW t, NEW a \in Nat, NEW b \in Nat, NEW c \in Nat, a <= b, b <= c
  PROVE  /\ TokenCount(t, <<a, c>>) = TokenCount(t, <<a, b>>) + TokenCount(t, <<b, c>>)
         /\ TokenCount(t, <<a, b>>) \in Nat /\ TokenCount(t, <<b, c>>) \in Nat
         /\ c - b <= TokenCount(t, <<b, c>>)
<1> DEFINE N(x, y) == TokenCount(t, <<x, y>>)
           n == c - b
           T == {k \in 0 .. n : N(a, b + k) = N(a, b) + N(b, b + k) /\ k <= N(b, b + k)}
<1>1. n \in Nat /\ N(a, b) \in Nat /\ N(b, b) = 0 /\ b + n = c /\ b + 0 = b
  <2>1. b <= b /\ c - b \in Nat /\ b + (c - b) = c /\ b + 0 = b
    OBVIOUS
  <2>2. N(a, b) \in Nat
    BY CountNext
  <2>3. N(b, b) = 0
    BY <2>1, CountNext
  <2> QED BY <2>1, <2>2, <2>3
<1> HIDE DEF n
<1>2. 0 \in T
  <2> HIDE DEF N
  <2>1. N(a, b + 0) = N(a, b) + N(b, b + 0) /\ 0 <= N(b, b + 0) /\ 0 \in 0 .. n
    BY <1>1
  <2> QED BY <2>1
<1>3. ASSUME NEW k \in 0 .. n, k < n, k \in T
      PROVE  k + 1 \in T
  <2>1. k + 1 \in 0 .. n /\ b + k \in Nat /\ a <= b + k /\ b <= b + k /\ b + (k + 1) = (b + k) + 1
    BY <1>1, <1>3
  <2>2. /\ N(a, (b + k) + 1) = N(a, b + k) + Weight(t[b + k])
        /\ N(b, (b + k) + 1) = N(b, b + k) + Weight(t[b + k])
        /\ Weight(t[b + k]) \in 1 .. 2 /\ N(a, b + k) \in Nat /\ N(b, b + k) \in Nat
    BY <2>1, CountNext
  <2>3. N(a, b + k) = N(a, b) + N(b, b + k) /\ k <= N(b, b + k)
    BY <1>3
  <2> HIDE DEF N
  <2>4. N(a, b + (k + 1)) = N(a, b) + N(b, b + (k + 1)) /\ k + 1 <= N(b, b + (k + 1))
    BY <1>1, <2>1, <2>2, <2>3
  <2> QED BY <2>1, <2>4
<1>4. N(b, c) \in Nat
  BY CountNext
<1> HIDE DEF T, n
<1>5. 0 .. n \subseteq T
  <2>1. \A k \in 0 .. n : k < n /\ k \in T => k + 1 \in T
    BY <1>3
  <2> QED BY <1>1, <1>2, <2>1, CountUp
<1>6. n \in T
  BY <1>1, <1>5
<1>7. N(a, c) = N(a, b) + N(b, c) /\ n <= N(b, c)
  BY <1>1, <1>6 DEF T
<1> QED BY <1>1, <1>4, <1>7 DEF n

(* The symbol of the k-th token has fewer than k tokens before it.         *)
LEMMA TokenAt ==
  ASSUME NEW t, NEW a \in Nat, NEW b \in Nat, a <= b,
         NEW k \in 1 .. TokenCount(t, <<a, b>>)
  PROVE  LET i == Offsets(t, <<a, b>>)[k]
         IN  /\ i \in a .. (b - 1)
             /\ TokenCount(t, <<a, i>>) < k /\ k <= TokenCount(t, <<a, i + 1>>)
<1> DEFINE N(y) == TokenCount(t, <<a, y>>)
           O(y) == Offsets(t, <<a, y>>)
           Good(y) == \A j \in 1 .. N(y) : /\ O(y)[j] \in a .. (y - 1)
                                           /\ N(O(y)[j]) < j /\ j <= N(O(y)[j] + 1)
           n == b - a
           T == {m \in 0 .. n : Good(a + m)}
<1>1. n \in Nat /\ a + n = b /\ a + 0 = a /\ N(a) = 0
  <2>1. b - a \in Nat /\ a + (b - a) = b /\ a + 0 = a
    OBVIOUS
  <2>2. TokenCount(t, <<a, a>>) = 0
    BY CountNext
  <2> QED BY <2>1, <2>2
<1> HIDE DEF n
<1>2. 0 \in T
  <2>1. 1 .. N(a) = {} /\ 0 \in 0 .. n
    <3> HIDE DEF N
    <3> QED BY <1>1
  <2> HIDE DEF N, O
  <2> QED BY <1>1, <2>1
<1>3. ASSUME NEW m \in 0 .. n, m < n, m \in T
      PROVE  m + 1 \in T
  <2> DEFINE y == a + m
  <2>1. m + 1 \in 0 .. n /\ y \in Nat /\ a <= y /\ a + (m + 1) = y + 1 /\ (y + 1) - 1 = y
    BY <1>1, <1>3
  <2> HIDE DEF y
  <2>2. /\ O(y + 1) = O(y) \o Tokens(t, y) /\ O(y) \in Seq(Nat) /\ Tokens(t, y) \in Seq(Nat)
        /\ Len(O(y)) = N(y) /\ Len(Tokens(t, y)) = Weight(t[y]) /\ N(y) \in Nat
        /\ N(y + 1) = N(y) + Weight(t[y]) /\ Weight(t[y]) \in 1 .. 2
        /\ \A j \in 1 .. Weight(t[y]) : Tokens(t, y)[j] = y
    <3>1. /\ O(y + 1) = O(y) \o Tokens(t, y) /\ O(y) \in Seq(Nat)
      BY <2>1, OffsetsNext
    <3>2. N(y) \in Nat /\ N(y + 1) = N(y) + Weight(t[y])
      BY <2>1, CountNext
    <3>3. Len(O(y)) = N(y)
      BY DEF TokenCount
    <3> HIDE DEF O, N
    <3> QED BY <2>1, <3>1, <3>2, <3>3, TokensAre
  <2>3. Good(y)
    BY <1>3 DEF y
  <2> HIDE DEF N
  <2>4. ASSUME NEW j \in 1 .. N(y + 1)
        PROVE  /\ O(y + 1)[j] \in a .. ((y + 1) - 1)
               /\ N(O(y + 1)[j]) < j /\ j <= N(O(y + 1)[j] + 1)
    <3>1. CASE j \in 1 .. N(y)
      <4>1. O(y + 1)[j] = O(y)[j]
        <5> HIDE DEF O
        <5>1. \A i \in 1 .. Len(O(y)) : (O(y) \o Tokens(t, y))[i] = O(y)[i]
          BY <2>2, ConcatIs
        <5> QED BY <2>2, <3>1, <5>1
      <4>2. O(y)[j] \in a .. (y - 1) /\ N(O(y)[j]) < j /\ j <= N(O(y)[j] + 1)
        BY <2>3, <3>1
      <4>3. \A i \in a .. (y - 1) : i \in a .. ((y + 1) - 1)
        BY <2>1
      <4> HIDE DEF O
      <4> QED BY <4>1, <4>2, <4>3
    <3>2. CASE j \notin 1 .. N(y)
      <4>1. j - N(y) \in 1 .. Weight(t[y]) /\ j \in Nat /\ N(y) < j /\ j <= N(y + 1)
        <5>1. j \in Nat /\ j >= 1 /\ j <= N(y + 1)
          BY <2>2
        <5> QED BY <2>2, <3>2, <5>1
      <4>2. j = Len(O(y)) + (j - N(y))
        <5>1. \A x, z \in Nat : x = z + (x - z)
          OBVIOUS
        <5> HIDE DEF O
        <5> QED BY <2>2, <4>1, <5>1
      <4>3. O(y + 1)[j] = Tokens(t, y)[j - N(y)]
        <5>1. \A i \in 1 .. Len(Tokens(t, y)) :
                (O(y) \o Tokens(t, y))[Len(O(y)) + i] = Tokens(t, y)[i]
          BY <2>2, ConcatIs
        <5> QED BY <2>2, <4>1, <4>2, <5>1
      <4>4. O(y + 1)[j] = y
        BY <2>2, <4>1, <4>3
      <4>5. y \in a .. ((y + 1) - 1)
        BY <2>1
      <4> HIDE DEF O
      <4> QED BY <4>1, <4>4, <4>5
    <3> QED BY <3>1, <3>2
  <2>5. Good(a + (m + 1))
    <3> HIDE DEF O
    <3> QED BY <2>1, <2>4
  <2> HIDE DEF Good
  <2> QED BY <2>1, <2>5
<1> HIDE DEF T, n
<1>4. 0 .. n \subseteq T
  <2>1. \A m \in 0 .. n : m < n /\ m \in T => m + 1 \in T
    BY <1>3
  <2> QED BY <1>1, <1>2, <2>1, CountUp
<1>5. n \in T
  BY <1>1, <1>4
<1>6. Good(b)
  <2> HIDE DEF Good
  <2> QED BY <1>1, <1>5 DEF T
<1> QED BY <1>6

-----------------------------------------------------------------------------
(* Windows.                                                                *)

(* Tokens come in the order of their symbols, and a symbol has at most two. *)
LEMMA TokensInOrder ==
  ASSUME NEW t, NEW a \in Nat, NEW b \in Nat, a <= b,
         NEW p \in 1 .. TokenCount(t, <<a, b>>), NEW q \in 1 .. TokenCount(t, <<a, b>>), p <= q
  PROVE  /\ Offsets(t, <<a, b>>)[p] <= Offsets(t, <<a, b>>)[q]
         /\ p + 2 <= q => Offsets(t, <<a, b>>)[p] < Offsets(t, <<a, b>>)[q]
<1> DEFINE N(y) == TokenCount(t, <<a, y>>)
           i == Offsets(t, <<a, b>>)[p]
           j == Offsets(t, <<a, b>>)[q]
<1>1. /\ i \in a .. (b - 1) /\ N(i) < p /\ p <= N(i + 1)
      /\ j \in a .. (b - 1) /\ N(j) < q /\ q <= N(j + 1)
  BY TokenAt
<1> HIDE DEF i, j
<1>2. i \in Nat /\ j \in Nat /\ a <= i /\ a <= j /\ a <= i + 1 /\ a <= j + 1 /\ j + 1 \in Nat
  BY <1>1
<1>3. N(i) \in Nat /\ N(j) \in Nat /\ N(j + 1) \in Nat /\ N(j + 1) <= N(j) + 2
  <2>1. /\ N(i) \in Nat /\ N(j) \in Nat /\ N(j + 1) \in Nat
        /\ N(j + 1) = N(j) + Weight(t[j]) /\ Weight(t[j]) \in 1 .. 2
    BY <1>2, CountNext
  <2> HIDE DEF N
  <2> QED BY <2>1
<1>4. ASSUME j < i PROVE FALSE
  <2>1. j + 1 <= i
    BY <1>2, <1>4
  <2>2. N(i) = N(j + 1) + TokenCount(t, <<j + 1, i>>) /\ TokenCount(t, <<j + 1, i>>) \in Nat
    BY <1>2, <2>1, CountSplit
  <2> HIDE DEF N
  <2> QED BY <1>1, <1>3, <2>2
<1>5. ASSUME p + 2 <= q, i = j PROVE FALSE
  <2> HIDE DEF N
  <2> QED BY <1>1, <1>3, <1>5
<1>6. i <= j /\ (p + 2 <= q => i < j)
  BY <1>2, <1>4, <1>5
<1> QED BY <1>6 DEF i, j

(* Arithmetic that the solver does not do by itself.                       *)
LEMMA Multiples ==
  ASSUME NEW s \in Nat
  PROVE  /\ \A k \in Nat : k * s \in Nat /\ (k + 1) * s = k * s + s
         /\ \A j, k \in Nat : j < k => j * s + s <= k * s
         /\ s >= 1 => \A k \in Nat : k <= k * s
         /\ 0 * s = 0
<1>1. \A k \in Nat : k * s \in Nat /\ (k + 1) * s = k * s + s
  OBVIOUS
<1>2. 0 * s = 0
  OBVIOUS
<1>3. ASSUME NEW j \in Nat, NEW k \in Nat, j < k
      PROVE  j * s + s <= k * s
  <2> DEFINE m == k - (j + 1)
  <2>1. m \in Nat /\ k = (j + 1) + m
    BY <1>3
  <2> HIDE DEF m
  <2>2. m * s \in Nat /\ (j + 1) * s \in Nat
    BY <1>1, <2>1
  <2>3. ((j + 1) + m) * s = (j + 1) * s + m * s
    BY <2>1
  <2> QED BY <1>1, <2>1, <2>2, <2>3
<1>4. ASSUME s >= 1, NEW k \in Nat
      PROVE  k <= k * s
  <2> DEFINE r == s - 1
  <2>1. r \in Nat /\ s = r + 1
    BY <1>4
  <2> HIDE DEF r
  <2>2. k * r \in Nat
    BY <2>1
  <2>3. k * (r + 1) = k * r + k
    BY <2>1
  <2> QED BY <2>1, <2>2, <2>3
<1> QED BY <1>1, <1>2, <1>3, <1>4

(* The windows as the definition counts them: m of them, the last the      *)
(* first that reaches the end.                                             *)
Counted(t, a, b, limit, overlap, w, m) ==
  LET at == Offsets(t, <<a, b>>)
      n == TokenCount(t, <<a, b>>)
      B(k) == (k - 1) * (limit - overlap)
  IN  /\ w = [k \in 1 .. m |-> <<at[B(k) + 1],
                                 IF B(k) + limit >= n THEN b ELSE at[B(k) + limit + 1]>>]
      /\ B(m) + limit >= n
      /\ \A j \in 1 .. (m - 1) : ~(B(j) + limit >= n)

(* There is a first window that reaches the end, and the windows are those *)
(* up to it.                                                               *)
LEMMA TokenWindowsAre ==
  ASSUME NEW t, NEW a \in Nat, NEW b \in Nat, a < b,
         NEW limit \in Nat, NEW overlap \in Nat, overlap < limit
  PROVE  \E m \in 1 .. TokenCount(t, <<a, b>>) :
           Counted(t, a, b, limit, overlap, TokenWindows(t, <<a, b>>, limit, overlap), m)
<1> DEFINE at == Offsets(t, <<a, b>>)
           n == TokenCount(t, <<a, b>>)
           s == limit - overlap
           B(k) == (k - 1) * s
           Enough(m) == B(m) + limit >= n
           First(m) == Enough(m) /\ \A j \in 1 .. (m - 1) : ~Enough(j)
<1>1. n \in Nat /\ n >= 1 /\ s \in Nat /\ s >= 1
  <2>1. n \in Nat /\ b - a <= n
    <3>1. a <= a /\ a <= b
      OBVIOUS
    <3> QED BY <3>1, CountSplit
  <2>2. b - a >= 1 /\ b - a \in Nat /\ s \in Nat /\ s >= 1
    OBVIOUS
  <2> HIDE DEF n
  <2> QED BY <2>1, <2>2
<1>2. \E m \in 1 .. n : First(m)
  <2> DEFINE T == {m \in 1 .. n : Enough(m)}
  <2>1. n \in T
    <3> HIDE DEF n, s
    <3>1. n - 1 \in Nat /\ n \in 1 .. n
      BY <1>1
    <3>2. n - 1 <= (n - 1) * s /\ (n - 1) * s \in Nat
      BY <1>1, <3>1, Multiples
    <3>3. limit >= 1
      OBVIOUS
    <3>4. (n - 1) * s + limit >= n
      BY <1>1, <3>2, <3>3
    <3> QED BY <3>1, <3>4
  <2>2. T \in SUBSET Nat
    <3> HIDE DEF Enough
    <3> QED OBVIOUS
  <2> HIDE DEF T
  <2>3. PICK m \in T : \A k \in T : m <= k
    BY <2>1, <2>2, LeastNat
  <2>4. m \in 1 .. n /\ Enough(m)
    BY <2>3 DEF T
  <2>5. ASSUME NEW j \in 1 .. (m - 1), Enough(j) PROVE FALSE
    <3> HIDE DEF Enough, n
    <3>1. j \in 1 .. n /\ ~(m <= j)
      BY <1>1, <2>4
    <3> QED BY <2>3, <2>5, <3>1 DEF T
  <2> QED BY <2>4, <2>5
<1> DEFINE count == CHOOSE m \in 1 .. n : First(m)
<1>3. count \in 1 .. n /\ First(count)
  <2> HIDE DEF First, n
  <2> QED BY <1>2
<1>4. at # <<>>
  <2>1. at = <<>> => Len(at) = 0
    BY EmptySeq
  <2>2. Len(at) = n
    BY DEF TokenCount
  <2> HIDE DEF at, n
  <2> QED BY <1>1, <2>1, <2>2
<1>5. TokenWindows(t, <<a, b>>, limit, overlap) =
        [k \in 1 .. count |-> <<at[B(k) + 1],
                                IF B(k) + limit >= n THEN b ELSE at[B(k) + limit + 1]>>]
  <2>1. <<a, b>>[2] = b
    OBVIOUS
  <2> QED BY <1>4, <2>1, Zenon DEF TokenWindows, Windows, TokenCount
<1> HIDE DEF count
<1> QED BY <1>3, <1>5, Zenon DEF Counted

(* What windows are good for: they begin with the range, go on where the   *)
(* one before has not ended yet, and end with the range.  None begins past *)
(* the range, and none has more tokens than the limit and one.             *)
Windowed(t, w, a, b, limit) ==
  /\ Covers(w, a, b)
  /\ \A k \in 1 .. Len(w) :
       /\ w[k] = <<w[k][1], w[k][2]>> /\ w[k][1] \in Nat /\ w[k][2] \in Nat
       /\ a <= w[k][1] /\ w[k][1] < b /\ w[k][1] <= w[k][2] /\ w[k][2] <= b
       /\ TokenCount(t, w[k]) \in Nat
       /\ TokenCount(t, w[k]) <= limit + 1

(* The windows of a range cover it, and tile it when they share nothing;   *)
(* with a step that is longer than a symbol no two begin at the same       *)
(* place.                                                                  *)
LEMMA WindowsCover ==
  ASSUME NEW t, NEW a \in Nat, NEW b \in Nat, a < b,
         NEW limit \in Nat, NEW overlap \in Nat, overlap < limit,
         NEW w, w = TokenWindows(t, <<a, b>>, limit, overlap)
  PROVE  /\ Windowed(t, w, a, b, limit) /\ Len(w) >= 1
         /\ overlap = 0 => Tiles(w, a, b)
         /\ overlap + 2 <= limit =>
              \A j, k \in 1 .. Len(w) : j < k => w[j][1] < w[k][1]
<1> DEFINE at == Offsets(t, <<a, b>>)
           N(y) == TokenCount(t, <<a, y>>)
           n == N(b)
           s == limit - overlap
           B(k) == (k - 1) * s
           Lo(k) == at[B(k) + 1]
           Hi(k) == IF B(k) + limit >= n THEN b ELSE at[B(k) + limit + 1]
<1>0. PICK m \in 1 .. n : Counted(t, a, b, limit, overlap, w, m)
  BY TokenWindowsAre
<1>1. /\ w = [k \in 1 .. m |-> <<Lo(k), Hi(k)>>]
      /\ B(m) + limit >= n
      /\ \A j \in 1 .. (m - 1) : ~(B(j) + limit >= n)
  BY <1>0, Zenon DEF Counted
<1>2. n \in Nat /\ s \in Nat /\ s >= 1 /\ s <= limit /\ limit >= 1 /\ m \in Nat /\ m >= 1
  <2>1. n \in Nat
    <3>1. a <= b
      OBVIOUS
    <3> QED BY <3>1, CountNext
  <2>2. s \in Nat /\ s >= 1 /\ s <= limit /\ limit >= 1
    OBVIOUS
  <2> HIDE DEF n, s
  <2> QED BY <2>1, <2>2
<1>3. /\ B(1) = 0
      /\ \A k \in 1 .. m : B(k) \in Nat
      /\ \A k \in 1 .. m : k > 1 => B(k) = B(k - 1) + s
      /\ \A j, k \in 1 .. m : j < k => B(j) + s <= B(k)
  <2> HIDE DEF s
  <2>1. \A k \in 1 .. m : k - 1 \in Nat
    BY <1>2
  <2>2. B(1) = 0
    BY <1>2, Multiples
  <2>3. \A k \in 1 .. m : B(k) \in Nat
    BY <1>2, <2>1, Multiples
  <2>4. \A j, k \in 1 .. m : j < k => B(j) + s <= B(k)
    <3> SUFFICES ASSUME NEW j \in 1 .. m, NEW k \in 1 .. m, j < k
                 PROVE  B(j) + s <= B(k)
      OBVIOUS
    <3>1. j - 1 \in Nat /\ k - 1 \in Nat /\ j - 1 < k - 1
      BY <1>2
    <3> QED BY <1>2, <3>1, Multiples
  <2>5. \A k \in 1 .. m : k > 1 => B(k) = B(k - 1) + s
    <3> SUFFICES ASSUME NEW k \in 1 .. m, k > 1
                 PROVE  B(k) = B(k - 1) + s
      OBVIOUS
    <3>1. k - 2 \in Nat /\ (k - 2) + 1 = k - 1 /\ (k - 1) - 1 = k - 2
      BY <1>2
    <3>2. ((k - 2) + 1) * s = (k - 2) * s + s
      BY <1>2, <3>1, Multiples
    <3> QED BY <3>1, <3>2
  <2> QED BY <2>2, <2>3, <2>4, <2>5
<1> HIDE DEF B
<1>4. \A p \in 1 .. n : at[p] \in a .. (b - 1) /\ N(at[p]) < p /\ p <= N(at[p] + 1)
  BY TokenAt
<1>5. \A p, q \in 1 .. n : p <= q => at[p] <= at[q] /\ (p + 2 <= q => at[p] < at[q])
  BY TokensInOrder
<1>6. \A y \in Nat : a <= y => N(y) \in Nat /\ N(y + 1) <= N(y) + 2 /\ N(y + 1) \in Nat
  <2> SUFFICES ASSUME NEW y \in Nat, a <= y
               PROVE  N(y) \in Nat /\ N(y + 1) <= N(y) + 2 /\ N(y + 1) \in Nat
    OBVIOUS
  <2>1. N(y) \in Nat /\ N(y + 1) = N(y) + Weight(t[y]) /\ Weight(t[y]) \in 1 .. 2
    BY CountNext
  <2> HIDE DEF N
  <2> QED BY <2>1
<1>7. \A x, y \in Nat : a <= x /\ x <= y => N(y) = N(x) + TokenCount(t, <<x, y>>) /\ TokenCount(t, <<x, y>>) \in Nat
  BY CountSplit
<1>8. N(a) = 0
  <2>1. a <= a
    OBVIOUS
  <2> QED BY <2>1, CountNext
<1>9. \A y \in Nat : a <= y => y - a <= N(y)
  <2> SUFFICES ASSUME NEW y \in Nat, a <= y
               PROVE  y - a <= N(y)
    OBVIOUS
  <2>1. a <= a
    OBVIOUS
  <2> QED BY <2>1, CountSplit
<1>10. n = N(b)
  OBVIOUS
<1> HIDE DEF at, N, n
(* The tokens that windows begin with and end before.                      *)
<1>11. \A k \in 1 .. m : /\ k < m => B(k) + limit < n
                         /\ k = m => ~(B(k) + limit < n)
                         /\ B(k) + 1 \in 1 .. n
  <2> SUFFICES ASSUME NEW k \in 1 .. m
               PROVE  /\ k < m => B(k) + limit < n
                      /\ k = m => ~(B(k) + limit < n)
                      /\ B(k) + 1 \in 1 .. n
    OBVIOUS
  <2>1. B(k) \in Nat
    BY <1>3
  <2>2. k < m => B(k) + limit < n
    <3>1. k < m => k \in 1 .. (m - 1)
      BY <1>2
    <3> QED BY <1>1, <1>2, <2>1, <3>1
  <2>3. k = m => ~(B(k) + limit < n)
    BY <1>1, <1>2, <2>1
  <2>4. CASE k = 1
    <3>1. B(k) = 0 /\ n >= 1
      BY <1>1, <1>2, <1>3, <2>4
    <3> QED BY <1>2, <2>2, <2>3, <3>1
  <2>5. CASE k # 1
    <3>1. k - 1 \in 1 .. m /\ k > 1 /\ k - 1 \in 1 .. (m - 1)
      BY <1>2, <2>5
    <3>2. B(k) = B(k - 1) + s /\ B(k - 1) \in Nat
      BY <1>3, <3>1
    <3>3. ~(B(k - 1) + limit >= n)
      BY <1>1, <3>1
    <3>4. B(k) < n
      BY <1>2, <3>2, <3>3
    <3> QED BY <1>2, <2>1, <2>2, <2>3, <3>4
  <2> QED BY <2>4, <2>5
<1> HIDE DEF s
<1>12. \A k \in 1 .. m : \/ k < m /\ Hi(k) = at[B(k) + limit + 1] /\ B(k) + limit + 1 \in 1 .. n
                         \/ k = m /\ Hi(k) = b /\ n <= B(k) + limit
  <2> SUFFICES ASSUME NEW k \in 1 .. m
               PROVE  \/ k < m /\ Hi(k) = at[B(k) + limit + 1] /\ B(k) + limit + 1 \in 1 .. n
                      \/ k = m /\ Hi(k) = b /\ n <= B(k) + limit
    OBVIOUS
  <2>1. B(k) \in Nat
    BY <1>3
  <2>2. CASE k < m
    <3>1. ~(B(k) + limit >= n) /\ B(k) + limit + 1 \in 1 .. n
      BY <1>2, <1>11, <2>1, <2>2
    <3> QED BY <2>2, <3>1
  <2>3. CASE k = m
    <3>1. B(k) + limit >= n /\ n <= B(k) + limit
      BY <1>2, <1>11, <2>1, <2>3
    <3> QED BY <2>3, <3>1
  <2>4. k < m \/ k = m
    BY <1>2
  <2> QED BY <2>2, <2>3, <2>4
<1>13. \A k \in 1 .. m : Lo(k) \in a .. (b - 1) /\ Hi(k) \in a .. b /\ Lo(k) <= Hi(k)
  <2> SUFFICES ASSUME NEW k \in 1 .. m
               PROVE  Lo(k) \in a .. (b - 1) /\ Hi(k) \in a .. b /\ Lo(k) <= Hi(k)
    OBVIOUS
  <2>1. B(k) \in Nat /\ B(k) + 1 \in 1 .. n
    BY <1>3, <1>11
  <2>2. Lo(k) \in a .. (b - 1)
    BY <1>4, <2>1
  <2>3. CASE k < m /\ Hi(k) = at[B(k) + limit + 1] /\ B(k) + limit + 1 \in 1 .. n
    <3>1. B(k) + 1 <= B(k) + limit + 1
      BY <2>1
    <3>2. Lo(k) <= at[B(k) + limit + 1]
      BY <1>5, <2>1, <2>3, <3>1
    <3>3. at[B(k) + limit + 1] \in a .. (b - 1)
      BY <1>4, <2>3
    <3>4. \A i : i \in a .. (b - 1) => i \in a .. b
      OBVIOUS
    <3> HIDE DEF Lo, Hi
    <3> QED BY <2>2, <2>3, <3>2, <3>3, <3>4
  <2>4. CASE k = m /\ Hi(k) = b /\ n <= B(k) + limit
    <3>1. b \in a .. b /\ \A i : i \in a .. (b - 1) => i <= b
      OBVIOUS
    <3> HIDE DEF Lo, Hi
    <3> QED BY <2>2, <2>4, <3>1
  <2> QED BY <1>12, <2>3, <2>4
<1>14. \A k \in 1 .. m : TokenCount(t, <<Lo(k), Hi(k)>>) \in Nat /\ TokenCount(t, <<Lo(k), Hi(k)>>) <= limit + 1
  <2> SUFFICES ASSUME NEW k \in 1 .. m
               PROVE  /\ TokenCount(t, <<Lo(k), Hi(k)>>) \in Nat
                      /\ TokenCount(t, <<Lo(k), Hi(k)>>) <= limit + 1
    OBVIOUS
  <2> DEFINE x == Lo(k)
             y == Hi(k)
  <2>1. B(k) \in Nat /\ B(k) + 1 \in 1 .. n
    BY <1>3, <1>11
  <2>2. B(k) + 1 <= N(x + 1)
    BY <1>4, <2>1
  <2>3. N(y) <= B(k) + limit
    <3>1. CASE k < m /\ Hi(k) = at[B(k) + limit + 1] /\ B(k) + limit + 1 \in 1 .. n
      <4>1. N(y) < B(k) + limit + 1
        BY <1>4, <3>1
      <4>2. N(y) \in Nat
        <5>1. y \in Nat /\ a <= y
          <6> HIDE DEF Lo, Hi
          <6> QED BY <1>13
        <5> QED BY <1>6, <5>1
      <4> HIDE DEF y
      <4> QED BY <2>1, <4>1, <4>2
    <3>2. CASE k = m /\ Hi(k) = b /\ n <= B(k) + limit
      BY <1>10, <3>2
    <3> QED BY <1>12, <3>1, <3>2
  <2>4. x \in Nat /\ y \in Nat /\ a <= x /\ x <= y /\ a <= y
    <3> HIDE DEF Lo, Hi
    <3> QED BY <1>13
  <2> HIDE DEF x, y
  <2>5. N(y) = N(x) + TokenCount(t, <<x, y>>) /\ TokenCount(t, <<x, y>>) \in Nat
    BY <1>7, <2>4
  <2>6. N(x + 1) <= N(x) + 2 /\ N(x) \in Nat /\ N(x + 1) \in Nat /\ N(y) \in Nat
    BY <1>6, <2>4
  <2>7. TokenCount(t, <<x, y>>) <= limit + 1
    BY <2>1, <2>2, <2>3, <2>5, <2>6
  <2> QED BY <2>5, <2>7 DEF x, y
<1>15. Lo(1) = a
  <2>1. 1 \in 1 .. m /\ B(1) + 1 = 1
    BY <1>2, <1>3
  <2>2. N(Lo(1)) < 1 /\ Lo(1) \in a .. (b - 1)
    BY <1>4, <1>11, <2>1
  <2> HIDE DEF Lo
  <2>3. N(Lo(1)) \in Nat /\ Lo(1) - a <= N(Lo(1)) /\ Lo(1) \in Nat /\ a <= Lo(1)
    BY <1>6, <1>9, <2>2
  <2> QED BY <2>2, <2>3
<1>16. \A k \in 2 .. m : /\ Lo(k) <= Hi(k - 1)
                         /\ overlap = 0 => Lo(k) = Hi(k - 1)
  <2> SUFFICES ASSUME NEW k \in 2 .. m
               PROVE  /\ Lo(k) <= Hi(k - 1)
                      /\ overlap = 0 => Lo(k) = Hi(k - 1)
    OBVIOUS
  <2>1. k - 1 \in 1 .. m /\ k - 1 < m /\ k \in 1 .. m /\ k > 1
    BY <1>2
  <2>2. Hi(k - 1) = at[B(k - 1) + limit + 1] /\ B(k - 1) + limit + 1 \in 1 .. n
    <3>1. k - 1 # m
      BY <2>1
    <3> HIDE DEF Hi
    <3> QED BY <1>12, <2>1, <3>1
  <2>3. B(k) = B(k - 1) + s /\ B(k - 1) \in Nat /\ B(k) + 1 \in 1 .. n
    BY <1>3, <1>11, <2>1
  <2>4. B(k) + 1 <= B(k - 1) + limit + 1
    BY <1>2, <2>3
  <2>5. overlap = 0 => B(k) + 1 = B(k - 1) + limit + 1
    BY <1>2, <2>3 DEF s
  <2> HIDE DEF Hi
  <2> QED BY <1>5, <2>2, <2>3, <2>4, <2>5
<1>17. Hi(m) = b
  <2>1. m \in 1 .. m /\ ~(m < m)
    BY <1>2
  <2> HIDE DEF Hi
  <2> QED BY <1>12, <2>1
<1>18. overlap + 2 <= limit => \A j, k \in 1 .. m : j < k => Lo(j) < Lo(k)
  <2> SUFFICES ASSUME overlap + 2 <= limit, NEW j \in 1 .. m, NEW k \in 1 .. m, j < k
               PROVE  Lo(j) < Lo(k)
    OBVIOUS
  <2>1. B(j) + s <= B(k) /\ B(j) \in Nat /\ B(k) \in Nat
    BY <1>3
  <2>2. s >= 2
    BY DEF s
  <2>3. B(j) + 1 \in 1 .. n /\ B(k) + 1 \in 1 .. n
    BY <1>11
  <2>4. B(j) + 1 <= B(k) + 1 /\ (B(j) + 1) + 2 <= B(k) + 1
    BY <1>2, <2>1, <2>2
  <2> QED BY <1>5, <2>3, <2>4
<1> HIDE DEF Lo, Hi
<1>19. /\ w \in Seq(Nat \X Nat) /\ Len(w) = m
       /\ \A k \in 1 .. m : w[k] = <<Lo(k), Hi(k)>> /\ w[k][1] = Lo(k) /\ w[k][2] = Hi(k)
  <2>1. \A k \in 1 .. m : <<Lo(k), Hi(k)>> \in Nat \X Nat
    BY <1>13
  <2>2. m \in Nat
    BY <1>2
  <2>3. w = [k \in 1 .. m |-> <<Lo(k), Hi(k)>>]
    BY <1>1
  <2>4. DOMAIN w = 1 .. m /\ \A k \in 1 .. m : w[k] = <<Lo(k), Hi(k)>>
    BY <2>3, Zenon
  <2>5. w \in [1 .. m -> Nat \X Nat]
    BY <2>1, <2>3, Zenon
  <2>6. \A k \in 1 .. m : <<Lo(k), Hi(k)>>[1] = Lo(k) /\ <<Lo(k), Hi(k)>>[2] = Hi(k)
    OBVIOUS
  <2>7. w \in Seq(Nat \X Nat) /\ Len(w) = m
    <3>1. \A u : (\A k \in 1 .. m : u[k] \in Nat \X Nat)
                  => /\ [k \in 1 .. m |-> u[k]] \in Seq(Nat \X Nat)
                     /\ Len([k \in 1 .. m |-> u[k]]) = m
      BY <2>2
    <3>2. w = [k \in 1 .. m |-> w[k]] /\ \A k \in 1 .. m : w[k] \in Nat \X Nat
      BY <2>5
    <3> QED BY <3>1, <3>2
  <2> QED BY <2>4, <2>6, <2>7
<1>20. EndAt(w, a, m) = b /\ \A k \in 1 .. m : EndAt(w, a, k - 1) = IF k = 1 THEN a ELSE Hi(k - 1)
  <2>1. m # 0 /\ m \in 1 .. m
    BY <1>2
  <2>2. \A k \in 1 .. m : k # 1 => k - 1 # 0 /\ k - 1 \in 1 .. m
    BY <1>2
  <2>3. 1 - 1 = 0
    OBVIOUS
  <2> QED BY <1>17, <1>19, <2>1, <2>2, <2>3 DEF EndAt
<1>21. \A k \in 1 .. m : /\ w[k][1] <= EndAt(w, a, k - 1)
                         /\ overlap = 0 => w[k][1] = EndAt(w, a, k - 1)
  <2> SUFFICES ASSUME NEW k \in 1 .. m
               PROVE  /\ w[k][1] <= EndAt(w, a, k - 1)
                      /\ overlap = 0 => w[k][1] = EndAt(w, a, k - 1)
    OBVIOUS
  <2>1. CASE k = 1
    <3>1. a <= a
      OBVIOUS
    <3> QED BY <1>15, <1>19, <1>20, <2>1, <3>1
  <2>2. CASE k # 1
    <3>1. k \in 2 .. m
      BY <1>2, <2>2
    <3> QED BY <1>16, <1>19, <1>20, <2>2, <3>1
  <2> QED BY <2>1, <2>2
<1>22. Windowed(t, w, a, b, limit)
  <2>1. Covers(w, a, b)
    BY <1>19, <1>20, <1>21 DEF Covers
  <2>2. \A k \in 1 .. m : /\ Lo(k) \in Nat /\ Hi(k) \in Nat /\ a <= Lo(k) /\ Lo(k) < b
                          /\ Lo(k) <= Hi(k) /\ Hi(k) <= b
    BY <1>13
  <2> QED BY <1>14, <1>19, <2>1, <2>2 DEF Windowed
<1>23. overlap = 0 => Tiles(w, a, b)
  <2>1. \A k \in 1 .. m : w[k][1] <= w[k][2]
    BY <1>13, <1>19
  <2> QED BY <1>19, <1>20, <1>21, <2>1 DEF Tiles
<1> QED BY <1>2, <1>18, <1>19, <1>22, <1>23

-----------------------------------------------------------------------------
(* Splitting and packing.                                                  *)

(* A function on the numbers up to n is a sequence.                        *)
LEMMA SequenceIs ==
  ASSUME NEW S, NEW n \in Nat, NEW f \in [1 .. n -> S]
  PROVE  f \in Seq(S) /\ Len(f) = n
<1>1. \A u : (\A k \in 1 .. n : u[k] \in S)
              => [k \in 1 .. n |-> u[k]] \in Seq(S) /\ Len([k \in 1 .. n |-> u[k]]) = n
  OBVIOUS
<1>2. f = [k \in 1 .. n |-> f[k]] /\ \A k \in 1 .. n : f[k] \in S
  OBVIOUS
<1> QED BY <1>1, <1>2

(* An appended element is a concatenation.                                 *)
LEMMA AppendIs ==
  ASSUME NEW S, NEW s \in Seq(S), NEW x \in S
  PROVE  Append(s, x) = s \o <<x>>
OBVIOUS

(* A sequence without its last element.                                    *)
LEMMA FrontIs ==
  ASSUME NEW S, NEW s \in Seq(S), s # <<>>
  PROVE  /\ Front(s) \in Seq(S) /\ Len(Front(s)) = Len(s) - 1
         /\ \A k \in 1 .. (Len(s) - 1) : Front(s)[k] = s[k]
         /\ Len(s) \in Nat /\ Len(s) >= 1
<1>1. Len(s) \in Nat /\ Len(s) # 0
  BY EmptySeq
<1> DEFINE m == Len(s) - 1
<1>2. m \in Nat /\ m <= Len(s) /\ Len(s) >= 1 /\ 1 <= m + 1
  BY <1>1
<1>3. SubSeq(s, 1, m) = [k \in 1 .. m |-> s[k]]
  <2>1. \A k \in 1 .. m : 1 + k - 1 = k
    BY <1>2
  <2>2. SubSeq(s, 1, m) = [k \in 1 .. (1 + m - 1) |-> s[1 + k - 1]] /\ 1 + m - 1 = m
    BY <1>2
  <2> QED BY <2>1, <2>2
<1>4. \A k \in 1 .. m : s[k] \in S
  BY <1>2
<1>5. [k \in 1 .. m |-> s[k]] \in [1 .. m -> S]
  BY <1>4
<1>6. SubSeq(s, 1, m) \in Seq(S) /\ Len(SubSeq(s, 1, m)) = m
  <2> HIDE DEF m
  <2> QED BY <1>2, <1>3, <1>5, SequenceIs
<1> QED BY <1>2, <1>3, <1>6 DEF Front

(* The greatest element of a set.                                          *)
LEMMA MaxIs ==
  ASSUME NEW T \in SUBSET Nat, NEW m \in T, \A n \in T : n <= m
  PROVE  Max(T) = m
<1>1. \A x \in T : (\A y \in T : x >= y) => x = m
  <2> SUFFICES ASSUME NEW x \in T, \A y \in T : x >= y
               PROVE  x = m
    OBVIOUS
  <2>1. x >= m /\ x <= m /\ x \in Nat /\ m \in Nat
    OBVIOUS
  <2> QED BY <2>1
<1>2. \A y \in T : m >= y
  OBVIOUS
<1> QED BY <1>1, <1>2, Zenon DEF Max

(* Splitting at blanks or paragraphs keeps every symbol.                   *)
LEMMA SplitTiles ==
  ASSUME NEW t, NEW a \in Nat, NEW b \in Nat, a < b, NEW breaks
  PROVE  Tiles(SplitPreserving(t, <<a, b>>, breaks), a, b)
<1> DEFINE C == {a, b} \cup {i \in (a + 1) .. (b - 1) : t[i - 1] \in breaks /\ t[i] \notin breaks}
           P(e) == Max({i \in C : i < e})
           n == b - a
           u == [k \in 1 .. n |-> IF a + k \in C THEN <<<<P(a + k), a + k>>>> ELSE <<>>]
<1>1. SplitPreserving(t, <<a, b>>, breaks) = FlattenSeq(u)
  <2>1. <<a, b>>[1] = a /\ <<a, b>>[2] = b
    OBVIOUS
  <2> QED BY <2>1, Zenon DEF SplitPreserving
<1>2. C \in SUBSET Nat /\ a \in C /\ b \in C /\ \A i \in C : a <= i /\ i <= b
  OBVIOUS
<1>3. n \in Nat /\ a + n = b
  OBVIOUS
<1> HIDE DEF C, n
<1>4. \A e \in Nat : a < e => P(e) \in C /\ P(e) < e
  <2> SUFFICES ASSUME NEW e \in Nat, a < e
               PROVE  P(e) \in C /\ P(e) < e
    OBVIOUS
  <2> DEFINE D == {i \in C : i < e}
  <2>1. D \in SUBSET Nat /\ a \in D /\ \A i \in D : i <= e
    <3>1. \A i \in Nat : i < e => i <= e
      OBVIOUS
    <3> QED BY <1>2, <3>1
  <2>2. \A i \in D : i \in C /\ i < e
    OBVIOUS
  <2>3. P(e) = Max(D)
    OBVIOUS
  <2> HIDE DEF D, P
  <2>4. PICK m \in D : \A i \in D : i <= m
    BY <2>1, GreatestNat
  <2>5. Max(D) = m
    BY <2>1, <2>4, MaxIs
  <2> QED BY <2>2, <2>3, <2>4, <2>5
<1>5. \A e \in Nat : e \in C => P(e + 1) = e
  <2> SUFFICES ASSUME NEW e \in Nat, e \in C
               PROVE  P(e + 1) = e
    OBVIOUS
  <2> DEFINE D == {i \in C : i < e + 1}
  <2>1. D \in SUBSET Nat /\ e \in D /\ \A i \in D : i <= e
    <3>1. e < e + 1 /\ \A i \in Nat : i < e + 1 => i <= e
      OBVIOUS
    <3> QED BY <1>2, <3>1
  <2>2. P(e + 1) = Max(D)
    OBVIOUS
  <2> HIDE DEF D, P
  <2> QED BY <2>1, <2>2, MaxIs
<1>6. \A e \in Nat : e \notin C => P(e + 1) = P(e)
  <2> SUFFICES ASSUME NEW e \in Nat, e \notin C
               PROVE  P(e + 1) = P(e)
    OBVIOUS
  <2>1. \A i \in C : i < e + 1 <=> i < e
    <3> SUFFICES ASSUME NEW i \in C
                 PROVE  i < e + 1 <=> i < e
      OBVIOUS
    <3>1. i \in Nat /\ i # e
      BY <1>2
    <3> QED BY <3>1
  <2>2. {i \in C : i < e + 1} = {i \in C : i < e}
    BY <2>1
  <2> QED BY <2>2
<1> HIDE DEF P
<1>7. \A k \in 1 .. n : a + k \in Nat /\ a < a + k /\ P(a + k) \in Nat /\ P(a + k) <= a + k
  <2> SUFFICES ASSUME NEW k \in 1 .. n
               PROVE  a + k \in Nat /\ a < a + k /\ P(a + k) \in Nat /\ P(a + k) <= a + k
    OBVIOUS
  <2>1. a + k \in Nat /\ a < a + k
    BY <1>3
  <2>2. P(a + k) \in C /\ P(a + k) < a + k
    BY <1>4, <2>1
  <2>3. \A x \in Nat : x < a + k => x <= a + k
    BY <2>1
  <2>4. P(a + k) \in Nat
    BY <1>2, <2>2
  <2> QED BY <2>1, <2>2, <2>3, <2>4
<1>8. u \in Seq(Seq(Nat \X Nat)) /\ Len(u) = n
  <2>1. \A k \in 1 .. n : (IF a + k \in C THEN <<<<P(a + k), a + k>>>> ELSE <<>>) \in Seq(Nat \X Nat)
    <3> SUFFICES ASSUME NEW k \in 1 .. n
                 PROVE  (IF a + k \in C THEN <<<<P(a + k), a + k>>>> ELSE <<>>) \in Seq(Nat \X Nat)
      OBVIOUS
    <3>1. <<P(a + k), a + k>> \in Nat \X Nat
      BY <1>7
    <3>2. <<<<P(a + k), a + k>>>> \in Seq(Nat \X Nat) /\ <<>> \in Seq(Nat \X Nat)
      BY <3>1
    <3> QED BY <3>2
  <2>2. u \in [1 .. n -> Seq(Nat \X Nat)]
    BY <2>1
  <2> HIDE DEF u
  <2> QED BY <1>3, <2>2, SequenceIs
<1>9. PICK g : Run(u, g) /\ FlattenSeq(u) = g[n]
  BY <1>8, RunExists
<1>10. \A k \in 1 .. n : u[k] = IF a + k \in C THEN <<<<P(a + k), a + k>>>> ELSE <<>>
  OBVIOUS
<1> HIDE DEF u
<1> DEFINE T == {k \in 0 .. n : Tiles(g[k], a, P(a + k + 1))}
<1>11. 0 \in T
  <2>1. g[0] = <<>> /\ a + 0 + 1 = a + 1 /\ P(a + 1) = a /\ 0 \in 0 .. n
    BY <1>2, <1>3, <1>5, <1>9 DEF Run
  <2> QED BY <2>1, NoTiles
<1>12. ASSUME NEW k \in 0 .. n, k < n, k \in T
       PROVE  k + 1 \in T
  <2> DEFINE e == a + k + 1
  <2>1. k + 1 \in 1 .. n /\ (k + 1) - 1 = k /\ k + 1 \in 0 .. n /\ a + (k + 1) = e
        /\ a + (k + 1) + 1 = e + 1 /\ e \in Nat
    BY <1>3, <1>12
  <2>2. g[k + 1] = g[k] \o u[k + 1]
    BY <1>8, <1>9, <2>1 DEF Run
  <2>3. Tiles(g[k], a, P(e))
    BY <1>12
  <2> HIDE DEF e
  <2>4. P(e) \in Nat /\ P(e) <= e
    BY <1>7, <2>1
  <2>5. Tiles(g[k + 1], a, P(e + 1))
    <3>1. CASE e \in C
      <4>1. u[k + 1] = <<<<P(e), e>>>> /\ P(e + 1) = e
        BY <1>5, <1>10, <2>1, <3>1
      <4>2. Tiles(<<<<P(e), e>>>>, P(e), e)
        BY <2>1, <2>4, OneTile
      <4> QED BY <2>2, <2>3, <4>1, <4>2, ConcatTiles
    <3>2. CASE e \notin C
      <4>1. u[k + 1] = <<>> /\ P(e + 1) = P(e)
        BY <1>6, <1>10, <2>1, <3>2
      <4>2. Tiles(<<>>, P(e), P(e))
        BY <2>4, NoTiles
      <4> QED BY <2>2, <2>3, <4>1, <4>2, ConcatTiles
    <3> QED BY <3>1, <3>2
  <2> QED BY <2>1, <2>5
<1> HIDE DEF T
<1>13. 0 .. n \subseteq T
  <2>1. \A k \in 0 .. n : k < n /\ k \in T => k + 1 \in T
    BY <1>12
  <2> QED BY <1>3, <1>11, <2>1, CountUp
<1>14. Tiles(g[n], a, P(a + n + 1))
  BY <1>3, <1>13 DEF T
<1>15. P(a + n + 1) = b
  BY <1>2, <1>3, <1>5
<1> QED BY <1>1, <1>9, <1>14, <1>15

(* The last tile can be taken off and put on longer.                       *)
LEMMA LongerTile ==
  ASSUME NEW a, NEW b, NEW c \in Nat, NEW s, Tiles(s, a, b), s # <<>>, b <= c
  PROVE  Tiles(Append(Front(s), <<Last(s)[1], c>>), a, c)
<1> DEFINE n == Len(s)
           d == s[n][1]
           f == Front(s)
<1>1. s \in Seq(Nat \X Nat) /\ n \in Nat /\ n >= 1 /\ a \in Nat /\ b \in Nat
  BY EmptySeq DEF Tiles
<1>2. Last(s)[1] = d
  BY DEF Last
<1>3. f \in Seq(Nat \X Nat) /\ Len(f) = n - 1 /\ \A k \in 1 .. (n - 1) : f[k] = s[k]
  BY <1>1, FrontIs
<1>4. \A k \in 1 .. n : s[k][1] = EndAt(s, a, k - 1) /\ s[k][1] <= s[k][2]
  BY DEF Tiles
<1>5. d \in Nat /\ d <= c
  <2>1. n \in 1 .. n
    BY <1>1
  <2>2. s[n][1] \in Nat /\ s[n][1] <= s[n][2] /\ s[n][2] <= b /\ s[n][2] \in Nat
    BY <2>1, TilesApart
  <2>3. d = s[n][1]
    OBVIOUS
  <2> HIDE DEF d
  <2> QED BY <1>1, <2>2, <2>3
<1> HIDE DEF f
<1>6. Tiles(f, a, d)
  <2>1. \A k \in 0 .. (n - 1) : EndAt(f, a, k) = EndAt(s, a, k)
    <3>1. \A k \in 0 .. (n - 1) : k = 0 \/ k \in 1 .. (n - 1)
      BY <1>1
    <3> QED BY <1>3, <3>1 DEF EndAt
  <2>2. \A k \in 1 .. (n - 1) : k \in 1 .. n /\ k - 1 \in 0 .. (n - 1)
    BY <1>1
  <2>3. n \in 1 .. n /\ n - 1 \in 0 .. (n - 1)
    BY <1>1
  <2>4. EndAt(f, a, n - 1) = d
    BY <1>4, <2>1, <2>3
  <2> HIDE DEF n, d
  <2>5. \A k \in 1 .. Len(f) : f[k][1] = EndAt(f, a, k - 1) /\ f[k][1] <= f[k][2]
    BY <1>3, <1>4, <2>1, <2>2
  <2> QED BY <1>1, <1>3, <1>5, <2>4, <2>5 DEF Tiles
<1>7. Tiles(<<<<d, c>>>>, d, c)
  BY <1>5, OneTile
<1>8. Append(f, <<d, c>>) = f \o <<<<d, c>>>>
  <2> HIDE DEF d
  <2>1. <<d, c>> \in Nat \X Nat
    BY <1>5
  <2> QED BY <1>3, <2>1, AppendIs
<1> QED BY <1>2, <1>6, <1>7, <1>8, ConcatTiles DEF f

(* One step of PackRanges, and its recursion.                              *)
Put(t, limit, packed, piece) ==
  LET joined == <<Last(packed)[1], piece[2]>> IN
  IF packed = <<>> \/ TokenCount(t, joined) > limit
  THEN Append(packed, piece)
  ELSE Append(Front(packed), joined)

(* f[k] is the packing of the first k pieces.                              *)
Packs(t, pieces, limit, n, f) ==
  f = [k \in 0 .. n |-> IF k = 0 THEN <<>> ELSE Put(t, limit, f[k - 1], pieces[k])]

(* The packings of the first pieces exist, as a function.                  *)
LEMMA PacksExist ==
  ASSUME NEW t, NEW pieces, NEW limit, NEW n \in Nat
  PROVE  \E f : Packs(t, pieces, limit, n, f)
<1> DEFINE T == {m \in 0 .. n : \E f : Packs(t, pieces, limit, m, f)}
<1>1. 0 \in T
  <2> DEFINE f == [k \in 0 .. 0 |-> <<>>]
  <2>1. f = [k \in 0 .. 0 |-> IF k = 0 THEN <<>> ELSE Put(t, limit, f[k - 1], pieces[k])]
    <3>1. \A k \in 0 .. 0 : k = 0
      OBVIOUS
    <3> QED BY <3>1
  <2>2. Packs(t, pieces, limit, 0, f)
    <3> HIDE DEF f
    <3> QED BY <2>1 DEF Packs
  <2> QED BY <2>2
<1>2. ASSUME NEW m \in 0 .. n, m < n, m \in T
      PROVE  m + 1 \in T
  <2>1. PICK f : Packs(t, pieces, limit, m, f)
    BY <1>2
  <2> DEFINE L(k, x) == IF k = 0 THEN <<>> ELSE Put(t, limit, x, pieces[k])
             h == [k \in 0 .. (m + 1) |-> IF k <= m THEN f[k] ELSE L(m + 1, f[m])]
  <2>2. f = [k \in 0 .. m |-> L(k, f[k - 1])]
    BY <2>1 DEF Packs
  <2>3. \A x, y : L(0, x) = L(0, y)
    OBVIOUS
  <2> HIDE DEF L
  <2>4. ASSUME NEW k \in 0 .. (m + 1)
        PROVE  h[k] = L(k, h[k - 1])
    <3>1. CASE k = 0
      <4>1. h[k] = f[k] /\ f[k] = L(0, f[k - 1])
        BY <2>2, <3>1
      <4> QED BY <2>3, <3>1, <4>1
    <3>2. CASE k \in 1 .. m
      <4>1. h[k] = f[k] /\ f[k] = L(k, f[k - 1]) /\ h[k - 1] = f[k - 1]
        BY <2>2, <3>2
      <4> QED BY <4>1
    <3>3. CASE k = m + 1
      <4>1. h[k] = L(m + 1, f[m]) /\ h[k - 1] = f[m]
        BY <3>3
      <4> QED BY <3>3, <4>1
    <3> QED BY <3>1, <3>2, <3>3
  <2>5. h = [k \in 0 .. (m + 1) |-> L(k, h[k - 1])]
    BY <2>4
  <2>6. Packs(t, pieces, limit, m + 1, h)
    <3> HIDE DEF h
    <3> QED BY <2>5 DEF Packs, L
  <2>7. m + 1 \in 0 .. n
    BY <1>2
  <2> QED BY <2>6, <2>7
<1> HIDE DEF T
<1>3. n \in T
  <2>1. \A m \in 0 .. n : m < n /\ m \in T => m + 1 \in T
    BY <1>2
  <2>2. 0 .. n \subseteq T
    BY <1>1, <2>1, CountUp
  <2> QED BY <2>2
<1> QED BY <1>3 DEF T

(* PackRanges is the last of them.                                         *)
LEMMA PackIs ==
  ASSUME NEW t, NEW pieces, NEW limit, Len(pieces) \in Nat
  PROVE  \E f : Packs(t, pieces, limit, Len(pieces), f) /\ PackRanges(t, pieces, limit) = f[Len(pieces)]
<1> DEFINE U == CHOOSE f : Packs(t, pieces, limit, Len(pieces), f)
<1>1. Packs(t, pieces, limit, Len(pieces), U)
  BY PacksExist
<1>2. PackRanges(t, pieces, limit) = U[Len(pieces)]
  BY Zenon DEF PackRanges, Packs, Put
<1> QED BY <1>1, <1>2

(* Packing joins neighbours and drops none.                                *)
LEMMA PackTiles ==
  ASSUME NEW t, NEW a, NEW b, NEW s, Tiles(s, a, b), NEW limit
  PROVE  Tiles(PackRanges(t, s, limit), a, b)
<1> DEFINE n == Len(s)
<1>1. n \in Nat /\ a \in Nat /\ EndAt(s, a, n) = b /\ EndAt(s, a, 0) = a
  BY DEF Tiles, EndAt
<1>2. PICK f : Packs(t, s, limit, n, f) /\ PackRanges(t, s, limit) = f[n]
  BY <1>1, PackIs
<1>3. /\ f[0] = <<>>
      /\ \A k \in 1 .. n : f[k] = Put(t, limit, f[k - 1], s[k])
  <2>1. \A k \in 0 .. n : f[k] = IF k = 0 THEN <<>> ELSE Put(t, limit, f[k - 1], s[k])
    <3> DEFINE X(e, k) == IF k = 0 THEN <<>> ELSE Put(t, limit, e, s[k])
    <3>1. f = [k \in 0 .. n |-> X(f[k - 1], k)]
      BY <1>2 DEF Packs
    <3> HIDE DEF X
    <3>2. \A k \in 0 .. n : f[k] = X(f[k - 1], k)
      BY <3>1
    <3> QED BY <3>2 DEF X
  <2>2. 0 \in 0 .. n /\ \A k \in 1 .. n : k \in 0 .. n /\ k # 0
    BY <1>1
  <2> QED BY <2>1, <2>2
<1> HIDE DEF n
<1> DEFINE T == {k \in 0 .. n : Tiles(f[k], a, EndAt(s, a, k))}
<1>4. 0 \in T
  <2>1. 0 \in 0 .. n
    BY <1>1
  <2> QED BY <1>1, <1>3, <2>1, NoTiles
<1>5. ASSUME NEW k \in 0 .. n, k < n, k \in T
      PROVE  k + 1 \in T
  <2> DEFINE p == f[k]
             x == s[k + 1]
             c == EndAt(s, a, k)
             d == EndAt(s, a, k + 1)
  <2>1. k + 1 \in 1 .. n /\ (k + 1) - 1 = k /\ k + 1 \in 0 .. n /\ k + 1 # 0
    BY <1>1, <1>5
  <2>2. f[k + 1] = Put(t, limit, p, x)
    BY <1>3, <2>1
  <2>3. x = <<c, d>> /\ x[2] = d /\ c \in Nat /\ d \in Nat /\ c <= d
    <3>1. x = <<x[1], x[2]>> /\ x[1] \in Nat /\ x[2] \in Nat /\ x[1] <= x[2]
      BY <2>1, TilesApart DEF n
    <3>2. x[1] = c /\ x[2] = d
      BY <2>1 DEF Tiles, EndAt, n
    <3> HIDE DEF x, c, d
    <3> QED BY <3>1, <3>2
  <2>4. Tiles(p, a, c)
    BY <1>5
  <2> HIDE DEF p, x, c, d
  <2>5. p \in Seq(Nat \X Nat)
    BY <2>4 DEF Tiles
  <2>6. Tiles(Append(p, x), a, d)
    <3>1. Tiles(<<<<c, d>>>>, c, d)
      BY <2>3, OneTile
    <3>2. x \in Nat \X Nat
      BY <2>3
    <3>3. Append(p, x) = p \o <<x>>
      BY <2>5, <3>2, AppendIs
    <3> QED BY <2>3, <2>4, <3>1, <3>3, ConcatTiles
  <2>7. p # <<>> => Tiles(Append(Front(p), <<Last(p)[1], d>>), a, d)
    BY <2>3, <2>4, LongerTile
  <2>8. Tiles(f[k + 1], a, d)
    BY <2>2, <2>3, <2>6, <2>7, Zenon DEF Put
  <2> QED BY <2>1, <2>8 DEF d
<1> HIDE DEF T
<1>6. n \in T
  <2>1. \A k \in 0 .. n : k < n /\ k \in T => k + 1 \in T
    BY <1>5
  <2>2. 0 .. n \subseteq T
    BY <1>1, <1>4, <2>1, CountUp
  <2> QED BY <1>1, <2>2
<1>7. Tiles(f[n], a, b)
  BY <1>1, <1>6 DEF T
<1> QED BY <1>2, <1>7 DEF n

(* A range that does not fit is not empty.                                 *)
LEMMA NotEmpty ==
  ASSUME NEW t, NEW a \in Nat, NEW b \in Nat, a <= b, NEW limit \in Nat
  PROVE  /\ TokenCount(t, <<a, b>>) \in Nat
         /\ ~(TokenCount(t, <<a, b>>) <= limit) => a < b
<1>1. TokenCount(t, <<a, b>>) \in Nat /\ TokenCount(t, <<a, a>>) = 0
  BY CountNext
<1>2. a = b => TokenCount(t, <<a, b>>) = 0
  BY <1>1
<1> QED BY <1>1, <1>2

(* A level keeps the tiling ...                                            *)
LEMMA RefineTiles ==
  ASSUME NEW t, NEW a, NEW b, NEW s, Tiles(s, a, b), NEW limit \in Nat, NEW breaks
  PROVE  Tiles(RefineLevel(t, limit, s, breaks), a, b)
<1> DEFINE n == Len(s)
           V(k) == IF TokenCount(t, s[k]) <= limit THEN <<s[k]>>
                   ELSE PackRanges(t, SplitPreserving(t, s[k], breaks), limit)
           u == [k \in 1 .. n |-> V(k)]
<1>1. n \in Nat /\ DOMAIN s = 1 .. n
  BY DEF Tiles
<1>2. ASSUME NEW k \in 1 .. n
      PROVE  Tiles(V(k), s[k][1], s[k][2])
  <2> DEFINE x == s[k][1]
             y == s[k][2]
  <2>1. s[k] = <<x, y>> /\ x \in Nat /\ y \in Nat /\ x <= y
    BY TilesApart
  <2> HIDE DEF x, y
  <2>2. Tiles(<<<<x, y>>>>, x, y)
    BY <2>1, OneTile
  <2>3. ~(TokenCount(t, <<x, y>>) <= limit)
          => Tiles(PackRanges(t, SplitPreserving(t, <<x, y>>, breaks), limit), x, y)
    <3> SUFFICES ASSUME ~(TokenCount(t, <<x, y>>) <= limit)
                 PROVE  Tiles(PackRanges(t, SplitPreserving(t, <<x, y>>, breaks), limit), x, y)
      OBVIOUS
    <3>1. x < y
      BY <2>1, NotEmpty
    <3> QED BY <2>1, <3>1, SplitTiles, PackTiles
  <2>4. Tiles(V(k), x, y)
    BY <2>1, <2>2, <2>3
  <2> QED BY <2>4 DEF x, y
<1>3. RefineLevel(t, limit, s, breaks) = FlattenSeq(u)
  BY <1>1, Zenon DEF RefineLevel
<1> HIDE DEF V
<1>4. \A k \in 1 .. n : u[k] = V(k) /\ V(k) \in Seq(Nat \X Nat)
  BY <1>2 DEF Tiles
<1>5. u \in Seq(Seq(Nat \X Nat)) /\ Len(u) = n
  <2>1. u \in [1 .. n -> Seq(Nat \X Nat)]
    BY <1>4
  <2> HIDE DEF u
  <2> QED BY <1>1, <2>1, SequenceIs
<1> HIDE DEF u
<1>6. \A k \in 1 .. Len(s) : Tiles(u[k], s[k][1], s[k][2])
  BY <1>2, <1>4
<1> QED BY <1>3, <1>5, <1>6, FlatTiles

(* ... and the last one the limit, but for the symbol that is not cut.     *)
LEMMA CutTiles ==
  ASSUME NEW t, NEW a, NEW b, NEW s, Tiles(s, a, b), NEW limit \in Nat, limit >= 1
  PROVE  /\ Tiles(CutLevel(t, limit, s), a, b)
         /\ \A x \in ToSet(CutLevel(t, limit, s)) : TokenCount(t, x) <= limit + 1
<1> DEFINE n == Len(s)
           V(k) == IF TokenCount(t, s[k]) <= limit THEN <<s[k]>>
                   ELSE TokenWindows(t, s[k], limit, 0)
           u == [k \in 1 .. n |-> V(k)]
<1>1. n \in Nat /\ DOMAIN s = 1 .. n
  BY DEF Tiles
<1>2. ASSUME NEW k \in 1 .. n
      PROVE  /\ Tiles(V(k), s[k][1], s[k][2])
             /\ \A x \in ToSet(V(k)) : TokenCount(t, x) <= limit + 1
  <2> DEFINE x == s[k][1]
             y == s[k][2]
             w == TokenWindows(t, <<x, y>>, limit, 0)
  <2>1. s[k] = <<x, y>> /\ x \in Nat /\ y \in Nat /\ x <= y
    BY TilesApart
  <2> HIDE DEF x, y
  <2>2. CASE TokenCount(t, <<x, y>>) <= limit
    <3>1. V(k) = <<<<x, y>>>>
      BY <2>1, <2>2
    <3>2. Tiles(<<<<x, y>>>>, x, y)
      BY <2>1, OneTile
    <3>3. TokenCount(t, <<x, y>>) \in Nat
      BY <2>1, NotEmpty
    <3>4. TokenCount(t, <<x, y>>) <= limit + 1
      BY <2>2, <3>3
    <3>5. ToSet(<<<<x, y>>>>) = {<<x, y>>}
      BY DEF ToSet
    <3> HIDE DEF V
    <3> QED BY <3>1, <3>2, <3>4, <3>5 DEF x, y
  <2>3. CASE ~(TokenCount(t, <<x, y>>) <= limit)
    <3>1. V(k) = w
      BY <2>1, <2>3
    <3>2. x < y /\ 0 < limit
      BY <2>1, <2>3, NotEmpty
    <3> HIDE DEF V, w
    <3>3. Windowed(t, w, x, y, limit) /\ (0 = 0 => Tiles(w, x, y))
      BY <2>1, <3>2, WindowsCover DEF w
    <3>4. \A z \in ToSet(w) : TokenCount(t, z) <= limit + 1
      <4>1. w \in Seq(Nat \X Nat)
        BY <3>3 DEF Tiles
      <4>2. \A j \in 1 .. Len(w) : TokenCount(t, w[j]) <= limit + 1
        BY <3>3 DEF Windowed
      <4>3. DOMAIN w = 1 .. Len(w)
        BY <4>1
      <4> QED BY <4>2, <4>3, Zenon DEF ToSet
    <3> QED BY <3>1, <3>3, <3>4 DEF x, y
  <2> QED BY <2>2, <2>3
<1>3. CutLevel(t, limit, s) = FlattenSeq(u)
  BY <1>1, Zenon DEF CutLevel
<1> HIDE DEF V
<1>4. \A k \in 1 .. n : u[k] = V(k) /\ V(k) \in Seq(Nat \X Nat)
  BY <1>2 DEF Tiles
<1>5. u \in Seq(Seq(Nat \X Nat)) /\ Len(u) = n
  <2>1. u \in [1 .. n -> Seq(Nat \X Nat)]
    BY <1>4
  <2> HIDE DEF u
  <2> QED BY <1>1, <2>1, SequenceIs
<1> HIDE DEF u
<1>6. \A k \in 1 .. Len(s) : Tiles(u[k], s[k][1], s[k][2])
  BY <1>2, <1>4
<1>7. \A x \in ToSet(FlattenSeq(u)) : TokenCount(t, x) <= limit + 1
  <2>1. \A x \in ToSet(FlattenSeq(u)) : \E k \in 1 .. n : x \in ToSet(u[k])
    BY <1>5, FlatMembers
  <2> QED BY <1>2, <1>4, <2>1
<1> QED BY <1>3, <1>5, <1>6, <1>7, FlatTiles

-----------------------------------------------------------------------------
(* Ranges in order, each behind the one before.                            *)
Apart(s, a, b) ==
  /\ s \in Seq(Nat \X Nat) /\ a \in Nat /\ b \in Nat /\ a <= b
  /\ \A k \in 1 .. Len(s) : a <= s[k][1] /\ s[k][1] <= s[k][2] /\ s[k][2] <= b
  /\ \A j, k \in 1 .. Len(s) : j < k => s[j][2] <= s[k][1]

(* Ordered ranges before ordered ranges are ordered.                       *)
LEMMA ConcatApart ==
  ASSUME NEW a, NEW b, NEW c, NEW d, NEW s, NEW t, Apart(s, a, b), Apart(t, c, d), b <= c
  PROVE  Apart(s \o t, a, d)
<1> DEFINE u == s \o t
           m == Len(s)
           n == Len(t)
<1>1. /\ s \in Seq(Nat \X Nat) /\ t \in Seq(Nat \X Nat)
      /\ a \in Nat /\ b \in Nat /\ c \in Nat /\ d \in Nat /\ a <= b /\ c <= d
  BY DEF Apart
<1>2. /\ u \in Seq(Nat \X Nat) /\ Len(u) = m + n /\ m \in Nat /\ n \in Nat
      /\ \A i \in 1 .. m : u[i] = s[i]
      /\ \A i \in 1 .. (m + n) : i \notin 1 .. m => i - m \in 1 .. n /\ u[i] = t[i - m]
  BY <1>1, ConcatIs
<1>3. \A k \in 1 .. m : /\ a <= s[k][1] /\ s[k][1] <= s[k][2] /\ s[k][2] <= b
                        /\ s[k][1] \in Nat /\ s[k][2] \in Nat
  <2>1. \A k \in 1 .. m : s[k] \in Nat \X Nat
    BY <1>1
  <2> QED BY <2>1 DEF Apart
<1>4. \A k \in 1 .. n : /\ c <= t[k][1] /\ t[k][1] <= t[k][2] /\ t[k][2] <= d
                        /\ t[k][1] \in Nat /\ t[k][2] \in Nat
  <2>1. \A k \in 1 .. n : t[k] \in Nat \X Nat
    BY <1>1
  <2> QED BY <2>1 DEF Apart
<1>5. /\ \A j, k \in 1 .. m : j < k => s[j][2] <= s[k][1]
      /\ \A j, k \in 1 .. n : j < k => t[j][2] <= t[k][1]
  BY DEF Apart
<1> HIDE DEF u, m, n
<1>6. \A k \in 1 .. (m + n) : a <= u[k][1] /\ u[k][1] <= u[k][2] /\ u[k][2] <= d
  <2> SUFFICES ASSUME NEW k \in 1 .. (m + n)
               PROVE  a <= u[k][1] /\ u[k][1] <= u[k][2] /\ u[k][2] <= d
    OBVIOUS
  <2>1. CASE k \in 1 .. m
    <3>1. \A x \in Nat : x <= b => x <= d
      BY <1>1
    <3> QED BY <1>2, <1>3, <2>1, <3>1
  <2>2. CASE k \notin 1 .. m
    <3>1. k - m \in 1 .. n /\ u[k] = t[k - m]
      BY <1>2, <2>2
    <3> QED BY <1>1, <1>4, <3>1
  <2> QED BY <2>1, <2>2
<1>7. \A j, k \in 1 .. (m + n) : j < k => u[j][2] <= u[k][1]
  <2> SUFFICES ASSUME NEW j \in 1 .. (m + n), NEW k \in 1 .. (m + n), j < k
               PROVE  u[j][2] <= u[k][1]
    OBVIOUS
  <2>1. CASE k \in 1 .. m
    <3>1. j \in 1 .. m
      BY <1>2, <2>1
    <3> QED BY <1>2, <1>5, <2>1, <3>1
  <2>2. CASE k \notin 1 .. m /\ j \in 1 .. m
    <3>1. k - m \in 1 .. n /\ u[k] = t[k - m]
      BY <1>2, <2>2
    <3>2. u[j] = s[j] /\ s[j][2] <= b /\ c <= t[k - m][1] /\ s[j][2] \in Nat /\ t[k - m][1] \in Nat
      BY <1>2, <1>3, <1>4, <2>2, <3>1
    <3>3. \A x, y \in Nat : x <= b /\ c <= y => x <= y
      BY <1>1
    <3> QED BY <3>1, <3>2, <3>3, Zenon
  <2>3. CASE k \notin 1 .. m /\ j \notin 1 .. m
    <3>1. k - m \in 1 .. n /\ u[k] = t[k - m] /\ j - m \in 1 .. n /\ u[j] = t[j - m]
      BY <1>2, <2>3
    <3>2. j - m < k - m
      BY <1>2
    <3> QED BY <1>5, <3>1, <3>2
  <2> QED BY <2>1, <2>2, <2>3
<1>8. a <= d
  BY <1>1
<1>9. /\ \A k \in 1 .. Len(u) : a <= u[k][1] /\ u[k][1] <= u[k][2] /\ u[k][2] <= d
      /\ \A j, k \in 1 .. Len(u) : j < k => u[j][2] <= u[k][1]
  BY <1>2, <1>6, <1>7, Zenon
<1>10. Apart(u, a, d)
  BY <1>1, <1>2, <1>8, <1>9, Zenon DEF Apart
<1> QED BY <1>10 DEF u

(* Leaving out the blank ranges keeps the order and the other ranges.      *)
LEMMA KeptApart ==
  ASSUME NEW t, NEW a, NEW b, NEW s, Apart(s, a, b)
  PROVE  /\ Apart(KeptLevel(t, s), a, b)
         /\ \A x : x \in ToSet(KeptLevel(t, s)) <=> x \in ToSet(s) /\ Solid(t, x)
<1> DEFINE n == Len(s)
           V(k) == IF Solid(t, s[k]) THEN <<s[k]>> ELSE <<>>
           u == [k \in 1 .. n |-> V(k)]
           E(k) == IF k = 0 THEN a ELSE s[k][2]
<1>1. /\ n \in Nat /\ DOMAIN s = 1 .. n /\ a \in Nat /\ b \in Nat /\ a <= b
      /\ \A k \in 1 .. n : s[k] \in Nat \X Nat /\ s[k][1] \in Nat /\ s[k][2] \in Nat
      /\ \A k \in 1 .. n : a <= s[k][1] /\ s[k][1] <= s[k][2] /\ s[k][2] <= b
      /\ \A j, k \in 1 .. n : j < k => s[j][2] <= s[k][1]
  <2>1. s \in Seq(Nat \X Nat)
    BY DEF Apart
  <2>2. n \in Nat /\ DOMAIN s = 1 .. n /\ \A k \in 1 .. n : s[k] \in Nat \X Nat
    BY <2>1
  <2>3. \A k \in 1 .. n : s[k][1] \in Nat /\ s[k][2] \in Nat
    BY <2>2
  <2> QED BY <2>2, <2>3 DEF Apart
<1>2. KeptLevel(t, s) = FlattenSeq(u)
  BY <1>1, Zenon DEF KeptLevel
<1>3. \A k \in 1 .. n : V(k) \in Seq(Nat \X Nat) /\ u[k] = V(k)
  <2> SUFFICES ASSUME NEW k \in 1 .. n
               PROVE  V(k) \in Seq(Nat \X Nat) /\ u[k] = V(k)
    OBVIOUS
  <2>1. <<>> \in Seq(Nat \X Nat) /\ <<s[k]>> \in Seq(Nat \X Nat)
    BY <1>1
  <2>2. V(k) \in Seq(Nat \X Nat)
    BY <2>1
  <2>3. u[k] = V(k)
    OBVIOUS
  <2> QED BY <2>2, <2>3
<1>4. \A k \in 1 .. n : Apart(V(k), s[k][1], s[k][2])
  <2> SUFFICES ASSUME NEW k \in 1 .. n
               PROVE  Apart(V(k), s[k][1], s[k][2])
    OBVIOUS
  <2>1. Apart(<<>>, s[k][1], s[k][2])
    <3>1. Len(<<>>) = 0 /\ <<>> \in Seq(Nat \X Nat)
      BY EmptySeq
    <3> QED BY <1>1, <3>1 DEF Apart
  <2>2. Apart(<<s[k]>>, s[k][1], s[k][2])
    <3>1. /\ Len(<<s[k]>>) = 1 /\ <<s[k]>> \in Seq(Nat \X Nat) /\ <<s[k]>>[1] = s[k]
          /\ \A j \in 1 .. 1 : j = 1
      BY <1>1
    <3>2. s[k][1] <= s[k][1] /\ s[k][2] <= s[k][2] /\ ~(1 < 1)
      BY <1>1
    <3> QED BY <1>1, <3>1, <3>2 DEF Apart
  <2> QED BY <2>1, <2>2
<1>5. \A k \in 1 .. n : \A x : x \in ToSet(V(k)) <=> x = s[k] /\ Solid(t, s[k])
  <2>1. \A z : ToSet(<<z>>) = {z} /\ ToSet(<<>>) = {}
    BY DEF ToSet
  <2> QED BY <2>1
<1> HIDE DEF V
<1>6. u \in Seq(Seq(Nat \X Nat)) /\ Len(u) = n
  <2>1. u \in [1 .. n -> Seq(Nat \X Nat)]
    BY <1>3
  <2> HIDE DEF u
  <2> QED BY <1>1, <2>1, SequenceIs
<1> HIDE DEF u
<1>7. \A x : x \in ToSet(KeptLevel(t, s)) <=> x \in ToSet(s) /\ Solid(t, x)
  <2>1. \A x : x \in ToSet(FlattenSeq(u)) <=> \E k \in 1 .. n : x \in ToSet(u[k])
    BY <1>6, FlatMembers
  <2>2. \A x : x \in ToSet(s) <=> \E k \in 1 .. n : x = s[k]
    BY <1>1 DEF ToSet
  <2> HIDE DEF n
  <2>3. \A x : (\E k \in 1 .. n : x \in ToSet(u[k])) <=> \E k \in 1 .. n : x = s[k] /\ Solid(t, s[k])
    BY <1>3, <1>5
  <2> QED BY <1>2, <2>1, <2>2, <2>3
<1>8. PICK g : Run(u, g) /\ FlattenSeq(u) = g[n]
  BY <1>6, RunExists
<1> HIDE DEF n
<1> DEFINE T == {k \in 0 .. n : Apart(g[k], a, E(k))}
<1>9. 0 \in T
  <2>1. g[0] = <<>> /\ E(0) = a /\ 0 \in 0 .. n /\ a <= a
    BY <1>1, <1>6, <1>8 DEF Run
  <2>2. Len(<<>>) = 0 /\ <<>> \in Seq(Nat \X Nat)
    BY EmptySeq
  <2>3. Apart(<<>>, a, a)
    BY <1>1, <2>1, <2>2 DEF Apart
  <2> QED BY <2>1, <2>3
<1>10. ASSUME NEW k \in 0 .. n, k < n, k \in T
       PROVE  k + 1 \in T
  <2>1. k + 1 \in 1 .. n /\ (k + 1) - 1 = k /\ k + 1 \in 0 .. n /\ k + 1 # 0
    BY <1>1, <1>10
  <2>2. g[k + 1] = g[k] \o V(k + 1)
    BY <1>3, <1>6, <1>8, <2>1 DEF Run
  <2>3. E(k) <= s[k + 1][1]
    <3>1. CASE k = 0
      BY <1>1, <2>1, <3>1
    <3>2. CASE k # 0
      <4>1. k \in 1 .. n /\ k < k + 1
        BY <1>1, <3>2
      <4> QED BY <1>1, <2>1, <3>2, <4>1
    <3> QED BY <3>1, <3>2
  <2>4. Apart(g[k], a, E(k)) /\ Apart(V(k + 1), s[k + 1][1], s[k + 1][2])
    BY <1>4, <1>10, <2>1
  <2>5. Apart(g[k + 1], a, s[k + 1][2])
    <3> HIDE DEF E
    <3> QED BY <2>2, <2>3, <2>4, ConcatApart
  <2>6. E(k + 1) = s[k + 1][2]
    BY <2>1
  <2> QED BY <2>1, <2>5, <2>6
<1> HIDE DEF T, E
<1>11. n \in T
  <2>1. \A k \in 0 .. n : k < n /\ k \in T => k + 1 \in T
    BY <1>10
  <2>2. 0 .. n \subseteq T
    BY <1>1, <1>9, <2>1, CountUp
  <2> QED BY <1>1, <2>2
<1>12. Apart(g[n], a, E(n))
  BY <1>11 DEF T
<1>13. Apart(g[n], a, b)
  <2>1. E(n) \in Nat /\ E(n) <= b
    <3>1. n = 0 \/ n \in 1 .. n
      BY <1>1
    <3> QED BY <1>1, <3>1 DEF E
  <2>2. g[n] \in Seq(Nat \X Nat)
    BY <1>12 DEF Apart
  <2>3. \A k \in 1 .. Len(g[n]) : g[n][k][2] \in Nat /\ g[n][k][2] <= E(n)
    <3>1. \A k \in 1 .. Len(g[n]) : g[n][k] \in Nat \X Nat
      BY <2>2
    <3> QED BY <1>12, <3>1 DEF Apart
  <2>4. \A k \in 1 .. Len(g[n]) : g[n][k][2] <= b
    BY <1>1, <2>1, <2>3
  <2> QED BY <1>1, <1>12, <2>4 DEF Apart
<1> QED BY <1>2, <1>7, <1>8, <1>13

(* The parents of a block: apart, within it, none blank, none longer than  *)
(* its limit and one token, and every symbol that is not blank in one.     *)
LEMMA BoundedRangesAre ==
  ASSUME NEW t, NEW a \in Nat, NEW b \in Nat, a <= b, NEW limit \in Nat, limit >= 1,
         NEW s, s = BoundedRanges(t, <<a, b>>, limit)
  PROVE  /\ Apart(s, a, b)
         /\ \A x \in ToSet(s) : Solid(t, x) /\ TokenCount(t, x) <= limit + 1
         /\ \A i \in a .. (b - 1) : t[i] \notin Space => \E x \in ToSet(s) : Within(i, x)
<1> DEFINE q == RefineLevel(t, limit, <<<<a, b>>>>, {"para"})
           c == CutLevel(t, limit, RefineLevel(t, limit, q, Space))
<1>1. Tiles(c, a, b) /\ \A x \in ToSet(c) : TokenCount(t, x) <= limit + 1
  <2>1. Tiles(<<<<a, b>>>>, a, b)
    BY OneTile
  <2> QED BY <2>1, RefineTiles, CutTiles
<1>2. s = KeptLevel(t, c)
  BY Zenon DEF BoundedRanges, c, q
<1> HIDE DEF c
<1>3. Apart(c, a, b)
  <2>1. /\ a <= b
        /\ \A k \in 1 .. Len(c) : a <= c[k][1] /\ c[k][1] <= c[k][2] /\ c[k][2] <= b
        /\ \A j, k \in 1 .. Len(c) : j < k => c[j][2] <= c[k][1]
    BY <1>1, TilesApart
  <2>2. c \in Seq(Nat \X Nat) /\ a \in Nat /\ b \in Nat
    BY <1>1 DEF Tiles
  <2> QED BY <2>1, <2>2, Zenon DEF Apart
<1>4. Apart(s, a, b) /\ \A x : x \in ToSet(s) <=> x \in ToSet(c) /\ Solid(t, x)
  BY <1>2, <1>3, KeptApart
<1>5. ASSUME NEW i \in a .. (b - 1), t[i] \notin Space
      PROVE  \E x \in ToSet(s) : Within(i, x)
  <2>1. i \in Nat /\ a <= i /\ i < b
    OBVIOUS
  <2>2. PICK k \in 1 .. Len(c) : Within(i, c[k])
    BY <1>1, <2>1, TilesAreCover, CoverAll
  <2>3. c[k] \in ToSet(c) /\ c[k][1] \in Nat /\ c[k][2] \in Nat
    <3>1. c \in Seq(Nat \X Nat)
      BY <1>1 DEF Tiles
    <3>2. k \in DOMAIN c /\ c[k] \in Nat \X Nat
      BY <3>1
    <3> QED BY <3>2 DEF ToSet
  <2>4. i \in c[k][1] .. (c[k][2] - 1)
    BY <2>1, <2>2, <2>3 DEF Within
  <2>5. Solid(t, c[k])
    BY <1>5, <2>4 DEF Solid
  <2> QED BY <1>4, <2>2, <2>3, <2>5
<1> QED BY <1>1, <1>4, <1>5

-----------------------------------------------------------------------------
(* Blocks.                                                                 *)

(* The article of a place: its heading's, the last one's, none since a new *)
(* page.                                                                   *)
LEMMA ArticleNext ==
  ASSUME NEW t, NEW D, NEW i \in Nat \ {0}
  PROVE  /\ HeadingAt(t, i, D) => ArticleOf(t, i, D) = i
         /\ ~HeadingAt(t, i, D) /\ PageAt(t, i, D) => ArticleOf(t, i, D) = 0
         /\ ~HeadingAt(t, i, D) /\ ~PageAt(t, i, D) =>
              ArticleOf(t, i, D) = ArticleOf(t, i - 1, D)
<1> DEFINE G(m, j) == /\ HeadingAt(t, j, D)
                      /\ \A k \in (j + 1) .. m : ~PageAt(t, k, D)
                      /\ \A k \in (j + 1) .. m : ~HeadingAt(t, k, D)
           H(m) == {j \in 1 .. m : G(m, j)}
<1>1. \A m : ArticleOf(t, m, D) = IF H(m) = {} THEN 0 ELSE CHOOSE j \in H(m) : TRUE
  BY Zenon DEF ArticleOf
<1>2. ASSUME HeadingAt(t, i, D)
      PROVE  H(i) = {i}
  <2>1. i \in H(i)
    <3>1. (i + 1) .. i = {} /\ i \in 1 .. i
      OBVIOUS
    <3> QED BY <1>2, <3>1
  <2>2. \A j \in H(i) : j = i
    <3> SUFFICES ASSUME NEW j \in H(i), j # i
                 PROVE  FALSE
      OBVIOUS
    <3>1. i \in (j + 1) .. i /\ j \in 1 .. i
      OBVIOUS
    <3> QED BY <1>2, <3>1
  <2> HIDE DEF H
  <2> QED BY <2>1, <2>2
<1>3. ASSUME ~HeadingAt(t, i, D), PageAt(t, i, D)
      PROVE  H(i) = {}
  <2> SUFFICES ASSUME NEW j \in H(i)
               PROVE  FALSE
    OBVIOUS
  <2>1. j \in 1 .. i /\ (j = i \/ i \in (j + 1) .. i)
    OBVIOUS
  <2> QED BY <1>3, <2>1
<1>4. ASSUME ~HeadingAt(t, i, D), ~PageAt(t, i, D)
      PROVE  H(i) = H(i - 1)
  <2>1. \A j \in 1 .. (i - 1) : \A k : k \in (j + 1) .. i <=> k \in (j + 1) .. (i - 1) \/ k = i
    OBVIOUS
  <2>2. \A j \in 1 .. (i - 1) : G(i, j) <=> G(i - 1, j)
    <3> SUFFICES ASSUME NEW j \in 1 .. (i - 1)
                 PROVE  G(i, j) <=> G(i - 1, j)
      OBVIOUS
    <3> QED BY <1>4, <2>1, Zenon
  <2>3. ~G(i, i)
    BY <1>4
  <2> HIDE DEF G
  <2>4. \A j : j \in 1 .. i <=> j \in 1 .. (i - 1) \/ j = i
    OBVIOUS
  <2>5. \A j : j \in H(i) <=> j \in H(i - 1)
    BY <2>2, <2>3, <2>4
  <2> HIDE DEF H
  <2> QED BY <2>5
<1> HIDE DEF H
<1>5. HeadingAt(t, i, D) => ArticleOf(t, i, D) = i
  <2>1. \A z : {z} # {} /\ (CHOOSE j \in {z} : TRUE) = z
    OBVIOUS
  <2> QED BY <1>1, <1>2, <2>1
<1>6. ~HeadingAt(t, i, D) /\ PageAt(t, i, D) => ArticleOf(t, i, D) = 0
  BY <1>1, <1>3
<1>7. ~HeadingAt(t, i, D) /\ ~PageAt(t, i, D) => ArticleOf(t, i, D) = ArticleOf(t, i - 1, D)
  <2>1. H(i) = H(i - 1) => ArticleOf(t, i, D) = ArticleOf(t, i - 1, D)
    BY <1>1, Zenon
  <2> QED BY <1>4, <2>1
<1> QED BY <1>5, <1>6, <1>7

(* Before the text there is no article.                                    *)
LEMMA ArticleFirst ==
  ASSUME NEW t, NEW D
  PROVE  ArticleOf(t, 0, D) = 0
<1>1. 1 .. 0 = {}
  OBVIOUS
<1> QED BY <1>1 DEF ArticleOf

(* One step of the scan, and its recursion.                                *)
Visit(t, D, b, i) ==
  IF PageAt(t, i, D) \/ HeadingAt(t, i, D) \/ i = Len(t) + 1
  THEN AtBoundary(t, i, D, b) ELSE b

(* The scan before the first symbol, and its states.                       *)
First == [start |-> 1, page |-> 1, article |-> 0, blocks |-> <<>>]

(* f[i] is the scan after i visits.                                        *)
Scans(t, D, n, f) ==
  f = [i \in 0 .. n |-> IF i = 0 THEN First ELSE Visit(t, D, f[i - 1], i)]

(* The states of the scan exist, as a function.                            *)
LEMMA ScansExist ==
  ASSUME NEW t, NEW D, NEW n \in Nat
  PROVE  \E f : Scans(t, D, n, f)
<1> DEFINE T == {m \in 0 .. n : \E f : Scans(t, D, m, f)}
<1>1. 0 \in T
  <2> DEFINE f == [k \in 0 .. 0 |-> First]
  <2>1. f = [k \in 0 .. 0 |-> IF k = 0 THEN First ELSE Visit(t, D, f[k - 1], k)]
    <3>1. \A k \in 0 .. 0 : k = 0
      OBVIOUS
    <3> QED BY <3>1
  <2>2. Scans(t, D, 0, f)
    <3> HIDE DEF f
    <3> QED BY <2>1 DEF Scans
  <2> QED BY <2>2
<1>2. ASSUME NEW m \in 0 .. n, m < n, m \in T
      PROVE  m + 1 \in T
  <2>1. PICK f : Scans(t, D, m, f)
    BY <1>2
  <2> DEFINE L(k, x) == IF k = 0 THEN First ELSE Visit(t, D, x, k)
             h == [k \in 0 .. (m + 1) |-> IF k <= m THEN f[k] ELSE L(m + 1, f[m])]
  <2>2. f = [k \in 0 .. m |-> L(k, f[k - 1])]
    BY <2>1 DEF Scans
  <2>3. \A x, y : L(0, x) = L(0, y)
    OBVIOUS
  <2> HIDE DEF L
  <2>4. ASSUME NEW k \in 0 .. (m + 1)
        PROVE  h[k] = L(k, h[k - 1])
    <3>1. CASE k = 0
      <4>1. h[k] = f[k] /\ f[k] = L(0, f[k - 1])
        BY <2>2, <3>1
      <4> QED BY <2>3, <3>1, <4>1
    <3>2. CASE k \in 1 .. m
      <4>1. h[k] = f[k] /\ f[k] = L(k, f[k - 1]) /\ h[k - 1] = f[k - 1]
        BY <2>2, <3>2
      <4> QED BY <4>1
    <3>3. CASE k = m + 1
      <4>1. h[k] = L(m + 1, f[m]) /\ h[k - 1] = f[m]
        BY <3>3
      <4> QED BY <3>3, <4>1
    <3> QED BY <3>1, <3>2, <3>3
  <2>5. h = [k \in 0 .. (m + 1) |-> L(k, h[k - 1])]
    BY <2>4
  <2>6. Scans(t, D, m + 1, h)
    <3> HIDE DEF h
    <3> QED BY <2>5 DEF Scans, L
  <2>7. m + 1 \in 0 .. n
    BY <1>2
  <2> QED BY <2>6, <2>7
<1> HIDE DEF T
<1>3. n \in T
  <2>1. \A m \in 0 .. n : m < n /\ m \in T => m + 1 \in T
    BY <1>2
  <2>2. 0 .. n \subseteq T
    BY <1>1, <2>1, CountUp
  <2> QED BY <2>2
<1> QED BY <1>3 DEF T

(* StructuralBlocks is what the last visit has collected.                  *)
LEMMA ScanIs ==
  ASSUME NEW t, NEW D, Len(t) \in Nat
  PROVE  \E f : /\ f[0] = First
                /\ \A i \in 1 .. (Len(t) + 1) : f[i] = Visit(t, D, f[i - 1], i)
                /\ StructuralBlocks(t, D) = f[Len(t) + 1].blocks
<1> DEFINE n == Len(t) + 1
           U == CHOOSE f : Scans(t, D, n, f)
<1>1. n \in Nat
  OBVIOUS
<1>2. Scans(t, D, n, U)
  BY <1>1, ScansExist
<1>3. StructuralBlocks(t, D) = U[n].blocks
  BY Zenon DEF StructuralBlocks, Scans, Visit, First
<1> HIDE DEF U, n
<1>4. \A k \in 0 .. n : U[k] = IF k = 0 THEN First ELSE Visit(t, D, U[k - 1], k)
  <2> DEFINE X(e, k) == IF k = 0 THEN First ELSE Visit(t, D, e, k)
  <2>1. U = [k \in 0 .. n |-> X(U[k - 1], k)]
    BY <1>2 DEF Scans
  <2> HIDE DEF X
  <2>2. \A k \in 0 .. n : U[k] = X(U[k - 1], k)
    BY <2>1
  <2> QED BY <2>2 DEF X
<1>5. 0 \in 0 .. n /\ \A k \in 1 .. n : k \in 0 .. n /\ k # 0
  BY <1>1
<1>6. U[0] = First /\ \A k \in 1 .. n : U[k] = Visit(t, D, U[k - 1], k)
  BY <1>4, <1>5
<1> QED BY <1>3, <1>6 DEF n

(* Blocks and states of the scan, by their types.                          *)
Block == [range : Nat \X Nat, article : Nat, page : Nat]

ScanState == [start : Nat, page : Nat, article : Nat, blocks : Seq(Block)]

(* What a boundary closes, and the article it opens.                       *)
LEMMA BoundaryIs ==
  ASSUME NEW t, NEW D, NEW b \in ScanState, NEW i \in Nat
  PROVE  LET x == [range |-> <<b.start, i>>, article |-> b.article, page |-> b.page]
             c == AtBoundary(t, i, D, b)
         IN  /\ c \in ScanState /\ c.start = i /\ x \in Block
             /\ c.blocks = IF Solid(t, <<b.start, i>>) THEN Append(b.blocks, x) ELSE b.blocks
             /\ c.article = IF HeadingAt(t, i, D) THEN i
                            ELSE IF PageAt(t, i, D) THEN 0 ELSE b.article
<1> DEFINE x == [range |-> <<b.start, i>>, article |-> b.article, page |-> b.page]
           f == Flushed(t, i, b)
           bl == IF Solid(t, <<b.start, i>>) THEN Append(b.blocks, x) ELSE b.blocks
<1>1. x \in Block
  BY DEF ScanState, Block
<1>2. bl \in Seq(Block)
  <2>1. b.blocks \in Seq(Block)
    BY DEF ScanState
  <2> HIDE DEF x
  <2> QED BY <1>1, <2>1
<1>3. f = [start |-> i, page |-> b.page, article |-> b.article, blocks |-> bl]
  <2>1. \A z \in Seq(Block) :
          [b EXCEPT !.start = i, !.blocks = z]
            = [start |-> i, page |-> b.page, article |-> b.article, blocks |-> z]
    <3> SUFFICES ASSUME NEW z \in Seq(Block)
                 PROVE  [b EXCEPT !.start = i, !.blocks = z]
                          = [start |-> i, page |-> b.page, article |-> b.article, blocks |-> z]
      OBVIOUS
    <3> DEFINE c == [b EXCEPT !.start = i]
    <3>1. c \in ScanState /\ c.start = i /\ c.page = b.page /\ c.article = b.article
      BY DEF ScanState
    <3>2. [b EXCEPT !.start = i, !.blocks = z] = [c EXCEPT !.blocks = z]
      OBVIOUS
    <3> HIDE DEF c
    <3> DEFINE e == [c EXCEPT !.blocks = z]
    <3>3. e \in ScanState /\ e.start = c.start /\ e.page = c.page /\ e.article = c.article /\ e.blocks = z
      BY <3>1 DEF ScanState
    <3> HIDE DEF e
    <3>4. e = [start |-> e.start, page |-> e.page, article |-> e.article, blocks |-> e.blocks]
      BY <3>3 DEF ScanState
    <3>5. [b EXCEPT !.start = i, !.blocks = z] = e
      BY <3>2 DEF e
    <3> QED BY <3>1, <3>3, <3>4, <3>5
  <2>2. f = [b EXCEPT !.start = i, !.blocks = bl]
    <3>1. f = [b EXCEPT !.start = i,
                 !.blocks = IF Solid(t, <<b.start, i>>) THEN Append(b.blocks, x) ELSE b.blocks]
      BY DEF Flushed
    <3> QED BY <3>1
  <2> HIDE DEF f, bl, x
  <2> QED BY <1>2, <2>1, <2>2
<1> HIDE DEF x, bl, f
<1>4. b.page \in Nat /\ b.article \in Nat
  BY DEF ScanState
<1>5. f \in ScanState /\ f.start = i /\ f.blocks = bl /\ f.article = b.article /\ f.page \in Nat
  BY <1>2, <1>3, <1>4 DEF ScanState
<1>6. AtBoundary(t, i, D, b) = Entered(t, i, D, f)
  BY DEF AtBoundary, f
<1> DEFINE p == IF PageAt(t, i, D) THEN [f EXCEPT !.page = @ + 1, !.article = 0] ELSE f
           c == IF HeadingAt(t, i, D) THEN [p EXCEPT !.article = i] ELSE p
<1>7. Entered(t, i, D, f) = c
  BY DEF Entered
<1>8. p \in ScanState /\ p.start = i /\ p.blocks = bl /\ p.article = IF PageAt(t, i, D) THEN 0 ELSE b.article
  <2>1. CASE PageAt(t, i, D)
    <3>1. p = [start |-> i, page |-> f.page + 1, article |-> 0, blocks |-> bl]
      BY <1>3, <2>1
    <3>2. f.page + 1 \in Nat
      BY <1>5
    <3> HIDE DEF p
    <3> QED BY <1>2, <2>1, <3>1, <3>2 DEF ScanState
  <2>2. CASE ~PageAt(t, i, D)
    BY <1>5, <2>2
  <2> QED BY <2>1, <2>2
<1> HIDE DEF p
<1>9. /\ c \in ScanState /\ c.start = i /\ c.blocks = bl
      /\ c.article = IF HeadingAt(t, i, D) THEN i ELSE IF PageAt(t, i, D) THEN 0 ELSE b.article
  BY <1>8 DEF ScanState
<1> HIDE DEF c
<1> QED BY <1>1, <1>6, <1>7, <1>9 DEF bl, x

(* The ranges of blocks.                                                   *)
RangesOf(blocks) == [k \in 1 .. Len(blocks) |-> blocks[k].range]

(* The ranges of one more block.                                           *)
LEMMA RangesAppend ==
  ASSUME NEW s \in Seq(Block), NEW x \in Block
  PROVE  /\ RangesOf(s) \in Seq(Nat \X Nat) /\ Len(RangesOf(s)) = Len(s)
         /\ RangesOf(Append(s, x)) = RangesOf(s) \o <<x.range>>
         /\ ToSet(Append(s, x)) = ToSet(s) \cup {x}
         /\ Append(s, x) \in Seq(Block)
<1> DEFINE n == Len(s)
           u == Append(s, x)
           r == RangesOf(s)
<1>1. /\ n \in Nat /\ u \in Seq(Block) /\ Len(u) = n + 1 /\ u = s \o <<x>>
      /\ \A k \in 1 .. n : u[k] = s[k] /\ s[k] \in Block
      /\ u[n + 1] = x
  OBVIOUS
<1>2. \A y \in Block : y.range \in Nat \X Nat
  BY DEF Block
<1> HIDE DEF n, u
<1>3. r \in Seq(Nat \X Nat) /\ Len(r) = n /\ \A k \in 1 .. n : r[k] = s[k].range
  <2>1. r \in [1 .. n -> Nat \X Nat]
    BY <1>1, <1>2 DEF RangesOf, n
  <2>2. \A k \in 1 .. n : r[k] = s[k].range
    BY DEF RangesOf, n
  <2> HIDE DEF r
  <2> QED BY <1>1, <2>1, <2>2, SequenceIs
<1> HIDE DEF r
<1>4. RangesOf(u) = r \o <<x.range>>
  <2> DEFINE v == RangesOf(u)
             w == r \o <<x.range>>
  <2>1. <<x.range>> \in Seq(Nat \X Nat) /\ Len(<<x.range>>) = 1 /\ <<x.range>>[1] = x.range
    BY <1>2
  <2>2. /\ DOMAIN w = 1 .. (n + 1) /\ w \in Seq(Nat \X Nat)
        /\ \A k \in 1 .. n : w[k] = r[k]
        /\ w[n + 1] = x.range
    <3>1. 1 \in 1 .. 1
      OBVIOUS
    <3> QED BY <1>3, <2>1, <3>1, ConcatIs
  <2>3. v = [k \in 1 .. (n + 1) |-> u[k].range]
    BY <1>1 DEF RangesOf
  <2>4. w = [k \in 1 .. (n + 1) |-> w[k]]
    <3>1. \A q \in Seq(Nat \X Nat) : q = [k \in DOMAIN q |-> q[k]]
      OBVIOUS
    <3> HIDE DEF w
    <3> QED BY <2>2, <3>1
  <2> HIDE DEF v, w
  <2>5. \A k \in 1 .. (n + 1) : u[k].range = w[k]
    <3>1. \A k \in 1 .. (n + 1) : k \in 1 .. n \/ k = n + 1
      BY <1>1
    <3> QED BY <1>1, <1>3, <2>2, <3>1
  <2>6. v = w
    BY <2>3, <2>4, <2>5
  <2> QED BY <2>6 DEF v, w
<1>5. ToSet(u) = ToSet(s) \cup {x}
  <2>1. ToSet(<<x>>) = {x} /\ <<x>> \in Seq(Block)
    BY DEF ToSet
  <2>2. ToSet(s \o <<x>>) = ToSet(s) \cup ToSet(<<x>>)
    <3>1. s \in Seq(Block)
      OBVIOUS
    <3> QED BY <2>1, <3>1, ConcatSet, ZenonT(60)
  <2> QED BY <1>1, <2>1, <2>2
<1> QED BY <1>1, <1>3, <1>4, <1>5 DEF u, r, n

(* Ordered ranges within wider limits.                                     *)
LEMMA ApartWider ==
  ASSUME NEW s, NEW a, NEW b, NEW c \in Nat, Apart(s, a, b), b <= c
  PROVE  Apart(s, a, c)
<1>1. s \in Seq(Nat \X Nat) /\ c <= c
  BY DEF Apart
<1>2. Len(<<>>) = 0 /\ <<>> \in Seq(Nat \X Nat)
  BY EmptySeq
<1>3. Apart(<<>>, c, c)
  BY <1>1, <1>2 DEF Apart
<1>4. s \o <<>> = s
  BY <1>1, ConcatEmptySeq
<1> QED BY <1>3, <1>4, ConcatApart

(* A block is not blank, and all of it is in its article.                  *)
BlockSound(t, D, x) ==
  /\ Solid(t, x.range)
  /\ \A j \in x.range[1] .. (x.range[2] - 1) : ArticleOf(t, j, D) = x.article

(* What the scan knows behind place i.                                     *)
Scanned(t, D, i, b) ==
  /\ b \in ScanState
  /\ b.start \in 1 .. (i + 1)
  /\ Apart(RangesOf(b.blocks), 1, b.start)
  /\ \A x \in ToSet(b.blocks) : BlockSound(t, D, x)
  /\ i <= Len(t) => /\ b.article = ArticleOf(t, i, D)
                    /\ \A j \in b.start .. i : ArticleOf(t, j, D) = b.article
  /\ \A j \in 1 .. (b.start - 1) :
       t[j] \notin Space => \E x \in ToSet(b.blocks) : Within(j, x.range)
  /\ i = Len(t) + 1 => b.start = i

(* The scan's invariant holds before it ...                                *)
LEMMA ScannedFirst ==
  ASSUME NEW t, Len(t) \in Nat, NEW D
  PROVE  Scanned(t, D, 0, First)
<1>1. /\ First.start = 1 /\ First.article = 0 /\ First.blocks = <<>>
      /\ First \in ScanState
  <2>1. <<>> \in Seq(Block) /\ 1 \in Nat /\ 0 \in Nat
    OBVIOUS
  <2> QED BY <2>1 DEF First, ScanState
<1>2. RangesOf(<<>>) = <<>> /\ ToSet(<<>>) = {} /\ Len(<<>>) = 0 /\ <<>> \in Seq(Nat \X Nat)
  BY EmptySeq DEF RangesOf, ToSet
<1>3. 1 <= 1 /\ 1 \in 1 .. (0 + 1) /\ 1 .. 0 = {} /\ 1 .. (1 - 1) = {} /\ ~(0 = Len(t) + 1) /\ 1 \in Nat
  OBVIOUS
<1>4. Apart(<<>>, 1, 1)
  BY <1>2, <1>3 DEF Apart
<1> QED BY <1>1, <1>2, <1>3, <1>4, ArticleFirst DEF Scanned

(* ... and each visit keeps it.                                            *)
LEMMA ScannedNext ==
  ASSUME NEW t, Len(t) \in Nat, NEW D, NEW i \in Nat, i <= Len(t), NEW b, Scanned(t, D, i, b)
  PROVE  Scanned(t, D, i + 1, Visit(t, D, b, i + 1))
<1> DEFINE k == i + 1
           n == Len(t)
           A(j) == ArticleOf(t, j, D)
           x == [range |-> <<b.start, k>>, article |-> b.article, page |-> b.page]
           c == AtBoundary(t, k, D, b)
<1>1. /\ b \in ScanState /\ b.start \in 1 .. k /\ b.start \in Nat
      /\ Apart(RangesOf(b.blocks), 1, b.start)
      /\ \A y \in ToSet(b.blocks) : BlockSound(t, D, y)
      /\ b.article = A(i)
      /\ \A j \in b.start .. i : A(j) = b.article
      /\ \A j \in 1 .. (b.start - 1) : t[j] \notin Space => \E y \in ToSet(b.blocks) : Within(j, y.range)
      /\ b.blocks \in Seq(Block)
  BY DEF Scanned, ScanState
<1>2. k \in Nat \ {0} /\ k - 1 = i /\ n \in Nat
  OBVIOUS
<1>3. /\ HeadingAt(t, k, D) => A(k) = k
      /\ ~HeadingAt(t, k, D) /\ PageAt(t, k, D) => A(k) = 0
      /\ ~HeadingAt(t, k, D) /\ ~PageAt(t, k, D) => A(k) = A(i)
  BY <1>2, ArticleNext
<1>4. CASE PageAt(t, k, D) \/ HeadingAt(t, k, D) \/ k = n + 1
  <2>1. Visit(t, D, b, k) = c
    BY <1>4 DEF Visit
  <2>2. /\ c \in ScanState /\ c.start = k /\ x \in Block
        /\ c.blocks = IF Solid(t, <<b.start, k>>) THEN Append(b.blocks, x) ELSE b.blocks
        /\ c.article = IF HeadingAt(t, k, D) THEN k ELSE IF PageAt(t, k, D) THEN 0 ELSE b.article
    BY <1>1, <1>2, BoundaryIs
  <2>3. x.range = <<b.start, k>> /\ x.range[1] = b.start /\ x.range[2] = k /\ x.article = b.article
    OBVIOUS
  <2> HIDE DEF c, x, A, k, n
  <2>4. k <= n => c.article = A(k)
    BY <1>1, <1>2, <1>3, <2>2
  <2>5. \A j \in k .. k : j = k
    BY <1>2
  <2>6. \A j \in 1 .. (k - 1) : t[j] \notin Space =>
          \/ \E y \in ToSet(b.blocks) : Within(j, y.range)
          \/ Solid(t, <<b.start, k>>) /\ Within(j, x.range)
    <3> SUFFICES ASSUME NEW j \in 1 .. (k - 1), t[j] \notin Space
                 PROVE  \/ \E y \in ToSet(b.blocks) : Within(j, y.range)
                        \/ Solid(t, <<b.start, k>>) /\ Within(j, x.range)
      OBVIOUS
    <3>1. j \in 1 .. (b.start - 1) \/ j \in b.start .. (k - 1)
      BY <1>1, <1>2
    <3>2. CASE j \in 1 .. (b.start - 1)
      BY <1>1, <3>2
    <3>3. CASE j \in b.start .. (k - 1)
      <4>1. <<b.start, k>>[1] = b.start /\ <<b.start, k>>[2] = k
        OBVIOUS
      <4>2. Solid(t, <<b.start, k>>)
        BY <3>3, <4>1 DEF Solid
      <4>3. b.start <= j /\ j < k
        BY <1>1, <1>2, <3>3
      <4> QED BY <2>3, <4>2, <4>3 DEF Within
    <3> QED BY <3>1, <3>2, <3>3
  <2>7. Apart(RangesOf(b.blocks), 1, k)
    <3>1. b.start <= k /\ k \in Nat
      BY <1>1, <1>2
    <3> QED BY <1>1, <3>1, ApartWider
  <2>8. k \in 1 .. (k + 1)
    BY <1>2
  <2>9. CASE Solid(t, <<b.start, k>>)
    <3>1. c.blocks = Append(b.blocks, x)
      BY <2>2, <2>9
    <3>2. RangesOf(c.blocks) = RangesOf(b.blocks) \o <<<<b.start, k>>>> /\ ToSet(c.blocks) = ToSet(b.blocks) \cup {x}
      BY <1>1, <2>2, <2>3, <3>1, RangesAppend
    <3>3. Apart(<<<<b.start, k>>>>, b.start, k)
      <4>1. b.start <= k /\ k \in Nat /\ b.start <= b.start /\ k <= k
        BY <1>1, <1>2
      <4>2. Tiles(<<<<b.start, k>>>>, b.start, k)
        BY <1>1, <4>1, OneTile
      <4> QED BY <4>2, TilesApart DEF Apart, Tiles
    <3>4. Apart(RangesOf(c.blocks), 1, k)
      <4>1. b.start <= b.start
        BY <1>1
      <4> QED BY <1>1, <3>2, <3>3, <4>1, ConcatApart
    <3>5. BlockSound(t, D, x)
      <4>1. \A j \in b.start .. (k - 1) : A(j) = b.article
        BY <1>1, <1>2
      <4> QED BY <2>3, <2>9, <4>1 DEF BlockSound, A
    <3>6. \A y \in ToSet(c.blocks) : BlockSound(t, D, y)
      BY <1>1, <3>2, <3>5
    <3>7. \A j \in 1 .. (k - 1) : t[j] \notin Space => \E y \in ToSet(c.blocks) : Within(j, y.range)
      BY <2>6, <3>2
    <3> QED BY <2>1, <2>2, <2>4, <2>5, <2>8, <3>4, <3>6, <3>7 DEF Scanned, n, A, k
  <2>10. CASE ~Solid(t, <<b.start, k>>)
    <3>1. c.blocks = b.blocks
      BY <2>2, <2>10
    <3>2. \A j \in 1 .. (k - 1) : t[j] \notin Space => \E y \in ToSet(c.blocks) : Within(j, y.range)
      BY <2>6, <2>10, <3>1
    <3> QED BY <1>1, <2>1, <2>2, <2>4, <2>5, <2>7, <2>8, <3>1, <3>2 DEF Scanned, n, A, k
  <2> QED BY <2>9, <2>10
<1>5. CASE ~(PageAt(t, k, D) \/ HeadingAt(t, k, D) \/ k = n + 1)
  <2>1. Visit(t, D, b, k) = b
    BY <1>5 DEF Visit
  <2>2. A(k) = b.article
    BY <1>1, <1>3, <1>5
  <2>3. b.start \in 1 .. (k + 1)
    BY <1>1
  <2>4. \A j \in b.start .. k : j \in b.start .. i \/ j = k
    BY <1>1
  <2>5. \A j \in b.start .. k : A(j) = b.article
    BY <1>1, <2>2, <2>4
  <2> HIDE DEF k, n, A
  <2> QED BY <1>1, <1>5, <2>1, <2>2, <2>3, <2>5 DEF Scanned, k, n, A
<1> QED BY <1>4, <1>5

(* The blocks of a text: apart, each sound, and every symbol that is not   *)
(* blank in one.                                                           *)
LEMMA BlocksAre ==
  ASSUME NEW t, Len(t) \in Nat, NEW D, NEW s, s = StructuralBlocks(t, D)
  PROVE  /\ s \in Seq(Block)
         /\ Apart(RangesOf(s), 1, Len(t) + 1)
         /\ \A x \in ToSet(s) : BlockSound(t, D, x)
         /\ \A i \in 1 .. Len(t) : t[i] \notin Space => \E x \in ToSet(s) : Within(i, x.range)
<1> DEFINE n == Len(t) + 1
<1>1. PICK f : /\ f[0] = First
               /\ \A i \in 1 .. n : f[i] = Visit(t, D, f[i - 1], i)
               /\ s = f[n].blocks
  BY ScanIs
<1> DEFINE T == {i \in 0 .. n : Scanned(t, D, i, f[i])}
<1>2. n \in Nat /\ n \in 0 .. n /\ 0 \in 0 .. n
  OBVIOUS
<1>3. 0 \in T
  BY <1>1, <1>2, ScannedFirst
<1>4. ASSUME NEW i \in 0 .. n, i < n, i \in T
      PROVE  i + 1 \in T
  <2>1. i + 1 \in 1 .. n /\ (i + 1) - 1 = i /\ i <= Len(t) /\ i \in Nat /\ i + 1 \in 0 .. n
    BY <1>4
  <2>2. f[i + 1] = Visit(t, D, f[i], i + 1)
    BY <1>1, <2>1
  <2>3. Scanned(t, D, i + 1, f[i + 1])
    BY <1>4, <2>1, <2>2, ScannedNext
  <2> QED BY <2>1, <2>3
<1> HIDE DEF T
<1>5. n \in T
  <2>1. \A i \in 0 .. n : i < n /\ i \in T => i + 1 \in T
    BY <1>4
  <2> HIDE DEF n
  <2>2. 0 .. n \subseteq T
    BY <1>2, <1>3, <2>1, CountUp
  <2> QED BY <1>2, <2>2
<1>6. Scanned(t, D, n, f[n])
  BY <1>5 DEF T
<1>7. f[n].start = n
  BY <1>6 DEF Scanned
<1>8. n - 1 = Len(t)
  OBVIOUS
<1>9. f[n].blocks \in Seq(Block)
  BY <1>6 DEF Scanned, ScanState
<1>10. /\ Apart(RangesOf(s), 1, n)
       /\ \A x \in ToSet(s) : BlockSound(t, D, x)
       /\ \A j \in 1 .. (n - 1) : t[j] \notin Space => \E x \in ToSet(s) : Within(j, x.range)
  <2> HIDE DEF n
  <2> QED BY <1>1, <1>6, <1>7 DEF Scanned
<1> QED BY <1>1, <1>8, <1>9, <1>10

-----------------------------------------------------------------------------
(* Passages.                                                               *)

(* Passages by their types, of a profile with threshold h.                 *)
Kind == {"leaf", "parent", "standalone"}

PassageSet(h) ==
  [range : Nat \X Nat, kind : Kind, of : (Nat \X Nat) \cup {<<>>},
   children : Seq(Nat \X Nat), article : Nat, threshold : {h}]

(* The leaves of a parent, a parent with its leaves, and the passages of a *)
(* block.                                                                  *)
Leaves(t, p, r) == TokenWindows(t, r, p.leaf, p.overlap)

FamilyOf(t, p, block, r) ==
  <<Passage(block, r, "parent", <<>>, Leaves(t, p, r), p.threshold)>> \o
    [k \in DOMAIN Leaves(t, p, r) |->
       Passage(block, Leaves(t, p, r)[k], "leaf", r, <<>>, p.threshold)]

PassagesOf(t, p, block) ==
  IF TokenCount(t, block.range) <= p.leaf
  THEN <<Passage(block, block.range, "standalone", <<>>, <<>>, p.threshold)>>
  ELSE FlattenSeq([k \in DOMAIN BoundedRanges(t, block.range, p.parent) |->
         FamilyOf(t, p, block, BoundedRanges(t, block.range, p.parent)[k])])

(* BuildChunks block by block.                                             *)
LEMMA ChunksFlat ==
  ASSUME NEW t, NEW p
  PROVE  BuildChunks(t, p) =
           FlattenSeq([k \in DOMAIN StructuralBlocks(t, p.boundaries) |->
                         PassagesOf(t, p, StructuralBlocks(t, p.boundaries)[k])])
BY Zenon DEF BuildChunks, PassagesOf, FamilyOf, Leaves

(* Passages that begin in a range, its parents and single passages within  *)
(* it, these apart from each other, and none with the id of another, leaves *)
(* of far windows included.                                                *)
Sound(s, far, h, a, b) ==
  /\ s \in Seq(PassageSet(h)) /\ a \in Nat /\ b \in Nat /\ a <= b
  /\ \A k \in 1 .. Len(s) :
       /\ a <= s[k].range[1] /\ s[k].range[1] < b
       /\ s[k].kind # "leaf" => s[k].range[2] <= b
  /\ \A j, k \in 1 .. Len(s) : j < k =>
       /\ far \/ s[j].kind # "leaf" => Id(s[j]) # Id(s[k])
       /\ s[j].kind # "leaf" /\ s[k].kind # "leaf" => s[j].range[2] <= s[k].range[1]

(* No passages are sound passages of any range ...                         *)
LEMMA NoneSound ==
  ASSUME NEW far \in BOOLEAN, NEW h, NEW a \in Nat, NEW b \in Nat, a <= b
  PROVE  Sound(<<>>, far, h, a, b)
<1>1. Len(<<>>) = 0 /\ <<>> \in Seq(PassageSet(h)) /\ 1 .. 0 = {}
  BY EmptySeq
<1> QED BY <1>1 DEF Sound

(* ... so is one passage of the whole range ...                            *)
LEMMA OneSound ==
  ASSUME NEW far \in BOOLEAN, NEW h, NEW a \in Nat, NEW b \in Nat, a < b, NEW x \in PassageSet(h), x.range = <<a, b>>
  PROVE  Sound(<<x>>, far, h, a, b)
<1>1. /\ Len(<<x>>) = 1 /\ <<x>> \in Seq(PassageSet(h)) /\ <<x>>[1] = x
      /\ \A k \in 1 .. 1 : k = 1
  OBVIOUS
<1>2. x.range[1] = a /\ x.range[2] = b /\ a <= a /\ b <= b /\ a <= b /\ ~(1 < 1)
  OBVIOUS
<1> QED BY <1>1, <1>2 DEF Sound

(* ... and those of two ranges, one behind the other ...                   *)
LEMMA ConcatSound ==
  ASSUME NEW far \in BOOLEAN, NEW h, NEW a, NEW b, NEW c, NEW d, NEW s, NEW t,
         Sound(s, far, h, a, b), Sound(t, far, h, c, d), b <= c
  PROVE  Sound(s \o t, far, h, a, d)
<1> DEFINE P == PassageSet(h)
           u == s \o t
           m == Len(s)
           n == Len(t)
<1>1. /\ s \in Seq(P) /\ t \in Seq(P)
      /\ a \in Nat /\ b \in Nat /\ c \in Nat /\ d \in Nat /\ a <= b /\ c <= d
  BY DEF Sound
<1>2. /\ u \in Seq(P) /\ Len(u) = m + n /\ m \in Nat /\ n \in Nat
      /\ \A i \in 1 .. m : u[i] = s[i] /\ s[i] \in P
      /\ \A i \in 1 .. n : t[i] \in P
      /\ \A i \in 1 .. (m + n) : i \notin 1 .. m => i - m \in 1 .. n /\ u[i] = t[i - m]
  <2> HIDE DEF P
  <2>1. \A i \in 1 .. m : s[i] \in P
    BY <1>1
  <2>2. \A i \in 1 .. n : t[i] \in P
    BY <1>1
  <2> QED BY <1>1, <2>1, <2>2, ConcatIs
<1>3. \A x \in P : x.range[1] \in Nat /\ x.range[2] \in Nat
  <2>1. \A x \in P : x.range \in Nat \X Nat
    BY DEF PassageSet
  <2> HIDE DEF P
  <2> QED BY <2>1
<1>4. /\ \A k \in 1 .. m : /\ a <= s[k].range[1] /\ s[k].range[1] < b
                           /\ s[k].kind # "leaf" => s[k].range[2] <= b
      /\ \A k \in 1 .. n : /\ c <= t[k].range[1] /\ t[k].range[1] < d
                           /\ t[k].kind # "leaf" => t[k].range[2] <= d
      /\ \A j, k \in 1 .. m : j < k =>
           /\ far \/ s[j].kind # "leaf" => Id(s[j]) # Id(s[k])
           /\ s[j].kind # "leaf" /\ s[k].kind # "leaf" => s[j].range[2] <= s[k].range[1]
      /\ \A j, k \in 1 .. n : j < k =>
           /\ far \/ t[j].kind # "leaf" => Id(t[j]) # Id(t[k])
           /\ t[j].kind # "leaf" /\ t[k].kind # "leaf" => t[j].range[2] <= t[k].range[1]
  BY DEF Sound
<1> HIDE DEF P, u, m, n
<1>5. \A k \in 1 .. (m + n) : /\ a <= u[k].range[1] /\ u[k].range[1] < d
                              /\ u[k].kind # "leaf" => u[k].range[2] <= d
  <2> SUFFICES ASSUME NEW k \in 1 .. (m + n)
               PROVE  /\ a <= u[k].range[1] /\ u[k].range[1] < d
                      /\ u[k].kind # "leaf" => u[k].range[2] <= d
    OBVIOUS
  <2>1. CASE k \in 1 .. m
    <3>1. \A x \in Nat : (x < b => x < d) /\ (x <= b => x <= d)
      BY <1>1
    <3>2. u[k] = s[k] /\ s[k].range[1] \in Nat /\ s[k].range[2] \in Nat
      BY <1>2, <1>3, <2>1
    <3> QED BY <1>4, <2>1, <3>1, <3>2, Zenon
  <2>2. CASE k \notin 1 .. m
    <3>1. \A x \in Nat : c <= x => a <= x
      BY <1>1
    <3>2. k - m \in 1 .. n /\ u[k] = t[k - m]
      BY <1>2, <2>2
    <3>3. t[k - m].range[1] \in Nat
      BY <1>2, <1>3, <3>2
    <3> QED BY <1>4, <3>1, <3>2, <3>3, Zenon
  <2> QED BY <2>1, <2>2
<1>6. \A j, k \in 1 .. (m + n) : j < k =>
        /\ far \/ u[j].kind # "leaf" => Id(u[j]) # Id(u[k])
        /\ u[j].kind # "leaf" /\ u[k].kind # "leaf" => u[j].range[2] <= u[k].range[1]
  <2> SUFFICES ASSUME NEW j \in 1 .. (m + n), NEW k \in 1 .. (m + n), j < k
               PROVE  /\ far \/ u[j].kind # "leaf" => Id(u[j]) # Id(u[k])
                      /\ u[j].kind # "leaf" /\ u[k].kind # "leaf" => u[j].range[2] <= u[k].range[1]
    OBVIOUS
  <2>1. CASE k \in 1 .. m
    <3>1. j \in 1 .. m
      BY <1>2, <2>1
    <3> QED BY <1>2, <1>4, <2>1, <3>1, Zenon
  <2>2. CASE k \notin 1 .. m /\ j \in 1 .. m
    <3>1. k - m \in 1 .. n /\ u[k] = t[k - m] /\ u[j] = s[j]
      BY <1>2, <2>2
    <3>2. /\ s[j].range[1] \in Nat /\ s[j].range[2] \in Nat
          /\ t[k - m].range[1] \in Nat
      BY <1>2, <1>3, <2>2, <3>1
    <3>3. /\ s[j].range[1] < b /\ (s[j].kind # "leaf" => s[j].range[2] <= b)
          /\ c <= t[k - m].range[1]
      BY <1>4, <2>2, <3>1
    <3>4. \A x, y \in Nat : c <= y => (x < b => x # y) /\ (x <= b => x <= y)
      BY <1>1
    <3>5. s[j].range[1] # t[k - m].range[1]
      BY <3>2, <3>3, <3>4, Zenon
    <3>6. s[j].kind # "leaf" => s[j].range[2] <= t[k - m].range[1]
      BY <3>2, <3>3, <3>4, Zenon
    <3>7. Id(s[j]) # Id(t[k - m])
      BY <3>5 DEF Id
    <3> QED BY <3>1, <3>6, <3>7, Zenon
  <2>3. CASE k \notin 1 .. m /\ j \notin 1 .. m
    <3>1. k - m \in 1 .. n /\ u[k] = t[k - m] /\ j - m \in 1 .. n /\ u[j] = t[j - m]
      BY <1>2, <2>3
    <3>2. j - m < k - m
      BY <1>2
    <3> QED BY <1>4, <3>1, <3>2, Zenon
  <2> QED BY <2>1, <2>2, <2>3
<1>7. Sound(u, far, h, a, d)
  <2>1. a <= d
    BY <1>1
  <2>2. u \in Seq(PassageSet(h)) /\ Len(u) = m + n
    BY <1>2 DEF P
  <2> QED BY <1>1, <1>5, <1>6, <2>1, <2>2, Zenon DEF Sound
<1> QED BY <1>7 DEF u

(* ... and those of any number of ordered ranges.                          *)
LEMMA FlatSound ==
  ASSUME NEW far \in BOOLEAN, NEW h, NEW a, NEW b, NEW u, Apart(u, a, b),
         NEW s \in Seq(Seq(PassageSet(h))), Len(s) = Len(u),
         \A k \in 1 .. Len(u) : Sound(s[k], far, h, u[k][1], u[k][2])
  PROVE  Sound(FlattenSeq(s), far, h, a, b)
<1> DEFINE n == Len(u)
           E(k) == IF k = 0 THEN a ELSE u[k][2]
<1>1. /\ n \in Nat /\ a \in Nat /\ b \in Nat /\ a <= b
      /\ \A k \in 1 .. n : u[k][1] \in Nat /\ u[k][2] \in Nat
      /\ \A k \in 1 .. n : a <= u[k][1] /\ u[k][1] <= u[k][2] /\ u[k][2] <= b
      /\ \A j, k \in 1 .. n : j < k => u[j][2] <= u[k][1]
  <2>1. u \in Seq(Nat \X Nat)
    BY DEF Apart
  <2>2. n \in Nat /\ \A k \in 1 .. n : u[k] \in Nat \X Nat
    BY <2>1
  <2>3. \A k \in 1 .. n : u[k][1] \in Nat /\ u[k][2] \in Nat
    BY <2>2
  <2> QED BY <2>2, <2>3 DEF Apart
<1>2. PICK g : Run(s, g) /\ FlattenSeq(s) = g[n]
  BY RunExists
<1>3. \A k \in 1 .. n : Sound(s[k], far, h, u[k][1], u[k][2])
  OBVIOUS
<1>4. Len(s) = n
  OBVIOUS
<1> HIDE DEF n
<1> DEFINE T == {k \in 0 .. n : Sound(g[k], far, h, a, E(k))}
<1>5. 0 \in T
  <2>1. g[0] = <<>> /\ E(0) = a /\ 0 \in 0 .. n /\ a <= a
    BY <1>1, <1>2 DEF Run
  <2>2. Sound(<<>>, far, h, a, a)
    BY <1>1, <2>1, NoneSound
  <2> QED BY <2>1, <2>2
<1>6. ASSUME NEW k \in 0 .. n, k < n, k \in T
      PROVE  k + 1 \in T
  <2>1. k + 1 \in 1 .. n /\ (k + 1) - 1 = k /\ k + 1 \in 0 .. n /\ k + 1 # 0
    BY <1>1, <1>6
  <2>2. g[k + 1] = g[k] \o s[k + 1]
    BY <1>2, <1>4, <2>1 DEF Run
  <2>3. E(k) <= u[k + 1][1]
    <3>1. CASE k = 0
      BY <1>1, <2>1, <3>1
    <3>2. CASE k # 0
      <4>1. k \in 1 .. n /\ k < k + 1
        BY <1>1, <3>2
      <4> QED BY <1>1, <2>1, <3>2, <4>1
    <3> QED BY <3>1, <3>2
  <2>4. Sound(g[k], far, h, a, E(k)) /\ Sound(s[k + 1], far, h, u[k + 1][1], u[k + 1][2])
    BY <1>3, <1>6, <2>1
  <2>5. Sound(g[k + 1], far, h, a, u[k + 1][2])
    <3> HIDE DEF E
    <3> QED BY <2>2, <2>3, <2>4, ConcatSound
  <2>6. E(k + 1) = u[k + 1][2]
    BY <2>1
  <2> QED BY <2>1, <2>5, <2>6
<1> HIDE DEF T, E
<1>7. n \in T
  <2>1. \A k \in 0 .. n : k < n /\ k \in T => k + 1 \in T
    BY <1>6
  <2>2. 0 .. n \subseteq T
    BY <1>1, <1>5, <2>1, CountUp
  <2> QED BY <1>1, <2>2
<1>8. Sound(g[n], far, h, a, E(n))
  BY <1>7 DEF T
<1>9. E(n) \in Nat /\ E(n) <= b
  <2>1. n = 0 \/ n \in 1 .. n
    BY <1>1
  <2> QED BY <1>1, <2>1 DEF E
<1>10. Sound(<<>>, far, h, b, b) /\ b <= b
  BY <1>1, NoneSound
<1>11. g[n] \o <<>> = g[n]
  <2>1. g[n] \in Seq(PassageSet(h))
    BY <1>8 DEF Sound
  <2> QED BY <2>1, ConcatEmptySeq
<1>12. Sound(g[n], far, h, a, b)
  BY <1>8, <1>9, <1>10, <1>11, ConcatSound
<1> QED BY <1>2, <1>12

(* What the proofs need of a profile.                                      *)
Settings(p) ==
  /\ p.leaf \in Nat /\ p.parent \in Nat /\ p.overlap \in Nat
  /\ p.overlap < p.leaf /\ p.leaf < p.parent

(* Windows that step by at least the widest symbol.                        *)
Far(p) == p.leaf >= p.overlap + Weight("wide")

(* The numbers of a profile.                                               *)
LEMMA ProfileSettings ==
  ASSUME RetrievalAssumption, NEW p \in Profile
  PROVE  Settings(p)
<1>1. {p.leaf, p.parent, p.overlap} \subseteq Nat /\ p.overlap < p.leaf /\ p.leaf < p.parent
  BY DEF RetrievalAssumption
<1>2. p.leaf \in Nat /\ p.parent \in Nat /\ p.overlap \in Nat
  BY <1>1
<1> QED BY <1>1, <1>2 DEF Settings

(* The three kinds of passage.                                             *)
ParentPassage(t, p, block, r) ==
  Passage(block, r, "parent", <<>>, Leaves(t, p, r), p.threshold)

LeafPassage(p, block, r, l) == Passage(block, l, "leaf", r, <<>>, p.threshold)

SinglePassage(p, block) ==
  Passage(block, block.range, "standalone", <<>>, <<>>, p.threshold)

(* x belongs to the parent of the range r.                                 *)
Relative(t, p, block, r, x) ==
  \/ x = ParentPassage(t, p, block, r)
  \/ \E l \in ToSet(Leaves(t, p, r)) : x = LeafPassage(p, block, r, l)

(* The fields of a parent ...                                              *)
LEMMA ParentIs ==
  ASSUME NEW t, NEW p, NEW block \in Block, NEW r \in Nat \X Nat,
         Leaves(t, p, r) \in Seq(Nat \X Nat)
  PROVE  /\ ParentPassage(t, p, block, r) \in PassageSet(p.threshold)
         /\ ParentPassage(t, p, block, r).range = r
         /\ ParentPassage(t, p, block, r).kind = "parent"
         /\ ParentPassage(t, p, block, r).of = <<>>
         /\ ParentPassage(t, p, block, r).children = Leaves(t, p, r)
         /\ ParentPassage(t, p, block, r).article = block.article
         /\ ParentPassage(t, p, block, r).threshold = p.threshold
<1>1. block.article \in Nat /\ "parent" \in Kind /\ <<>> \in (Nat \X Nat) \cup {<<>>}
  BY DEF Block, Kind
<1> QED BY <1>1 DEF ParentPassage, Passage, PassageSet

(* Two numbers.                                                            *)
Pair == Nat \X Nat

(* ... of a leaf ...                                                       *)
LEMMA LeafIs ==
  ASSUME NEW p, NEW block \in Block, NEW r \in Pair, NEW l \in Pair
  PROVE  /\ LeafPassage(p, block, r, l) \in PassageSet(p.threshold)
         /\ LeafPassage(p, block, r, l).range = l
         /\ LeafPassage(p, block, r, l).kind = "leaf"
         /\ LeafPassage(p, block, r, l).of = r
         /\ LeafPassage(p, block, r, l).children = <<>>
         /\ LeafPassage(p, block, r, l).article = block.article
         /\ LeafPassage(p, block, r, l).threshold = p.threshold
<1>1. block.article \in Nat /\ "leaf" \in Kind /\ <<>> \in Seq(Nat \X Nat)
      /\ r \in Nat \X Nat /\ l \in Nat \X Nat /\ r \in (Nat \X Nat) \cup {<<>>}
  BY DEF Block, Kind, Pair
<1> QED BY <1>1 DEF LeafPassage, Passage, PassageSet

(* ... and of a passage that needs no leaves.                              *)
LEMMA SingleIs ==
  ASSUME NEW p, NEW block \in Block
  PROVE  /\ SinglePassage(p, block) \in PassageSet(p.threshold)
         /\ SinglePassage(p, block).range = block.range
         /\ SinglePassage(p, block).kind = "standalone"
         /\ SinglePassage(p, block).of = <<>>
         /\ SinglePassage(p, block).children = <<>>
         /\ SinglePassage(p, block).article = block.article
         /\ SinglePassage(p, block).threshold = p.threshold
<1>1. block.article \in Nat /\ "standalone" \in Kind /\ <<>> \in Seq(Nat \X Nat)
      /\ <<>> \in (Nat \X Nat) \cup {<<>>} /\ block.range \in Nat \X Nat
  BY DEF Block, Kind
<1> QED BY <1>1 DEF SinglePassage, Passage, PassageSet

(* A parent with its leaves is sound: the leaves differ where windows do   *)
(* not begin at the same place.                                            *)
LEMMA FamilyIs ==
  ASSUME NEW t, NEW p, Settings(p), NEW block \in Block, NEW a \in Nat, NEW b \in Nat, a < b
  PROVE  /\ Sound(FamilyOf(t, p, block, <<a, b>>), Far(p), p.threshold, a, b)
         /\ Windowed(t, Leaves(t, p, <<a, b>>), a, b, p.leaf) /\ Leaves(t, p, <<a, b>>) # <<>>
         /\ \A x : x \in ToSet(FamilyOf(t, p, block, <<a, b>>)) <=> Relative(t, p, block, <<a, b>>, x)
<1> DEFINE r == <<a, b>>
           w == Leaves(t, p, r)
           h == p.threshold
           m == Len(w)
           x == ParentPassage(t, p, block, r)
           V(k) == LeafPassage(p, block, r, w[k])
           v == [k \in 1 .. m |-> V(k)]
           s == <<x>> \o v
<1>1. /\ Windowed(t, w, a, b, p.leaf) /\ m >= 1
      /\ Far(p) => \A j, k \in 1 .. m : j < k => w[j][1] < w[k][1]
  <2>1. /\ p.leaf \in Nat /\ p.overlap \in Nat /\ p.overlap < p.leaf
        /\ Far(p) => p.overlap + 2 <= p.leaf
    BY DEF Settings, Far, Weight
  <2>2. w = TokenWindows(t, <<a, b>>, p.leaf, p.overlap)
    BY DEF Leaves
  <2> HIDE DEF w
  <2> QED BY <2>1, <2>2, WindowsCover
<1>2. w \in Seq(Nat \X Nat) /\ m \in Nat /\ DOMAIN w = 1 .. m /\ \A k \in 1 .. m : w[k] \in Nat \X Nat
  <2>1. w \in Seq(Nat \X Nat)
    BY <1>1 DEF Windowed, Covers
  <2> HIDE DEF w
  <2> QED BY <2>1
<1>3. FamilyOf(t, p, block, r) = s
  BY <1>2, Zenon DEF FamilyOf, ParentPassage, LeafPassage
<1>4. w # <<>>
  <2> HIDE DEF w
  <2> QED BY <1>1, EmptySeq
<1>5. r \in Nat \X Nat /\ r[1] = a /\ r[2] = b
  OBVIOUS
<1>6. /\ x \in PassageSet(h) /\ x.range = r /\ x.kind = "parent"
  <2> HIDE DEF r
  <2> QED BY <1>2, <1>5, ParentIs
<1>7. \A k \in 1 .. m : V(k) \in PassageSet(h) /\ V(k).range = w[k] /\ V(k).kind = "leaf"
  <2> SUFFICES ASSUME NEW k \in 1 .. m
               PROVE  V(k) \in PassageSet(h) /\ V(k).range = w[k] /\ V(k).kind = "leaf"
    OBVIOUS
  <2>1. w[k] \in Nat \X Nat
    BY <1>2
  <2> HIDE DEF w, r
  <2>2. r \in Pair /\ w[k] \in Pair
    BY <1>5, <2>1 DEF Pair
  <2>3. \A l \in Pair : LeafPassage(p, block, r, l) \in PassageSet(h)
    BY <2>2, LeafIs
  <2>4. \A l \in Pair : LeafPassage(p, block, r, l).range = l
    BY DEF LeafPassage, Passage
  <2>5. \A l \in Pair : LeafPassage(p, block, r, l).kind = "leaf"
    BY DEF LeafPassage, Passage
  <2> QED BY <2>2, <2>3, <2>4, <2>5
<1> HIDE DEF w, r, h, x, V
<1>8. v \in Seq(PassageSet(h)) /\ Len(v) = m /\ \A k \in 1 .. m : v[k] = V(k)
  <2>1. v \in [1 .. m -> PassageSet(h)]
    BY <1>7
  <2>2. \A k \in 1 .. m : v[k] = V(k)
    OBVIOUS
  <2> HIDE DEF v, m
  <2> QED BY <1>2, <2>1, <2>2, SequenceIs
<1> HIDE DEF v, m
<1>9. <<x>> \in Seq(PassageSet(h)) /\ Len(<<x>>) = 1 /\ <<x>>[1] = x /\ ToSet(<<x>>) = {x}
  BY <1>6 DEF ToSet
<1>10. /\ s \in Seq(PassageSet(h)) /\ Len(s) = 1 + m /\ s[1] = x
       /\ \A k \in 1 .. (1 + m) : k = 1 \/ (k - 1 \in 1 .. m /\ s[k] = V(k - 1))
  <2>1. /\ s \in Seq(PassageSet(h)) /\ Len(s) = 1 + m
        /\ \A i \in 1 .. 1 : s[i] = <<x>>[i]
        /\ \A i \in 1 .. (1 + m) : i \in 1 .. 1 \/ (i - 1 \in 1 .. m /\ s[i] = v[i - 1])
    <3> DEFINE q == <<x>>
           P == PassageSet(h)
    <3> HIDE DEF q, s, P
    <3>1. s = q \o v /\ q \in Seq(P) /\ Len(q) = 1 /\ v \in Seq(P)
      BY <1>8, <1>9 DEF q, s, P
    <3>0. q \in Seq(P) /\ v \in Seq(P)
      BY <3>1
    <3>2. /\ q \o v \in Seq(P) /\ Len(q \o v) = Len(q) + Len(v)
          /\ \A i \in 1 .. Len(q) : (q \o v)[i] = q[i]
      BY <3>1, ConcatIs
    <3>3. \A i \in 1 .. (Len(q) + Len(v)) :
               i \notin 1 .. Len(q) => i - Len(q) \in 1 .. Len(v) /\ (q \o v)[i] = v[i - Len(q)]
      BY <3>0, ConcatIs
    <3> QED BY <1>8, <3>1, <3>2, <3>3 DEF q, P
  <2>2. 1 \in 1 .. 1 /\ \A i \in 1 .. 1 : i = 1
    OBVIOUS
  <2>3. \A i \in 1 .. (1 + m) : i = 1 \/ (i - 1 \in 1 .. m /\ s[i] = v[i - 1])
    BY <2>1, <2>2
  <2>4. s[1] = x
    BY <1>9, <2>1, <2>2
  <2> HIDE DEF s
  <2> QED BY <1>8, <2>1, <2>3, <2>4
<1>11. ToSet(s) = {x} \cup ToSet(v)
  <2>1. ToSet(<<x>> \o v) = ToSet(<<x>>) \cup ToSet(v)
    <3> DEFINE q == <<x>>
    <3>1. q \in Seq(PassageSet(h))
      BY <1>9
    <3> HIDE DEF q
    <3>2. ToSet(q \o v) = ToSet(q) \cup ToSet(v)
      BY <1>8, <3>1, ConcatSet
    <3> QED BY <3>2 DEF q
  <2> QED BY <1>9, <2>1
<1>12. \A y : y \in ToSet(v) <=> \E l \in ToSet(w) : y = LeafPassage(p, block, r, l)
  <2>1. DOMAIN v = 1 .. m
    BY <1>2, <1>8
  <2>2. \A y : y \in ToSet(v) <=> \E k \in 1 .. m : y = V(k)
    BY <1>8, <2>1 DEF ToSet
  <2>3. \A l : l \in ToSet(w) <=> \E k \in 1 .. m : l = w[k]
    BY <1>2 DEF ToSet
  <2> QED BY <2>2, <2>3 DEF V
<1> HIDE DEF s
<1>13. \A k \in 1 .. m : /\ w[k][1] \in Nat /\ a <= w[k][1] /\ w[k][1] < b
  BY <1>1 DEF Windowed, m
<1>14. \A k \in 1 .. (1 + m) : /\ a <= s[k].range[1] /\ s[k].range[1] < b
                               /\ s[k].kind # "leaf" => s[k].range[2] <= b
  <2> SUFFICES ASSUME NEW k \in 1 .. (1 + m)
               PROVE  /\ a <= s[k].range[1] /\ s[k].range[1] < b
                      /\ s[k].kind # "leaf" => s[k].range[2] <= b
    OBVIOUS
  <2>1. CASE k = 1
    <3>1. a <= a /\ b <= b /\ a < b
      OBVIOUS
    <3> QED BY <1>5, <1>6, <1>10, <2>1, <3>1
  <2>2. CASE k # 1
    <3>1. k - 1 \in 1 .. m /\ s[k] = V(k - 1)
      BY <1>10, <2>2
    <3> QED BY <1>7, <1>13, <3>1
  <2> QED BY <2>1, <2>2
<1>15. \A j, k \in 1 .. (1 + m) : j < k =>
         /\ Far(p) \/ s[j].kind # "leaf" => Id(s[j]) # Id(s[k])
         /\ s[j].kind # "leaf" /\ s[k].kind # "leaf" => s[j].range[2] <= s[k].range[1]
  <2> SUFFICES ASSUME NEW j \in 1 .. (1 + m), NEW k \in 1 .. (1 + m), j < k
               PROVE  /\ Far(p) \/ s[j].kind # "leaf" => Id(s[j]) # Id(s[k])
                      /\ s[k].kind = "leaf"
    BY Zenon
  <2>1. k # 1
    BY <1>2
  <2>2. k - 1 \in 1 .. m /\ s[k] = V(k - 1)
    BY <1>10, <2>1
  <2>3. s[k].kind = "leaf" /\ s[k].range = w[k - 1]
    BY <1>7, <2>2
  <2>4. CASE j = 1
    <3>1. s[j].kind # s[k].kind
      BY <1>6, <1>10, <2>3, <2>4
    <3> QED BY <2>3, <3>1 DEF Id
  <2>5. CASE j # 1
    <3>1. j - 1 \in 1 .. m /\ s[j] = V(j - 1)
      BY <1>10, <2>5
    <3>2. j - 1 < k - 1
      BY <1>2
    <3>3. /\ Far(p) => w[j - 1][1] < w[k - 1][1]
          /\ w[j - 1][1] \in Nat /\ w[k - 1][1] \in Nat
      BY <1>1, <1>13, <2>2, <3>1, <3>2 DEF m
    <3>4. Far(p) => w[j - 1] # w[k - 1]
      BY <3>3
    <3>5. s[j].kind = "leaf" /\ (Far(p) => s[j].range # s[k].range)
      BY <1>7, <2>3, <3>1, <3>4
    <3> QED BY <2>3, <3>5 DEF Id
  <2> QED BY <2>4, <2>5
<1>16. Sound(s, Far(p), h, a, b)
  <2>1. a <= b
    OBVIOUS
  <2> QED BY <1>10, <1>14, <1>15, <2>1, Zenon DEF Sound
<1>17. \A y : y \in ToSet(s) <=> y = x \/ \E l \in ToSet(w) : y = LeafPassage(p, block, r, l)
  BY <1>11, <1>12
<1>18. \A y : y \in ToSet(s) <=> Relative(t, p, block, r, y)
  BY <1>17 DEF Relative, w, x
<1> QED BY <1>1, <1>3, <1>4, <1>16, <1>18 DEF w, h, r

(* A range that is not blank is not empty.                                 *)
LEMMA SolidRange ==
  ASSUME NEW t, NEW r \in Nat \X Nat, Solid(t, r)
  PROVE  r[1] \in Nat /\ r[2] \in Nat /\ r = <<r[1], r[2]>> /\ r[1] < r[2]
<1>1. r[1] \in Nat /\ r[2] \in Nat /\ r = <<r[1], r[2]>>
  OBVIOUS
<1>2. PICK i \in r[1] .. (r[2] - 1) : t[i] \notin Space
  BY DEF Solid
<1>3. r[1] < r[2]
  BY <1>1, <1>2
<1> QED BY <1>1, <1>3

(* What a block's passages are.                                            *)
MadeOf(t, p, block, x) ==
  \/ TokenCount(t, block.range) <= p.leaf /\ x = SinglePassage(p, block)
  \/ /\ ~(TokenCount(t, block.range) <= p.leaf)
     /\ \E r \in ToSet(BoundedRanges(t, block.range, p.parent)) : Relative(t, p, block, r, x)

(* The passages of a block are sound, and made from it alone.              *)
LEMMA BlockPassages ==
  ASSUME NEW t, NEW p, Settings(p), NEW block \in Block, Solid(t, block.range)
  PROVE  /\ Sound(PassagesOf(t, p, block), Far(p), p.threshold, block.range[1], block.range[2])
         /\ \A x : x \in ToSet(PassagesOf(t, p, block)) <=> MadeOf(t, p, block, x)
<1> DEFINE a == block.range[1]
           b == block.range[2]
           h == p.threshold
           far == Far(p)
<1>0. far \in BOOLEAN
  BY DEF Far
<1>1. block.range \in Nat \X Nat
  BY DEF Block
<1>2. a \in Nat /\ b \in Nat /\ block.range = <<a, b>> /\ a < b
  BY <1>1, SolidRange
<1> HIDE DEF a, b, far
<1>3. CASE TokenCount(t, block.range) <= p.leaf
  <2> DEFINE x == SinglePassage(p, block)
  <2>1. PassagesOf(t, p, block) = <<x>>
    BY <1>3 DEF PassagesOf, SinglePassage
  <2>2. x \in PassageSet(h) /\ x.range = <<a, b>>
    BY <1>2, SingleIs
  <2> HIDE DEF x, h
  <2>3. Sound(<<x>>, far, h, a, b) /\ ToSet(<<x>>) = {x}
    BY <1>0, <1>2, <2>2, OneSound DEF ToSet
  <2>4. \A y : MadeOf(t, p, block, y) <=> y = x
    BY <1>3 DEF MadeOf, x
  <2> QED BY <2>1, <2>3, <2>4 DEF a, b, h, far
<1>4. CASE ~(TokenCount(t, block.range) <= p.leaf)
  <2> DEFINE q == BoundedRanges(t, block.range, p.parent)
             n == Len(q)
             V(k) == FamilyOf(t, p, block, q[k])
             u == [k \in 1 .. n |-> V(k)]
  <2>1. /\ Apart(q, a, b)
        /\ \A r \in ToSet(q) : Solid(t, r)
    <3>1. p.parent \in Nat /\ p.parent >= 1
      BY DEF Settings
    <3>2. a <= b /\ q = BoundedRanges(t, <<a, b>>, p.parent)
      BY <1>2
    <3> HIDE DEF q
    <3> QED BY <1>2, <3>1, <3>2, BoundedRangesAre
  <2>2. q \in Seq(Nat \X Nat) /\ n \in Nat /\ DOMAIN q = 1 .. n
    <3>1. q \in Seq(Nat \X Nat)
      BY <2>1 DEF Apart
    <3> HIDE DEF q
    <3> QED BY <3>1
  <2>3. PassagesOf(t, p, block) = FlattenSeq(u)
    BY <1>4, <2>2, Zenon DEF PassagesOf
  <2> HIDE DEF q
  <2>4. \A k \in 1 .. n : /\ Sound(V(k), far, h, q[k][1], q[k][2])
                          /\ \A x : x \in ToSet(V(k)) <=> Relative(t, p, block, q[k], x)
    <3> SUFFICES ASSUME NEW k \in 1 .. n
                 PROVE  /\ Sound(V(k), far, h, q[k][1], q[k][2])
                        /\ \A x : x \in ToSet(V(k)) <=> Relative(t, p, block, q[k], x)
      OBVIOUS
    <3>1. q[k] \in Nat \X Nat /\ q[k] \in ToSet(q)
      <4>1. q[k] \in Nat \X Nat
        BY <2>2
      <4>2. q[k] \in ToSet(q)
        BY <2>2, Zenon DEF ToSet
      <4> QED BY <4>1, <4>2
    <3> DEFINE c == q[k][1]
               d == q[k][2]
    <3>2. c \in Nat /\ d \in Nat /\ q[k] = <<c, d>> /\ c < d
      BY <2>1, <3>1, SolidRange
    <3> HIDE DEF c, d
    <3>3. /\ Sound(FamilyOf(t, p, block, <<c, d>>), far, h, c, d)
          /\ \A x : x \in ToSet(FamilyOf(t, p, block, <<c, d>>)) <=> Relative(t, p, block, <<c, d>>, x)
      BY <3>2, FamilyIs DEF far
    <3> QED BY <3>2, <3>3 DEF c, d
  <2> HIDE DEF V
  <2>5. u \in Seq(Seq(PassageSet(h))) /\ Len(u) = n /\ \A k \in 1 .. n : u[k] = V(k)
    <3>1. \A k \in 1 .. n : V(k) \in Seq(PassageSet(h))
      BY <2>4 DEF Sound
    <3>2. u \in [1 .. n -> Seq(PassageSet(h))]
      BY <3>1
    <3>3. \A k \in 1 .. n : u[k] = V(k)
      OBVIOUS
    <3> HIDE DEF u, n
    <3> QED BY <2>2, <3>2, <3>3, SequenceIs
  <2> HIDE DEF u
  <2>6. Sound(FlattenSeq(u), far, h, a, b)
    <3>1. \A k \in 1 .. Len(q) : Sound(u[k], far, h, q[k][1], q[k][2])
      BY <2>4, <2>5
    <3> QED BY <1>0, <2>1, <2>5, <3>1, FlatSound
  <2>7. \A x : x \in ToSet(FlattenSeq(u)) <=> MadeOf(t, p, block, x)
    <3>1. \A x : x \in ToSet(FlattenSeq(u)) <=> \E k \in 1 .. n : x \in ToSet(V(k))
      BY <2>5, FlatMembers
    <3>2. \A r : r \in ToSet(q) <=> \E k \in 1 .. n : r = q[k]
      BY <2>2 DEF ToSet
    <3>3. \A x : MadeOf(t, p, block, x) <=> \E r \in ToSet(q) : Relative(t, p, block, r, x)
      BY <1>4 DEF MadeOf, q
    <3> HIDE DEF n
    <3> QED BY <2>4, <3>1, <3>2, <3>3
  <2> QED BY <2>3, <2>6, <2>7 DEF a, b, far
<1> QED BY <1>3, <1>4

(* The passages of a document are sound, and every one is made from one of *)
(* its blocks.                                                             *)
LEMMA ChunksAre ==
  ASSUME NEW t, Len(t) \in Nat, NEW p, Settings(p)
  PROVE  /\ Sound(BuildChunks(t, p), Far(p), p.threshold, 1, Len(t) + 1)
         /\ \A x : x \in ToSet(BuildChunks(t, p)) <=>
              \E block \in ToSet(StructuralBlocks(t, p.boundaries)) : MadeOf(t, p, block, x)
<1> DEFINE s == StructuralBlocks(t, p.boundaries)
           h == p.threshold
           far == Far(p)
           n == Len(s)
           V(k) == PassagesOf(t, p, s[k])
           u == [k \in 1 .. n |-> V(k)]
<1>0. far \in BOOLEAN
  BY DEF Far
<1>1. /\ s \in Seq(Block) /\ Apart(RangesOf(s), 1, Len(t) + 1)
      /\ \A x \in ToSet(s) : BlockSound(t, p.boundaries, x)
  <2> HIDE DEF s
  <2> QED BY BlocksAre DEF s
<1>2. n \in Nat /\ DOMAIN s = 1 .. n /\ \A k \in 1 .. n : s[k] \in Block
  <2> HIDE DEF s
  <2> QED BY <1>1
<1>3. BuildChunks(t, p) = FlattenSeq(u)
  BY <1>2, ChunksFlat, Zenon
<1> HIDE DEF s
<1>4. \A k \in 1 .. n : /\ Sound(V(k), far, h, s[k].range[1], s[k].range[2])
                        /\ \A x : x \in ToSet(V(k)) <=> MadeOf(t, p, s[k], x)
  <2> SUFFICES ASSUME NEW k \in 1 .. n
               PROVE  /\ Sound(V(k), far, h, s[k].range[1], s[k].range[2])
                      /\ \A x : x \in ToSet(V(k)) <=> MadeOf(t, p, s[k], x)
    OBVIOUS
  <2>1. s[k] \in Block /\ s[k] \in ToSet(s)
    BY <1>2 DEF ToSet
  <2>2. Solid(t, s[k].range)
    BY <1>1, <2>1 DEF BlockSound
  <2> QED BY <2>1, <2>2, BlockPassages
<1> HIDE DEF V, far
<1>5. u \in Seq(Seq(PassageSet(h))) /\ Len(u) = n /\ \A k \in 1 .. n : u[k] = V(k)
  <2>1. \A k \in 1 .. n : V(k) \in Seq(PassageSet(h))
    BY <1>4 DEF Sound
  <2>2. u \in [1 .. n -> Seq(PassageSet(h))]
    BY <2>1
  <2>3. \A k \in 1 .. n : u[k] = V(k)
    OBVIOUS
  <2> HIDE DEF u, n
  <2> QED BY <1>2, <2>2, <2>3, SequenceIs
<1> HIDE DEF u
<1>6. Sound(FlattenSeq(u), far, h, 1, Len(t) + 1)
  <2>1. RangesOf(s) = [k \in 1 .. n |-> s[k].range] /\ \A k \in 1 .. n : RangesOf(s)[k] = s[k].range
    BY DEF RangesOf
  <2>2. Len(RangesOf(s)) = n
    <3>1. RangesOf(s) \in [1 .. n -> Nat \X Nat]
      BY <1>2, <2>1 DEF Block
    <3> HIDE DEF n
    <3> QED BY <1>2, <3>1, SequenceIs
  <2>3. \A k \in 1 .. Len(RangesOf(s)) : Sound(u[k], far, h, RangesOf(s)[k][1], RangesOf(s)[k][2])
    BY <1>4, <1>5, <2>1, <2>2
  <2> HIDE DEF h
  <2> QED BY <1>0, <1>1, <1>5, <2>2, <2>3, FlatSound
<1>7. \A x : x \in ToSet(FlattenSeq(u)) <=> \E block \in ToSet(s) : MadeOf(t, p, block, x)
  <2>1. \A x : x \in ToSet(FlattenSeq(u)) <=> \E k \in 1 .. n : x \in ToSet(V(k))
    BY <1>5, FlatMembers
  <2>2. \A y : y \in ToSet(s) <=> \E k \in 1 .. n : y = s[k]
    BY <1>2 DEF ToSet
  <2>3. \A k \in 1 .. n : \A x : x \in ToSet(V(k)) <=> MadeOf(t, p, s[k], x)
    BY <1>4
  <2> HIDE DEF n
  <2> QED BY <2>1, <2>2, <2>3
<1> QED BY <1>3, <1>6, <1>7 DEF s, far

(* The passages of a version, as its rows.                                 *)
Rows(t, p) == ToSet(BuildChunks(t, p))

(* Every place of the row is of its article.                               *)
InArticle(t, D, x) ==
  \A i \in x.range[1] .. (x.range[2] - 1) : ArticleOf(t, i, D) = x.article

(* A parent names its leaf, holds it and is of its article.                *)
IsParentOf(y, x) ==
  /\ y.kind = "parent" /\ y.range = x.of /\ x.range \in ToSet(y.children)
  /\ y.range[1] <= x.range[1] /\ x.range[2] <= y.range[2]
  /\ y.article = x.article

(* What a row of the version has to be.                                    *)
Row(t, p, x) ==
  /\ x \in PassageSet(p.threshold)
  /\ x.kind = "parent" <=> x.children # <<>>
  /\ x.kind = "leaf" => \E y \in Rows(t, p) : IsParentOf(y, x)
  /\ x.kind = "standalone" => x.of = <<>>
  /\ InArticle(t, p.boundaries, x)
  /\ TokenCount(t, x.range) <= 1 + (IF x.kind = "parent" THEN p.parent ELSE p.leaf)

(* A range within a range of one article is of that article.               *)
LEMMA Narrower ==
  ASSUME NEW t, NEW D, NEW A, NEW a \in Nat, NEW b \in Nat, NEW c \in Nat, NEW d \in Nat,
         \A i \in a .. (b - 1) : ArticleOf(t, i, D) = A, a <= c, d <= b
  PROVE  \A i \in c .. (d - 1) : ArticleOf(t, i, D) = A
<1>1. \A i \in c .. (d - 1) : i \in a .. (b - 1)
  OBVIOUS
<1> QED BY <1>1

(* Every row of a version is what a row has to be.                         *)
LEMMA RowsAre ==
  ASSUME NEW t, Len(t) \in Nat, NEW p, Settings(p)
  PROVE  \A x \in Rows(t, p) : Row(t, p, x)
<1> SUFFICES ASSUME NEW x \in Rows(t, p)
             PROVE  Row(t, p, x)
  OBVIOUS
<1> DEFINE D == p.boundaries
<1>1. PICK block \in ToSet(StructuralBlocks(t, D)) : MadeOf(t, p, block, x)
  BY ChunksAre DEF Rows
<1>2. block \in Block /\ BlockSound(t, D, block)
  <2> DEFINE s == StructuralBlocks(t, D)
  <2>1. s \in Seq(Block) /\ \A y \in ToSet(s) : BlockSound(t, D, y)
    BY BlocksAre
  <2> HIDE DEF s
  <2>2. ToSet(s) \subseteq Block
    BY <2>1 DEF ToSet
  <2> QED BY <2>1, <2>2 DEF s
<1> DEFINE a == block.range[1]
           b == block.range[2]
<1>3. /\ a \in Nat /\ b \in Nat /\ block.range = <<a, b>> /\ a < b
      /\ block.range \in Nat \X Nat
  <2>1. block.range \in Nat \X Nat
    BY <1>2 DEF Block
  <2>2. Solid(t, block.range)
    BY <1>2 DEF BlockSound
  <2> QED BY <2>1, <2>2, SolidRange
<1>4. \A i \in a .. (b - 1) : ArticleOf(t, i, D) = block.article
  BY <1>2 DEF BlockSound
<1> HIDE DEF a, b
<1>5. p.leaf \in Nat /\ p.parent \in Nat /\ p.parent >= 1
  BY DEF Settings
<1>6. CASE TokenCount(t, block.range) <= p.leaf /\ x = SinglePassage(p, block)
  <2>1. /\ x \in PassageSet(p.threshold) /\ x.range = <<a, b>> /\ x.kind = "standalone"
        /\ x.children = <<>> /\ x.article = block.article /\ x.of = <<>>
    BY <1>2, <1>3, <1>6, SingleIs
  <2>2. x.range[1] = a /\ x.range[2] = b
    BY <2>1
  <2>3. InArticle(t, D, x)
    BY <1>4, <2>1, <2>2 DEF InArticle
  <2>4. TokenCount(t, <<a, b>>) <= 1 + p.leaf
    <3>1. TokenCount(t, <<a, b>>) \in Nat
      <4>1. a <= b
        BY <1>3
      <4> QED BY <1>3, <4>1, CountNext
    <3> QED BY <1>3, <1>5, <1>6, <3>1
  <2> QED BY <2>1, <2>3, <2>4 DEF Row
<1>7. CASE /\ ~(TokenCount(t, block.range) <= p.leaf)
           /\ \E r \in ToSet(BoundedRanges(t, block.range, p.parent)) : Relative(t, p, block, r, x)
  <2>1. PICK r \in ToSet(BoundedRanges(t, block.range, p.parent)) : Relative(t, p, block, r, x)
    BY <1>7
  <2>2. /\ r \in Nat \X Nat /\ a <= r[1] /\ r[2] <= b /\ Solid(t, r)
        /\ TokenCount(t, r) <= p.parent + 1
    <3> DEFINE q == BoundedRanges(t, <<a, b>>, p.parent)
    <3>1. /\ Apart(q, a, b)
          /\ \A y \in ToSet(q) : Solid(t, y) /\ TokenCount(t, y) <= p.parent + 1
      <4>1. a <= b
        BY <1>3
      <4> HIDE DEF q
      <4> QED BY <1>3, <1>5, <4>1, BoundedRangesAre DEF q
    <3>2. r \in ToSet(q)
      BY <1>3, <2>1
    <3> HIDE DEF q
    <3>3. q \in Seq(Nat \X Nat)
      BY <3>1 DEF Apart
    <3>4. PICK k \in 1 .. Len(q) : r = q[k]
      BY <3>2, <3>3 DEF ToSet
    <3>5. a <= q[k][1] /\ q[k][2] <= b
      BY <3>1 DEF Apart
    <3>6. q[k] \in Nat \X Nat
      BY <3>3
    <3> QED BY <3>1, <3>2, <3>4, <3>5, <3>6
  <2> DEFINE c == r[1]
             d == r[2]
             w == Leaves(t, p, r)
             y == ParentPassage(t, p, block, r)
  <2>3. c \in Nat /\ d \in Nat /\ r = <<c, d>> /\ c < d
    BY <2>2, SolidRange
  <2>4. a <= c /\ d <= b
    BY <2>2
  <2>5. Windowed(t, w, c, d, p.leaf) /\ w # <<>>
    <3> HIDE DEF c, d
    <3> QED BY <1>2, <2>3, FamilyIs
  <2>6. w \in Seq(Nat \X Nat)
    BY <2>5 DEF Windowed, Covers
  <2>7. /\ y \in PassageSet(p.threshold) /\ y.range = r /\ y.kind = "parent"
        /\ y.children = w /\ y.article = block.article
    <3> HIDE DEF w
    <3> QED BY <1>2, <2>2, <2>6, ParentIs DEF w
  <2>8. y \in Rows(t, p)
    <3>1. Relative(t, p, block, r, y)
      BY DEF Relative
    <3>2. MadeOf(t, p, block, y)
      <4> HIDE DEF y
      <4> QED BY <1>7, <2>1, <3>1 DEF MadeOf
    <3> HIDE DEF y
    <3> QED BY <1>1, <3>2, ChunksAre DEF Rows
  <2> HIDE DEF c, d, w, y
  <2>9. CASE x = y
    <3>1. InArticle(t, D, x)
      <4>1. \A i \in c .. (d - 1) : ArticleOf(t, i, D) = block.article
        BY <1>3, <1>4, <2>3, <2>4, Narrower
      <4> QED BY <2>7, <2>9, <4>1 DEF InArticle, c, d
    <3>2. TokenCount(t, x.range) <= 1 + p.parent
      <4>1. TokenCount(t, <<c, d>>) \in Nat
        <5>1. c <= d
          BY <2>3
        <5> QED BY <2>3, <5>1, CountNext
      <4>2. TokenCount(t, <<c, d>>) <= p.parent + 1
        BY <2>2, <2>3
      <4>3. \A n \in Nat : n <= p.parent + 1 => n <= 1 + p.parent
        BY <1>5
      <4>4. x.range = <<c, d>>
        BY <2>3, <2>7, <2>9
      <4> QED BY <4>1, <4>2, <4>3, <4>4, Zenon
    <3> QED BY <2>5, <2>7, <2>9, <3>1, <3>2 DEF Row
  <2>10. CASE \E l \in ToSet(w) : x = LeafPassage(p, block, r, l)
    <3>1. PICK l \in ToSet(w) : x = LeafPassage(p, block, r, l)
      BY <2>10
    <3>2. PICK k \in 1 .. Len(w) : l = w[k]
      BY <2>6, <3>1 DEF ToSet
    <3>3. l \in Nat \X Nat
      BY <2>6, <3>2
    <3>4. /\ l[1] \in Nat /\ l[2] \in Nat /\ c <= l[1] /\ l[2] <= d
          /\ TokenCount(t, l) \in Nat /\ TokenCount(t, l) <= p.leaf + 1
      BY <2>5, <3>2 DEF Windowed
    <3>5. /\ x \in PassageSet(p.threshold) /\ x.range = l /\ x.kind = "leaf" /\ x.of = r
          /\ x.children = <<>> /\ x.article = block.article
      <4>1. r \in Pair /\ l \in Pair
        BY <2>2, <3>3 DEF Pair
      <4>2. block \in Block
        BY <1>2
      <4>3. /\ LeafPassage(p, block, r, l) \in PassageSet(p.threshold)
            /\ LeafPassage(p, block, r, l).range = l
            /\ LeafPassage(p, block, r, l).kind = "leaf"
            /\ LeafPassage(p, block, r, l).of = r
            /\ LeafPassage(p, block, r, l).children = <<>>
            /\ LeafPassage(p, block, r, l).article = block.article
        BY <4>1, <4>2, LeafIs
      <4> QED BY <3>1, <4>3, Zenon
    <3>6. InArticle(t, D, x)
      <4>1. a <= l[1] /\ l[2] <= b
        BY <1>3, <2>3, <2>4, <3>4
      <4>2. \A i \in l[1] .. (l[2] - 1) : ArticleOf(t, i, D) = block.article
        BY <1>3, <1>4, <3>4, <4>1, Narrower
      <4> QED BY <3>5, <4>2 DEF InArticle
    <3>7. IsParentOf(y, x)
      BY <2>7, <3>1, <3>4, <3>5 DEF IsParentOf, c, d
    <3>8. TokenCount(t, x.range) <= 1 + p.leaf
      <4>1. \A n \in Nat : n <= p.leaf + 1 => n <= 1 + p.leaf
        BY <1>5
      <4> QED BY <3>4, <3>5, <4>1, Zenon
    <3> QED BY <2>8, <3>5, <3>6, <3>7, <3>8 DEF Row
  <2> QED BY <2>1, <2>9, <2>10 DEF Relative, w, y
<1> QED BY <1>1, <1>6, <1>7 DEF MadeOf

(* The primary key: the document, its checksum, the range and the kind.    *)
LEMMA RowIdsDiffer ==
  ASSUME NEW t, Len(t) \in Nat, NEW p, Settings(p)
  PROVE  /\ Far(p) => IdsDiffer(BuildChunks(t, p))
         /\ \A x, y \in Rows(t, p) :
              x.kind = "parent" /\ y.kind = "parent" /\ x.range = y.range => x = y
<1> DEFINE s == BuildChunks(t, p)
<1>1. Sound(s, Far(p), p.threshold, 1, Len(t) + 1)
  BY ChunksAre
<1> HIDE DEF s
<1>2. DOMAIN s = 1 .. Len(s) /\ Len(s) \in Nat
  <2>1. s \in Seq(PassageSet(p.threshold))
    BY <1>1 DEF Sound
  <2> QED BY <2>1
<1>3. \A j, k \in 1 .. Len(s) : j < k /\ (Far(p) \/ s[j].kind # "leaf") => Id(s[j]) # Id(s[k])
  BY <1>1 DEF Sound
<1>4. \A j, k \in 1 .. Len(s) : j = k \/ j < k \/ k < j
  BY <1>2
<1>5. Far(p) => \A j, k \in DOMAIN s : Id(s[j]) = Id(s[k]) => j = k
  BY <1>2, <1>3, <1>4
<1>6. \A x, y \in ToSet(s) : x.kind = "parent" /\ y.kind = "parent" /\ x.range = y.range => x = y
  <2> SUFFICES ASSUME NEW x \in ToSet(s), NEW y \in ToSet(s),
                      x.kind = "parent", y.kind = "parent", x.range = y.range
               PROVE  x = y
    OBVIOUS
  <2>1. PICK j \in DOMAIN s : x = s[j]
    BY DEF ToSet
  <2>2. PICK k \in DOMAIN s : y = s[k]
    BY DEF ToSet
  <2>3. Id(x) = Id(y)
    BY DEF Id
  <2>4. ~(j < k) /\ ~(k < j)
    BY <1>2, <1>3, <2>1, <2>2, <2>3
  <2> QED BY <1>2, <1>4, <2>1, <2>2, <2>4
<1> QED BY <1>5, <1>6 DEF s, Rows, IdsDiffer

(* Every symbol that is not blank: one parent or single passage, and a leaf. *)
LEMMA SymbolsCovered ==
  ASSUME NEW t, Len(t) \in Nat, NEW p, Settings(p), NEW i \in 1 .. Len(t), t[i] \notin Space
  PROVE  LET s == BuildChunks(t, p)
         IN  /\ Cardinality({k \in DOMAIN s : s[k].kind # "leaf" /\ Within(i, s[k].range)}) = 1
             /\ \E x \in Rows(t, p) : IsLeaf(x) /\ Within(i, x.range)
<1> DEFINE s == BuildChunks(t, p)
           h == p.threshold
           R == {k \in DOMAIN s : s[k].kind # "leaf" /\ Within(i, s[k].range)}
<1>1. PICK block \in ToSet(StructuralBlocks(t, p.boundaries)) : Within(i, block.range)
  BY BlocksAre
<1>2. block \in Block /\ Solid(t, block.range)
  <2> DEFINE u == StructuralBlocks(t, p.boundaries)
  <2>1. u \in Seq(Block) /\ \A y \in ToSet(u) : BlockSound(t, p.boundaries, y)
    BY BlocksAre
  <2> HIDE DEF u
  <2>2. ToSet(u) \subseteq Block
    BY <2>1 DEF ToSet
  <2> QED BY <2>1, <2>2 DEF u, BlockSound
<1> DEFINE a == block.range[1]
           b == block.range[2]
<1>3. a \in Nat /\ b \in Nat /\ block.range = <<a, b>> /\ a < b /\ a <= i /\ i < b
  <2>1. block.range \in Nat \X Nat
    BY <1>2 DEF Block
  <2>2. a <= i /\ i < b
    BY <1>1 DEF Within
  <2> QED BY <1>2, <2>1, <2>2, SolidRange
<1> HIDE DEF a, b
<1>4. /\ \E x \in Rows(t, p) : x.kind # "leaf" /\ Within(i, x.range)
      /\ \E x \in Rows(t, p) : IsLeaf(x) /\ Within(i, x.range)
  <2>1. CASE TokenCount(t, block.range) <= p.leaf
    <3> DEFINE x == SinglePassage(p, block)
    <3>1. MadeOf(t, p, block, x)
      BY <2>1 DEF MadeOf
    <3>2. x.kind = "standalone" /\ x.children = <<>> /\ x.range = block.range
      BY <1>2, SingleIs
    <3> HIDE DEF x
    <3>3. x \in Rows(t, p)
      BY <1>1, <3>1, ChunksAre DEF Rows
    <3> QED BY <1>1, <3>2, <3>3 DEF IsLeaf
  <2>2. CASE ~(TokenCount(t, block.range) <= p.leaf)
    <3> DEFINE q == BoundedRanges(t, <<a, b>>, p.parent)
    <3>1. /\ Apart(q, a, b) /\ \A r \in ToSet(q) : Solid(t, r)
          /\ \A j \in a .. (b - 1) : t[j] \notin Space => \E r \in ToSet(q) : Within(j, r)
      <4>1. a <= b /\ p.parent \in Nat /\ p.parent >= 1
        BY <1>3 DEF Settings
      <4> HIDE DEF q
      <4> QED BY <1>3, <4>1, BoundedRangesAre DEF q
    <3> HIDE DEF q
    <3>2. PICK r \in ToSet(q) : Within(i, r)
      <4>1. i \in a .. (b - 1)
        BY <1>3
      <4> QED BY <3>1, <4>1
    <3>3. r \in Nat \X Nat
      <4>1. q \in Seq(Nat \X Nat)
        BY <3>1 DEF Apart
      <4> QED BY <4>1 DEF ToSet
    <3> DEFINE c == r[1]
               d == r[2]
               w == Leaves(t, p, r)
               y == ParentPassage(t, p, block, r)
    <3>4. c \in Nat /\ d \in Nat /\ r = <<c, d>> /\ c < d /\ c <= i /\ i < d
      BY <3>1, <3>2, <3>3, SolidRange DEF Within
    <3>5. Windowed(t, w, c, d, p.leaf)
      <4> HIDE DEF c, d
      <4> QED BY <1>2, <3>4, FamilyIs
    <3>6. w \in Seq(Nat \X Nat) /\ Covers(w, c, d)
      BY <3>5 DEF Windowed, Covers
    <3>7. y.kind = "parent" /\ y.range = r
      <4> HIDE DEF w
      <4> QED BY <1>2, <3>3, <3>6, ParentIs DEF w
    <3>8. \A x : Relative(t, p, block, r, x) => x \in Rows(t, p)
      <4> SUFFICES ASSUME NEW x, Relative(t, p, block, r, x)
                   PROVE  x \in Rows(t, p)
        OBVIOUS
      <4>1. MadeOf(t, p, block, x)
        BY <1>3, <2>2 DEF MadeOf, q
      <4> QED BY <1>1, <4>1, ChunksAre DEF Rows
    <3>9. y \in Rows(t, p)
      BY <3>8 DEF Relative
    <3> HIDE DEF y
    <3>10. PICK k \in 1 .. Len(w) : Within(i, w[k])
      <4>1. i \in Nat
        OBVIOUS
      <4> HIDE DEF c, d, w
      <4> QED BY <3>4, <3>6, <4>1, CoverAll
    <3> DEFINE x == LeafPassage(p, block, r, w[k])
    <3>11. x \in Rows(t, p)
      <4>1. w[k] \in ToSet(w)
        <5>1. DOMAIN w = 1 .. Len(w)
          BY <3>6
        <5> QED BY <5>1, Zenon DEF ToSet
      <4>2. Relative(t, p, block, r, x)
        BY <4>1 DEF Relative
      <4> HIDE DEF x
      <4> QED BY <3>8, <4>2
    <3>12. x.children = <<>> /\ x.range = w[k]
      <4>1. w[k] \in Nat \X Nat
        BY <3>6
      <4> HIDE DEF w
      <4>2. r \in Pair /\ w[k] \in Pair
        BY <3>3, <4>1 DEF Pair
      <4>3. \A l \in Pair : /\ LeafPassage(p, block, r, l).children = <<>>
                             /\ LeafPassage(p, block, r, l).range = l
        BY <1>2, <4>2, LeafIs
      <4> QED BY <4>2, <4>3
    <3> HIDE DEF x, w
    <3> QED BY <3>2, <3>7, <3>9, <3>10, <3>11, <3>12 DEF IsLeaf
  <2> QED BY <2>1, <2>2
<1>5. Sound(s, Far(p), h, 1, Len(t) + 1)
  BY ChunksAre
<1> HIDE DEF s
<1>6. s \in Seq(PassageSet(h)) /\ DOMAIN s = 1 .. Len(s) /\ Len(s) \in Nat
  <2>1. s \in Seq(PassageSet(h))
    BY <1>5 DEF Sound
  <2> QED BY <2>1
<1>7. PICK k \in DOMAIN s : s[k].kind # "leaf" /\ Within(i, s[k].range)
  BY <1>4 DEF Rows, ToSet, s
<1>8. \A j \in R : j = k
  <2> SUFFICES ASSUME NEW j \in R
               PROVE  j = k
    OBVIOUS
  <2>1. /\ s[j].range[1] \in Nat /\ s[j].range[2] \in Nat
        /\ s[k].range[1] \in Nat /\ s[k].range[2] \in Nat
    <3>1. s[j] \in PassageSet(h) /\ s[k] \in PassageSet(h)
      BY <1>6
    <3>2. s[j].range \in Nat \X Nat /\ s[k].range \in Nat \X Nat
      BY <3>1 DEF PassageSet
    <3> QED BY <3>2
  <2>2. /\ s[j].range[1] <= i /\ i < s[j].range[2]
        /\ s[k].range[1] <= i /\ i < s[k].range[2]
    BY <1>7 DEF Within
  <2>3. ~(s[j].range[2] <= s[k].range[1]) /\ ~(s[k].range[2] <= s[j].range[1])
    BY <2>1, <2>2
  <2>4. ~(j < k) /\ ~(k < j)
    BY <1>5, <1>6, <1>7, <2>3 DEF Sound
  <2> QED BY <1>6, <2>4
<1>9. R = {k}
  BY <1>7, <1>8
<1>10. Cardinality(R) = 1
  BY <1>9, FS_Singleton
<1> QED BY <1>4, <1>10 DEF s

-----------------------------------------------------------------------------
(* Merging.                                                                *)

(* What a finite set is mapped onto is finite, and no larger.              *)
LEMMA FiniteImage ==
  ASSUME NEW S, IsFiniteSet(S), NEW T, NEW f \in [S -> T], \A y \in T : \E x \in S : f[x] = y
  PROVE  IsFiniteSet(T) /\ Cardinality(T) <= Cardinality(S)
<1>1. f \in Surjection(S, T)
  BY DEF Surjection
<1> QED BY <1>1, FS_Surjection

(* The parents found in an index, the matches of one, and whether they are *)
(* enough.                                                                 *)
ParentsIn(I, found) == {y \in I : ~IsLeaf(y) /\ \E x \in found : x.of = y.range}

Share(resolved, y) == {x \in resolved : x.of = y.range}

Enough(resolved, y, h) ==
  Cardinality(Share(resolved, y)) * h[2] > Len(y.children) * h[1]

(* Matches of one threshold: what stays, and what comes of every parent.   *)
LEMMA CombinedIs ==
  ASSUME NEW found, NEW parents, NEW h, \A x \in found : x.threshold = h
  PROVE  \A z : z \in Combined(found, parents) <=>
           \/ z \in found /\ z \notin Resolved(found, parents)
           \/ \E y \in parents :
                /\ Share(Resolved(found, parents), y) # {}
                /\ z \in IF Enough(Resolved(found, parents), y, h) THEN {y}
                         ELSE Share(Resolved(found, parents), y)
<1> DEFINE R == Resolved(found, parents)
           G(t) == {x \in R : x.threshold = t}
           P == {y \in parents : Share(R, y) # {}}
           Part(y) == IF Enough(R, y, h) THEN {y} ELSE Share(R, y)
<1>1. R \subseteq found
  BY DEF Resolved, Hierarchical
<1>2. Combined(found, parents) =
        (found \ R) \cup UNION {AutoMerged(G(t), parents, t) : t \in {x.threshold : x \in R}}
  BY Zenon DEF Combined
<1> HIDE DEF R
<1>3. G(h) = R
  BY <1>1
<1>4. AutoMerged(R, parents, h) = UNION {Part(y) : y \in P}
  BY Zenon DEF AutoMerged, Share, Enough
<1> HIDE DEF P, Part
<1>5. UNION {AutoMerged(G(t), parents, t) : t \in {x.threshold : x \in R}} = UNION {Part(y) : y \in P}
  <2>1. CASE R = {}
    <3>1. {x.threshold : x \in R} = {}
      BY <2>1
    <3>2. P = {}
      BY <2>1 DEF P, Share
    <3> QED BY <3>1, <3>2
  <2>2. CASE R # {}
    <3>1. {x.threshold : x \in R} = {h}
      BY <1>1, <2>2
    <3> HIDE DEF G
    <3>2. UNION {AutoMerged(G(t), parents, t) : t \in {h}} = AutoMerged(G(h), parents, h)
      BY Zenon
    <3> QED BY <1>3, <1>4, <3>1, <3>2
  <2> QED BY <2>1, <2>2
<1>6. \A z : z \in Combined(found, parents) <=>
        \/ z \in found /\ z \notin R
        \/ \E y \in parents : Share(R, y) # {} /\ z \in Part(y)
  BY <1>2, <1>5 DEF P
<1> QED BY <1>6 DEF R, Part

(* What merging promises of its result.                                    *)
Merged(found, result) ==
  /\ \A x \in found :
       \/ x \in result
       \/ \E y \in result : y.kind = "parent" /\ y.range = x.of
  /\ \A x, y \in result : ~(x.kind = "leaf" /\ y.kind = "parent" /\ x.of = y.range)
  /\ Cardinality(result) <= TopK

(* Merging keeps its promise for leaves that share a threshold and parents *)
(* that differ by their ranges.  A parent takes the place of at least one  *)
(* leaf, and of leaves no other parent takes: choosing for each leaf what  *)
(* stands for it is onto the result, which has no more elements.           *)
LEMMA CombinedMerges ==
  ASSUME RetrievalAssumption,
         NEW found, IsFiniteSet(found), Cardinality(found) <= TopK,
         NEW h, \A x \in found : x.kind # "parent" /\ x.threshold = h,
         NEW parents,
         \A y \in parents : y.kind = "parent",
         \A y, z \in parents : y.range = z.range => y = z
  PROVE  Merged(found, Combined(found, parents))
<1> DEFINE R == Resolved(found, parents)
           S(y) == Share(R, y)
           E(y) == Enough(R, y, h)
           C == Combined(found, parents)
<1>1. \A z : z \in C <=> \/ z \in found /\ z \notin R
                         \/ \E y \in parents : S(y) # {} /\ z \in IF E(y) THEN {y} ELSE S(y)
  BY CombinedIs
<1>2. /\ \A x \in R : x \in found /\ \E y \in parents : x.of = y.range
      /\ \A x \in found : x.kind = "leaf" => x \in R \/ ~\E y \in parents : x.of = y.range
      /\ \A x, y : x \in S(y) <=> x \in R /\ x.of = y.range
  BY DEF Resolved, Hierarchical, Standalone, Share
<1>3. /\ \A x \in found : x.kind # "parent" /\ x \notin parents
      /\ \A y \in parents : y.kind = "parent"
      /\ \A y, z \in parents : y.range = z.range => y = z
  OBVIOUS
<1> HIDE DEF R, S, E, C
<1>4. ASSUME NEW x \in found
      PROVE  x \in C \/ \E y \in C : y.kind = "parent" /\ y.range = x.of
  <2>1. CASE x \notin R
    BY <1>1, <2>1
  <2>2. CASE x \in R
    <3>1. PICK y \in parents : x.of = y.range
      BY <1>2, <2>2
    <3>2. x \in S(y)
      BY <1>2, <2>2, <3>1
    <3>3. CASE E(y)
      <4>1. y \in C
        BY <1>1, <3>2, <3>3
      <4> QED BY <1>3, <3>1, <4>1
    <3>4. CASE ~E(y)
      BY <1>1, <3>2, <3>4
    <3> QED BY <3>3, <3>4
  <2> QED BY <2>1, <2>2
<1>5. ASSUME NEW x \in C, NEW y \in C, x.kind = "leaf", y.kind = "parent", x.of = y.range
      PROVE  FALSE
  <2>1. y \in parents /\ E(y)
    <3>1. y \notin found /\ \A z : y \notin S(z)
      BY <1>2, <1>3, <1>5
    <3>2. PICK z \in parents : S(z) # {} /\ y \in IF E(z) THEN {z} ELSE S(z)
      BY <1>1, <3>1
    <3> QED BY <3>1, <3>2
  <2>2. CASE x \in found /\ x \notin R
    BY <1>2, <1>5, <2>1, <2>2
  <2>3. CASE \E z \in parents : S(z) # {} /\ x \in IF E(z) THEN {z} ELSE S(z)
    <3>1. PICK z \in parents : S(z) # {} /\ x \in IF E(z) THEN {z} ELSE S(z)
      BY <2>3
    <3>2. x # z
      BY <1>3, <1>5
    <3>3. ~E(z) /\ x \in S(z)
      BY <3>1, <3>2
    <3>4. z = y
      BY <1>2, <1>3, <1>5, <2>1, <3>3
    <3> QED BY <2>1, <3>3, <3>4
  <2> QED BY <1>1, <2>2, <2>3
<1>6. IsFiniteSet(C) /\ Cardinality(C) <= Cardinality(found)
  <2> DEFINE Par(x) == CHOOSE y \in parents : x.of = y.range
             H(x) == IF x \in R /\ E(Par(x)) THEN Par(x) ELSE x
             f == [x \in found |-> H(x)]
  <2>1. \A x \in R : \A y \in parents : x.of = y.range => Par(x) = y
    <3> SUFFICES ASSUME NEW x \in R, NEW y \in parents, x.of = y.range
                 PROVE  Par(x) = y
      OBVIOUS
    <3>1. Par(x) \in parents /\ x.of = Par(x).range
      BY Zenon
    <3> QED BY <1>3, <3>1
  <2>2. \A x \in R : Par(x) \in parents /\ x.of = Par(x).range
    BY <1>2, Zenon
  <2> HIDE DEF Par
  <2>3. \A x \in found : H(x) \in C
    <3> SUFFICES ASSUME NEW x \in found
                 PROVE  H(x) \in C
      OBVIOUS
    <3>1. CASE x \in R
      <4>1. Par(x) \in parents /\ x \in S(Par(x))
        BY <1>2, <2>2, <3>1
      <4>2. CASE E(Par(x))
        BY <1>1, <3>1, <4>1, <4>2
      <4>3. CASE ~E(Par(x))
        BY <1>1, <3>1, <4>1, <4>3
      <4> QED BY <4>2, <4>3
    <3>2. CASE x \notin R
      BY <1>1, <3>2
    <3> QED BY <3>1, <3>2
  <2>4. \A z \in C : \E x \in found : H(x) = z
    <3> SUFFICES ASSUME NEW z \in C
                 PROVE  \E x \in found : H(x) = z
      OBVIOUS
    <3>1. CASE z \in found /\ z \notin R
      BY <3>1
    <3>2. CASE \E y \in parents : S(y) # {} /\ z \in IF E(y) THEN {y} ELSE S(y)
      <4>1. PICK y \in parents : S(y) # {} /\ z \in IF E(y) THEN {y} ELSE S(y)
        BY <3>2
      <4>2. CASE E(y)
        <5>1. PICK x : x \in S(y)
          BY <4>1
        <5>2. x \in R /\ x \in found /\ x.of = y.range
          BY <1>2, <5>1
        <5>3. Par(x) = y
          BY <2>1, <5>2
        <5>4. z = y
          BY <4>1, <4>2
        <5> QED BY <4>2, <5>2, <5>3, <5>4
      <4>3. CASE ~E(y)
        <5>1. z \in R /\ z \in found /\ z.of = y.range
          BY <1>2, <4>1, <4>3
        <5>2. Par(z) = y
          BY <2>1, <5>1
        <5> QED BY <4>3, <5>1, <5>2
      <4> QED BY <4>2, <4>3
    <3> QED BY <1>1, <3>1, <3>2
  <2> HIDE DEF H
  <2>5. f \in [found -> C] /\ \A z \in C : \E x \in found : f[x] = z
    BY <2>3, <2>4
  <2> HIDE DEF f
  <2> QED BY <2>5, FiniteImage
<1>7. Cardinality(C) <= TopK
  <2>1. TopK \in Nat
    BY DEF RetrievalAssumption
  <2>2. Cardinality(C) \in Nat /\ Cardinality(found) \in Nat
    BY <1>6, FS_CardinalityType
  <2> QED BY <1>6, <2>1, <2>2
<1> QED BY <1>4, <1>5, <1>7 DEF Merged, C

(* A version has finitely many passages.                                   *)
LEMMA RowsFinite ==
  ASSUME NEW t, Len(t) \in Nat, NEW p, Settings(p)
  PROVE  IsFiniteSet(Rows(t, p))
<1> DEFINE s == BuildChunks(t, p)
           n == Len(s)
           f == [k \in 1 .. n |-> s[k]]
<1>1. s \in Seq(PassageSet(p.threshold))
  BY ChunksAre DEF Sound
<1> HIDE DEF s
<1>2. n \in Nat /\ DOMAIN s = 1 .. n
  BY <1>1
<1>3. IsFiniteSet(1 .. n)
  BY <1>2, FS_Interval
<1>4. f \in [1 .. n -> ToSet(s)] /\ \A y \in ToSet(s) : \E k \in 1 .. n : f[k] = y
  BY <1>2 DEF ToSet
<1> HIDE DEF f, n
<1> QED BY <1>3, <1>4, FiniteImage DEF Rows, s

-----------------------------------------------------------------------------
(* The inductive invariant.                                                *)

(* What the variables may be.                                              *)
Passages == UNION {PassageSet(p.threshold) : p \in Profile}

RetrievalType ==
  /\ text \in Text
  /\ profile \in Profile
  /\ index \in SUBSET Passages
  /\ query \in [phase : {"idle", "searched", "done"}, articles : Scope,
                found : SUBSET Passages, result : SUBSET Passages]
  /\ raced \in BOOLEAN

(* The index is empty or holds the passages of the text under the profile. *)
IndexBuilt == index = {} \/ index = Rows(text, profile)

(* What was found are leaves of one building of the version, that of now   *)
(* or an earlier one.                                                      *)
LeavesOf(t, p) == {x \in Rows(t, p) : IsLeaf(x)}

FoundLeaves ==
  /\ \E p \in Profile : query.found \subseteq LeavesOf(text, p)
  /\ IsFiniteSet(query.found) /\ Cardinality(query.found) <= TopK

(* Nothing is read before the search, and no result before the parents.    *)
ReadInOrder ==
  /\ query.phase = "idle" => query = NoQuery
  /\ query.phase = "searched" => query.result = {}
  /\ query.phase = "done" => Merged(query.found, query.result)

(* Without a rebuild in between, what was read is in the index and scope.  *)
ReadInScope ==
  ~raced => \A x \in query.found \cup query.result :
              x \in index /\ InScope(x, query.articles)

RetrievalInv == RetrievalType /\ IndexBuilt /\ FoundLeaves /\ ReadInOrder /\ ReadInScope

(* A text has a length.                                                    *)
LEMMA TextLength ==
  ASSUME NEW t \in Text
  PROVE  Len(t) \in Nat
<1>1. t \in Seq(Symbol)
  BY RetrievalAssumption DEF RetrievalAssumption
<1> QED BY <1>1

(* The rows of a version: passages, one parent for each range, and leaves  *)
(* that are of no parent's kind and carry the profile's threshold.         *)
LEMMA RowsOfProfile ==
  ASSUME NEW t \in Text, NEW p \in Profile
  PROVE  /\ Rows(t, p) \subseteq Passages /\ IsFiniteSet(Rows(t, p))
         /\ \A x \in LeavesOf(t, p) : x.kind # "parent" /\ x.threshold = p.threshold
         /\ \A y \in Rows(t, p) : ~IsLeaf(y) => y.kind = "parent"
         /\ \A y, z \in Rows(t, p) : y.kind = "parent" /\ z.kind = "parent" /\ y.range = z.range
                                       => y = z
<1>1. Len(t) \in Nat /\ Settings(p)
  BY TextLength, ProfileSettings, RetrievalAssumption
<1>2. \A x \in Rows(t, p) : Row(t, p, x)
  BY <1>1, RowsAre
<1>3. \A x \in Rows(t, p) : x \in PassageSet(p.threshold) /\ (x.kind = "parent" <=> x.children # <<>>)
  BY <1>2 DEF Row
<1>4. \A x \in Rows(t, p) : x \in Passages
  BY <1>3 DEF Passages
<1>5. \A x \in PassageSet(p.threshold) : x.threshold = p.threshold
  BY DEF PassageSet
<1>6. \A x \in LeavesOf(t, p) : x.kind # "parent" /\ x.threshold = p.threshold
  BY <1>3, <1>5 DEF LeavesOf, IsLeaf
<1>7. \A y \in Rows(t, p) : ~IsLeaf(y) => y.kind = "parent"
  BY <1>3 DEF IsLeaf
<1>8. IsFiniteSet(Rows(t, p))
  BY <1>1, RowsFinite
<1>9. \A y, z \in Rows(t, p) : y.kind = "parent" /\ z.kind = "parent" /\ y.range = z.range => y = z
  BY <1>1, RowIdsDiffer
<1> QED BY <1>4, <1>6, <1>7, <1>8, <1>9

(* No parents to read: the result is what was found.                       *)
LEMMA FoundMerges ==
  ASSUME NEW found, Cardinality(found) <= TopK, \A x \in found : x.kind # "parent"
  PROVE  Merged(found, found)
BY DEF Merged

(* A leaf and the parent that replaces it are of one article.              *)
LEMMA ParentInArticle ==
  ASSUME NEW t \in Text, NEW p \in Profile,
         NEW x \in LeavesOf(t, p), NEW y \in Rows(t, p), ~IsLeaf(y), x.of = y.range
  PROVE  y.article = x.article
<1>1. Len(t) \in Nat /\ Settings(p)
  BY TextLength, ProfileSettings, RetrievalAssumption
<1>2. x \in Rows(t, p) /\ x.kind # "parent" /\ y.kind = "parent"
  BY RowsOfProfile DEF LeavesOf
<1>3. x.kind = "leaf"
  <2>1. Row(t, p, x) /\ Row(t, p, y)
    BY <1>1, <1>2, RowsAre
  <2>2. x.kind \in Kind /\ y.range \in Nat \X Nat
    BY <2>1 DEF Row, PassageSet
  <2>3. \A r \in Nat \X Nat : r # <<>>
    <3> SUFFICES ASSUME NEW r \in Nat \X Nat
                 PROVE  r # <<>>
      OBVIOUS
    <3>1. r = <<r[1], r[2]>>
      OBVIOUS
    <3>2. \A u, v : <<u, v>> # <<>>
      OBVIOUS
    <3> QED BY <3>1, <3>2, Zenon
  <2>4. x.kind # "standalone"
    BY <2>1, <2>2, <2>3 DEF Row
  <2> QED BY <1>2, <2>2, <2>4 DEF Kind
<1>4. PICK z \in Rows(t, p) : IsParentOf(z, x)
  BY <1>1, <1>2, <1>3, RowsAre DEF Row
<1>5. z = y
  BY <1>2, <1>4, RowsOfProfile DEF IsParentOf
<1> QED BY <1>4, <1>5 DEF IsParentOf

-----------------------------------------------------------------------------
(* The steps keep it.                                                      *)

(* An empty version that nobody has asked.                                 *)
LEMMA InitRetrieval == Init => RetrievalInv
<1> SUFFICES ASSUME Init
             PROVE  RetrievalInv
  OBVIOUS
<1>1. /\ text \in Text /\ profile \in Profile /\ index = {} /\ raced = FALSE
      /\ query = NoQuery
  BY DEF Init
<1>2. /\ query.phase = "idle" /\ query.articles = {} /\ query.found = {} /\ query.result = {}
      /\ NoQuery \in [phase : {"idle", "searched", "done"}, articles : Scope,
                      found : SUBSET Passages, result : SUBSET Passages]
  BY <1>1 DEF NoQuery, Scope
<1>3. RetrievalType
  BY <1>1, <1>2 DEF RetrievalType
<1>4. FoundLeaves
  <2>1. IsFiniteSet({}) /\ Cardinality({}) = 0
    BY FS_EmptySet
  <2>2. 0 <= TopK
    BY RetrievalAssumption DEF RetrievalAssumption
  <2> QED BY <1>1, <1>2, <2>1, <2>2 DEF FoundLeaves
<1>5. IndexBuilt /\ ReadInOrder /\ ReadInScope
  BY <1>1, <1>2 DEF IndexBuilt, ReadInOrder, ReadInScope
<1> QED BY <1>3, <1>4, <1>5 DEF RetrievalInv

(* A rebuild touches no query, and one that has begun is marked as raced;  *)
(* a rebuild that is refused changes nothing.                              *)
LEMMA RebuildKeeps ==
  ASSUME RetrievalInv, NEW p \in Profile, RebuildVersion(p)
  PROVE  RetrievalInv'
<1>1. CASE IdsDiffer(BuildChunks(text, p))
  <2>1. /\ profile' = p /\ index' = Rows(text, p) /\ raced' = (raced \/ query.phase # "idle")
        /\ text' = text /\ query' = query
    BY <1>1 DEF RebuildVersion, Rows
  <2>2. RetrievalType'
    <3>1. index' \in SUBSET Passages
      BY <2>1, RowsOfProfile DEF RetrievalInv, RetrievalType
    <3>2. raced' \in BOOLEAN
      BY <2>1 DEF RetrievalInv, RetrievalType
    <3> QED BY <2>1, <3>1, <3>2 DEF RetrievalInv, RetrievalType, Scope
  <2>3. IndexBuilt'
    BY <2>1 DEF IndexBuilt
  <2>4. FoundLeaves' /\ ReadInOrder'
    BY <2>1 DEF RetrievalInv, FoundLeaves, ReadInOrder
  <2>5. ReadInScope'
    <3> SUFFICES ASSUME ~raced'
                 PROVE  query.found = {} /\ query.result = {}
      BY <2>1 DEF ReadInScope
    <3>1. query = NoQuery
      BY <2>1 DEF RetrievalInv, ReadInOrder
    <3> QED BY <3>1 DEF NoQuery
  <2> QED BY <2>2, <2>3, <2>4, <2>5 DEF RetrievalInv
<1>2. CASE ~IdsDiffer(BuildChunks(text, p))
  <2>1. UNCHANGED vars
    BY <1>2 DEF RebuildVersion, vars
  <2> QED BY <2>1 DEF vars, RetrievalInv, RetrievalType, IndexBuilt, FoundLeaves, ReadInOrder,
                      ReadInScope, Scope
<1> QED BY <1>1, <1>2

(* Leaves without a parent are the answer at once.                         *)
LEMMA SearchKeeps ==
  ASSUME RetrievalInv, NEW articles \in Scope, Search(articles)
  PROVE  RetrievalInv'
<1>1. PICK found \in SUBSET Candidates(articles) :
        /\ Cardinality(found) <= TopK
        /\ query' =
             [phase |-> IF Hierarchical(found) = {} THEN "done" ELSE "searched",
              articles |-> articles, found |-> found,
              result |-> IF Hierarchical(found) = {} THEN found ELSE {}]
  BY DEF Search
<1>2. text' = text /\ profile' = profile /\ index' = index /\ raced' = raced
  BY DEF Search
<1>3. /\ query'.phase = IF Hierarchical(found) = {} THEN "done" ELSE "searched"
      /\ query'.articles = articles /\ query'.found = found
      /\ query'.result = IF Hierarchical(found) = {} THEN found ELSE {}
  BY <1>1
<1>4. text \in Text /\ profile \in Profile /\ index \in SUBSET Passages
  BY DEF RetrievalInv, RetrievalType
<1>5. \A x \in found : x \in index /\ IsLeaf(x) /\ InScope(x, articles)
  BY DEF Candidates
<1>6. RetrievalType'
  <2>1. found \in SUBSET Passages
    BY <1>4, <1>5
  <2>2. query' \in [phase : {"idle", "searched", "done"}, articles : Scope,
                    found : SUBSET Passages, result : SUBSET Passages]
    BY <1>1, <2>1
  <2> QED BY <1>2, <2>2 DEF RetrievalInv, RetrievalType, Scope
<1>7. found \subseteq LeavesOf(text, profile)
  BY <1>5 DEF RetrievalInv, IndexBuilt, LeavesOf
<1>8. FoundLeaves'
  <2>1. IsFiniteSet(found)
    <3>1. IsFiniteSet(Rows(text, profile)) /\ found \subseteq Rows(text, profile)
      BY <1>4, <1>7, RowsOfProfile DEF LeavesOf
    <3> QED BY <3>1, FS_Subset
  <2> QED BY <1>1, <1>2, <1>3, <1>4, <1>7, <2>1 DEF FoundLeaves
<1>9. IndexBuilt'
  BY <1>2 DEF RetrievalInv, IndexBuilt
<1>10. ReadInOrder'
  <2>1. Merged(found, found)
    <3>1. \A x \in found : x.kind # "parent"
      BY <1>4, <1>7, RowsOfProfile
    <3> QED BY <1>1, <3>1, FoundMerges
  <2> QED BY <1>3, <2>1 DEF ReadInOrder
<1>11. ReadInScope'
  BY <1>2, <1>3, <1>5 DEF ReadInScope
<1> QED BY <1>6, <1>8, <1>9, <1>10, <1>11 DEF RetrievalInv

(* Where an element of the merged result comes from.                       *)
LEMMA MergedFrom ==
  ASSUME NEW found, NEW parents, NEW z \in Combined(found, parents)
  PROVE  z \in found \/ (z \in parents /\ \E x \in found : x.of = z.range)
<1>1. Resolved(found, parents) \subseteq found
  BY DEF Resolved, Hierarchical
<1>2. \A group, t : \A y \in AutoMerged(group, parents, t) :
        y \in group \/ (y \in parents /\ \E x \in group : x.of = y.range)
  BY DEF AutoMerged
<1>3. CASE z \in found \ Resolved(found, parents)
  BY <1>3
<1>4. CASE \E t : z \in AutoMerged({x \in Resolved(found, parents) : x.threshold = t}, parents, t)
  BY <1>1, <1>2, <1>4
<1> QED BY <1>3, <1>4 DEF Combined

(* The parents that are read may be those of a later building, and other   *)
(* ones than the leaves name; those that are merged stand in their scope.  *)
LEMMA ReadKeeps ==
  ASSUME RetrievalInv, ReadParents
  PROVE  RetrievalInv'
<1> DEFINE found == query.found
           parents == Parents(query.found)
           result == Combined(query.found, Parents(query.found))
<1>1. text' = text /\ profile' = profile /\ index' = index /\ raced' = raced
  BY DEF ReadParents
<1>2. query \in [phase : {"idle", "searched", "done"}, articles : Scope,
                 found : SUBSET Passages, result : SUBSET Passages]
  BY DEF RetrievalInv, RetrievalType
<1>3. /\ query'.phase = "done" /\ query'.articles = query.articles /\ query'.found = found
      /\ query'.result = result
  BY <1>2 DEF ReadParents
<1>4. text \in Text /\ profile \in Profile /\ index \in SUBSET Passages
  BY DEF RetrievalInv, RetrievalType
<1>5. /\ parents \subseteq index
      /\ \A y \in parents : ~IsLeaf(y)
  BY DEF Parents
<1>6. /\ index \subseteq Rows(text, profile)
  BY DEF RetrievalInv, IndexBuilt
<1>7. RetrievalType'
  <2>1. result \in SUBSET Passages
    BY <1>2, <1>4, <1>5, MergedFrom
  <2> HIDE DEF result
  <2>2. query' \in [phase : {"idle", "searched", "done"}, articles : Scope,
                    found : SUBSET Passages, result : SUBSET Passages]
    BY <1>2, <2>1 DEF ReadParents, result
  <2> QED BY <1>1, <2>2 DEF RetrievalInv, RetrievalType, Scope
<1>8. IndexBuilt' /\ FoundLeaves'
  BY <1>1, <1>3 DEF RetrievalInv, IndexBuilt, FoundLeaves
<1>9. Merged(found, result)
  <2>1. PICK p \in Profile : found \subseteq LeavesOf(text, p)
    BY DEF RetrievalInv, FoundLeaves
  <2>2. IsFiniteSet(found) /\ Cardinality(found) <= TopK
    BY DEF RetrievalInv, FoundLeaves
  <2>3. \A x \in found : x.kind # "parent" /\ x.threshold = p.threshold
    BY <1>4, <2>1, RowsOfProfile
  <2>4. /\ \A y \in parents : y.kind = "parent"
        /\ \A y, z \in parents : y.range = z.range => y = z
    <3>1. \A y \in parents : y \in Rows(text, profile) /\ y.kind = "parent"
      BY <1>4, <1>5, <1>6, RowsOfProfile
    <3> HIDE DEF parents
    <3> QED BY <1>4, <3>1, RowsOfProfile
  <2> HIDE DEF found, parents
  <2> QED BY <2>2, <2>3, <2>4, RetrievalAssumption, CombinedMerges DEF found, parents
<1>10. ReadInOrder'
  BY <1>3, <1>9 DEF ReadInOrder
<1>11. ReadInScope'
  <2> SUFFICES ASSUME ~raced, NEW z \in result
               PROVE  z \in index /\ InScope(z, query.articles)
    BY <1>1, <1>3 DEF RetrievalInv, ReadInScope
  <2>1. \A x \in found : x \in index /\ InScope(x, query.articles)
    BY DEF RetrievalInv, ReadInScope
  <2>2. CASE z \in found
    BY <2>1, <2>2
  <2>3. CASE z \in parents /\ \E x \in found : x.of = z.range
    <3>1. PICK x \in found : x.of = z.range
      BY <2>3
    <3>2. PICK p \in Profile : found \subseteq LeavesOf(text, p)
      BY DEF RetrievalInv, FoundLeaves
    <3>3. IsLeaf(x) /\ x \in index /\ InScope(x, query.articles)
      BY <2>1, <3>1, <3>2 DEF LeavesOf
    <3>4. x \in LeavesOf(text, profile)
      BY <1>6, <3>3 DEF LeavesOf
    <3>5. z \in index /\ z \in Rows(text, profile) /\ ~IsLeaf(z)
      BY <1>5, <1>6, <2>3
    <3>6. z.article = x.article
      BY <1>4, <3>1, <3>4, <3>5, ParentInArticle
    <3> QED BY <3>3, <3>5, <3>6 DEF InScope
  <2> QED BY <2>2, <2>3, MergedFrom
<1> QED BY <1>7, <1>8, <1>10, <1>11 DEF RetrievalInv

(* In every reachable state the index holds one building of the document,  *)
(* what was found are leaves of one building, the result is a merging of   *)
(* it, and without a rebuild in between both lie in the index and the      *)
(* scope: rebuild_version, the search and the reading of the parents keep  *)
(* this, in any order.                                                     *)
THEOREM RetrievalInvariant == Spec => []RetrievalInv
<1>1. RetrievalInv /\ [Next]_vars => RetrievalInv'
  <2> SUFFICES ASSUME RetrievalInv, [Next]_vars
               PROVE  RetrievalInv'
    OBVIOUS
  <2>1. CASE \E p \in Profile : RebuildVersion(p)
    BY <2>1, RebuildKeeps
  <2>2. CASE \E articles \in Scope : Search(articles)
    BY <2>2, SearchKeeps
  <2>3. CASE ReadParents
    BY <2>3, ReadKeeps
  <2>4. CASE UNCHANGED vars
    BY <2>4 DEF vars, RetrievalInv, RetrievalType, IndexBuilt, FoundLeaves, ReadInOrder,
                ReadInScope, Scope
  <2> QED BY <2>1, <2>2, <2>3, <2>4 DEF Next
<1> QED BY InitRetrieval, <1>1, PTL DEF Spec

(* Combined with the parents of whatever building is there when they are   *)
(* read, every match stays in the result or gives way to its parent, never *)
(* both, and there are no more than were asked for.                        *)
THEOREM MatchesAreKept == Spec => []MatchesKept
<1>1. RetrievalInv => MatchesKept
  BY DEF RetrievalInv, ReadInOrder, MatchesKept, Merged
<1> QED BY RetrievalInvariant, <1>1, PTL

(* A row with the types of its fields.                                     *)
LEMMA RowPlace ==
  ASSUME NEW t \in Text, NEW p \in Profile, NEW x \in Rows(t, p)
  PROVE  /\ Row(t, p, x) /\ x.kind \in Kind
         /\ x.range[1] \in Nat /\ x.range[2] \in Nat
<1>1. Len(t) \in Nat /\ Settings(p)
  BY TextLength, ProfileSettings, RetrievalAssumption
<1>2. Row(t, p, x)
  BY <1>1, RowsAre
<1>3. x.range \in Nat \X Nat /\ x.kind \in Kind
  BY <1>2 DEF Row, PassageSet
<1> QED BY <1>2, <1>3

(* Without a rebuild in between, every symbol of the result is of an       *)
(* article of the question's scope: a parent is of its leaves' article,    *)
(* which the search has checked, and the article of a row is that of its   *)
(* symbols.                                                                *)
THEOREM ScopeIsKept == Spec => []ScopeKept
<1>1. RetrievalInv => ScopeKept
  <2> SUFFICES ASSUME RetrievalInv, query.articles # {}, ~raced,
                      NEW x \in query.result, NEW i \in DOMAIN text, Within(i, x.range)
               PROVE  ArticleOf(text, i, profile.boundaries) \in query.articles
    BY DEF ScopeKept
  <2>1. x \in index /\ x.article \in query.articles
    BY DEF RetrievalInv, ReadInScope, InScope
  <2>2. text \in Text /\ profile \in Profile /\ x \in Rows(text, profile)
    BY <2>1 DEF RetrievalInv, RetrievalType, IndexBuilt
  <2>3. Row(text, profile, x) /\ x.range[1] \in Nat /\ x.range[2] \in Nat
    BY <2>2, RowPlace
  <2>4. i \in Nat
    BY <2>2, TextLength, RetrievalAssumption DEF RetrievalAssumption
  <2>5. i \in x.range[1] .. (x.range[2] - 1)
    BY <2>3, <2>4 DEF Within
  <2> QED BY <2>1, <2>3, <2>5 DEF Row, InArticle
<1> QED BY RetrievalInvariant, <1>1, PTL

(* The passages of a version cover its document: build_chunks puts every   *)
(* symbol that is not blank in one parent or single passage and in a leaf, *)
(* keeps leaves in their parents and passages within their limits,         *)
(* whatever the text and for every profile that is valid; and windows that *)
(* step by at least the widest symbol never give one id twice.             *)
THEOREM ChunksAreWhole == Spec => []ChunksCover
<1>1. RetrievalInv => ChunksCover
  <2> DEFINE chunks == BuildChunks(text, profile)
             Roots(i) == {k \in DOMAIN chunks : chunks[k].kind # "leaf" /\ Within(i, chunks[k].range)}
  <2> SUFFICES ASSUME RetrievalInv
               PROVE  /\ profile.leaf >= profile.overlap + Weight("wide") => IdsDiffer(chunks)
                      /\ index # {} =>
                           /\ \A i \in DOMAIN text : text[i] \notin Space =>
                                /\ Cardinality(Roots(i)) = 1
                                /\ \E x \in index : IsLeaf(x) /\ Within(i, x.range)
                           /\ \A x \in index :
                                /\ x.kind = "leaf" =>
                                     \E y \in index : /\ y.range = x.of
                                                      /\ x.range \in ToSet(y.children)
                                                      /\ y.range[1] <= x.range[1]
                                                      /\ x.range[2] <= y.range[2]
                                /\ TokenCount(text, x.range)
                                     <= 1 + (IF x.kind = "parent" THEN profile.parent
                                             ELSE profile.leaf)
    BY DEF ChunksCover
  <2>1. /\ text \in Text /\ profile \in Profile
        /\ index # {} => index = Rows(text, profile)
    BY DEF RetrievalInv, RetrievalType, IndexBuilt
  <2>2. Len(text) \in Nat /\ DOMAIN text = 1 .. Len(text) /\ Settings(profile)
    BY <2>1, TextLength, ProfileSettings, RetrievalAssumption DEF RetrievalAssumption
  <2>3. profile.leaf >= profile.overlap + Weight("wide") => IdsDiffer(chunks)
    BY <2>2, RowIdsDiffer DEF Far
  <2>4. ASSUME index # {}, NEW i \in DOMAIN text, text[i] \notin Space
        PROVE  Cardinality(Roots(i)) = 1 /\ \E x \in index : IsLeaf(x) /\ Within(i, x.range)
    BY <2>1, <2>2, <2>4, SymbolsCovered
  <2>5. ASSUME NEW x \in index
        PROVE  /\ x.kind = "leaf" =>
                    \E y \in index : /\ y.range = x.of /\ x.range \in ToSet(y.children)
                                     /\ y.range[1] <= x.range[1] /\ x.range[2] <= y.range[2]
               /\ TokenCount(text, x.range)
                    <= 1 + (IF x.kind = "parent" THEN profile.parent ELSE profile.leaf)
    <3>1. index # {} /\ x \in Rows(text, profile)
      BY <2>1, <2>5
    <3>2. Row(text, profile, x)
      BY <2>1, <3>1, RowPlace
    <3> QED BY <2>1, <3>1, <3>2 DEF Row, IsParentOf
  <2> HIDE DEF chunks, Roots
  <2> QED BY <2>3, <2>4, <2>5
<1> QED BY RetrievalInvariant, <1>1, PTL

=============================================================================
