--------------------- MODULE DependencyTraversalProofs ---------------------
(***************************************************************************)
(* Proofs about DependencyTraversal, for every graph, every bound and any  *)
(* loads between the rounds.  The first half shows that what is returned   *)
(* is sound even when a load falls between two rounds; the second, that on *)
(* a graph that stays in place it is all that the sample adapter returns.  *)
(***************************************************************************)
EXTENDS DependencyTraversal, FiniteSetTheorems, WellFoundedInduction, TLAPS, SequenceTheorems

-----------------------------------------------------------------------------
(* Natural numbers and sequences.                                          *)

(* The natural numbers are well ordered: n stands for 0 .. (n - 1), and    *)
(* the finite sets are well ordered by inclusion.                          *)
LEMMA LeastNat ==
  ASSUME NEW T \in SUBSET Nat, T # {}
  PROVE  \E m \in T : \A n \in T : m <= n
<1> DEFINE D == {0 .. (n - 1) : n \in T}
<1>1. D # {} /\ D \subseteq FiniteSubsetsOf(Nat)
  <2>1. \A n \in T : 0 .. (n - 1) \subseteq Nat /\ IsFiniteSet(0 .. (n - 1))
    BY FS_Interval
  <2> QED
    BY <2>1 DEF FiniteSubsetsOf
<1>2. PICK x \in D : \A y \in D : <<y, x>> \notin StrictSubsetOrdering(Nat)
  BY <1>1, FS_StrictSubsetOrderingWellFounded, WFMin
<1>3. PICK m \in T : x = 0 .. (m - 1)
  OBVIOUS
<1>4. ASSUME NEW n \in T, n < m PROVE FALSE
  <2>1. 0 .. (n - 1) \in D
    OBVIOUS
  <2>2. /\ 0 .. (n - 1) \subseteq 0 .. (m - 1) /\ 0 .. (m - 1) \subseteq Nat
        /\ n \in 0 .. (m - 1) /\ n \notin 0 .. (n - 1)
    BY <1>4
  <2>3. <<0 .. (n - 1), x>> \in StrictSubsetOrdering(Nat)
    BY <1>3, <2>2 DEF StrictSubsetOrdering
  <2> QED
    BY <1>2, <2>1, <2>3
<1> QED
  BY <1>4

(* So a set that has 0, and with a number below h its successor, has every *)
(* number up to h.                                                         *)
LEMMA CountUp ==
  ASSUME NEW h \in Nat, NEW T, 0 \in T,
         \A n \in 0 .. h : n < h /\ n \in T => n + 1 \in T
  PROVE  0 .. h \subseteq T
<1> DEFINE M == (0 .. h) \ T
<1>1. SUFFICES ASSUME M # {} PROVE FALSE
  OBVIOUS
<1>2. PICK m \in M : \A n \in M : m <= n
  <2>1. M \in SUBSET Nat
    OBVIOUS
  <2> HIDE DEF M
  <2> QED BY <1>1, <2>1, LeastNat
<1>3. m \in 1 .. h /\ m - 1 \in 0 .. h /\ m - 1 < h /\ (m - 1) + 1 = m
  BY <1>2
<1>4. m - 1 \in T
  BY <1>2, <1>3
<1> QED BY <1>2, <1>3, <1>4

LEMMA AppendIs ==
  ASSUME NEW t \in Seq(Edge), NEW e \in Edge
  PROVE  /\ Append(t, e) \in Seq(Edge)
         /\ Len(Append(t, e)) = Len(t) + 1
         /\ DOMAIN Append(t, e) = 1 .. (Len(t) + 1)
         /\ DOMAIN t = 1 .. Len(t) /\ Len(t) \in Nat
         /\ \A i \in 1 .. Len(t) : Append(t, e)[i] = t[i] /\ t[i] \in Edge
         /\ Append(t, e)[Len(t) + 1] = e
         /\ Last(Append(t, e)) = e
  BY DEF Last

-----------------------------------------------------------------------------
(* The paths.                                                              *)

(* A trail that leaves the source and comes to no object twice.            *)
Walk(t) ==
  /\ t \in Seq(Edge)
  /\ \A i \in 1 .. Len(t) :
       /\ t[i].from = IF i = 1 THEN Source ELSE t[i - 1].to
       /\ t[i].to # Source
       /\ \A j \in 1 .. Len(t) : t[i].to = t[j].to => i = j

PathsRow == [phase : {"paths"}, hops : Nat, round : Nat, frontier : SUBSET Seq(Edge),
             known : SUBSET Edge, found : SUBSET Seq(Edge)]

(* The frontier has trails of as many edges as there were rounds.          *)
PathsOK ==
  search.phase = "paths" =>
    /\ search \in PathsRow
    /\ search.round <= search.hops
    /\ \A t \in search.frontier : Walk(t) /\ Len(t) = search.round
    /\ \A t \in search.found :
         Walk(t) /\ Len(t) \in 1 .. search.round /\ Last(t).to = Target

GraphOK == graph \in SUBSET Edge

LEMMA EmptyWalk == Walk(<<>>) /\ Len(<<>>) = 0
  BY DEF Walk

LEMMA AppendWalk ==
  ASSUME NEW t, Walk(t), NEW e \in Edge, e.from = At(t), e.to \notin Visited(t)
  PROVE  /\ Walk(Append(t, e))
         /\ Len(Append(t, e)) = Len(t) + 1
         /\ At(Append(t, e)) = e.to
<1> DEFINE u == Append(t, e)
           n == Len(t)
<1>1. t \in Seq(Edge)
  BY DEF Walk
<1>2. /\ u \in Seq(Edge) /\ Len(u) = n + 1 /\ n \in Nat
      /\ DOMAIN t = 1 .. n
      /\ \A i \in 1 .. n : u[i] = t[i] /\ t[i] \in Edge
      /\ u[n + 1] = e /\ Last(u) = e
  BY <1>1, AppendIs
<1>3. u # <<>>
  BY <1>2
<1>4. e.from = IF n = 0 THEN Source ELSE t[n].to
  BY <1>1, <1>2 DEF At, Last
<1>5. e.to # Source /\ \A i \in 1 .. n : t[i].to # e.to
  BY <1>2 DEF Visited
<1> HIDE DEF u
<1>6. ASSUME NEW i \in 1 .. (n + 1)
      PROVE  /\ u[i].from = IF i = 1 THEN Source ELSE u[i - 1].to
             /\ u[i].to # Source
             /\ \A j \in 1 .. (n + 1) : u[i].to = u[j].to => i = j
  <2>1. CASE i = n + 1
    BY <1>2, <1>4, <1>5, <2>1
  <2>2. CASE i \in 1 .. n
    <3>1. /\ u[i] = t[i] /\ t[i].to # Source /\ t[i].to # e.to
          /\ t[i].from = IF i = 1 THEN Source ELSE t[i - 1].to
          /\ \A j \in 1 .. n : t[i].to = t[j].to => i = j
      BY <1>2, <1>5, <2>2 DEF Walk
    <3>2. i # 1 => i - 1 \in 1 .. n
      BY <1>2, <2>2
    <3> QED BY <1>2, <3>1, <3>2
  <2> QED BY <1>2, <2>1, <2>2
<1>7. Walk(u)
  BY <1>2, <1>6 DEF Walk
<1>8. At(u) = e.to
  BY <1>2, <1>3 DEF At
<1> QED BY <1>2, <1>7, <1>8 DEF u

LEMMA StartPathsOK ==
  ASSUME NEW hops \in Nat, StartPaths(hops)
  PROVE  PathsOK'
<1>1. search' = [phase |-> "paths", hops |-> hops, round |-> 0,
                 frontier |-> {<<>>}, known |-> {}, found |-> {}]
  BY DEF StartPaths
<1>2. search' \in PathsRow
  BY <1>1 DEF PathsRow
<1> QED BY <1>1, <1>2, EmptyWalk DEF PathsOK

(* A round makes every trail it keeps one edge longer.                     *)
LEMMA ExpandPathsOK ==
  ASSUME GraphOK, PathsOK, ExpandPaths
  PROVE  PathsOK'
<1> USE DEF PathsOK
<1> DEFINE extended == Extended(PathRows)
           arrived == {t \in extended : At(t) = Target}
<1>1. search \in PathsRow /\ search.phase = "paths" /\ search.round < search.hops
  BY DEF ExpandPaths
<1>2. CASE search' = [phase |-> "refused"]
  BY <1>2
<1>3. CASE search' = [search EXCEPT !.round = @ + 1,
                                    !.known = @ \cup PathRows,
                                    !.found = @ \cup arrived,
                                    !.frontier = extended \ arrived]
  <2>1. ASSUME NEW u \in extended
        PROVE  /\ Walk(u) /\ Len(u) = search.round + 1
               /\ At(u) = Last(u).to /\ u \in Seq(Edge)
    <3>1. PICK t \in search.frontier : u \in Onward(t, PathRows)
      BY DEF Extended
    <3>2. PICK e \in PathRows :
            u = Append(t, e) /\ e.from = At(t) /\ e.to \notin Visited(t)
      BY <3>1 DEF Onward
    <3>3. e \in Edge
      BY DEF PathRows, GraphOK
    <3>4. Walk(t) /\ Len(t) = search.round
      BY <1>1
    <3>5. Walk(u) /\ Len(u) = search.round + 1
      BY <3>2, <3>3, <3>4, AppendWalk
    <3>6. u # <<>> /\ u \in Seq(Edge)
      BY <1>1, <3>5 DEF Walk, PathsRow
    <3> QED BY <3>5, <3>6 DEF At
  <2>2. PathRows \subseteq Edge
    BY DEF PathRows, GraphOK
  <2> HIDE DEF extended
  <2>3. search.round \in Nat
    BY <1>1 DEF PathsRow
  <2>4. /\ search'.phase = "paths" /\ search'.hops = search.hops
        /\ search'.round = search.round + 1
        /\ search'.known = search.known \cup PathRows
        /\ search'.found = search.found \cup arrived
        /\ search'.frontier = extended \ arrived
    BY <1>1, <1>3 DEF PathsRow
  <2>5. search' \in PathsRow
    <3>1. /\ search.found \cup arrived \in SUBSET Seq(Edge)
          /\ search.known \cup PathRows \in SUBSET Edge
          /\ extended \ arrived \in SUBSET Seq(Edge)
          /\ search.round + 1 \in Nat
      BY <1>1, <2>1, <2>2, <2>3 DEF PathsRow
    <3> HIDE DEF arrived
    <3> QED BY <1>1, <1>3, <3>1 DEF PathsRow
  <2>6. search'.round <= search'.hops
    BY <1>1, <2>4, <2>5 DEF PathsRow
  <2>7. \A t \in search'.frontier : Walk(t) /\ Len(t) = search'.round
    BY <2>1, <2>4
  <2>8. ASSUME NEW t \in search'.found
        PROVE  Walk(t) /\ Len(t) \in 1 .. search'.round /\ Last(t).to = Target
    <3>1. CASE t \in search.found
      <4>1. Walk(t) /\ Len(t) \in 1 .. search.round /\ Last(t).to = Target
        BY <1>1, <3>1
      <4> QED BY <2>3, <2>4, <4>1
    <3>2. CASE t \in arrived
      <4>1. Walk(t) /\ Len(t) = search.round + 1 /\ Last(t).to = Target
        BY <2>1, <3>2
      <4> QED BY <2>3, <2>4, <4>1
    <3> QED BY <2>4, <3>1, <3>2
  <2> QED BY <2>4, <2>5, <2>6, <2>7, <2>8
<1> QED BY <1>2, <1>3 DEF ExpandPaths

LEMMA EndPathsHold ==
  ASSUME PathsOK, EndPaths
  PROVE  TrailsHold'
<1>1. /\ search \in PathsRow /\ search.round <= search.hops
      /\ \A t \in search.found :
           Walk(t) /\ Len(t) \in 1 .. search.round /\ Last(t).to = Target
      /\ search' = [phase |-> "found", hops |-> search.hops, trails |-> search.found]
  BY DEF EndPaths, PathsOK
<1>2. ASSUME NEW t \in search'.trails
      PROVE  /\ Joined(t, Source, Target, "downstream") /\ Len(t) <= search'.hops
             /\ \A i, j \in DOMAIN t : t[i].to # Source /\ (t[i].to = t[j].to => i = j)
  <2>1. Walk(t) /\ Len(t) \in 1 .. search.round /\ Last(t).to = Target
    BY <1>1, <1>2
  <2>2. /\ t \in Seq(Edge) /\ DOMAIN t = 1 .. Len(t) /\ Len(t) \in Nat \ {0}
    BY <2>1 DEF Walk
  <2>3. t[1].from = Source
    BY <2>1, <2>2 DEF Walk
  <2>4. ASSUME NEW i \in 1 .. (Len(t) - 1)
        PROVE  t[i].to = t[i + 1].from
    <3>1. i + 1 \in 1 .. Len(t) /\ i + 1 # 1 /\ (i + 1) - 1 = i
      BY <2>2
    <3> QED BY <2>1, <3>1 DEF Walk
  <2>5. Joined(t, Source, Target, "downstream")
    BY <2>1, <2>3, <2>4 DEF Joined, Here, Peer
  <2>6. Len(t) <= search'.hops
    BY <1>1, <2>1 DEF PathsRow
  <2>7. \A i, j \in DOMAIN t : t[i].to # Source /\ (t[i].to = t[j].to => i = j)
    BY <2>1, <2>2 DEF Walk
  <2> QED BY <2>5, <2>6, <2>7
<1> QED BY <1>1, <1>2 DEF TrailsHold

-----------------------------------------------------------------------------
(* The impact.                                                             *)

ImpactRow(D) ==
  [phase : {"impact"}, changed : Object, direction : Direction, hops : Nat,
   round : Nat, anchors : SUBSET Object, frontier : SUBSET Object,
   expanded : SUBSET Object, known : SUBSET Edge,
   distance : [D -> Nat], parents : [D -> SUBSET Edge]]

(* The edges that are remembered of an object come from an anchor, or from *)
(* an object that is one step nearer.                                      *)
Layered(s) ==
  \A o \in DOMAIN s.distance :
    /\ s.distance[o] \in 1 .. s.hops
    /\ s.parents[o] # {}
    /\ \A e \in s.parents[o] :
         LET here == Here(e, s.direction)
         IN  /\ Peer(e, s.direction) = o
             /\ here \notin s.anchors =>
                  /\ here \in DOMAIN s.distance
                  /\ s.distance[o] = s.distance[here] + 1
             /\ here \in s.anchors => s.distance[o] = 1

(* The anchors are expanded in the first round, and then the objects of    *)
(* the last.                                                               *)
ImpactOK ==
  search.phase = "impact" =>
    /\ \E D \in SUBSET Object : search \in ImpactRow(D)
    /\ search.round <= search.hops
    /\ Layered(search)
    /\ \A o \in DOMAIN search.distance : search.distance[o] <= search.round
    /\ search.round = 0 => search.frontier = search.anchors
    /\ search.round > 0 =>
         /\ search.anchors \subseteq search.expanded
         /\ \A o \in search.frontier : /\ o \in DOMAIN search.distance
                                       /\ search.distance[o] = search.round

LEMMA StartImpactOK ==
  ASSUME GraphOK, NEW changed \in Object, NEW direction \in Direction,
         NEW hops \in Nat, StartImpact(changed, direction, hops)
  PROVE  ImpactOK'
<1>1. CASE search' = [phase |-> "refused"]
  BY <1>1 DEF ImpactOK
<1>2. CASE search' = [phase |-> "impact", changed |-> changed, direction |-> direction,
                     hops |-> hops, round |-> 0, anchors |-> Anchors(graph, changed),
                     frontier |-> Anchors(graph, changed), expanded |-> {}, known |-> {},
                     distance |-> [o \in {} |-> 0], parents |-> [o \in {} |-> {}]]
  <2>1. Anchors(graph, changed) \in SUBSET Object
    BY TraversalAssumption DEF Anchors
  <2>2. [o \in {} |-> 0] \in [{} -> Nat] /\ [o \in {} |-> {}] \in [{} -> SUBSET Edge]
    OBVIOUS
  <2>3. search' \in ImpactRow({})
    BY <1>2, <2>1, <2>2 DEF ImpactRow
  <2>4. DOMAIN search'.distance = {}
    BY <1>2
  <2>5. /\ search'.round = 0 /\ search'.hops = hops
        /\ search'.frontier = search'.anchors
    BY <1>2
  <2>6. Layered(search)'
    BY <2>4 DEF Layered
  <2> QED BY <2>3, <2>4, <2>5, <2>6 DEF ImpactOK
<1> QED BY <1>1, <1>2 DEF StartImpact

(* A round reaches objects from the frontier, all of them one step on.     *)
LEMMA ExpandImpactOK ==
  ASSUME GraphOK, ImpactOK, ExpandImpact
  PROVE  ImpactOK'
<1> USE DEF ImpactOK
<1> DEFINE rows == ImpactRows
           reached == Reached(rows)
           dist == search.distance
           par == search.parents
           n == search.round
           dir == search.direction
           objects == DOMAIN dist \cup reached
<1>1. CASE search' = [phase |-> "refused"]
  BY <1>1
<1>2. CASE search' = [search EXCEPT
                 !.round = @ + 1,
                 !.expanded = @ \cup ImpactKeys,
                 !.known = @ \cup ImpactRows,
                 !.frontier = reached,
                 !.distance = [o \in objects |-> IF o \in DOMAIN dist THEN @[o]
                                                 ELSE search.round + 1],
                 !.parents = [o \in objects |-> IF o \in DOMAIN dist THEN @[o]
                                                ELSE ParentsOf(ImpactRows, o)]]
  <2> DEFINE dist2 == [o \in objects |-> IF o \in DOMAIN dist THEN dist[o] ELSE n + 1]
             par2 == [o \in objects |-> IF o \in DOMAIN dist THEN par[o]
                                        ELSE ParentsOf(rows, o)]
  <2>1. PICK D \in SUBSET Object : search \in ImpactRow(D)
    BY DEF ExpandImpact
  <2>2. /\ DOMAIN dist = D /\ DOMAIN par = D /\ n \in Nat /\ search.hops \in Nat
        /\ n < search.hops /\ dir \in Direction /\ dist \in [D -> Nat]
        /\ par \in [D -> SUBSET Edge]
    BY <2>1 DEF ExpandImpact, ImpactRow
  <2>3. rows \in SUBSET Edge
    BY DEF ImpactRows, GraphOK
  <2>4. reached \in SUBSET Object /\ reached \cap D = {}
    BY <2>2, <2>3 DEF Reached, Peer, Edge
  <2>5. ASSUME NEW o \in reached
        PROVE  ParentsOf(rows, o) # {} /\ ParentsOf(rows, o) \in SUBSET Edge
    BY <2>3 DEF Reached, ParentsOf
  <2>6. ASSUME NEW o \in reached, NEW e \in ParentsOf(rows, o)
        PROVE  LET here == Here(e, dir)
               IN  /\ Peer(e, dir) = o
                   /\ here \notin search.anchors => here \in D /\ dist[here] = n
                   /\ here \in search.anchors => n = 0
    <3>1. e \in rows /\ Peer(e, dir) = o
      BY <2>6 DEF ParentsOf
    <3>2. Here(e, dir) \in search.frontier /\ Here(e, dir) \notin search.expanded
      BY <3>1 DEF ImpactRows, ImpactKeys
    <3>3. CASE n = 0
      BY <3>1, <3>2, <3>3 DEF ExpandImpact
    <3>4. CASE n > 0
      BY <2>2, <3>1, <3>2, <3>4 DEF ExpandImpact
    <3> QED BY <2>2, <3>3, <3>4
  <2>7. /\ search'.phase = "impact" /\ search'.round = n + 1
        /\ search'.hops = search.hops /\ search'.direction = dir
        /\ search'.anchors = search.anchors
        /\ search'.expanded = search.expanded \cup ImpactKeys
        /\ search'.frontier = reached
        /\ search'.distance = dist2 /\ search'.parents = par2
    BY <1>2, <2>1 DEF ImpactRow
  <2> HIDE DEF rows, reached
  <2>8. objects \in SUBSET Object /\ dist2 \in [objects -> Nat]
        /\ par2 \in [objects -> SUBSET Edge]
    BY <2>2, <2>4, <2>5
  <2>9. search' \in ImpactRow(objects)
    <3>1. ImpactKeys \in SUBSET Object
      BY <2>1 DEF ImpactKeys, ImpactRow
    <3> HIDE DEF dist2, par2, objects, dist, n
    <3>2. search' = [search EXCEPT !.round = n + 1,
                       !.expanded = search.expanded \cup ImpactKeys,
                       !.known = search.known \cup rows, !.frontier = reached,
                       !.distance = dist2, !.parents = par2]
      BY <1>2, <2>1 DEF ImpactRow, dist2, par2, dist, n, rows
    <3>3. /\ search.changed \in Object /\ search.direction \in Direction
          /\ search.hops \in Nat /\ n + 1 \in Nat
          /\ search.anchors \in SUBSET Object
          /\ search.expanded \cup ImpactKeys \in SUBSET Object
          /\ search.known \cup rows \in SUBSET Edge
      BY <2>1, <2>2, <2>3, <3>1 DEF ImpactRow
    <3>4. search' = [phase |-> "impact", changed |-> search.changed,
                     direction |-> search.direction, hops |-> search.hops,
                     round |-> n + 1, anchors |-> search.anchors,
                     frontier |-> reached, expanded |-> search.expanded \cup ImpactKeys,
                     known |-> search.known \cup rows, distance |-> dist2,
                     parents |-> par2]
      BY <2>1, <3>2 DEF ImpactRow
    <3> QED BY <2>4, <2>8, <3>3, <3>4 DEF ImpactRow
  <2>10. search'.round <= search'.hops
    BY <2>2, <2>7
  <2>11. ASSUME NEW o \in objects
         PROVE  /\ dist2[o] \in 1 .. (n + 1) /\ par2[o] # {}
                /\ o \in reached => dist2[o] = n + 1
                /\ \A e \in par2[o] :
                     LET here == Here(e, dir)
                     IN  /\ Peer(e, dir) = o
                         /\ here \notin search.anchors =>
                              here \in objects /\ dist2[o] = dist2[here] + 1
                         /\ here \in search.anchors => dist2[o] = 1
    <3>1. CASE o \in D
      <4>1. /\ dist[o] \in 1 .. search.hops /\ par[o] # {} /\ dist[o] <= n
            /\ \A e \in par[o] :
                 LET here == Here(e, dir)
                 IN  /\ Peer(e, dir) = o
                     /\ here \notin search.anchors =>
                          here \in D /\ dist[o] = dist[here] + 1
                     /\ here \in search.anchors => dist[o] = 1
        BY <2>2, <3>1 DEF ExpandImpact, Layered
      <4>2. dist2[o] = dist[o] /\ par2[o] = par[o] /\ o \notin reached
        BY <2>2, <2>4, <3>1
      <4>3. \A q \in D : q \in objects /\ dist2[q] = dist[q]
        BY <2>2
      <4> QED BY <2>2, <4>1, <4>2, <4>3
    <3>2. CASE o \in reached
      <4>1. dist2[o] = n + 1 /\ par2[o] = ParentsOf(rows, o)
        BY <2>2, <2>4, <3>2
      <4>2. \A q \in D : q \in objects /\ dist2[q] = dist[q]
        BY <2>2
      <4> QED BY <2>2, <2>5, <2>6, <3>2, <4>1, <4>2
    <3> QED BY <2>2, <3>1, <3>2
  <2>12. DOMAIN dist2 = objects
    OBVIOUS
  <2> HIDE DEF dist2, par2, objects
  <2>13. Layered(search)'
    BY <2>2, <2>7, <2>11, <2>12 DEF Layered
  <2>14. \A o \in DOMAIN search'.distance : search'.distance[o] <= search'.round
    BY <2>2, <2>7, <2>11, <2>12
  <2>15. \A o \in search'.frontier : /\ o \in DOMAIN search'.distance
                                     /\ search'.distance[o] = search'.round
    BY <2>7, <2>11, <2>12 DEF objects
  <2>16. search'.anchors \subseteq search'.expanded
    <3>1. CASE n = 0
      BY <2>7, <3>1 DEF ExpandImpact, ImpactKeys
    <3>2. CASE n > 0
      BY <2>7, <3>2 DEF ExpandImpact
    <3> QED BY <2>2, <3>1, <3>2
  <2>17. search'.round # 0
    BY <2>2, <2>7
  <2> QED BY <2>8, <2>9, <2>10, <2>13, <2>14, <2>15, <2>16, <2>17
<1> QED BY <1>1, <1>2 DEF ExpandImpact

-----------------------------------------------------------------------------
(* The routes.                                                             *)

(* What Routes says of the objects up to a distance, given what it says of *)
(* the nearer ones.                                                        *)
Behind(s, e, shorter) ==
  LET here == Here(e, s.direction) IN
  IF here \in s.anchors THEN {<<e>>} ELSE {Append(t, e) : t \in shorter[here]}

Level(s, n, nearer) ==
  IF n = 0 THEN [o \in {} |-> {}]
  ELSE [o \in {p \in DOMAIN s.distance : s.distance[p] <= n} |->
          IF s.distance[o] < n THEN nearer[o]
          ELSE UNION {Behind(s, e, nearer) : e \in s.parents[o]}]

(* The recursion of Routes has a solution, ...                             *)
LEMMA LevelsExist ==
  ASSUME NEW s, NEW h \in Nat
  PROVE  \E g : g = [n \in 0 .. h |-> Level(s, n, g[n - 1])]
<1> DEFINE T == {m \in 0 .. h : \E g : g = [n \in 0 .. m |-> Level(s, n, g[n - 1])]}
<1>1. 0 \in T
  <2> DEFINE g == [n \in 0 .. 0 |-> Level(s, n, <<>>)]
  <2>1. \A x, y : Level(s, 0, x) = Level(s, 0, y)
    BY DEF Level
  <2>2. g = [n \in 0 .. 0 |-> Level(s, n, g[n - 1])]
    BY <2>1
  <2> QED BY <2>2
<1>2. ASSUME NEW m \in 0 .. h, m < h, m \in T
      PROVE  m + 1 \in T
  <2>1. PICK g : g = [n \in 0 .. m |-> Level(s, n, g[n - 1])]
    BY <1>2
  <2> DEFINE f == [n \in 0 .. (m + 1) |-> IF n <= m THEN g[n] ELSE Level(s, m + 1, g[m])]
  <2>2. \A x, y : Level(s, 0, x) = Level(s, 0, y)
    BY DEF Level
  <2>3. ASSUME NEW n \in 0 .. (m + 1)
        PROVE  f[n] = Level(s, n, f[n - 1])
    <3>1. CASE n = 0
      <4>1. f[n] = Level(s, n, g[n - 1])
        BY <2>1, <3>1
      <4> QED BY <2>2, <3>1, <4>1
    <3>2. CASE n \in 1 .. m
      <4>1. f[n] = Level(s, n, g[n - 1]) /\ f[n - 1] = g[n - 1]
        BY <2>1, <3>2
      <4> QED BY <4>1
    <3>3. CASE n = m + 1
      <4>1. f[n] = Level(s, n, g[n - 1]) /\ f[n - 1] = g[n - 1]
        BY <3>3
      <4> QED BY <4>1
    <3> QED BY <3>1, <3>2, <3>3
  <2>4. f = [n \in 0 .. (m + 1) |-> Level(s, n, f[n - 1])]
    BY <2>3
  <2>5. m + 1 \in 0 .. h
    BY <1>2
  <2> QED BY <2>4, <2>5
<1> HIDE DEF T
<1>3. h \in T
  BY <1>1, <1>2, CountUp
<1> QED BY <1>3 DEF T

(* ... and Routes is one.                                                  *)
LEMMA RoutesAreLevels ==
  ASSUME NEW s, s.hops \in Nat
  PROVE  \E g : /\ g = [n \in 0 .. s.hops |-> Level(s, n, g[n - 1])]
                /\ Routes(s) = g[s.hops]
<1> DEFINE U == CHOOSE g : g = [n \in 0 .. s.hops |-> Level(s, n, g[n - 1])]
<1>1. U = [n \in 0 .. s.hops |-> Level(s, n, U[n - 1])]
  BY LevelsExist
<1>2. Routes(s) = U[s.hops]
  BY DEF Routes, Level, Behind
<1> QED BY <1>1, <1>2

(* A route that leads from an anchor to an object in as many steps as the  *)
(* distance says.                                                          *)
RouteTo(s, o, t) ==
  /\ t \in Seq(Edge)
  /\ Len(t) = s.distance[o]
  /\ \E a \in s.anchors : Joined(t, a, o, s.direction)

LEMMA AppendRoute ==
  ASSUME NEW s, NEW D \in SUBSET Object, s \in ImpactRow(D), Layered(s),
         NEW o \in D, NEW e \in s.parents[o], NEW t,
         Here(e, s.direction) \notin s.anchors,
         RouteTo(s, Here(e, s.direction), t)
  PROVE  RouteTo(s, o, Append(t, e))
<1> DEFINE here == Here(e, s.direction)
           u == Append(t, e)
           k == Len(t)
<1>1. DOMAIN s.distance = D /\ e \in Edge /\ s.direction \in Direction
  BY DEF ImpactRow
<1>2. /\ Peer(e, s.direction) = o /\ here \in D
      /\ s.distance[o] = s.distance[here] + 1
      /\ s.distance[here] \in 1 .. s.hops
  BY <1>1 DEF Layered
<1>3. PICK a \in s.anchors : Joined(t, a, here, s.direction)
  BY DEF RouteTo
<1>4. t \in Seq(Edge) /\ k = s.distance[here]
  BY DEF RouteTo
<1>5. /\ u \in Seq(Edge) /\ Len(u) = k + 1 /\ k \in Nat \ {0}
      /\ \A i \in 1 .. k : u[i] = t[i]
      /\ u[k + 1] = e /\ Last(u) = e
  BY <1>1, <1>2, <1>4, AppendIs DEF ImpactRow
<1>6. Here(u[1], s.direction) = a
  BY <1>3, <1>5 DEF Joined
<1>7. ASSUME NEW i \in 1 .. k
      PROVE  Peer(u[i], s.direction) = Here(u[i + 1], s.direction)
  <2>1. CASE i = k
    <3>1. Peer(t[k], s.direction) = here
      BY <1>3 DEF Joined, Last
    <3> QED BY <1>5, <2>1, <3>1
  <2>2. CASE i \in 1 .. (k - 1)
    <3>1. /\ Peer(t[i], s.direction) = Here(t[i + 1], s.direction)
          /\ i + 1 \in 1 .. k /\ u[i] = t[i]
      BY <1>3, <1>5, <2>2 DEF Joined
    <3>2. u[i + 1] = t[i + 1]
      BY <1>5, <3>1
    <3> QED BY <3>1, <3>2
  <2> QED BY <1>5, <2>1, <2>2
<1> HIDE DEF u, k
<1>8. Joined(u, a, o, s.direction)
  <2>1. Peer(Last(u), s.direction) = o
    BY <1>2, <1>5
  <2>2. 1 .. (Len(u) - 1) = 1 .. k
    BY <1>5
  <2> QED BY <1>6, <1>7, <2>1, <2>2 DEF Joined
<1> QED BY <1>2, <1>4, <1>5, <1>8 DEF RouteTo, u

LEMMA FirstRoute ==
  ASSUME NEW s, NEW D \in SUBSET Object, s \in ImpactRow(D), Layered(s),
         NEW o \in D, NEW e \in s.parents[o], Here(e, s.direction) \in s.anchors
  PROVE  RouteTo(s, o, <<e>>)
<1>1. DOMAIN s.distance = D /\ e \in Edge
  BY DEF ImpactRow
<1>2. Peer(e, s.direction) = o /\ s.distance[o] = 1
  BY <1>1 DEF Layered
<1>3. <<e>> \in Seq(Edge) /\ Len(<<e>>) = 1 /\ <<e>>[1] = e /\ Last(<<e>>) = e
  BY <1>1 DEF Last
<1>4. Joined(<<e>>, Here(e, s.direction), o, s.direction)
  BY <1>2, <1>3 DEF Joined
<1> QED BY <1>2, <1>3, <1>4 DEF RouteTo

(* Every object that has a distance has routes, all of that length.        *)
LEMMA RoutesLead ==
  ASSUME NEW s, NEW D \in SUBSET Object, s \in ImpactRow(D), Layered(s), NEW o \in D
  PROVE  Routes(s)[o] # {} /\ \A t \in Routes(s)[o] : RouteTo(s, o, t)
<1> DEFINE h == s.hops
<1>1. h \in Nat /\ DOMAIN s.distance = D /\ s.distance \in [D -> Nat]
  BY DEF ImpactRow
<1>2. PICK g : /\ g = [n \in 0 .. h |-> Level(s, n, g[n - 1])]
               /\ Routes(s) = g[h]
  BY <1>1, RoutesAreLevels
<1> DEFINE Within(n) == {p \in D : s.distance[p] <= n}
           Leads(n) == \A p \in Within(n) :
                         g[n][p] # {} /\ \A t \in g[n][p] : RouteTo(s, p, t)
           T == {n \in 0 .. h : Leads(n)}
<1>3. \A p \in D : s.distance[p] \in 1 .. h
  BY <1>1 DEF Layered
<1>4. 0 \in T
  <2>1. Within(0) = {}
    BY <1>1, <1>3
  <2> QED BY <1>1, <2>1
<1>5. ASSUME NEW n \in 0 .. h, n < h, n \in T
      PROVE  n + 1 \in T
  <2>1. g[n + 1] = Level(s, n + 1, g[n])
    <3>1. n + 1 \in 0 .. h /\ (n + 1) - 1 = n
      BY <1>1, <1>5
    <3> QED BY <1>2, <3>1
  <2>2. \A p \in Within(n) : g[n][p] # {} /\ \A t \in g[n][p] : RouteTo(s, p, t)
    BY <1>5
  <2>3. ASSUME NEW p \in Within(n + 1)
        PROVE  g[n + 1][p] # {} /\ \A t \in g[n + 1][p] : RouteTo(s, p, t)
    <3>1. p \in D /\ s.distance[p] \in 1 .. (n + 1)
      BY <1>1, <1>3, <2>3
    <3>2. g[n + 1][p] = IF s.distance[p] < n + 1 THEN g[n][p]
                        ELSE UNION {Behind(s, e, g[n]) : e \in s.parents[p]}
      BY <1>1, <2>1, <3>1 DEF Level
    <3>3. CASE s.distance[p] < n + 1
      BY <1>1, <2>2, <3>1, <3>2, <3>3
    <3>4. CASE s.distance[p] = n + 1
      <4>1. ASSUME NEW e \in s.parents[p]
            PROVE  /\ Behind(s, e, g[n]) # {}
                   /\ \A t \in Behind(s, e, g[n]) : RouteTo(s, p, t)
        <5>1. CASE Here(e, s.direction) \in s.anchors
          BY <3>1, <5>1, FirstRoute DEF Behind
        <5>2. CASE Here(e, s.direction) \notin s.anchors
          <6>1. /\ Here(e, s.direction) \in D
                /\ s.distance[p] = s.distance[Here(e, s.direction)] + 1
            BY <1>1, <3>1, <5>2 DEF Layered
          <6>2. Here(e, s.direction) \in Within(n)
            BY <1>1, <3>4, <6>1
          <6>3. /\ g[n][Here(e, s.direction)] # {}
                /\ \A t \in g[n][Here(e, s.direction)] :
                     RouteTo(s, Here(e, s.direction), t)
            BY <2>2, <6>2
          <6>4. Behind(s, e, g[n]) = {Append(t, e) : t \in g[n][Here(e, s.direction)]}
            BY <5>2 DEF Behind
          <6>5. \A t \in g[n][Here(e, s.direction)] : RouteTo(s, p, Append(t, e))
            BY <3>1, <5>2, <6>3, AppendRoute
          <6> QED BY <6>3, <6>4, <6>5
        <5> QED BY <5>1, <5>2
      <4>2. s.parents[p] # {}
        BY <1>1, <3>1 DEF Layered
      <4>3. ~(s.distance[p] < n + 1)
        BY <1>1, <3>4
      <4> QED BY <3>2, <4>1, <4>2, <4>3
    <3> QED BY <1>1, <3>1, <3>3, <3>4
  <2>4. n + 1 \in 0 .. h
    BY <1>1, <1>5
  <2> QED BY <2>3, <2>4
<1>6. h \in T
  <2> HIDE DEF T
  <2> QED BY <1>1, <1>4, <1>5, CountUp
<1>7. o \in Within(h)
  BY <1>1, <1>3
<1> QED BY <1>2, <1>6, <1>7

(* What is reported of a dependent are routes, and one at least.           *)
LEMMA EndImpactHolds ==
  ASSUME ImpactOK, EndImpact
  PROVE  TrailsHold'
<1> DEFINE routes == Routes(search)
           dependents == DOMAIN search.distance \ {search.changed}
           Least(S) == IF Cardinality(S) <= MaxRoutes THEN {S} ELSE kSubset(MaxRoutes, S)
<1>1. PICK D \in SUBSET Object : search \in ImpactRow(D) /\ Layered(search)
  BY DEF EndImpact, ImpactOK
<1>2. DOMAIN search.distance = D
  BY <1>1 DEF ImpactRow
<1>3. PICK shown :
        /\ \A o \in dependents : shown[o] \in Least(routes[o])
        /\ search' = [phase |-> "impacted", changed |-> search.changed,
                      direction |-> search.direction, hops |-> search.hops,
                      anchors |-> search.anchors,
                      distance |-> [o \in dependents |-> search.distance[o]],
                      routes |-> shown]
  BY DEF EndImpact
<1>4. ASSUME NEW S, S # {}, NEW R \in Least(S)
      PROVE  R # {} /\ R \subseteq S
  <2>1. CASE Cardinality(S) <= MaxRoutes
    BY <1>4, <2>1
  <2>2. CASE ~(Cardinality(S) <= MaxRoutes)
    <3>1. R \in SUBSET S /\ Cardinality(R) = MaxRoutes
      BY <1>4, <2>2 DEF kSubset
    <3> QED BY <3>1, FS_EmptySet, TraversalAssumption
  <2> QED BY <2>1, <2>2
<1> HIDE DEF dependents, routes, Least
<1>5. ASSUME NEW o \in dependents
      PROVE  /\ shown[o] # {}
             /\ \A t \in shown[o] : RouteTo(search, o, t)
  <2>1. routes[o] # {} /\ \A t \in routes[o] : RouteTo(search, o, t)
    BY <1>1, <1>2, <1>5, RoutesLead DEF routes, dependents
  <2>2. shown[o] \in Least(routes[o])
    BY <1>3, <1>5
  <2>3. shown[o] # {} /\ shown[o] \subseteq routes[o]
    BY <1>4, <2>1, <2>2
  <2> QED BY <2>1, <2>3
<1>6. /\ search'.phase = "impacted" /\ search'.direction = search.direction
      /\ search'.anchors = search.anchors /\ search'.routes = shown
      /\ DOMAIN search'.distance = dependents
      /\ \A o \in dependents : search'.distance[o] = search.distance[o]
  BY <1>3
<1> QED BY <1>5, <1>6 DEF TrailsHold, RouteTo

-----------------------------------------------------------------------------

SearchInv == GraphOK /\ PathsOK /\ ImpactOK /\ TrailsHold

LEMMA SearchStart == Init => SearchInv
  BY TraversalAssumption
     DEF Init, Idle, SearchInv, GraphOK, PathsOK, ImpactOK, TrailsHold

LEMMA SearchStep == SearchInv /\ [Next]_vars => SearchInv'
<1> SUFFICES ASSUME SearchInv, [Next]_vars
             PROVE  SearchInv'
  OBVIOUS
<1> USE DEF SearchInv
<1>1. ASSUME search' = search
      PROVE  PathsOK' /\ ImpactOK' /\ TrailsHold'
  BY <1>1 DEF PathsOK, ImpactOK, Layered, TrailsHold
<1>2. ASSUME NEW hops \in 1 .. MaxHops, StartPaths(hops)
      PROVE  SearchInv'
  <2>1. search'.phase = "paths" /\ graph' = graph
    BY <1>2 DEF StartPaths
  <2> QED BY <1>2, <2>1, StartPathsOK DEF GraphOK, ImpactOK, TrailsHold
<1>3. CASE ExpandPaths
  <2>1. search'.phase \in {"paths", "refused"} /\ graph' = graph
    <3>1. search \in PathsRow /\ search.phase = "paths"
      BY <1>3 DEF ExpandPaths, PathsOK
    <3>2. search' = [phase |-> "refused"] \/ search'.phase = search.phase
      BY <1>3, <3>1 DEF ExpandPaths, PathsRow
    <3> QED BY <1>3, <3>1, <3>2 DEF ExpandPaths
  <2> QED BY <1>3, <2>1, ExpandPathsOK DEF GraphOK, ImpactOK, TrailsHold
<1>4. CASE EndPaths
  <2>1. search'.phase = "found" /\ graph' = graph
    BY <1>4 DEF EndPaths
  <2> QED BY <1>4, <2>1, EndPathsHold DEF GraphOK, PathsOK, ImpactOK
<1>5. ASSUME NEW changed \in Object, NEW direction \in Direction,
             NEW hops \in 1 .. MaxHops, StartImpact(changed, direction, hops)
      PROVE  SearchInv'
  <2>1. search'.phase \in {"impact", "refused"} /\ graph' = graph
    BY <1>5 DEF StartImpact
  <2> QED BY <1>5, <2>1, StartImpactOK DEF GraphOK, PathsOK, TrailsHold
<1>6. CASE ExpandImpact
  <2>1. search'.phase \in {"impact", "refused"} /\ graph' = graph
    <3>1. PICK D \in SUBSET Object : search \in ImpactRow(D)
      BY <1>6 DEF ExpandImpact, ImpactOK
    <3>2. search' = [phase |-> "refused"] \/ search'.phase = search.phase
      BY <1>6, <3>1 DEF ExpandImpact, ImpactRow
    <3> QED BY <1>6, <3>2 DEF ExpandImpact
  <2> QED BY <1>6, <2>1, ExpandImpactOK DEF GraphOK, PathsOK, TrailsHold
<1>7. CASE EndImpact
  <2>1. search'.phase = "impacted" /\ graph' = graph
    BY <1>7 DEF EndImpact
  <2> QED BY <1>7, <2>1, EndImpactHolds DEF GraphOK, PathsOK, ImpactOK
<1>8. CASE ReadOverview
  <2>1. search'.phase \in {"overview", "refused"} /\ graph' = graph
    BY <1>8 DEF ReadOverview
  <2> QED BY <2>1 DEF GraphOK, PathsOK, ImpactOK, TrailsHold
<1>9. ASSUME NEW g \in Loaded, Load(g)
      PROVE  SearchInv'
  BY <1>1, <1>9, TraversalAssumption DEF Load, GraphOK
<1>10. CASE UNCHANGED vars
  BY <1>1, <1>10 DEF vars, GraphOK
<1> QED
  BY <1>2, <1>3, <1>4, <1>5, <1>6, <1>7, <1>8, <1>9, <1>10, TraversalAssumption
     DEF Next

LEMMA SearchCorrect == Spec => []SearchInv
<1> QED BY SearchStart, SearchStep, PTL DEF Spec

(* A path goes from the source to the target through no object twice and   *)
(* is no longer than allowed, and every dependent has routes that lead to  *)
(* it from an anchor in as many steps as its distance says: on any graph,  *)
(* under any bounds, and whatever is loaded between two rounds.            *)
THEOREM TrailsLead == Spec => []TrailsHold
<1>1. SearchInv => TrailsHold
  BY DEF SearchInv
<1> QED BY <1>1, SearchCorrect, PTL

-----------------------------------------------------------------------------
(* The trails of the sample adapter.                                       *)

(* A trail of a graph that leaves an object, comes to no object twice and  *)
(* goes on from none of the last ones.                                     *)
IsTrail(g, from, last, direction, t) ==
  /\ t \in Seq(g)
  /\ \A i \in 1 .. Len(t) :
       /\ Here(t[i], direction) = IF i = 1 THEN from ELSE Peer(t[i - 1], direction)
       /\ Peer(t[i], direction) # from
       /\ \A j \in 1 .. Len(t) : Peer(t[i], direction) = Peer(t[j], direction) => i = j
       /\ i < Len(t) => Peer(t[i], direction) \notin last

(* Where it leads, and where it came.                                      *)
EndOf(t, from, direction) == IF t = <<>> THEN from ELSE Peer(Last(t), direction)

SeenBy(t, from, direction) == {from} \cup {Peer(t[i], direction) : i \in DOMAIN t}

LEMMA EmptyTrail ==
  ASSUME NEW g, NEW from, NEW last, NEW direction
  PROVE  /\ IsTrail(g, from, last, direction, <<>>) /\ Len(<<>>) = 0
         /\ EndOf(<<>>, from, direction) = from
         /\ \A t \in Seq(g) : Len(t) = 0 => t = <<>>
  BY DEF IsTrail, EndOf

LEMMA TrailEnd ==
  ASSUME NEW g, NEW from, NEW direction, NEW t \in Seq(g)
  PROVE  /\ Len(t) \in Nat /\ DOMAIN t = 1 .. Len(t)
         /\ Len(t) = 0 => EndOf(t, from, direction) = from
         /\ Len(t) > 0 => EndOf(t, from, direction) = Peer(t[Len(t)], direction)
         /\ SeenBy(t, from, direction)
              = {from} \cup {Peer(t[i], direction) : i \in 1 .. Len(t)}
  BY DEF EndOf, SeenBy, Last

(* The beginnings of a trail are trails.                                   *)
LEMMA PrefixTrail ==
  ASSUME NEW g, NEW from, NEW last, NEW direction, NEW t,
         IsTrail(g, from, last, direction, t), NEW k \in 0 .. Len(t)
  PROVE  LET p == SubSeq(t, 1, k) IN
         /\ IsTrail(g, from, last, direction, p) /\ Len(p) = k
         /\ \A i \in 1 .. k : p[i] = t[i]
         /\ k > 0 => EndOf(p, from, direction) = Peer(t[k], direction)
         /\ k = 0 => EndOf(p, from, direction) = from
         /\ k < Len(t) => EndOf(p, from, direction) = Here(t[k + 1], direction)
<1> DEFINE p == SubSeq(t, 1, k)
<1>1. t \in Seq(g) /\ Len(t) \in Nat
  BY DEF IsTrail
<1>2. p \in Seq(g) /\ Len(p) = k /\ \A i \in 1 .. k : p[i] = t[i]
  BY <1>1, SubSeqProperties
<1> HIDE DEF p
<1>3. IsTrail(g, from, last, direction, p)
  <2>1. ASSUME NEW i \in 1 .. k
        PROVE  /\ Here(p[i], direction) = IF i = 1 THEN from ELSE Peer(p[i - 1], direction)
               /\ Peer(p[i], direction) # from
               /\ \A j \in 1 .. k : Peer(p[i], direction) = Peer(p[j], direction) => i = j
               /\ i < k => Peer(p[i], direction) \notin last
    <3>1. i \in 1 .. Len(t) /\ p[i] = t[i] /\ (i # 1 => i - 1 \in 1 .. k)
      BY <1>1, <1>2
    <3>2. /\ Here(t[i], direction) = IF i = 1 THEN from ELSE Peer(t[i - 1], direction)
          /\ Peer(t[i], direction) # from
          /\ \A j \in 1 .. Len(t) : Peer(t[i], direction) = Peer(t[j], direction) => i = j
          /\ i < Len(t) => Peer(t[i], direction) \notin last
      BY <3>1 DEF IsTrail
    <3>3. i < k => i < Len(t)
      BY <1>1
    <3>4. \A j \in 1 .. k : j \in 1 .. Len(t)
      BY <1>1
    <3> QED BY <1>2, <3>1, <3>2, <3>3, <3>4
  <2> QED BY <1>2, <2>1 DEF IsTrail
<1>4. /\ k > 0 => EndOf(p, from, direction) = Peer(t[k], direction)
      /\ k = 0 => EndOf(p, from, direction) = from
  BY <1>2, TrailEnd
<1>5. k < Len(t) => EndOf(p, from, direction) = Here(t[k + 1], direction)
  <2> HAVE k < Len(t)
  <2>1. k + 1 \in 1 .. Len(t) /\ (k + 1 = 1 <=> k = 0) /\ (k + 1) - 1 = k
    BY <1>1
  <2>2. Here(t[k + 1], direction) = IF k = 0 THEN from ELSE Peer(t[k], direction)
    BY <2>1 DEF IsTrail
  <2> QED BY <1>4, <2>2
<1> QED BY <1>2, <1>3, <1>4, <1>5 DEF p

(* A trail goes on with any edge to an object where it has not come.       *)
LEMMA AppendTrail ==
  ASSUME NEW g, NEW from, NEW last, NEW direction, NEW t,
         IsTrail(g, from, last, direction, t), NEW e \in g,
         Here(e, direction) = EndOf(t, from, direction),
         EndOf(t, from, direction) \notin last,
         Peer(e, direction) \notin SeenBy(t, from, direction)
  PROVE  /\ IsTrail(g, from, last, direction, Append(t, e))
         /\ Len(Append(t, e)) = Len(t) + 1
         /\ \A i \in 1 .. Len(t) : Append(t, e)[i] = t[i]
         /\ Append(t, e)[Len(t) + 1] = e
         /\ EndOf(Append(t, e), from, direction) = Peer(e, direction)
<1> DEFINE u == Append(t, e)
           n == Len(t)
<1>1. t \in Seq(g) /\ n \in Nat
  BY DEF IsTrail
<1>2. /\ u \in Seq(g) /\ Len(u) = n + 1
      /\ \A i \in 1 .. n : u[i] = t[i]
      /\ u[n + 1] = e
  BY <1>1, AppendProperties
<1> HIDE DEF u
<1>3. Here(e, direction) = IF n = 0 THEN from ELSE Peer(t[n], direction)
  BY <1>1, TrailEnd
<1>4. Peer(e, direction) # from /\ \A i \in 1 .. n : Peer(t[i], direction) # Peer(e, direction)
  BY <1>1, TrailEnd
<1>5. ASSUME NEW i \in 1 .. (n + 1)
      PROVE  /\ Here(u[i], direction) = IF i = 1 THEN from ELSE Peer(u[i - 1], direction)
             /\ Peer(u[i], direction) # from
             /\ \A j \in 1 .. (n + 1) : Peer(u[i], direction) = Peer(u[j], direction) => i = j
             /\ i < n + 1 => Peer(u[i], direction) \notin last
  <2>1. CASE i = n + 1
    BY <1>1, <1>2, <1>3, <1>4, <2>1
  <2>2. CASE i \in 1 .. n
    <3>1. /\ u[i] = t[i] /\ Peer(t[i], direction) # from
          /\ Peer(t[i], direction) # Peer(e, direction)
          /\ Here(t[i], direction) = IF i = 1 THEN from ELSE Peer(t[i - 1], direction)
          /\ \A j \in 1 .. n : Peer(t[i], direction) = Peer(t[j], direction) => i = j
          /\ i < n => Peer(t[i], direction) \notin last
      BY <1>2, <1>4, <2>2 DEF IsTrail
    <3>2. i # 1 => i - 1 \in 1 .. n
      BY <1>1, <2>2
    <3>3. i = n => Peer(t[i], direction) \notin last
      BY <1>1, <2>2, TrailEnd
    <3>4. \A j \in 1 .. (n + 1) : j \in 1 .. n \/ j = n + 1
      BY <1>1
    <3>5. i < n \/ i = n
      BY <1>1, <2>2
    <3> QED BY <1>2, <3>1, <3>2, <3>3, <3>4, <3>5
  <2> QED BY <1>1, <2>1, <2>2
<1>6. IsTrail(g, from, last, direction, u)
  BY <1>2, <1>5 DEF IsTrail
<1>7. EndOf(u, from, direction) = Peer(e, direction)
  BY <1>1, <1>2, TrailEnd
<1> QED BY <1>2, <1>6, <1>7 DEF u

(* A trail of one edge more is its beginning and that edge.                *)
LEMMA SplitTrail ==
  ASSUME NEW g, NEW from, NEW last, NEW direction, NEW t,
         IsTrail(g, from, last, direction, t), Len(t) > 0
  PROVE  LET n == Len(t)
             p == SubSeq(t, 1, n - 1) IN
         /\ n - 1 \in 0 .. n
         /\ IsTrail(g, from, last, direction, p) /\ Len(p) = n - 1
         /\ t = Append(p, t[n]) /\ t[n] \in g
         /\ Here(t[n], direction) = EndOf(p, from, direction)
         /\ Peer(t[n], direction) \notin SeenBy(p, from, direction)
         /\ \A i \in 1 .. (n - 1) : p[i] = t[i]
         /\ n > 1 => EndOf(p, from, direction) \notin last
<1> DEFINE n == Len(t)
           p == SubSeq(t, 1, n - 1)
<1>1. t \in Seq(g) /\ n \in Nat \ {0} /\ t[n] \in g
  BY DEF IsTrail
<1>2. n - 1 \in 0 .. n /\ (n - 1) + 1 = n /\ n - 1 < n
  BY <1>1
<1>3. /\ IsTrail(g, from, last, direction, p) /\ Len(p) = n - 1
      /\ \A i \in 1 .. (n - 1) : p[i] = t[i]
      /\ n - 1 > 0 => EndOf(p, from, direction) = Peer(t[n - 1], direction)
      /\ Here(t[n], direction) = EndOf(p, from, direction)
  BY <1>2, PrefixTrail
<1> HIDE DEF p
<1>4. p \in Seq(g)
  BY <1>3 DEF IsTrail
<1>5. t = Append(p, t[n])
  <2>1. /\ Append(p, t[n]) \in Seq(g) /\ Len(Append(p, t[n])) = n
        /\ \A i \in 1 .. (n - 1) : Append(p, t[n])[i] = p[i]
        /\ Append(p, t[n])[n] = t[n]
    <3>1. /\ Append(p, t[n]) \in Seq(g) /\ Len(Append(p, t[n])) = Len(p) + 1
          /\ \A i \in 1 .. Len(p) : Append(p, t[n])[i] = p[i]
          /\ Append(p, t[n])[Len(p) + 1] = t[n]
      BY <1>1, <1>4, AppendProperties
    <3> QED BY <1>2, <1>3, <3>1
  <2>2. \A i \in 1 .. n : Append(p, t[n])[i] = t[i]
    <3>1. \A i \in 1 .. n : i \in 1 .. (n - 1) \/ i = n
      BY <1>1
    <3> QED BY <1>3, <2>1, <3>1
  <2> QED BY <1>1, <2>1, <2>2, SeqEqual
<1>6. Peer(t[n], direction) \notin SeenBy(p, from, direction)
  <2>1. Peer(t[n], direction) # from
    BY <1>1 DEF IsTrail
  <2>2. ASSUME NEW i \in 1 .. (n - 1) PROVE Peer(p[i], direction) # Peer(t[n], direction)
    <3>1. i \in 1 .. n /\ n \in 1 .. n /\ i # n
      BY <1>1
    <3> QED BY <1>3, <3>1 DEF IsTrail
  <2> QED BY <1>3, <1>4, <2>1, <2>2, TrailEnd
<1>7. n > 1 => EndOf(p, from, direction) \notin last
  <2> HAVE n > 1
  <2>1. n - 1 \in 1 .. n /\ n - 1 < n /\ n - 1 > 0
    BY <1>1
  <2>2. Peer(t[n - 1], direction) \notin last
    BY <2>1 DEF IsTrail
  <2> QED BY <1>3, <2>1, <2>2
<1> QED BY <1>1, <1>2, <1>3, <1>5, <1>6, <1>7 DEF p

(* What Trails says of the trails up to a length, given what it says of    *)
(* the shorter ones.                                                       *)
Grown(g, from, last, direction, n, shorter) ==
  IF n = 0 THEN {<<>>}
  ELSE shorter \cup
         UNION {{Append(t, e) : e \in {e \in g :
                    /\ Here(e, direction) = EndOf(t, from, direction)
                    /\ Peer(e, direction) \notin SeenBy(t, from, direction)}} :
                t \in {t \in shorter : Len(t) = n - 1 /\ EndOf(t, from, direction) \notin last}}

Grows(g, from, last, direction, h, f) ==
  f = [n \in 0 .. h |-> Grown(g, from, last, direction, n, f[n - 1])]

(* The recursion of Trails has a solution, ...                             *)
LEMMA GrownExist ==
  ASSUME NEW g, NEW from, NEW last, NEW direction, NEW h \in Nat
  PROVE  \E f : Grows(g, from, last, direction, h, f)
<1> DEFINE G(n, shorter) == Grown(g, from, last, direction, n, shorter)
           T == {m \in 0 .. h : \E f : f = [n \in 0 .. m |-> G(n, f[n - 1])]}
<1>1. \A x, y : G(0, x) = G(0, y)
  BY DEF Grown
<1> HIDE DEF G
<1>2. 0 \in T
  <2> DEFINE f == [n \in 0 .. 0 |-> G(n, <<>>)]
  <2>1. f = [n \in 0 .. 0 |-> G(n, f[n - 1])]
    BY <1>1
  <2> QED BY <2>1
<1>3. ASSUME NEW m \in 0 .. h, m < h, m \in T
      PROVE  m + 1 \in T
  <2>1. PICK f : f = [n \in 0 .. m |-> G(n, f[n - 1])]
    BY <1>3
  <2> DEFINE k == [n \in 0 .. (m + 1) |-> IF n <= m THEN f[n] ELSE G(m + 1, f[m])]
  <2>2. ASSUME NEW n \in 0 .. (m + 1)
        PROVE  k[n] = G(n, k[n - 1])
    <3>1. CASE n = 0
      <4>1. k[n] = G(n, f[n - 1])
        BY <2>1, <3>1
      <4> QED BY <1>1, <3>1, <4>1
    <3>2. CASE n \in 1 .. m
      <4>1. k[n] = G(n, f[n - 1]) /\ k[n - 1] = f[n - 1]
        BY <2>1, <3>2
      <4> QED BY <4>1
    <3>3. CASE n = m + 1
      <4>1. k[n] = G(n, f[n - 1]) /\ k[n - 1] = f[n - 1]
        BY <3>3
      <4> QED BY <4>1
    <3> QED BY <3>1, <3>2, <3>3
  <2>3. k = [n \in 0 .. (m + 1) |-> G(n, k[n - 1])]
    BY <2>2
  <2>4. m + 1 \in 0 .. h
    BY <1>3
  <2> QED BY <2>3, <2>4
<1> HIDE DEF T
<1>4. h \in T
  BY <1>2, <1>3, CountUp
<1> QED BY <1>4 DEF T, G, Grows

(* ... and Trails is one, but for the trail without an edge.               *)
LEMMA TrailsAreGrown ==
  ASSUME NEW g, NEW from, NEW last, NEW direction, NEW h \in Nat
  PROVE  \E f : /\ Grows(g, from, last, direction, h, f)
                /\ Trails(g, from, last, direction, h) = f[h] \ {<<>>}
<1> DEFINE U == CHOOSE f : Grows(g, from, last, direction, h, f)
<1>1. Grows(g, from, last, direction, h, U)
  BY GrownExist
<1>2. Trails(g, from, last, direction, h) = U[h] \ {<<>>}
  BY DEF Trails, Grows, Grown, EndOf, SeenBy
<1> QED BY <1>1, <1>2

(* What the sample adapter enumerates are all trails up to the length.     *)
LEMMA TrailsAre ==
  ASSUME NEW g, NEW from, NEW last, from \notin last, NEW direction, NEW h \in Nat
  PROVE  \A t : t \in Trails(g, from, last, direction, h)
                  <=> IsTrail(g, from, last, direction, t) /\ Len(t) \in 1 .. h
<1>1. PICK f : /\ Grows(g, from, last, direction, h, f)
               /\ Trails(g, from, last, direction, h) = f[h] \ {<<>>}
  BY TrailsAreGrown
<1> DEFINE Trail(t) == IsTrail(g, from, last, direction, t)
           All(n) == \A t : t \in f[n] <=> Trail(t) /\ Len(t) <= n
           T == {n \in 0 .. h : All(n)}
<1>2. \A t : Trail(t) => t \in Seq(g) /\ Len(t) \in Nat
  BY DEF IsTrail
<1>3. 0 \in T
  <2>1. f[0] = {<<>>}
    BY <1>1 DEF Grows, Grown
  <2>2. Trail(<<>>) /\ Len(<<>>) = 0 /\ \A t \in Seq(g) : Len(t) = 0 => t = <<>>
    BY EmptyTrail
  <2> HIDE DEF Trail
  <2>3. All(0)
    BY <1>2, <2>1, <2>2
  <2> QED BY <2>3
<1>4. ASSUME NEW n \in 0 .. h, n < h, n \in T
      PROVE  n + 1 \in T
  <2>1. f[n + 1] = Grown(g, from, last, direction, n + 1, f[n])
    <3>1. n + 1 \in 0 .. h /\ (n + 1) - 1 = n
      BY <1>4
    <3> QED BY <1>1, <3>1 DEF Grows
  <2> DEFINE Onto(t) == {Append(t, e) : e \in {e \in g :
                             /\ Here(e, direction) = EndOf(t, from, direction)
                             /\ Peer(e, direction) \notin SeenBy(t, from, direction)}}
             Open == {t \in f[n] : Len(t) = n /\ EndOf(t, from, direction) \notin last}
  <2>2. f[n + 1] = f[n] \cup UNION {Onto(t) : t \in Open}
    <3>1. n + 1 # 0 /\ (n + 1) - 1 = n
      BY <1>4
    <3> QED BY <2>1, <3>1 DEF Grown
  <2>3. \A t : t \in f[n] <=> Trail(t) /\ Len(t) <= n
    BY <1>4
  <2>4. ASSUME NEW t \in f[n + 1]
        PROVE  Trail(t) /\ Len(t) <= n + 1
    <3>1. CASE t \in f[n]
      BY <1>2, <1>4, <2>3, <3>1
    <3>2. CASE t \in UNION {Onto(p) : p \in Open}
      <4>1. PICK p \in Open : t \in Onto(p)
        BY <3>2
      <4>2. PICK e \in g : /\ t = Append(p, e)
                           /\ Here(e, direction) = EndOf(p, from, direction)
                           /\ Peer(e, direction) \notin SeenBy(p, from, direction)
        BY <4>1
      <4>3. Trail(p) /\ Len(p) = n /\ EndOf(p, from, direction) \notin last
        BY <2>3, <4>1
      <4>4. Trail(t) /\ Len(t) = n + 1
        BY <4>2, <4>3, AppendTrail
      <4> QED BY <1>4, <4>4
    <3> QED BY <2>2, <3>1, <3>2
  <2>5. ASSUME NEW t, Trail(t), Len(t) <= n + 1
        PROVE  t \in f[n + 1]
    <3>1. CASE Len(t) <= n
      BY <2>2, <2>3, <2>5, <3>1
    <3>2. CASE Len(t) = n + 1
      <4> DEFINE p == SubSeq(t, 1, Len(t) - 1)
                 e == t[Len(t)]
      <4>1. Len(t) > 0 /\ Len(t) - 1 = n
        BY <1>4, <3>2
      <4>2. /\ Trail(p) /\ Len(p) = n
            /\ t = Append(p, e) /\ e \in g
            /\ Here(e, direction) = EndOf(p, from, direction)
            /\ Peer(e, direction) \notin SeenBy(p, from, direction)
            /\ Len(t) > 1 => EndOf(p, from, direction) \notin last
        BY <2>5, <4>1, SplitTrail
      <4> HIDE DEF p, e
      <4>3. EndOf(p, from, direction) \notin last
        <5>1. CASE n = 0
          <6>1. p \in Seq(g)
            BY <1>2, <4>2
          <6>2. EndOf(p, from, direction) = from
            <7>1. Len(p) = 0
              BY <4>2, <5>1
            <7>2. p = <<>>
              BY <6>1, <7>1, EmptyTrail
            <7> QED BY <7>2 DEF EndOf
          <6> QED BY <6>2
        <5>2. CASE n # 0
          <6>1. Len(t) > 1
            BY <1>4, <3>2, <5>2
          <6> QED BY <4>2, <6>1
        <5> QED BY <5>1, <5>2
      <4>4. p \in Open
        <5> HIDE DEF Trail
        <5>1. Len(p) <= n
          BY <1>4, <4>2
        <5> QED BY <2>3, <4>2, <4>3, <5>1
      <4>5. t \in Onto(p)
        BY <4>2
      <4> QED BY <2>2, <4>4, <4>5
    <3> QED BY <1>2, <1>4, <2>5, <3>1, <3>2
  <2> HIDE DEF Trail
  <2>6. All(n + 1)
    BY <2>4, <2>5
  <2>7. n + 1 \in 0 .. h
    BY <1>4
  <2> QED BY <2>6, <2>7
<1>5. h \in T
  <2> HIDE DEF T
  <2> QED BY <1>3, <1>4, CountUp
<1>6. \A t \in Seq(g) : t # <<>> <=> Len(t) # 0
  BY EmptyTrail, EmptySeq
<1> HIDE DEF Trail
<1>7. \A t : t \in f[h] <=> Trail(t) /\ Len(t) <= h
  BY <1>5
<1>8. ASSUME NEW t
      PROVE  t \in f[h] \ {<<>>} <=> Trail(t) /\ Len(t) \in 1 .. h
  BY <1>2, <1>6, <1>7
<1> QED BY <1>1, <1>8 DEF Trail

(* An object from which trails go on is near if one with fewer edges leads *)
(* to it.                                                                  *)
Near(g, from, last, direction, n, o) ==
  /\ o \notin last
  /\ \E u : /\ IsTrail(g, from, last, direction, u) /\ Len(u) < n
            /\ EndOf(u, from, direction) = o

(* The first m edges of a trail come to each object as early as any does.  *)
Earliest(g, from, last, direction, t, m) ==
  \A i \in 1 .. m : ~Near(g, from, last, direction, i, Peer(t[i], direction))

(* From where a trail leads, an edge leads on: by that trail and the edge, *)
(* or by the beginning of it that has been there before.                   *)
LEMMA StepOn ==
  ASSUME NEW g, NEW from, NEW last, NEW direction, NEW t,
         IsTrail(g, from, last, direction, t), NEW e \in g,
         Here(e, direction) = EndOf(t, from, direction),
         EndOf(t, from, direction) \notin last, Peer(e, direction) # from
  PROVE  \E u : /\ IsTrail(g, from, last, direction, u)
                /\ Len(u) \in 1 .. (Len(t) + 1)
                /\ EndOf(u, from, direction) = Peer(e, direction)
<1>1. t \in Seq(g) /\ Len(t) \in Nat
  BY DEF IsTrail
<1>2. CASE Peer(e, direction) \notin SeenBy(t, from, direction)
  <2>1. /\ IsTrail(g, from, last, direction, Append(t, e))
        /\ Len(Append(t, e)) = Len(t) + 1
        /\ EndOf(Append(t, e), from, direction) = Peer(e, direction)
    BY <1>2, AppendTrail
  <2>2. Len(Append(t, e)) \in 1 .. (Len(t) + 1)
    BY <1>1, <2>1
  <2> QED BY <2>1, <2>2
<1>3. CASE Peer(e, direction) \in SeenBy(t, from, direction)
  <2>1. PICK i \in 1 .. Len(t) : Peer(t[i], direction) = Peer(e, direction)
    BY <1>1, <1>3, TrailEnd
  <2>2. i \in 0 .. Len(t) /\ i > 0 /\ i \in 1 .. (Len(t) + 1)
    BY <1>1
  <2>3. /\ IsTrail(g, from, last, direction, SubSeq(t, 1, i))
        /\ Len(SubSeq(t, 1, i)) = i
        /\ EndOf(SubSeq(t, 1, i), from, direction) = Peer(t[i], direction)
    BY <2>2, PrefixTrail
  <2> QED BY <2>1, <2>2, <2>3
<1> QED BY <1>2, <1>3

(* Where a trail leads, one leads that comes to every object as early as   *)
(* any: a least trail that is no longer.                                   *)
LEMMA EarliestExists ==
  ASSUME NEW g, NEW from, NEW last, from \notin last, NEW direction, NEW v,
         IsTrail(g, from, last, direction, v), EndOf(v, from, direction) \notin last
  PROVE  \E t : /\ IsTrail(g, from, last, direction, t)
                /\ EndOf(t, from, direction) = EndOf(v, from, direction)
                /\ Len(t) <= Len(v)
                /\ Earliest(g, from, last, direction, t, Len(t))
<1> DEFINE Trail(u) == IsTrail(g, from, last, direction, u)
           End(u) == EndOf(u, from, direction)
           Early(u, m) == Earliest(g, from, last, direction, u, m)
           Good(u) == \E t : Trail(t) /\ End(t) = End(u) /\ Len(t) <= Len(u) /\ Early(t, Len(t))
           Bad == {n \in Nat : \E u : Trail(u) /\ End(u) \notin last /\ Len(u) = n /\ ~Good(u)}
<1>1. \A u : Trail(u) => u \in Seq(g) /\ Len(u) \in Nat
  BY DEF IsTrail
<1>2. SUFFICES ASSUME Bad # {} PROVE FALSE
  BY <1>1
<1>3. PICK n \in Bad : \A m \in Bad : n <= m
  <2>1. Bad \in SUBSET Nat
    OBVIOUS
  <2> HIDE DEF Bad
  <2> QED BY <1>2, <2>1, LeastNat
<1>4. PICK u : Trail(u) /\ End(u) \notin last /\ Len(u) = n /\ ~Good(u)
  OBVIOUS
<1>5. ASSUME NEW w, Trail(w), End(w) \notin last, Len(w) < n
      PROVE  Good(w)
  <2>1. Len(w) \in Nat /\ Len(w) \notin Bad
    BY <1>1, <1>3, <1>5
  <2> HIDE DEF Good, Trail, End
  <2> QED BY <1>5, <2>1
<1>6. n > 0
  <2> SUFFICES ASSUME n = 0 PROVE FALSE
    OBVIOUS
  <2>1. Early(u, Len(u))
    BY <1>4 DEF Earliest
  <2>2. Len(u) <= Len(u)
    BY <1>4
  <2> QED BY <1>4, <2>1, <2>2
<1> DEFINE p == SubSeq(u, 1, n - 1)
           e == u[n]
           o == Peer(e, direction)
<1>7. /\ Trail(p) /\ Len(p) = n - 1 /\ e \in g
      /\ Here(e, direction) = End(p)
      /\ n > 1 => End(p) \notin last
  BY <1>4, <1>6, SplitTrail
<1>8. o # from /\ End(u) = o
  <2>1. n \in 1 .. Len(u) /\ u \in Seq(g)
    BY <1>1, <1>4, <1>6
  <2>2. o # from
    BY <1>4, <2>1 DEF IsTrail
  <2>3. End(u) = o
    BY <1>4, <1>6, <2>1, TrailEnd
  <2> QED BY <2>2, <2>3
<1> HIDE DEF p, e
<1>9. End(p) \notin last
  <2>1. CASE n = 1
    <3>1. Len(p) = 0 /\ p \in Seq(g)
      BY <1>1, <1>7, <2>1
    <3>2. p = <<>>
      BY <3>1, EmptyTrail
    <3> QED BY <3>2 DEF EndOf
  <2>2. CASE n # 1
    BY <1>6, <1>7, <2>2
  <2> QED BY <2>1, <2>2
<1>10. PICK t : Trail(t) /\ End(t) = End(p) /\ Len(t) <= Len(p) /\ Early(t, Len(t))
  <2>1. Len(p) < n
    BY <1>7
  <2>2. Good(p)
    BY <1>5, <1>7, <1>9, <2>1
  <2> QED BY <2>2
<1>11. t \in Seq(g) /\ Len(t) \in Nat /\ Len(t) < n
  BY <1>1, <1>7, <1>10
<1>12. CASE o \notin SeenBy(t, from, direction)
  <2> DEFINE w == Append(t, e)
             k == Len(t)
  <2>1. /\ Trail(w) /\ Len(w) = k + 1 /\ w[k + 1] = e /\ End(w) = o
        /\ \A i \in 1 .. k : w[i] = t[i]
    BY <1>7, <1>9, <1>10, <1>12, AppendTrail
  <2> HIDE DEF w
  <2>2. CASE ~Near(g, from, last, direction, k + 1, o)
    <3>1. ASSUME NEW i \in 1 .. (k + 1)
          PROVE  ~Near(g, from, last, direction, i, Peer(w[i], direction))
      <4>1. CASE i = k + 1
        BY <2>1, <2>2, <4>1
      <4>2. CASE i \in 1 .. k
        BY <1>10, <2>1, <4>2 DEF Earliest
      <4> QED BY <1>11, <4>1, <4>2
    <3>2. Early(w, Len(w))
      BY <2>1, <3>1 DEF Earliest
    <3>3. Len(w) <= Len(u)
      BY <1>4, <1>11, <2>1
    <3> HIDE DEF Trail, End, Early
    <3> QED BY <1>4, <1>8, <2>1, <3>2, <3>3
  <2>3. CASE Near(g, from, last, direction, k + 1, o)
    <3>1. PICK x : Trail(x) /\ Len(x) < k + 1 /\ End(x) = o
      BY <2>3 DEF Near
    <3>2. o \notin last /\ Len(x) < n /\ Len(x) \in Nat
      BY <1>1, <1>4, <1>8, <1>11, <3>1
    <3>3. PICK y : Trail(y) /\ End(y) = End(x) /\ Len(y) <= Len(x) /\ Early(y, Len(y))
      BY <1>5, <3>1, <3>2
    <3>4. Len(y) <= Len(u)
      BY <1>1, <1>4, <3>2, <3>3
    <3> HIDE DEF Trail, End, Early
    <3> QED BY <1>4, <1>8, <3>1, <3>3, <3>4
  <2> QED BY <2>2, <2>3
<1>13. CASE o \in SeenBy(t, from, direction)
  <2>1. PICK i \in 1 .. Len(t) : Peer(t[i], direction) = o
    BY <1>8, <1>11, <1>13, TrailEnd
  <2> DEFINE w == SubSeq(t, 1, i)
  <2>2. i \in 0 .. Len(t) /\ i > 0 /\ i <= n
    BY <1>11
  <2>3. Trail(w) /\ Len(w) = i /\ End(w) = o /\ \A j \in 1 .. i : w[j] = t[j]
    BY <1>10, <2>1, <2>2, PrefixTrail
  <2> HIDE DEF w
  <2>4. Early(w, Len(w))
    <3>1. \A j \in 1 .. i : j \in 1 .. Len(t)
      BY <1>11
    <3> QED BY <1>10, <2>3, <3>1 DEF Earliest
  <2> HIDE DEF Trail, End, Early
  <2> QED BY <1>4, <1>8, <2>2, <2>3, <2>4
<1> QED BY <1>12, <1>13

(* The trails of find_paths: from the source, and on from anything but the *)
(* target.                                                                 *)
PathTrail(g, t) == IsTrail(g, Source, {Target}, "downstream", t)

NearSource(g, n, o) == Near(g, Source, {Target}, "downstream", n, o)

Straight(g, t, m) == \A i \in 1 .. m : ~NearSource(g, i, t[i].to)

(* The rounds on a graph that stays in place: the frontier has the trails  *)
(* of as many edges as there were rounds that come to all objects but the  *)
(* last as early as any trail, found has those that led to the target, and *)
(* the edges fetched are those that leave what is nearer.                   *)
RoundsOK ==
  search.phase = "paths" /\ ~torn =>
    /\ \A e : e \in search.known <=> e \in graph /\ NearSource(graph, search.round, e.from)
    /\ \A t : t \in search.frontier <=>
                /\ PathTrail(graph, t) /\ Len(t) = search.round /\ At(t) # Target
                /\ Straight(graph, t, Len(t) - 1)
    /\ \A t : t \in search.found <=>
                /\ PathTrail(graph, t) /\ Len(t) \in 1 .. search.round /\ At(t) = Target
                /\ Straight(graph, t, Len(t) - 1)

LEMMA PathsEnd ==
  ASSUME NEW t
  PROVE  /\ EndOf(t, Source, "downstream") = At(t)
         /\ SeenBy(t, Source, "downstream") = Visited(t)
         /\ \A e : Here(e, "downstream") = e.from /\ Peer(e, "downstream") = e.to
  BY DEF EndOf, SeenBy, At, Visited, Here, Peer

LEMMA PathTrailIs ==
  ASSUME NEW g, NEW t, PathTrail(g, t)
  PROVE  /\ t \in Seq(g) /\ Len(t) \in Nat /\ DOMAIN t = 1 .. Len(t)
         /\ \A i \in 1 .. Len(t) : t[i] \in g /\ t[i].to # Source
         /\ \A i \in 1 .. (Len(t) - 1) : t[i].to # Target
         /\ Len(t) = 0 => t = <<>> /\ At(t) = Source
         /\ Len(t) > 0 => t # <<>> /\ At(t) = t[Len(t)].to /\ Last(t) = t[Len(t)]
<1>1. /\ t \in Seq(g)
      /\ \A i \in 1 .. Len(t) : t[i].to # Source /\ (i < Len(t) => t[i].to # Target)
  BY DEF PathTrail, IsTrail, Peer
<1>2. Len(t) \in Nat /\ DOMAIN t = 1 .. Len(t) /\ \A i \in 1 .. Len(t) : t[i] \in g
  BY <1>1
<1>3. \A i \in 1 .. (Len(t) - 1) : i \in 1 .. Len(t) /\ i < Len(t)
  BY <1>2
<1>4. Len(t) = 0 => t = <<>> /\ At(t) = Source
  BY <1>1, EmptyTrail DEF At
<1>5. Len(t) > 0 => t # <<>>
  BY EmptyTrail
<1>6. Len(t) > 0 => At(t) = t[Len(t)].to /\ Last(t) = t[Len(t)]
  BY <1>5 DEF At, Last
<1> QED BY <1>1, <1>2, <1>3, <1>4, <1>5, <1>6

LEMMA StartRounds ==
  ASSUME NEW hops, StartPaths(hops)
  PROVE  RoundsOK'
<1>1. /\ graph' = graph
      /\ search' = [phase |-> "paths", hops |-> hops, round |-> 0,
                    frontier |-> {<<>>}, known |-> {}, found |-> {}]
  BY DEF StartPaths
<1>2. \A o : ~NearSource(graph, 0, o)
  <2>1. \A u : PathTrail(graph, u) => ~(Len(u) < 0)
    BY PathTrailIs
  <2> QED BY <2>1 DEF NearSource, Near, PathTrail
<1>3. ASSUME NEW t
      PROVE  t = <<>> <=> /\ PathTrail(graph, t) /\ Len(t) = 0 /\ At(t) # Target
                          /\ Straight(graph, t, Len(t) - 1)
  <2>1. ASSUME t = <<>>
        PROVE  /\ PathTrail(graph, t) /\ Len(t) = 0 /\ At(t) # Target
               /\ Straight(graph, t, Len(t) - 1)
    <3>1. PathTrail(graph, t) /\ Len(t) = 0
      BY <2>1, EmptyTrail DEF PathTrail
    <3>2. At(t) # Target
      BY <2>1, TraversalAssumption DEF At
    <3>3. 1 .. (Len(t) - 1) = {}
      BY <3>1
    <3> QED BY <3>1, <3>2, <3>3 DEF Straight
  <2>2. PathTrail(graph, t) /\ Len(t) = 0 => t = <<>>
    BY PathTrailIs
  <2> QED BY <2>1, <2>2
<1>4. \A t : ~(Len(t) \in 1 .. 0)
  OBVIOUS
<1> QED BY <1>1, <1>2, <1>3, <1>4 DEF RoundsOK

(* Where the trails of a length lead: what is not nearer is where a trail  *)
(* of the frontier leads.                                                  *)
LEMMA FrontierReaches ==
  ASSUME NEW g, NEW n \in Nat, NEW u, PathTrail(g, u), Len(u) = n, At(u) # Target,
         ~NearSource(g, n, At(u))
  PROVE  \E t : PathTrail(g, t) /\ Len(t) = n /\ At(t) = At(u) /\ Straight(g, t, n)
<1>1. PICK t : /\ PathTrail(g, t) /\ At(t) = At(u) /\ Len(t) <= n
               /\ Earliest(g, Source, {Target}, "downstream", t, Len(t))
  BY EarliestExists, PathsEnd, TraversalAssumption DEF PathTrail
<1>2. Len(t) = n
  <2>1. Len(t) \in Nat
    BY <1>1, PathTrailIs
  <2>2. ~(Len(t) < n)
    BY <1>1, PathsEnd DEF NearSource, Near, PathTrail
  <2> QED BY <1>1, <2>1, <2>2
<1>3. Straight(g, t, n)
  BY <1>1, <1>2 DEF Earliest, Straight, NearSource, Peer
<1> QED BY <1>1, <1>2, <1>3

LEMMA ExpandRounds ==
  ASSUME GraphOK, PathsOK, RoundsOK, ExpandPaths
  PROVE  RoundsOK'
<1> DEFINE extended == Extended(PathRows)
           arrived == {t \in extended : At(t) = Target}
           n == search.round
<1>1. SUFFICES ASSUME search'.phase = "paths", ~torn
               PROVE  RoundsOK'
  BY DEF ExpandPaths, RoundsOK
<1>2. /\ search.phase = "paths" /\ search \in PathsRow /\ n \in Nat /\ graph' = graph
      /\ search' = [search EXCEPT !.round = @ + 1,
                                  !.known = @ \cup PathRows,
                                  !.found = @ \cup arrived,
                                  !.frontier = extended \ arrived]
  BY <1>1 DEF ExpandPaths, PathsOK, PathsRow
<1>3. /\ search'.round = n + 1
      /\ search'.known = search.known \cup PathRows
      /\ search'.found = search.found \cup arrived
      /\ search'.frontier = extended \ arrived
  BY <1>2 DEF PathsRow
<1>4. /\ \A e : e \in search.known <=> e \in graph /\ NearSource(graph, n, e.from)
      /\ \A t : t \in search.frontier <=>
                  /\ PathTrail(graph, t) /\ Len(t) = n /\ At(t) # Target
                  /\ Straight(graph, t, Len(t) - 1)
      /\ \A t : t \in search.found <=>
                  /\ PathTrail(graph, t) /\ Len(t) \in 1 .. n /\ At(t) = Target
                  /\ Straight(graph, t, Len(t) - 1)
  BY <1>1, <1>2 DEF RoundsOK
<1>5. ASSUME NEW e
      PROVE  e \in search'.known <=> e \in graph /\ NearSource(graph, n + 1, e.from)
  <2>1. ASSUME e \in graph, NearSource(graph, n + 1, e.from)
        PROVE  e \in search.known \cup PathRows
    <3>1. PICK u : /\ PathTrail(graph, u) /\ Len(u) < n + 1 /\ At(u) = e.from
                   /\ e.from # Target
      BY <2>1, PathsEnd DEF NearSource, Near, PathTrail
    <3>2. Len(u) \in Nat
      BY <3>1, PathTrailIs
    <3>3. CASE NearSource(graph, n, e.from)
      BY <1>4, <2>1, <3>3
    <3>4. CASE ~NearSource(graph, n, e.from)
      <4>1. ~(Len(u) < n)
        BY <3>1, <3>4, PathsEnd DEF NearSource, Near, PathTrail
      <4>2. Len(u) = n
        BY <1>2, <3>1, <3>2, <4>1
      <4>3. PICK t : PathTrail(graph, t) /\ Len(t) = n /\ At(t) = e.from /\ Straight(graph, t, n)
        BY <1>2, <3>1, <3>4, <4>2, FrontierReaches
      <4>4. Straight(graph, t, Len(t) - 1)
        BY <1>2, <4>3 DEF Straight
      <4>5. t \in search.frontier
        BY <1>4, <3>1, <4>3, <4>4
      <4> QED BY <2>1, <4>3, <4>5 DEF PathRows
    <3> QED BY <3>3, <3>4
  <2>2. ASSUME e \in search.known
        PROVE  e \in graph /\ NearSource(graph, n + 1, e.from)
    <3>1. e \in graph /\ NearSource(graph, n, e.from)
      BY <1>4, <2>2
    <3>2. PICK u : /\ PathTrail(graph, u) /\ Len(u) < n /\ At(u) = e.from
                   /\ e.from # Target
      BY <3>1, PathsEnd DEF NearSource, Near, PathTrail
    <3>3. Len(u) < n + 1
      BY <1>2, <3>2, PathTrailIs
    <3> QED BY <3>1, <3>2, <3>3, PathsEnd DEF NearSource, Near, PathTrail
  <2>3. ASSUME e \in PathRows
        PROVE  e \in graph /\ NearSource(graph, n + 1, e.from)
    <3>1. PICK t \in search.frontier : e \in graph /\ At(t) = e.from
      BY <2>3 DEF PathRows
    <3>2. PathTrail(graph, t) /\ Len(t) = n /\ e.from # Target
      BY <1>4, <3>1
    <3>3. Len(t) < n + 1
      BY <1>2, <3>2
    <3> QED BY <3>1, <3>2, <3>3, PathsEnd DEF NearSource, Near, PathTrail
  <2> QED BY <1>3, <2>1, <2>2, <2>3
<1>6. ASSUME NEW u
      PROVE  u \in extended <=> /\ PathTrail(graph, u) /\ Len(u) = n + 1
                                /\ Straight(graph, u, n)
  <2>1. ASSUME u \in extended
        PROVE  PathTrail(graph, u) /\ Len(u) = n + 1 /\ Straight(graph, u, n)
    <3>1. PICK t \in search.frontier : u \in Onward(t, PathRows)
      BY <2>1 DEF Extended
    <3>2. PICK e \in PathRows \ search.known :
            u = Append(t, e) /\ e.from = At(t) /\ e.to \notin Visited(t)
      BY <3>1 DEF Onward
    <3>3. /\ PathTrail(graph, t) /\ Len(t) = n /\ At(t) # Target
          /\ Straight(graph, t, n - 1)
      BY <1>4, <3>1
    <3>4. e \in graph /\ ~NearSource(graph, n, At(t))
      BY <1>4, <3>2 DEF PathRows
    <3>5. /\ PathTrail(graph, u) /\ Len(u) = n + 1
          /\ \A i \in 1 .. n : u[i] = t[i]
      BY <3>2, <3>3, <3>4, AppendTrail, PathsEnd DEF PathTrail
    <3>6. ASSUME NEW i \in 1 .. n
          PROVE  ~NearSource(graph, i, u[i].to)
      <4>1. CASE i = n
        <5>1. At(t) = t[n].to
          BY <1>2, <3>3, <4>1, PathTrailIs
        <5> QED BY <3>4, <3>5, <4>1, <5>1
      <4>2. CASE i # n
        <5>1. i \in 1 .. (n - 1)
          BY <1>2, <4>2
        <5> QED BY <3>3, <3>5, <5>1 DEF Straight
      <4> QED BY <4>1, <4>2
    <3> QED BY <3>5, <3>6 DEF Straight
  <2>2. ASSUME PathTrail(graph, u), Len(u) = n + 1, Straight(graph, u, n)
        PROVE  u \in extended
    <3> DEFINE t == SubSeq(u, 1, n)
               e == u[n + 1]
    <3>1. Len(u) > 0 /\ Len(u) - 1 = n
      BY <1>2, <2>2
    <3>2. /\ PathTrail(graph, t) /\ Len(t) = n
          /\ u = Append(t, e) /\ e \in graph
          /\ e.from = At(t) /\ e.to \notin Visited(t)
          /\ \A i \in 1 .. n : t[i] = u[i]
          /\ n + 1 > 1 => At(t) # Target
      <4>1. /\ n + 1 = Len(u) /\ PathTrail(graph, t) /\ Len(t) = n
            /\ u = Append(t, e) /\ e \in graph
            /\ Here(e, "downstream") = EndOf(t, Source, "downstream")
            /\ Peer(e, "downstream") \notin SeenBy(t, Source, "downstream")
            /\ \A i \in 1 .. n : t[i] = u[i]
            /\ n + 1 > 1 => EndOf(t, Source, "downstream") \notin {Target}
        BY <2>2, <3>1, SplitTrail DEF PathTrail
      <4> HIDE DEF t, e
      <4> QED BY <4>1, PathsEnd
    <3> HIDE DEF t, e
    <3>3. At(t) # Target
      BY <1>2, <3>2, PathTrailIs, TraversalAssumption
    <3>4. Straight(graph, t, Len(t) - 1)
      <4>1. \A i \in 1 .. (n - 1) : i \in 1 .. n
        BY <1>2
      <4> QED BY <2>2, <3>2, <4>1 DEF Straight
    <3>5. t \in search.frontier
      BY <1>4, <3>2, <3>3, <3>4
    <3>6. ~NearSource(graph, n, e.from)
      <4>1. CASE n = 0
        <5>1. \A x : PathTrail(graph, x) => ~(Len(x) < 0)
          BY PathTrailIs
        <5> QED BY <4>1, <5>1 DEF NearSource, Near, PathTrail
      <4>2. CASE n # 0
        <5>1. n \in 1 .. n /\ At(t) = t[n].to
          BY <1>2, <3>2, <4>2, PathTrailIs
        <5> QED BY <2>2, <3>2, <5>1 DEF Straight
      <4> QED BY <4>1, <4>2
    <3>7. e \in PathRows \ search.known
      BY <1>4, <3>2, <3>5, <3>6 DEF PathRows
    <3>8. u \in Onward(t, PathRows)
      BY <3>2, <3>7 DEF Onward
    <3> QED BY <3>5, <3>8 DEF Extended
  <2> QED BY <2>1, <2>2
<1> HIDE DEF extended
<1>7. ASSUME NEW t
      PROVE  t \in search'.frontier <=>
               /\ PathTrail(graph, t) /\ Len(t) = n + 1 /\ At(t) # Target
               /\ Straight(graph, t, Len(t) - 1)
  BY <1>2, <1>3, <1>6
<1>8. ASSUME NEW t
      PROVE  t \in search'.found <=>
               /\ PathTrail(graph, t) /\ Len(t) \in 1 .. (n + 1) /\ At(t) = Target
               /\ Straight(graph, t, Len(t) - 1)
  <2>1. Len(t) \in 1 .. (n + 1) <=> Len(t) \in 1 .. n \/ Len(t) = n + 1
    BY <1>2
  <2>2. t \in arrived <=> /\ PathTrail(graph, t) /\ Len(t) = n + 1 /\ At(t) = Target
                          /\ Straight(graph, t, Len(t) - 1)
    BY <1>2, <1>6
  <2> HIDE DEF arrived
  <2> QED BY <1>3, <1>4, <2>1, <2>2
<1> QED BY <1>2, <1>3, <1>5, <1>7, <1>8 DEF RoundsOK

(* What it means for the first objects of a trail to be reached directly.  *)
LEMMA StraightIsDirect ==
  ASSUME NEW g, NEW h \in Nat, NEW t, PathTrail(g, t), Len(t) \in 1 .. h
  PROVE  Direct(Front(t), Trails(g, Source, {Target}, "downstream", h))
           <=> Straight(g, t, Len(t) - 1)
<1> DEFINE walked == Trails(g, Source, {Target}, "downstream", h)
           n == Len(t)
           f == Front(t)
<1>1. \A u : u \in walked <=> PathTrail(g, u) /\ Len(u) \in 1 .. h
  BY TrailsAre, TraversalAssumption DEF PathTrail
<1>2. /\ t \in Seq(g) /\ n \in Nat /\ n >= 1 /\ n <= h
      /\ \A i \in 1 .. n : t[i].to # Source
      /\ \A i \in 1 .. (n - 1) : t[i].to # Target
  BY PathTrailIs
<1>3. /\ DOMAIN f = 1 .. (n - 1)
      /\ \A i \in 1 .. (n - 1) : f[i] = t[i]
  <2>1. /\ n - 1 \in 0 .. n
        /\ PathTrail(g, SubSeq(t, 1, n - 1)) /\ Len(SubSeq(t, 1, n - 1)) = n - 1
        /\ \A i \in 1 .. (n - 1) : SubSeq(t, 1, n - 1)[i] = t[i]
    BY <1>2, SplitTrail DEF PathTrail
  <2> QED BY <2>1, PathTrailIs DEF Front
<1> HIDE DEF walked, f
<1>4. ASSUME Direct(f, walked), NEW i \in 1 .. (n - 1)
      PROVE  ~NearSource(g, i, t[i].to)
  <2> SUFFICES ASSUME NearSource(g, i, t[i].to) PROVE FALSE
    OBVIOUS
  <2>1. PICK u : PathTrail(g, u) /\ Len(u) < i /\ At(u) = t[i].to
    BY PathsEnd DEF NearSource, Near, PathTrail
  <2>2. Len(u) \in Nat /\ Len(u) # 0
    BY <1>2, <2>1, PathTrailIs
  <2>3. /\ Len(u) \in 1 .. h /\ Len(u) \in DOMAIN u
        /\ u[Len(u)].to = t[i].to
    BY <1>2, <2>1, <2>2, PathTrailIs
  <2>4. i <= Len(u)
    BY <1>1, <1>3, <1>4, <2>1, <2>3 DEF Direct
  <2> QED BY <1>2, <2>1, <2>2, <2>4
<1>5. ASSUME Straight(g, t, n - 1), NEW u \in walked, NEW i \in 1 .. (n - 1),
             NEW j \in DOMAIN u, u[j].to = t[i].to, ~(i <= j)
      PROVE  FALSE
  <2>1. PathTrail(g, u) /\ j \in 1 .. Len(u) /\ Len(u) \in Nat
    BY <1>1, <1>5, PathTrailIs
  <2>2. j \in 0 .. Len(u) /\ j > 0 /\ j < i
    BY <1>2, <1>5, <2>1
  <2>3. /\ PathTrail(g, SubSeq(u, 1, j)) /\ Len(SubSeq(u, 1, j)) = j
        /\ At(SubSeq(u, 1, j)) = u[j].to
    BY <2>1, <2>2, PrefixTrail, PathsEnd DEF PathTrail
  <2>4. NearSource(g, i, t[i].to)
    BY <1>2, <1>5, <2>2, <2>3, PathsEnd DEF NearSource, Near, PathTrail
  <2> QED BY <1>5, <2>4 DEF Straight
<1>6. Direct(f, walked) => Straight(g, t, n - 1)
  BY <1>4 DEF Straight
<1>7. Straight(g, t, n - 1) => Direct(f, walked)
  BY <1>3, <1>5 DEF Direct
<1> QED BY <1>6, <1>7 DEF walked, f

(* A trail to the target that is no longer than any other is straight: a   *)
(* nearer way to one of its objects would be one to all that follow.       *)
LEMMA ShortestIsStraight ==
  ASSUME NEW g, NEW t, PathTrail(g, t), At(t) = Target,
         \A u : PathTrail(g, u) /\ At(u) = Target => Len(t) <= Len(u)
  PROVE  Straight(g, t, Len(t) - 1)
<1> DEFINE n == Len(t)
<1>1. SUFFICES ASSUME NEW i \in 1 .. (n - 1), NearSource(g, i, t[i].to)
               PROVE  FALSE
  BY DEF Straight
<1>2. n \in Nat /\ n > 1 /\ i < n /\ At(t) = t[n].to
  BY PathTrailIs
<1> DEFINE Ahead(j) == \E u : PathTrail(g, u) /\ Len(u) < j /\ At(u) = t[j].to
           m == n - i
           T == {k \in 0 .. m : Ahead(i + k)}
<1>3. 0 \in T
  <2>1. Ahead(i)
    BY <1>1, PathsEnd DEF NearSource, Near, PathTrail
  <2>2. i + 0 = i /\ 0 \in 0 .. m
    BY <1>2
  <2> QED BY <2>1, <2>2
<1>4. ASSUME NEW k \in 0 .. m, k < m, k \in T
      PROVE  k + 1 \in T
  <2> DEFINE j == i + k
  <2>1. j \in 1 .. (n - 1) /\ j + 1 \in 1 .. n /\ (j + 1) - 1 = j /\ j + 1 # 1
        /\ i + (k + 1) = j + 1
    BY <1>2, <1>4
  <2>2. PICK u : PathTrail(g, u) /\ Len(u) < j /\ At(u) = t[j].to
    BY <1>4
  <2>3. /\ t[j].to # Target /\ t[j + 1] \in g /\ t[j + 1].to # Source
        /\ Len(u) \in Nat
    BY <2>1, <2>2, PathTrailIs
  <2>4. t[j + 1].from = t[j].to
    BY <2>1, PathsEnd DEF PathTrail, IsTrail
  <2>5. PICK w : PathTrail(g, w) /\ Len(w) \in 1 .. (Len(u) + 1) /\ At(w) = t[j + 1].to
    BY <2>2, <2>3, <2>4, StepOn, PathsEnd DEF PathTrail
  <2>6. Len(w) < j + 1
    BY <2>1, <2>2, <2>3, <2>5
  <2>7. Ahead(j + 1)
    BY <2>5, <2>6
  <2>8. k + 1 \in 0 .. m
    BY <1>2, <1>4
  <2> HIDE DEF Ahead
  <2> QED BY <2>1, <2>7, <2>8
<1>5. m \in T
  <2>1. m \in Nat
    BY <1>2
  <2> HIDE DEF T, m
  <2>2. 0 .. m \subseteq T
    <3>1. \A k \in 0 .. m : k < m /\ k \in T => k + 1 \in T
      BY <1>4
    <3> QED BY <1>3, <2>1, <3>1, CountUp
  <2> QED BY <2>1, <2>2
<1>6. PICK u : PathTrail(g, u) /\ Len(u) < n /\ At(u) = t[n].to
  <2>1. i + (n - i) = n
    BY <1>2
  <2>2. Ahead(i + (n - i))
    BY <1>5
  <2> QED BY <2>1, <2>2
<1>7. Len(u) \in Nat /\ n <= Len(u)
  BY <1>2, <1>6, PathTrailIs
<1> QED BY <1>2, <1>6, <1>7

LEMMA EndRounds ==
  ASSUME PathsOK, RoundsOK, EndPaths
  PROVE  PathsFound'
<1> DEFINE n == search.round
           h == search.hops
           all == AllPaths(graph, h)
           walked == Trails(graph, Source, {Target}, "downstream", h)
<1>1. SUFFICES ASSUME ~torn
               PROVE  /\ search.found = {t \in all : Direct(Front(t), walked)}
                      /\ Shortest(all) \subseteq search.found
  BY DEF EndPaths, PathsFound
<1>2. /\ n \in Nat /\ h \in Nat /\ n <= h
      /\ n = h \/ search.frontier = {}
      /\ \A t : t \in search.frontier <=>
                  /\ PathTrail(graph, t) /\ Len(t) = n /\ At(t) # Target
                  /\ Straight(graph, t, Len(t) - 1)
      /\ \A t : t \in search.found <=>
                  /\ PathTrail(graph, t) /\ Len(t) \in 1 .. n /\ At(t) = Target
                  /\ Straight(graph, t, Len(t) - 1)
  BY <1>1 DEF EndPaths, PathsOK, PathsRow, RoundsOK
<1>3. \A t : t \in walked <=> PathTrail(graph, t) /\ Len(t) \in 1 .. h
  BY <1>2, TrailsAre, TraversalAssumption DEF PathTrail
<1>4. \A t : t \in all <=> PathTrail(graph, t) /\ Len(t) \in 1 .. h /\ At(t) = Target
  <2>1. \A t : PathTrail(graph, t) /\ Len(t) \in 1 .. h => At(t) = Last(t).to
    BY <1>2, PathTrailIs
  <2> QED BY <1>3, <2>1 DEF AllPaths
<1> HIDE DEF all, walked
<1>5. ASSUME NEW t, PathTrail(graph, t), Len(t) \in 1 .. h,
             Straight(graph, t, Len(t) - 1)
      PROVE  Len(t) \in 1 .. n
  <2> SUFFICES ASSUME ~(Len(t) <= n) PROVE FALSE
    BY <1>2, <1>5
  <2> DEFINE p == SubSeq(t, 1, n)
  <2>1. n \in 0 .. Len(t) /\ n < Len(t) /\ search.frontier = {}
    BY <1>2, <1>5
  <2>2. /\ PathTrail(graph, p) /\ Len(p) = n
        /\ \A i \in 1 .. n : p[i] = t[i]
        /\ n > 0 => At(p) = t[n].to
        /\ n = 0 => At(p) = Source
    BY <1>5, <2>1, PrefixTrail, PathsEnd DEF PathTrail
  <2> HIDE DEF p
  <2>3. At(p) # Target
    <3>1. n > 0 => n \in 1 .. (Len(t) - 1)
      BY <1>2, <1>5, <2>1
    <3> QED BY <1>2, <1>5, <2>2, <3>1, PathTrailIs, TraversalAssumption
  <2>4. Straight(graph, p, Len(p) - 1)
    <3>1. \A i \in 1 .. (n - 1) : i \in 1 .. n /\ i \in 1 .. (Len(t) - 1)
      BY <1>2, <1>5, <2>1
    <3> QED BY <1>5, <2>2, <3>1 DEF Straight
  <2> QED BY <1>2, <2>1, <2>2, <2>3, <2>4
<1>6. ASSUME NEW t
      PROVE  t \in search.found <=> t \in all /\ Direct(Front(t), walked)
  <2>1. Len(t) \in 1 .. n => Len(t) \in 1 .. h
    BY <1>2
  <2>2. PathTrail(graph, t) /\ Len(t) \in 1 .. h =>
          (Direct(Front(t), walked) <=> Straight(graph, t, Len(t) - 1))
    BY <1>2, StraightIsDirect DEF walked
  <2> QED BY <1>2, <1>4, <1>5, <2>1, <2>2
<1>7. ASSUME NEW t \in Shortest(all)
      PROVE  t \in search.found
  <2>1. /\ t \in all /\ \A u \in all : Len(t) <= Len(u)
        /\ PathTrail(graph, t) /\ Len(t) \in 1 .. h /\ At(t) = Target
    BY <1>4, <1>7 DEF Shortest
  <2>2. ASSUME NEW u, PathTrail(graph, u), At(u) = Target
        PROVE  Len(t) <= Len(u)
    <3>1. Len(u) \in Nat /\ Len(u) # 0
      BY <2>2, PathTrailIs, TraversalAssumption
    <3>2. CASE Len(u) <= h
      BY <1>2, <1>4, <2>1, <2>2, <3>1, <3>2
    <3>3. CASE ~(Len(u) <= h)
      BY <1>2, <2>1, <3>1, <3>3
    <3> QED BY <3>2, <3>3
  <2>3. Straight(graph, t, Len(t) - 1)
    BY <2>1, <2>2, ShortestIsStraight
  <2> QED BY <1>2, <1>5, <2>1, <2>3
<1> QED BY <1>6, <1>7

-----------------------------------------------------------------------------
(* What a change reaches.                                                  *)

(* Trails from one of the anchors.                                         *)
AnchorTrail(g, anchors, direction, t, o) ==
  \E a \in anchors : IsTrail(g, a, {}, direction, t) /\ EndOf(t, a, direction) = o

(* An object within n edges of an anchor, and the objects at n edges.      *)
Reach(g, anchors, direction, n, o) ==
  \E t : AnchorTrail(g, anchors, direction, t, o) /\ Len(t) <= n

AtDepth(g, anchors, direction, n, o) ==
  Reach(g, anchors, direction, n, o) /\ (n > 0 => ~Reach(g, anchors, direction, n - 1, o))

LEMMA ReachNone ==
  ASSUME NEW g, NEW anchors, NEW direction, NEW o
  PROVE  Reach(g, anchors, direction, 0, o) <=> o \in anchors
<1>1. ASSUME Reach(g, anchors, direction, 0, o)
      PROVE  o \in anchors
  <2>1. PICK a, t : /\ a \in anchors /\ IsTrail(g, a, {}, direction, t)
                     /\ EndOf(t, a, direction) = o /\ Len(t) <= 0
    BY <1>1 DEF Reach, AnchorTrail
  <2>2. t \in Seq(g) /\ Len(t) = 0
    BY <2>1 DEF IsTrail
  <2>3. t = <<>>
    BY <2>2, EmptyTrail
  <2> QED BY <2>1, <2>3 DEF EndOf
<1>2. ASSUME o \in anchors
      PROVE  Reach(g, anchors, direction, 0, o)
  <2>1. IsTrail(g, o, {}, direction, <<>>) /\ EndOf(<<>>, o, direction) = o /\ Len(<<>>) <= 0
    BY EmptyTrail
  <2> QED BY <1>2, <2>1 DEF Reach, AnchorTrail
<1> QED BY <1>1, <1>2

LEMMA ReachMore ==
  ASSUME NEW g, NEW anchors, NEW direction, NEW m \in Nat, NEW n \in Nat, m <= n,
         NEW o, Reach(g, anchors, direction, m, o)
  PROVE  Reach(g, anchors, direction, n, o)
<1>1. PICK t : AnchorTrail(g, anchors, direction, t, o) /\ Len(t) <= m
  BY DEF Reach
<1>2. Len(t) \in Nat
  BY <1>1 DEF AnchorTrail, IsTrail
<1>3. Len(t) <= n
  BY <1>1, <1>2
<1> QED BY <1>1, <1>3 DEF Reach

(* One edge more reaches what was reached and where an edge leads from it. *)
LEMMA ReachNext ==
  ASSUME NEW g, NEW anchors, NEW direction, NEW n \in Nat, NEW o
  PROVE  Reach(g, anchors, direction, n + 1, o)
           <=> \/ Reach(g, anchors, direction, n, o)
               \/ \E e \in g : Reach(g, anchors, direction, n, Here(e, direction))
                               /\ Peer(e, direction) = o
<1>1. ASSUME Reach(g, anchors, direction, n, o)
      PROVE  Reach(g, anchors, direction, n + 1, o)
  <2>1. n + 1 \in Nat /\ n <= n + 1
    OBVIOUS
  <2> QED BY <1>1, <2>1, ReachMore
<1>2. ASSUME NEW e \in g, Reach(g, anchors, direction, n, Here(e, direction)),
             Peer(e, direction) = o
      PROVE  Reach(g, anchors, direction, n + 1, o)
  <2>1. PICK a, t : /\ a \in anchors /\ IsTrail(g, a, {}, direction, t)
                     /\ EndOf(t, a, direction) = Here(e, direction)
                     /\ Len(t) <= n
    BY <1>2 DEF Reach, AnchorTrail
  <2>2. CASE o = a
    <3>1. Reach(g, anchors, direction, 0, o)
      BY <2>1, <2>2, ReachNone
    <3>2. n + 1 \in Nat /\ 0 <= n + 1
      OBVIOUS
    <3> QED BY <3>1, <3>2, ReachMore
  <2>3. CASE o # a
    <3>1. PICK u : /\ IsTrail(g, a, {}, direction, u) /\ Len(u) \in 1 .. (Len(t) + 1)
                   /\ EndOf(u, a, direction) = o
      BY <1>2, <2>1, <2>3, StepOn
    <3>2. Len(t) \in Nat
      BY <2>1 DEF IsTrail
    <3>3. Len(u) <= n + 1
      BY <2>1, <3>1, <3>2
    <3> QED BY <2>1, <3>1, <3>3 DEF Reach, AnchorTrail
  <2> QED BY <2>2, <2>3
<1>3. ASSUME Reach(g, anchors, direction, n + 1, o), ~Reach(g, anchors, direction, n, o)
      PROVE  \E e \in g : Reach(g, anchors, direction, n, Here(e, direction))
                          /\ Peer(e, direction) = o
  <2>1. PICK a, t : /\ a \in anchors /\ IsTrail(g, a, {}, direction, t)
                     /\ EndOf(t, a, direction) = o /\ Len(t) <= n + 1
    BY <1>3 DEF Reach, AnchorTrail
  <2>2. t \in Seq(g) /\ Len(t) \in Nat /\ ~(Len(t) <= n)
    <3>1. t \in Seq(g) /\ Len(t) \in Nat
      BY <2>1 DEF IsTrail
    <3> QED BY <1>3, <2>1, <3>1 DEF Reach, AnchorTrail
  <2>3. Len(t) = n + 1 /\ Len(t) > 0
    BY <2>1, <2>2
  <2> DEFINE p == SubSeq(t, 1, Len(t) - 1)
             e == t[Len(t)]
  <2>4. /\ IsTrail(g, a, {}, direction, p) /\ Len(p) = Len(t) - 1
        /\ e \in g /\ Here(e, direction) = EndOf(p, a, direction)
    BY <2>1, <2>3, SplitTrail
  <2>5. Peer(e, direction) = o
    BY <2>1, <2>2, <2>3, TrailEnd
  <2> HIDE DEF p, e
  <2>6. Len(p) <= n
    BY <2>3, <2>4
  <2>7. Reach(g, anchors, direction, n, Here(e, direction))
    BY <2>1, <2>4, <2>6 DEF Reach, AnchorTrail
  <2> QED BY <2>4, <2>5, <2>7
<1> QED BY <1>1, <1>2, <1>3

(* A new object is led to from the objects of the depth before.            *)
LEMMA DepthNext ==
  ASSUME NEW g, NEW anchors, NEW direction, NEW n \in Nat, NEW o,
         ~Reach(g, anchors, direction, n, o)
  PROVE  /\ Reach(g, anchors, direction, n + 1, o)
              <=> \E e \in g : AtDepth(g, anchors, direction, n, Here(e, direction))
                               /\ Peer(e, direction) = o
         /\ \A e \in g : Peer(e, direction) = o =>
              (AtDepth(g, anchors, direction, n, Here(e, direction))
                 <=> Reach(g, anchors, direction, n, Here(e, direction)))
<1>1. ASSUME NEW e \in g, Peer(e, direction) = o, n > 0
      PROVE  ~Reach(g, anchors, direction, n - 1, Here(e, direction))
  <2>1. n - 1 \in Nat /\ (n - 1) + 1 = n
    BY <1>1
  <2> QED BY <1>1, <2>1, ReachNext
<1>2. \A e \in g : Peer(e, direction) = o =>
        (AtDepth(g, anchors, direction, n, Here(e, direction))
           <=> Reach(g, anchors, direction, n, Here(e, direction)))
  BY <1>1 DEF AtDepth
<1> QED BY <1>2, ReachNext

(* Once nothing is at a depth, nothing is farther away.                    *)
LEMMA ReachSaturates ==
  ASSUME NEW g, NEW anchors, NEW direction, NEW n \in Nat \ {0}, NEW h \in Nat, n <= h,
         \A o : ~AtDepth(g, anchors, direction, n, o)
  PROVE  \A o : Reach(g, anchors, direction, h, o) => Reach(g, anchors, direction, n, o)
<1> DEFINE R(k, o) == Reach(g, anchors, direction, k, o)
           m == h - n
           T == {k \in 0 .. m : \A o : R(n + k, o) => R(n - 1, o)}
<1>1. m \in Nat /\ n - 1 \in Nat /\ (n - 1) + 1 = n /\ n - 1 <= n /\ n + m = h /\ n + 0 = n
  OBVIOUS
<1>2. \A o : R(n, o) => R(n - 1, o)
  BY DEF AtDepth
<1>3. 0 \in T
  BY <1>1, <1>2
<1>4. ASSUME NEW k \in 0 .. m, k < m, k \in T
      PROVE  k + 1 \in T
  <2>1. n + k \in Nat /\ n + (k + 1) = (n + k) + 1 /\ k + 1 \in 0 .. m
    BY <1>1, <1>4
  <2>2. ASSUME NEW o, R(n + (k + 1), o)
        PROVE  R(n - 1, o)
    <3>1. \/ R(n + k, o)
          \/ \E e \in g : R(n + k, Here(e, direction)) /\ Peer(e, direction) = o
      BY <2>1, <2>2, ReachNext
    <3>2. \A q : R(n + k, q) => R(n - 1, q)
      BY <1>4
    <3>3. R(n - 1, o) \/ R(n, o)
      <4> HIDE DEF R
      <4>1. R(n - 1, o) \/ \E e \in g : R(n - 1, Here(e, direction)) /\ Peer(e, direction) = o
        BY <3>1, <3>2
      <4> QED BY <1>1, <4>1, ReachNext DEF R
    <3> QED BY <1>2, <3>3
  <2> QED BY <2>1, <2>2
<1>5. m \in T
  <2>1. 0 .. m \subseteq T
    <3>1. \A k \in 0 .. m : k < m /\ k \in T => k + 1 \in T
      BY <1>4
    <3> HIDE DEF T, m
    <3> QED BY <1>1, <1>3, <3>1, CountUp
  <2> QED BY <1>1, <2>1
<1>6. ASSUME NEW o, R(h, o) PROVE R(n, o)
  <2>1. R(n - 1, o)
    <3>1. \A q : R(n + m, q) => R(n - 1, q)
      BY <1>5
    <3> QED BY <1>1, <1>6, <3>1
  <2> QED BY <1>1, <2>1, ReachMore
<1> QED BY <1>6

(* What is remembered of the objects that were reached, other than the     *)
(* anchors: their depth, and all edges that lead to them from the depth    *)
(* before.                                                                 *)
Remembered(g, s, n) ==
  \A o : o \notin s.anchors =>
    /\ o \in DOMAIN s.distance <=> Reach(g, s.anchors, s.direction, n, o)
    /\ o \in DOMAIN s.distance =>
         /\ s.distance[o] \in Nat \ {0}
         /\ AtDepth(g, s.anchors, s.direction, s.distance[o], o)
         /\ \A e : e \in s.parents[o] <=>
              /\ e \in g /\ Peer(e, s.direction) = o
              /\ AtDepth(g, s.anchors, s.direction, s.distance[o] - 1, Here(e, s.direction))

(* The rounds on a graph that stays in place: the frontier is what is as   *)
(* many edges away as there were rounds, and what is nearer was expanded.  *)
SpreadOK ==
  search.phase = "impact" /\ ~torn =>
    LET A == search.anchors
        n == search.round
    IN  /\ A = Anchors(graph, search.changed) /\ search.hops > 0
        /\ \A o : o \in search.expanded
                    <=> n > 0 /\ Reach(graph, A, search.direction, n - 1, o)
        /\ \A o : o \notin A => (o \in search.frontier
                                   <=> AtDepth(graph, A, search.direction, n, o))
        /\ Remembered(graph, search, n)

LEMMA StartSpread ==
  ASSUME NEW changed, NEW direction, NEW hops \in Nat \ {0},
         StartImpact(changed, direction, hops)
  PROVE  SpreadOK'
<1> DEFINE A == Anchors(graph, changed)
<1>1. CASE search' = [phase |-> "refused"]
  BY <1>1 DEF SpreadOK
<1>2. CASE search' = [phase |-> "impact", changed |-> changed, direction |-> direction,
                     hops |-> hops, round |-> 0, anchors |-> A,
                     frontier |-> A, expanded |-> {}, known |-> {},
                     distance |-> [o \in {} |-> 0], parents |-> [o \in {} |-> {}]]
  <2> HIDE DEF A
  <2>1. \A o : Reach(graph, A, direction, 0, o) <=> o \in A
    BY ReachNone
  <2>2. \A o : AtDepth(graph, A, direction, 0, o) <=> o \in A
    BY <2>1 DEF AtDepth
  <2>3. /\ graph' = graph /\ search'.anchors = A /\ search'.round = 0
        /\ search'.direction = direction /\ search'.changed = changed /\ search'.hops > 0
        /\ search'.expanded = {} /\ search'.frontier = A
        /\ DOMAIN search'.distance = {}
    BY <1>2 DEF StartImpact
  <2>4. \A o : ~(0 > 0)
    OBVIOUS
  <2>5. Remembered(graph', search', 0)
    BY <2>1, <2>3 DEF Remembered
  <2> QED BY <2>2, <2>3, <2>4, <2>5 DEF SpreadOK, A
<1> QED BY <1>1, <1>2 DEF StartImpact

(* The objects a round expands are those at its depth.                     *)
LEMMA KeysAtDepth ==
  ASSUME ImpactOK, SpreadOK, search.phase = "impact", ~torn, NEW o
  PROVE  o \in ImpactKeys
           <=> AtDepth(graph, search.anchors, search.direction, search.round, o)
<1> DEFINE A == search.anchors
           n == search.round
           R(k, q) == Reach(graph, A, search.direction, k, q)
<1>1. /\ n \in Nat
      /\ \A q : q \in search.expanded <=> n > 0 /\ R(n - 1, q)
      /\ \A q : q \notin A => (q \in search.frontier
                                 <=> AtDepth(graph, A, search.direction, n, q))
      /\ n = 0 => search.frontier = A
  BY DEF ImpactOK, ImpactRow, SpreadOK
<1>2. \A q : R(0, q) <=> q \in A
  BY ReachNone
<1>3. CASE n = 0
  BY <1>1, <1>2, <1>3 DEF ImpactKeys, AtDepth
<1>4. CASE n > 0 /\ o \in A
  <2>1. R(n - 1, o)
    <3>1. n - 1 \in Nat /\ 0 <= n - 1
      BY <1>1, <1>4
    <3> QED BY <1>2, <1>4, <3>1, ReachMore
  <2> QED BY <1>1, <1>4, <2>1 DEF ImpactKeys, AtDepth
<1>5. CASE n > 0 /\ o \notin A
  BY <1>1, <1>5 DEF ImpactKeys, AtDepth
<1> QED BY <1>1, <1>3, <1>4, <1>5

(* A round that is not refused, field by field.                            *)
LEMMA ImpactRound ==
  ASSUME ImpactOK, ExpandImpact, search'.phase = "impact"
  PROVE  LET reached == Reached(ImpactRows)
             dist == search.distance
         IN  /\ search.round \in Nat /\ search.direction \in Direction
             /\ search'.changed = search.changed /\ search'.anchors = search.anchors
             /\ search'.hops = search.hops
             /\ search'.direction = search.direction
             /\ search'.round = search.round + 1
             /\ search'.expanded = search.expanded \cup ImpactKeys
             /\ search'.frontier = reached
             /\ search'.distance = [o \in DOMAIN dist \cup reached |->
                                      IF o \in DOMAIN dist THEN dist[o] ELSE search.round + 1]
             /\ search'.parents = [o \in DOMAIN dist \cup reached |->
                                     IF o \in DOMAIN dist THEN search.parents[o]
                                     ELSE ParentsOf(ImpactRows, o)]
<1> DEFINE reached == Reached(ImpactRows)
           dist == search.distance
           objects == DOMAIN dist \cup reached
<1>1. PICK D \in SUBSET Object : search \in ImpactRow(D)
  BY DEF ExpandImpact, ImpactOK
<1>2. search' = [search EXCEPT
                 !.round = @ + 1,
                 !.expanded = @ \cup ImpactKeys,
                 !.known = @ \cup ImpactRows,
                 !.frontier = reached,
                 !.distance = [o \in objects |-> IF o \in DOMAIN dist THEN @[o]
                                                 ELSE search.round + 1],
                 !.parents = [o \in objects |-> IF o \in DOMAIN dist THEN @[o]
                                                ELSE ParentsOf(ImpactRows, o)]]
  BY DEF ExpandImpact
<1> QED BY <1>1, <1>2 DEF ImpactRow

LEMMA ExpandSpread ==
  ASSUME GraphOK, ImpactOK, SpreadOK, ExpandImpact
  PROVE  SpreadOK'
<1> DEFINE A == search.anchors
           n == search.round
           dir == search.direction
           reached == Reached(ImpactRows)
           dist == search.distance
           R(k, q) == Reach(graph, A, dir, k, q)
           D(k, q) == AtDepth(graph, A, dir, k, q)
<1>1. SUFFICES ASSUME search'.phase = "impact", ~torn
               PROVE  SpreadOK'
  BY DEF ExpandImpact, SpreadOK
<1>2. /\ search.phase = "impact" /\ n \in Nat /\ dir \in Direction /\ graph' = graph
      /\ search'.changed = search.changed /\ search'.anchors = A
      /\ search'.hops = search.hops
      /\ search'.direction = dir
      /\ search'.round = n + 1
      /\ search'.expanded = search.expanded \cup ImpactKeys
      /\ search'.frontier = reached
      /\ search'.distance = [o \in DOMAIN dist \cup reached |->
                               IF o \in DOMAIN dist THEN dist[o] ELSE n + 1]
      /\ search'.parents = [o \in DOMAIN dist \cup reached |->
                              IF o \in DOMAIN dist THEN search.parents[o]
                              ELSE ParentsOf(ImpactRows, o)]
  BY <1>1, ImpactRound DEF ExpandImpact
<1>3. /\ A = Anchors(graph, search.changed) /\ search.hops > 0
      /\ \A o : o \in search.expanded <=> n > 0 /\ R(n - 1, o)
      /\ Remembered(graph, search, n)
  BY <1>1, <1>2 DEF SpreadOK
<1>4. \A o : o \in ImpactKeys <=> D(n, o)
  BY <1>1, <1>2, KeysAtDepth
<1>5. \A e : e \in ImpactRows <=> e \in graph /\ D(n, Here(e, dir))
  BY <1>4 DEF ImpactRows
<1>6. \A e \in graph : e.from # e.to <=> Here(e, dir) # Peer(e, dir)
  BY <1>2 DEF Here, Peer, Direction
<1>7. n + 1 > 0 /\ (n + 1) - 1 = n
  BY <1>2
<1> HIDE DEF reached
<1>8. ASSUME NEW o
      PROVE  o \in search'.expanded <=> n + 1 > 0 /\ R(n, o)
  <2>1. CASE n = 0
    BY <1>2, <1>3, <1>4, <1>7, <2>1 DEF AtDepth
  <2>2. CASE n > 0
    <3>1. R(n - 1, o) => R(n, o)
      <4>1. n - 1 \in Nat /\ n - 1 <= n
        BY <1>2, <2>2
      <4> QED BY <1>2, <4>1, ReachMore
    <3> QED BY <1>2, <1>3, <1>4, <1>7, <2>2, <3>1 DEF AtDepth
  <2> QED BY <1>2, <2>1, <2>2
<1>9. ASSUME NEW o, o \notin A
      PROVE  o \in reached <=> D(n + 1, o)
  <2>1. o \in DOMAIN dist <=> R(n, o)
    BY <1>3, <1>9 DEF Remembered
  <2>2. o \in reached <=> /\ \E e \in ImpactRows : Peer(e, dir) = o /\ e.from # e.to
                          /\ o \notin DOMAIN dist
    BY DEF reached, Reached
  <2>3. ASSUME ~R(n, o)
        PROVE  o \in reached <=> R(n + 1, o)
    <3>1. R(n + 1, o) <=> \E e \in graph : D(n, Here(e, dir)) /\ Peer(e, dir) = o
      BY <1>2, <2>3, DepthNext
    <3>2. \A e \in graph : D(n, Here(e, dir)) /\ Peer(e, dir) = o => e.from # e.to
      BY <1>6, <2>3 DEF AtDepth
    <3> HIDE DEF R, D
    <3> QED BY <1>5, <2>1, <2>2, <2>3, <3>1, <3>2
  <2>4. D(n + 1, o) <=> R(n + 1, o) /\ ~R(n, o)
    BY <1>7 DEF AtDepth
  <2> HIDE DEF R, D
  <2> QED BY <2>1, <2>2, <2>3, <2>4
<1>10. ASSUME NEW o, o \in reached, o \notin A
       PROVE  /\ o \notin DOMAIN dist
              /\ \A e : e \in ParentsOf(ImpactRows, o) <=>
                   /\ e \in graph /\ Peer(e, dir) = o /\ D(n, Here(e, dir))
  <2>1. o \notin DOMAIN dist
    BY <1>10 DEF reached, Reached
  <2>2. ~R(n, o)
    BY <1>3, <1>10, <2>1 DEF Remembered
  <2>3. ASSUME NEW e \in graph, Peer(e, dir) = o, D(n, Here(e, dir))
        PROVE  e.from # e.to
    BY <1>6, <2>2, <2>3 DEF AtDepth
  <2> HIDE DEF D
  <2> QED BY <1>5, <2>1, <2>3 DEF ParentsOf
<1>11. ASSUME NEW o, o \notin A
       PROVE  /\ o \in DOMAIN search'.distance <=> R(n + 1, o)
              /\ o \in DOMAIN search'.distance =>
                   /\ search'.distance[o] \in Nat \ {0}
                   /\ D(search'.distance[o], o)
                   /\ \A e : e \in search'.parents[o] <=>
                        /\ e \in graph /\ Peer(e, dir) = o
                        /\ D(search'.distance[o] - 1, Here(e, dir))
  <2>1. DOMAIN search'.distance = DOMAIN dist \cup reached
    BY <1>2
  <2>2. /\ o \in DOMAIN dist <=> R(n, o)
        /\ o \in DOMAIN dist =>
             /\ dist[o] \in Nat \ {0} /\ D(dist[o], o)
             /\ \A e : e \in search.parents[o] <=>
                  e \in graph /\ Peer(e, dir) = o /\ D(dist[o] - 1, Here(e, dir))
    BY <1>3, <1>11 DEF Remembered
  <2>3. R(n, o) => R(n + 1, o)
    BY <1>2, ReachNext
  <2>4. D(n + 1, o) <=> R(n + 1, o) /\ ~R(n, o)
    BY <1>7 DEF AtDepth
  <2> HIDE DEF R, D
  <2>5. o \in DOMAIN search'.distance <=> R(n + 1, o)
    BY <1>9, <1>11, <2>1, <2>2, <2>3, <2>4
  <2>6. CASE o \in DOMAIN dist
    <3>1. search'.distance[o] = dist[o] /\ search'.parents[o] = search.parents[o]
      BY <1>2, <2>6
    <3> QED BY <2>2, <2>5, <2>6, <3>1
  <2>7. CASE o \in reached
    <3>1. search'.distance[o] = n + 1 /\ search'.parents[o] = ParentsOf(ImpactRows, o)
      BY <1>2, <1>10, <1>11, <2>7
    <3>2. n + 1 \in Nat \ {0}
      BY <1>2
    <3>3. D(n + 1, o)
      BY <1>9, <1>11, <2>7
    <3> QED BY <1>7, <1>10, <1>11, <2>5, <2>7, <3>1, <3>2, <3>3
  <2> QED BY <2>1, <2>5, <2>6, <2>7
<1>12. Remembered(graph', search', n + 1)
  BY <1>2, <1>11 DEF Remembered
<1> HIDE DEF R, D
<1>13. /\ \A o : o \in search'.expanded <=> n + 1 > 0 /\ R((n + 1) - 1, o)
       /\ \A o : o \notin A => (o \in search'.frontier <=> D(n + 1, o))
  BY <1>2, <1>7, <1>8, <1>9
<1> QED BY <1>2, <1>3, <1>12, <1>13 DEF SpreadOK, R, D

LEMMA OneEdge ==
  ASSUME NEW g, NEW direction, NEW e \in g, Peer(e, direction) # Here(e, direction)
  PROVE  /\ IsTrail(g, Here(e, direction), {}, direction, <<e>>) /\ Len(<<e>>) = 1
         /\ EndOf(<<e>>, Here(e, direction), direction) = Peer(e, direction)
<1>1. /\ <<e>> \in Seq(g) /\ Len(<<e>>) = 1 /\ <<e>>[1] = e /\ <<e>> # <<>>
      /\ 1 .. 1 = {1} /\ Last(<<e>>) = e
  BY DEF Last
<1>2. \A i, j \in 1 .. 1 : i = 1 /\ j = 1
  OBVIOUS
<1>3. IsTrail(g, Here(e, direction), {}, direction, <<e>>)
  BY <1>1, <1>2 DEF IsTrail
<1> QED BY <1>1, <1>3 DEF EndOf

LEMMA AnchorDepth ==
  ASSUME NEW g, NEW anchors, NEW direction, NEW n \in Nat, NEW o \in anchors,
         AtDepth(g, anchors, direction, n, o)
  PROVE  n = 0
<1> SUFFICES ASSUME n > 0 PROVE FALSE
  OBVIOUS
<1>1. n - 1 \in Nat /\ 0 <= n - 1
  OBVIOUS
<1>2. Reach(g, anchors, direction, n - 1, o)
  BY <1>1, ReachNone, ReachMore
<1> QED BY <1>2 DEF AtDepth

(* The routes that are rebuilt are all trails of the length of the         *)
(* distance.                                                               *)
LEMMA RoutesAreTrails ==
  ASSUME NEW g, NEW s, NEW D \in SUBSET Object, s \in ImpactRow(D), Layered(s),
         NEW m, Remembered(g, s, m), NEW o \in D, o \notin s.anchors
  PROVE  \A t : t \in Routes(s)[o] <=> /\ AnchorTrail(g, s.anchors, s.direction, t, o)
                                       /\ Len(t) = s.distance[o]
<1> DEFINE h == s.hops
           A == s.anchors
           dir == s.direction
           R(k, q) == Reach(g, A, dir, k, q)
           AT(k, q) == AtDepth(g, A, dir, k, q)
           Route(t, p) == AnchorTrail(g, A, dir, t, p) /\ Len(t) = s.distance[p]
<1>1. h \in Nat /\ DOMAIN s.distance = D /\ s.distance \in [D -> Nat]
  BY DEF ImpactRow
<1>2. PICK f : /\ f = [n \in 0 .. h |-> Level(s, n, f[n - 1])]
               /\ Routes(s) = f[h]
  BY <1>1, RoutesAreLevels
<1> DEFINE Exact(n) == \A p \in D \ A : s.distance[p] <= n => \A t : t \in f[n][p] <=> Route(t, p)
           T == {n \in 0 .. h : Exact(n)}
<1>3. \A p \in D : s.distance[p] \in 1 .. h
  BY <1>1 DEF Layered
<1>4. \A p \in D \ A :
        /\ AT(s.distance[p], p)
        /\ \A e : e \in s.parents[p] <=>
             e \in g /\ Peer(e, dir) = p /\ AT(s.distance[p] - 1, Here(e, dir))
        /\ \A e \in s.parents[p] : Here(e, dir) \notin A =>
             Here(e, dir) \in D /\ s.distance[p] = s.distance[Here(e, dir)] + 1
  BY <1>1 DEF Remembered, Layered
<1>5. 0 \in T
  BY <1>1, <1>3
<1>6. ASSUME NEW n \in 0 .. h, n < h, n \in T
      PROVE  n + 1 \in T
  <2>1. f[n + 1] = Level(s, n + 1, f[n])
    <3>1. n + 1 \in 0 .. h /\ (n + 1) - 1 = n
      BY <1>1, <1>6
    <3> QED BY <1>2, <3>1
  <2>2. \A p \in D \ A : s.distance[p] <= n => \A t : t \in f[n][p] <=> Route(t, p)
    BY <1>6
  <2>3. ASSUME NEW p \in D \ A, s.distance[p] <= n + 1
        PROVE  \A t : t \in f[n + 1][p] <=> Route(t, p)
    <3>1. f[n + 1][p] = IF s.distance[p] < n + 1 THEN f[n][p]
                        ELSE UNION {Behind(s, e, f[n]) : e \in s.parents[p]}
      BY <1>1, <2>1, <2>3 DEF Level
    <3>2. CASE s.distance[p] < n + 1
      <4>1. s.distance[p] <= n
        BY <1>1, <3>2
      <4> QED BY <2>2, <3>1, <3>2, <4>1
    <3>3. CASE s.distance[p] = n + 1
      <4>1. f[n + 1][p] = UNION {Behind(s, e, f[n]) : e \in s.parents[p]}
        <5>1. ~(s.distance[p] < n + 1)
          BY <3>3
        <5> QED BY <3>1, <5>1
      <4>2. /\ n \in Nat /\ (n + 1) - 1 = n /\ ~R(n, p)
            /\ \A e : e \in s.parents[p] <=> e \in g /\ Peer(e, dir) = p /\ AT(n, Here(e, dir))
        <5>1. n \in Nat /\ n + 1 > 0 /\ (n + 1) - 1 = n
          BY <1>6
        <5>2. AT(n + 1, p)
          BY <1>4, <3>3
        <5>3. ~R(n, p)
          BY <5>1, <5>2 DEF AtDepth
        <5> HIDE DEF AT, R
        <5> QED BY <1>4, <3>3, <5>1, <5>3
      <4>3. ASSUME NEW e \in s.parents[p], NEW t \in Behind(s, e, f[n])
            PROVE  Route(t, p)
        <5>1. e \in g /\ Peer(e, dir) = p /\ AT(n, Here(e, dir))
          BY <4>2, <4>3
        <5>2. CASE Here(e, dir) \in A
          <6> DEFINE a == Here(e, dir)
          <6>1. t = <<e>> /\ n = 0
            BY <4>2, <4>3, <5>1, <5>2, AnchorDepth DEF Behind
          <6>2. Peer(e, dir) # a
            BY <2>3, <5>1, <5>2
          <6>3. /\ IsTrail(g, a, {}, dir, <<e>>) /\ Len(<<e>>) = 1
                /\ EndOf(<<e>>, a, dir) = p
            BY <5>1, <6>2, OneEdge
          <6> QED BY <3>3, <5>2, <6>1, <6>3 DEF AnchorTrail
        <5>3. CASE Here(e, dir) \notin A
          <6>1. Here(e, dir) \in D \ A /\ s.distance[Here(e, dir)] = n
            BY <1>1, <1>4, <2>3, <3>3, <4>2, <4>3, <5>3
          <6>2. PICK q \in f[n][Here(e, dir)] : t = Append(q, e)
            BY <4>3, <5>3 DEF Behind
          <6>3. Route(q, Here(e, dir))
            BY <2>2, <4>2, <6>1, <6>2
          <6>4. PICK a \in A : IsTrail(g, a, {}, dir, q) /\ EndOf(q, a, dir) = Here(e, dir)
            BY <6>3 DEF AnchorTrail
          <6>5. q \in Seq(g) /\ Len(q) = n
            BY <6>1, <6>3, <6>4 DEF IsTrail
          <6>6. p \notin SeenBy(q, a, dir)
            <7>1. p # a
              BY <2>3, <6>4
            <7>2. ASSUME NEW i \in 1 .. n, Peer(q[i], dir) = p
                  PROVE  FALSE
              <8>1. i \in 0 .. Len(q) /\ i > 0 /\ i <= n
                BY <4>2, <6>5
              <8>2. /\ IsTrail(g, a, {}, dir, SubSeq(q, 1, i)) /\ Len(SubSeq(q, 1, i)) = i
                    /\ EndOf(SubSeq(q, 1, i), a, dir) = p
                BY <6>4, <7>2, <8>1, PrefixTrail
              <8>3. R(n, p)
                BY <8>1, <8>2 DEF Reach, AnchorTrail
              <8> QED BY <4>2, <8>3
            <7>3. DOMAIN q = 1 .. n
              BY <6>5
            <7>4. SeenBy(q, a, dir) = {a} \cup {Peer(q[i], dir) : i \in 1 .. n}
              BY <7>3 DEF SeenBy
            <7> QED BY <7>1, <7>2, <7>4
          <6>7. /\ IsTrail(g, a, {}, dir, t) /\ Len(t) = n + 1
                /\ EndOf(t, a, dir) = p
            BY <5>1, <6>2, <6>4, <6>5, <6>6, AppendTrail
          <6> QED BY <3>3, <6>7 DEF AnchorTrail
        <5> QED BY <5>2, <5>3
      <4>4. ASSUME NEW t, Route(t, p)
            PROVE  \E e \in s.parents[p] : t \in Behind(s, e, f[n])
        <5>1. PICK a \in A : IsTrail(g, a, {}, dir, t) /\ EndOf(t, a, dir) = p
          BY <4>4 DEF AnchorTrail
        <5>2. t \in Seq(g) /\ Len(t) = n + 1 /\ Len(t) > 0 /\ Len(t) - 1 = n
          BY <3>3, <4>2, <4>4, <5>1 DEF IsTrail
        <5> DEFINE q == SubSeq(t, 1, Len(t) - 1)
                   e == t[Len(t)]
        <5>3. /\ IsTrail(g, a, {}, dir, q) /\ Len(q) = n
              /\ t = Append(q, e) /\ e \in g
              /\ Here(e, dir) = EndOf(q, a, dir)
          BY <5>1, <5>2, SplitTrail
        <5>4. Peer(e, dir) = p
          BY <5>1, <5>2, TrailEnd
        <5> HIDE DEF q, e
        <5>5. R(n, Here(e, dir))
          <6>1. Len(q) <= n
            BY <4>2, <5>3
          <6> QED BY <5>3, <6>1 DEF Reach, AnchorTrail
        <5>6. AT(n, Here(e, dir))
          BY <4>2, <5>3, <5>4, <5>5, DepthNext
        <5>7. e \in s.parents[p]
          BY <4>2, <5>3, <5>4, <5>6
        <5>8. CASE Here(e, dir) \in A
          <6>1. n = 0
            BY <4>2, <5>6, <5>8, AnchorDepth
          <6>2. q = <<>>
            <7>1. q \in Seq(g) /\ Len(q) = 0
              BY <5>3, <6>1 DEF IsTrail
            <7> QED BY <7>1, EmptyTrail
          <6>3. t = <<e>>
            <7>1. Append(<<>>, e) = <<e>>
              OBVIOUS
            <7> QED BY <5>3, <6>2, <7>1
          <6> QED BY <5>7, <5>8, <6>3 DEF Behind
        <5>9. CASE Here(e, dir) \notin A
          <6>1. Here(e, dir) \in D \ A /\ s.distance[Here(e, dir)] = n
            BY <1>1, <1>4, <2>3, <3>3, <4>2, <5>7, <5>9
          <6>2. Route(q, Here(e, dir))
            BY <5>3, <6>1 DEF AnchorTrail
          <6>3. q \in f[n][Here(e, dir)]
            BY <2>2, <4>2, <6>1, <6>2
          <6> QED BY <5>3, <5>7, <5>9, <6>3 DEF Behind
        <5> QED BY <5>8, <5>9
      <4> HIDE DEF Route
      <4> QED BY <4>1, <4>3, <4>4
    <3> QED BY <1>1, <2>3, <3>2, <3>3
  <2>4. n + 1 \in 0 .. h
    BY <1>1, <1>6
  <2> HIDE DEF Route
  <2> QED BY <2>3, <2>4
<1>7. h \in T
  <2> HIDE DEF T
  <2> QED BY <1>1, <1>5, <1>6, CountUp
<1>8. o \in D \ A /\ s.distance[o] <= h
  BY <1>1, <1>3
<1> QED BY <1>2, <1>7, <1>8

-----------------------------------------------------------------------------
(* Counting.                                                               *)

LEMMA FiniteImage ==
  ASSUME NEW S, IsFiniteSet(S), NEW T, NEW f \in [S -> T], \A y \in T : \E x \in S : f[x] = y
  PROVE  /\ IsFiniteSet(T) /\ Cardinality(T) <= Cardinality(S)
         /\ (\A x, y \in S : f[x] = f[y] => x = y) => Cardinality(T) = Cardinality(S)
<1>1. f \in Surjection(S, T)
  BY DEF Surjection
<1>2. (\A x, y \in S : f[x] = f[y] => x = y) => f \in Injection(S, T)
  BY DEF Injection, IsInjective
<1> QED BY <1>1, <1>2, FS_Surjection

LEMMA MinOfTwo ==
  ASSUME NEW a \in Nat, NEW b \in Nat
  PROVE  Min({a, b}) = IF a <= b THEN a ELSE b
<1> DEFINE m == IF a <= b THEN a ELSE b
<1>1. m \in {a, b} /\ \A y \in {a, b} : m <= y
  OBVIOUS
<1>2. \A x \in {a, b} : (\A y \in {a, b} : x <= y) => x = m
  OBVIOUS
<1> HIDE DEF m
<1> QED BY <1>1, <1>2 DEF Min, m

LEMMA FiniteEdges == IsFiniteSet(Edge)
<1> DEFINE f == [p \in Object \X Object |-> [from |-> p[1], to |-> p[2]]]
<1>1. IsFiniteSet(Object \X Object)
  BY FS_Product, FiniteAssumption
<1>2. f \in [Object \X Object -> Edge]
  BY DEF Edge
<1>3. ASSUME NEW e \in Edge
      PROVE  \E p \in Object \X Object : f[p] = e
  <2>1. <<e.from, e.to>> \in Object \X Object /\ f[<<e.from, e.to>>] = e
    BY DEF Edge
  <2> QED BY <2>1
<1> HIDE DEF f
<1> QED BY <1>1, <1>2, <1>3, FiniteImage

LEMMA FiniteOfLength ==
  ASSUME NEW g, IsFiniteSet(g), NEW n \in Nat
  PROVE  IsFiniteSet({t \in Seq(g) : Len(t) = n})
<1> DEFINE S(k) == {t \in Seq(g) : Len(t) = k}
           T == {k \in 0 .. n : IsFiniteSet(S(k))}
<1>1. 0 \in T
  <2>1. S(0) = {<<>>}
    BY EmptySeq
  <2>2. IsFiniteSet({<<>>})
    BY FS_Singleton
  <2> HIDE DEF S
  <2>3. IsFiniteSet(S(0))
    BY <2>1, <2>2
  <2>4. 0 \in 0 .. n
    OBVIOUS
  <2> QED BY <2>3, <2>4
<1>2. ASSUME NEW k \in 0 .. n, k < n, k \in T
      PROVE  k + 1 \in T
  <2> DEFINE f == [p \in S(k) \X g |-> Append(p[1], p[2])]
  <2>1. IsFiniteSet(S(k) \X g)
    BY <1>2, FS_Product
  <2>2. f \in [S(k) \X g -> S(k + 1)]
    <3>1. ASSUME NEW p \in S(k) \X g
          PROVE  Append(p[1], p[2]) \in S(k + 1)
      <4>1. p[1] \in Seq(g) /\ Len(p[1]) = k /\ p[2] \in g
        OBVIOUS
      <4>2. Append(p[1], p[2]) \in Seq(g) /\ Len(Append(p[1], p[2])) = k + 1
        BY <4>1, AppendProperties
      <4> QED BY <4>2
    <3> QED BY <3>1
  <2>3. ASSUME NEW t \in S(k + 1)
        PROVE  \E p \in S(k) \X g : f[p] = t
    <3> DEFINE q == SubSeq(t, 1, k)
               e == t[k + 1]
    <3>1. t \in Seq(g) /\ Len(t) = k + 1 /\ k \in Nat /\ e \in g
      BY <1>2
    <3>2. q \in Seq(g) /\ Len(q) = k /\ \A i \in 1 .. k : q[i] = t[i]
      BY <3>1, SubSeqProperties
    <3> HIDE DEF q, e
    <3>3. /\ Append(q, e) \in Seq(g) /\ Len(Append(q, e)) = Len(q) + 1
          /\ \A i \in 1 .. Len(q) : Append(q, e)[i] = q[i]
          /\ Append(q, e)[Len(q) + 1] = e
      BY <3>1, <3>2, AppendProperties
    <3>4. \A i \in 1 .. (k + 1) : Append(q, e)[i] = t[i]
      <4>1. \A i \in 1 .. (k + 1) : i \in 1 .. k \/ i = k + 1
        BY <3>1
      <4> QED BY <3>2, <3>3, <4>1 DEF e
    <3>5. Append(q, e) = t
      BY <3>1, <3>2, <3>3, <3>4, SeqEqual
    <3>6. <<q, e>> \in S(k) \X g
      BY <3>1, <3>2
    <3> HIDE DEF S
    <3> QED BY <3>5, <3>6
  <2> HIDE DEF f, S
  <2>4. IsFiniteSet(S(k + 1))
    BY <2>1, <2>2, <2>3, FiniteImage
  <2>5. k + 1 \in 0 .. n
    BY <1>2
  <2> QED BY <2>4, <2>5
<1>3. n \in T
  <2> HIDE DEF T
  <2> QED BY <1>1, <1>2, CountUp
<1> QED BY <1>3

(* An impact on a graph that stays in place lists what the hops reach.     *)
ImpactedOK ==
  search.phase = "impacted" /\ ~torn =>
    /\ search.anchors = Anchors(graph, search.changed)
    /\ search.direction \in Direction /\ search.hops \in Nat \ {0}
    /\ DOMAIN search.distance \subseteq Object \ {search.changed}
    /\ \A o : o \notin search.anchors \cup {search.changed} =>
         (o \in DOMAIN search.distance
            <=> Reach(graph, search.anchors, search.direction, search.hops, o))

(* When a traversal ends, it has gone as far as there is anything to reach *)
(* within the hops.                                                        *)
LEMMA AllReached ==
  ASSUME ImpactOK, SpreadOK, EndImpact, ~torn
  PROVE  LET A == search.anchors
             dir == search.direction
         IN  \A o : Reach(graph, A, dir, search.round, o) <=> Reach(graph, A, dir, search.hops, o)
<1> DEFINE A == search.anchors
           dir == search.direction
           n == search.round
           h == search.hops
<1>1. /\ search.phase = "impact" /\ n \in Nat /\ h \in Nat /\ n <= h
      /\ n = h \/ ImpactKeys = {}
      /\ A = Anchors(graph, search.changed)
  BY DEF EndImpact, ImpactOK, ImpactRow, SpreadOK
<1>2. CASE n = h
  BY <1>2
<1>3. CASE ImpactKeys = {}
  <2>1. \A o : ~AtDepth(graph, A, dir, n, o)
    BY <1>1, <1>3, KeysAtDepth
  <2>2. n # 0
    <3>1. \E o : o \in A
      BY <1>1 DEF Anchors
    <3>2. PICK o : o \in A
      BY <3>1
    <3>3. Reach(graph, A, dir, 0, o)
      BY <3>2, ReachNone
    <3>4. n = 0 => AtDepth(graph, A, dir, n, o)
      BY <3>3 DEF AtDepth
    <3> QED BY <2>1, <3>4
  <2>3. \A o : Reach(graph, A, dir, h, o) => Reach(graph, A, dir, n, o)
    BY <1>1, <2>1, <2>2, ReachSaturates
  <2>4. \A o : Reach(graph, A, dir, n, o) => Reach(graph, A, dir, h, o)
    BY <1>1, ReachMore
  <2> QED BY <2>3, <2>4
<1> QED BY <1>1, <1>2, <1>3

(* The trails the sample adapter enumerates are those from the anchors: a  *)
(* routine without an edge has none.                                       *)
LEMMA TrailsFromAnchors ==
  ASSUME NEW g, NEW changed, NEW direction \in Direction, NEW h \in Nat,
         Member[changed] = {} \/ Anchors(g, changed) # {changed}
  PROVE  \A t : t \in ImpactTrails(g, changed, direction, h)
                  <=> \E a \in Anchors(g, changed) :
                        IsTrail(g, a, {}, direction, t) /\ Len(t) \in 1 .. h
<1> DEFINE A == Anchors(g, changed)
           All == AllAnchors(changed)
           members == {m \in Member[changed] : \E e \in g : m \in {e.from, e.to}}
<1>1. \A a : \A t : t \in Trails(g, a, {}, direction, h)
                      <=> IsTrail(g, a, {}, direction, t) /\ Len(t) \in 1 .. h
  BY TrailsAre
<1>2. A \subseteq All
  <2>1. CASE Member[changed] = {}
    BY <2>1 DEF Anchors, AllAnchors
  <2>2. CASE Member[changed] # {}
    BY <2>2 DEF Anchors, AllAnchors
  <2> QED BY <2>1, <2>2
<1>3. ASSUME NEW a \in All, NEW t, IsTrail(g, a, {}, direction, t), Len(t) \in 1 .. h
      PROVE  a \in A
  <2>1. CASE Member[changed] = {}
    BY <1>3, <2>1 DEF Anchors, AllAnchors
  <2>2. CASE Member[changed] # {}
    <3>1. members # {}
      BY <2>2 DEF Anchors
    <3>2. 1 \in 1 .. Len(t) /\ t[1] \in g
      BY <1>3 DEF IsTrail
    <3>3. Here(t[1], direction) = a
      BY <1>3, <3>2 DEF IsTrail
    <3>4. a \in {t[1].from, t[1].to}
      BY <3>3 DEF Here
    <3>5. a \in members
      BY <1>3, <2>2, <3>2, <3>4 DEF AllAnchors
    <3> QED BY <3>1, <3>5 DEF Anchors
  <2> QED BY <2>1, <2>2
<1>4. \A t : t \in ImpactTrails(g, changed, direction, h)
               <=> \E a \in All : t \in Trails(g, a, {}, direction, h)
  BY DEF ImpactTrails
<1> QED BY <1>1, <1>2, <1>3, <1>4

LEMMA EndImpactReached ==
  ASSUME ImpactOK, SpreadOK, EndImpact
  PROVE  ImpactedOK'
<1> SUFFICES ASSUME ~torn PROVE ImpactedOK'
  BY DEF EndImpact, ImpactedOK
<1> DEFINE dependents == DOMAIN search.distance \ {search.changed}
<1>1. PICK D \in SUBSET Object : search \in ImpactRow(D)
  BY DEF EndImpact, ImpactOK
<1>2. /\ graph' = graph /\ search'.anchors = search.anchors
      /\ search'.changed = search.changed /\ search'.direction = search.direction
      /\ search'.hops = search.hops /\ DOMAIN search'.distance = dependents
  BY DEF EndImpact
<1>3. /\ search.anchors = Anchors(graph, search.changed) /\ search.hops > 0
      /\ Remembered(graph, search, search.round)
  BY DEF EndImpact, SpreadOK
<1>4. search.direction \in Direction /\ search.hops \in Nat \ {0} /\ dependents \subseteq Object
  BY <1>1, <1>3 DEF ImpactRow
<1>5. \A o : o \notin search.anchors =>
        (o \in DOMAIN search.distance
           <=> Reach(graph, search.anchors, search.direction, search.hops, o))
  BY <1>3, AllReached DEF Remembered
<1> QED BY <1>2, <1>3, <1>4, <1>5 DEF ImpactedOK

LEMMA EndImpactExact ==
  ASSUME GraphOK, ImpactOK, SpreadOK, EndImpact
  PROVE  ImpactExact'
<1> DEFINE c == search.changed
           A == search.anchors
           dir == search.direction
           h == search.hops
           dist == search.distance
           routes == Routes(search)
           dependents == DOMAIN dist \ {c}
           Least(S) == IF Cardinality(S) <= MaxRoutes THEN {S} ELSE kSubset(MaxRoutes, S)
           trails == ImpactTrails(graph, c, dir, h)
           To(o) == Shortest(LeadingTo(trails, o, dir))
           others == Object \ ({c} \cup Member[c])
           Leads(t, o) == AnchorTrail(graph, A, dir, t, o)
<1>1. PICK shown :
        /\ \A o \in dependents : shown[o] \in Least(routes[o])
        /\ search' = [phase |-> "impacted", changed |-> c, direction |-> dir, hops |-> h,
                      anchors |-> A, distance |-> [o \in dependents |-> dist[o]],
                      routes |-> shown]
        /\ graph' = graph /\ torn' = torn
  BY DEF EndImpact
<1>2. SUFFICES ASSUME ~torn, ~(Member[c] # {} /\ A = {c})
               PROVE  LET deps == {o \in others : To(o) # {}}
                      IN  /\ others \cap dependents = deps
                          /\ \A o \in deps :
                               /\ shown[o] \subseteq To(o)
                               /\ Cardinality(shown[o]) = Min({MaxRoutes, Cardinality(To(o))})
                               /\ \A t \in To(o) : [q \in dependents |-> dist[q]][o] = Len(t)
  <2>1. /\ search'.changed = c /\ search'.direction = dir /\ search'.hops = h
        /\ search'.anchors = A /\ search'.routes = shown
        /\ search'.distance = [q \in dependents |-> dist[q]]
        /\ DOMAIN search'.distance = dependents
        /\ graph' = graph /\ torn' = torn
    BY <1>1
  <2> HIDE DEF dependents
  <2> QED BY <2>1 DEF ImpactExact, Fallback
<1>3. PICK D \in SUBSET Object : search \in ImpactRow(D) /\ Layered(search)
  BY DEF EndImpact, ImpactOK
<1>4. /\ DOMAIN dist = D /\ dist \in [D -> Nat] /\ dir \in Direction /\ h \in Nat /\ c \in Object
  BY <1>3 DEF ImpactRow
<1>5. /\ A = Anchors(graph, c)
      /\ Remembered(graph, search, search.round)
      /\ \A o : o \notin A => (o \in D <=> Reach(graph, A, dir, h, o))
  BY <1>2, <1>4, AllReached DEF EndImpact, SpreadOK, Remembered
<1>6. others \cap A = {} /\ c \notin others
  BY <1>5 DEF Anchors
<1>7. ASSUME NEW o \in others
      PROVE  \A t : t \in LeadingTo(trails, o, dir) <=> Leads(t, o) /\ Len(t) <= h
  <2>1. \A t : t \in trails <=> \E a \in A : IsTrail(graph, a, {}, dir, t) /\ Len(t) \in 1 .. h
    BY <1>2, <1>4, <1>5, TrailsFromAnchors
  <2>2. ASSUME NEW t, NEW a \in A, IsTrail(graph, a, {}, dir, t), Len(t) \in 1 .. h
        PROVE  EndOf(t, a, dir) = Peer(Last(t), dir)
    <3>1. t # <<>>
      BY <2>2, EmptyTrail
    <3> QED BY <3>1 DEF EndOf
  <2>3. ASSUME NEW t, NEW a \in A, IsTrail(graph, a, {}, dir, t), EndOf(t, a, dir) = o, Len(t) <= h
        PROVE  Len(t) \in 1 .. h
    <3>1. t \in Seq(graph) /\ Len(t) \in Nat
      BY <2>3 DEF IsTrail
    <3>2. Len(t) # 0
      <4>1. o # a
        BY <1>6, <1>7
      <4> QED BY <2>3, <3>1, <4>1, EmptyTrail
    <3> QED BY <1>4, <2>3, <3>1, <3>2
  <2>4. \A t : Len(t) \in 1 .. h => Len(t) <= h
    BY <1>4
  <2> HIDE DEF trails
  <2> QED BY <2>1, <2>2, <2>3, <2>4 DEF LeadingTo, AnchorTrail
<1> HIDE DEF trails
<1>8. ASSUME NEW o \in others, o \notin D
      PROVE  To(o) = {}
  <2>1. \A t : ~(Leads(t, o) /\ Len(t) <= h)
    BY <1>5, <1>6, <1>8 DEF Reach
  <2> QED BY <1>7, <1>8, <2>1 DEF Shortest
<1>9. ASSUME NEW o \in others, o \in D
      PROVE  /\ \A t : t \in To(o) <=> Leads(t, o) /\ Len(t) = dist[o]
             /\ To(o) # {}
  <2>1. /\ dist[o] \in Nat \ {0} /\ dist[o] - 1 \in Nat /\ dist[o] <= h
        /\ Reach(graph, A, dir, dist[o], o)
        /\ ~Reach(graph, A, dir, dist[o] - 1, o)
    <3>1. dist[o] \in Nat \ {0} /\ AtDepth(graph, A, dir, dist[o], o)
      BY <1>4, <1>5, <1>6, <1>9 DEF Remembered
    <3>2. dist[o] \in 1 .. h
      BY <1>3, <1>4, <1>9 DEF Layered
    <3> QED BY <1>4, <3>1, <3>2 DEF AtDepth
  <2>2. \A t : Leads(t, o) => Len(t) \in Nat /\ dist[o] <= Len(t)
    <3>1. \A t : Leads(t, o) => Len(t) \in Nat /\ ~(Len(t) <= dist[o] - 1)
      BY <2>1 DEF Reach, AnchorTrail, IsTrail
    <3> HIDE DEF Leads
    <3> QED BY <2>1, <3>1
  <2>3. PICK u : Leads(u, o) /\ Len(u) = dist[o]
    <3>1. PICK u : Leads(u, o) /\ Len(u) <= dist[o]
      BY <2>1 DEF Reach
    <3> HIDE DEF Leads
    <3> QED BY <2>1, <2>2, <3>1
  <2> HIDE DEF Leads
  <2>4. u \in LeadingTo(trails, o, dir)
    BY <1>7, <1>9, <2>1, <2>3
  <2>5. ASSUME NEW t
        PROVE  t \in To(o) <=> Leads(t, o) /\ Len(t) = dist[o]
    <3>1. ASSUME t \in To(o)
          PROVE  Leads(t, o) /\ Len(t) = dist[o]
      <4>1. t \in LeadingTo(trails, o, dir) /\ Len(t) <= Len(u)
        BY <2>4, <3>1 DEF Shortest
      <4>2. Leads(t, o) /\ Len(t) <= dist[o]
        BY <1>7, <1>9, <2>3, <4>1
      <4> QED BY <2>1, <2>2, <4>2
    <3>2. ASSUME Leads(t, o), Len(t) = dist[o]
          PROVE  t \in To(o)
      <4>1. t \in LeadingTo(trails, o, dir)
        BY <1>7, <1>9, <2>1, <3>2
      <4>2. \A v \in LeadingTo(trails, o, dir) : Len(t) <= Len(v)
        BY <1>7, <1>9, <2>2, <3>2
      <4> QED BY <4>1, <4>2 DEF Shortest
    <3> QED BY <3>1, <3>2
  <2> QED BY <2>3, <2>5
<1>10. ASSUME NEW o \in others, o \in D
       PROVE  routes[o] = To(o) /\ IsFiniteSet(To(o))
  <2>1. \A t : t \in routes[o] <=> Leads(t, o) /\ Len(t) = dist[o]
    BY <1>3, <1>5, <1>6, <1>10, RoutesAreTrails
  <2>2. routes[o] = To(o)
    <3> HIDE DEF routes, To, Leads
    <3>1. \A t : t \in routes[o] <=> t \in To(o)
      BY <1>9, <1>10, <2>1
    <3> QED BY <3>1
  <2>3. IsFiniteSet(To(o))
    <3>1. dist[o] \in Nat /\ IsFiniteSet(graph)
      BY <1>4, <1>10, FiniteEdges, FS_Subset DEF GraphOK
    <3>2. IsFiniteSet({t \in Seq(graph) : Len(t) = dist[o]})
      BY <3>1, FiniteOfLength
    <3>3. \A t \in To(o) : t \in Seq(graph) /\ Len(t) = dist[o]
      BY <1>9, <1>10 DEF AnchorTrail, IsTrail
    <3> HIDE DEF To
    <3>4. To(o) \in SUBSET {t \in Seq(graph) : Len(t) = dist[o]}
      BY <3>3
    <3> QED BY <3>2, <3>4, FS_Subset
  <2> QED BY <2>2, <2>3
<1>11. ASSUME NEW o \in others, o \in D
       PROVE  /\ shown[o] \subseteq To(o)
              /\ Cardinality(shown[o]) = Min({MaxRoutes, Cardinality(To(o))})
              /\ \A t \in To(o) : dist[o] = Len(t)
  <2>1. shown[o] \in Least(To(o))
    <3>1. o \in dependents
      BY <1>4, <1>6, <1>11
    <3>2. shown[o] \in Least(routes[o])
      BY <1>1, <3>1
    <3> HIDE DEF To, Least, routes
    <3> QED BY <1>10, <1>11, <3>2
  <2>2. Cardinality(To(o)) \in Nat /\ MaxRoutes \in Nat
    BY <1>10, <1>11, FS_CardinalityType, TraversalAssumption
  <2>3. \A t \in To(o) : dist[o] = Len(t)
    BY <1>9, <1>11
  <2> HIDE DEF To
  <2>4. Min({MaxRoutes, Cardinality(To(o))})
          = IF MaxRoutes <= Cardinality(To(o)) THEN MaxRoutes ELSE Cardinality(To(o))
    BY <2>2, MinOfTwo
  <2>5. CASE Cardinality(To(o)) <= MaxRoutes
    <3>1. shown[o] = To(o)
      BY <2>1, <2>5
    <3>2. Min({MaxRoutes, Cardinality(To(o))}) = Cardinality(To(o))
      BY <2>2, <2>4, <2>5
    <3> QED BY <2>3, <3>1, <3>2
  <2>6. CASE ~(Cardinality(To(o)) <= MaxRoutes)
    <3>1. shown[o] \in SUBSET To(o) /\ Cardinality(shown[o]) = MaxRoutes
      BY <2>1, <2>6 DEF kSubset
    <3>2. Min({MaxRoutes, Cardinality(To(o))}) = MaxRoutes
      BY <2>2, <2>4, <2>6
    <3> QED BY <2>3, <3>1, <3>2
  <2> QED BY <2>5, <2>6
<1>12. \A o \in others : o \in dependents <=> o \in D
  BY <1>4, <1>6
<1>13. \A o \in others : To(o) # {} <=> o \in D
  <2> HIDE DEF To, others
  <2> QED BY <1>8, <1>9
<1>14. \A o \in others : o \in D => [q \in dependents |-> dist[q]][o] = dist[o]
  BY <1>12
<1> HIDE DEF To, others, dependents, dist
<1> QED BY <1>11, <1>12, <1>13, <1>14

(* Where no object leads to two anchors, and no anchor nor the changed     *)
(* object to one, the incoming edges are as many as the objects they come  *)
(* from, and these are among the dependents.                               *)
LEMMA OverviewAddsUp ==
  ASSUME GraphOK, ImpactedOK, ReadOverview
  PROVE  PlainDependentsAddUp'
<1> DEFINE A == search.anchors
           incoming == Incoming(search)
           callers == {e.from : e \in incoming}
           dependents == DOMAIN search.distance
           total == Cardinality(dependents)
           count == Cardinality(incoming)
<1>1. /\ search.phase = "impacted" /\ search.direction = "upstream"
      /\ graph' = graph /\ torn' = torn
  BY DEF ReadOverview
<1>2. CASE search' = [phase |-> "refused"]
  BY <1>2 DEF PlainDependentsAddUp
<1>3. CASE search' = [phase |-> "overview", changed |-> search.changed,
                      anchors |-> A, dependents |-> dependents,
                      direct |-> Cardinality(callers),
                      indirect |-> IF total < count THEN 0 ELSE total - count]
  <2>1. /\ search'.phase = "overview" /\ search'.anchors = A
        /\ search'.changed = search.changed /\ search'.dependents = dependents
        /\ search'.direct = Cardinality(callers)
        /\ search'.indirect = IF total < count THEN 0 ELSE total - count
    BY <1>3
  <2>2. Incoming(search)' = incoming
    BY <1>1, <2>1 DEF Incoming
  <2>3. SUFFICES ASSUME ~torn,
                        \A e, f \in incoming : e.from = f.from => e = f,
                        \A e \in incoming : e.from \notin A \cup {search.changed}
                 PROVE  Cardinality(callers) + (IF total < count THEN 0 ELSE total - count) = total
    <3> HIDE DEF callers, total, count, incoming, dependents
    <3>1. total = Cardinality(dependents)
      BY DEF total
    <3> QED BY <1>1, <2>1, <2>2, <3>1 DEF PlainDependentsAddUp
  <2>4. IsFiniteSet(incoming)
    <3>1. incoming \in SUBSET Edge
      BY DEF GraphOK, Incoming
    <3> QED BY <3>1, FiniteEdges, FS_Subset
  <2>5. Cardinality(callers) = count
    <3> DEFINE f == [e \in incoming |-> e.from]
    <3>1. f \in [incoming -> callers] /\ \A o \in callers : \E e \in incoming : f[e] = o
      OBVIOUS
    <3>2. \A d, e \in incoming : f[d] = f[e] => d = e
      BY <2>3
    <3> HIDE DEF f, callers, incoming
    <3>3. Cardinality(callers) = Cardinality(incoming)
      BY <2>4, <3>1, <3>2, FiniteImage
    <3> QED BY <3>3
  <2>6. /\ search.hops \in Nat \ {0} /\ dependents \in SUBSET Object
        /\ \A o : o \notin A \cup {search.changed} =>
             (o \in dependents <=> Reach(graph, A, "upstream", search.hops, o))
    BY <1>1, <2>3 DEF ImpactedOK
  <2>7. ASSUME NEW e \in incoming
        PROVE  e.from \in dependents
    <3>1. /\ e \in graph /\ e.to \in A
          /\ Here(e, "upstream") = e.to /\ Peer(e, "upstream") = e.from
      BY DEF Incoming, Here, Peer
    <3>2. Reach(graph, A, "upstream", 0, e.to)
      BY <3>1, ReachNone
    <3>3. 0 \in Nat /\ 1 \in Nat /\ 0 + 1 = 1 /\ 1 <= search.hops /\ search.hops \in Nat
      BY <2>6
    <3>4. Reach(graph, A, "upstream", 1, e.from)
      <4>1. \E d \in graph : Reach(graph, A, "upstream", 0, Here(d, "upstream"))
                             /\ Peer(d, "upstream") = e.from
        BY <3>1, <3>2
      <4> HIDE DEF A
      <4>2. Reach(graph, A, "upstream", 0 + 1, e.from)
        BY <3>3, <4>1, ReachNext
      <4> QED BY <3>3, <4>2
    <3>5. Reach(graph, A, "upstream", search.hops, e.from)
      BY <3>3, <3>4, ReachMore
    <3> QED BY <2>3, <2>6, <2>7, <3>5
  <2>8. callers \in SUBSET dependents
    BY <2>7
  <2>9. IsFiniteSet(dependents)
    BY <2>6, FiniteAssumption, FS_Subset
  <2> HIDE DEF callers, dependents, incoming
  <2>10. IsFiniteSet(callers) /\ Cardinality(callers) <= Cardinality(dependents)
    BY <2>8, <2>9, FS_Subset
  <2>11. Cardinality(callers) \in Nat /\ Cardinality(dependents) \in Nat
    BY <2>9, <2>10, FS_CardinalityType
  <2> QED BY <2>5, <2>10, <2>11
<1>4. \/ search' = [phase |-> "refused"]
      \/ search' = [phase |-> "overview", changed |-> search.changed,
                    anchors |-> A, dependents |-> dependents,
                    direct |-> Cardinality(callers),
                    indirect |-> IF total < count THEN 0 ELSE total - count]
  BY DEF ReadOverview
<1> QED BY <1>2, <1>3, <1>4

-----------------------------------------------------------------------------

(* What the rounds of a traversal have come to, and what is made of it, as *)
(* long as the graph stays in place.                                       *)
InPlace ==
  /\ RoundsOK /\ PathsFound
  /\ SpreadOK /\ ImpactedOK /\ ImpactExact
  /\ PlainDependentsAddUp

ExactInv == SearchInv /\ InPlace

LEMMA ExactStart == Init => ExactInv
<1> SUFFICES ASSUME Init PROVE InPlace
  BY SearchStart DEF ExactInv
<1>1. search.phase = "idle"
  BY DEF Init, Idle
<1> QED BY <1>1 DEF InPlace, RoundsOK, PathsFound, SpreadOK, ImpactedOK, ImpactExact,
                    PlainDependentsAddUp


LEMMA ExactStep == ExactInv /\ [Next]_vars => ExactInv'
<1> SUFFICES ASSUME ExactInv, [Next]_vars
             PROVE  InPlace'
  BY SearchStep DEF ExactInv
<1>1. GraphOK /\ PathsOK /\ ImpactOK /\ RoundsOK /\ SpreadOK /\ ImpactedOK
  BY DEF ExactInv, SearchInv, InPlace
<1>2. /\ search'.phase # "paths" => RoundsOK'
      /\ search'.phase # "found" => PathsFound'
      /\ search'.phase # "impact" => SpreadOK'
      /\ search'.phase # "impacted" => ImpactedOK' /\ ImpactExact'
      /\ search'.phase # "overview" => PlainDependentsAddUp'
      /\ torn' => InPlace'
  BY DEF InPlace, RoundsOK, PathsFound, SpreadOK, ImpactedOK, ImpactExact, PlainDependentsAddUp
<1>3. ASSUME NEW hops \in 1 .. MaxHops, StartPaths(hops)
      PROVE  InPlace'
  <2>1. search'.phase = "paths"
    BY <1>3 DEF StartPaths
  <2> QED BY <1>2, <1>3, <2>1, StartRounds DEF InPlace
<1>4. CASE ExpandPaths
  <2>1. search'.phase \in {"paths", "refused"}
    <3>1. search \in PathsRow /\ search.phase = "paths"
      BY <1>1, <1>4 DEF ExpandPaths, PathsOK
    <3>2. search' = [phase |-> "refused"] \/ search'.phase = search.phase
      BY <1>4, <3>1 DEF ExpandPaths, PathsRow
    <3> QED BY <3>1, <3>2
  <2> QED BY <1>1, <1>2, <1>4, <2>1, ExpandRounds DEF InPlace
<1>5. CASE EndPaths
  <2>1. search'.phase = "found"
    BY <1>5 DEF EndPaths
  <2> QED BY <1>1, <1>2, <1>5, <2>1, EndRounds DEF InPlace
<1>6. ASSUME NEW changed \in Object, NEW direction \in Direction,
             NEW hops \in 1 .. MaxHops, StartImpact(changed, direction, hops)
      PROVE  InPlace'
  <2>1. search'.phase \in {"impact", "refused"}
    BY <1>6 DEF StartImpact
  <2>2. hops \in Nat \ {0}
    BY TraversalAssumption
  <2> QED BY <1>2, <1>6, <2>1, <2>2, StartSpread DEF InPlace
<1>7. CASE ExpandImpact
  <2>1. search'.phase \in {"impact", "refused"}
    <3>1. search.phase = "impact" /\ \E D \in SUBSET Object : search \in ImpactRow(D)
      BY <1>1, <1>7 DEF ExpandImpact, ImpactOK
    <3>2. search' = [phase |-> "refused"] \/ search'.phase = search.phase
      BY <1>7, <3>1 DEF ExpandImpact, ImpactRow
    <3> QED BY <3>1, <3>2
  <2> QED BY <1>1, <1>2, <1>7, <2>1, ExpandSpread DEF InPlace
<1>8. CASE EndImpact
  <2>1. search'.phase = "impacted"
    BY <1>8 DEF EndImpact
  <2> QED BY <1>1, <1>2, <1>8, <2>1, EndImpactReached, EndImpactExact DEF InPlace
<1>9. CASE ReadOverview
  <2>1. search'.phase \in {"overview", "refused"}
    BY <1>9 DEF ReadOverview
  <2> QED BY <1>1, <1>2, <1>9, <2>1, OverviewAddsUp DEF InPlace
<1>10. ASSUME NEW g \in Loaded, Load(g)
       PROVE  InPlace'
  <2>1. search' = search /\ (torn' \/ search.phase = "idle")
    BY <1>10 DEF Load
  <2>2. CASE search.phase = "idle"
    BY <1>2, <2>1, <2>2 DEF InPlace
  <2> QED BY <1>2, <2>1, <2>2
<1>11. CASE UNCHANGED vars
  <2>1. graph' = graph /\ search' = search /\ torn' = torn
    BY <1>11 DEF vars
  <2>2. InPlace
    BY DEF ExactInv
  <2>3. RoundsOK' /\ PathsFound'
    BY <2>1, <2>2 DEF InPlace, RoundsOK, PathsFound
  <2>4. SpreadOK' /\ ImpactedOK'
    BY <2>1, <2>2 DEF InPlace, SpreadOK, ImpactedOK
  <2>5. ImpactExact'
    BY <2>1, <2>2 DEF InPlace, ImpactExact, Fallback
  <2>6. PlainDependentsAddUp'
    BY <2>1, <2>2 DEF InPlace, PlainDependentsAddUp, Incoming
  <2> QED BY <2>3, <2>4, <2>5, <2>6 DEF InPlace
<1> QED
  BY <1>3, <1>4, <1>5, <1>6, <1>7, <1>8, <1>9, <1>10, <1>11 DEF Next

LEMMA ExactCorrect == Spec => []ExactInv
<1> QED BY ExactStart, ExactStep, PTL DEF Spec

(* On a graph that stays in place, the paths a search finds are those of   *)
(* the sample adapter that come to every object before the target by a     *)
(* shortest way: none is missed and none is added, and all of the          *)
(* shortest are among them, whatever the graph, its objects and the hops.  *)
THEOREM PathsAreFound == Spec => []PathsFound
<1>1. ExactInv => PathsFound
  BY DEF ExactInv, InPlace
<1> QED BY <1>1, ExactCorrect, PTL

(* On a graph that stays in place, the impact of a change is that of the   *)
(* sample adapter: the same dependents at the same distances, each with    *)
(* the shortest routes to it and as many of them as are reported.          *)
THEOREM ImpactIsExact == Spec => []ImpactExact
<1>1. ExactInv => ImpactExact
  BY DEF ExactInv, InPlace
<1> QED BY <1>1, ExactCorrect, PTL

(* The direct and the indirect dependents of an overview are as many as    *)
(* the impact lists, where no object leads to two anchors and none of      *)
(* these to another.                                                       *)
THEOREM DependentsAreCounted == Spec => []PlainDependentsAddUp
<1>1. ExactInv => PlainDependentsAddUp
  BY DEF ExactInv, InPlace
<1> QED BY <1>1, ExactCorrect, PTL

============================================================================
