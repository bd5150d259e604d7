------------------------ MODULE DependencyTraversal ------------------------
(***************************************************************************)
(* The two bounded traversals of the PL/SQL console over the dependency    *)
(* graph of a project: the paths from one object to another, and the       *)
(* impact of a change of one.  A traversal expands one frontier per round  *)
(* and fetches the edges of a round with a query of its own, so the graph  *)
(* may be loaded anew between two rounds.                                   *)
(*                                                                         *)
(* The console has two adapters.  The one for Neo4j is modelled round by   *)
(* round; the one for the sample corpus holds all edges in memory and      *)
(* enumerates trails, and is the definition the first is compared with.    *)
(***************************************************************************)
EXTENDS Naturals, Sequences, FiniteSets, SequencesExt, FiniteSetsExt

CONSTANTS
  Object,    \* qualified names
  Graph,     \* sets of edges a project may have
  Loaded,    \* those of a later load
  Member,    \* the routines of an object: those of a package, or none
  Source, Target,
  MaxHops,   \* the configured bound on hops
  MaxEdges,  \* the edges one traversal may fetch
  MaxRoutes  \* the routes reported of each dependent

(* Edges of several types between two objects (READS and WRITES of one     *)
(* table) are one.                                                         *)
Edge == [from : Object, to : Object]

ASSUME TraversalAssumption ==
  /\ \A g \in Graph \cup Loaded : g \subseteq Edge
  /\ Member \in [Object -> SUBSET Object]
  /\ Source \in Object /\ Target \in Object /\ Source # Target
  /\ {MaxHops, MaxEdges, MaxRoutes} \subseteq Nat \ {0}

(* A project is a finite corpus.                                           *)
ASSUME FiniteAssumption == IsFiniteSet(Object)

VARIABLES
  graph,   \* the edges of the project
  search,  \* the traversal under way, or its outcome
  torn     \* history: the graph was loaded during the traversal

vars == <<graph, search, torn>>

Direction == {"upstream", "downstream"}

(* Where an edge is fetched from in a direction, and where it leads.       *)
Here(e, direction) == IF direction = "upstream" THEN e.to ELSE e.from
Peer(e, direction) == IF direction = "upstream" THEN e.from ELSE e.to

Idle == [phase |-> "idle"]

------------------------------------------------------------------------------
(* What the adapter for the sample corpus computes.                        *)

(* The trails from an object along edges of the graph that come to no      *)
(* object twice and go on from none of the last ones, up to a length.      *)
Trails(g, from, last, direction, hops) ==
  LET At(t) == IF t = <<>> THEN from ELSE Peer(Last(t), direction)
      Seen(t) == {from} \cup {Peer(t[i], direction) : i \in DOMAIN t}
      Longer(t) == {Append(t, e) : e \in {e \in g : /\ Here(e, direction) = At(t)
                                                    /\ Peer(e, direction) \notin Seen(t)}}
      Upto[n \in 0 .. hops] ==
        IF n = 0 THEN {<<>>}
        ELSE Upto[n - 1] \cup
               UNION {Longer(t) : t \in {t \in Upto[n - 1] : Len(t) = n - 1 /\ At(t) \notin last}}
  IN  Upto[hops] \ {<<>>}

AllPaths(g, hops) ==
  {t \in Trails(g, Source, {Target}, "downstream", hops) : Last(t).to = Target}

(* Trails from the anchors of what changes, and of these the shortest to   *)
(* each object they lead to.                                               *)
AllAnchors(changed) == IF Member[changed] = {} THEN {changed} ELSE Member[changed]

ImpactTrails(g, changed, direction, hops) ==
  UNION {Trails(g, a, {}, direction, hops) : a \in AllAnchors(changed)}

LeadingTo(trails, o, direction) == {t \in trails : Peer(Last(t), direction) = o}

Shortest(trails) == {t \in trails : \A u \in trails : Len(t) <= Len(u)}

------------------------------------------------------------------------------
(* find_paths.                                                             *)

Init ==
  /\ graph \in Graph
  /\ search = Idle
  /\ torn = FALSE

StartPaths(hops) ==
  /\ search.phase = "idle"
  /\ search' = [phase |-> "paths", hops |-> hops, round |-> 0,
                frontier |-> {<<>>}, known |-> {}, found |-> {}]
  /\ UNCHANGED <<graph, torn>>

At(t) == IF t = <<>> THEN Source ELSE Last(t).to

Visited_NotSource(t) == {t[i].to : i \in DOMAIN t}

Visited(t) == {Source} \cup {t[i].to : i \in DOMAIN t}

(* A round fetches at most what the traversal may still fetch, and gives   *)
(* up where there is more.                                                 *)
Remaining == MaxEdges - Cardinality(search.known)

PathRows == {e \in graph : \E t \in search.frontier : At(t) = e.from}

Refused(rows) == Cardinality(search.known) >= MaxEdges \/ Cardinality(rows) > Remaining

(* Only edges that no earlier round has fetched are followed.              *)
Onward(t, rows) ==
  {Append(t, e) : e \in {e \in rows \ search.known :
                          e.from = At(t) /\ e.to \notin Visited(t)}}

Extended_OnePerObject(rows) ==
  LET trails == UNION {Onward(t, rows) : t \in search.frontier}
  IN  {CHOOSE t \in trails : At(t) = o : o \in {At(t) : t \in trails}}

Extended(rows) == UNION {Onward(t, rows) : t \in search.frontier}

ExpandPaths ==
  /\ search.phase = "paths"
  /\ search.round < search.hops /\ search.frontier # {}
  /\ IF Refused(PathRows)
     THEN search' = [phase |-> "refused"]
     ELSE LET extended == Extended(PathRows)
              arrived == {t \in extended : At(t) = Target}
          IN  search' = [search EXCEPT
                 !.round = @ + 1,
                 !.known = @ \cup PathRows,
                 !.found = @ \cup arrived,
                 !.frontier = extended \ arrived]
  /\ UNCHANGED <<graph, torn>>

EndPaths ==
  /\ search.phase = "paths"
  /\ search.round = search.hops \/ search.frontier = {}
  /\ search' = [phase |-> "found", hops |-> search.hops, trails |-> search.found]
  /\ UNCHANGED <<graph, torn>>

------------------------------------------------------------------------------
(* impact_of.                                                              *)

(* A package is anchored at its routines that have edges, if any has.      *)
Anchors(g, changed) ==
  LET members == {m \in Member[changed] : \E e \in g : m \in {e.from, e.to}} IN
  IF members = {} THEN {changed} ELSE members

StartImpact(changed, direction, hops) ==
  /\ search.phase = "idle"
  /\ IF Cardinality({e \in graph : {e.from, e.to} \cap Member[changed] # {}}) > MaxEdges
     THEN search' = [phase |-> "refused"]
     ELSE search' = [phase |-> "impact", changed |-> changed, direction |-> direction,
                     hops |-> hops, round |-> 0, anchors |-> Anchors(graph, changed),
                     frontier |-> Anchors(graph, changed), expanded |-> {}, known |-> {},
                     distance |-> [o \in {} |-> 0], parents |-> [o \in {} |-> {}]]
  /\ UNCHANGED <<graph, torn>>

ImpactKeys == search.frontier \ search.expanded

ImpactRows == {e \in graph : Here(e, search.direction) \in ImpactKeys}

(* An object is reached in the first round that leads to it, and remembers *)
(* every edge of that round that does.                                     *)
Reached(rows) ==
  {Peer(e, search.direction) : e \in {e \in rows : e.from # e.to}}
    \ DOMAIN search.distance

ParentsOf_First(rows, o) ==
  {CHOOSE e \in rows : Peer(e, search.direction) = o /\ e.from # e.to}

ParentsOf(rows, o) == {e \in rows : Peer(e, search.direction) = o /\ e.from # e.to}

ExpandImpact ==
  /\ search.phase = "impact"
  /\ search.round < search.hops /\ ImpactKeys # {}
  /\ IF Refused(ImpactRows)
     THEN search' = [phase |-> "refused"]
     ELSE LET reached == Reached(ImpactRows)
              objects == DOMAIN search.distance \cup reached
              Old(o) == o \in DOMAIN search.distance
          IN  search' = [search EXCEPT
                 !.round = @ + 1,
                 !.expanded = @ \cup ImpactKeys,
                 !.known = @ \cup ImpactRows,
                 !.frontier = reached,
                 !.distance = [o \in objects |-> IF Old(o) THEN @[o] ELSE search.round + 1],
                 !.parents = [o \in objects |-> IF Old(o) THEN @[o]
                                                ELSE ParentsOf(ImpactRows, o)]]
  /\ UNCHANGED <<graph, torn>>

(* The routes to an object, rebuilt from the edges remembered: back from   *)
(* the object to an anchor, here in the order they are walked.             *)
Routes(s) ==
  LET Behind(e, shorter) ==
        LET here == Here(e, s.direction) IN
        IF here \in s.anchors THEN {<<e>>} ELSE {Append(t, e) : t \in shorter[here]}
      Upto[n \in 0 .. s.hops] ==
        IF n = 0 THEN [o \in {} |-> {}]
        ELSE [o \in {p \in DOMAIN s.distance : s.distance[p] <= n} |->
                IF s.distance[o] < n THEN Upto[n - 1][o]
                ELSE UNION {Behind(e, Upto[n - 1]) : e \in s.parents[o]}]
  IN  Upto[s.hops]

(* Of every dependent but what changes, its distance and some routes.      *)
EndImpact ==
  /\ search.phase = "impact"
  /\ search.round = search.hops \/ ImpactKeys = {}
  /\ LET routes == Routes(search)
         dependents == DOMAIN search.distance \ {search.changed}
         Least(S) == IF Cardinality(S) <= MaxRoutes THEN {S} ELSE kSubset(MaxRoutes, S)
     IN  \E shown \in [dependents -> UNION {Least(routes[o]) : o \in dependents}] :
           /\ \A o \in dependents : shown[o] \in Least(routes[o])
           /\ search' = [phase |-> "impacted", changed |-> search.changed,
                         direction |-> search.direction, hops |-> search.hops,
                         anchors |-> search.anchors,
                         distance |-> [o \in dependents |-> search.distance[o]],
                         routes |-> shown]
  /\ UNCHANGED <<graph, torn>>

------------------------------------------------------------------------------
(* overview_of: the dependents of an object, direct and indirect, from its *)
(* impact and from the edges that lead to its anchors, read afterwards.    *)

Incoming_OfPackage(s) == {e \in graph : e.to = s.changed}

Incoming(s) == {e \in graph : e.to \in s.anchors}

ReadOverview ==
  /\ search.phase = "impacted" /\ search.direction = "upstream"
  /\ LET incoming == Incoming(search)
         total == Cardinality(DOMAIN search.distance)
     IN  search' = IF Cardinality(incoming) > MaxEdges
                   THEN [phase |-> "refused"]
                   ELSE [phase |-> "overview", changed |-> search.changed,
                         anchors |-> search.anchors, dependents |-> DOMAIN search.distance,
                         direct |-> Cardinality({e.from : e \in incoming}),
                         indirect |-> IF total < Cardinality(incoming) THEN 0
                                      ELSE total - Cardinality(incoming)]
  /\ UNCHANGED <<graph, torn>>

------------------------------------------------------------------------------

(* The loader, another program, replaces the edges of the project.         *)
Load(g) ==
  /\ graph # g
  /\ graph' = g
  /\ torn' = (torn \/ search.phase # "idle")
  /\ UNCHANGED search

Next ==
  \/ \E hops \in 1 .. MaxHops : StartPaths(hops)
  \/ ExpandPaths
  \/ EndPaths
  \/ \E changed \in Object, direction \in Direction, hops \in 1 .. MaxHops :
       StartImpact(changed, direction, hops)
  \/ ExpandImpact
  \/ EndImpact
  \/ ReadOverview
  \/ \E g \in Loaded : Load(g)

Spec == Init /\ [][Next]_vars

------------------------------------------------------------------------------
(* Properties.                                                             *)

(* A trail each of whose objects it reaches as early as any trail does.    *)
Direct(t, trails) ==
  \A u \in trails : \A i \in DOMAIN t, j \in DOMAIN u : u[j].to = t[i].to => i <= j

(* The paths of a graph that stays in place are paths of the sample        *)
(* adapter, each of them once and all of the shortest among them: exactly   *)
(* those that come to every object before the last by a shortest way.      *)
PathsFound ==
  search.phase = "found" /\ ~torn =>
    LET all == AllPaths(graph, search.hops)
        walked == Trails(graph, Source, {Target}, "downstream", search.hops)
    IN  /\ search.trails = {t \in all : Direct(Front(t), walked)}
        /\ Shortest(all) \subseteq search.trails

(* Even when the graph is loaded between two rounds, a path goes from the  *)
(* source to the target through no object twice, and is no longer than     *)
(* allowed; a route of an impact leads from an anchor to the dependent in  *)
(* as many steps as the distance says.                                     *)
Joined(t, from, to, direction) ==
  /\ Here(t[1], direction) = from /\ Peer(Last(t), direction) = to
  /\ \A i \in 1 .. (Len(t) - 1) : Peer(t[i], direction) = Here(t[i + 1], direction)

TrailsHold ==
  /\ search.phase = "found" =>
       \A t \in search.trails :
         /\ Joined(t, Source, Target, "downstream") /\ Len(t) <= search.hops
         /\ \A i, j \in DOMAIN t : t[i].to # Source /\ (t[i].to = t[j].to => i = j)
  /\ search.phase = "impacted" =>
       \A o \in DOMAIN search.distance :
         /\ search.routes[o] # {}
         /\ \A t \in search.routes[o] :
              /\ Len(t) = search.distance[o]
              /\ \E a \in search.anchors : Joined(t, a, o, search.direction)

(* The impact of a change is that of the sample adapter: the same          *)
(* dependents at the same distances, and the shortest routes to each, as   *)
(* many of them as are reported.  Left aside are a package and its         *)
(* routines among its own dependents, and a package none of whose routines *)
(* has an edge, which the adapters treat differently.                      *)
Fallback == Member[search.changed] # {} /\ search.anchors = {search.changed}

ImpactExact ==
  search.phase = "impacted" /\ ~torn /\ ~Fallback =>
    LET trails == ImpactTrails(graph, search.changed, search.direction, search.hops)
        To(o) == Shortest(LeadingTo(trails, o, search.direction))
        others == Object \ ({search.changed} \cup Member[search.changed])
        dependents == {o \in others : To(o) # {}}
    IN  /\ others \cap DOMAIN search.distance = dependents
        /\ \A o \in dependents :
             /\ search.routes[o] \subseteq To(o)
             /\ Cardinality(search.routes[o]) = Min({MaxRoutes, Cardinality(To(o))})
             /\ \A t \in To(o) : search.distance[o] = Len(t)

(* The direct and the indirect dependents of the overview are as many as   *)
(* the impact lists, provided that no object leads to two of the anchors   *)
(* and none of these to another, for the edges are counted where objects   *)
(* are meant.                                                              *)
PlainDependentsAddUp ==
  search.phase = "overview" /\ ~torn =>
    LET incoming == Incoming(search)
    IN  /\ \A e, f \in incoming : e.from = f.from => e = f
        /\ \A e \in incoming : e.from \notin search.anchors \cup {search.changed}
        => search.direct + search.indirect = Cardinality(search.dependents)

==============================================================================
