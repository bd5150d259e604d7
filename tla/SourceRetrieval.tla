--------------------------- MODULE SourceRetrieval ---------------------------
(***************************************************************************)
(* One question's search of the source index of one graph version: leaves  *)
(* are searched within a scope, then the parents of those that matched are *)
(* read, and leaves of which enough matched give way to their parent.  The *)
(* two readings are transactions of their own, and an ingestion with other *)
(* profiles may rebuild the passages of the version between them.          *)
(***************************************************************************)
EXTENDS Chunking

CONSTANTS
  Text,     \* the texts a document may have
  Profile,  \* document profiles
  TopK      \* how many matches are taken

(* What a profile is checked for when the configuration is read.           *)
ASSUME RetrievalAssumption ==
  /\ Text \subseteq Seq(Symbol)
  /\ \A p \in Profile :
       /\ {p.leaf, p.parent, p.overlap} \subseteq Nat
       /\ p.overlap < p.leaf /\ p.leaf < p.parent
       /\ p.boundaries \subseteq {"article", "page"}
  /\ TopK \in Nat \ {0}

VARIABLES
  text,     \* the document
  profile,  \* the profile its passages were made with
  index,    \* the passages of the version
  query,    \* what the retriever has read
  raced     \* history: rebuilt since the search

vars == <<text, profile, index, query, raced>>

(* An article is named by the place of its heading; no articles, no limit. *)
Scope == SUBSET {i \in DOMAIN text : text[i] = "article"}

NoQuery == [phase |-> "idle", articles |-> {}, found |-> {}, result |-> {}]

IsLeaf(x) == x.children = <<>>

(* search: leaves of the version, in the scope.                            *)
InScope(x, articles) == articles # {} => x.article \in articles

Candidates(articles) == {x \in index : IsLeaf(x) /\ InScope(x, articles)}

Standalone(found) == {x \in found : x.kind = "standalone"}

Hierarchical(found) == found \ Standalone(found)

(* parents: rows that are not leaves, by the ids the leaves carry.         *)
Parents(found) == {y \in index : ~IsLeaf(y) /\ \E x \in found : x.of = y.range}

(* AutoMergingRetriever: a parent takes the place of its matches when they *)
(* are more than the threshold's share of its children.                    *)
AutoMerged(group, parents, threshold) ==
  LET Of(y) == {x \in group : x.of = y.range}
      Enough(y) == Cardinality(Of(y)) * threshold[2] > Len(y.children) * threshold[1]
  IN  UNION {IF Enough(y) THEN {y} ELSE Of(y) : y \in {z \in parents : Of(z) # {}}}

(* Leaves without a parent stay, the others are merged threshold by        *)
(* threshold.                                                              *)
Resolved(found, parents) ==
  {x \in Hierarchical(found) : \E y \in parents : x.of = y.range}

Combined_KeepingLeaves(found, parents) ==
  found \cup UNION {AutoMerged(Resolved(found, parents), parents, t) :
                      t \in {x.threshold : x \in found}}

Combined(found, parents) ==
  LET resolved == Resolved(found, parents)
      Sharing(t) == {x \in resolved : x.threshold = t}
  IN  (found \ resolved)
        \cup UNION {AutoMerged(Sharing(t), parents, t) : t \in {x.threshold : x \in resolved}}

------------------------------------------------------------------------------

Init ==
  /\ text \in Text
  /\ profile \in Profile
  /\ index = {}
  /\ query = NoQuery
  /\ raced = FALSE

(* The primary key.  Where windows step by less than a wide symbol, two    *)
(* leaves may be the same range.                                           *)
IdsDiffer(chunks) ==
  \A j, k \in DOMAIN chunks : Id(chunks[j]) = Id(chunks[k]) => j = k

(* rebuild_version: one transaction, all passages of the version.  Rows    *)
(* with one id are refused, and the passages stay as they were.            *)
RebuildVersion(p) ==
  LET chunks == BuildChunks(text, p)
  IN  /\ IF IdsDiffer(chunks)
         THEN /\ profile' = p
              /\ index' = ToSet(chunks)
              /\ raced' = (raced \/ query.phase # "idle")
         ELSE UNCHANGED <<profile, index, raced>>
      /\ UNCHANGED <<text, query>>

(* The ranking is anything: TopK of the candidates.                        *)
Search(articles) ==
  /\ query.phase = "idle"
  /\ \E found \in SUBSET Candidates(articles) :
       /\ Cardinality(found) <= TopK
       /\ query' =
            [phase |-> IF Hierarchical(found) = {} THEN "done" ELSE "searched",
             articles |-> articles, found |-> found,
             result |-> IF Hierarchical(found) = {} THEN found ELSE {}]
  /\ UNCHANGED <<text, profile, index, raced>>

ReadParents ==
  /\ query.phase = "searched"
  /\ query' = [query EXCEPT !.phase = "done",
                            !.result = Combined(query.found, Parents(query.found))]
  /\ UNCHANGED <<text, profile, index, raced>>

Next ==
  \/ \E p \in Profile : RebuildVersion(p)
  \/ \E articles \in Scope : Search(articles)
  \/ ReadParents

Spec == Init /\ [][Next]_vars

------------------------------------------------------------------------------
(* Properties.                                                             *)

(* The passages of a version cover its document: whatever the lengths of   *)
(* paragraphs, words and pages, every symbol that is not blank stands in   *)
(* exactly one parent or single passage and in at least one leaf, leaves   *)
(* stay in their parents, and none exceeds its limit by more than the      *)
(* symbol that is not cut.  A profile whose windows step by at least the   *)
(* widest symbol makes passages with ids of their own out of any document. *)
ChunksCover ==
  LET chunks == BuildChunks(text, profile)
      Roots(i) == {k \in DOMAIN chunks : chunks[k].kind # "leaf" /\ Within(i, chunks[k].range)}
  IN  /\ profile.leaf >= profile.overlap + Weight("wide") => IdsDiffer(chunks)
      /\ index # {} =>
           /\ \A i \in DOMAIN text : text[i] \notin Space =>
                /\ Cardinality(Roots(i)) = 1
                /\ \E x \in index : IsLeaf(x) /\ Within(i, x.range)
           /\ \A x \in index :
                /\ x.kind = "leaf" =>
                     \E y \in index : /\ y.range = x.of /\ x.range \in ToSet(y.children)
                                      /\ y.range[1] <= x.range[1] /\ x.range[2] <= y.range[2]
                /\ TokenCount(text, x.range)
                     <= 1 + (IF x.kind = "parent" THEN profile.parent ELSE profile.leaf)

(* What a question gets back lies in the articles it was scoped to, parents *)
(* included, symbol by symbol, unless the version was rebuilt since.        *)
ScopeKept ==
  query.articles # {} /\ ~raced =>
    \A x \in query.result : \A i \in DOMAIN text :
      Within(i, x.range) /\ text[i] \notin Space =>
        ArticleOf(text, i, profile.boundaries) \in query.articles

(* Merging loses no match and doubles none, even when the version is       *)
(* rebuilt in between: every leaf that was found is part of the result, or *)
(* its parent is, never both, and the result is no longer than asked for.  *)
MatchesKept ==
  query.phase = "done" =>
    /\ \A x \in query.found :
         \/ x \in query.result
         \/ \E y \in query.result : y.kind = "parent" /\ y.range = x.of
    /\ \A x, y \in query.result : ~(x.kind = "leaf" /\ y.kind = "parent" /\ x.of = y.range)
    /\ Cardinality(query.result) <= TopK

==============================================================================
