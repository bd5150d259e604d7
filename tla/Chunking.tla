------------------------------ MODULE Chunking ------------------------------
(***************************************************************************)
(* How the text of a document becomes passages.  A text is a sequence of   *)
(* symbols: a word of one token, a wide one of two, a blank, the end of a  *)
(* paragraph, the heading of an article, a page break.  Tokens are counted *)
(* symbol by symbol.  A range <<lo, hi>> is text[lo], ..., text[hi - 1].   *)
(***************************************************************************)
EXTENDS Naturals, Sequences, FiniteSets, SequencesExt, FiniteSetsExt

Symbol == {"word", "wide", "blank", "para", "article", "page"}

Space == {"blank", "para", "page"}

Weight(c) == IF c = "wide" THEN 2 ELSE 1

(* The position of the symbol that each token of a range belongs to.       *)
Offsets(text, r) ==
  FlattenSeq([i \in 1 .. (r[2] - r[1]) |->
                [k \in 1 .. Weight(text[r[1] + i - 1]) |-> r[1] + i - 1]])

TokenCount(text, r) == Len(Offsets(text, r))

Solid(text, r) == \E i \in r[1] .. (r[2] - 1) : text[i] \notin Space

Within(i, r) == r[1] <= i /\ i < r[2]

(***************************************************************************)
(* Windows of limit tokens, each sharing overlap tokens with the one       *)
(* before, up to and with the first that reaches the end.  A window begins *)
(* with the symbol of its first token and ends before that of the token    *)
(* after its last, so a wide symbol is never cut.                          *)
(***************************************************************************)
Windows(text, r, limit, overlap, enough(_, _)) ==
  LET at == Offsets(text, r)
      step == limit - overlap
      Begin(k) == (k - 1) * step
      count == CHOOSE k \in 1 .. Len(at) :
                 /\ enough(Begin(k) + limit, Len(at))
                 /\ \A j \in 1 .. (k - 1) : ~enough(Begin(j) + limit, Len(at))
  IN  IF at = <<>> THEN <<>>
      ELSE [k \in 1 .. count |->
              <<at[Begin(k) + 1],
                IF Begin(k) + limit >= Len(at) THEN r[2] ELSE at[Begin(k) + limit + 1]>>]

TokenWindows_TailLost(text, r, limit, overlap) ==
  Windows(text, r, limit, overlap, LAMBDA end, n : end + 1 >= n)

TokenWindows(text, r, limit, overlap) ==
  Windows(text, r, limit, overlap, LAMBDA end, n : end >= n)

(* The range cut behind every run of the given symbols.                    *)
SplitPreserving(text, r, breaks) ==
  LET cuts == {r[1], r[2]} \cup
                {i \in (r[1] + 1) .. (r[2] - 1) :
                   text[i - 1] \in breaks /\ text[i] \notin breaks}
      Piece(end) == <<Max({i \in cuts : i < end}), end>>
  IN  FlattenSeq([k \in 1 .. (r[2] - r[1]) |->
        IF r[1] + k \in cuts THEN <<Piece(r[1] + k)>> ELSE <<>>])

(* Neighbouring pieces together, as many as the limit allows.              *)
PackRanges(text, pieces, limit) ==
  LET Put(packed, piece) ==
        LET joined == <<Last(packed)[1], piece[2]>> IN
        IF packed = <<>> \/ TokenCount(text, joined) > limit
        THEN Append(packed, piece)
        ELSE Append(Front(packed), joined)
      Upto[n \in 0 .. Len(pieces)] ==
        IF n = 0 THEN <<>> ELSE Put(Upto[n - 1], pieces[n])
  IN  Upto[Len(pieces)]

(* One level: what exceeds the limit is split at the breaks and packed.    *)
RefineLevel(text, limit, ranges, breaks) ==
  FlattenSeq([k \in DOMAIN ranges |->
    IF TokenCount(text, ranges[k]) <= limit THEN <<ranges[k]>>
    ELSE PackRanges(text, SplitPreserving(text, ranges[k], breaks), limit)])

(* What still exceeds it is cut between tokens.                            *)
CutLevel(text, limit, ranges) ==
  FlattenSeq([k \in DOMAIN ranges |->
    IF TokenCount(text, ranges[k]) <= limit THEN <<ranges[k]>>
    ELSE TokenWindows(text, ranges[k], limit, 0)])

(* Blank ranges are left out.                                              *)
KeptLevel(text, ranges) ==
  FlattenSeq([k \in DOMAIN ranges |->
    IF Solid(text, ranges[k]) THEN <<ranges[k]>> ELSE <<>>])

(* By paragraphs, then by blanks (the levels between, sentences and lines, *)
(* work alike), and by tokens.                                             *)
BoundedRanges(text, r, limit) ==
  KeptLevel(text, CutLevel(text, limit,
    RefineLevel(text, limit, RefineLevel(text, limit, <<r>>, {"para"}), Space)))

(***************************************************************************)
(* The text cut at the boundaries of its profile: before an article's      *)
(* heading, behind a page break.  A block carries what was known when it   *)
(* began, and a new page forgets the article.  (The Markdown headings of   *)
(* the default profiles cut a block too and name no article; they are left *)
(* out.)                                                                   *)
(***************************************************************************)
PageAt(text, i, boundaries) ==
  "page" \in boundaries /\ i > 1 /\ text[i - 1] = "page"

HeadingAt(text, i, boundaries) ==
  "article" \in boundaries /\ i <= Len(text) /\ text[i] = "article"

Entered(text, i, boundaries, b) ==
  LET paged == IF PageAt(text, i, boundaries)
               THEN [b EXCEPT !.page = @ + 1, !.article = 0] ELSE b
  IN  IF HeadingAt(text, i, boundaries) THEN [paged EXCEPT !.article = i] ELSE paged

Flushed(text, i, b) ==
  [b EXCEPT !.start = i,
     !.blocks = IF Solid(text, <<b.start, i>>)
                THEN Append(@, [range |-> <<b.start, i>>, article |-> b.article,
                                page |-> b.page])
                ELSE @]

AtBoundary_EnteredFirst(text, i, boundaries, b) ==
  Flushed(text, i, Entered(text, i, boundaries, b))

AtBoundary(text, i, boundaries, b) ==
  Entered(text, i, boundaries, Flushed(text, i, b))

StructuralBlocks(text, boundaries) ==
  LET Visit(b, i) ==
        IF PageAt(text, i, boundaries) \/ HeadingAt(text, i, boundaries)
             \/ i = Len(text) + 1
        THEN AtBoundary(text, i, boundaries, b) ELSE b
      first == [start |-> 1, page |-> 1, article |-> 0, blocks |-> <<>>]
      Upto[i \in 0 .. (Len(text) + 1)] ==
        IF i = 0 THEN first ELSE Visit(Upto[i - 1], i)
  IN  Upto[Len(text) + 1].blocks

(***************************************************************************)
(* A block that fits is one passage; any other is cut into parents, and    *)
(* these into overlapping leaves.  The id of a passage is its document,    *)
(* checksum, range and kind.                                               *)
(***************************************************************************)
Passage(block, r, kind, of, children, threshold) ==
  [range |-> r, kind |-> kind, of |-> of, children |-> children,
   article |-> block.article, threshold |-> threshold]

BuildChunks(text, p) ==
  LET Family(block, r) ==
        LET leaves == TokenWindows(text, r, p.leaf, p.overlap) IN
        <<Passage(block, r, "parent", <<>>, leaves, p.threshold)>> \o
          [k \in DOMAIN leaves |->
             Passage(block, leaves[k], "leaf", r, <<>>, p.threshold)]
      OfBlock(block) ==
        IF TokenCount(text, block.range) <= p.leaf
        THEN <<Passage(block, block.range, "standalone", <<>>, <<>>, p.threshold)>>
        ELSE LET parents == BoundedRanges(text, block.range, p.parent) IN
             FlattenSeq([k \in DOMAIN parents |-> Family(block, parents[k])])
      blocks == StructuralBlocks(text, p.boundaries)
  IN  FlattenSeq([k \in DOMAIN blocks |-> OfBlock(blocks[k])])

Id(x) == <<x.range, x.kind>>

(* The article a symbol stands in: that of the last heading, if no page    *)
(* has begun since.                                                        *)
ArticleOf(text, i, boundaries) ==
  LET headings == {j \in 1 .. i :
        /\ HeadingAt(text, j, boundaries)
        /\ \A k \in (j + 1) .. i : ~PageAt(text, k, boundaries)
        /\ \A k \in (j + 1) .. i : ~HeadingAt(text, k, boundaries)}
  IN  IF headings = {} THEN 0 ELSE CHOOSE j \in headings : TRUE

=============================================================================
