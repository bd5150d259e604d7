-------------------------- MODULE MCSourceRetrieval --------------------------
(* Instances of SourceRetrieval for TLC: every text of up to five symbols,  *)
(* under a profile that knows articles and one that does not, whose windows *)
(* step by less than a wide symbol.                                         *)
EXTENDS SourceRetrieval

Symbols == {"word", "wide", "para", "article", "page"}

ShortTexts == UNION {[1 .. n -> Symbols] : n \in 1 .. 5}

Legal == [boundaries |-> {"article", "page"}, leaf |-> 3, parent |-> 4,
          overlap |-> 1, threshold |-> <<1, 2>>]

Generic == [boundaries |-> {"page"}, leaf |-> 2, parent |-> 4,
            overlap |-> 1, threshold |-> <<1, 2>>]

TwoProfiles == {Legal, Generic}
==============================================================================
