-------------------------- MODULE MCReaderSession --------------------------
(* A small reading for TLC: two pages, one with a word that comes twice, and *)
(* a transcript that skips the first word.                                  *)
EXTENDS ReaderSession

PageText == [p1 |-> <<"sea", "moon", "sea">>, p2 |-> <<"sea">>]
Pages == DOMAIN PageText
Heard == {<<"sea">>, <<"moon", "sea">>}

(* The walk over the table returns the earliest longest alignment of every  *)
(* two texts of up to four words.                                          *)
ShortTexts == UNION {[1 .. n -> {"sea", "moon"}] : n \in 1 .. 4}
ASSUME WalkIsEarliest ==
  \A page, spoken \in ShortTexts : Matches(page, spoken) = EarliestLongest(page, spoken)
============================================================================
