-------------------------- MODULE ReaderAlignment --------------------------
(***************************************************************************)
(* Alignment of a speech transcript with the words of a trusted page       *)
(* (reader.py).  Pages and transcripts are sequences of words; positions   *)
(* count from 1 and 0 stands for "no word reached yet".  Which spoken word *)
(* met a page word only serves to interpolate a timestamp and is left out. *)
(***************************************************************************)
EXTENDS Integers, Sequences, SequencesExt, FiniteSetsExt

(* lengths[i][j] of the code: how many words of page from i on can be met, *)
(* in order, by the transcript from j on.  A row follows from the one      *)
(* below it.                                                               *)
LengthsRow(page, spoken, i, below) ==
  LET R[j \in 1 .. Len(spoken) + 1] ==
        IF j > Len(spoken) THEN 0
        ELSE IF page[i] = spoken[j] THEN below[j + 1] + 1
        ELSE Max({below[j], R[j + 1]})
  IN R

Lengths(page, spoken) ==
  LET L[i \in 1 .. Len(page) + 1] ==
        IF i > Len(page) THEN [j \in 1 .. Len(spoken) + 1 |-> 0]
        ELSE LengthsRow(page, spoken, i, L[i + 1])
  IN L

(* One round of the walk over both sequences from their beginning, w being  *)
(* where it stands and the page positions met so far: a page word is        *)
(* skipped only when that is strictly better.                              *)
MatchStep(page, spoken, L, w) ==
  IF w.i > Len(page) \/ w.j > Len(spoken) THEN w
  ELSE IF page[w.i] = spoken[w.j]
  THEN [i |-> w.i + 1, j |-> w.j + 1, met |-> Append(w.met, w.i)]
  ELSE IF L[w.i + 1][w.j] > L[w.i][w.j + 1] THEN [w EXCEPT !.i = @ + 1]
  ELSE [w EXCEPT !.j = @ + 1]

Matches(page, spoken) ==
  LET L == Lengths(page, spoken)
      Walk[n \in 0 .. Len(page) + Len(spoken)] ==
        IF n = 0 THEN [i |-> 1, j |-> 1, met |-> <<>>]
        ELSE MatchStep(page, spoken, L, Walk[n - 1])
  IN Walk[Len(page) + Len(spoken)].met

(* The positions met beyond the word reached.                              *)
Beyond(reached, met) ==
  LET B[k \in 0 .. Len(met)] ==
        IF k = 0 THEN <<>>
        ELSE IF met[k] > reached THEN Append(B[k - 1], met[k]) ELSE B[k - 1]
  IN B[Len(met)]

(* Fault: positions on the rest of the page are taken for positions on it. *)
NewlyReachedUnshifted(page, spoken, reached, mode) ==
  Beyond(reached, IF mode = "cumulative" THEN Matches(page, spoken)
                  ELSE Matches(SubSeq(page, reached + 1, Len(page)), spoken))

(* The words a transcript newly reaches: a cumulative hypothesis is set    *)
(* against the whole page, a partial one against what is left of it.       *)
NewlyReached(page, spoken, reached, mode) ==
  LET met == IF mode = "cumulative" THEN Matches(page, spoken)
             ELSE LET rest == Matches(SubSeq(page, reached + 1, Len(page)), spoken)
                  IN [k \in DOMAIN rest |-> rest[k] + reached]
  IN Beyond(reached, met)

-----------------------------------------------------------------------------
(* Reference definition: where the words of a longest common subsequence  *)
(* stand, and of those places the ones that come first on the page.        *)
InOrder(n, length) ==
  {p \in [1 .. n -> 1 .. length] : \A j, k \in 1 .. n : j < k => p[j] < p[k]}

Common(page, spoken, n) ==
  {p \in InOrder(n, Len(page)) :
     \E s \in InOrder(n, Len(spoken)) : \A k \in 1 .. n : page[p[k]] = spoken[s[k]]}

Longest(page, spoken) ==
  Common(page, spoken, Max({n \in 0 .. Len(page) : Common(page, spoken, n) # {}}))

ComesFirst(p, q) ==
  \/ p = q
  \/ \E k \in DOMAIN p : p[k] < q[k] /\ \A m \in 1 .. k - 1 : p[m] = q[m]

EarliestLongest(page, spoken) ==
  CHOOSE met \in Longest(page, spoken) :
    \A other \in Longest(page, spoken) : ComesFirst(met, other)
============================================================================
