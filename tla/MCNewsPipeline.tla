--------------------------- MODULE MCNewsPipeline ---------------------------
(* One or two editors type two notices.                                     *)
EXTENDS NewsPipeline, TLC

CONSTANTS p, q, a, b, c1, c2

\* Two editors and one number of the clock for both: the second notice finds
\* its id taken in the directory.
MCTwo == {p, q}
MCSameId == {1}

\* One editor, one notice, and everything that may go wrong on its way.
MCOne == {p}
MCOneItem == {a}

\* Two numbers of the clock.
MCIds == {1, 2}

MCItems == {a, b}
MCConns == {c1, c2}
MCCuts == {"tiny", "broken"}

MCSymmetry ==
  Permutations(MCTwo) \cup Permutations(MCItems) \cup Permutations(MCConns)

\* With one editor and one notice.
MCSymmetryOne == Permutations(MCConns)

=============================================================================
