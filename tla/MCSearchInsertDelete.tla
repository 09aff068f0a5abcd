-------------------------- MODULE MCSearchInsertDelete -------------------------
(***************************************************************************)
(* Instances of SearchInsertDelete for TLC.                                *)
(***************************************************************************)
EXTENDS SearchInsertDelete, TLC

CONSTANTS s1, s2, i1, i2, d1, d2, n1, n2, n3, n4, Null, Astray

OneSearcher == {s1}
TwoSearchers == {s1, s2}
OneInserter == {i1}
TwoInserters == {i1, i2}
OneDeleter == {d1}
TwoDeleters == {d1, d2}
TwoNodes == {n1, n2}
ThreeNodes == {n1, n2, n3}
FourNodes == {n1, n2, n3, n4}
OneValue == {0}
TwoValues == {0, 1}

\* What is neither zero nor of the list.
Uncleared == {Astray}

Symmetric ==
  Permutations(Searchers) \cup Permutations(Inserters) \cup Permutations(Deleters)
    \cup Permutations(Nodes)
================================================================================
