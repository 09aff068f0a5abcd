--------------------------------- MODULE MCSlob --------------------------------
(***************************************************************************)
(* An instance of Slob for TLC: pages of five units of two bytes.          *)
(***************************************************************************)
EXTENDS Slob

CONSTANTS p1, p2, t1, t2, c1, c2, c3

TwoPages == {p1, p2}
TwoThreads == {t1, t2}

\* With the header, three units; and what takes a whole page.
FewSizes == {4, PAGE_SIZE - 1}

\* A cache of single units, an RCU cache of two units with its footer, aligned
\* to two units, and one of whole pages.
MCCaches == {c1, c2, c3}
MCRcuCaches == {c2}
MCObjectSize == [c \in MCCaches |-> IF c = c3 THEN PAGE_SIZE ELSE 2]
MCCacheAlign == [c \in MCCaches |-> IF c = c2 THEN 4 ELSE 0]

Symmetric == Permutations(TwoPages) \cup Permutations(TwoThreads)
================================================================================
