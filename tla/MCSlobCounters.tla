----------------------------- MODULE MCSlobCounters ----------------------------
(***************************************************************************)
(* Instances of SlobCounters for TLC: one thread on pages of five units of *)
(* two bytes, two threads on pages of three.                               *)
(***************************************************************************)
EXTENDS SlobCounters

CONSTANTS p1, p2, t1, t2, c1, c2, c3

TwoPages == {p1, p2}
OneThread == {t1}
TwoThreads == {t1, t2}

\* With the header, two units; or three and four; and what takes a whole page.
SmallSizes == {2, PAGE_SIZE - 1}
MoreSizes == {4, 5, PAGE_SIZE - 1}

\* As in MCSlob: single units, RCU and aligned, whole pages.
MCCaches == {c1, c2, c3}
MCRcuCaches == {c2}
MCObjectSize == [c \in MCCaches |-> IF c = c3 THEN PAGE_SIZE ELSE 2]
MCCacheAlign == [c \in MCCaches |-> IF c = c2 THEN 4 ELSE 0]

NoGarbage == {0}

Symmetric == Permutations(TwoPages)
================================================================================
