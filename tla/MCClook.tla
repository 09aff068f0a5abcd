--------------------------------- MODULE MCClook -------------------------------
(***************************************************************************)
(* Instances of Clook for TLC: disks of four sectors, the last of which    *)
(* an int does not hold.                                                   *)
(***************************************************************************)
EXTENDS Clook

CONSTANTS q1, q2

OneQueue == {q1}
TwoQueues == {q1, q2}
SmallDisk == 0 .. 3

\* In q2 one request is enough to move the head.
ThreeAndOne == [q \in Queues |-> IF q = q1 THEN 3 ELSE 1]

\* int is half as wide as the disk needs, -3 .. 2, and -3 is not a sector when it is
\* converted back.
SmallSpan == 8
NarrowInt == 6
WideInt == 16
================================================================================
