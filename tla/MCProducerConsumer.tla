--------------------------- MODULE MCProducerConsumer --------------------------
(***************************************************************************)
(* An instance of ProducerConsumer for TLC, with the numbers it draws.     *)
(***************************************************************************)
EXTENDS ProducerNumbers

\* A 32-bit int.
MaxInt32 == 2147483647
MinInt32 == -MaxInt32 - 1

\* The least int and its neighbour, and numbers around the lengths of the ranges:
\* 5, 8 and 11.
SomeDraws == {MinInt32, MinInt32 + 1, -10, -5, 0, 7}
================================================================================
