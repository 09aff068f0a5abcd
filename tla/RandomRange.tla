------------------------------- MODULE RandomRange -----------------------------
(***************************************************************************)
(* The random numbers of Project1/Concurrency1/concurrency1.c: a producer  *)
(* draws its waiting time and then the two fields of an item, each a       *)
(* random int brought into a range.  The producer holds the mutex, so that *)
(* no other thread draws at the same time and a call is an operator.       *)
(***************************************************************************)
EXTENDS Integers

CONSTANTS
  IntMin, IntMax,  \* of the C type int
  Draws            \* the ints that rdrand and the Mersenne Twister may give

ASSUME IntAssumption ==
  /\ IntMin \in Int /\ IntMax \in Int
  /\ IntMin < 0 /\ IntMin + IntMax = -1
ASSUME DrawsAssumption == Draws \subseteq IntMin .. IntMax

\* The three callers of generateNumber, and the range that the comment at each
\* promises.
Calls == {"producerVal", "itemFirstVal", "itemSecondVal"}
LB(c) == CASE c = "producerVal" -> 3 [] c = "itemFirstVal" -> 0 [] OTHER -> 2
UB(c) == CASE c = "producerVal" -> 7 [] c = "itemFirstVal" -> 10 [] OTHER -> 9

\* abs of the C library, with two's complement: there is no -IntMin.
abs(n) == IF n < 0 /\ n # IntMin THEN -n ELSE n

\* % of C, which takes the sign of the left operand.
Rem(a, b) == IF a < 0 /\ a % b # 0 THEN (a % b) - b ELSE a % b

\* rdrand may fail, and leaves 0; its carry flag is not looked at.
rdrand == {abs(n) : n \in Draws \cup {0}}

\* genrand_int32, cast to int.
twister == {abs(n) : n \in Draws}

\* Slip: a range that is one too long.
OneTooMany(seed, c) == Rem(seed, UB(c) + 2 - LB(c)) + LB(c)

genNumberWithinRange(seed, c) == Rem(seed, UB(c) + 1 - LB(c)) + LB(c)

\* What a call may compute, with num as it is after the draw; supported is bit 30
\* of ecx: whether the processor has rdrand.
generateNumber(c, supported) ==
  {[num |-> n, result |-> genNumberWithinRange(n, c)] :
     n \in IF supported THEN rdrand ELSE twister}
================================================================================
