------------------------------ MODULE DiningTable ------------------------------
(***************************************************************************)
(* What the dining-philosophers program promises about its forks, with the *)
(* mutexes hidden: a philosopher takes the left fork, then either takes    *)
(* the right one and eats or puts the left one back, and returns both      *)
(* forks in a single step.                                                 *)
(***************************************************************************)
EXTENDS Integers

CONSTANT N  \* number of philosophers, and of forks: 5 in the program (N >= 2)

Seats == 0 .. N - 1

\* The owner of a fork that lies on the table.
Nobody == N

VARIABLES
  holder,  \* holder[f]: the seat whose philosopher has fork f, or Nobody
  eating   \* the seats whose philosopher is eating

tableVars == <<holder, eating>>

RightOf(p) == (p + 1) % N

TableInit ==
  /\ holder = [f \in Seats |-> Nobody]
  /\ eating = {}

TakeLeft(p) ==
  /\ holder[p] = Nobody
  /\ holder' = [holder EXCEPT ![p] = p]
  /\ UNCHANGED eating

TakeRight(p) ==
  /\ holder[p] = p
  /\ holder[RightOf(p)] = Nobody
  /\ holder' = [holder EXCEPT ![RightOf(p)] = p]
  /\ UNCHANGED eating

StartEating(p) ==
  /\ holder[p] = p
  /\ holder[RightOf(p)] = p
  /\ p \notin eating
  /\ eating' = eating \cup {p}
  /\ UNCHANGED holder

StopEating(p) ==
  /\ p \in eating
  /\ eating' = eating \ {p}
  /\ UNCHANGED holder

\* Both forks come back at once: no neighbour sees one without the other
\* unless it looks at only one of them.
ReturnBoth(p) ==
  /\ p \notin eating
  /\ holder[p] = p
  /\ holder[RightOf(p)] = p
  /\ holder' = [holder EXCEPT ![p] = Nobody, ![RightOf(p)] = Nobody]
  /\ UNCHANGED eating

GiveUpLeft(p) ==
  /\ holder[p] = p
  /\ holder[RightOf(p)] # p
  /\ holder' = [holder EXCEPT ![p] = Nobody]
  /\ UNCHANGED eating

TableNext ==
  \E p \in Seats :
     \/ TakeLeft(p)
     \/ TakeRight(p)
     \/ StartEating(p)
     \/ StopEating(p)
     \/ ReturnBoth(p)
     \/ GiveUpLeft(p)

TableSpec == TableInit /\ [][TableNext]_tableVars
================================================================================
