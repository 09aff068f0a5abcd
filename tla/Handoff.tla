-------------------------------- MODULE Handoff --------------------------------
(***************************************************************************)
(* What a producer-consumer program promises when it runs one producer and *)
(* one consumer per loop: the items are made in order, and the next is not *)
(* made until the last one has been eaten.                                 *)
(***************************************************************************)
EXTENDS Naturals

CONSTANT Loops  \* items to hand over

VARIABLES made, eaten

handoffVars == <<made, eaten>>

Init == made = {} /\ eaten = {}

Make(n) == /\ n \in 1 .. Loops
           /\ made = 1 .. n - 1
           /\ eaten = made
           /\ made' = 1 .. n
           /\ UNCHANGED eaten

Eat(n) == /\ made \ eaten = {n}
          /\ eaten' = eaten \cup {n}
          /\ UNCHANGED made

Next == \E n \in 1 .. Loops : Make(n) \/ Eat(n)

Spec == Init /\ [][Next]_handoffVars
================================================================================
