----------------------------- MODULE ProducerNumbers ---------------------------
(***************************************************************************)
(* ProducerConsumer with the random numbers: what a producer draws when it *)
(* makes an item is kept until the item is freed.  The producer holds the  *)
(* mutex, so that no other thread draws in between.                        *)
(***************************************************************************)
EXTENDS ProducerConsumer, RandomRange

VARIABLE drawn  \* for each item that is not freed, the three numbers

nvars == <<vars, drawn>>

NInit == Init /\ drawn = [n \in heap |-> {}]

\* The waiting time, then randomNum and waitTime of the item.
Numbers(w, r, s) == [producerVal |-> w, itemFirstVal |-> r, itemSecondVal |-> s]

createRandomItem(t) ==
  /\ AddRandomItem(t)
  /\ \E supported \in BOOLEAN :
       \E w \in generateNumber("producerVal", supported),
          r \in generateNumber("itemFirstVal", supported),
          s \in generateNumber("itemSecondVal", supported) :
         drawn' = [n \in heap' |-> IF n \in heap THEN drawn[n] ELSE Numbers(w, r, s)]

removeItem(t) ==
  /\ RemoveItem(t)
  /\ drawn' = [n \in heap' |-> drawn[n]]

\* The steps that neither make an item nor free one.
Moves(t) ==
  /\ \/ Lock(t) \/ SpuriousWakeup(t) \/ CondWait(t)
     \/ GetItem(t) \/ CondSignal(t) \/ Unlock(t)
  /\ UNCHANGED drawn

NNext ==
  \/ (MainStep \/ Exited) /\ UNCHANGED drawn
  \/ main # "return" /\ \E t \in Threads : createRandomItem(t) \/ removeItem(t) \/ Moves(t)

NSpec == NInit /\ [][NNext]_nvars
NFairSpec == NSpec /\ Fairness

--------------------------------------------------------------------------------
\* Every number that a producer waits by or puts into an item is in the range of
\* its caller, as the comments there have it ("between 0 and 10", "between 2 and
\* 9", "between 3 and 7"), except the one made of the int whose absolute value
\* is no int; and that one misses the range by less than its length.
OnlyIntMin ==
  \A n \in heap, c \in Calls :
    LET g == drawn[n][c]
    IN  \/ g.result \in LB(c) .. UB(c)
        \/ g.num = IntMin /\ g.result \in 2 * LB(c) - UB(c) .. LB(c) - 1

================================================================================
