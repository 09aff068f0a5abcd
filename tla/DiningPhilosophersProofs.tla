------------------------ MODULE DiningPhilosophersProofs -----------------------
(***************************************************************************)
(* For every number of philosophers: the flags and the mutexes of          *)
(* DiningPhilosophers stay in step with the program text, neighbours never *)
(* meet, no chain of waiting threads closes, and the threads implement     *)
(* DiningTable.                                                            *)
(***************************************************************************)
EXTENDS DiningPhilosophers, TLAPS

-------------------------------------------------------------------------------
\* The seats in a circle.

\* getRightForkPosition stays on the table and is not one's own seat.
LEMMA RightSeat ==
  ASSUME NEW p \in Philosophers
  PROVE  /\ getRightForkPosition(p) \in Philosophers
         /\ getRightForkPosition(p) # p
  BY PhilosopherCount DEF Philosophers, getRightForkPosition

\* leftOf is the inverse of getRightForkPosition.
LEMMA LeftSeat ==
  ASSUME NEW f \in Philosophers
  PROVE  /\ leftOf(f) \in Philosophers
         /\ getRightForkPosition(leftOf(f)) = f
         /\ leftOf(getRightForkPosition(f)) = f
  <1>1. \A q \in Philosophers :
          getRightForkPosition(q) = IF q = N - 1 THEN 0 ELSE q + 1
    BY PhilosopherCount DEF Philosophers, getRightForkPosition
  <1> QED  BY <1>1, PhilosopherCount DEF Philosophers, leftOf

\* What the proofs need of the seating: each fork is the right fork of one
\* philosopher, another one than the philosopher it is the left fork of.
LEMMA Seating ==
  /\ NoOne \notin Philosophers
  /\ \A p \in Philosophers : /\ getRightForkPosition(p) \in Philosophers
                             /\ getRightForkPosition(p) # p
  /\ \A p, q \in Philosophers :
        getRightForkPosition(p) = getRightForkPosition(q) => p = q
  <1>1. NoOne \notin Philosophers
    BY PhilosopherCount DEF Philosophers, NoOne
  <1>2. \A p, q \in Philosophers :
          getRightForkPosition(p) = getRightForkPosition(q) => p = q
    BY LeftSeat
  <1> QED  BY <1>1, <1>2, RightSeat

-------------------------------------------------------------------------------
\* The inductive invariant.  FlagsAgreeWithOwners is not inductive: a thread
\* between the check of a flag and the write must know that the flag has not
\* changed, which the mutex it holds guarantees.

MutexesHeld ==
  \A p, f \in Philosophers :
     forkLocks[f] = p <=> \/ p = f /\ LocksLeft(p)
                          \/ getRightForkPosition(p) = f /\ LocksRight(p)

ChecksHold ==
  \A p \in Philosophers :
     /\ pc[p] = "takeLeft" => forks[p]
     /\ pc[p] = "takeRight" => forks[getRightForkPosition(p)]

IInv == TypeOK /\ MutexesHeld /\ FlagsAgreeWithOwners /\ ChecksHold

\* All forks on the table, all mutexes free.
LEMMA InitEstablishes == Init => IInv
  BY Seating
  DEF Init, IInv, TypeOK, Labels, MutexesHeld, FlagsAgreeWithOwners, FlagAgrees,
      ChecksHold, HasLeft, HasRight, LocksLeft, LocksRight

\* Each statement of the thread function preserves the invariant.
LEMMA StepPreserves ==
  ASSUME IInv, NEW p \in Philosophers, lifeAsAPhilosopher(p)
  PROVE  IInv'
  <1> USE DEF IInv
  <1>1. CASE Think(p)
    <2> USE <1>1 DEF Think, Goto
    <2>1. TypeOK'
      BY RightSeat DEF TypeOK, Labels, GetLabels, PutLabels, GiveUpLabels
    <2>2. MutexesHeld'
      BY Seating DEF TypeOK, MutexesHeld, LocksLeft, LocksRight
    <2>3. FlagsAgreeWithOwners'
      BY Seating DEF TypeOK, MutexesHeld, ChecksHold, FlagsAgreeWithOwners,
                     FlagAgrees, HasLeft, HasRight, LocksLeft, LocksRight
    <2>4. ChecksHold'
      BY Seating DEF TypeOK, MutexesHeld, ChecksHold, LocksLeft, LocksRight
    <2> QED  BY <2>1, <2>2, <2>3, <2>4 DEF IInv
  <1>2. CASE LockLeft(p)
    <2> USE <1>2 DEF LockLeft, Lock, Goto
    <2>1. TypeOK'
      BY RightSeat DEF TypeOK, Labels, GetLabels, PutLabels, GiveUpLabels
    <2>2. MutexesHeld'
      BY Seating DEF TypeOK, MutexesHeld, LocksLeft, LocksRight
    <2>3. FlagsAgreeWithOwners'
      BY Seating DEF TypeOK, MutexesHeld, ChecksHold, FlagsAgreeWithOwners,
                     FlagAgrees, HasLeft, HasRight, LocksLeft, LocksRight
    <2>4. ChecksHold'
      BY Seating DEF TypeOK, MutexesHeld, ChecksHold, LocksLeft, LocksRight
    <2> QED  BY <2>1, <2>2, <2>3, <2>4 DEF IInv
  <1>3. CASE CheckLeft(p)
    <2> USE <1>3 DEF CheckLeft, Goto, isForkAvailable
    <2>1. TypeOK'
      BY RightSeat DEF TypeOK, Labels, GetLabels, PutLabels, GiveUpLabels
    <2>2. MutexesHeld'
      BY Seating DEF TypeOK, MutexesHeld, LocksLeft, LocksRight
    <2>3. FlagsAgreeWithOwners'
      BY Seating DEF TypeOK, MutexesHeld, ChecksHold, FlagsAgreeWithOwners,
                     FlagAgrees, HasLeft, HasRight, LocksLeft, LocksRight
    <2>4. ChecksHold'
      BY Seating DEF TypeOK, MutexesHeld, ChecksHold, LocksLeft, LocksRight
    <2> QED  BY <2>1, <2>2, <2>3, <2>4 DEF IInv
  <1>4. CASE TakeLeft(p)
    <2> USE <1>4 DEF TakeLeft, SetFork, Goto
    <2>1. TypeOK'
      BY RightSeat DEF TypeOK, Labels, GetLabels, PutLabels, GiveUpLabels
    <2>2. MutexesHeld'
      BY Seating DEF TypeOK, MutexesHeld, LocksLeft, LocksRight
    <2>3. FlagsAgreeWithOwners'
      BY Seating DEF TypeOK, MutexesHeld, ChecksHold, FlagsAgreeWithOwners,
                     FlagAgrees, HasLeft, HasRight, LocksLeft, LocksRight
    <2>4. ChecksHold'
      BY Seating DEF TypeOK, MutexesHeld, ChecksHold, LocksLeft, LocksRight
    <2> QED  BY <2>1, <2>2, <2>3, <2>4 DEF IInv
  <1>5. CASE UnlockLeft(p)
    <2> USE <1>5 DEF UnlockLeft, Unlock, Goto
    <2>1. TypeOK'
      BY RightSeat DEF TypeOK, Labels, GetLabels, PutLabels, GiveUpLabels
    <2>2. MutexesHeld'
      BY Seating DEF TypeOK, MutexesHeld, LocksLeft, LocksRight
    <2>3. FlagsAgreeWithOwners'
      BY Seating DEF TypeOK, MutexesHeld, ChecksHold, FlagsAgreeWithOwners,
                     FlagAgrees, HasLeft, HasRight, LocksLeft, LocksRight
    <2>4. ChecksHold'
      BY Seating DEF TypeOK, MutexesHeld, ChecksHold, LocksLeft, LocksRight
    <2> QED  BY <2>1, <2>2, <2>3, <2>4 DEF IInv
  <1>6. CASE Decline(p)
    <2> USE <1>6 DEF Decline, Unlock, Goto
    <2>1. TypeOK'
      BY RightSeat DEF TypeOK, Labels, GetLabels, PutLabels, GiveUpLabels
    <2>2. MutexesHeld'
      BY Seating DEF TypeOK, MutexesHeld, LocksLeft, LocksRight
    <2>3. FlagsAgreeWithOwners'
      BY Seating DEF TypeOK, MutexesHeld, ChecksHold, FlagsAgreeWithOwners,
                     FlagAgrees, HasLeft, HasRight, LocksLeft, LocksRight
    <2>4. ChecksHold'
      BY Seating DEF TypeOK, MutexesHeld, ChecksHold, LocksLeft, LocksRight
    <2> QED  BY <2>1, <2>2, <2>3, <2>4 DEF IInv
  <1>7. CASE LockRight(p)
    <2> USE <1>7 DEF LockRight, Lock, Goto
    <2>1. TypeOK'
      BY RightSeat DEF TypeOK, Labels, GetLabels, PutLabels, GiveUpLabels
    <2>2. MutexesHeld'
      BY Seating DEF TypeOK, MutexesHeld, LocksLeft, LocksRight
    <2>3. FlagsAgreeWithOwners'
      BY Seating DEF TypeOK, MutexesHeld, ChecksHold, FlagsAgreeWithOwners,
                     FlagAgrees, HasLeft, HasRight, LocksLeft, LocksRight
    <2>4. ChecksHold'
      BY Seating DEF TypeOK, MutexesHeld, ChecksHold, LocksLeft, LocksRight
    <2> QED  BY <2>1, <2>2, <2>3, <2>4 DEF IInv
  <1>8. CASE CheckRight(p)
    <2> USE <1>8 DEF CheckRight, Goto, isForkAvailable
    <2>1. TypeOK'
      BY RightSeat DEF TypeOK, Labels, GetLabels, PutLabels, GiveUpLabels
    <2>2. MutexesHeld'
      BY Seating DEF TypeOK, MutexesHeld, LocksLeft, LocksRight
    <2>3. FlagsAgreeWithOwners'
      BY Seating DEF TypeOK, MutexesHeld, ChecksHold, FlagsAgreeWithOwners,
                     FlagAgrees, HasLeft, HasRight, LocksLeft, LocksRight
    <2>4. ChecksHold'
      BY Seating DEF TypeOK, MutexesHeld, ChecksHold, LocksLeft, LocksRight
    <2> QED  BY <2>1, <2>2, <2>3, <2>4 DEF IInv
  <1>9. CASE TakeRight(p)
    <2> USE <1>9 DEF TakeRight, SetFork, Goto
    <2>1. TypeOK'
      BY RightSeat DEF TypeOK, Labels, GetLabels, PutLabels, GiveUpLabels
    <2>2. MutexesHeld'
      BY Seating DEF TypeOK, MutexesHeld, LocksLeft, LocksRight
    <2>3. FlagsAgreeWithOwners'
      BY Seating DEF TypeOK, MutexesHeld, ChecksHold, FlagsAgreeWithOwners,
                     FlagAgrees, HasLeft, HasRight, LocksLeft, LocksRight
    <2>4. ChecksHold'
      BY Seating DEF TypeOK, MutexesHeld, ChecksHold, LocksLeft, LocksRight
    <2> QED  BY <2>1, <2>2, <2>3, <2>4 DEF IInv
  <1>10. CASE UnlockRight(p)
    <2> USE <1>10 DEF UnlockRight, Unlock, Goto
    <2>1. TypeOK'
      BY RightSeat DEF TypeOK, Labels, GetLabels, PutLabels, GiveUpLabels
    <2>2. MutexesHeld'
      BY Seating DEF TypeOK, MutexesHeld, LocksLeft, LocksRight
    <2>3. FlagsAgreeWithOwners'
      BY Seating DEF TypeOK, MutexesHeld, ChecksHold, FlagsAgreeWithOwners,
                     FlagAgrees, HasLeft, HasRight, LocksLeft, LocksRight
    <2>4. ChecksHold'
      BY Seating DEF TypeOK, MutexesHeld, ChecksHold, LocksLeft, LocksRight
    <2> QED  BY <2>1, <2>2, <2>3, <2>4 DEF IInv
  <1>11. CASE Eat(p)
    <2> USE <1>11 DEF Eat, Goto
    <2>1. TypeOK'
      BY RightSeat DEF TypeOK, Labels, GetLabels, PutLabels, GiveUpLabels
    <2>2. MutexesHeld'
      BY Seating DEF TypeOK, MutexesHeld, LocksLeft, LocksRight
    <2>3. FlagsAgreeWithOwners'
      BY Seating DEF TypeOK, MutexesHeld, ChecksHold, FlagsAgreeWithOwners,
                     FlagAgrees, HasLeft, HasRight, LocksLeft, LocksRight
    <2>4. ChecksHold'
      BY Seating DEF TypeOK, MutexesHeld, ChecksHold, LocksLeft, LocksRight
    <2> QED  BY <2>1, <2>2, <2>3, <2>4 DEF IInv
  <1>12. CASE PutLockLeft(p)
    <2> USE <1>12 DEF PutLockLeft, Lock, Goto
    <2>1. TypeOK'
      BY RightSeat DEF TypeOK, Labels, GetLabels, PutLabels, GiveUpLabels
    <2>2. MutexesHeld'
      BY Seating DEF TypeOK, MutexesHeld, LocksLeft, LocksRight
    <2>3. FlagsAgreeWithOwners'
      BY Seating DEF TypeOK, MutexesHeld, ChecksHold, FlagsAgreeWithOwners,
                     FlagAgrees, HasLeft, HasRight, LocksLeft, LocksRight
    <2>4. ChecksHold'
      BY Seating DEF TypeOK, MutexesHeld, ChecksHold, LocksLeft, LocksRight
    <2> QED  BY <2>1, <2>2, <2>3, <2>4 DEF IInv
  <1>13. CASE PutLockRight(p)
    <2> USE <1>13 DEF PutLockRight, Lock, Goto
    <2>1. TypeOK'
      BY RightSeat DEF TypeOK, Labels, GetLabels, PutLabels, GiveUpLabels
    <2>2. MutexesHeld'
      BY Seating DEF TypeOK, MutexesHeld, LocksLeft, LocksRight
    <2>3. FlagsAgreeWithOwners'
      BY Seating DEF TypeOK, MutexesHeld, ChecksHold, FlagsAgreeWithOwners,
                     FlagAgrees, HasLeft, HasRight, LocksLeft, LocksRight
    <2>4. ChecksHold'
      BY Seating DEF TypeOK, MutexesHeld, ChecksHold, LocksLeft, LocksRight
    <2> QED  BY <2>1, <2>2, <2>3, <2>4 DEF IInv
  <1>14. CASE PutLeft(p)
    <2> USE <1>14 DEF PutLeft, SetFork, Goto
    <2>1. TypeOK'
      BY RightSeat DEF TypeOK, Labels, GetLabels, PutLabels, GiveUpLabels
    <2>2. MutexesHeld'
      BY Seating DEF TypeOK, MutexesHeld, LocksLeft, LocksRight
    <2>3. FlagsAgreeWithOwners'
      BY Seating DEF TypeOK, MutexesHeld, ChecksHold, FlagsAgreeWithOwners,
                     FlagAgrees, HasLeft, HasRight, LocksLeft, LocksRight
    <2>4. ChecksHold'
      BY Seating DEF TypeOK, MutexesHeld, ChecksHold, LocksLeft, LocksRight
    <2> QED  BY <2>1, <2>2, <2>3, <2>4 DEF IInv
  <1>15. CASE PutRight(p)
    <2> USE <1>15 DEF PutRight, SetFork, Goto
    <2>1. TypeOK'
      BY RightSeat DEF TypeOK, Labels, GetLabels, PutLabels, GiveUpLabels
    <2>2. MutexesHeld'
      BY Seating DEF TypeOK, MutexesHeld, LocksLeft, LocksRight
    <2>3. FlagsAgreeWithOwners'
      BY Seating DEF TypeOK, MutexesHeld, ChecksHold, FlagsAgreeWithOwners,
                     FlagAgrees, HasLeft, HasRight, LocksLeft, LocksRight
    <2>4. ChecksHold'
      BY Seating DEF TypeOK, MutexesHeld, ChecksHold, LocksLeft, LocksRight
    <2> QED  BY <2>1, <2>2, <2>3, <2>4 DEF IInv
  <1>16. CASE PutUnlockLeft(p)
    <2> USE <1>16 DEF PutUnlockLeft, Unlock, Goto
    <2>1. TypeOK'
      BY RightSeat DEF TypeOK, Labels, GetLabels, PutLabels, GiveUpLabels
    <2>2. MutexesHeld'
      BY Seating DEF TypeOK, MutexesHeld, LocksLeft, LocksRight
    <2>3. FlagsAgreeWithOwners'
      BY Seating DEF TypeOK, MutexesHeld, ChecksHold, FlagsAgreeWithOwners,
                     FlagAgrees, HasLeft, HasRight, LocksLeft, LocksRight
    <2>4. ChecksHold'
      BY Seating DEF TypeOK, MutexesHeld, ChecksHold, LocksLeft, LocksRight
    <2> QED  BY <2>1, <2>2, <2>3, <2>4 DEF IInv
  <1>17. CASE PutUnlockRight(p)
    <2> USE <1>17 DEF PutUnlockRight, Unlock, Goto
    <2>1. TypeOK'
      BY RightSeat DEF TypeOK, Labels, GetLabels, PutLabels, GiveUpLabels
    <2>2. MutexesHeld'
      BY Seating DEF TypeOK, MutexesHeld, LocksLeft, LocksRight
    <2>3. FlagsAgreeWithOwners'
      BY Seating DEF TypeOK, MutexesHeld, ChecksHold, FlagsAgreeWithOwners,
                     FlagAgrees, HasLeft, HasRight, LocksLeft, LocksRight
    <2>4. ChecksHold'
      BY Seating DEF TypeOK, MutexesHeld, ChecksHold, LocksLeft, LocksRight
    <2> QED  BY <2>1, <2>2, <2>3, <2>4 DEF IInv
  <1>18. CASE GiveUp(p)
    <2> USE <1>18 DEF GiveUp, Unlock, Goto
    <2>1. TypeOK'
      BY RightSeat DEF TypeOK, Labels, GetLabels, PutLabels, GiveUpLabels
    <2>2. MutexesHeld'
      BY Seating DEF TypeOK, MutexesHeld, LocksLeft, LocksRight
    <2>3. FlagsAgreeWithOwners'
      BY Seating DEF TypeOK, MutexesHeld, ChecksHold, FlagsAgreeWithOwners,
                     FlagAgrees, HasLeft, HasRight, LocksLeft, LocksRight
    <2>4. ChecksHold'
      BY Seating DEF TypeOK, MutexesHeld, ChecksHold, LocksLeft, LocksRight
    <2> QED  BY <2>1, <2>2, <2>3, <2>4 DEF IInv
  <1>19. CASE GiveUpLock(p)
    <2> USE <1>19 DEF GiveUpLock, Lock, Goto
    <2>1. TypeOK'
      BY RightSeat DEF TypeOK, Labels, GetLabels, PutLabels, GiveUpLabels
    <2>2. MutexesHeld'
      BY Seating DEF TypeOK, MutexesHeld, LocksLeft, LocksRight
    <2>3. FlagsAgreeWithOwners'
      BY Seating DEF TypeOK, MutexesHeld, ChecksHold, FlagsAgreeWithOwners,
                     FlagAgrees, HasLeft, HasRight, LocksLeft, LocksRight
    <2>4. ChecksHold'
      BY Seating DEF TypeOK, MutexesHeld, ChecksHold, LocksLeft, LocksRight
    <2> QED  BY <2>1, <2>2, <2>3, <2>4 DEF IInv
  <1>20. CASE GiveUpLeft(p)
    <2> USE <1>20 DEF GiveUpLeft, SetFork, Goto
    <2>1. TypeOK'
      BY RightSeat DEF TypeOK, Labels, GetLabels, PutLabels, GiveUpLabels
    <2>2. MutexesHeld'
      BY Seating DEF TypeOK, MutexesHeld, LocksLeft, LocksRight
    <2>3. FlagsAgreeWithOwners'
      BY Seating DEF TypeOK, MutexesHeld, ChecksHold, FlagsAgreeWithOwners,
                     FlagAgrees, HasLeft, HasRight, LocksLeft, LocksRight
    <2>4. ChecksHold'
      BY Seating DEF TypeOK, MutexesHeld, ChecksHold, LocksLeft, LocksRight
    <2> QED  BY <2>1, <2>2, <2>3, <2>4 DEF IInv
  <1>21. CASE GiveUpUnlock(p)
    <2> USE <1>21 DEF GiveUpUnlock, Unlock, Goto
    <2>1. TypeOK'
      BY RightSeat DEF TypeOK, Labels, GetLabels, PutLabels, GiveUpLabels
    <2>2. MutexesHeld'
      BY Seating DEF TypeOK, MutexesHeld, LocksLeft, LocksRight
    <2>3. FlagsAgreeWithOwners'
      BY Seating DEF TypeOK, MutexesHeld, ChecksHold, FlagsAgreeWithOwners,
                     FlagAgrees, HasLeft, HasRight, LocksLeft, LocksRight
    <2>4. ChecksHold'
      BY Seating DEF TypeOK, MutexesHeld, ChecksHold, LocksLeft, LocksRight
    <2> QED  BY <2>1, <2>2, <2>3, <2>4 DEF IInv
  <1> QED
    BY <1>1, <1>2, <1>3, <1>4, <1>5, <1>6, <1>7, <1>8, <1>9, <1>10,
       <1>11, <1>12, <1>13, <1>14, <1>15, <1>16, <1>17, <1>18, <1>19,
       <1>20, <1>21
       DEF lifeAsAPhilosopher, get_forks, put_forks

\* The invariant holds in every reachable state.
THEOREM Invariance == Spec => []IInv
  <1>1. IInv /\ [Next]_vars => IInv'
    <2> SUFFICES ASSUME IInv, [Next]_vars PROVE IInv'
      OBVIOUS
    <2>1. CASE Next  BY <2>1, StepPreserves DEF Next
    <2>2. CASE UNCHANGED vars
      BY <2>2 DEF vars, IInv, TypeOK, MutexesHeld, FlagsAgreeWithOwners,
                  FlagAgrees, ChecksHold, HasLeft, HasRight, LocksLeft, LocksRight
    <2> QED  BY <2>1, <2>2
  <1> QED  BY InitEstablishes, <1>1, PTL DEF Spec

-------------------------------------------------------------------------------
\* Type correctness.
THEOREM TypeCorrect == Spec => []TypeOK
  <1>1. IInv => TypeOK  BY DEF IInv
  <1> QED  BY <1>1, Invariance, PTL

\* A fork is marked taken exactly while one philosopher holds it.
THEOREM FlagsCorrect == Spec => []FlagsAgreeWithOwners
  <1>1. IInv => FlagsAgreeWithOwners  BY DEF IInv
  <1> QED  BY <1>1, Invariance, PTL

\* Neighbours never eat together: who has the right fork has the left one, and
\* the left fork of one is the right fork of the other.
THEOREM NeighboursApart == Spec => []NeighboursDoNotEatTogether
  <1>1. IInv => NeighboursDoNotEatTogether
    BY Seating DEF IInv, FlagsAgreeWithOwners, FlagAgrees, HasLeft, HasRight,
                   NeighboursDoNotEatTogether
  <1> QED  BY <1>1, Invariance, PTL

\* Neighbours are never in put_forks together before the flags are back.
THEOREM PutForksApart == Spec => []PutForksNeverMeet
  <1>1. IInv => PutForksNeverMeet
    BY Seating DEF IInv, FlagsAgreeWithOwners, FlagAgrees, HasLeft, HasRight,
                   PutForksNeverMeet
  <1> QED  BY <1>1, Invariance, PTL

\* No wait-for cycle among the threads: only put_forks waits for a mutex while
\* it holds one, and then the neighbour that holds it is not in put_forks.
THEOREM NoWaitCycle == Spec => []ShortWaits
  <1>1. IInv => ShortWaits
    <2> SUFFICES ASSUME IInv, NEW p \in Philosophers,
                        WaitsFor(p) # NoOne, WaitsFor(WaitsFor(p)) # NoOne
                 PROVE  WaitsFor(WaitsFor(WaitsFor(p))) = NoOne
      BY DEF ShortWaits
    <2> DEFINE q == WaitsFor(p)
               r == WaitsFor(q)
    <2>1. q \in Philosophers
      BY Seating DEF IInv, TypeOK, WaitsFor
    <2>2. pc[q] = "putLockRight"
      BY <2>1, Seating DEF IInv, TypeOK, MutexesHeld, LocksLeft, LocksRight, WaitsFor
    <2>3. r \in Philosophers /\ (LocksLeft(r) \/ LocksRight(r))
      BY <2>1, <2>2, Seating DEF IInv, TypeOK, MutexesHeld, WaitsFor
    <2>4. r = getRightForkPosition(q)
      BY <2>1, <2>2, <2>3, Seating
      DEF IInv, TypeOK, MutexesHeld, LocksLeft, LocksRight, WaitsFor
    <2>5. pc[r] # "putLockRight"
      BY <2>1, <2>2, <2>4 DEF IInv, FlagsAgreeWithOwners, FlagAgrees, HasLeft, HasRight
    <2> QED
      BY <2>3, <2>5 DEF LocksLeft, LocksRight, WaitsFor
  <1> QED  BY <1>1, Invariance, PTL

-------------------------------------------------------------------------------
\* The refinement.

Eaters == {p \in Philosophers : pc[p] = "eat"}

\* The holder of a fork is the one philosopher whose program text has it.
LEMMA HolderIsOwner ==
  ASSUME IInv, NEW p \in Philosophers
  PROVE  /\ ForkHolder[p] = p <=> HasLeft(p)
         /\ ForkHolder[getRightForkPosition(p)] = p <=> HasRight(p)
         /\ forks[p] /\ pc[p] # "putRight" => ForkHolder[p] = NoOne
  <1>1. ForkHolder[p] = IF HasLeft(p) THEN p
                        ELSE IF HasRight(leftOf(p)) THEN leftOf(p) ELSE NoOne
    BY DEF ForkHolder
  <1>2. ForkHolder[getRightForkPosition(p)] =
          IF HasLeft(getRightForkPosition(p)) THEN getRightForkPosition(p)
          ELSE IF HasRight(p) THEN p ELSE NoOne
    BY LeftSeat, Seating DEF ForkHolder
  <1>3. FlagAgrees(p) /\ FlagAgrees(leftOf(p))
    BY LeftSeat DEF IInv, FlagsAgreeWithOwners
  <1>4. leftOf(p) \in Philosophers /\ leftOf(p) # p
    BY LeftSeat, RightSeat
  <1> QED
    BY <1>1, <1>2, <1>3, <1>4, Seating, LeftSeat DEF FlagAgrees

\* A step that changes neither what a thread owns nor whether it eats is not
\* seen at the table.
LEMMA Unseen ==
  ASSUME \A q \in Philosophers : /\ HasLeft(q)' <=> HasLeft(q)
                                 /\ HasRight(q)' <=> HasRight(q)
                                 /\ pc'[q] = "eat" <=> pc[q] = "eat"
  PROVE  UNCHANGED <<ForkHolder, Eaters>>
  <1>1. \A f \in Philosophers : HasRight(leftOf(f))' <=> HasRight(leftOf(f))
    BY LeftSeat
  <1>2. ForkHolder' = ForkHolder
    BY <1>1 DEF ForkHolder
  <1>3. Eaters' = Eaters
    BY DEF Eaters
  <1> QED  BY <1>2, <1>3

\* The statements the table does not see.
Silent(p) ==
  \/ Think(p) \/ LockLeft(p) \/ CheckLeft(p) \/ UnlockLeft(p) \/ Decline(p)
  \/ LockRight(p) \/ CheckRight(p) \/ PutLockLeft(p) \/ PutLockRight(p)
  \/ PutLeft(p) \/ PutUnlockLeft(p) \/ PutUnlockRight(p)
  \/ GiveUp(p) \/ GiveUpLock(p) \/ GiveUpUnlock(p)

\* They leave the owners and the eaters alone.
LEMMA SilentUnseen ==
  ASSUME TypeOK, NEW p \in Philosophers, Silent(p)
  PROVE  UNCHANGED <<ForkHolder, Eaters>>
  <1>1. \A q \in Philosophers : /\ HasLeft(q)' <=> HasLeft(q)
                                /\ HasRight(q)' <=> HasRight(q)
                                /\ pc'[q] = "eat" <=> pc[q] = "eat"
    <2> SUFFICES ASSUME NEW q \in Philosophers
                 PROVE  /\ HasLeft(q)' <=> HasLeft(q)
                        /\ HasRight(q)' <=> HasRight(q)
                        /\ pc'[q] = "eat" <=> pc[q] = "eat"
      OBVIOUS
    <2>1. CASE q # p
      BY <2>1 DEF TypeOK, Silent, Lock, Unlock, SetFork, Goto, HasLeft, HasRight,
                  Think, LockLeft, CheckLeft, UnlockLeft, Decline, LockRight,
                  CheckRight, PutLockLeft, PutLockRight, PutLeft, PutUnlockLeft,
                  PutUnlockRight, GiveUp, GiveUpLock, GiveUpUnlock
    <2>2. CASE q = p
      BY <2>2 DEF TypeOK, Silent, Lock, Unlock, SetFork, Goto, HasLeft, HasRight,
                  Think, LockLeft, CheckLeft, UnlockLeft, Decline, LockRight,
                  CheckRight, PutLockLeft, PutLockRight, PutLeft, PutUnlockLeft,
                  PutUnlockRight, GiveUp, GiveUpLock, GiveUpUnlock
    <2> QED  BY <2>1, <2>2
  <1> QED  BY <1>1, Unseen

\* Every statement is a step of the table or unseen.
LEMMA StepRefines ==
  ASSUME IInv, IInv', NEW p \in Philosophers, lifeAsAPhilosopher(p)
  PROVE  Table!TableNext \/ UNCHANGED <<ForkHolder, Eaters>>
  <1> DEFINE right == getRightForkPosition(p)
  <1>1. /\ Table!Seats = Philosophers
        /\ Table!Nobody = NoOne
        /\ Table!RightOf(p) = right
    BY DEF Table!Seats, Table!Nobody, Table!RightOf, NoOne, Philosophers,
           getRightForkPosition
  <1>2. CASE Silent(p)
    BY <1>2, SilentUnseen DEF IInv
  <1>3. CASE TakeLeft(p)
    <2>1. ForkHolder[p] = NoOne
      BY <1>3, HolderIsOwner DEF IInv, ChecksHold, TakeLeft, SetFork, Goto
    <2>2. ForkHolder' = [ForkHolder EXCEPT ![p] = p]
      BY <1>3, LeftSeat, Seating DEF IInv, TypeOK, ForkHolder, HasLeft,
             HasRight, TakeLeft, SetFork, Goto
    <2>3. Eaters' = Eaters
      BY <1>3 DEF IInv, TypeOK, Eaters, TakeLeft, SetFork, Goto
    <2>4. Table!TakeLeft(p)
      BY <1>1, <2>1, <2>2, <2>3 DEF Table!TakeLeft, Eaters
    <2> QED  BY <1>1, <2>4 DEF Table!TableNext
  <1>4. CASE TakeRight(p)
    <2>1. ForkHolder[p] = p
      BY <1>4, HolderIsOwner DEF HasLeft, TakeRight, SetFork, Goto
    <2>2. ForkHolder[right] = NoOne
      BY <1>4, HolderIsOwner, Seating
      DEF IInv, TypeOK, ChecksHold, MutexesHeld, LocksLeft, LocksRight,
             TakeRight, SetFork, Goto
    <2>3. ForkHolder' = [ForkHolder EXCEPT ![right] = p]
      <3>1. ~ HasLeft(right)
        BY <2>2, Seating DEF ForkHolder
      <3>2. \A q \in Philosophers : /\ HasLeft(q)' <=> HasLeft(q)
                                    /\ HasRight(q)' <=> HasRight(q) \/ q = p
        BY <1>4 DEF IInv, TypeOK, HasLeft, HasRight, TakeRight, SetFork, Goto
      <3> QED  BY <3>1, <3>2, LeftSeat, Seating DEF ForkHolder
    <2>4. Eaters' = Eaters
      BY <1>4 DEF IInv, TypeOK, Eaters, TakeRight, SetFork, Goto
    <2>5. Table!TakeRight(p)
      BY <1>1, <2>1, <2>2, <2>3, <2>4 DEF Table!TakeRight, Eaters
    <2> QED  BY <1>1, <2>5 DEF Table!TableNext
  <1>5. CASE UnlockRight(p)
    <2>1. ForkHolder[p] = p /\ ForkHolder[right] = p
      BY <1>5, HolderIsOwner DEF HasLeft, HasRight, UnlockRight, Unlock, Goto
    <2>2. ForkHolder' = ForkHolder
      BY <1>5, LeftSeat DEF IInv, TypeOK, ForkHolder, HasLeft, HasRight,
             UnlockRight, Unlock, Goto
    <2>3. p \notin Eaters /\ Eaters' = Eaters \cup {p}
      BY <1>5 DEF IInv, TypeOK, Eaters, UnlockRight, Unlock, Goto
    <2>4. Table!StartEating(p)
      BY <1>1, <2>1, <2>2, <2>3 DEF Table!StartEating, Eaters
    <2> QED  BY <1>1, <2>4 DEF Table!TableNext
  <1>6. CASE Eat(p)
    <2>1. ForkHolder' = ForkHolder
      BY <1>6, LeftSeat DEF IInv, TypeOK, ForkHolder, HasLeft, HasRight, Eat, Goto
    <2>2. p \in Eaters /\ Eaters' = Eaters \ {p}
      BY <1>6 DEF IInv, TypeOK, Eaters, Eat, Goto
    <2>3. Table!StopEating(p)
      BY <1>1, <2>1, <2>2 DEF Table!StopEating, Eaters
    <2> QED  BY <1>1, <2>3 DEF Table!TableNext
  <1>7. CASE PutRight(p)
    <2>1. ForkHolder[p] = p /\ ForkHolder[right] = p
      BY <1>7, HolderIsOwner DEF HasLeft, HasRight, PutRight, SetFork, Goto
    <2>2. ForkHolder' = [ForkHolder EXCEPT ![p] = NoOne, ![right] = NoOne]
      <3> SUFFICES ASSUME NEW f \in Philosophers
                   PROVE  ForkHolder'[f] = IF f = p \/ f = right THEN NoOne
                                           ELSE ForkHolder[f]
        BY Seating DEF ForkHolder
      <3>1. \A q \in Philosophers \ {p} : /\ HasLeft(q)' <=> HasLeft(q)
                                          /\ HasRight(q)' <=> HasRight(q)
        BY <1>7 DEF IInv, TypeOK, HasLeft, HasRight, PutRight, SetFork, Goto
      <3>2. ~ HasLeft(p)' /\ ~ HasRight(p)' /\ HasLeft(p) /\ HasRight(p)
        BY <1>7 DEF IInv, TypeOK, HasLeft, HasRight, PutRight, SetFork, Goto
      <3>3. FlagAgrees(p) /\ FlagAgrees(leftOf(p))
        BY LeftSeat DEF IInv, FlagsAgreeWithOwners
      <3>4. /\ ForkHolder[f] = IF HasLeft(f) THEN f ELSE
                               IF HasRight(leftOf(f)) THEN leftOf(f) ELSE NoOne
            /\ ForkHolder'[f] = IF HasLeft(f)' THEN f ELSE
                                IF HasRight(leftOf(f))' THEN leftOf(f) ELSE NoOne
        BY DEF ForkHolder
      <3> QED  BY <3>1, <3>2, <3>3, <3>4, LeftSeat, Seating DEF FlagAgrees
    <2>3. p \notin Eaters /\ Eaters' = Eaters
      BY <1>7 DEF IInv, TypeOK, Eaters, PutRight, SetFork, Goto
    <2>4. Table!ReturnBoth(p)
      BY <1>1, <2>1, <2>2, <2>3 DEF Table!ReturnBoth, Eaters
    <2> QED  BY <1>1, <2>4 DEF Table!TableNext
  <1>8. CASE GiveUpLeft(p)
    <2>1. ForkHolder[p] = p /\ ForkHolder[right] # p
      BY <1>8, HolderIsOwner DEF HasLeft, HasRight, GiveUpLeft, SetFork, Goto
    <2>2. ForkHolder' = [ForkHolder EXCEPT ![p] = NoOne]
      <3>1. ~ HasRight(leftOf(p)) /\ ~ HasRight(p)
        BY <1>8, LeftSeat DEF IInv, FlagsAgreeWithOwners, FlagAgrees, HasLeft,
               HasRight, GiveUpLeft, SetFork, Goto
      <3> QED
        BY <1>8, <3>1, LeftSeat, Seating DEF IInv, TypeOK, ForkHolder, HasLeft,
               HasRight, GiveUpLeft, SetFork, Goto
    <2>3. Eaters' = Eaters
      BY <1>8 DEF IInv, TypeOK, Eaters, GiveUpLeft, SetFork, Goto
    <2>4. Table!GiveUpLeft(p)
      BY <1>1, <2>1, <2>2, <2>3 DEF Table!GiveUpLeft, Eaters
    <2> QED  BY <1>1, <2>4 DEF Table!TableNext
  <1> QED
    BY <1>2, <1>3, <1>4, <1>5, <1>6, <1>7, <1>8
    DEF Silent, lifeAsAPhilosopher, get_forks, put_forks

\* The threads and their mutexes implement the table.
THEOREM Refinement == Spec => ImplementsTable
  <1>1. Init => Table!TableInit
    <2> SUFFICES ASSUME Init PROVE Table!TableInit
      OBVIOUS
    <2>1. Table!Seats = Philosophers /\ Table!Nobody = NoOne
      BY DEF Table!Seats, Table!Nobody, NoOne, Philosophers
    <2>2. \A p \in Philosophers : ~ HasLeft(p) /\ ~ HasRight(p)
      BY DEF Init, HasLeft, HasRight
    <2>3. ForkHolder = [f \in Philosophers |-> NoOne]
      BY <2>2, LeftSeat DEF ForkHolder
    <2>4. {p \in Philosophers : pc[p] = "eat"} = {}
      BY DEF Init
    <2> QED  BY <2>1, <2>3, <2>4 DEF Table!TableInit
  <1>2. IInv /\ IInv' /\ [Next]_vars => [Table!TableNext]_(Table!tableVars)
    <2> SUFFICES ASSUME IInv, IInv', [Next]_vars
                 PROVE  Table!TableNext \/ UNCHANGED <<ForkHolder, Eaters>>
      BY DEF Table!tableVars, Eaters
    <2>1. CASE Next  BY <2>1, StepRefines DEF Next
    <2>2. CASE UNCHANGED vars
      BY <2>2 DEF vars, ForkHolder, Eaters, HasLeft, HasRight
    <2> QED  BY <2>1, <2>2
  <1> QED
    BY <1>1, <1>2, Invariance, PTL DEF Spec, ImplementsTable, Table!TableSpec
================================================================================
