--------------------------- MODULE DiningPhilosophers --------------------------
(***************************************************************************)
(* Project2/tarball/diningPhilosophers.c: one thread per philosopher, a    *)
(* boolean per fork and a mutex per boolean.  A label of pc names the      *)
(* statement the thread executes next, so that every access to forks[] and *)
(* every mutex operation is a step of its own and other threads run in     *)
(* between.                                                                *)
(***************************************************************************)
EXTENDS Integers

CONSTANT N  \* the 5 of the source: forks, mutexes and threads

ASSUME PhilosopherCount == N \in Nat /\ N >= 2

Philosophers == 0 .. N - 1

\* forkLocks[f] = NoOne: the mutex is free.
NoOne == N

VARIABLES
  forks,      \* forks[f]: TRUE while fork f may be taken
  forkLocks,  \* forkLocks[f]: the thread that holds the mutex of fork f
  pc          \* pc[p]: the next statement of philosopher p

vars == <<forks, forkLocks, pc>>

getRightForkPosition(p) == (p + 1) % N
isForkAvailable(f) == forks[f]

\* Labels of get_forks up to the right fork, of put_forks, of giving up.
GetLabels == {"lockLeft", "checkLeft", "takeLeft", "unlockLeft", "decline",
              "lockRight", "checkRight", "takeRight", "unlockRight"}
PutLabels == {"putLockLeft", "putLockRight", "putLeft", "putRight",
              "putUnlockLeft", "putUnlockRight"}
GiveUpLabels == {"giveUp", "giveUpLock", "giveUpLeft", "giveUpUnlock"}
Labels == {"think", "eat"} \cup GetLabels \cup PutLabels \cup GiveUpLabels

Init ==
  /\ forks = [f \in Philosophers |-> TRUE]
  /\ forkLocks = [f \in Philosophers |-> NoOne]
  /\ pc = [p \in Philosophers |-> "think"]

Goto(p, from, to) == pc[p] = from /\ pc' = [pc EXCEPT ![p] = to]

Lock(p, f, from, to) ==
  /\ forkLocks[f] = NoOne
  /\ forkLocks' = [forkLocks EXCEPT ![f] = p]
  /\ Goto(p, from, to)
  /\ UNCHANGED forks

\* A slip: the mutex is stamped with a number no thread has.
UnlockMinusOne(p, f, from, to) ==
  /\ forkLocks' = [forkLocks EXCEPT ![f] = -1]
  /\ Goto(p, from, to)
  /\ UNCHANGED forks

Unlock(p, f, from, to) ==
  /\ forkLocks' = [forkLocks EXCEPT ![f] = NoOne]
  /\ Goto(p, from, to)
  /\ UNCHANGED forks

SetFork(p, f, value, from, to) ==
  /\ forks' = [forks EXCEPT ![f] = value]
  /\ Goto(p, from, to)
  /\ UNCHANGED forkLocks

\* Slips one could make in get_forks and put_forks; the properties below catch
\* each of them.  A mutex that is not taken, or not given back:
LockRightForgotten(p) ==
  Goto(p, "lockRight", "checkRight") /\ UNCHANGED <<forks, forkLocks>>
PutLockLeftForgotten(p) ==
  Goto(p, "putLockLeft", "putLockRight") /\ UNCHANGED <<forks, forkLocks>>
UnlockLeftForgotten(p) ==
  Goto(p, "unlockLeft", "lockRight") /\ UNCHANGED <<forks, forkLocks>>
\* a flag that is not looked at, or not set:
CheckRightIgnored(p) ==
  Goto(p, "checkRight", "takeRight") /\ UNCHANGED <<forks, forkLocks>>
GiveUpLeftForgotten(p) ==
  Goto(p, "giveUpLeft", "giveUpUnlock") /\ UNCHANGED <<forks, forkLocks>>
\* a busy wait for the left fork:
DeclineRetries(p) == Unlock(p, p, "decline", "lockLeft")

Think(p) == Goto(p, "think", "lockLeft") /\ UNCHANGED <<forks, forkLocks>>

LockLeft(p) == Lock(p, p, "lockLeft", "checkLeft")

CheckLeft(p) ==
  /\ Goto(p, "checkLeft", IF isForkAvailable(p) THEN "takeLeft" ELSE "decline")
  /\ UNCHANGED <<forks, forkLocks>>

TakeLeft(p) == SetFork(p, p, FALSE, "takeLeft", "unlockLeft")
UnlockLeft(p) == Unlock(p, p, "unlockLeft", "lockRight")

\* The left fork is in use: back to thinking without a look at the right one.
Decline(p) == Unlock(p, p, "decline", "think")

LockRight(p) == Lock(p, getRightForkPosition(p), "lockRight", "checkRight")

CheckRight(p) ==
  /\ Goto(p, "checkRight", IF isForkAvailable(getRightForkPosition(p))
                           THEN "takeRight" ELSE "giveUp")
  /\ UNCHANGED <<forks, forkLocks>>

TakeRight(p) ==
  SetFork(p, getRightForkPosition(p), FALSE, "takeRight", "unlockRight")
UnlockRight(p) == Unlock(p, getRightForkPosition(p), "unlockRight", "eat")

Eat(p) == Goto(p, "eat", "putLockLeft") /\ UNCHANGED <<forks, forkLocks>>

PutLockLeft(p) == Lock(p, p, "putLockLeft", "putLockRight")
PutLockRight(p) ==
  Lock(p, getRightForkPosition(p), "putLockRight", "putLeft")
PutLeft(p) == SetFork(p, p, TRUE, "putLeft", "putRight")
PutRight(p) ==
  SetFork(p, getRightForkPosition(p), TRUE, "putRight", "putUnlockLeft")
PutUnlockLeft(p) == Unlock(p, p, "putUnlockLeft", "putUnlockRight")
PutUnlockRight(p) ==
  Unlock(p, getRightForkPosition(p), "putUnlockRight", "think")

GiveUp(p) == Unlock(p, getRightForkPosition(p), "giveUp", "giveUpLock")
GiveUpLock(p) == Lock(p, p, "giveUpLock", "giveUpLeft")
GiveUpLeft(p) == SetFork(p, p, TRUE, "giveUpLeft", "giveUpUnlock")
GiveUpUnlock(p) == Unlock(p, p, "giveUpUnlock", "think")

get_forks(p) ==
  \/ LockLeft(p) \/ CheckLeft(p) \/ TakeLeft(p) \/ UnlockLeft(p) \/ Decline(p)
  \/ LockRight(p) \/ CheckRight(p) \/ TakeRight(p) \/ UnlockRight(p)
  \/ GiveUp(p) \/ GiveUpLock(p) \/ GiveUpLeft(p) \/ GiveUpUnlock(p)

put_forks(p) ==
  \/ PutLockLeft(p) \/ PutLockRight(p) \/ PutLeft(p) \/ PutRight(p)
  \/ PutUnlockLeft(p) \/ PutUnlockRight(p)

lifeAsAPhilosopher(p) == Think(p) \/ get_forks(p) \/ Eat(p) \/ put_forks(p)

Next == \E p \in Philosophers : lifeAsAPhilosopher(p)

Spec == Init /\ [][Next]_vars

\* A thread that can run does run.  think() and eat() sleep for bounded times.
\* pthread mutexes are not FIFO: that a thread waiting for a mutex that is
\* freed again and again gets it at last is an assumption (strong fairness).
MutexSteps(p) ==
  LockLeft(p) \/ LockRight(p) \/ PutLockLeft(p) \/ PutLockRight(p) \/ GiveUpLock(p)

Fairness ==
  \A p \in Philosophers :
     /\ WF_vars(lifeAsAPhilosopher(p))
     /\ SF_vars(MutexSteps(p))

FairSpec == Spec /\ Fairness

-------------------------------------------------------------------------------
\* Who owns a fork, and who holds a mutex, as the program text tells it.
HasLeft(p) ==
  pc[p] \in {"unlockLeft", "lockRight", "checkRight", "takeRight",
             "unlockRight", "eat", "putLockLeft", "putLockRight", "putLeft",
             "putRight", "giveUp", "giveUpLock", "giveUpLeft"}
HasRight(p) ==
  pc[p] \in {"unlockRight", "eat", "putLockLeft", "putLockRight", "putLeft",
             "putRight"}
LocksLeft(p) ==
  pc[p] \in {"checkLeft", "takeLeft", "unlockLeft", "decline", "putLockRight",
             "putLeft", "putRight", "putUnlockLeft", "giveUpLeft",
             "giveUpUnlock"}
LocksRight(p) ==
  pc[p] \in {"checkRight", "takeRight", "unlockRight", "giveUp", "putLeft",
             "putRight", "putUnlockLeft", "putUnlockRight"}

TypeOK ==
  /\ forks \in [Philosophers -> BOOLEAN]
  /\ forkLocks \in [Philosophers -> Philosophers \cup {NoOne}]
  /\ pc \in [Philosophers -> Labels]

\* Two philosophers side by side never eat, or return forks, at the same time
\* (get_forks takes each flag under its mutex and gives nothing away between).
NeighboursDoNotEatTogether ==
  \A p \in Philosophers :
     ~ (HasRight(p) /\ HasRight(getRightForkPosition(p)))

\* A fork is marked taken exactly while one philosopher holds it: the flag,
\* which put_forks and the give-up branch write far from where it was taken,
\* is never lost and never freed under its owner.  In put_forks the left flag
\* is written one statement before the right one.
FlagAgrees(p) ==
  LET right == getRightForkPosition(p) IN
  /\ ~ (HasRight(p) /\ HasLeft(right))
  /\ forks[right] <=>
       ~ (HasRight(p) \/ (HasLeft(right) /\ pc[right] # "putRight"))

FlagsAgreeWithOwners == \A p \in Philosophers : FlagAgrees(p)

\* put_forks takes two mutexes in seat order, which is cyclic; it cannot
\* deadlock because two neighbours are never inside it together before the
\* flags are back.
PutForksNeverMeet ==
  \A p \in Philosophers :
     ~ /\ pc[p] \in {"putLockLeft", "putLockRight", "putLeft", "putRight"}
       /\ pc[getRightForkPosition(p)] \in
             {"putLockLeft", "putLockRight", "putLeft", "putRight"}

\* A chain of threads, each waiting for a mutex the next one holds, never has
\* more than two links: whoever blocks a thread in put_forks is itself not
\* blocked (so no wait-for cycle, whatever N is).
WaitsFor(p) ==
  IF pc[p] \in {"lockLeft", "putLockLeft", "giveUpLock"} THEN forkLocks[p]
  ELSE IF pc[p] \in {"lockRight", "putLockRight"}
       THEN forkLocks[getRightForkPosition(p)]
       ELSE NoOne
ShortWaits ==
  \A p \in Philosophers :
     WaitsFor(p) # NoOne /\ WaitsFor(WaitsFor(p)) # NoOne
       => WaitsFor(WaitsFor(WaitsFor(p))) = NoOne

\* Every call of get_forks returns, eaten or not.
GetForksReturns ==
  \A p \in Philosophers : pc[p] = "lockLeft" ~> pc[p] = "think"

\* CS444_Writeup2.tex:119: the others "were also able to eat, thus avoiding
\* starvation".
EveryoneEats == \A p \in Philosophers : []<>(pc[p] = "eat")

-------------------------------------------------------------------------------
\* The abstract table: a fork belongs to a philosopher from the statement that
\* clears its flag to the one that sets it, except that put_forks, which holds
\* both mutexes, returns both forks when it writes the right one.
leftOf(f) == IF f = 0 THEN N - 1 ELSE f - 1

ForkHolder ==
  [f \in Philosophers |->
     IF HasLeft(f) THEN f
     ELSE IF HasRight(leftOf(f)) THEN leftOf(f)
     ELSE NoOne]

Table == INSTANCE DiningTable WITH
           holder <- ForkHolder,
           eating <- {p \in Philosophers : pc[p] = "eat"}

\* The threads with their mutexes implement the table without any: in
\* particular the two forks come back in one step as far as anyone can tell.
ImplementsTable == Table!TableSpec
================================================================================
