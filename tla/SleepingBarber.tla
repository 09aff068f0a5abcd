----------------------------- MODULE SleepingBarber ----------------------------
(***************************************************************************)
(* Concurrency4/Concurrency4b.c: a barber who sleeps on one condition      *)
(* variable, and customers who wait on another and come again for ever.    *)
(* Customers change curr under the mutex queue, the barber changes it      *)
(* without, and nobody looks at it again after a wait.                     *)
(*                                                                         *)
(* The mutex sleepa is the barber's alone, and under the mutex wait there  *)
(* is only a pthread_cond_wait: locking one of them and waiting, or        *)
(* returning from the wait and unlocking it, is one step.  The array of    *)
(* threads, whose last index is one too large, is taken not to be harmful. *)
(***************************************************************************)
EXTENDS Integers

CONSTANT Chairs  \* chairs: 8

ASSUME ChairsAssumption == Chairs \in Nat \ {0, 1}

Customers == 1 .. Chairs + 1
Nobody == 0

\* A bound: a barber who finds less than nobody cuts hair for ever, and curr is not
\* counted further down.
LeastCurr == -2

VARIABLES
  curr,      \* how many customers there are
  sleeping,
  queue,     \* the customer who owns the mutex, or Nobody
  i,         \* the customers that customer() has made threads for
  pc,
  barber,    \* where barberShop is
  seen,      \* what a customer, who owns queue, and the barber have read of curr
             \* in order to change it, or else 0
  raced      \* history: whether anybody has acted on what was no longer true: a
             \* signal to the barber was not sent, or sent in vain; an update of
             \* curr has overwritten another one; the barber has changed curr under
             \* a customer who was leaving because of it

vars == <<curr, sleeping, queue, i, pc, barber, seen, raced>>

Goes(c, label) == pc' = [pc EXCEPT ![c] = label]

Init ==
  /\ curr = 0
  /\ sleeping = FALSE
  /\ queue = Nobody
  /\ i = 0
  /\ pc = [c \in Customers |-> "none"]
  /\ barber = "look"
  /\ seen = [who \in {"customer", "barber"} |-> 0]
  /\ raced = FALSE

ReadBy(who) == seen' = [seen EXCEPT ![who] = curr]

\* The customer who owns queue is on the way out because of what he saw of curr.
Refused == queue # Nobody /\ pc[queue] \in {"full?", "read again"}

\* curr becomes what was read of it, one more or one less.
WriteBy(who, change) ==
  /\ curr' = IF seen[who] + change < LeastCurr THEN LeastCurr ELSE seen[who] + change
  /\ raced' = (raced \/ curr # seen[who] \/ (who = "barber" /\ Refused))
  /\ seen' = [seen EXCEPT ![who] = 0]

--------------------------------------------------------------------------------
\* customer(): at some time, one more.
Arrive ==
  /\ i <= Chairs
  /\ i' = i + 1
  /\ Goes(i + 1, "lock")
  /\ UNCHANGED <<curr, sleeping, queue, barber, seen, raced>>

LockQueue(c) ==
  /\ pc[c] = "lock"
  /\ queue = Nobody
  /\ queue' = c
  /\ Goes(c, "read")
  /\ UNCHANGED <<curr, sleeping, i, barber, seen, raced>>

\* The first read of ++ or --.
Read(c) ==
  /\ pc[c] \in {"read", "read again"}
  /\ ReadBy("customer")
  /\ Goes(c, IF pc[c] = "read" THEN "enter" ELSE "leave")
  /\ UNCHANGED <<curr, sleeping, queue, i, barber, raced>>

Enter(c) ==
  /\ pc[c] = "enter"
  /\ WriteBy("customer", 1)
  /\ Goes(c, "free chair?")
  /\ UNCHANGED <<sleeping, queue, i, barber>>

\* Slips: a chair too many; a sleeping barber who is not woken.
FindsAnyChair(c) ==
  /\ pc[c] = "free chair?"
  /\ Goes(c, IF curr <= Chairs THEN "asleep?" ELSE "full?")
  /\ UNCHANGED <<curr, sleeping, queue, i, barber, seen, raced>>

FindsChair(c) ==
  /\ pc[c] = "free chair?"
  /\ Goes(c, IF curr < Chairs THEN "asleep?" ELSE "full?")
  /\ UNCHANGED <<curr, sleeping, queue, i, barber, seen, raced>>

\* The barber has seen that the shop is empty and has not said yet that he sleeps.
AboutToDoze == barber = "doze"

LetsSleep(c) ==
  /\ pc[c] = "asleep?"
  /\ Goes(c, "sit")
  /\ raced' = (raced \/ AboutToDoze)
  /\ UNCHANGED <<curr, sleeping, queue, i, barber, seen>>

LooksAtBarber(c) ==
  /\ pc[c] = "asleep?"
  /\ Goes(c, IF sleeping THEN "wake" ELSE "sit")
  /\ raced' = (raced \/ (~sleeping /\ AboutToDoze))
  /\ UNCHANGED <<curr, sleeping, queue, i, barber, seen>>

\* pthread_cond_signal(&barberSleep), without the mutex that the barber waits with.
WakesBarber(c) ==
  /\ pc[c] = "wake"
  /\ Goes(c, "sit")
  /\ barber' = IF barber = "asleep" THEN "awake" ELSE barber
  /\ raced' = (raced \/ barber = "to sleep")
  /\ UNCHANGED <<curr, sleeping, queue, i, seen>>

Sits(c) ==
  /\ pc[c] = "sit"
  /\ queue' = Nobody
  /\ Goes(c, "to wait")
  /\ UNCHANGED <<curr, sleeping, i, barber, seen, raced>>

\* pthread_cond_wait(&barberAwake, &wait).
Waits(c) ==
  /\ pc[c] = "to wait"
  /\ Goes(c, "waiting")
  /\ UNCHANGED <<curr, sleeping, queue, i, barber, seen, raced>>

\* The second test, of what the barber may have changed since the first: who is
\* refused by both goes without unlocking, and comes again.
FindsItFull(c) ==
  /\ pc[c] = "full?"
  /\ Goes(c, IF curr >= Chairs THEN "read again" ELSE "lock")
  /\ UNCHANGED <<curr, sleeping, queue, i, barber, seen, raced>>

Leave(c) ==
  /\ pc[c] = "leave"
  /\ WriteBy("customer", -1)
  /\ Goes(c, "unlock")
  /\ UNCHANGED <<sleeping, queue, i, barber>>

Unlock(c) ==
  /\ pc[c] = "unlock"
  /\ queue' = Nobody
  /\ Goes(c, "lock")
  /\ UNCHANGED <<curr, sleeping, i, barber, seen, raced>>

waiting_Room(c) ==
  \/ LockQueue(c) \/ Read(c) \/ Enter(c) \/ FindsChair(c) \/ LooksAtBarber(c)
  \/ WakesBarber(c) \/ Sits(c) \/ Waits(c) \/ FindsItFull(c) \/ Leave(c) \/ Unlock(c)

--------------------------------------------------------------------------------
Look ==
  /\ barber = "look"
  /\ barber' = IF curr = 0 THEN "doze" ELSE "cut"
  /\ UNCHANGED <<curr, sleeping, queue, i, pc, seen, raced>>

Doze ==
  /\ barber = "doze"
  /\ sleeping' = TRUE
  /\ barber' = "to sleep"
  /\ UNCHANGED <<curr, queue, i, pc, seen, raced>>

Sleep ==
  /\ barber = "to sleep"
  /\ barber' = "asleep"
  /\ UNCHANGED <<curr, sleeping, queue, i, pc, seen, raced>>

Awake ==
  /\ barber = "awake"
  /\ sleeping' = FALSE
  /\ barber' = "look"
  /\ UNCHANGED <<curr, queue, i, pc, seen, raced>>

\* cut_hair, and the read of curr--.
Cut ==
  /\ barber = "cut"
  /\ ReadBy("barber")
  /\ barber' = "count"
  /\ UNCHANGED <<curr, sleeping, queue, i, pc, raced>>

Count ==
  /\ barber = "count"
  /\ WriteBy("barber", -1)
  /\ barber' = "call"
  /\ UNCHANGED <<sleeping, queue, i, pc>>

\* pthread_cond_signal(&barberAwake): whose hair is cut leaves, and comes again.
Call ==
  /\ barber = "call"
  /\ IF \E c \in Customers : pc[c] = "waiting"
     THEN \E c \in Customers : pc[c] = "waiting" /\ Goes(c, "lock")
     ELSE UNCHANGED pc
  /\ barber' = "look"
  /\ UNCHANGED <<curr, sleeping, queue, i, seen, raced>>

barberShop == Look \/ Doze \/ Sleep \/ Awake \/ Cut \/ Count \/ Call

\* A wait may return without a signal.
SpuriousWakeup ==
  /\ \/ barber = "asleep" /\ barber' = "awake" /\ UNCHANGED pc
     \/ \E c \in Customers : pc[c] = "waiting" /\ Goes(c, "lock") /\ UNCHANGED barber
  /\ UNCHANGED <<curr, sleeping, queue, i, seen, raced>>

Next == Arrive \/ (\E c \in Customers : waiting_Room(c)) \/ barberShop \/ SpuriousWakeup

Spec == Init /\ [][Next]_vars

\* Every thread that can go on does.
FairSpec ==
  /\ Spec
  /\ WF_vars(barberShop)
  /\ \A c \in Customers : WF_vars(waiting_Room(c))

--------------------------------------------------------------------------------
Deciding == {"read", "enter", "free chair?", "asleep?", "wake", "sit", "full?",
             "read again", "leave", "unlock"}

TypeOK ==
  /\ curr \in Int
  /\ sleeping \in BOOLEAN
  /\ queue \in Customers \cup {Nobody}
  /\ i \in 0 .. Chairs + 1
  /\ pc \in [Customers -> Deciding \cup {"none", "lock", "to wait", "waiting"}]
  /\ barber \in {"look", "doze", "to sleep", "asleep", "awake", "cut", "count", "call"}
  /\ seen \in [{"customer", "barber"} -> Int]
  /\ raced \in BOOLEAN

\* curr is changed by the customer who owns queue and by the barber, who does not.
\* It never becomes larger than the shop, whatever is lost between the two, and
\* becomes negative only through a race.
CurrInRange == curr <= Chairs /\ (curr >= 0 \/ raced)

\* Who has left the shop, or waits in it, does not own the mutex, unless the shop
\* was full at one test and not full at the next.
QueueUnlocked == queue # Nobody /\ ~raced => pc[queue] \in Deciding

\* The barber comes if there are customers, unless it went wrong before.
BarberComes == curr > 0 ~> (barber \in {"cut", "count"} \/ raced)

\* What a message says: there are no more chairs.
NoMoreThanTheChairs ==
  \E c \in Customers : pc[c] # "waiting"

\* Who has left the shop lets others in.
NobodyKeepsTheMutex == queue # Nobody => pc[queue] \in Deciding

\* What a message says: the barber goes to sleep when the shop is empty.
SleepsOnlyIfEmpty == barber = "asleep" => \A c \in Customers : pc[c] # "waiting"
================================================================================
