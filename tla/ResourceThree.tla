----------------------------- MODULE ResourceThree -----------------------------
(***************************************************************************)
(* Concurrency4/Concurrency4a.c, and the copy of it in the root directory  *)
(* that also catches SIGINT: six threads come once to a resource with a    *)
(* semaphore and a counter beside it.  The counter is changed without a    *)
(* lock, so that an update is two steps, a read and a write.               *)
(***************************************************************************)
EXTENDS Integers, FiniteSets

CONSTANTS
  Threads,       \* the six of main
  Places,        \* what the semaphore and the counter start with: 3
  CatchesSIGINT  \* whether a handler is installed: the copy in the root

VARIABLES
  counter,  \* currentThreadsAccessingResource, which counts the free places
  sem,      \* the value of s1.resourceSemaphore
  pc,
  seen,     \* what a thread has read of counter in order to change it, or else 0
  lost      \* history: whether an update has overwritten another one

vars == <<counter, sem, pc, seen, lost>>

Goes(t, label) == pc' = [pc EXCEPT ![t] = label]
At(labels) == {t \in Threads : pc[t] \in labels}

Init ==
  /\ counter = Places
  /\ sem = Places
  /\ pc = [t \in Threads |-> "test"]
  /\ seen = [t \in Threads |-> 0]
  /\ lost = FALSE

--------------------------------------------------------------------------------
\* One look at the counter, before any lock.
Test(t) ==
  /\ pc[t] = "test"
  /\ Goes(t, IF counter > 0 THEN "wait" ELSE "poll")
  /\ UNCHANGED <<counter, sem, seen, lost>>

\* Slips: a turned back thread that waits for any place; a post that is left out.
PollAnyPlace(t) ==
  /\ pc[t] = "poll"
  /\ counter > 0
  /\ Goes(t, "wait")
  /\ UNCHANGED <<counter, sem, seen, lost>>

NoPost(t) ==
  /\ pc[t] = "work"
  /\ Goes(t, "give")
  /\ UNCHANGED <<counter, sem, seen, lost>>

\* A thread that is turned back looks again after each sleep; only the look that
\* lets it in is a step.
Poll(t) ==
  /\ pc[t] = "poll"
  /\ counter = Places
  /\ Goes(t, "wait")
  /\ UNCHANGED <<counter, sem, seen, lost>>

SemWait(t) ==
  /\ pc[t] = "wait"
  /\ sem > 0
  /\ sem' = sem - 1
  /\ Goes(t, "take")
  /\ UNCHANGED <<counter, seen, lost>>

Read(t) ==
  /\ pc[t] \in {"take", "give"}
  /\ seen' = [seen EXCEPT ![t] = counter]
  /\ Goes(t, IF pc[t] = "take" THEN "taking" ELSE "giving")
  /\ UNCHANGED <<counter, sem, lost>>

\* A place is taken; the thread works on the resource.
Take(t) ==
  /\ pc[t] = "taking"
  /\ counter' = seen[t] - 1
  /\ lost' = (lost \/ counter # seen[t])
  /\ Goes(t, "work")
  /\ seen' = [seen EXCEPT ![t] = 0]
  /\ UNCHANGED sem

SemPost(t) ==
  /\ pc[t] = "work"
  /\ sem' = sem + 1
  /\ Goes(t, "give")
  /\ UNCHANGED <<counter, seen, lost>>

Give(t) ==
  /\ pc[t] = "giving"
  /\ counter' = seen[t] + 1
  /\ lost' = (lost \/ counter # seen[t])
  /\ Goes(t, "done")
  /\ seen' = [seen EXCEPT ![t] = 0]
  /\ UNCHANGED sem

accessResource(t) ==
  Test(t) \/ Poll(t) \/ SemWait(t) \/ Read(t) \/ Take(t) \/ SemPost(t) \/ Give(t)

\* sig_catch destroys the semaphore and ends the process with all its threads.
Killed == \A t \in Threads : pc[t] = "killed"

sig_catch ==
  /\ CatchesSIGINT
  /\ ~Killed
  /\ pc' = [t \in Threads |-> "killed"]
  /\ UNCHANGED <<counter, sem, seen, lost>>

\* main loops for ever.
Main == UNCHANGED vars

Next == (\E t \in Threads : accessResource(t)) \/ sig_catch \/ Main

Spec == Init /\ [][Next]_vars

\* Every thread runs, and one that waits looks again and again.
FairSpec == Spec /\ \A t \in Threads : WF_vars(accessResource(t))

--------------------------------------------------------------------------------
Labels ==
  {"test", "poll", "wait", "take", "taking", "work", "give", "giving", "done", "killed"}

TypeOK ==
  /\ counter \in Int /\ sem \in Nat
  /\ pc \in [Threads -> Labels]
  /\ seen \in [Threads -> Int]
  /\ lost \in BOOLEAN

\* Threads between sem_wait and sem_post, and those that the counter counts.
Inside == At({"take", "taking", "work"})
Counted == At({"work", "give", "giving"})

\* The semaphore and the threads it has let in make up the places.
PlacesKept == ~Killed => sem + Cardinality(Inside) = Places

\* As long as no update is lost the counter says how many places are free, up to
\* what threads that have left the resource have not given back yet.
CountsFreePlaces == ~lost /\ ~Killed => counter = Places - Cardinality(Counted)

\* Whatever is lost, a thread is turned back only after Places threads have taken
\* a place: lost updates cannot keep everyone out.
FirstOnesGetIn ==
  At({"poll"}) # {} => Cardinality(At({"work", "give", "giving", "done"})) >= Places

\* What the comment b) promises, as far as it goes: a thread that was turned back
\* is let in when everyone counted has stopped using the resource, unless an
\* update was lost.  (One that passed the test before may walk in at any time.)
TurnedBackWaitForAll ==
  [][\A t \in Threads : pc[t] = "poll" /\ pc'[t] = "wait" /\ ~lost
       => Counted = {}]_vars

\* Nobody waits for ever, but for a lost update.
EveryoneIsDone == <>(lost \/ Killed \/ \A t \in Threads : pc[t] = "done")

\* What the comment a) says.
AtMostTwoInside == Cardinality(Inside) <= 2

\* What the comment b) says: once all places were taken, nobody comes in before
\* they are free again.
AllStopBeforeAnyStarts ==
  [][\A t \in Threads : pc[t] = "wait" /\ pc'[t] = "take" => counter > 0]_vars

\* A thread whose update was lost leaves others behind.
NobodyStranded == <>(Killed \/ \A t \in Threads : pc[t] = "done")
================================================================================
