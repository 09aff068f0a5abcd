---------------------------- MODULE ProducerConsumer ---------------------------
(***************************************************************************)
(* Project1/Concurrency1/concurrency1.c: each loop of main starts one      *)
(* producer and one consumer and waits for the consumer.  The threads      *)
(* share a buffer of item pointers under one mutex and one condition       *)
(* variable.  A step is a pthread call or one access to the buffer; the    *)
(* sleeps, which all happen with the mutex held, change nothing.           *)
(***************************************************************************)
EXTENDS Integers

CONSTANTS
  Loops,  \* the command-line argument
  Slots   \* length of threadBuf.items: 32 in the program

ASSUME LoopsAssumption == Loops \in Nat \ {0}
ASSUME SlotsAssumption == Slots \in Nat \ {0}

Rounds == 1 .. Loops
Indices == 0 .. Slots - 1

\* The threads of a round; the item a producer makes is named by its round.
Producer(n) == <<"producer", n>>
Consumer(n) == <<"consumer", n>>
Threads == {"producer", "consumer"} \X Rounds
Main == <<"main", 0>>

NULL == 0

VARIABLES
  items,     \* threadBuf.items
  heap,      \* the items that malloc gave and free has not taken back
  mutex,     \* the thread that owns it, or Main: main never takes it
  pc,
  item,      \* i1 of a producer, itemToConsume of a consumer
  index,     \* indexToConsume
  outside,   \* whether an access to threadBuf.items used the index -1
  main, i    \* where main is, and its loop counter, from 1

buffer == <<items, heap, outside>>
locals == <<item, index>>
vars == <<buffer, mutex, pc, locals, main, i>>

Goes(t, label) == pc' = [pc EXCEPT ![t] = label]

\* initializeBuffer, before any thread exists.
Init ==
  /\ items = [s \in Indices |-> NULL]
  /\ heap = {}
  /\ mutex = Main
  /\ pc = [t \in Threads |-> "none"]
  /\ item = [t \in Threads |-> NULL]
  /\ index = [t \in Threads |-> 0]
  /\ outside = FALSE
  /\ main = "create producer"
  /\ i = 1

--------------------------------------------------------------------------------
isBufFull == \A s \in Indices : items[s] # NULL
isBufEmpty == \A s \in Indices : items[s] = NULL

\* The first index in S, or -1.
First(S) == IF S = {} THEN -1 ELSE CHOOSE s \in S : \A r \in S : s <= r
returnEmptyIndex == First({s \in Indices : items[s] = NULL})
returnFullIndex == First({s \in Indices : items[s] # NULL})

\* What the while loop of each thread tests.
MustWait(t) == IF t[1] = "producer" THEN isBufFull ELSE isBufEmpty

\* The steps of likely bugs, for the mutants: a lock that admits two, a wait that
\* is an if, an item that is not freed, a signal left out, no join, one loop too
\* many.
LockTwice(t) ==
  /\ pc[t] = "lock"
  /\ mutex' = t
  /\ Goes(t, "test")
  /\ UNCHANGED <<buffer, locals, main, i>>

WakeWithoutTest(t) ==
  /\ pc[t] = "waiting"
  /\ mutex = Main
  /\ mutex' = t
  /\ index' = [index EXCEPT ![t] = returnFullIndex]
  /\ outside' = (outside \/ returnFullIndex = -1)
  /\ Goes(t, "consume")
  /\ UNCHANGED <<items, heap, item, main, i>>

RemoveUnfreed(t) ==
  /\ pc[t] = "consume"
  /\ items' = [items EXCEPT ![index[t]] = NULL]
  /\ Goes(t, "signal")
  /\ UNCHANGED <<mutex, heap, outside, locals, main, i>>

SignalNobody(t) ==
  /\ pc[t] = "signal"
  /\ Goes(t, "unlock")
  /\ UNCHANGED <<buffer, mutex, locals, main, i>>

JoinNobody ==
  /\ main = "join"
  /\ IF i < Loops THEN main' = "create producer" /\ i' = i + 1
     ELSE main' = "return" /\ UNCHANGED i
  /\ UNCHANGED <<buffer, mutex, pc, locals>>

OneLoopMore ==
  /\ main = "join"
  /\ pc[Consumer(i)] = "done"
  /\ IF i <= Loops THEN main' = "create producer" /\ i' = i + 1
     ELSE main' = "return" /\ UNCHANGED i
  /\ UNCHANGED <<buffer, mutex, pc, locals>>

\* pthread_mutex_lock, on entry and on return from pthread_cond_wait.
Lock(t) ==
  /\ pc[t] = "lock"
  /\ mutex = Main
  /\ mutex' = t
  /\ Goes(t, "test")
  /\ UNCHANGED <<buffer, locals, main, i>>

\* pthread_cond_wait gives up the mutex and sleeps in one step.
CondWait(t) ==
  /\ pc[t] = "test"
  /\ MustWait(t)
  /\ mutex' = Main
  /\ Goes(t, "waiting")
  /\ UNCHANGED <<buffer, locals, main, i>>

\* pthread_cond_wait may return unsignalled.
SpuriousWakeup(t) ==
  /\ pc[t] = "waiting"
  /\ Goes(t, "lock")
  /\ UNCHANGED <<buffer, mutex, locals, main, i>>

\* createRandomItem and addRandomItem.
AddRandomItem(t) ==
  /\ pc[t] = "test" /\ t[1] = "producer"
  /\ ~MustWait(t)
  /\ heap' = heap \cup {t[2]}
  /\ item' = [item EXCEPT ![t] = t[2]]
  /\ LET at == returnEmptyIndex
     IN  IF at = -1 THEN outside' = TRUE /\ UNCHANGED items
         ELSE items' = [items EXCEPT ![at] = t[2]] /\ UNCHANGED outside
  /\ Goes(t, "signal")
  /\ UNCHANGED <<mutex, index, main, i>>

GetItem(t) ==
  /\ pc[t] = "test" /\ t[1] = "consumer"
  /\ ~MustWait(t)
  /\ LET at == returnFullIndex
     IN  /\ index' = [index EXCEPT ![t] = at]
         /\ IF at = -1 THEN outside' = TRUE /\ UNCHANGED item
            ELSE item' = [item EXCEPT ![t] = items[at]] /\ UNCHANGED outside
  /\ Goes(t, "consume")
  /\ UNCHANGED <<items, heap, mutex, main, i>>

\* The reads of itemToConsume come first, then removeItem.
RemoveItem(t) ==
  /\ pc[t] = "consume"
  /\ LET at == index[t]
     IN  IF at = -1 THEN outside' = TRUE /\ UNCHANGED <<items, heap>>
         ELSE /\ heap' = heap \ {items[at]}
              /\ items' = [items EXCEPT ![at] = NULL]
              /\ UNCHANGED outside
  /\ Goes(t, "signal")
  /\ UNCHANGED <<mutex, locals, main, i>>

\* pthread_cond_signal wakes one of the threads that wait, if there is one.
CondSignal(t) ==
  /\ pc[t] = "signal"
  /\ LET waiting == {w \in Threads : pc[w] = "waiting"}
     IN  IF waiting = {} THEN Goes(t, "unlock")
         ELSE \E w \in waiting : pc' = [pc EXCEPT ![t] = "unlock", ![w] = "lock"]
  /\ UNCHANGED <<buffer, mutex, locals, main, i>>

\* pthread_mutex_unlock, and the thread returns.
Unlock(t) ==
  /\ pc[t] = "unlock"
  /\ mutex' = Main
  /\ Goes(t, "done")
  /\ UNCHANGED <<buffer, locals, main, i>>

--------------------------------------------------------------------------------
CreateProducer ==
  /\ main = "create producer"
  /\ Goes(Producer(i), "lock")
  /\ main' = "create consumer"
  /\ UNCHANGED <<buffer, mutex, locals, i>>

CreateConsumer ==
  /\ main = "create consumer"
  /\ Goes(Consumer(i), "lock")
  /\ main' = "join"
  /\ UNCHANGED <<buffer, mutex, locals, i>>

\* pthread_join(consumer, NULL) and the loop test; no producer is joined.
JoinConsumer ==
  /\ main = "join"
  /\ pc[Consumer(i)] = "done"
  /\ IF i < Loops THEN main' = "create producer" /\ i' = i + 1
     ELSE main' = "return" /\ UNCHANGED i
  /\ UNCHANGED <<buffer, mutex, pc, locals>>

\* main has returned, and the process with it.
Exited == main = "return" /\ UNCHANGED vars

MainStep == CreateProducer \/ CreateConsumer \/ JoinConsumer

Running(t) ==
  \/ CondWait(t) \/ AddRandomItem(t) \/ GetItem(t)
  \/ RemoveItem(t) \/ CondSignal(t) \/ Unlock(t)

ThreadStep(t) == main # "return" /\ (Lock(t) \/ SpuriousWakeup(t) \/ Running(t))

Next == MainStep \/ (\E t \in Threads : ThreadStep(t)) \/ Exited

Spec == Init /\ [][Next]_vars

\* A thread that runs goes on running.  A thread that calls pthread_mutex_lock
\* again and again while the mutex is free in between gets it in the end: the
\* holders sleep for seconds, but each unlocks and leaves.
Fairness ==
  /\ WF_vars(MainStep)
  /\ \A t \in Threads : WF_vars(ThreadStep(t) /\ Running(t)) /\ SF_vars(ThreadStep(t) /\ Lock(t))

--------------------------------------------------------------------------------
TypeOK ==
  /\ items \in [Indices -> Rounds \cup {NULL}]
  /\ heap \subseteq Rounds
  /\ mutex \in Threads \cup {Main}
  /\ pc \in [Threads -> {"none", "lock", "test", "waiting", "consume", "signal", "unlock", "done"}]
  /\ item \in [Threads -> Rounds \cup {NULL}]
  /\ index \in [Threads -> Indices \cup {-1}]
  /\ outside \in BOOLEAN
  /\ main \in {"create producer", "create consumer", "join", "return"}
  /\ i \in Rounds

\* No thread ever reads or writes threadBuf.items[-1]: when returnEmptyIndex or
\* returnFullIndex is called there is such an index, even after a wakeup that
\* nobody signalled and whichever thread got the mutex in between.
IndexFound == ~outside

\* Every pointer in the buffer, and the one a consumer reads through during its
\* sleeps, is to an item that has not been freed, and every item that has not
\* been freed is in the buffer exactly once.
ItemsLive ==
  /\ \A t \in Threads : pc[t] = "consume" => item[t] \in heap /\ items[index[t]] = item[t]
  /\ heap = {items[s] : s \in Indices} \ {NULL}
  /\ \A r, s \in Indices : r # s /\ items[r] = items[s] => items[r] = NULL

\* The producers that are never joined leave nothing behind: when main starts a
\* round, or returns, all earlier threads have unlocked the mutex and finished,
\* and the buffer is empty.
RoundsEndClean ==
  main \in {"create producer", "return"} =>
    /\ mutex = Main
    /\ isBufEmpty
    /\ \A t \in Threads : pc[t] \in {"none", "done"}

\* Of the 32 slots the program uses one: the buffer is never full when a
\* producer looks, so that no producer ever waits, and no item is made before
\* the last one has been eaten.
AllMade == {item[Producer(n)] : n \in {n \in Rounds : pc[Producer(n)] \in {"signal", "unlock", "done"}}}
AllEaten == {item[Consumer(n)] : n \in {n \in Rounds : pc[Consumer(n)] \in {"signal", "unlock", "done"}}}
H == INSTANCE Handoff WITH made <- AllMade, eaten <- AllEaten
ImplementsHandoff == H!Spec

\* However the threads interleave, main gets through all its loops: no consumer
\* waits for a signal that came too early.
EveryLoopEnds == <>(main = "return")

================================================================================
