------------------------- MODULE ProducerConsumerProofs ------------------------
(***************************************************************************)
(* For any number of loops and of slots, the buffer holds at most the item *)
(* of the round under way, in slot 0.  For ints of any width, only the     *)
(* absolute value of the least int leads out of the range of a number; and *)
(* the numbers take nothing from what ProducerConsumer promises.           *)
(***************************************************************************)
EXTENDS ProducerNumbers, TLAPS

Holding == {"test", "consume", "signal", "unlock"}
Past == {"signal", "unlock", "done"}

\* The producer of the round has added its item, the consumer has not removed it.
InBuffer == pc[Producer(i)] \in Past /\ pc[Consumer(i)] \notin Past

Ownership == \A t \in Threads : mutex = t <=> pc[t] \in Holding

RoundsInOrder ==
  \A n \in Rounds :
    /\ n < i => pc[Producer(n)] = "done" /\ pc[Consumer(n)] = "done"
    /\ n > i => pc[Producer(n)] = "none" /\ pc[Consumer(n)] = "none"

ThisRound ==
  /\ pc[Producer(i)] = "none" <=> main = "create producer"
  /\ pc[Consumer(i)] = "none" <=> main \in {"create producer", "create consumer"}
  /\ main = "return" => pc[Consumer(i)] = "done" /\ i = Loops
  /\ pc[Producer(i)] \notin {"waiting", "consume"}
  /\ pc[Consumer(i)] \in Past \cup {"consume"} => pc[Producer(i)] = "done"

BufferOfRound ==
  /\ items = [s \in Indices |-> IF InBuffer /\ s = 0 THEN i ELSE NULL]
  /\ heap = IF InBuffer THEN {i} ELSE {}
  /\ ~outside

Hands ==
  \A n \in Rounds :
    /\ pc[Producer(n)] \in Past => item[Producer(n)] = n
    /\ pc[Consumer(n)] \in Past \cup {"consume"} => item[Consumer(n)] = n
    /\ pc[Consumer(n)] = "consume" => index[Consumer(n)] = 0

Inv == TypeOK /\ Ownership /\ RoundsInOrder /\ ThisRound /\ BufferOfRound /\ Hands

\* The threads are the producers and the consumers of the rounds, all different.
LEMMA ThreadFacts ==
  /\ \A n \in Rounds : Producer(n) \in Threads /\ Consumer(n) \in Threads
  /\ \A t \in Threads : \E n \in Rounds : t = Producer(n) \/ t = Consumer(n)
  /\ \A n \in Rounds : Producer(n)[1] = "producer" /\ Producer(n)[2] = n
  /\ \A n \in Rounds : Consumer(n)[1] = "consumer" /\ Consumer(n)[2] = n
  /\ \A n, m \in Rounds : Producer(n) # Consumer(m)
  /\ \A n, m \in Rounds : Producer(n) = Producer(m) => n = m
  /\ \A n, m \in Rounds : Consumer(n) = Consumer(m) => n = m
  /\ Main \notin Threads
  BY DEF Producer, Consumer, Threads, Main

\* The rounds are numbers from 1.
LEMMA RoundFacts ==
  /\ 1 \in Rounds /\ Loops \in Rounds
  /\ \A n \in Rounds : n \in Nat /\ 1 <= n /\ n <= Loops /\ n # NULL
  /\ \A n \in Rounds : n < Loops => n + 1 \in Rounds
  BY LoopsAssumption DEF Rounds, NULL

\* A set of indices with 0 in it has 0 as its first.
LEMMA FirstIsZero ==
  ASSUME NEW S \in SUBSET Indices, 0 \in S
  PROVE  First(S) = 0
<1>1. 0 \in S /\ \A r \in S : 0 <= r  BY SlotsAssumption DEF Indices
<1>2. ASSUME NEW s \in S, \A r \in S : s <= r  PROVE s = 0
  BY <1>1, <1>2, SlotsAssumption DEF Indices
<1> QED  BY <1>1, <1>2 DEF First

\* What the tests and the searches of the buffer return under the invariant.
LEMMA BufferFacts ==
  ASSUME Inv
  PROVE  /\ isBufEmpty <=> ~InBuffer
         /\ ~InBuffer => ~isBufFull /\ returnEmptyIndex = 0
         /\ InBuffer => returnFullIndex = 0 /\ items[0] = i
<1>1. 0 \in Indices /\ i \in Rounds /\ i # NULL
  <2>1. i \in Rounds  BY DEF Inv, TypeOK
  <2>2. i # NULL  BY <2>1, LoopsAssumption DEF Rounds, NULL
  <2> QED  BY <2>1, <2>2, SlotsAssumption DEF Indices
<1>2. \A s \in Indices : items[s] = IF InBuffer /\ s = 0 THEN i ELSE NULL
  BY DEF Inv, BufferOfRound
<1>3. isBufEmpty <=> ~InBuffer  BY <1>1, <1>2 DEF isBufEmpty
<1>4. ASSUME ~InBuffer  PROVE ~isBufFull /\ returnEmptyIndex = 0
  <2>1. 0 \in {s \in Indices : items[s] = NULL}  BY <1>1, <1>2, <1>4
  <2>2. returnEmptyIndex = 0  BY <2>1, FirstIsZero DEF returnEmptyIndex
  <2> QED  BY <1>1, <1>2, <1>4, <2>2 DEF isBufFull
<1>5. ASSUME InBuffer  PROVE returnFullIndex = 0 /\ items[0] = i
  <2>1. items[0] = i  BY <1>1, <1>2, <1>5
  <2>2. 0 \in {s \in Indices : items[s] # NULL}  BY <1>1, <2>1
  <2> QED  BY <2>1, <2>2, FirstIsZero DEF returnFullIndex
<1> QED  BY <1>3, <1>4, <1>5

\* A thread that has neither to be created nor returned belongs to the round.
LEMMA OfThisRound ==
  ASSUME Inv, NEW t \in Threads, pc[t] \notin {"none", "done"}
  PROVE  t = Producer(i) \/ t = Consumer(i)
<1>1. PICK n \in Rounds : t = Producer(n) \/ t = Consumer(n)  BY ThreadFacts
<1>2. i \in Nat /\ n \in Nat
  <2>1. i \in Rounds  BY DEF Inv, TypeOK
  <2> QED  BY <2>1, RoundFacts
<1>3. ~(n < i) /\ ~(n > i)  BY <1>1 DEF Inv, RoundsInOrder
<1> QED  BY <1>1, <1>2, <1>3

\* The invariant holds at first.
LEMMA InvInit == Init => Inv
<1> SUFFICES ASSUME Init  PROVE Inv  OBVIOUS
<1>1. i \in Rounds /\ i = 1
  <2>1. i = 1  BY DEF Init
  <2> QED  BY <2>1, RoundFacts
<1>2. TypeOK
  <2>1. 0 \in Indices  BY SlotsAssumption DEF Indices
  <2> QED  BY <1>1, <2>1 DEF Init, TypeOK
<1>9. \A t \in Threads : pc[t] = "none"  BY DEF Init
<1>3. Ownership  BY <1>9, ThreadFacts DEF Init, Ownership, Holding
<1>4. RoundsInOrder
  <2>1. \A n \in Rounds : ~(n < i)  BY <1>1, RoundFacts
  <2>2. \A n \in Rounds : pc[Producer(n)] = "none" /\ pc[Consumer(n)] = "none"
    BY <1>9, ThreadFacts
  <2> QED  BY <2>1, <2>2 DEF RoundsInOrder
<1>5. ThisRound  BY <1>1, <1>9, ThreadFacts DEF Init, ThisRound, Past
<1>6. ~InBuffer  BY <1>1, <1>9, ThreadFacts DEF InBuffer, Past
<1>7. BufferOfRound  BY <1>6 DEF Init, BufferOfRound
<1>8. Hands  BY <1>9, ThreadFacts DEF Hands, Past
<1> QED  BY <1>2, <1>3, <1>4, <1>5, <1>7, <1>8 DEF Inv

\* A step that touches nothing but the mutex and the program counters, and in
\* which no thread crosses an access to the buffer, keeps the invariant.
LEMMA OwnStep ==
  ASSUME Inv, TypeOK', Ownership',
         UNCHANGED <<buffer, locals, main, i>>,
         \A t \in Threads : pc'[t] # pc[t] =>
           /\ pc[t] \notin {"none", "done", "consume"}
           /\ pc'[t] \in {"lock", "test", "waiting", "unlock", "done"}
           /\ pc[t] \in Past <=> pc'[t] \in Past
           /\ pc'[t] = "waiting" => t = Consumer(i)
  PROVE  Inv'
<1>1. i \in Rounds /\ i' = i /\ main' = main  BY DEF Inv, TypeOK
<1>2. Producer(i) \in Threads /\ Consumer(i) \in Threads /\ Producer(i) # Consumer(i)
  BY <1>1, ThreadFacts
<1>3. \A t \in Threads : pc'[t] # pc[t] => t = Producer(i) \/ t = Consumer(i)
  BY OfThisRound
<1>4. \A t \in Threads : /\ pc'[t] \in Past <=> pc[t] \in Past
                         /\ pc'[t] = "consume" <=> pc[t] = "consume"
                         /\ pc'[t] = "none" <=> pc[t] = "none"
                         /\ pc[t] = "done" => pc'[t] = "done"
  OBVIOUS
<1>5. RoundsInOrder'
  <2> SUFFICES ASSUME NEW n \in Rounds, n # i
               PROVE  pc'[Producer(n)] = pc[Producer(n)] /\ pc'[Consumer(n)] = pc[Consumer(n)]
    BY <1>1, RoundFacts DEF RoundsInOrder, Inv
  <2> QED  BY <1>1, <1>3, ThreadFacts
<1>6. ThisRound'
  <2>1. pc'[Producer(i)] \notin {"waiting", "consume"}
    BY <1>2 DEF Inv, ThisRound
  <2> QED  BY <1>1, <1>2, <1>4, <2>1 DEF Inv, ThisRound
<1>7. BufferOfRound'
  <2>1. InBuffer' <=> InBuffer  BY <1>1, <1>2, <1>4 DEF InBuffer
  <2> QED  BY <1>1, <2>1 DEF Inv, BufferOfRound, buffer
<1>8. Hands'
  BY <1>4, ThreadFacts DEF Inv, Hands, locals
<1> QED  BY <1>5, <1>6, <1>7, <1>8 DEF Inv

\* The mutex and the condition variable.
LEMMA SyncSteps ==
  ASSUME Inv, NEW t \in Threads,
         Lock(t) \/ CondWait(t) \/ SpuriousWakeup(t) \/ CondSignal(t) \/ Unlock(t)
  PROVE  Inv'
<1>1. CASE Lock(t)
  <2>1. TypeOK'  BY <1>1 DEF Inv, TypeOK, Lock, Goes, buffer, locals
  <2>2. \A u \in Threads : pc'[u] = IF u = t THEN "test" ELSE pc[u]
    BY <1>1 DEF Inv, TypeOK, Lock, Goes
  <2>3. Ownership'
    BY <1>1, <2>2, ThreadFacts DEF Inv, Ownership, Holding, Lock
  <2> QED  BY <1>1, <2>1, <2>2, <2>3, OwnStep DEF Lock, Past
<1>2. CASE CondWait(t)
  <2>1. TypeOK'  BY <1>2 DEF Inv, TypeOK, CondWait, Goes, buffer, locals
  <2>2. \A u \in Threads : pc'[u] = IF u = t THEN "waiting" ELSE pc[u]
    BY <1>2 DEF Inv, TypeOK, CondWait, Goes
  <2>3. Ownership'
    BY <1>2, <2>2, ThreadFacts DEF Inv, Ownership, Holding, CondWait
  <2>4. t # Producer(i)
    <3> SUFFICES ASSUME t = Producer(i)  PROVE FALSE  OBVIOUS
    <3>1. i \in Rounds  BY DEF Inv, TypeOK
    <3>2. isBufFull  BY <1>2, <3>1, ThreadFacts DEF CondWait, MustWait
    <3>3. ~InBuffer  BY <1>2 DEF CondWait, InBuffer, Past
    <3> QED  BY <3>2, <3>3, BufferFacts
  <2>5. pc[t] = "test"  BY <1>2 DEF CondWait
  <2>6. t = Consumer(i)  BY <2>4, <2>5, OfThisRound
  <2> QED  BY <1>2, <2>1, <2>2, <2>3, <2>6, OwnStep DEF CondWait, Past
<1>3. CASE SpuriousWakeup(t)
  <2>1. TypeOK'  BY <1>3 DEF Inv, TypeOK, SpuriousWakeup, Goes, buffer, locals
  <2>2. \A u \in Threads : pc'[u] = IF u = t THEN "lock" ELSE pc[u]
    BY <1>3 DEF Inv, TypeOK, SpuriousWakeup, Goes
  <2>3. Ownership'
    BY <1>3, <2>2 DEF Inv, Ownership, Holding, SpuriousWakeup
  <2> QED  BY <1>3, <2>1, <2>2, <2>3, OwnStep DEF SpuriousWakeup, Past
<1>4. CASE CondSignal(t)
  <2>1. PICK w \in Threads :
          /\ w = t \/ pc[w] = "waiting"
          /\ pc' = [pc EXCEPT ![t] = "unlock", ![w] = IF w = t THEN "unlock" ELSE "lock"]
    <3>1. CASE {w \in Threads : pc[w] = "waiting"} = {}
      BY <1>4, <3>1 DEF CondSignal, Goes, Inv, TypeOK
    <3>2. CASE {w \in Threads : pc[w] = "waiting"} # {}
      BY <1>4, <3>2 DEF CondSignal
    <3> QED  BY <3>1, <3>2
  <2>2. TypeOK'  BY <1>4, <2>1 DEF Inv, TypeOK, CondSignal, buffer, locals
  <2>3. \A u \in Threads :
          pc'[u] = IF u = t THEN "unlock" ELSE IF u = w THEN "lock" ELSE pc[u]
    BY <2>1 DEF Inv, TypeOK
  <2>4. pc[t] = "signal" /\ mutex' = mutex /\ UNCHANGED <<buffer, locals, main, i>>
    BY <1>4 DEF CondSignal
  <2>7. w = t \/ pc[w] = "waiting"  BY <2>1
  <2>5. Ownership'
    <3> SUFFICES ASSUME NEW u \in Threads  PROVE mutex' = u <=> pc'[u] \in Holding
      BY DEF Ownership
    <3>1. mutex = u <=> pc[u] \in Holding  BY DEF Inv, Ownership
    <3> QED  BY <2>3, <2>4, <2>7, <3>1 DEF Holding
  <2>6. \A u \in Threads : pc'[u] # pc[u] =>
          /\ pc[u] \notin {"none", "done", "consume"}
          /\ pc'[u] \in {"lock", "unlock"}
          /\ pc[u] \in Past <=> pc'[u] \in Past
    BY <2>3, <2>4, <2>7 DEF Past
  <2> QED  BY <2>2, <2>4, <2>5, <2>6, OwnStep
<1>5. CASE Unlock(t)
  <2>1. TypeOK'  BY <1>5 DEF Inv, TypeOK, Unlock, Goes, buffer, locals
  <2>2. \A u \in Threads : pc'[u] = IF u = t THEN "done" ELSE pc[u]
    BY <1>5 DEF Inv, TypeOK, Unlock, Goes
  <2>3. Ownership'
    BY <1>5, <2>2, ThreadFacts DEF Inv, Ownership, Holding, Unlock
  <2> QED  BY <1>5, <2>1, <2>2, <2>3, OwnStep DEF Unlock, Past
<1> QED  BY <1>1, <1>2, <1>3, <1>4, <1>5

\* A step in which only t, of this round, moves keeps the rounds in order.
LEMMA OrderKept ==
  ASSUME Inv, NEW t \in Threads, pc[t] \notin {"none", "done"}, i' = i,
         \A u \in Threads \ {t} : pc'[u] = pc[u]
  PROVE  RoundsInOrder'
<1>1. i \in Rounds  BY DEF Inv, TypeOK
<1>2. t = Producer(i) \/ t = Consumer(i)  BY OfThisRound
<1> SUFFICES ASSUME NEW n \in Rounds, n # i
             PROVE  pc'[Producer(n)] = pc[Producer(n)] /\ pc'[Consumer(n)] = pc[Consumer(n)]
  BY <1>1, RoundFacts DEF RoundsInOrder, Inv
<1> QED  BY <1>1, <1>2, ThreadFacts

\* The producer of the round finds the buffer empty and fills slot 0.
LEMMA AddStep ==
  ASSUME Inv, NEW t \in Threads, AddRandomItem(t)
  PROVE  Inv'
<1>1. pc[t] = "test" /\ i \in Rounds /\ UNCHANGED <<mutex, index, main, i>>
  BY DEF AddRandomItem, Inv, TypeOK
<1>2. t = Producer(i)
  <2>1. t = Producer(i) \/ t = Consumer(i)  BY <1>1, OfThisRound
  <2> QED  BY <1>1, <2>1, ThreadFacts DEF AddRandomItem
<1>3. t[2] = i /\ Consumer(i) \in Threads /\ t # Consumer(i)  BY <1>1, <1>2, ThreadFacts
<1>4. ~InBuffer /\ pc[Consumer(i)] \notin Past \cup {"consume"}
  BY <1>1, <1>2 DEF Inv, ThisRound, InBuffer, Past
<1>5. returnEmptyIndex = 0 /\ ~isBufFull  BY <1>4, BufferFacts
<1>6. 0 \in Indices  BY SlotsAssumption DEF Indices
<1>7. /\ items' = [items EXCEPT ![0] = i] /\ outside' = outside
      /\ heap' = heap \cup {i} /\ item' = [item EXCEPT ![t] = i]
      /\ pc' = [pc EXCEPT ![t] = "signal"]
  BY <1>3, <1>5 DEF AddRandomItem, Goes
<1>8. TypeOK'  BY <1>1, <1>6, <1>7 DEF Inv, TypeOK
<1>9. \A u \in Threads : pc'[u] = IF u = t THEN "signal" ELSE pc[u]
  BY <1>7 DEF Inv, TypeOK
<1>10. Ownership'  BY <1>1, <1>9 DEF Inv, Ownership, Holding
<1>11. RoundsInOrder'  BY <1>1, <1>9, OrderKept
<1>12. ThisRound'
  BY <1>1, <1>2, <1>3, <1>4, <1>9 DEF Inv, ThisRound, Past
<1>13. InBuffer'  BY <1>1, <1>2, <1>3, <1>4, <1>9 DEF InBuffer, Past
<1>14. BufferOfRound'
  <2>1. items' = [s \in Indices |-> IF s = 0 THEN i ELSE NULL]
    BY <1>4, <1>6, <1>7 DEF Inv, BufferOfRound
  <2>2. heap' = {i}  BY <1>4, <1>7 DEF Inv, BufferOfRound
  <2> QED  BY <1>1, <1>7, <1>13, <2>1, <2>2 DEF Inv, BufferOfRound
<1>15. Hands'
  <2> SUFFICES ASSUME NEW n \in Rounds
               PROVE  /\ pc'[Producer(n)] \in Past => item'[Producer(n)] = n
                      /\ pc'[Consumer(n)] \in Past \cup {"consume"} => item'[Consumer(n)] = n
                      /\ pc'[Consumer(n)] = "consume" => index'[Consumer(n)] = 0
    BY DEF Hands
  <2>1. \A u \in Threads : item'[u] = IF u = t THEN i ELSE item[u]
    BY <1>7 DEF Inv, TypeOK
  <2>2. Producer(n) \in Threads /\ Consumer(n) \in Threads /\ Consumer(n) # t
    BY <1>1, <1>2, ThreadFacts
  <2>3. Producer(n) = t => n = i  BY <1>1, <1>2, ThreadFacts
  <2> QED  BY <1>1, <1>9, <2>1, <2>2, <2>3 DEF Inv, Hands
<1> QED  BY <1>8, <1>10, <1>11, <1>12, <1>14, <1>15 DEF Inv

\* The consumer of the round finds the item in slot 0.
LEMMA GetStep ==
  ASSUME Inv, NEW t \in Threads, GetItem(t)
  PROVE  Inv'
<1>1. pc[t] = "test" /\ i \in Rounds /\ UNCHANGED <<items, heap, mutex, main, i>>
  BY DEF GetItem, Inv, TypeOK
<1>2. t = Consumer(i)
  <2>1. t = Producer(i) \/ t = Consumer(i)  BY <1>1, OfThisRound
  <2> QED  BY <1>1, <2>1, ThreadFacts DEF GetItem
<1>3. Producer(i) \in Threads /\ t # Producer(i)  BY <1>1, <1>2, ThreadFacts
<1>4. InBuffer
  <2>1. ~isBufEmpty  BY <1>1, <1>2, ThreadFacts DEF GetItem, MustWait
  <2> QED  BY <2>1, BufferFacts
<1>5. returnFullIndex = 0 /\ items[0] = i  BY <1>4, BufferFacts
<1>6. /\ outside' = outside
      /\ item' = [item EXCEPT ![t] = i] /\ index' = [index EXCEPT ![t] = 0]
      /\ pc' = [pc EXCEPT ![t] = "consume"]
  BY <1>5 DEF GetItem, Goes
<1>7. TypeOK'
  <2>1. 0 \in Indices  BY SlotsAssumption DEF Indices
  <2> QED  BY <1>1, <1>6, <2>1 DEF Inv, TypeOK
<1>8. \A u \in Threads : pc'[u] = IF u = t THEN "consume" ELSE pc[u]
  BY <1>6 DEF Inv, TypeOK
<1>9. Ownership'  BY <1>1, <1>8 DEF Inv, Ownership, Holding
<1>10. RoundsInOrder'  BY <1>1, <1>8, OrderKept
<1>11. pc[Producer(i)] = "done"
  <2>1. mutex = t  BY <1>1 DEF Inv, Ownership, Holding
  <2>2. pc[Producer(i)] \notin Holding  BY <1>3, <2>1 DEF Inv, Ownership
  <2> QED  BY <1>4, <2>2 DEF InBuffer, Past, Holding
<1>12. ThisRound'
  BY <1>1, <1>2, <1>3, <1>8, <1>11 DEF Inv, ThisRound, Past
<1>13. InBuffer'  BY <1>1, <1>2, <1>3, <1>8, <1>11 DEF InBuffer, Past
<1>14. BufferOfRound'  BY <1>1, <1>4, <1>6, <1>13 DEF Inv, BufferOfRound
<1>15. Hands'
  <2> SUFFICES ASSUME NEW n \in Rounds
               PROVE  /\ pc'[Producer(n)] \in Past => item'[Producer(n)] = n
                      /\ pc'[Consumer(n)] \in Past \cup {"consume"} => item'[Consumer(n)] = n
                      /\ pc'[Consumer(n)] = "consume" => index'[Consumer(n)] = 0
    BY DEF Hands
  <2>1. \A u \in Threads : /\ item'[u] = IF u = t THEN i ELSE item[u]
                           /\ index'[u] = IF u = t THEN 0 ELSE index[u]
    BY <1>6 DEF Inv, TypeOK
  <2>2. Producer(n) \in Threads /\ Consumer(n) \in Threads /\ Producer(n) # t
    BY <1>1, <1>2, ThreadFacts
  <2>3. Consumer(n) = t => n = i  BY <1>1, <1>2, ThreadFacts
  <2> QED  BY <1>8, <2>1, <2>2, <2>3 DEF Inv, Hands
<1> QED  BY <1>7, <1>9, <1>10, <1>12, <1>14, <1>15 DEF Inv

\* It frees the item and empties the slot.
LEMMA RemoveStep ==
  ASSUME Inv, NEW t \in Threads, RemoveItem(t)
  PROVE  Inv'
<1>1. pc[t] = "consume" /\ i \in Rounds /\ UNCHANGED <<mutex, item, index, main, i>>
  BY DEF RemoveItem, Inv, TypeOK, locals
<1>2. t = Consumer(i)
  <2>1. t = Producer(i) \/ t = Consumer(i)  BY <1>1, OfThisRound
  <2> QED  BY <1>1, <2>1 DEF Inv, ThisRound
<1>3. Producer(i) \in Threads /\ t # Producer(i)  BY <1>1, <1>2, ThreadFacts
<1>4. InBuffer /\ pc[Producer(i)] = "done" /\ index[t] = 0
  BY <1>1, <1>2 DEF Inv, ThisRound, InBuffer, Past, Hands
<1>5. items[0] = i  BY <1>4, BufferFacts
<1>6. /\ items' = [items EXCEPT ![0] = NULL] /\ heap' = heap \ {i} /\ outside' = outside
      /\ pc' = [pc EXCEPT ![t] = "signal"]
  BY <1>4, <1>5 DEF RemoveItem, Goes
<1>7. 0 \in Indices  BY SlotsAssumption DEF Indices
<1>8. TypeOK'  BY <1>1, <1>6, <1>7 DEF Inv, TypeOK
<1>9. \A u \in Threads : pc'[u] = IF u = t THEN "signal" ELSE pc[u]
  BY <1>6 DEF Inv, TypeOK
<1>10. Ownership'  BY <1>1, <1>9 DEF Inv, Ownership, Holding
<1>11. RoundsInOrder'  BY <1>1, <1>9, OrderKept
<1>12. ThisRound'
  BY <1>1, <1>2, <1>3, <1>4, <1>9 DEF Inv, ThisRound, Past
<1>13. ~InBuffer'  BY <1>1, <1>2, <1>9 DEF InBuffer, Past
<1>14. BufferOfRound'
  <2>1. items' = [s \in Indices |-> NULL]
    BY <1>4, <1>6, <1>7 DEF Inv, BufferOfRound
  <2>2. heap' = {}  BY <1>4, <1>6 DEF Inv, BufferOfRound
  <2> QED  BY <1>1, <1>6, <1>13, <2>1, <2>2 DEF Inv, BufferOfRound
<1>15. Hands'
  <2> SUFFICES ASSUME NEW n \in Rounds
               PROVE  /\ pc'[Producer(n)] \in Past => item'[Producer(n)] = n
                      /\ pc'[Consumer(n)] \in Past \cup {"consume"} => item'[Consumer(n)] = n
                      /\ pc'[Consumer(n)] = "consume" => index'[Consumer(n)] = 0
    BY DEF Hands
  <2>1. Producer(n) \in Threads /\ Consumer(n) \in Threads /\ Producer(n) # t
    BY <1>1, <1>2, ThreadFacts
  <2>2. Consumer(n) = t => n = i  BY <1>1, <1>2, ThreadFacts
  <2> QED  BY <1>1, <1>9, <2>1, <2>2 DEF Inv, Hands
<1> QED  BY <1>8, <1>10, <1>11, <1>12, <1>14, <1>15 DEF Inv

\* main starts the threads of a round, and begins the next when the consumer has
\* returned; the producer has, too.
LEMMA MainSteps ==
  ASSUME Inv, MainStep
  PROVE  Inv'
<1> DEFINE p == Producer(i)
           c == Consumer(i)
<1>1. i \in Rounds /\ p \in Threads /\ c \in Threads /\ p # c
  <2>1. i \in Rounds  BY DEF Inv, TypeOK
  <2> QED  BY <2>1, ThreadFacts
<1>2. ASSUME NEW t \in {p, c}, pc' = [pc EXCEPT ![t] = "lock"], pc[t] = "none", i' = i
      PROVE  /\ \A u \in Threads : pc'[u] = IF u = t THEN "lock" ELSE pc[u]
             /\ RoundsInOrder'
  <2>1. \A u \in Threads : pc'[u] = IF u = t THEN "lock" ELSE pc[u]
    BY <1>2 DEF Inv, TypeOK
  <2> SUFFICES ASSUME NEW n \in Rounds, n # i
               PROVE  pc'[Producer(n)] = pc[Producer(n)] /\ pc'[Consumer(n)] = pc[Consumer(n)]
    BY <1>1, <1>2, <2>1, RoundFacts DEF RoundsInOrder, Inv
  <2> QED  BY <1>1, <2>1, ThreadFacts
<1>3. CASE CreateProducer
  <2>1. pc[p] = "none" /\ pc[c] = "none"  BY <1>3 DEF CreateProducer, Inv, ThisRound
  <2>2. /\ pc' = [pc EXCEPT ![p] = "lock"] /\ main' = "create consumer"
        /\ UNCHANGED <<items, heap, outside, mutex, item, index, i>>
    BY <1>3 DEF CreateProducer, Goes, buffer, locals
  <2>3. TypeOK'  BY <2>2 DEF Inv, TypeOK
  <2>4. /\ \A u \in Threads : pc'[u] = IF u = p THEN "lock" ELSE pc[u]
        /\ RoundsInOrder'
    BY <1>2, <2>1, <2>2
  <2>5. Ownership'
    <3> SUFFICES ASSUME NEW u \in Threads  PROVE mutex' = u <=> pc'[u] \in Holding
      BY DEF Ownership
    <3>1. pc'[u] \in Holding <=> pc[u] \in Holding  BY <2>1, <2>4 DEF Holding
    <3> QED  BY <2>2, <3>1 DEF Inv, Ownership
  <2>10. pc'[p] = "lock" /\ pc'[c] = "none"  BY <1>1, <2>1, <2>4
  <2>11. i' = i /\ main' = "create consumer"  BY <2>2
  <2>6. ThisRound'  BY <2>10, <2>11 DEF ThisRound, Past
  <2>7. ~InBuffer /\ ~InBuffer'  BY <2>1, <2>10, <2>11 DEF InBuffer, Past
  <2>8. BufferOfRound'  BY <2>2, <2>7 DEF Inv, BufferOfRound
  <2>12. \A u \in Threads : /\ pc'[u] \in Past <=> pc[u] \in Past
                            /\ pc'[u] = "consume" <=> pc[u] = "consume"
    BY <2>1, <2>4 DEF Past
  <2>13. item' = item /\ index' = index  BY <2>2
  <2>9. Hands'
    <3> SUFFICES ASSUME NEW n \in Rounds
                 PROVE  /\ pc'[Producer(n)] \in Past => item[Producer(n)] = n
                        /\ pc'[Consumer(n)] \in Past \cup {"consume"} => item[Consumer(n)] = n
                        /\ pc'[Consumer(n)] = "consume" => index[Consumer(n)] = 0
      BY <2>13 DEF Hands
    <3>1. Producer(n) \in Threads /\ Consumer(n) \in Threads  BY ThreadFacts
    <3> QED  BY <2>12, <3>1 DEF Inv, Hands
  <2> QED  BY <2>3, <2>4, <2>5, <2>6, <2>8, <2>9 DEF Inv
<1>4. CASE CreateConsumer
  <2>1. pc[p] # "none" /\ pc[c] = "none" /\ pc[p] \notin {"waiting", "consume"}
    BY <1>4 DEF CreateConsumer, Inv, ThisRound
  <2>2. /\ pc' = [pc EXCEPT ![c] = "lock"] /\ main' = "join"
        /\ UNCHANGED <<items, heap, outside, mutex, item, index, i>>
    BY <1>4 DEF CreateConsumer, Goes, buffer, locals
  <2>3. TypeOK'  BY <2>2 DEF Inv, TypeOK
  <2>4. /\ \A u \in Threads : pc'[u] = IF u = c THEN "lock" ELSE pc[u]
        /\ RoundsInOrder'
    BY <1>2, <2>1, <2>2
  <2>5. Ownership'  BY <2>1, <2>2, <2>4 DEF Inv, Ownership, Holding
  <2>6. ThisRound'  BY <1>1, <2>1, <2>2, <2>4 DEF ThisRound, Past
  <2>7. InBuffer' <=> InBuffer  BY <1>1, <2>1, <2>2, <2>4 DEF InBuffer, Past
  <2>8. BufferOfRound'  BY <2>2, <2>7 DEF Inv, BufferOfRound
  <2>9. Hands'  BY <1>1, <2>2, <2>4, ThreadFacts DEF Inv, Hands, Past
  <2> QED  BY <2>3, <2>4, <2>5, <2>6, <2>8, <2>9 DEF Inv
<1>5. CASE JoinConsumer
  <2>1. pc[p] = "done" /\ pc[c] = "done" /\ main = "join"
    BY <1>5 DEF JoinConsumer, Inv, ThisRound, Past
  <2>2. UNCHANGED <<items, heap, outside, mutex, pc, item, index>>
    BY <1>5 DEF JoinConsumer, buffer, locals
  <2>3. Ownership' /\ Hands'  BY <2>2 DEF Inv, Ownership, Hands
  <2>4. ~InBuffer  BY <2>1 DEF InBuffer, Past
  <2>5. CASE i < Loops
    <3>1. main' = "create producer" /\ i' = i + 1  BY <1>5, <2>5 DEF JoinConsumer
    <3>2. i + 1 \in Rounds  BY <1>1, <2>5, RoundFacts
    <3>3. TypeOK'  BY <2>2, <3>1, <3>2 DEF Inv, TypeOK
    <3>4. RoundsInOrder'
      <4> SUFFICES ASSUME NEW n \in Rounds
                   PROVE  /\ n < i + 1 => pc[Producer(n)] = "done" /\ pc[Consumer(n)] = "done"
                          /\ n > i + 1 => pc[Producer(n)] = "none" /\ pc[Consumer(n)] = "none"
        BY <2>2, <3>1 DEF RoundsInOrder
      <4>1. /\ n < i + 1 => n < i \/ n = i
            /\ n > i + 1 => n > i
        BY <1>1, RoundFacts
      <4> QED  BY <2>1, <4>1 DEF Inv, RoundsInOrder
    <3>5. pc'[Producer(i')] = "none" /\ pc'[Consumer(i')] = "none"
      <4>1. i + 1 > i  BY <1>1, RoundFacts
      <4> QED  BY <2>2, <3>1, <3>2, <4>1 DEF Inv, RoundsInOrder
    <3>6. ThisRound'  BY <3>1, <3>5 DEF ThisRound, Past
    <3>7. ~InBuffer'  BY <3>5 DEF InBuffer, Past
    <3>8. BufferOfRound'  BY <2>2, <2>4, <3>7 DEF Inv, BufferOfRound
    <3> QED  BY <2>3, <3>3, <3>4, <3>6, <3>8 DEF Inv
  <2>6. CASE ~(i < Loops)
    <3>1. main' = "return" /\ i' = i  BY <1>5, <2>6 DEF JoinConsumer
    <3>2. i = Loops  BY <1>1, <2>6, RoundFacts
    <3>3. TypeOK'  BY <2>2, <3>1 DEF Inv, TypeOK
    <3>4. RoundsInOrder'  BY <2>2, <3>1 DEF Inv, RoundsInOrder
    <3>5. ThisRound'  BY <2>1, <2>2, <3>1, <3>2 DEF ThisRound, Past
    <3>6. ~InBuffer'  BY <2>2, <2>4, <3>1 DEF InBuffer
    <3>7. BufferOfRound'  BY <2>2, <2>4, <3>6 DEF Inv, BufferOfRound
    <3> QED  BY <2>3, <3>3, <3>4, <3>5, <3>7 DEF Inv
  <2> QED  BY <2>5, <2>6
<1> QED  BY <1>3, <1>4, <1>5 DEF MainStep

\* The invariant is kept by every step.
LEMMA InvNext == Inv /\ [Next]_vars => Inv'
<1> SUFFICES ASSUME Inv, [Next]_vars  PROVE Inv'  OBVIOUS
<1>1. CASE UNCHANGED vars
  BY <1>1 DEF vars, buffer, locals, Inv, TypeOK, Ownership, RoundsInOrder, ThisRound,
              BufferOfRound, InBuffer, Hands
<1>2. CASE MainStep  BY <1>2, MainSteps
<1>3. ASSUME NEW t \in Threads, ThreadStep(t)  PROVE Inv'
  <2>1. CASE AddRandomItem(t)  BY <2>1, AddStep
  <2>2. CASE GetItem(t)  BY <2>2, GetStep
  <2>3. CASE RemoveItem(t)  BY <2>3, RemoveStep
  <2>4. CASE Lock(t) \/ CondWait(t) \/ SpuriousWakeup(t) \/ CondSignal(t) \/ Unlock(t)
    BY <2>4, SyncSteps
  <2> QED  BY <1>3, <2>1, <2>2, <2>3, <2>4 DEF ThreadStep, Running
<1> QED  BY <1>1, <1>2, <1>3 DEF Next, Exited

\* The inductive invariant: at most one item, of the round under way, in slot 0.
THEOREM OneItem == Spec => []Inv
<1> QED  BY InvInit, InvNext, PTL DEF Spec

\* The variables have their types.
THEOREM TypeCorrect == Spec => []TypeOK
<1>1. Inv => TypeOK  BY DEF Inv
<1> QED  BY OneItem, <1>1, PTL

\* addRandomItem and getItem always find a slot.
THEOREM IndexAlwaysFound == Spec => []IndexFound
<1>1. Inv => IndexFound  BY DEF Inv, BufferOfRound, IndexFound
<1> QED  BY OneItem, <1>1, PTL

\* No pointer dangles, and no item is lost or in two slots.
THEOREM NoneDangles == Spec => []ItemsLive
<1>1. Inv => ItemsLive
  <2> SUFFICES ASSUME Inv  PROVE ItemsLive  OBVIOUS
  <2>1. i \in Rounds  BY DEF Inv, TypeOK
  <2>2. i # NULL  BY <2>1, RoundFacts
  <2>3. 0 \in Indices  BY SlotsAssumption DEF Indices
  <2>4. \A s \in Indices : items[s] = IF InBuffer /\ s = 0 THEN i ELSE NULL
    BY DEF Inv, BufferOfRound
  <2>5. ASSUME NEW t \in Threads, pc[t] = "consume"
        PROVE  item[t] \in heap /\ items[index[t]] = item[t]
    <3>1. t = Consumer(i)
      <4>1. t = Producer(i) \/ t = Consumer(i)  BY <2>5, OfThisRound
      <4> QED  BY <2>5, <4>1 DEF Inv, ThisRound
    <3>2. item[t] = i /\ index[t] = 0  BY <2>1, <2>5, <3>1 DEF Inv, Hands
    <3>3. InBuffer  BY <2>5, <3>1 DEF Inv, ThisRound, InBuffer, Past
    <3> QED  BY <2>3, <2>4, <3>2, <3>3 DEF Inv, BufferOfRound
  <2>6. heap = {items[s] : s \in Indices} \ {NULL}
    <3>1. CASE InBuffer
      <4>1. heap = {i} /\ items[0] = i  BY <2>3, <2>4, <3>1 DEF Inv, BufferOfRound
      <4>2. \A s \in Indices : items[s] \in {i, NULL}  BY <2>4
      <4> QED  BY <2>2, <2>3, <4>1, <4>2
    <3>2. CASE ~InBuffer
      <4>1. heap = {}  BY <3>2 DEF Inv, BufferOfRound
      <4>2. \A s \in Indices : items[s] = NULL  BY <2>4, <3>2
      <4> QED  BY <4>1, <4>2
    <3> QED  BY <3>1, <3>2
  <2>7. \A r, s \in Indices : r # s /\ items[r] = items[s] => items[r] = NULL
    BY <2>2, <2>4
  <2> QED  BY <2>5, <2>6, <2>7 DEF ItemsLive
<1> QED  BY OneItem, <1>1, PTL

\* No thread of an earlier round is left, and the buffer is empty, when a round
\* begins and when main returns.
THEOREM RoundsAlwaysEndClean == Spec => []RoundsEndClean
<1>1. Inv => RoundsEndClean
  <2> SUFFICES ASSUME Inv, main \in {"create producer", "return"}
               PROVE  /\ mutex = Main
                      /\ isBufEmpty
                      /\ \A t \in Threads : pc[t] \in {"none", "done"}
    BY DEF RoundsEndClean
  <2>1. \A t \in Threads : pc[t] \in {"none", "done"}
    <3> SUFFICES ASSUME NEW t \in Threads, pc[t] \notin {"none", "done"}  PROVE FALSE
      OBVIOUS
    <3>1. t = Producer(i) \/ t = Consumer(i)  BY OfThisRound
    <3> QED  BY <3>1 DEF Inv, ThisRound, Past
  <2>2. mutex = Main
    <3>1. mutex \in Threads \cup {Main}  BY DEF Inv, TypeOK
    <3>2. \A t \in Threads : mutex # t  BY <2>1 DEF Inv, Ownership, Holding
    <3> QED  BY <3>1, <3>2
  <2>3. ~InBuffer  BY DEF Inv, ThisRound, InBuffer, Past
  <2> QED  BY <2>1, <2>2, <2>3, BufferFacts
<1> QED  BY OneItem, <1>1, PTL

--------------------------------------------------------------------------------
(* That nobody waits for ever is liveness, and not provable here; what is proved is   *)
(* that a state in which everyone waits is not reached.                      *)

\* The threads that wait are of the round, and its producer has yet to signal.
SignalToCome ==
  \A t \in Threads : pc[t] = "waiting" =>
    \E p \in Threads : p = Producer(t[2]) /\ pc[p] \in {"lock", "test", "signal"}

\* A thread that needs nobody else for its next step.
GoesOn(t) == pc[t] \in Holding \/ (pc[t] = "lock" /\ mutex = Main)

\* Main can create a thread, go on with the next loop or has returned, or else a
\* thread of the round can go on.
SomebodyGoesOn ==
  \/ main # "join"
  \/ pc[Consumer(i)] = "done"
  \/ \E t \in Threads : GoesOn(t)

NotForgotten == pc[Consumer(i)] = "waiting" => pc[Producer(i)] \in {"lock", "test", "signal"}

\* The consumer tests the buffer and begins to wait in one hold of the mutex, so
\* that its producer has not been there; when it signals, nobody else waits.
LEMMA NotForgottenStep == Inv /\ Inv' /\ NotForgotten /\ [Next]_vars => NotForgotten'
<1> SUFFICES ASSUME Inv, Inv', NotForgotten, [Next]_vars, pc'[Consumer(i')] = "waiting"
             PROVE  pc'[Producer(i')] \in {"lock", "test", "signal"}
  BY DEF NotForgotten
<1>1. i \in Rounds /\ i \in Nat /\ pc \in [Threads -> {"none", "lock", "test", "waiting", "consume", "signal", "unlock", "done"}]
  <2>1. i \in Rounds  BY DEF Inv, TypeOK
  <2> QED  BY <2>1, RoundFacts DEF Inv, TypeOK
<1> DEFINE p == Producer(i)
           c == Consumer(i)
<1>2. p \in Threads /\ c \in Threads /\ p # c /\ p[1] = "producer" /\ c[1] = "consumer"
  BY <1>1, ThreadFacts
<1>3. CASE UNCHANGED vars  BY <1>3 DEF vars, NotForgotten
<1>4. CASE MainStep
  <2>1. CASE CreateProducer
    <3>1. pc[c] = "none" /\ i' = i /\ pc'[c] = pc[c]
      BY <1>1, <1>2, <2>1 DEF CreateProducer, Goes, Inv, ThisRound
    <3> QED  BY <3>1
  <2>2. CASE CreateConsumer
    <3>1. i' = i /\ pc'[c] = "lock"  BY <1>1, <1>2, <2>2 DEF CreateConsumer, Goes
    <3> QED  BY <3>1
  <2>3. CASE JoinConsumer
    <3>1. pc' = pc /\ pc[c] = "done" /\ (i' = i \/ i' = i + 1)  BY <2>3 DEF JoinConsumer
    <3>2. i' \in Rounds  BY DEF Inv, TypeOK
    <3>3. i' = i + 1 => pc[Consumer(i')] = "none"  BY <1>1, <3>2 DEF Inv, RoundsInOrder
    <3> QED  BY <3>1, <3>3
  <2> QED  BY <1>4, <2>1, <2>2, <2>3 DEF MainStep
<1>5. ASSUME NEW t \in Threads, ThreadStep(t)
      PROVE  pc'[Producer(i')] \in {"lock", "test", "signal"}
  <2>1. i' = i /\ main' = main /\ pc[t] \notin {"none", "done"}
    BY <1>5 DEF ThreadStep, Running, Lock, CondWait, SpuriousWakeup, AddRandomItem, GetItem, RemoveItem,
       CondSignal, Unlock
  <2>2. t = p \/ t = c  BY <2>1, OfThisRound
  <2> HIDE DEF p, c
  <2>3. /\ pc'[c] = "waiting"
        /\ pc[c] = "waiting" => pc[p] \in {"lock", "test", "signal"}
    BY <2>1 DEF p, c, NotForgotten
  <2> SUFFICES pc'[p] \in {"lock", "test", "signal"}  BY <2>1 DEF p
  <2>4. CASE Lock(t) \/ SpuriousWakeup(t)
    BY <1>1, <1>2, <2>2, <2>3, <2>4 DEF Lock, SpuriousWakeup, Goes
  <2>5. CASE AddRandomItem(t) \/ GetItem(t) \/ RemoveItem(t)
    <3>1. \E label \in {"signal", "consume"} : Goes(t, label) /\ (label = "consume" => t[1] = "consumer")
      BY <2>5 DEF AddRandomItem, GetItem, RemoveItem
    <3> QED  BY <1>1, <1>2, <2>2, <2>3, <3>1 DEF Goes
  <2>6. CASE CondWait(t)
    <3>1. pc' = [pc EXCEPT ![t] = "waiting"] /\ pc[t] = "test" /\ MustWait(t)  BY <2>6 DEF CondWait, Goes
    <3>2. pc'[p] # "waiting"  BY <2>1 DEF p, Inv, ThisRound
    <3>3. t = c /\ pc'[p] = pc[p]  BY <1>1, <1>2, <2>2, <3>1, <3>2
    <3>4. isBufEmpty /\ ~InBuffer  BY <1>2, <3>1, <3>3, BufferFacts DEF MustWait
    <3>5. pc[p] \notin Past  BY <3>1, <3>3, <3>4 DEF InBuffer, p, c, Past
    <3>6. pc[p] \notin {"none", "waiting", "consume"}  BY <3>1, <3>3 DEF Inv, ThisRound, p, c
    <3> QED  BY <1>1, <1>2, <3>3, <3>5, <3>6 DEF Past
  <2>7. CASE CondSignal(t)
    <3> DEFINE waiting == {w \in Threads : pc[w] = "waiting"}
    <3>1. pc[t] = "signal" /\ (waiting = {} => pc' = [pc EXCEPT ![t] = "unlock"])
          /\ (waiting # {} => \E w \in waiting : pc' = [pc EXCEPT ![t] = "unlock", ![w] = "lock"])
      BY <2>7 DEF CondSignal, Goes
    <3>2. waiting \subseteq {c}
      <4>1. \A w \in waiting : w = p \/ w = c  BY OfThisRound DEF p, c
      <4>2. pc[p] # "waiting"  BY DEF Inv, ThisRound, p
      <4> QED  BY <4>1, <4>2
    <3>3. t # c  BY <1>1, <1>2, <2>3, <3>1, <3>2
    <3>4. waiting = {} => FALSE
      <4>1. ASSUME waiting = {}  PROVE pc'[c] = pc[c]  BY <1>1, <1>2, <3>1, <3>3, <4>1
      <4> QED  BY <1>2, <2>3, <4>1
    <3>5. pc' = [pc EXCEPT ![t] = "unlock", ![c] = "lock"]  BY <3>1, <3>2, <3>4
    <3> QED  BY <1>1, <1>2, <2>3, <3>5
  <2>8. CASE Unlock(t)
    <3>1. pc' = [pc EXCEPT ![t] = "done"] /\ pc[t] = "unlock"  BY <2>8 DEF Unlock, Goes
    <3> QED  BY <1>1, <1>2, <2>2, <2>3, <3>1
  <2> QED  BY <1>5, <2>4, <2>5, <2>6, <2>7, <2>8 DEF ThreadStep, Running
<1> QED  BY <1>3, <1>4, <1>5 DEF Next, Exited

\* No wakeup is lost and no deadlock comes, for any number of loops: a thread waits
\* on the condition only while its producer has yet to signal, and as long as main
\* has not returned somebody can go on.
THEOREM NoDeadlock == Spec => [](SignalToCome /\ SomebodyGoesOn)
<1>1. Init => NotForgotten
  <2> SUFFICES ASSUME Init  PROVE pc[Consumer(i)] # "waiting"  BY DEF NotForgotten
  <2>1. i = 1 /\ Consumer(i) \in Threads  BY RoundFacts, ThreadFacts DEF Init
  <2> QED  BY <2>1 DEF Init
<1>2. Inv /\ NotForgotten => SignalToCome /\ SomebodyGoesOn
  <2> SUFFICES ASSUME Inv, NotForgotten  PROVE SignalToCome /\ SomebodyGoesOn  OBVIOUS
  <2>1. i \in Rounds  BY DEF Inv, TypeOK
  <2>2. Producer(i) \in Threads /\ Consumer(i) \in Threads /\ Consumer(i)[2] = i
    BY <2>1, ThreadFacts
  <2>3. SignalToCome
    <3> SUFFICES ASSUME NEW t \in Threads, pc[t] = "waiting"
                 PROVE  \E p \in Threads : p = Producer(t[2]) /\ pc[p] \in {"lock", "test", "signal"}
      BY DEF SignalToCome
    <3>1. t = Consumer(i)
      <4>1. t = Producer(i) \/ t = Consumer(i)  BY OfThisRound
      <4> QED  BY <4>1 DEF Inv, ThisRound
    <3> QED  BY <2>2, <3>1 DEF NotForgotten
  <2>4. SomebodyGoesOn
    <3> SUFFICES ASSUME main = "join", pc[Consumer(i)] # "done", mutex = Main
                 PROVE  \E t \in Threads : pc[t] = "lock"
      <4>1. mutex \in Threads => GoesOn(mutex)  BY DEF Inv, Ownership, GoesOn
      <4>2. mutex \in Threads \cup {Main}  BY DEF Inv, TypeOK
      <4> QED  BY <4>1, <4>2 DEF SomebodyGoesOn, GoesOn
    <3>1. \A t \in Threads : pc[t] \notin Holding  BY ThreadFacts DEF Inv, Ownership
    <3>2. pc[Consumer(i)] # "none"  BY DEF Inv, ThisRound
    <3>3. pc[Consumer(i)] \in {"lock", "waiting"}  BY <2>2, <3>1, <3>2 DEF Inv, TypeOK, Holding
    <3>4. pc[Consumer(i)] = "waiting" => pc[Producer(i)] = "lock"
      BY <2>2, <3>1 DEF NotForgotten, Holding
    <3> QED  BY <2>2, <3>3, <3>4
  <2> QED  BY <2>3, <2>4
<1> QED  BY <1>1, <1>2, NotForgottenStep, OneItem, PTL DEF Spec

--------------------------------------------------------------------------------
UpTo(n, b) == IF b THEN 1 .. n ELSE 1 .. n - 1

Mapped == /\ AllMade = UpTo(i, pc[Producer(i)] \in Past)
          /\ AllEaten = UpTo(i, pc[Consumer(i)] \in Past)

\* A set of rounds that holds those before the n-th and none after it.
LEMMA UpToFact ==
  ASSUME NEW n \in Rounds, NEW S \in SUBSET Rounds,
         \A m \in Rounds : (m < n => m \in S) /\ (m > n => m \notin S)
  PROVE  S = UpTo(n, n \in S)
<1>1. n \in Nat /\ n <= Loops  BY RoundFacts
<1>2. \A m : m \in S => m \in Rounds  OBVIOUS
<1>3. \A m : m \in Rounds <=> m \in Nat /\ 1 <= m /\ m <= Loops
  BY LoopsAssumption DEF Rounds
<1>4. CASE n \in S
  <2>1. \A m : m \in S <=> m \in Nat /\ 1 <= m /\ m <= n
    BY <1>1, <1>2, <1>3, <1>4, LoopsAssumption
  <2>3. \A m : m \in 1 .. n <=> m \in Nat /\ 1 <= m /\ m <= n  BY <1>1
  <2>2. S = 1 .. n  BY ONLY <2>1, <2>3, Zenon
  <2> QED  BY <1>4, <2>2 DEF UpTo
<1>5. CASE n \notin S
  <2>1. \A m : m \in S <=> m \in Nat /\ 1 <= m /\ m < n
    BY <1>1, <1>2, <1>3, <1>5, LoopsAssumption
  <2>3. \A m : m \in 1 .. n - 1 <=> m \in Nat /\ 1 <= m /\ m < n  BY <1>1
  <2>2. S = 1 .. n - 1  BY ONLY <2>1, <2>3, Zenon
  <2> QED  BY <1>5, <2>2 DEF UpTo
<1> QED  BY <1>4, <1>5

\* What the mapping to Handoff is, by the invariant.
LEMMA MappedTo == Inv => Mapped
<1> SUFFICES ASSUME Inv  PROVE Mapped  OBVIOUS
<1>1. i \in Rounds  BY DEF Inv, TypeOK
<1>2. AllMade = {n \in Rounds : pc[Producer(n)] \in Past}
  BY DEF AllMade, Inv, Hands, Past
<1>3. AllEaten = {n \in Rounds : pc[Consumer(n)] \in Past}
  BY DEF AllEaten, Inv, Hands, Past
<1>4. \A n \in Rounds :
        /\ n < i => pc[Producer(n)] \in Past /\ pc[Consumer(n)] \in Past
        /\ n > i => pc[Producer(n)] \notin Past /\ pc[Consumer(n)] \notin Past
  BY DEF Inv, RoundsInOrder, Past
<1>6. AllMade \in SUBSET Rounds /\ AllEaten \in SUBSET Rounds  BY <1>2, <1>3
<1>7. AllMade = UpTo(i, i \in AllMade)  BY <1>1, <1>2, <1>4, <1>6, UpToFact
<1>8. AllEaten = UpTo(i, i \in AllEaten)  BY <1>1, <1>3, <1>4, <1>6, UpToFact
<1>9. /\ i \in AllMade <=> pc[Producer(i)] \in Past
      /\ i \in AllEaten <=> pc[Consumer(i)] \in Past
  BY <1>1, <1>2, <1>3
<1> QED  BY <1>7, <1>8, <1>9 DEF Mapped, UpTo

LEMMA MappedToNext == Inv' => Mapped'
BY MappedTo, PTL

\* A step that crosses no access to the buffer, in a round that goes on.
LEMMA NothingHandedOver ==
  ASSUME Inv, Inv', i' = i,
         pc'[Producer(i)] \in Past <=> pc[Producer(i)] \in Past,
         pc'[Consumer(i)] \in Past <=> pc[Consumer(i)] \in Past
  PROVE  UNCHANGED <<AllMade, AllEaten>>
BY MappedTo, MappedToNext DEF Mapped, UpTo

\* Every step is a step of Handoff or leaves it alone.
LEMMA HandoffStep == Inv /\ Inv' /\ [Next]_vars => [H!Next]_<<AllMade, AllEaten>>
<1> SUFFICES ASSUME Inv, Inv', [Next]_vars  PROVE [H!Next]_<<AllMade, AllEaten>>
  OBVIOUS
<1> DEFINE p == Producer(i)
           c == Consumer(i)
<1>1. i \in Rounds /\ p \in Threads /\ c \in Threads /\ p # c
  <2>1. i \in Rounds  BY DEF Inv, TypeOK
  <2> QED  BY <2>1, ThreadFacts
<1>2. Mapped /\ Mapped'  BY MappedTo, MappedToNext
<1>3. CASE UNCHANGED vars
  <2>1. pc' = pc /\ i' = i  BY <1>3 DEF vars
  <2> QED  BY <2>1, NothingHandedOver
<1>4. CASE CreateProducer \/ CreateConsumer
  <2>1. i' = i /\ \E t \in {p, c} : pc[t] = "none" /\ pc' = [pc EXCEPT ![t] = "lock"]
    BY <1>4 DEF CreateProducer, CreateConsumer, Goes, Inv, ThisRound
  <2>2. PICK t \in {p, c} : pc[t] = "none" /\ pc' = [pc EXCEPT ![t] = "lock"]  BY <2>1
  <2>3. \A u \in Threads : pc'[u] \in Past <=> pc[u] \in Past
    BY <1>1, <2>2 DEF Past, Inv, TypeOK
  <2> QED  BY <1>1, <2>1, <2>3, NothingHandedOver
<1>5. CASE JoinConsumer
  <2>1. pc[p] = "done" /\ pc[c] = "done" /\ pc' = pc
    BY <1>5 DEF JoinConsumer, Inv, ThisRound, Past
  <2>2. CASE i' = i  BY <2>1, <2>2, NothingHandedOver
  <2>3. CASE i' # i
    <3>1. i < Loops /\ i' = i + 1  BY <1>5, <2>3 DEF JoinConsumer
    <3>2. i + 1 \in Rounds /\ i + 1 > i /\ (i + 1) - 1 = i  BY <1>1, <3>1, RoundFacts
    <3>3. pc'[Producer(i')] = "none" /\ pc'[Consumer(i')] = "none"
      BY <2>1, <3>1, <3>2 DEF Inv, RoundsInOrder
    <3>4. AllMade' = 1 .. i /\ AllEaten' = 1 .. i
      BY <1>2, <3>1, <3>2, <3>3 DEF Mapped, UpTo, Past
    <3>5. AllMade = 1 .. i /\ AllEaten = 1 .. i
      BY <1>2, <2>1 DEF Mapped, UpTo, Past
    <3> QED  BY <3>4, <3>5
  <2> QED  BY <2>2, <2>3
<1>6. ASSUME NEW t \in Threads, ThreadStep(t)  PROVE [H!Next]_<<AllMade, AllEaten>>
  <2>1. i' = i
    BY <1>6 DEF ThreadStep, Running, Lock, CondWait, SpuriousWakeup, AddRandomItem, GetItem,
                RemoveItem, CondSignal, Unlock
  <2>2. CASE AddRandomItem(t)
    <3>1. pc[t] = "test" /\ pc' = [pc EXCEPT ![t] = "signal"]  BY <2>2 DEF AddRandomItem, Goes
    <3>2. t = p
      <4>1. t = p \/ t = c  BY <3>1, OfThisRound
      <4> QED  BY <1>1, <2>2, <4>1, ThreadFacts DEF AddRandomItem
    <3>3. pc'[p] = "signal" /\ pc'[c] = pc[c]  BY <1>1, <3>1, <3>2 DEF Inv, TypeOK
    <3>4. pc[c] \notin Past  BY <3>1, <3>2 DEF Inv, ThisRound
    <3>5. AllMade = 1 .. i - 1 /\ AllEaten = 1 .. i - 1
      BY <1>2, <3>1, <3>2, <3>4 DEF Mapped, UpTo, Past
    <3>6. AllMade' = 1 .. i /\ AllEaten' = 1 .. i - 1
      BY <1>2, <2>1, <3>3, <3>4 DEF Mapped, UpTo, Past
    <3>7. H!Make(i)  BY <1>1, <3>5, <3>6 DEF H!Make, Rounds
    <3> QED  BY <1>1, <3>7 DEF H!Next, Rounds
  <2>3. CASE RemoveItem(t)
    <3>1. pc[t] = "consume" /\ pc' = [pc EXCEPT ![t] = "signal"]  BY <2>3 DEF RemoveItem, Goes
    <3>2. t = c
      <4>1. t = p \/ t = c  BY <3>1, OfThisRound
      <4> QED  BY <3>1, <4>1 DEF Inv, ThisRound
    <3>3. pc'[c] = "signal" /\ pc'[p] = pc[p]  BY <1>1, <3>1, <3>2 DEF Inv, TypeOK
    <3>4. pc[p] = "done"  BY <3>1, <3>2 DEF Inv, ThisRound
    <3>5. AllMade = 1 .. i /\ AllEaten = 1 .. i - 1
      BY <1>2, <3>1, <3>2, <3>4 DEF Mapped, UpTo, Past
    <3>6. AllMade' = 1 .. i /\ AllEaten' = 1 .. i
      BY <1>2, <2>1, <3>3, <3>4 DEF Mapped, UpTo, Past
    <3>7. i \in Nat /\ 1 <= i  BY <1>1, RoundFacts
    <3>8. (1 .. i) \ (1 .. i - 1) = {i} /\ 1 .. i = (1 .. i - 1) \cup {i}  BY <3>7
    <3>9. H!Eat(i)  BY <3>5, <3>6, <3>8 DEF H!Eat
    <3> QED  BY <1>1, <3>9 DEF H!Next, Rounds
  <2>4. CASE ~AddRandomItem(t) /\ ~RemoveItem(t)
    <3>1. \A u \in Threads : pc'[u] \in Past <=> pc[u] \in Past
      <4>1. CASE Lock(t) \/ CondWait(t) \/ SpuriousWakeup(t) \/ GetItem(t) \/ Unlock(t)
        BY <4>1 DEF Lock, CondWait, SpuriousWakeup, GetItem, Unlock, Goes, Past, Inv, TypeOK
      <4>2. CASE CondSignal(t)
        BY <4>2 DEF CondSignal, Goes, Past, Inv, TypeOK
      <4> QED  BY <1>6, <2>4, <4>1, <4>2 DEF ThreadStep, Running
    <3> QED  BY <1>1, <2>1, <3>1, NothingHandedOver
  <2> QED  BY <2>2, <2>3, <2>4
<1> QED  BY <1>3, <1>4, <1>5, <1>6 DEF Next, MainStep, Exited

\* Whatever the size of the buffer, the program hands over one item at a time, in
\* order: a producer never adds to a buffer that holds one, and never waits.
THEOREM Refinement == Spec => ImplementsHandoff
<1>1. Init => H!Init
  <2> SUFFICES ASSUME Init  PROVE AllMade = {} /\ AllEaten = {}  BY DEF H!Init
  <2>1. \A t \in Threads : pc[t] = "none"  BY DEF Init
  <2> QED  BY <2>1, ThreadFacts DEF AllMade, AllEaten
<1> QED  BY <1>1, InvInit, InvNext, HandoffStep, PTL DEF Spec, ImplementsHandoff, H!Spec, H!handoffVars

--------------------------------------------------------------------------------
\* The remainder of C lies between the ends of its own side of zero.
LEMMA RemFact ==
  ASSUME NEW a \in Int, NEW b \in Nat \ {0}
  PROVE  /\ Rem(a, b) \in Int
         /\ a >= 0 => Rem(a, b) \in 0 .. b - 1
         /\ a < 0 => Rem(a, b) \in -(b - 1) .. 0
<1>1. a % b \in 0 .. b - 1  OBVIOUS
<1> QED  BY <1>1 DEF Rem

\* abs gives no negative number except the one it cannot negate.
LEMMA AbsFact ==
  ASSUME NEW n \in IntMin .. IntMax
  PROVE  abs(n) \in Int /\ (abs(n) >= 0 \/ abs(n) = IntMin)
BY IntAssumption DEF abs

\* The ranges of the callers.
LEMMA BoundFacts ==
  ASSUME NEW c \in Calls
  PROVE  LB(c) \in Nat /\ UB(c) \in Nat /\ LB(c) < UB(c)
BY DEF Calls, LB, UB

\* What one call returns.
LEMMA OneCall ==
  ASSUME NEW c \in Calls, NEW n \in Int, n >= 0 \/ n = IntMin
  PROVE  \/ genNumberWithinRange(n, c) \in LB(c) .. UB(c)
         \/ n = IntMin /\ genNumberWithinRange(n, c) \in 2 * LB(c) - UB(c) .. LB(c) - 1
<1> DEFINE b == UB(c) + 1 - LB(c)
<1>1. LB(c) \in Nat /\ UB(c) \in Nat /\ LB(c) < UB(c) /\ b \in Nat \ {0}  BY BoundFacts
<1>2. genNumberWithinRange(n, c) = Rem(n, b) + LB(c)  BY DEF genNumberWithinRange
<1> HIDE DEF b
<1>3. CASE n >= 0
  <2>1. Rem(n, b) \in 0 .. b - 1  BY <1>1, <1>3, RemFact
  <2> QED  BY <1>1, <1>2, <2>1 DEF b
<1>4. CASE n < 0
  <2>1. Rem(n, b) \in -(b - 1) .. 0  BY <1>1, <1>4, RemFact
  <2>2. n = IntMin  BY <1>4
  <2> QED  BY <1>1, <1>2, <2>1, <2>2 DEF b
<1> QED  BY <1>3, <1>4

\* What a number that may be drawn for c satisfies.
InRange(g, c) ==
  \/ g.result \in LB(c) .. UB(c)
  \/ g.num = IntMin /\ g.result \in 2 * LB(c) - UB(c) .. LB(c) - 1

\* Whatever rdrand or the twister gives, generateNumber keeps to the range.
LEMMA GenerateNumber ==
  ASSUME NEW c \in Calls, NEW supported \in BOOLEAN, NEW g \in generateNumber(c, supported)
  PROVE  InRange(g, c)
<1>1. PICK n \in IF supported THEN rdrand ELSE twister :
        g = [num |-> n, result |-> genNumberWithinRange(n, c)]
  BY DEF generateNumber
<1>2. PICK m \in Draws \cup {0} : n = abs(m)  BY DEF rdrand, twister
<1>3. m \in IntMin .. IntMax  BY IntAssumption, DrawsAssumption
<1>4. n \in Int /\ (n >= 0 \/ n = IntMin)  BY <1>2, <1>3, AbsFact
<1> QED  BY <1>1, <1>4, OneCall DEF InRange

\* The three numbers of an item.
LEMMA NumbersInRange ==
  ASSUME NEW supported \in BOOLEAN,
         NEW w \in generateNumber("producerVal", supported),
         NEW r \in generateNumber("itemFirstVal", supported),
         NEW s \in generateNumber("itemSecondVal", supported),
         NEW c \in Calls
  PROVE  InRange(Numbers(w, r, s)[c], c)
<1>1. CASE c = "producerVal"    BY <1>1, GenerateNumber DEF Numbers
<1>2. CASE c = "itemFirstVal"   BY <1>2, GenerateNumber DEF Numbers
<1>3. CASE c = "itemSecondVal"  BY <1>3, GenerateNumber DEF Numbers
<1> QED  BY <1>1, <1>2, <1>3 DEF Calls

InvNumbers == \A n \in heap, c \in Calls : InRange(drawn[n][c], c)

\* InvNumbers is the property.
LEMMA SameProperty == InvNumbers <=> OnlyIntMin
BY DEF InvNumbers, OnlyIntMin, InRange

\* Steps that make no item and free none keep the items.
LEMMA MovesKeepItems == ASSUME NEW t \in Threads, Moves(t) PROVE heap' = heap /\ drawn' = drawn
BY DEF Moves, Lock, SpuriousWakeup, CondWait, GetItem, CondSignal, Unlock, buffer

\* Neither does main.
LEMMA MainKeepsItems == ASSUME MainStep \/ Exited PROVE heap' = heap
BY DEF MainStep, Exited, CreateProducer, CreateConsumer, JoinConsumer, vars, buffer

\* An item is made with numbers in range, and freed with its numbers.
LEMMA StepKeepsNumbers == InvNumbers /\ [NNext]_nvars => InvNumbers'
<1> SUFFICES ASSUME InvNumbers, [NNext]_nvars PROVE InvNumbers'
  OBVIOUS
<1>1. CASE heap' = heap /\ drawn' = drawn  BY <1>1 DEF InvNumbers
<1>2. CASE UNCHANGED nvars  BY <1>1, <1>2 DEF nvars, vars, buffer
<1>3. CASE (MainStep \/ Exited) /\ UNCHANGED drawn  BY <1>1, <1>3, MainKeepsItems
<1>4. ASSUME NEW t \in Threads, createRandomItem(t) PROVE InvNumbers'
  <2>0. PICK supported \in BOOLEAN :
          \E w \in generateNumber("producerVal", supported),
             r \in generateNumber("itemFirstVal", supported),
             s \in generateNumber("itemSecondVal", supported) :
               drawn' = [n \in heap' |-> IF n \in heap THEN drawn[n] ELSE Numbers(w, r, s)]
    BY <1>4 DEF createRandomItem
  <2>1. PICK w \in generateNumber("producerVal", supported),
             r \in generateNumber("itemFirstVal", supported),
             s \in generateNumber("itemSecondVal", supported) :
               drawn' = [n \in heap' |-> IF n \in heap THEN drawn[n] ELSE Numbers(w, r, s)]
    BY <2>0
  <2>2. SUFFICES ASSUME NEW n \in heap', NEW c \in Calls PROVE InRange(drawn'[n][c], c)
    BY DEF InvNumbers, InRange
  <2>3. CASE n \in heap  BY <2>1, <2>3 DEF InvNumbers
  <2>4. CASE n \notin heap
    <3>1. drawn'[n] = Numbers(w, r, s)  BY <2>1, <2>4
    <3> QED  BY <3>1, NumbersInRange
  <2> QED  BY <2>3, <2>4
<1>5. ASSUME NEW t \in Threads, removeItem(t) PROVE InvNumbers'
  <2>1. heap' \subseteq heap  BY <1>5 DEF removeItem, RemoveItem
  <2>2. drawn' = [n \in heap' |-> drawn[n]]  BY <1>5 DEF removeItem
  <2>3. SUFFICES ASSUME NEW n \in heap', NEW c \in Calls PROVE InRange(drawn'[n][c], c)
    BY DEF InvNumbers, InRange
  <2> QED  BY <2>1, <2>2 DEF InvNumbers
<1>6. ASSUME NEW t \in Threads, Moves(t) PROVE InvNumbers'  BY <1>1, <1>6, MovesKeepItems
<1> QED  BY <1>2, <1>3, <1>4, <1>5, <1>6 DEF NNext

\* Whatever is drawn, a number that a producer waits by or puts into an item
\* leaves the range of its caller only if the draw was the least int.
THEOREM RangeKept == NSpec => []OnlyIntMin
<1>1. NInit => InvNumbers  BY DEF NInit, Init, InvNumbers
<1> QED  BY <1>1, StepKeepsNumbers, SameProperty, PTL DEF NSpec

\* The numbers only add to the program of ProducerConsumer: each of its theorems
\* holds here.
THEOREM NumbersOnlyAdd == NSpec => Spec
<1>1. NInit => Init  BY DEF NInit
<1>2. [NNext]_nvars => [Next]_vars
  BY DEF NNext, nvars, Next, createRandomItem, removeItem, Moves, ThreadStep, Running
<1> QED  BY <1>1, <1>2, PTL DEF NSpec, Spec
================================================================================
